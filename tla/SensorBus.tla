----------------------------- MODULE SensorBus ------------------------------
(***************************************************************************)
(* The camera register drivers of the EVSoC module (PiCamDriver.c,         *)
(* PiCamV3Driver.c) on the polled I2C controller (i2c.h): module load      *)
(* configures both cameras and the focus actuator, the ioctl changes the   *)
(* binning of the V2 camera, unload stops the V3 stream.                   *)
(*                                                                         *)
(* assert() is "#define assert(pFun) pFun" in my_def.h, so a missing       *)
(* acknowledge changes nothing.  PICAM_V2 is defined as 0 but tested with  *)
(* #ifdef, so both cameras are configured.  Tables of register values are  *)
(* represented by leading entries.  Controller and chips are external; the *)
(* controller gives up a frame nothing happens on for the millisecond that *)
(* mipi_i2c_init sets, which a caller preempted between two bytes lets     *)
(* pass.  What it does with the bytes it gets after that is not in the     *)
(* repository: they are used up and go nowhere, or the caller waits for    *)
(* ever.                                                                   *)
(***************************************************************************)
EXTENDS Integers, Sequences, TLC

CONSTANTS
  Chips,          \* the I2C chips fitted
  Binnings,       \* arguments of CMD_SET_CAM_BINNING
  MaxDrops,       \* bound on the frames the controller gives up
  QuietLoad       \* TRUE: nobody calls the ioctl while the module is loading or unloading

V2 == 16          \* 0x10, IMX219
V3 == 26          \* 0x1A, IMX708
Focus == 12       \* 0x0C, DW9807

ASSUME SensorAssumption ==
  /\ Chips \subseteq {V2, V3, Focus} /\ Binnings \subseteq Nat
  /\ MaxDrops \in Nat /\ QuietLoad \in BOOLEAN

VARIABLES
  sload,          \* progress of evsoc_init and evsoc_exit
  list,           \* per caller: the writes left, the one in progress first
  sent,           \* per caller: bytes of that write given to the controller; -1 before START
  wire,           \* bytes the controller has shifted out since START
  txd,            \* the byte in TX_DATA not shifted out yet, or NoByte
  sregs,          \* the registers of the chips fitted
  lapsed,         \* the controller has given up the frame in progress
  drops           \* frames given up so far

given == <<lapsed, drops>>
sensorVars == <<sload, list, sent, wire, txd, sregs, given>>

SensorCallers == {"load", "ioctl"}
NoByte == 256

Write(chip, reg, val) == [chip |-> chip, reg |-> reg, val |-> val]
Writes(chip, pairs) == [i \in DOMAIN pairs |-> Write(chip, pairs[i][1], pairs[i][2])]

\* A 16-bit quantity is written as two registers, high byte first.
Pair(reg, v) == << <<reg, v \div 256>>, <<reg + 1, v % 256>> >>

AccessCommSeq ==
  << <<\h30EB, \h05>>, <<\h30EB, \h0C>>, <<\h300A, \hFF>>, <<\h300B, \hFF>>,
     <<\h30EB, \h05>>, <<\h30EB, \h09>> >>

PiCam_Output_activePixel(x0, x1, y0, y1) ==
  Pair(\h0164, x0) \o Pair(\h0166, x1) \o Pair(\h0168, y0) \o Pair(\h016A, y1)

PiCam_Output_Size == Pair(\h016C, 1280) \o Pair(\h016E, 720)

PiCam_SetBinningMode(x, y) ==
  LET clamp(m) == IF m >= 3 THEN 3 ELSE m
  IN << <<\h0174, clamp(x)>>, <<\h0175, clamp(y)>> >>

\* ANA_GAIN_GLOBAL_A and the 12-bit DIG_GAIN_GLOBAL_A.
PiCam_Gainfilter(a, d) == << <<\h0157, a>> >> \o Pair(\h0158, d % 4096)

\* The PLL registers VTPXCK_DIV to PLL_OP_MPY are represented by the first.
PiCam_setup ==
  << <<\h0100, 0>> >> \o AccessCommSeq \o << <<\h0114, 1>>, <<\h0128, 0>> >>
  \o Pair(\h012A, \h1800) \o Pair(\h0160, \h0459) \o Pair(\h0162, \h0D78)
  \o PiCam_Output_activePixel(680, 3279, 0, 2463) \o PiCam_Output_Size
  \o << <<\h0170, 1>>, <<\h0171, 1>> >> \o PiCam_SetBinningMode(0, 0)
  \o Pair(\h018C, \h0A0A) \o << <<\h0301, 5>>, <<\h0100, 1>> >>
  \o PiCam_Gainfilter(\hB9, \h200) \o Pair(\h0162, \h0D78)
  \o Pair(\h0160, \h0AA8) \o Pair(\h015A, \h0A54) \o << <<\h0172, 0>> >>
PiCam_init == Writes(V2, PiCam_setup)

PiCamV3_StartStreaming == Writes(V3, << <<\h0100, 1>> >>)
PiCamV3_StopStreaming  == Writes(V3, << <<\h0100, 0>> >>)

\* The register tables, by their leading entries: streaming off and the clock of the common
\* one, line and frame length of the modes, and the first of the gains and of the link.
mode_common_regs == << <<\h0100, 0>> >> \o Pair(\h0136, \h1800)
mode_1920x1080_cropped_regs == Pair(\h0342, \h1D10) \o Pair(\h0340, \h0640)
mode_2x2binned_1920x1080_regs == Pair(\h0342, \h1D10) \o Pair(\h0340, \h0520)
mode_hdr_1920x1080_regs == Pair(\h0342, \h1460) \o Pair(\h0340, \h09B5)
pdaf_gains == <<\h4C, \h35>>
link_450Mhz_regs == Pair(\h030E, \h012C)

PiCamV3_ConfigCommon == mode_common_regs

\* The left and the right gains, turn about.
PiCamV3_SetPdafGain == << <<\h7B10, pdaf_gains[1]>>, <<\h7C00, pdaf_gains[2]>> >>

\* Cropped, 2x2 binned or HDR; another mode writes nothing.
PiCamV3_ConfigFormat(mode) ==
  CASE mode = 0 -> mode_1920x1080_cropped_regs
    [] mode = 1 -> mode_2x2binned_1920x1080_regs
    [] mode = 2 -> mode_hdr_1920x1080_regs
    [] OTHER -> <<>>

PiCamV3_ConfigLinkFreq == link_450Mhz_regs
PiCamV3_ConfigQuadBayerRemosaicAdjustment == << <<\hC428, 0>>, <<\hC429, 4>> >>

PiCamV3_OnActuator  == Writes(Focus, << <<2, 0>> >>)
PiCamV3_OffActuator == Writes(Focus, << <<2, 1>> >>)

\* Two frames, high bits first.
PiCamV3_SetFocusStep(step) ==
  LET s == IF step >= 1023 THEN 1023 ELSE step
  IN Writes(Focus, << <<3, (s \div 256) % 4>>, <<4, s % 256>> >>)

PiCamV3_Init ==
  PiCamV3_StopStreaming
    \o Writes(V3, PiCamV3_ConfigCommon \o PiCamV3_SetPdafGain \o PiCamV3_ConfigFormat(1)
                     \o PiCamV3_ConfigLinkFreq \o PiCamV3_ConfigQuadBayerRemosaicAdjustment)
    \o PiCamV3_OnActuator \o PiCamV3_SetFocusStep(300) \o PiCamV3_OffActuator

\* main_init's writes, in order.
ConfigList == PiCam_init \o PiCamV3_Init \o PiCamV3_StartStreaming

\* The frame of a write: the chip's address, its register address, the value.
Frame(w) ==
  IF w.chip = Focus THEN <<w.chip, w.reg, w.val>>
  ELSE <<w.chip, w.reg \div 256, w.reg % 256, w.val>>

SensorInit ==
  /\ sload = "out" /\ list = [c \in SensorCallers |-> <<>>]
  /\ sent = [c \in SensorCallers |-> -1] /\ wire = <<>> /\ txd = NoByte /\ sregs = <<>>
  /\ lapsed = FALSE /\ drops = 0

Ask(c, l) ==
  list[c] = <<>> /\ list' = [list EXCEPT ![c] = l] /\ UNCHANGED <<sent, wire, txd, sregs, given>>

LoadCameras == sload = "out" /\ sload' = "loading" /\ Ask("load", ConfigList)

LoadedCameras ==
  /\ sload = "loading" /\ list["load"] = <<>> /\ sload' = "live"
  /\ UNCHANGED <<list, sent, wire, txd, sregs, given>>

\* main_exit; rmmod waits for the device to be closed.
UnloadCameras ==
  /\ sload = "live" /\ list["ioctl"] = <<>> /\ sload' = "unloading"
  /\ Ask("load", PiCamV3_StopStreaming)

\* CMD_SET_CAM_BINNING: /dev/evsoc exists while main_init runs.
IoctlBinning ==
  /\ sload \in IF QuietLoad THEN {"live"} ELSE {"loading", "live"}
  /\ \E v \in Binnings : v < 3 /\ Ask("ioctl", Writes(V2, PiCam_SetBinningMode(v, v)))
  /\ UNCHANGED sload

\* i2c_masterStartBlocking
MasterStart(c) ==
  /\ list[c] # <<>> /\ sent[c] = -1
  /\ sent' = [sent EXCEPT ![c] = 0] /\ wire' = <<>> /\ lapsed' = FALSE
  /\ UNCHANGED <<sload, list, txd, sregs, drops>>

\* Mutant: nothing waits for the acknowledge.
txAckWait_mutant == TRUE

\* i2c_txAckWait: the acknowledge bit of the last byte is over.
txAckWait == txd = NoByte

\* i2c_txByte of the next byte; i2c_txNackBlocking's wait ends before the one after it.
TxByte(c) ==
  /\ list[c] # <<>> /\ sent[c] >= 0 /\ sent[c] < Len(Frame(Head(list[c]))) /\ txAckWait
  /\ txd' = Frame(Head(list[c]))[sent[c] + 1] /\ sent' = [sent EXCEPT ![c] = @ + 1]
  /\ UNCHANGED <<sload, list, wire, sregs, given>>

\* i2c_masterStopBlocking, and the caller goes on with its next write.
MasterStop(c) ==
  /\ list[c] # <<>> /\ sent[c] = Len(Frame(Head(list[c]))) /\ txAckWait
  /\ wire' = <<>> /\ sent' = [sent EXCEPT ![c] = -1] /\ list' = [list EXCEPT ![c] = Tail(@)]
  /\ UNCHANGED <<sload, txd, sregs, given>>

\* The controller shifts the byte out.  A fitted chip addressed by the frame stores each byte
\* after the register address in that register, then in the ones after it.
Shift ==
  LET w == Append(wire, txd)
      hdr == IF w[1] = Focus THEN 2 ELSE 3
      reg == IF w[1] = Focus THEN w[2] ELSE w[2] * 256 + w[3]
  IN /\ txd # NoByte /\ txd' = NoByte /\ ~lapsed /\ wire' = w
     /\ sregs' = IF w[1] \in Chips /\ Len(w) > hdr
                   THEN (<<w[1], reg + Len(w) - hdr - 1>> :> txd) @@ sregs ELSE sregs
     /\ UNCHANGED <<sload, list, sent, given>>

\* A byte after the frame was given up.
Swallow ==
  /\ txd # NoByte /\ txd' = NoByte /\ lapsed /\ UNCHANGED <<sload, list, sent, wire, sregs, given>>

\* The controller's timeout: the frame is given up.
Drop ==
  /\ ~lapsed /\ lapsed' = TRUE /\ txd = NoByte /\ \E c \in SensorCallers : sent[c] >= 0
  /\ drops < MaxDrops /\ drops' = drops + 1
  /\ UNCHANGED <<sload, list, sent, wire, txd, sregs>>

SensorNext ==
  \/ LoadCameras \/ LoadedCameras \/ UnloadCameras \/ IoctlBinning \/ Shift \/ Swallow \/ Drop
  \/ \E c \in SensorCallers : MasterStart(c) \/ TxByte(c) \/ MasterStop(c)

SensorSpec == SensorInit /\ [][SensorNext]_sensorVars

-----------------------------------------------------------------------------

\* The write in progress has been carried out once its last byte is on the wire.
Carried(c) == list[c] # <<>> /\ sent[c] = Len(Frame(Head(list[c]))) /\ txd = NoByte

SensorLists ==
  {ConfigList, PiCamV3_StopStreaming} \cup {Writes(V2, PiCam_SetBinningMode(v, v)) : v \in Binnings}

File == INSTANCE SensorFile WITH
  Callers <- SensorCallers, Lists <- SensorLists,
  todo <- [c \in SensorCallers |-> IF Carried(c) THEN Tail(list[c]) ELSE list[c]],
  file <- sregs, gaveup <- lapsed

\* The polled byte-by-byte transfers carry out whole register writes, in order: no register
\* gets a byte meant for another register, another chip or the register address, and a frame the
\* controller gives up in the middle of loses its own write and nothing else.
WholeWrites == File!FileSpec

=============================================================================
