------------------------------ MODULE I2cProofs -----------------------------
(***************************************************************************)
(* Theorems about the I2C bus: EfxI2c for every set of transfers (any      *)
(* number of messages of any length) and every interleaving of master,     *)
(* slave and bus; SensorBus, the drivers of the sensors on it, implements  *)
(* SensorFile, for every set of chips fitted and of binnings asked for,    *)
(* when the ioctl is not called while the module is loading or unloading.  *)
(***************************************************************************)
EXTENDS EfxI2c, SensorBus, SequenceTheorems, TLAPS

(***************************************************************************)
(* The master.                                                             *)
(***************************************************************************)
MasterTypes ==
  /\ mpc \in {"idle", "msg", "addr", "loop", "data"}
  /\ Len(msgs) \in Nat /\ \A m \in 1 .. Len(msgs) : msgs[m].len \in Nat
  /\ i \in Nat /\ count \in Nat
  /\ moved \in [1 .. Len(msgs) -> Nat]
  /\ mpc # "idle" => i \in 1 .. Len(msgs) /\ count <= Msg.len

\* What the devices have accepted of a transfer under way: all of the messages before the
\* current one, nothing of those after it, and of the current one what the point reached says.
\* While a byte is on the wire RX_ACK still speaks of the one before it.
Progress ==
  mpc # "idle" =>
    /\ \A m \in 1 .. Len(msgs) : m < i => moved[m] = msgs[m].len + 1
    /\ \A m \in 1 .. Len(msgs) : m > i => moved[m] = 0
    /\ mpc = "msg" => moved[i] = 0 /\ count = Msg.len
    /\ mpc = "addr" =>
         /\ count = Msg.len
         /\ IF txvalid THEN moved[i] = 0 ELSE rxack => moved[i] = 1
    /\ mpc = "loop" => ~txvalid /\ moved[i] = Msg.len + 1 - count
    /\ mpc = "data" =>
         /\ count > 0
         /\ IF txvalid THEN moved[i] = Msg.len + 1 - count
                       ELSE Msg.rd \/ rxack => moved[i] = Msg.len + 2 - count

MasterInv == MasterTypes /\ Progress /\ SuccessIsComplete

\* A transfer that is still looking at the bus has not touched it.
ReleaseInv ==
  mpc = "idle" \/ (mpc = "msg" /\ i = 1) => (busy => stop)

\* Each step of the transfer and its interrupts preserves the account of the messages.
LEMMA MasterStep ==
  ASSUME MasterInv, [I2cNext]_i2cVars
  PROVE  MasterInv'
<1> USE DEF MasterInv, MasterTypes, Progress, SuccessIsComplete, Msg, IsLast,
            masterVars, busVars, efx_i2c_master_busy, efx_i2c_rx_ack
<1>1. ASSUME NEW t \in Transfers, Xfer(t)
      PROVE  MasterInv'
  <2> DEFINE Message == [rd : BOOLEAN, len : Nat]
  <2>1. t \in Seq(Message) /\ t # <<>>
    BY I2cAssumption
  <2>2. \A e \in Message : e.len \in Nat
    BY Zenon
  <2> HIDE DEF Message
  <2>3. Len(t) \in Nat /\ Len(t) > 0
    BY <2>1, EmptySeq
  <2>4. \A m \in 1 .. Len(t) : t[m].len \in Nat
    BY <2>1, <2>2, ElementOfSeq
  <2> QED BY <1>1, <2>3, <2>4 DEF Xfer
<1>2. CASE MsgBusy
  BY <1>2 DEF MsgBusy, Return
<1>3. CASE MsgStart
  BY <1>3 DEF MsgStart
<1>4. CASE AddrAcked
  BY <1>4 DEF AddrAcked, Terminate, Return
<1>5. CASE SendByte
  BY <1>5 DEF SendByte
<1>6. CASE ByteDone
  <2>1. MasterTypes'
    BY <1>6 DEF ByteDone, Terminate, Return
  <2>2. SuccessIsComplete'
    BY <1>6 DEF ByteDone, Terminate, Return
  <2>3. Progress'
    BY <1>6 DEF ByteDone, Terminate, Return
  <2> QED BY <2>1, <2>2, <2>3
<1>7. CASE WaitTimeout
  BY <1>7 DEF WaitTimeout, Terminate, Return
<1>8. CASE EndMsg
  BY <1>8 DEF EndMsg, Terminate, Return
<1>9. CASE WireByte
  BY <1>9 DEF WireByte
<1>10. CASE WireStop
  BY <1>10 DEF WireStop
<1>11. CASE WireDrop
  BY <1>11 DEF WireDrop
<1>12. CASE Probe \/ Remove
  <2>1. UNCHANGED <<masterVars, busVars>>
    BY <1>12, Zenon DEF Probe, Remove
  <2> QED BY <2>1
<1>13. CASE SlaveNext
  <2>1. UNCHANGED <<masterVars, busVars>>
    BY <1>13, Zenon DEF SlaveNext, RegSlave, UnregSlave, BusAddress, BusData, BusEnd, IsrIdle,
                        IsrWrite, IsrRead
  <2> QED BY <2>1
<1>14. CASE UNCHANGED i2cVars
  BY <1>14 DEF i2cVars
<1> QED
  BY <1>1, <1>2, <1>3, <1>4, <1>5, <1>6, <1>7, <1>8, <1>9, <1>10, <1>11, <1>12, <1>13, <1>14
     DEF I2cNext, MasterNext

\* Between transfers the bus is free or about to be.
LEMMA ReleaseStep ==
  ASSUME MasterInv, ReleaseInv, [I2cNext]_i2cVars
  PROVE  ReleaseInv'
<1> USE DEF MasterInv, MasterTypes, ReleaseInv, Msg, IsLast, masterVars, busVars,
            efx_i2c_master_busy, efx_i2c_rx_ack
<1>1. ASSUME NEW t \in Transfers, Xfer(t)
      PROVE  ReleaseInv'
  BY <1>1 DEF Xfer
<1>2. CASE MsgBusy
  BY <1>2 DEF MsgBusy, Return
<1>3. CASE MsgStart
  BY <1>3 DEF MsgStart
<1>4. CASE AddrAcked
  BY <1>4 DEF AddrAcked, Terminate, Return
<1>5. CASE SendByte
  BY <1>5 DEF SendByte
<1>6. CASE ByteDone
  BY <1>6 DEF ByteDone, Terminate, Return
<1>7. CASE WaitTimeout
  BY <1>7 DEF WaitTimeout, Terminate, Return
<1>8. CASE EndMsg
  <2>1. CASE ~IsLast
    <3>1. i' = i + 1 /\ mpc' = "msg" /\ i \in 1 .. Len(msgs)
      BY <1>8, <2>1 DEF EndMsg, Terminate, Return
    <3> QED BY <3>1
  <2>2. CASE IsLast
    <3>1. (busy' => stop') \/ ~busy'
      BY <1>8, <2>2, Zenon DEF EndMsg, Terminate, Return
    <3> QED BY <3>1
  <2> QED BY <2>1, <2>2
<1>9. CASE WireByte
  BY <1>9 DEF WireByte
<1>10. CASE WireStop
  BY <1>10 DEF WireStop
<1>11. CASE WireDrop
  BY <1>11 DEF WireDrop
<1>12. CASE Probe \/ Remove
  <2>1. UNCHANGED <<masterVars, busVars>>
    BY <1>12, Zenon DEF Probe, Remove
  <2> QED BY <2>1
<1>13. CASE SlaveNext
  <2>1. UNCHANGED <<masterVars, busVars>>
    BY <1>13, Zenon DEF SlaveNext, RegSlave, UnregSlave, BusAddress, BusData, BusEnd, IsrIdle,
                        IsrWrite, IsrRead
  <2> QED BY <2>1
<1>14. CASE UNCHANGED i2cVars
  BY <1>14 DEF i2cVars
<1> QED
  BY <1>1, <1>2, <1>3, <1>4, <1>5, <1>6, <1>7, <1>8, <1>9, <1>10, <1>11, <1>12, <1>13, <1>14
     DEF I2cNext, MasterNext

(***************************************************************************)
(* The slave.                                                              *)
(***************************************************************************)
\* The state machine is in a data state only for the frame announced to the client, until the
\* filter's flag says that another has begun; TX_DATA is used up by a byte of that frame only,
\* so that when the handler is asked for the next one, RX_DATA is a byte of it.
SlaveInv ==
  /\ filter \in {"off", "on", "flag"}
  /\ filter = "off" => state = "IDLE" /\ announced = "none" /\ frame \notin {"write", "read"}
  /\ announced \in {"none", "write", "read"}
  /\ announced # "none" => frame \in {announced, "none"}
  /\ announced = "write" /\ ~armed => rx
  /\ state \in {"WRITE_ADDR", "WRITE_DATA0"} /\ filter # "flag" => announced = "write"
  /\ state = "READ_DATA0" /\ filter # "flag" => announced = "read"
  /\ event.fits

\* The address filter, the slave handler and the bus agree on the direction of a frame.
LEMMA SlaveStep ==
  ASSUME SlaveInv, [I2cNext]_i2cVars
  PROVE  SlaveInv'
<1> USE DEF SlaveInv, slaveVars
<1>1. CASE RegSlave
  BY <1>1 DEF RegSlave
<1>2. CASE UnregSlave
  BY <1>2 DEF UnregSlave
<1>3. ASSUME NEW f \in Frames \ {"none"}, BusAddress(f)
      PROVE  SlaveInv'
  BY <1>3 DEF BusAddress, Stretched, Frames
<1>4. CASE BusData
  BY <1>4 DEF BusData, Stretched
<1>5. CASE BusEnd
  BY <1>5 DEF BusEnd, Stretched
<1>6. CASE IsrIdle
  <2>1. CASE frame \in {"write", "read"}
    BY <1>6, <2>1 DEF IsrIdle, IrqPending, Deliver, ArmTx
  <2>2. CASE frame \notin {"write", "read"}
    BY <1>6, <2>2 DEF IsrIdle, IrqPending
  <2> QED BY <2>1, <2>2
<1>7. CASE IsrWrite
  BY <1>7 DEF IsrWrite, IrqPending, Deliver, ArmTx
<1>8. CASE IsrRead
  BY <1>8 DEF IsrRead, IrqPending, Deliver, ArmTx
<1>9. CASE Probe \/ Remove
  BY <1>9 DEF Probe, Remove
<1>10. CASE MasterNext
  <2>1. UNCHANGED slaveVars
    BY <1>10, Zenon DEF MasterNext, Xfer, MsgBusy, MsgStart, AddrAcked, SendByte, ByteDone,
                        WaitTimeout, EndMsg, WireByte, WireStop, WireDrop
  <2> QED BY <2>1
<1>11. CASE UNCHANGED i2cVars
  BY <1>11 DEF i2cVars
<1> QED
  BY <1>1, <1>2, <1>3, <1>4, <1>5, <1>6, <1>7, <1>8, <1>9, <1>10, <1>11 DEF I2cNext, SlaveNext

(***************************************************************************)
(* The theorems.                                                           *)
(***************************************************************************)
\* efx_i2c_xfer reports success only for a transfer of which every byte was accepted, for any
\* messages, refused bytes, dropped frames, late acknowledges and timed-out waits.
THEOREM TransfersAreComplete == I2cSpec => []SuccessIsComplete
<1>1. I2cInit => MasterInv
  BY DEF I2cInit, MasterInv, MasterTypes, Progress, SuccessIsComplete, Msg
<1>2. MasterInv /\ [I2cNext]_i2cVars => MasterInv'
  BY MasterStep
<1>3. MasterInv => SuccessIsComplete
  BY DEF MasterInv
<1> QED BY <1>1, <1>2, <1>3, PTL DEF I2cSpec

\* Every transfer, successful, refused, timed out or given up, leaves a bus that is free or
\* about to be.
THEOREM BusIsAlwaysReleased == I2cSpec => []BusIsReleased
<1>1. I2cInit => MasterInv /\ ReleaseInv
  BY DEF I2cInit, MasterInv, MasterTypes, Progress, SuccessIsComplete, Msg, ReleaseInv
<1>2. MasterInv /\ ReleaseInv /\ [I2cNext]_i2cVars => MasterInv' /\ ReleaseInv'
  BY MasterStep, ReleaseStep
<1>3. ReleaseInv => BusIsReleased
  BY DEF ReleaseInv, BusIsReleased
<1> QED BY <1>1, <1>2, <1>3, PTL DEF I2cSpec

\* The slave handler talks to its client only about bytes of the frame it announced, for any
\* order of filter and data interrupts, registrations and frames on the bus.
THEOREM EventsAreInFrame == I2cSpec => []EventsFitFrame
<1>1. I2cInit => SlaveInv
  BY DEF I2cInit, SlaveInv, NoEvent
<1>2. SlaveInv /\ [I2cNext]_i2cVars => SlaveInv'
  BY SlaveStep
<1>3. SlaveInv => EventsFitFrame
  BY DEF SlaveInv, EventsFitFrame
<1> QED BY <1>1, <1>2, <1>3, PTL DEF I2cSpec

(***************************************************************************)
(* The lists of register writes.                                           *)
(***************************************************************************)
\* Register address and value of a write to a camera.
CameraPair == {c \in Nat \X (0 .. 255) : c[1] < 65536}

\* The focus actuator has one-byte register addresses.
GoodWrite ==
  {w \in [chip : {V2, V3, Focus}, reg : Nat, val : 0 .. 255] :
     w.reg < IF w.chip = Focus THEN 256 ELSE 65536}

\* The two writes of a 16-bit quantity.
LEMMA PairGood ==
  ASSUME NEW reg \in Nat, NEW v \in Nat, reg < 65535, v < 65536
  PROVE  Pair(reg, v) \in Seq(CameraPair)
<1>1. v \div 256 \in 0 .. 255 /\ v % 256 \in 0 .. 255
  OBVIOUS
<1>2. <<reg, v \div 256>> \in CameraPair /\ <<reg + 1, v % 256>> \in CameraPair
  BY <1>1 DEF CameraPair
<1> QED BY <1>2 DEF Pair

\* A list of camera writes.
LEMMA WritesGood ==
  ASSUME NEW chip \in {V2, V3}, NEW pairs \in Seq(CameraPair)
  PROVE  Writes(chip, pairs) \in Seq(GoodWrite)
<1>1. \A k \in 1 .. Len(pairs) : Write(chip, pairs[k][1], pairs[k][2]) \in GoodWrite
  <2> SUFFICES ASSUME NEW k \in 1 .. Len(pairs)
               PROVE  Write(chip, pairs[k][1], pairs[k][2]) \in GoodWrite
    OBVIOUS
  <2>1. pairs[k] \in CameraPair
    BY ElementOfSeq
  <2>2. pairs[k][1] \in Nat /\ pairs[k][1] < 65536 /\ pairs[k][2] \in 0 .. 255
    BY <2>1 DEF CameraPair
  <2> QED BY <2>2 DEF Write, GoodWrite, V2, V3, Focus
<1>2. Len(pairs) \in Nat /\ DOMAIN pairs = 1 .. Len(pairs)
  BY LenProperties
<1> QED BY <1>1, <1>2 DEF Writes

\* Lists are put together from parts.
LEMMA JoinGood ==
  /\ \A s, t \in Seq(CameraPair) : s \o t \in Seq(CameraPair)
  /\ \A s, t \in Seq(GoodWrite) : s \o t \in Seq(GoodWrite)
BY ConcatProperties

\* The binning registers, which CMD_SET_CAM_BINNING writes too.
LEMMA BinningGood ==
  ASSUME NEW x \in Nat, NEW y \in Nat
  PROVE  PiCam_SetBinningMode(x, y) \in Seq(CameraPair)
BY DEF PiCam_SetBinningMode, CameraPair

\* The V2 camera.
LEMMA V2Good == PiCam_init \in Seq(GoodWrite)
<1>1. /\ AccessCommSeq \in Seq(CameraPair)
      /\ << <<\h0100, 0>> >> \in Seq(CameraPair)
      /\ << <<\h0114, 1>>, <<\h0128, 0>> >> \in Seq(CameraPair)
      /\ << <<\h0170, 1>>, <<\h0171, 1>> >> \in Seq(CameraPair)
      /\ << <<\h0301, 5>>, <<\h0100, 1>> >> \in Seq(CameraPair)
      /\ << <<\h0172, 0>> >> \in Seq(CameraPair)
      /\ << <<\h0157, \hB9>> >> \in Seq(CameraPair)
  BY DEF AccessCommSeq, CameraPair
<1>2. /\ Pair(\h012A, \h1800) \in Seq(CameraPair) /\ Pair(\h0160, \h0459) \in Seq(CameraPair)
      /\ Pair(\h0162, \h0D78) \in Seq(CameraPair) /\ Pair(\h018C, \h0A0A) \in Seq(CameraPair)
      /\ Pair(\h0160, \h0AA8) \in Seq(CameraPair) /\ Pair(\h015A, \h0A54) \in Seq(CameraPair)
  <2>1. Pair(\h012A, \h1800) \in Seq(CameraPair) /\ Pair(\h0160, \h0459) \in Seq(CameraPair)
    BY PairGood
  <2>2. Pair(\h0162, \h0D78) \in Seq(CameraPair) /\ Pair(\h018C, \h0A0A) \in Seq(CameraPair)
    BY PairGood
  <2>3. Pair(\h0160, \h0AA8) \in Seq(CameraPair) /\ Pair(\h015A, \h0A54) \in Seq(CameraPair)
    BY PairGood
  <2> QED BY <2>1, <2>2, <2>3
<1>3. PiCam_Output_activePixel(680, 3279, 0, 2463) \in Seq(CameraPair)
  <2>1. Pair(\h0164, 680) \in Seq(CameraPair) /\ Pair(\h0166, 3279) \in Seq(CameraPair)
    BY PairGood
  <2>2. Pair(\h0168, 0) \in Seq(CameraPair) /\ Pair(\h016A, 2463) \in Seq(CameraPair)
    BY PairGood
  <2> QED BY <2>1, <2>2, JoinGood DEF PiCam_Output_activePixel
<1>4. PiCam_Output_Size \in Seq(CameraPair)
  <2>1. Pair(\h016C, 1280) \in Seq(CameraPair) /\ Pair(\h016E, 720) \in Seq(CameraPair)
    BY PairGood
  <2> QED BY <2>1, JoinGood DEF PiCam_Output_Size
<1>5. PiCam_SetBinningMode(0, 0) \in Seq(CameraPair)
  BY BinningGood
<1>6. PiCam_Gainfilter(\hB9, \h200) \in Seq(CameraPair)
  <2>1. \h200 % 4096 = \h200
    OBVIOUS
  <2>2. Pair(\h0158, \h200) \in Seq(CameraPair)
    BY PairGood
  <2> QED BY <1>1, <2>1, <2>2, JoinGood DEF PiCam_Gainfilter
<1>7. PiCam_setup \in Seq(CameraPair)
  BY <1>1, <1>2, <1>3, <1>4, <1>5, <1>6, JoinGood DEF PiCam_setup
<1> QED BY <1>7, WritesGood DEF PiCam_init

\* The V3 camera: what is written to the camera itself.
LEMMA V3Good ==
  /\ PiCamV3_StartStreaming \in Seq(GoodWrite)
  /\ PiCamV3_StopStreaming \in Seq(GoodWrite)
  /\ Writes(V3, PiCamV3_ConfigCommon \o PiCamV3_SetPdafGain \o PiCamV3_ConfigFormat(1)
                  \o PiCamV3_ConfigLinkFreq \o PiCamV3_ConfigQuadBayerRemosaicAdjustment)
       \in Seq(GoodWrite)
<1>1. << <<\h0100, 0>> >> \in Seq(CameraPair) /\ << <<\h0100, 1>> >> \in Seq(CameraPair)
  BY DEF CameraPair
<1>2. PiCamV3_ConfigCommon \in Seq(CameraPair)
  <2>1. Pair(\h0136, \h1800) \in Seq(CameraPair)
    BY PairGood
  <2> QED BY <1>1, <2>1, JoinGood DEF PiCamV3_ConfigCommon, mode_common_regs
<1>3. PiCamV3_SetPdafGain \in Seq(CameraPair)
  BY DEF PiCamV3_SetPdafGain, pdaf_gains, CameraPair
<1>4. PiCamV3_ConfigFormat(1) \in Seq(CameraPair)
  <2>1. Pair(\h0342, \h1D10) \in Seq(CameraPair) /\ Pair(\h0340, \h0520) \in Seq(CameraPair)
    BY PairGood
  <2>2. mode_2x2binned_1920x1080_regs \in Seq(CameraPair)
    BY <2>1, JoinGood DEF mode_2x2binned_1920x1080_regs
  <2> QED BY <2>2 DEF PiCamV3_ConfigFormat
<1>5. PiCamV3_ConfigLinkFreq \in Seq(CameraPair)
  BY PairGood DEF PiCamV3_ConfigLinkFreq, link_450Mhz_regs
<1>6. PiCamV3_ConfigQuadBayerRemosaicAdjustment \in Seq(CameraPair)
  BY DEF PiCamV3_ConfigQuadBayerRemosaicAdjustment, CameraPair
<1> DEFINE all == PiCamV3_ConfigCommon \o PiCamV3_SetPdafGain \o PiCamV3_ConfigFormat(1)
                    \o PiCamV3_ConfigLinkFreq \o PiCamV3_ConfigQuadBayerRemosaicAdjustment
<1>7. all \in Seq(CameraPair)
  BY <1>2, <1>3, <1>4, <1>5, <1>6, JoinGood
<1>8. Writes(V3, all) \in Seq(GoodWrite)
  <2> HIDE DEF all
  <2> QED BY <1>7, WritesGood
<1>9. PiCamV3_StartStreaming \in Seq(GoodWrite)
  BY <1>1, WritesGood DEF PiCamV3_StartStreaming
<1>10. PiCamV3_StopStreaming \in Seq(GoodWrite)
  BY <1>1, WritesGood DEF PiCamV3_StopStreaming
<1> QED BY <1>8, <1>9, <1>10

\* The focus actuator.
LEMMA FocusGood ==
  /\ PiCamV3_OnActuator \in Seq(GoodWrite)
  /\ PiCamV3_OffActuator \in Seq(GoodWrite)
  /\ PiCamV3_SetFocusStep(300) \in Seq(GoodWrite)
<1>1. PiCamV3_OnActuator = << Write(Focus, 2, 0) >>
  BY DEF PiCamV3_OnActuator, Writes
<1>2. PiCamV3_OffActuator = << Write(Focus, 2, 1) >>
  BY DEF PiCamV3_OffActuator, Writes
<1>3. PiCamV3_SetFocusStep(300) = << Write(Focus, 3, 1), Write(Focus, 4, 44) >>
  BY DEF PiCamV3_SetFocusStep, Writes
<1>4. \A a \in GoodWrite : <<a>> \in Seq(GoodWrite)
  OBVIOUS
<1>5. PiCamV3_OnActuator \in Seq(GoodWrite)
  <2> DEFINE w == Write(Focus, 2, 0)
  <2>1. w \in GoodWrite
    BY DEF Write, GoodWrite
  <2> HIDE DEF w
  <2>2. <<w>> \in Seq(GoodWrite)
    BY <1>4, <2>1
  <2> QED BY <1>1, <2>2 DEF w
<1>6. PiCamV3_OffActuator \in Seq(GoodWrite)
  <2> DEFINE w == Write(Focus, 2, 1)
  <2>1. w \in GoodWrite
    BY DEF Write, GoodWrite
  <2> HIDE DEF w
  <2>2. <<w>> \in Seq(GoodWrite)
    BY <1>4, <2>1
  <2> QED BY <1>2, <2>2 DEF w
<1>7. PiCamV3_SetFocusStep(300) \in Seq(GoodWrite)
  <2> DEFINE v == Write(Focus, 3, 1)
             w == Write(Focus, 4, 44)
  <2>1. v \in GoodWrite /\ w \in GoodWrite
    BY DEF Write, GoodWrite
  <2> HIDE DEF v, w
  <2>2. <<v, w>> \in Seq(GoodWrite)
    BY <2>1
  <2> QED BY <1>3, <2>2 DEF v, w
<1> QED BY <1>5, <1>6, <1>7

\* Every list a caller asks for.
LEMMA ListsGood == SensorLists \subseteq Seq(GoodWrite)
<1>1. PiCamV3_Init \in Seq(GoodWrite)
  BY V3Good, FocusGood, JoinGood DEF PiCamV3_Init
<1>2. ConfigList \in Seq(GoodWrite)
  BY <1>1, V2Good, V3Good, JoinGood DEF ConfigList
<1>3. \A v \in Binnings : Writes(V2, PiCam_SetBinningMode(v, v)) \in Seq(GoodWrite)
  <2> TAKE v \in Binnings
  <2>1. PiCam_SetBinningMode(v, v) \in Seq(CameraPair)
    BY BinningGood, SensorAssumption
  <2> QED BY <2>1, WritesGood
<1> QED BY <1>2, <1>3, V3Good, Zenon DEF SensorLists

(***************************************************************************)
(* The bytes of a write.                                                   *)
(***************************************************************************)
\* The header a chip takes as address and register.
Header(w) == IF w.chip = Focus THEN 2 ELSE 3

\* A frame is a header and one value, in bytes; the header says where the value goes.
LEMMA FrameGood ==
  ASSUME NEW w \in GoodWrite
  PROVE  LET f == Frame(w) IN
         /\ Len(f) = Header(w) + 1
         /\ \A k \in 1 .. Len(f) : f[k] \in 0 .. 255
         /\ f[1] = w.chip /\ f[Len(f)] = w.val
         /\ w.reg = IF w.chip = Focus THEN f[2] ELSE f[2] * 256 + f[3]
<1>1. /\ w.chip \in {V2, V3, Focus} /\ w.reg \in Nat /\ w.val \in 0 .. 255
      /\ w.reg < IF w.chip = Focus THEN 256 ELSE 65536
  BY DEF GoodWrite
<1>2. CASE w.chip = Focus
  BY <1>1, <1>2 DEF Frame, Header, Focus
<1>3. CASE w.chip # Focus
  <2> DEFINE hi == w.reg \div 256
             lo == w.reg % 256
  <2>1. hi \in 0 .. 255 /\ lo \in 0 .. 255 /\ w.reg = hi * 256 + lo
    BY <1>1, <1>3
  <2>2. Frame(w) = <<w.chip, hi, lo, w.val>>
    BY <1>3 DEF Frame
  <2> HIDE DEF hi, lo
  <2> DEFINE f == Frame(w)
  <2>3. /\ Len(f) = 4 /\ f[1] = w.chip /\ f[2] = hi /\ f[3] = lo /\ f[4] = w.val
    BY <2>2
  <2>4. w.chip \in 0 .. 255
    BY <1>1, <1>3 DEF V2, V3
  <2> HIDE DEF f
  <2>5. \A k \in 1 .. Len(f) : k = 1 \/ k = 2 \/ k = 3 \/ k = 4
    BY <2>3
  <2>6. \A k \in 1 .. Len(f) : f[k] \in 0 .. 255
    BY <1>1, <2>1, <2>3, <2>4, <2>5
  <2> QED BY <1>3, <2>1, <2>3, <2>6 DEF Header, f
<1> QED BY <1>2, <1>3

(***************************************************************************)
(* The invariant.                                                          *)
(***************************************************************************)
Current(c) == Head(list[c])

\* main_init and main_exit on the one hand and the ioctl on the other do not use the bus at
\* the same time.
TurnInv ==
  /\ list \in [SensorCallers -> Seq(GoodWrite)]
  /\ list["load"] # <<>> => sload \in {"loading", "unloading"}
  /\ list["ioctl"] # <<>> => sload = "live"

\* What the controller has of the write in progress: the bytes sent, the last of them perhaps
\* still in TX_DATA, as long as it has not given up the frame.
OnWire(c) ==
  LET f == Frame(Current(c)) IN
  /\ sent[c] \in -1 .. Len(f)
  /\ sent[c] < 1 => txd = NoByte
  /\ sent[c] # -1 /\ ~lapsed =>
       /\ Len(wire) = IF txd = NoByte THEN sent[c] ELSE sent[c] - 1
       /\ \A k \in 1 .. Len(wire) : wire[k] = f[k]
       /\ txd # NoByte => txd = f[Len(wire) + 1]

BusInv ==
  /\ sent \in [SensorCallers -> Int] /\ wire \in Seq(Nat) /\ txd \in Nat
  /\ lapsed \in BOOLEAN
  /\ \A c \in SensorCallers : IF list[c] = <<>> THEN sent[c] = -1 ELSE OnWire(c)
  /\ (\A c \in SensorCallers : list[c] = <<>>) => txd = NoByte

SensorInv == TurnInv /\ BusInv

\* The registers as the abstract file's, the writes not carried out yet as its list.
Todo == [c \in SensorCallers |-> IF Carried(c) THEN Tail(list[c]) ELSE list[c]]

\* No step of the abstract file.
Still == UNCHANGED <<Todo, sregs, lapsed>>

\* The write in progress is one of the lists'.
LEMMA CurrentGood ==
  ASSUME TurnInv, NEW c \in SensorCallers, list[c] # <<>>
  PROVE  Current(c) \in GoodWrite /\ Tail(list[c]) \in Seq(GoodWrite)
BY HeadTailProperties DEF TurnInv, Current

\* Nobody else is on the bus while a caller's write is in progress.
LEMMA OneAtATime ==
  ASSUME SensorInv, NEW c \in SensorCallers, list[c] # <<>>, NEW d \in SensorCallers, d # c
  PROVE  list[d] = <<>>
BY DEF SensorInv, TurnInv, SensorCallers

\* The number of bytes of a frame.
LEMMA FrameLen ==
  ASSUME NEW w \in GoodWrite
  PROVE  Len(Frame(w)) \in 3 .. 4
BY FrameGood DEF Header

\* A caller asks for a list while the bus is not in use.
LEMMA AskStep ==
  ASSUME SensorInv, NEW c \in SensorCallers, NEW l \in SensorLists, Ask(c, l),
         \A d \in SensorCallers : list[d] = <<>>,
         sload' \in IF c = "load" THEN {"loading", "unloading"} ELSE {"live"}
  PROVE  SensorInv' /\ File!FileAsk(c)
<1>1. l \in Seq(GoodWrite)
  BY ListsGood
<1>2. list' = [list EXCEPT ![c] = l] /\ UNCHANGED <<sent, wire, txd, sregs, lapsed>>
  BY DEF Ask, given
<1>3. TurnInv'
  BY <1>1, <1>2 DEF SensorInv, TurnInv, SensorCallers
<1>4. \A d \in SensorCallers : sent[d] = -1
  BY DEF SensorInv, BusInv
<1>5. \A d \in SensorCallers : list'[d] # <<>> => Len(Frame(Current(d)))' \in 3 .. 4
  <2> TAKE d \in SensorCallers
  <2> HAVE list'[d] # <<>>
  <2>1. Current(d)' \in GoodWrite
    BY <1>3, HeadTailProperties DEF TurnInv, Current
  <2> QED BY <2>1, FrameLen
<1>6. BusInv'
  BY <1>2, <1>4, <1>5 DEF SensorInv, BusInv, OnWire
<1>7. \A d \in SensorCallers : ~Carried(d) /\ ~Carried(d)'
  BY <1>2, <1>4, <1>5 DEF Carried, Current
<1>8. Todo' = [Todo EXCEPT ![c] = l] /\ Todo[c] = <<>> /\ Todo'[c] = l
  BY <1>2, <1>7 DEF Todo, SensorInv, TurnInv
<1>9. File!FileAsk(c)
  BY <1>2, <1>8 DEF File!FileAsk, Todo
<1> QED BY <1>3, <1>6, <1>9 DEF SensorInv

\* START clears the wire and carries nothing out.
LEMMA StartStep ==
  ASSUME SensorInv, NEW c \in SensorCallers, MasterStart(c)
  PROVE  SensorInv' /\ File!FileFrame
<1>1. /\ list[c] # <<>> /\ sent[c] = -1 /\ sent' = [sent EXCEPT ![c] = 0] /\ wire' = <<>>
      /\ lapsed' = FALSE /\ UNCHANGED <<sload, list, txd, sregs>>
  BY DEF MasterStart
<1>2. \A d \in SensorCallers : d # c => list[d] = <<>>
  BY <1>1, OneAtATime
<1>3. Len(Frame(Current(c))) \in 3 .. 4
  BY <1>1, CurrentGood, FrameLen DEF SensorInv
<1>4. TurnInv'
  BY <1>1 DEF SensorInv, TurnInv
<1>5. txd = NoByte
  BY <1>1 DEF SensorInv, BusInv, OnWire
<1>6. OnWire(c)'
  BY <1>1, <1>3, <1>5 DEF OnWire, Current, SensorInv, BusInv
<1>7. BusInv'
  <2>1. sent' \in [SensorCallers -> Int]
    BY <1>1 DEF SensorInv, BusInv
  <2>2. wire' \in Seq(Nat) /\ lapsed' \in BOOLEAN
    BY <1>1, EmptySeq
  <2> QED BY <1>1, <1>2, <1>6, <2>1, <2>2 DEF SensorInv, BusInv
<1>8. \A d \in SensorCallers : ~Carried(d) /\ ~Carried(d)'
  <2>1. sent'[c] = 0
    BY <1>1 DEF SensorInv, BusInv
  <2>2. ~Carried(c) /\ ~Carried(c)'
    <3>1. Frame(Head(list[c]))' = Frame(Current(c))
      BY <1>1 DEF Current, Frame, Focus
    <3>2. Len(Frame(Current(c))) # -1 /\ Len(Frame(Current(c))) # 0
      BY <1>3
    <3> QED BY <1>1, <2>1, <3>1, <3>2 DEF Carried, Current
  <2>3. \A d \in SensorCallers : d # c => ~Carried(d) /\ ~Carried(d)'
    BY <1>1, <1>2 DEF Carried
  <2> QED BY <2>2, <2>3
<1>9. UNCHANGED Todo
  BY <1>1, <1>8 DEF Todo
<1> QED BY <1>1, <1>4, <1>7, <1>9 DEF SensorInv, File!FileFrame, Todo

\* A byte in TX_DATA is not on the wire yet.
LEMMA TxByteStep ==
  ASSUME SensorInv, NEW c \in SensorCallers, TxByte(c)
  PROVE  SensorInv' /\ Still
<1> DEFINE f == Frame(Current(c))
<1>1. /\ list[c] # <<>> /\ sent[c] >= 0 /\ sent[c] < Len(f) /\ txd = NoByte
      /\ txd' = f[sent[c] + 1] /\ sent' = [sent EXCEPT ![c] = @ + 1]
      /\ UNCHANGED <<sload, list, wire, sregs, lapsed>>
  BY DEF TxByte, Current, txAckWait, given
<1>2. \A d \in SensorCallers : d # c => list[d] = <<>>
  BY <1>1, OneAtATime
<1>3. Len(f) \in 3 .. 4 /\ \A k \in 1 .. Len(f) : f[k] \in 0 .. 255
  BY <1>1, CurrentGood, FrameLen, FrameGood DEF SensorInv
<1>4. sent[c] \in Int /\ txd' \in 0 .. 255
  <2>1. sent[c] \in Int
    BY DEF SensorInv, BusInv
  <2> HIDE DEF f
  <2>2. sent[c] + 1 \in 1 .. Len(f)
    BY <1>1, <1>3, <2>1
  <2> QED BY <1>1, <1>3, <2>1, <2>2
<1>5. TurnInv'
  BY <1>1 DEF SensorInv, TurnInv
<1>6. /\ sent'[c] = sent[c] + 1 /\ f' = f
      /\ ~lapsed => Len(wire) = sent[c] /\ \A k \in 1 .. Len(wire) : wire[k] = f[k]
  <2>1. OnWire(c) /\ sent[c] # -1
    BY <1>1, <1>4 DEF SensorInv, BusInv
  <2>2. f' = f
    BY <1>1 DEF Current, Frame, Focus
  <2> QED BY <1>1, <2>1, <2>2 DEF OnWire, SensorInv, BusInv
<1>7. OnWire(c)'
  <2> HIDE DEF f
  <2>1. /\ sent'[c] \in -1 .. Len(f) /\ ~(sent'[c] < 1) /\ txd' # NoByte
        /\ ~lapsed' => /\ Len(wire') = sent'[c] - 1 /\ txd' = f[Len(wire') + 1]
                       /\ \A k \in 1 .. Len(wire') : wire'[k] = f[k]
    <3>1. sent'[c] \in -1 .. Len(f) /\ ~(sent'[c] < 1) /\ sent'[c] - 1 = sent[c]
      BY <1>1, <1>3, <1>4, <1>6
    <3>2. txd' # NoByte
      BY <1>4 DEF NoByte
    <3> QED BY <1>1, <1>6, <3>1, <3>2
  <2> QED BY <1>6, <2>1 DEF OnWire, f
<1>8. BusInv'
  <2>1. sent' \in [SensorCallers -> Int] /\ txd' \in Nat
    <3> HIDE DEF f
    <3>1. sent \in [SensorCallers -> Int]
      BY DEF SensorInv, BusInv
    <3>2. sent[c] + 1 \in Int /\ sent' = [sent EXCEPT ![c] = sent[c] + 1]
      BY <1>1, <1>4
    <3> QED BY <1>4, <3>1, <3>2
  <2>2. \A d \in SensorCallers : d # c => list'[d] = <<>> /\ sent'[d] = -1
    <3>1. \A d \in SensorCallers : d # c => sent[d] = -1
      BY <1>2 DEF SensorInv, BusInv
    <3>2. \A d \in SensorCallers : d # c => sent'[d] = sent[d]
      BY <1>1 DEF SensorInv, BusInv
    <3> QED BY <1>1, <1>2, <3>1, <3>2
  <2>3. list'[c] # <<>> /\ wire' \in Seq(Nat) /\ lapsed' \in BOOLEAN
    BY <1>1 DEF SensorInv, BusInv
  <2> HIDE DEF f
  <2> QED BY <1>7, <2>1, <2>2, <2>3 DEF BusInv
<1>9. \A d \in SensorCallers : ~Carried(d) /\ ~Carried(d)'
  <2>1. txd' # NoByte
    BY <1>4 DEF NoByte
  <2>2. ~Carried(c)
    <3> HIDE DEF f
    <3>1. sent[c] # Len(f)
      BY <1>1, <1>3, <1>4
    <3> QED BY <3>1 DEF Carried, Current, f
  <2> QED BY <1>2, <2>1, <2>2 DEF Carried
<1>10. UNCHANGED Todo
  BY <1>1, <1>9 DEF Todo
<1> QED BY <1>1, <1>5, <1>8, <1>10 DEF SensorInv, Still

\* STOP ends a write that was carried out, or lost, with its last byte.
LEMMA StopStep ==
  ASSUME SensorInv, NEW c \in SensorCallers, MasterStop(c)
  PROVE  SensorInv' /\ Still
<1>1. /\ list[c] # <<>> /\ sent[c] = Len(Frame(Current(c))) /\ txd = NoByte
      /\ wire' = <<>> /\ sent' = [sent EXCEPT ![c] = -1]
      /\ list' = [list EXCEPT ![c] = Tail(@)] /\ UNCHANGED <<sload, txd, sregs, lapsed>>
  BY DEF MasterStop, Current, txAckWait, given
<1>2. \A d \in SensorCallers : d # c => list[d] = <<>> /\ list'[d] = <<>>
  BY <1>1, OneAtATime DEF SensorInv, TurnInv
<1>3. Tail(list[c]) \in Seq(GoodWrite) /\ list'[c] = Tail(list[c])
  BY <1>1, CurrentGood DEF SensorInv, TurnInv
<1>4. TurnInv'
  BY <1>1, <1>2, <1>3 DEF SensorInv, TurnInv, SensorCallers
<1>5. \A d \in SensorCallers : sent'[d] = -1
  BY <1>1, <1>2 DEF SensorInv, BusInv
<1>6. list'[c] # <<>> => Len(Frame(Current(c)))' \in 3 .. 4
  <2> HAVE list'[c] # <<>>
  <2>1. Current(c)' \in GoodWrite
    BY <1>4, HeadTailProperties DEF TurnInv, Current
  <2> QED BY <2>1, FrameLen
<1>7. BusInv'
  BY <1>1, <1>2, <1>5, <1>6 DEF SensorInv, BusInv, OnWire
<1>8. Carried(c) /\ \A d \in SensorCallers : d # c => ~Carried(d)
  BY <1>1, <1>2 DEF Carried, Current
<1>9. \A d \in SensorCallers : ~Carried(d)'
  BY <1>2, <1>5, <1>6 DEF Carried, Current
<1>10. UNCHANGED Todo
  BY <1>1, <1>2, <1>3, <1>8, <1>9 DEF Todo
<1> QED BY <1>1, <1>4, <1>7, <1>10 DEF SensorInv, Still

\* The byte that completes a frame carries the write out, the bytes before it nothing.
LEMMA ShiftStep ==
  ASSUME SensorInv, Shift
  PROVE  SensorInv' /\ (Still \/ File!FileNext)
<1> DEFINE w == Append(wire, txd)
<1>1. PICK c \in SensorCallers : list[c] # <<>>
  BY DEF Shift, SensorInv, BusInv
<1> DEFINE f == Frame(Current(c))
           cur == Current(c)
<1>2. /\ txd # NoByte /\ txd' = NoByte /\ wire' = w /\ ~lapsed
      /\ UNCHANGED <<sload, list, sent, lapsed>>
  BY DEF Shift, given
<1>3. \A d \in SensorCallers : d # c => list[d] = <<>>
  BY <1>1, OneAtATime
<1>4. /\ Len(f) = Header(cur) + 1 /\ f[1] = cur.chip /\ f[Len(f)] = cur.val
      /\ cur.reg = IF cur.chip = Focus THEN f[2] ELSE f[2] * 256 + f[3]
      /\ Header(cur) \in 2 .. 3 /\ cur.reg \in Nat
  <2>1. cur \in GoodWrite
    BY <1>1, CurrentGood DEF SensorInv
  <2> QED BY <2>1, FrameGood DEF Header, GoodWrite
<1>5. TurnInv'
  BY <1>2 DEF SensorInv, TurnInv
<1>6. /\ sent[c] \in 1 .. Len(f) /\ Len(wire) = sent[c] - 1 /\ txd = f[Len(wire) + 1]
      /\ \A k \in 1 .. Len(wire) : wire[k] = f[k]
  <2>1. OnWire(c)
    BY <1>1 DEF SensorInv, BusInv
  <2>2. wire \in Seq(Nat)
    BY DEF SensorInv, BusInv
  <2>3. Len(wire) \in Nat
    BY <2>2, LenProperties
  <2> QED BY <1>2, <1>4, <2>1, <2>3 DEF OnWire
<1>7. /\ w \in Seq(Nat) /\ Len(w) = sent[c]
      /\ \A k \in 1 .. Len(w) : w[k] = f[k]
  <2> HIDE DEF f
  <2> QED BY <1>6 DEF SensorInv, BusInv
<1>8. f' = f /\ cur' = cur
  BY <1>2 DEF Current, Frame, Focus
<1> HIDE DEF f, w
<1>9. OnWire(c)'
  BY <1>2, <1>4, <1>6, <1>7, <1>8 DEF OnWire, f
<1>10. BusInv'
  BY <1>1, <1>2, <1>3, <1>7, <1>9 DEF SensorInv, BusInv, NoByte
<1>11. \A d \in SensorCallers : ~Carried(d)
  BY <1>2 DEF Carried
<1>12. \A d \in SensorCallers : d # c => ~Carried(d)'
  BY <1>2, <1>3 DEF Carried
<1>13. Carried(c)' <=> sent[c] = Len(f)
  BY <1>1, <1>2, <1>8 DEF Carried, Current, f
<1>14. CASE sent[c] < Len(f)
  <2>1. UNCHANGED Todo
    BY <1>2, <1>6, <1>11, <1>12, <1>13, <1>14 DEF Todo
  <2>2. w[1] = cur.chip /\ ~(Len(w) > Header(cur))
    BY <1>4, <1>6, <1>7, <1>14
  <2>3. UNCHANGED sregs
    BY <2>2 DEF Shift, w, Header
  <2> QED BY <1>2, <1>5, <1>10, <2>1, <2>3 DEF SensorInv, Still
<1>15. CASE sent[c] = Len(f)
  <2>1. Todo[c] = list[c] /\ Todo' = [Todo EXCEPT ![c] = Tail(Todo[c])]
    BY <1>2, <1>11, <1>12, <1>13, <1>15 DEF Todo
  <2>2. w[1] = cur.chip /\ Len(w) > Header(cur) /\ txd = cur.val
    BY <1>4, <1>6, <1>7, <1>15
  <2> DEFINE reg == IF w[1] = Focus THEN w[2] ELSE w[2] * 256 + w[3]
             hdr == IF w[1] = Focus THEN 2 ELSE 3
  <2>3. reg = cur.reg
    BY <1>4, <1>6, <1>7, <1>15, <2>2 DEF Header
  <2>4. hdr = Header(cur) /\ reg + Len(w) - hdr - 1 = cur.reg
    BY <1>4, <1>7, <1>15, <2>2, <2>3 DEF Header
  <2>5. sregs' = IF w[1] \in Chips /\ Len(w) > hdr
                   THEN (<<w[1], reg + Len(w) - hdr - 1>> :> txd) @@ sregs ELSE sregs
    BY DEF Shift, w
  <2> HIDE DEF reg, hdr
  <2>6. sregs' = IF cur.chip \in Chips THEN (<<cur.chip, cur.reg>> :> cur.val) @@ sregs ELSE sregs
    BY <2>2, <2>4, <2>5
  <2>7. File!FileWrite(c)
    BY <1>1, <1>2, <2>1, <2>6 DEF File!FileWrite, Todo, Current
  <2> QED BY <1>5, <1>10, <2>7 DEF SensorInv, File!FileNext
<1> QED BY <1>6, <1>14, <1>15

\* The last byte of a frame the controller gave up loses the write, the bytes before it nothing.
LEMMA SwallowStep ==
  ASSUME SensorInv, Swallow
  PROVE  SensorInv' /\ (Still \/ File!FileNext)
<1>1. PICK c \in SensorCallers : list[c] # <<>>
  BY DEF Swallow, SensorInv, BusInv
<1> DEFINE f == Frame(Current(c))
<1>2. /\ txd # NoByte /\ txd' = NoByte /\ lapsed
      /\ UNCHANGED <<sload, list, sent, wire, sregs, lapsed>>
  BY DEF Swallow, given
<1>3. \A d \in SensorCallers : d # c => list[d] = <<>>
  BY <1>1, OneAtATime
<1>4. TurnInv'
  BY <1>2 DEF SensorInv, TurnInv
<1>5. f' = f
  BY <1>2 DEF Current, Frame, Focus
<1>6. OnWire(c)'
  BY <1>1, <1>2, <1>5 DEF SensorInv, BusInv, OnWire
<1>7. BusInv'
  BY <1>1, <1>2, <1>3, <1>6 DEF SensorInv, BusInv, NoByte
<1>8. \A d \in SensorCallers : ~Carried(d)
  BY <1>2 DEF Carried
<1>9. \A d \in SensorCallers : d # c => ~Carried(d)'
  BY <1>2, <1>3 DEF Carried
<1>10. Carried(c)' <=> sent[c] = Len(f)
  BY <1>1, <1>2, <1>5 DEF Carried, Current
<1> HIDE DEF f
<1>11. CASE sent[c] # Len(f)
  <2>1. UNCHANGED Todo
    BY <1>2, <1>8, <1>9, <1>10, <1>11 DEF Todo
  <2> QED BY <1>2, <1>4, <1>7, <2>1 DEF SensorInv, Still
<1>12. CASE sent[c] = Len(f)
  <2>1. Todo[c] = list[c] /\ Todo' = [Todo EXCEPT ![c] = Tail(Todo[c])]
    BY <1>2, <1>8, <1>9, <1>10, <1>12 DEF Todo
  <2>2. File!FileLose(c)
    BY <1>1, <1>2, <2>1 DEF File!FileLose, Todo
  <2> QED BY <1>4, <1>7, <2>2 DEF SensorInv, File!FileNext
<1> QED BY <1>11, <1>12

\* Giving up a frame carries nothing out.
LEMMA DropStep ==
  ASSUME SensorInv, Drop
  PROVE  SensorInv' /\ File!FileFrame
<1>1. lapsed' = TRUE /\ UNCHANGED <<sload, list, sent, wire, txd, sregs>>
  BY DEF Drop
<1>2. TurnInv'
  BY <1>1 DEF SensorInv, TurnInv
<1>3. BusInv'
  BY <1>1 DEF SensorInv, BusInv, OnWire, Current
<1>4. UNCHANGED Todo
  BY <1>1 DEF Todo, Carried
<1> QED BY <1>1, <1>2, <1>3, <1>4 DEF SensorInv, File!FileFrame, Todo

\* Every step preserves the invariant and is a step of the abstract file, or none.
LEMMA SensorStep ==
  ASSUME QuietLoad, SensorInv, [SensorNext]_sensorVars
  PROVE  SensorInv' /\ (Still \/ File!FileNext)
<1>1. CASE LoadCameras
  <2>1. \A d \in SensorCallers : list[d] = <<>>
    BY <1>1 DEF LoadCameras, SensorInv, TurnInv, SensorCallers
  <2>2. SensorInv' /\ File!FileAsk("load")
    BY <1>1, <2>1, AskStep DEF LoadCameras, SensorCallers, SensorLists
  <2> QED BY <2>2 DEF File!FileNext, SensorCallers
<1>2. CASE LoadedCameras
  <2>1. /\ list["load"] = <<>> /\ sload' = "live"
        /\ UNCHANGED <<list, sent, wire, txd, sregs, lapsed>>
    BY <1>2 DEF LoadedCameras, given
  <2>2. UNCHANGED Todo
    BY <2>1 DEF Todo, Carried
  <2>3. TurnInv'
    BY <2>1 DEF SensorInv, TurnInv
  <2>4. BusInv'
    BY <2>1 DEF SensorInv, BusInv, OnWire, Current
  <2> QED BY <2>1, <2>2, <2>3, <2>4 DEF SensorInv, Still
<1>3. CASE UnloadCameras
  <2>1. \A d \in SensorCallers : list[d] = <<>>
    BY <1>3 DEF UnloadCameras, SensorInv, TurnInv, SensorCallers
  <2>2. SensorInv' /\ File!FileAsk("load")
    BY <1>3, <2>1, AskStep DEF UnloadCameras, SensorCallers, SensorLists
  <2> QED BY <2>2 DEF File!FileNext, SensorCallers
<1>4. CASE IoctlBinning
  <2>1. sload = "live" /\ sload' = sload
    BY <1>4 DEF IoctlBinning
  <2>2. PICK v \in Binnings : Ask("ioctl", Writes(V2, PiCam_SetBinningMode(v, v)))
    BY <1>4 DEF IoctlBinning
  <2>3. \A d \in SensorCallers : list[d] = <<>>
    BY <2>1, <2>2 DEF Ask, SensorInv, TurnInv, SensorCallers
  <2>4. SensorInv' /\ File!FileAsk("ioctl")
    BY <2>1, <2>2, <2>3, AskStep DEF SensorCallers, SensorLists
  <2> QED BY <2>4 DEF File!FileNext, SensorCallers
<1>5. CASE Shift
  BY <1>5, ShiftStep
<1>6. ASSUME NEW c \in SensorCallers, MasterStart(c) \/ TxByte(c) \/ MasterStop(c)
      PROVE  SensorInv' /\ (Still \/ File!FileNext)
  BY <1>6, StartStep, TxByteStep, StopStep DEF File!FileNext
<1>7. CASE UNCHANGED sensorVars
  <2>1. UNCHANGED <<sload, list, sent, wire, txd, sregs, lapsed>>
    BY <1>7 DEF sensorVars, given
  <2>2. UNCHANGED Todo
    BY <2>1 DEF Todo, Carried
  <2>3. SensorInv'
    BY <2>1 DEF SensorInv, TurnInv, BusInv, OnWire, Current
  <2> QED BY <2>1, <2>2, <2>3 DEF Still
<1>8. CASE Swallow
  BY <1>8, SwallowStep
<1>9. CASE Drop
  BY <1>9, DropStep DEF File!FileNext
<1> QED BY <1>1, <1>2, <1>3, <1>4, <1>5, <1>6, <1>7, <1>8, <1>9 DEF SensorNext

\* The byte-by-byte transfers of PiCamDriver.c and PiCamV3Driver.c, polled and shared by two
\* callers, implement whole register writes in order, for all chips fitted and all binnings,
\* also when the controller gives up a frame (that write is lost and no other is disturbed),
\* as long as the ioctl is not called while main_init or main_exit uses the bus.
THEOREM TransfersAreWholeWrites ==
  ASSUME QuietLoad
  PROVE  SensorSpec => WholeWrites
<1>1. SensorInit => SensorInv /\ File!FileInit
  <2> SUFFICES ASSUME SensorInit PROVE SensorInv /\ File!FileInit
    OBVIOUS
  <2>1. TurnInv
    BY EmptySeq DEF SensorInit, TurnInv, SensorCallers
  <2>2. BusInv
    <3>1. wire \in Seq(Nat)
      BY EmptySeq DEF SensorInit
    <3>2. lapsed \in BOOLEAN
      BY DEF SensorInit
    <3> QED BY <3>1, <3>2 DEF SensorInit, BusInv, NoByte
  <2>3. \A c \in SensorCallers : ~Carried(c) /\ list[c] = <<>>
    BY DEF SensorInit, Carried
  <2>4. File!FileInit
    BY <2>3 DEF SensorInit, File!FileInit
  <2> QED BY <2>1, <2>2, <2>4 DEF SensorInv
<1>2. SensorInv /\ [SensorNext]_sensorVars => SensorInv'
  BY SensorStep
<1>3. SensorInv /\ [SensorNext]_sensorVars => [File!FileNext]_<<Todo, sregs, lapsed>>
  BY SensorStep DEF Still
<1> QED
  BY <1>1, <1>2, <1>3, PTL DEF SensorSpec, WholeWrites, File!FileSpec, Todo
=============================================================================
