------------------------------ MODULE EfxI2c -------------------------------
(***************************************************************************)
(* The Sapphire I2C bus driver (kernel_modules/i2c): probe and timing, the *)
(* master transfer byte by byte, and the interrupt handler that answers as *)
(* a slave.                                                                *)
(*                                                                         *)
(* External: the controller (BUSY, one byte with its acknowledge in        *)
(* flight, the address filter) and the other masters and slaves of the     *)
(* bus.  A byte on the wire takes any time and may be refused; the         *)
(* controller may drop the frame, after which it shifts nothing until the  *)
(* next START.  Payload is data: of a byte only its frame is kept.  The    *)
(* core repeats a transfer (adap->retries) only after -EAGAIN, which this  *)
(* driver never returns.                                                   *)
(***************************************************************************)
EXTENDS Naturals, Sequences

CONSTANTS
  Transfers,       \* msgs arguments of master_xfer: sequences of [rd, len]
  PeripheralClks,  \* what clk_get_rate returns, Hz
  ClockFrequency   \* values of the device tree's clock-frequency, Hz

ASSUME I2cAssumption ==
  /\ Transfers \subseteq Seq([rd : BOOLEAN, len : Nat]) \ {<<>>}
  /\ PeripheralClks \subseteq Nat \ {0} /\ ClockFrequency \subseteq Nat

VARIABLES
  probed, clk_rate, peripheral_clk, regs,   \* the adapter, its clocks, the timing registers
  mpc, msgs, i, count, ret,    \* efx_i2c_xfer: pc, argument, index, i2c_msg->count, result
  busy, stop,                  \* MASTER_STATUS: BUSY, STOP requested
  txvalid, rxack,              \* TX_ACK.VALID: a byte is in flight; RX_ACK: it was accepted
  moved,                       \* history: bytes of each message the devices accepted
  slave,                       \* i2c_dev->slave # NULL
  state, txirq,                \* the handler's state; IRQ_TX_DATA_ENABLE
  filter,                      \* address filter: off, on, on with its flag raised
  frame, armed,                \* frame on the bus; TX_DATA and TX_ACK are valid
  announced, rx,               \* request given to the client; RX_DATA is a new byte of it
  event                        \* last event: its kind, and whether it fits the frame

cfgVars    == <<probed, clk_rate, peripheral_clk, regs>>
masterVars == <<mpc, msgs, i, count, ret>>
busVars    == <<busy, stop, txvalid, rxack, moved>>
slaveVars  == <<slave, state, txirq, filter, frame, armed, announced, rx, event>>
i2cVars == <<cfgVars, masterVars, busVars, slaveVars>>

NoEvent == [kind |-> "none", fits |-> TRUE]
Frames == {"none", "other", "write", "read"}    \* the last two are addressed to us

(***************************************************************************)
(* Timing.  Rates in Hz; integer division rounds down, as in C.            *)
(***************************************************************************)
Standard == [tsu_data |-> 2000000, tbuf |-> 200000, thigh |-> 200000, tlow |-> 200000,
             timeout |-> 1000]
efx_i2c_specs ==
  << Standard,
     [Standard EXCEPT !.tbuf = 666667, !.thigh = 1000000, !.tlow = 666667],
     [tsu_data |-> 20000000, tbuf |-> 1666667, thigh |-> 2500000, tlow |-> 1666667,
      timeout |-> 1000] >>

mode(rate) == IF rate = 400000 THEN 2 ELSE IF rate = 1000000 THEN 3 ELSE 1

efx_i2c_hw_config(rate, clk) ==
  LET spec == efx_i2c_specs[mode(rate)] IN [f \in DOMAIN spec |-> clk \div spec[f]]

I2cInit ==
  /\ probed = FALSE /\ clk_rate = 0 /\ peripheral_clk = 0
  /\ regs = [f \in DOMAIN Standard |-> 0]
  /\ mpc = "idle" /\ msgs = <<>> /\ i = 0 /\ count = 0 /\ ret = "none"
  /\ busy = FALSE /\ stop = FALSE /\ txvalid = FALSE /\ rxack = FALSE /\ moved = <<>>
  /\ slave = FALSE /\ state = "IDLE" /\ txirq = FALSE /\ filter = "off"
  /\ frame = "none" /\ armed = FALSE /\ announced = "none" /\ rx = FALSE /\ event = NoEvent

\* A failed resource or a zero rate (-ENODEV) leaves no adapter behind.
Probe ==
  /\ ~probed
  /\ \E rate \in ClockFrequency \ {0}, clk \in PeripheralClks :
       /\ clk_rate' = rate /\ peripheral_clk' = clk /\ regs' = efx_i2c_hw_config(rate, clk)
  /\ probed' = TRUE
  /\ UNCHANGED <<masterVars, busVars, slaveVars>>

\* i2c_del_adapter waits for transfers and removes the clients.
Remove ==
  /\ probed /\ mpc = "idle" /\ ~slave
  /\ probed' = FALSE
  /\ UNCHANGED <<clk_rate, peripheral_clk, regs, masterVars, busVars, slaveVars>>

(***************************************************************************)
(* The master transfer.  A byte put on the wire is waited for: its         *)
(* acknowledge is looked at when TX_ACK.VALID clears, or the wait times    *)
(* out after a millisecond.                                                *)
(***************************************************************************)
Msg == msgs[i]
IsLast == i = Len(msgs)

Xfer(t) ==
  /\ probed /\ mpc = "idle"
  /\ msgs' = t /\ i' = 1 /\ count' = t[1].len /\ mpc' = "msg" /\ ret' = "none"
  /\ moved' = [m \in 1 .. Len(t) |-> 0]
  /\ UNCHANGED <<busy, stop, txvalid, rxack, cfgVars, slaveVars>>

efx_i2c_master_busy == busy

\* RX_ACK, which keeps the acknowledge of the last byte that ended.
efx_i2c_rx_ack == rxack

Return(r) == mpc' = "idle" /\ ret' = r /\ UNCHANGED <<msgs, i, count>>

\* i2c_terminate: STOP, which the controller acts on once the byte in flight is over.  Asked for
\* after a dropped frame it may still be there at the next START.
Terminate(r) == Return(r) /\ stop' = TRUE

MsgBusy ==
  /\ mpc = "msg" /\ i = 1 /\ efx_i2c_master_busy
  /\ Return("EBUSY") /\ UNCHANGED <<busVars, cfgVars, slaveVars>>

\* START, or a repeated START, with the address byte.
MsgStart ==
  /\ mpc = "msg" /\ (i = 1 => ~efx_i2c_master_busy)
  /\ busy' = TRUE /\ txvalid' = TRUE /\ mpc' = "addr"
  /\ UNCHANGED <<stop, rxack, moved, msgs, i, count, ret, cfgVars, slaveVars>>

\* Mutant: a refused address returns without a STOP.
AddrAcked_mutant ==
  /\ mpc = "addr" /\ ~txvalid
  /\ IF efx_i2c_rx_ack THEN mpc' = "loop" /\ UNCHANGED <<msgs, i, count, ret>> ELSE Return("EIO")
  /\ UNCHANGED <<stop, busy, txvalid, rxack, moved, cfgVars, slaveVars>>

AddrAcked ==
  /\ mpc = "addr" /\ ~txvalid
  /\ IF efx_i2c_rx_ack THEN mpc' = "loop" /\ UNCHANGED <<msgs, i, count, ret, stop>>
              ELSE Terminate("EIO")
  /\ UNCHANGED <<busy, txvalid, rxack, moved, cfgVars, slaveVars>>

SendByte ==
  /\ mpc = "loop" /\ count > 0
  /\ txvalid' = TRUE /\ mpc' = "data"
  /\ UNCHANGED <<busy, stop, rxack, moved, msgs, i, count, ret, cfgVars, slaveVars>>

\* Mutant: a write goes on whatever the acknowledge.
ByteDone_mutant ==
  /\ mpc = "data" /\ ~txvalid
  /\ mpc' = "loop" /\ count' = count - 1
  /\ UNCHANGED <<msgs, i, ret, stop, busy, txvalid, rxack, moved, cfgVars, slaveVars>>

\* A read takes RX_DATA; a write looks at the acknowledge.
ByteDone ==
  /\ mpc = "data" /\ ~txvalid
  /\ IF Msg.rd \/ efx_i2c_rx_ack
       THEN mpc' = "loop" /\ count' = count - 1 /\ UNCHANGED <<msgs, i, ret, stop>>
       ELSE Terminate("EIO")
  /\ UNCHANGED <<busy, txvalid, rxack, moved, cfgVars, slaveVars>>

\* tx_ack_wait gives up: -ETIMEDOUT.  The byte stays on the wire.
WaitTimeout ==
  /\ mpc \in {"addr", "data"} /\ txvalid
  /\ Terminate("ETIMEDOUT")
  /\ UNCHANGED <<busy, txvalid, rxack, moved, cfgVars, slaveVars>>

EndMsg ==
  /\ mpc = "loop" /\ count = 0
  /\ \/ /\ ~IsLast
        /\ i' = i + 1 /\ count' = msgs[i + 1].len /\ mpc' = "msg"
        /\ UNCHANGED <<msgs, ret, stop>>
     \/ IsLast /\ efx_i2c_master_busy /\ Terminate("num")
     \/ IsLast /\ ~efx_i2c_master_busy /\ Return("EIO") /\ UNCHANGED stop
  /\ UNCHANGED <<busy, txvalid, rxack, moved, cfgVars, slaveVars>>

(***************************************************************************)
(* The controller as a master.                                             *)
(***************************************************************************)
\* The byte in flight ends; a device accepts it or not (a read byte is always taken).
WireByte ==
  /\ txvalid /\ busy
  /\ txvalid' = FALSE
  /\ rxack' \in BOOLEAN
  /\ moved' = IF mpc \in {"addr", "data"} /\ (rxack' \/ (mpc = "data" /\ Msg.rd))
                THEN [moved EXCEPT ![i] = @ + 1] ELSE moved
  /\ UNCHANGED <<busy, stop, masterVars, cfgVars, slaveVars>>

WireStop ==
  /\ stop /\ ~txvalid
  /\ stop' = FALSE /\ busy' = FALSE
  /\ UNCHANGED <<txvalid, rxack, moved, masterVars, cfgVars, slaveVars>>

\* A lost arbitration or the controller's own timeout ends the frame.
WireDrop ==
  /\ busy
  /\ busy' = FALSE /\ stop' = FALSE
  /\ UNCHANGED <<txvalid, rxack, moved, masterVars, cfgVars, slaveVars>>

(***************************************************************************)
(* The slave side.                                                         *)
(***************************************************************************)
RegSlave ==
  /\ probed /\ ~slave
  /\ slave' = TRUE
  /\ filter' = IF filter = "off" THEN "on" ELSE filter
  /\ UNCHANGED <<state, txirq, frame, armed, announced, rx, event, masterVars, busVars, cfgVars>>

\* The filter and its interrupt stay enabled.
UnregSlave ==
  /\ slave
  /\ slave' = FALSE
  /\ UNCHANGED <<state, txirq, filter, frame, armed, announced, rx, event, masterVars, busVars,
                 cfgVars>>

\* The bus waits for us while our address is not acknowledged.
Stretched == frame \in {"write", "read"} /\ announced = "none"

\* Another master sends a START and an address; the filter raises its flag for each.
BusAddress(f) ==
  /\ ~Stretched
  /\ filter = "off" => f = "other"
  /\ frame' = f /\ announced' = "none" /\ rx' = FALSE
  /\ filter' = IF filter = "off" THEN "off" ELSE "flag"
  /\ UNCHANGED <<slave, state, txirq, armed, event, masterVars, busVars, cfgVars>>

\* A data byte; in our frames the bus waits for TX_DATA and TX_ACK, which it uses up.
BusData ==
  /\ frame \in {"write", "read"} => armed /\ ~Stretched
  /\ frame # "none"
  /\ armed' = IF frame = "other" THEN armed ELSE FALSE
  /\ rx' = (frame = "write")
  /\ UNCHANGED <<slave, state, txirq, filter, frame, announced, event, masterVars, busVars,
                 cfgVars>>

BusEnd ==
  /\ frame # "none" /\ ~Stretched
  /\ frame' = "none"
  /\ UNCHANGED <<slave, state, txirq, filter, armed, announced, rx, event, masterVars, busVars,
                 cfgVars>>

IrqPending == probed /\ (filter = "flag" \/ (txirq /\ ~armed))

\* The handler fills TX_DATA and TX_ACK, with "repeat" or a byte of the client's.
ArmTx == armed' = TRUE

\* i2c_slave_event with a NULL client is fatal.
Deliver(kind, fits, next) ==
  /\ event' = [kind |-> kind, fits |-> fits]
  /\ state' = IF slave THEN next ELSE "oops"

\* The flag resets the state machine: the handler then takes its IDLE case.
IsrIdle ==
  /\ IrqPending /\ (filter = "flag" \/ state = "IDLE")
  /\ IF frame \in {"write", "read"}
       THEN /\ Deliver(frame, TRUE, IF frame = "write" THEN "WRITE_ADDR" ELSE "READ_DATA0")
            /\ announced' = frame /\ ArmTx /\ txirq' = TRUE
       ELSE state' = "IDLE" /\ txirq' = FALSE /\ UNCHANGED <<event, announced, armed>>
  /\ filter' = IF filter = "off" THEN "off" ELSE "on"
  /\ UNCHANGED <<slave, frame, rx, masterVars, busVars, cfgVars>>

\* Mutant: the filter's flag is left to a later interrupt.
IsrWrite_mutant ==
  /\ IrqPending /\ state \in {"WRITE_ADDR", "WRITE_DATA0"}
  /\ Deliver("WRITE_RECEIVED", announced = "write" /\ rx, "WRITE_DATA0")
  /\ ArmTx /\ rx' = FALSE
  /\ UNCHANGED <<slave, txirq, filter, frame, announced, masterVars, busVars, cfgVars>>

IsrWrite ==
  /\ IrqPending /\ filter # "flag" /\ state \in {"WRITE_ADDR", "WRITE_DATA0"}
  /\ Deliver("WRITE_RECEIVED", announced = "write" /\ rx, "WRITE_DATA0")
  /\ ArmTx /\ rx' = FALSE
  /\ UNCHANGED <<slave, txirq, filter, frame, announced, masterVars, busVars, cfgVars>>

IsrRead ==
  /\ IrqPending /\ filter # "flag" /\ state = "READ_DATA0"
  /\ Deliver("READ_PROCESSED", announced = "read", "READ_DATA0")
  /\ ArmTx
  /\ UNCHANGED <<slave, txirq, filter, frame, announced, rx, masterVars, busVars, cfgVars>>

MasterNext ==
  \/ \E t \in Transfers : Xfer(t)
  \/ MsgBusy \/ MsgStart \/ AddrAcked \/ SendByte \/ ByteDone \/ WaitTimeout \/ EndMsg
  \/ WireByte \/ WireStop \/ WireDrop

SlaveNext ==
  \/ RegSlave \/ UnregSlave
  \/ \E f \in Frames \ {"none"} : BusAddress(f)
  \/ BusData \/ BusEnd
  \/ IsrIdle \/ IsrWrite \/ IsrRead

I2cNext == state # "oops" /\ (Probe \/ Remove \/ MasterNext \/ SlaveNext)

I2cSpec == I2cInit /\ [][I2cNext]_i2cVars

(***************************************************************************)
(* Properties.                                                             *)
(***************************************************************************)
\* efx_i2c_xfer returns num only when every address and data byte of every message was
\* accepted, although acknowledges are read from a register that is not cleared, frames
\* are dropped and waits time out.
SuccessIsComplete ==
  mpc = "idle" /\ ret = "num" => \A m \in 1 .. Len(msgs) : moved[m] = msgs[m].len + 1

\* A transfer never leaves the bus busy without a STOP on its way: otherwise every later
\* transfer fails with -EBUSY.
BusIsReleased == mpc = "idle" /\ busy => stop

\* The slave handler hands a client a byte or asks it for one only within the frame it
\* announced to it, and a written byte once, although the filter's and the data interrupt
\* may be served together and late.
EventsFitFrame == event.fits
=============================================================================
