----------------------------- MODULE MCDevices ------------------------------
(***************************************************************************)
(* Drivers and programs whose properties are about safety, side by side:   *)
(* the I2C driver, the GPIO and APB3 drivers, the flash program, the echo  *)
(* test, the line editor and the overlay.  Each has variables of its own;  *)
(* unit says which runs, and the others stay in one of their initial       *)
(* states, so that the run explores the union of their state graphs.       *)
(***************************************************************************)
EXTENDS EfxI2c, EfxGpio, Apb3, SpiFlash, OpenampEcho, EmbeddedCli, EvsocOverlay

VARIABLE unit

vars == <<unit, i2cVars, gpioVars, irqVars, apbVars, flashVars, echoVars, cliVars, overlayVars>>

WriteMsg(n) == [rd |-> FALSE, len |-> n]
ReadMsg(n)  == [rd |-> TRUE, len |-> n]

\* A write, a register read (write then repeated start), and an empty message.
SmallTransfers == {<<WriteMsg(2)>>, <<WriteMsg(1), ReadMsg(2)>>, <<WriteMsg(0)>>}

Clocks == {100000000}
Rates == {100000, 400000, 1000000}
\* Two characters, a diagonal and a block.
SmallFont == << {0}, {1}, {0, 1}, {0, 1} >>
\* Two neighbours, and one past the right edge.
SomePlaces == {<<0, 0>>, <<0, 1>>, <<0, 3>>}

TypedChars == {"q", " "}

Init ==
  /\ unit \in {"i2c", "gpio", "irq", "apb", "flash", "echo", "cli", "overlay"}
  /\ I2cInit /\ GpioInit /\ ApbInit /\ FlashInit /\ EchoInit /\ CliInit /\ OverlayInit
  /\ unit # "gpio" => avail = Lines
  /\ unit # "flash" => fopt = [id |-> TRUE, wr |-> FALSE, rd |-> FALSE, force |-> FALSE,
                               addr |-> 0, len |-> 0, rlen |-> 1]

Next ==
  /\ UNCHANGED unit
  /\ unit = "i2c" \/ UNCHANGED i2cVars
  /\ unit = "gpio" \/ UNCHANGED <<avail, gpc, at, dev, sysfs, alive, lineVars, leds, gpiod, failed>>
  /\ unit \in {"gpio", "irq"} \/ UNCHANGED crash
  /\ unit = "irq" \/ UNCHANGED irqVars
  /\ unit = "apb" \/ UNCHANGED apbVars
  /\ unit = "flash" \/ UNCHANGED flashVars
  /\ unit = "echo" \/ UNCHANGED echoVars
  /\ unit = "cli" \/ UNCHANGED cliVars
  /\ unit = "overlay" \/ UNCHANGED overlayVars
  /\ \/ unit = "i2c" /\ I2cNext
     \/ unit = "gpio" /\ GpioNext
     \/ unit = "irq" /\ GpioIrqNext
     \/ unit = "apb" /\ ApbNext
     \/ unit = "flash" /\ FlashNext
     \/ unit = "echo" /\ EchoNext
     \/ unit = "cli" /\ CliNext
     \/ unit = "overlay" /\ OverlayNext

Spec == Init /\ [][Next]_vars
=============================================================================
