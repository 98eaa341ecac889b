------------------------------ MODULE EfxGpio -------------------------------
(***************************************************************************)
(* The GPIO consumer driver (kernel_modules/gpio) with its sysfs devices,  *)
(* and the programs on the same lines: gpio_app through sysfs and gpiod    *)
(* through the character device; and the interrupt example                 *)
(* (kernel_modules/gpio_irq), which shares nothing with them.              *)
(*                                                                         *)
(* gpiolib and the driver core are external: a line has one owner, and     *)
(* what is allocated with devm is freed when a probe fails and after       *)
(* remove.  Child k of the device tree node uses line k.                   *)
(***************************************************************************)
EXTENDS Integers, Sequences, FiniteSets

CONSTANTS
  Children,        \* number of child nodes
  LedRounds        \* rounds of each light show (10 in the source)

ASSUME GpioAssumption == Children \in Nat /\ LedRounds \in Nat \ {0}

Lines == 1 .. Children

VARIABLES
  avail,           \* the children that are not disabled
  gpc,             \* the driver: out, probing, bound
  at,              \* child the probe is at
  dev,             \* gpio_drv_data.dev: the device created for each child in turn, 0 for NULL
  sysfs,           \* devices in /sys/class/efx_gpios
  alive,           \* children whose private data is allocated
  owner,           \* per line: nobody, the driver or gpiod
  dir, val,        \* per line: direction and output latch
  leds,            \* gpio_app: the calls it makes next, or <<>> when it does not run
  gpiod,           \* the gpiod program: idle, or the line it requests next, or running
  failed,          \* a probe has failed, or got no memory for the table
  crash,           \* freed data was used, or a device unregistered that does not exist
  irqpc,           \* gpio_irq: out, probing, bound, leaving
  devres           \* gpio_irq: what devm holds for the device, newest last

gpioVars == <<avail, gpc, at, dev, sysfs, alive, owner, dir, val, leds, gpiod, failed, crash>>
lineVars == <<owner, dir, val>>
irqVars == <<irqpc, devres>>

GpioInit ==
  /\ avail \in SUBSET Lines /\ gpc = "out" /\ at = 0 /\ dev = <<>> /\ sysfs = {} /\ alive = {}
  /\ owner = [l \in Lines |-> "nobody"] /\ dir = [l \in Lines |-> "in"]
  /\ val = [l \in Lines |-> 0] /\ leds = <<>> /\ gpiod = 0 /\ failed = FALSE /\ crash = FALSE
  /\ irqpc = "out" /\ devres = <<>>

\* The table that could not be allocated.
NoTable == [k \in Lines |-> -1]

\* The module is loaded; the table has a place for every child, disabled ones too, and whether
\* it was allocated is not looked at.  Devices left over hold the class, and another of its name
\* is refused.
gpio_sysfs_init ==
  /\ gpc = "out" /\ Children > 0 /\ sysfs = {} /\ gpc' = "probing" /\ at' = 1
  /\ \/ dev' = [k \in Lines |-> 0] /\ UNCHANGED failed
     \/ dev' = NoTable /\ failed' = TRUE
  /\ UNCHANGED <<avail, sysfs, alive, lineVars, leds, gpiod, crash>>

SkipChild ==
  /\ gpc = "probing" /\ at <= Children /\ at \notin avail /\ at' = at + 1
  /\ UNCHANGED <<avail, gpc, dev, sysfs, alive, lineVars, leds, gpiod, failed, crash>>

NextFree == CHOOSE k \in Lines : dev[k] = 0 /\ \A j \in 1 .. k - 1 : dev[j] # 0

\* A child: its data, its line, the direction, the device.
Child ==
  /\ gpc = "probing" /\ at \in avail /\ owner[at] = "nobody"
  /\ alive' = alive \cup {at} /\ owner' = [owner EXCEPT ![at] = "driver"]
  /\ dir' = [dir EXCEPT ![at] = "out"] /\ val' = [val EXCEPT ![at] = 0]
  /\ sysfs' = sysfs \cup {at} /\ UNCHANGED <<avail, gpc, leds, gpiod>>

ProbeChild ==
  /\ Child /\ dev # NoTable /\ dev' = [dev EXCEPT ![NextFree] = at] /\ at' = at + 1
  /\ UNCHANGED <<failed, crash>>

\* The device is created and entered in a table that is not there.
TableFault == Child /\ dev = NoTable /\ failed' = TRUE /\ crash' = TRUE /\ UNCHANGED <<dev, at>>

\* devm frees the data and the lines.
Release ==
  /\ alive' = {}
  /\ owner' = [l \in Lines |-> IF owner[l] = "driver" THEN "nobody" ELSE owner[l]]

\* A step fails; it does when gpiod has the line.  The devices created before stay.
ProbeFails ==
  /\ gpc = "probing" /\ at \in avail /\ gpc' = "failed" /\ failed' = TRUE /\ Release
  /\ UNCHANGED <<avail, at, dev, sysfs, dir, val, leds, gpiod, crash>>

ProbeDone ==
  /\ gpc = "probing" /\ at > Children /\ gpc' = "bound"
  /\ UNCHANGED <<avail, at, dev, sysfs, alive, lineVars, leds, gpiod, failed, crash>>

\* Mutant: the loop stops one short.
gpio_sysfs_remove_mutant == {dev[k] : k \in 1 .. Children - 1}

\* The devices remove unregisters: those of all children, created or not.
gpio_sysfs_remove == {dev[k] : k \in 1 .. Children}

gpio_sysfs_exit ==
  /\ gpc = "bound" /\ gpc' = "out" /\ at' = 0
  /\ sysfs' = sysfs \ gpio_sysfs_remove /\ crash' = (crash \/ \E d \in {0, -1} : d \in gpio_sysfs_remove)
  /\ Release /\ UNCHANGED <<avail, dev, dir, val, leds, gpiod, failed>>

\* Unloading after a failed probe: remove is not called.
FailedExit ==
  /\ gpc = "failed" /\ gpc' = "out" /\ at' = 0
  /\ UNCHANGED <<avail, dev, sysfs, alive, lineVars, leds, gpiod, failed, crash>>

\* An attribute of the device is written: through freed data if there is none left.
Store(l, change) ==
  /\ l \in sysfs
  /\ IF l \in alive THEN change /\ UNCHANGED crash
     ELSE crash' = TRUE /\ UNCHANGED <<dir, val>>

direction_store(l, d) ==
  Store(l, /\ dir' = [dir EXCEPT ![l] = d]
           /\ val' = IF d = "out" THEN [val EXCEPT ![l] = 0] ELSE val)

value_store(l, v) ==
  Store(l, val' = [val EXCEPT ![l] = v] /\ UNCHANGED dir)

\* gpio_app's calls: a device that cannot be opened is left alone, and the program goes on.
gpio_configure_dir(l, d) ==
  \/ direction_store(l, d)
  \/ l \notin sysfs /\ UNCHANGED <<dir, val, crash>>

gpio_set_value(l, v) ==
  \/ value_store(l, v)
  \/ l \notin sysfs /\ UNCHANGED <<dir, val, crash>>

\* The program as the sequence of its calls: the attribute, the line, what is written.
Each(f, v) == [l \in Lines |-> <<f, l, v>>]
Times(s) == [i \in 1 .. LedRounds * Len(s) |-> s[((i - 1) % Len(s)) + 1]]

led_init == Each("direction", "out")
gpio_led_on == Each("value", 1)
gpio_led_off == Each("value", 0)
gpio_led_circle == gpio_led_off \o Times(gpio_led_on \o gpio_led_off) \o gpio_led_off
gpio_led_emergency ==
  gpio_led_off \o Times(<< <<"value", 1, 1>>, <<"value", Children, 1>>,
                           <<"value", 1, 0>>, <<"value", Children, 0>> >>)
    \o gpio_led_off
led_loop == gpio_led_circle \o gpio_led_emergency \o gpio_led_on \o gpio_led_off

gpio_app ==
  /\ Children > 0
  /\ IF leds = <<>> THEN leds' = led_init \o led_loop /\ UNCHANGED <<dir, val, crash>>
     ELSE LET c == Head(leds) IN
       /\ leds' = IF Len(leds) = 1 THEN led_loop ELSE Tail(leds)
       /\ IF c[1] = "direction" THEN gpio_configure_dir(c[2], c[3]) ELSE gpio_set_value(c[2], c[3])
  /\ UNCHANGED <<avail, gpc, at, dev, sysfs, alive, owner, gpiod, failed>>

\* Somebody else writes the direction from a shell.
ShellIn ==
  /\ \E l \in Lines : direction_store(l, "in")
  /\ UNCHANGED <<avail, gpc, at, dev, sysfs, alive, owner, leds, gpiod, failed>>

\* gpiod: requests the lines one after another, each driven to 1; a busy one ends the program,
\* and closing the chip gives back those it got.
configure_gpio_lines ==
  /\ gpiod < Children /\ LET l == gpiod + 1 IN
       \/ /\ owner[l] = "nobody" /\ owner' = [owner EXCEPT ![l] = "gpiod"]
          /\ dir' = [dir EXCEPT ![l] = "out"] /\ val' = [val EXCEPT ![l] = 1] /\ gpiod' = l
       \/ /\ owner[l] # "nobody" /\ gpiod' = 0 /\ UNCHANGED <<dir, val>>
          /\ owner' = [k \in Lines |-> IF owner[k] = "gpiod" THEN "nobody" ELSE owner[k]]
  /\ UNCHANGED <<avail, gpc, at, dev, sysfs, alive, leds, failed, crash>>

\* blinky and running_light, then the chip is closed.
Blink ==
  /\ gpiod = Children /\ Children > 0
  /\ \E l \in Lines, v \in {0, 1} : val' = [val EXCEPT ![l] = v]
  /\ UNCHANGED <<avail, gpc, at, dev, sysfs, alive, owner, dir, leds, gpiod, failed, crash>>

ChipClose ==
  /\ gpiod = Children /\ Children > 0 /\ gpiod' = 0
  /\ owner' = [k \in Lines |-> IF owner[k] = "gpiod" THEN "nobody" ELSE owner[k]]
  /\ UNCHANGED <<avail, gpc, at, dev, sysfs, alive, dir, val, leds, failed, crash>>

GpioNext ==
  /\ ~crash
  /\ \/ gpio_sysfs_init \/ SkipChild \/ ProbeChild \/ TableFault \/ ProbeFails \/ ProbeDone
     \/ gpio_sysfs_exit \/ FailedExit \/ configure_gpio_lines \/ Blink \/ ChipClose
     \/ gpio_app \/ ShellIn

(***************************************************************************)
(* gpio_irq.                                                               *)
(***************************************************************************)
\* A step of the probe fails: devm gives back what it holds.
IrqProbeFails == irqpc' = "leaving" /\ UNCHANGED <<devres, crash>>

\* The probe allocates the data and requests the interrupt; either may fail.
gpio_irq_probe ==
  \/ /\ irqpc = "out" /\ irqpc' = "probing" /\ devres' = <<"data">> /\ UNCHANGED crash
  \/ /\ irqpc = "probing"
     /\ \/ irqpc' = "bound" /\ devres' = Append(devres, "irq") /\ UNCHANGED crash
        \/ IrqProbeFails

\* Remove leaves everything to devm.
gpio_irq_remove == irqpc = "bound" /\ irqpc' = "leaving" /\ UNCHANGED <<devres, crash>>

\* The newest resource first.
DevresRelease ==
  /\ irqpc = "leaving" /\ UNCHANGED crash
  /\ \/ devres # <<>> /\ devres' = SubSeq(devres, 1, Len(devres) - 1) /\ UNCHANGED irqpc
     \/ devres = <<>> /\ irqpc' = "out" /\ UNCHANGED devres

Holds(r) == \E k \in 1 .. Len(devres) : devres[k] = r

\* The interrupt comes at any time while it is requested; the handler uses the data.
gpio_irq_handler == Holds("irq") /\ crash' = (crash \/ ~Holds("data")) /\ UNCHANGED irqVars

GpioIrqNext == gpio_irq_probe \/ gpio_irq_remove \/ DevresRelease \/ gpio_irq_handler

\* The two modules side by side.
GpioStep ==
  \/ GpioNext /\ UNCHANGED irqVars
  \/ GpioIrqNext /\ UNCHANGED <<avail, gpc, at, dev, sysfs, alive, lineVars, leds, gpiod, failed>>

GpioSpec == GpioInit /\ [][GpioStep]_<<gpioVars, irqVars>>

(***************************************************************************)
(* Properties.                                                             *)
(***************************************************************************)
\* With no child disabled and no probe that failed or found no memory, the driver can be loaded, used and
\* unloaded any number of times, with gpiod on the same lines: no device outlives its data,
\* none is left after unloading, and a line reached through sysfs is never gpiod's.  When
\* gpio_app comes round to the start of its loop, having turned the LEDs off, every LED it can
\* reach is dark, whatever was loaded, unloaded or started while it was at it.  The interrupt
\* handler of gpio_irq never runs without its data, not even while the module is leaving.
GpioClean ==
  avail = Lines /\ ~failed =>
    /\ sysfs \subseteq alive /\ ~crash /\ \A l \in sysfs : owner[l] = "driver"
    /\ gpc = "out" => sysfs = {}
    /\ leds = led_loop => \A l \in sysfs : val[l] = 0
=============================================================================
