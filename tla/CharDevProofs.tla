---------------------------- MODULE CharDevProofs ---------------------------
(***************************************************************************)
(* Theorems about the small device drivers: Apb3 for every set of programs *)
(* and EfxGpio for every number of lines and of rounds of the light show;  *)
(* and about the pixels of EvsocOverlay, for every frame and font.         *)
(***************************************************************************)
EXTENDS Apb3, EfxGpio, EvsocOverlay, FiniteSetTheorems, TLAPS

(***************************************************************************)
(* Apb3.                                                                   *)
(***************************************************************************)
Holders == {p \in Programs : apc[p] \in {"open", "used"}}

\* Until rmmod begins every open file has its reference: a release that finds the flag clear
\* keeps it, so there are at least as many references as open files, and possibly more.
\* Afterwards none has.  No program is in apb3_open or has a file of a module that is gone.
PinInv ==
  /\ apc \in [Programs -> {"closed", "opening", "busy", "open", "used", "stale", "oops"}]
  /\ IsFiniteSet(aheld) /\ arefs \in Nat /\ Cardinality(aheld) <= arefs
  /\ aheld = IF agoing THEN {} ELSE Holders
  /\ agoing => ApbLoaded
  /\ ~ApbLoaded => \A p \in Programs : apc[p] \notin {"opening", "open", "used"}

\* Opening takes a reference before the file counts as open, unless the module is going, and
\* release gives at most one back.
LEMMA PinStep ==
  ASSUME PinInv, [ApbNext]_apbVars
  PROVE  PinInv'
<1>0. Cardinality(aheld) \in Nat /\ (Cardinality(aheld) = 0 <=> aheld = {})
  BY FS_CardinalityType, FS_EmptySet DEF PinInv
<1>1. CASE apb3_init
  <2>1. ~ApbLoaded /\ ~agoing
    BY <1>1 DEF apb3_init, PinInv, ApbLoaded
  <2>2. Holders' = Holders
    BY <1>1 DEF apb3_init, Holders
  <2> QED BY <1>1, <2>1, <2>2 DEF apb3_init, PinInv
<1>2. CASE ApbRmmod
  <2>1. aheld = {}
    BY <1>0, <1>2 DEF ApbRmmod, PinInv
  <2> QED BY <1>2, <2>1 DEF ApbRmmod, PinInv, ApbLoaded
<1>3. CASE apb3_exit
  <2>1. Holders' = {}
    BY <1>3 DEF apb3_exit, Holders
  <2>2. \A p \in Programs : apc'[p] \notin {"opening", "open", "used"}
    BY <1>3 DEF apb3_exit
  <2>3. apc' \in [Programs -> {"closed", "opening", "busy", "open", "used", "stale", "oops"}]
    BY <1>3 DEF apb3_exit, PinInv
  <2> QED BY <1>3, <2>1, <2>2, <2>3 DEF apb3_exit, PinInv
<1>4. ASSUME NEW p \in Programs, Program(p)
      PROVE  PinInv'
  <2>1. CASE OpenEnter(p) \/ UseStaleApb(p) \/ apb3_read(p) \/ apb3_write(p) \/ BusyClose(p)
    <3>1. Holders' = Holders
      BY <2>1 DEF OpenEnter, UseStaleApb, apb3_read, apb3_write, BusyClose, PinInv, Holders
    <3>2. UNCHANGED <<amod, agoing, arefs, aheld>>
      BY <2>1, Zenon DEF OpenEnter, UseStaleApb, apb3_read, apb3_write, BusyClose
    <3>3. apc' \in [Programs -> {"closed", "opening", "busy", "open", "used", "stale", "oops"}]
      BY <2>1 DEF OpenEnter, UseStaleApb, apb3_read, apb3_write, BusyClose, PinInv
    <3>4. ~ApbLoaded => \A q \in Programs : apc'[q] \notin {"opening", "open", "used"}
      <4>1. OpenEnter(p) => ApbLoaded
        BY DEF OpenEnter, ApbLoaded, Objects
      <4>2. CASE ~OpenEnter(p)
        BY <2>1, <4>2 DEF UseStaleApb, apb3_read, apb3_write, BusyClose, PinInv
      <4> QED BY <4>1, <4>2
    <3> QED BY <3>1, <3>2, <3>3, <3>4 DEF PinInv, ApbLoaded
  <2>2. CASE apb3_open(p) /\ agoing
    BY <2>2 DEF apb3_open, PinInv, ApbLoaded
  <2>3. CASE apb3_open(p) /\ ~agoing
    <3>1. Holders' = Holders \cup {p} /\ p \notin Holders
      BY <2>3 DEF apb3_open, PinInv, Holders
    <3>2. aheld' = aheld \cup {p} /\ p \notin aheld /\ arefs' = arefs + 1
      BY <2>3, <3>1 DEF apb3_open, PinInv
    <3>3. IsFiniteSet(aheld') /\ Cardinality(aheld') = Cardinality(aheld) + 1
      BY <3>2, FS_AddElement DEF PinInv
    <3> QED BY <2>3, <3>1, <3>2, <3>3, <1>0 DEF apb3_open, PinInv, ApbLoaded
  <2>4. CASE apb3_release(p) /\ agoing
    <3>1. aheld = {} /\ aheld' = {} /\ arefs' \in Nat /\ Cardinality(aheld') <= arefs'
      BY <1>0, <2>4, FS_EmptySet DEF apb3_release, PinInv
    <3> QED BY <2>4, <3>1 DEF apb3_release, PinInv, ApbLoaded
  <2>5. CASE apb3_release(p) /\ ~agoing
    <3>1. Holders' = Holders \ {p} /\ p \in Holders
      BY <2>5 DEF apb3_release, PinInv, Holders
    <3>2. IsFiniteSet(aheld \ {p}) /\ Cardinality(aheld \ {p}) = Cardinality(aheld) - 1
      BY <2>5, <3>1, FS_RemoveElement DEF PinInv
    <3>3. arefs' \in {arefs, arefs - 1} /\ arefs' \in Nat
      BY <2>5 DEF apb3_release, PinInv
    <3>4. aheld' = aheld \ {p} /\ Cardinality(aheld') <= arefs'
      BY <1>0, <2>5, <3>2, <3>3 DEF apb3_release, PinInv
    <3> QED BY <2>5, <3>1, <3>2, <3>3, <3>4 DEF apb3_release, PinInv, ApbLoaded
  <2> QED BY <1>4, <2>1, <2>2, <2>3, <2>4, <2>5 DEF Program
<1>5. CASE UNCHANGED apbVars
  BY <1>5 DEF apbVars, PinInv, Holders, ApbLoaded
<1> QED BY <1>1, <1>2, <1>3, <1>4, <1>5 DEF ApbNext

\* The APB3 module is loaded as long as any program has a file open that it opened before
\* rmmod began, for any number of programs racing for is_open and with the unload.
THEOREM OpenPinsApb3 == ApbSpec => []ApbPinned
<1>1. ApbInit => PinInv
  BY FS_EmptySet DEF ApbInit, PinInv, Holders
<1>2. PinInv /\ [ApbNext]_apbVars => PinInv'
  BY PinStep
<1>3. PinInv => ApbPinned
  BY DEF PinInv, ApbPinned, Holders
<1> QED BY <1>1, <1>2, <1>3, PTL DEF ApbSpec

(***************************************************************************)
(* EfxGpio.                                                                *)
(***************************************************************************)
\* gpio_app from the start, and what is left of it at call j.  The last Children calls turn the
\* LEDs off one by one.
Show == led_init \o led_loop
Last == Len(Show) - Children
From(j) == SubSeq(Show, j, Len(Show))

Calls == {"direction", "value"} \X Lines \X {0, 1, "out"}

\* What Each builds.
LEMMA EachLemma ==
  ASSUME NEW f \in {"direction", "value"}, NEW v \in {0, 1, "out"}
  PROVE  /\ Each(f, v) \in Seq(Calls) /\ Len(Each(f, v)) = Children
         /\ \A l \in Lines : Each(f, v)[l] = <<f, l, v>>
<1>0. Children \in Nat
  BY GpioAssumption
<1>1. \A l \in Lines : <<f, l, v>> \in Calls
  BY DEF Calls
<1>2. Each(f, v) \in [1 .. Children -> Calls]
  BY <1>1 DEF Each, Lines
<1>3. Each(f, v) \in Seq(Calls) /\ Len(Each(f, v)) = Children
  BY <1>0, <1>2
<1> QED BY <1>3 DEF Each

\* What Times builds.
LEMMA TimesLemma ==
  ASSUME NEW s \in Seq(Calls), s # <<>>
  PROVE  Times(s) \in Seq(Calls)
<1> DEFINE m == LedRounds * Len(s)
<1>1. Len(s) \in Nat \ {0} /\ m \in Nat
  <2>1. Len(s) \in Nat \ {0}
    OBVIOUS
  <2> QED BY <2>1, GpioAssumption
<1> HIDE DEF m
<1>2. ASSUME NEW i \in 1 .. m
      PROVE  s[((i - 1) % Len(s)) + 1] \in Calls
  <2> DEFINE r == (i - 1) % Len(s)
  <2>1. i - 1 \in Int
    BY <1>1
  <2>2. r \in 0 .. Len(s) - 1
    BY <1>1, <2>1
  <2> HIDE DEF r
  <2>3. r + 1 \in 1 .. Len(s)
    BY <1>1, <2>2
  <2>4. s[r + 1] \in Calls
    BY <2>3
  <2> QED BY <2>4 DEF r
<1>3. Times(s) = [i \in 1 .. m |-> s[((i - 1) % Len(s)) + 1]]
  BY DEF Times, m
<1>4. Times(s) \in [1 .. m -> Calls]
  BY <1>2, <1>3
<1> QED BY <1>1, <1>4

\* The calls of gpio_app: first the directions, line by line; at the end the values 0.
LEMMA ShowLemma ==
  ASSUME Children > 0
  PROVE  /\ led_loop \in Seq(Calls) /\ Show \in Seq(Calls) /\ Len(led_loop) = Last
         /\ Len(Show) \in Nat /\ Last \in Nat /\ Last > Children
         /\ \A l \in Lines : Show[l] = <<"direction", l, "out">>
         /\ \A l \in Lines : Show[Last + l] = <<"value", l, 0>>
         /\ led_loop = From(Children + 1)
<1>0. Children \in Nat
  BY GpioAssumption
<1> DEFINE on == gpio_led_on
           off == gpio_led_off
           X == gpio_led_circle \o gpio_led_emergency \o on
<1>1. /\ led_init \in Seq(Calls) /\ Len(led_init) = Children
      /\ \A l \in Lines : led_init[l] = <<"direction", l, "out">>
  BY EachLemma DEF led_init
<1>2. on \in Seq(Calls) /\ Len(on) = Children
  BY EachLemma DEF gpio_led_on
<1>3. /\ off \in Seq(Calls) /\ Len(off) = Children
      /\ \A l \in Lines : off[l] = <<"value", l, 0>>
  BY EachLemma DEF gpio_led_off
<1>4. gpio_led_circle \in Seq(Calls) /\ Len(gpio_led_circle) \in Nat
  <2>1. on \o off \in Seq(Calls) /\ on \o off # <<>>
    <3>1. on \o off \in Seq(Calls) /\ Len(on \o off) = Children + Children
      BY <1>0, <1>2, <1>3
    <3> QED BY <1>0, <3>1
  <2>2. Times(on \o off) \in Seq(Calls)
    BY <2>1, TimesLemma
  <2> HIDE DEF on, off
  <2>3. off \o Times(on \o off) \o off \in Seq(Calls)
    BY <1>3, <2>2
  <2> QED BY <2>3 DEF gpio_led_circle, on, off
<1>5. gpio_led_emergency \in Seq(Calls) /\ Len(gpio_led_emergency) \in Nat
  <2> DEFINE s == << <<"value", 1, 1>>, <<"value", Children, 1>>,
                     <<"value", 1, 0>>, <<"value", Children, 0>> >>
  <2>1. 1 \in Lines /\ Children \in Lines
    BY <1>0 DEF Lines
  <2>2. /\ <<"value", 1, 1>> \in Calls /\ <<"value", Children, 1>> \in Calls
        /\ <<"value", 1, 0>> \in Calls /\ <<"value", Children, 0>> \in Calls
    BY <2>1 DEF Calls
  <2>3. s \in Seq(Calls) /\ s # <<>>
    BY <2>2
  <2> HIDE DEF s
  <2>4. Times(s) \in Seq(Calls)
    BY <2>3, TimesLemma
  <2> HIDE DEF off
  <2>5. off \o Times(s) \o off \in Seq(Calls)
    BY <1>3, <2>4
  <2> QED BY <2>5 DEF gpio_led_emergency, s, off
<1> HIDE DEF on, off
<1>6. X \in Seq(Calls) /\ Len(X) \in Nat /\ Len(X) >= Children
  <2>1. /\ gpio_led_circle \o gpio_led_emergency \in Seq(Calls)
        /\ Len(gpio_led_circle \o gpio_led_emergency) \in Nat
    BY <1>4, <1>5
  <2>2. X \in Seq(Calls) /\ Len(X) = Len(gpio_led_circle \o gpio_led_emergency) + Children
    BY <1>2, <2>1
  <2> QED BY <1>0, <2>1, <2>2
<1>7. led_loop = X \o off
  BY DEF led_loop, on, off
<1> HIDE DEF X
<1>8. /\ led_loop \in Seq(Calls) /\ Len(led_loop) = Len(X) + Children
      /\ \A l \in Lines : led_loop[Len(X) + l] = <<"value", l, 0>>
  <2>a. X \in Seq(Calls) /\ off \in Seq(Calls) /\ Len(off) = Children
    BY <1>3, <1>6
  <2>b. X \o off \in Seq(Calls)
    BY <2>a
  <2>c. Len(X \o off) = Len(X) + Len(off)
    BY <2>a
  <2>1. led_loop \in Seq(Calls) /\ Len(led_loop) = Len(X) + Children
    BY <1>7, <2>a, <2>b, <2>c, Zenon
  <2>2. \A l \in Lines : led_loop[Len(X) + l] = off[l]
    BY <1>0, <1>3, <1>6, <1>7 DEF Lines
  <2> QED BY <1>3, <2>1, <2>2
<1>9. /\ Show \in Seq(Calls) /\ Len(Show) = Children + (Len(X) + Children)
      /\ \A l \in Lines : Show[l] = <<"direction", l, "out">>
      /\ \A k \in 1 .. Len(led_loop) : Show[Children + k] = led_loop[k]
  <2>1. Show \in Seq(Calls) /\ Len(Show) = Children + (Len(X) + Children)
    BY <1>0, <1>1, <1>8 DEF Show
  <2>2. \A l \in Lines : Show[l] = led_init[l]
    BY <1>0, <1>1, <1>8 DEF Show, Lines
  <2>3. \A k \in 1 .. Len(led_loop) : Show[Children + k] = led_loop[k]
    BY <1>0, <1>1, <1>8 DEF Show
  <2> QED BY <1>1, <2>1, <2>2, <2>3
<1>10. Last = Len(X) + Children /\ Len(Show) = Children + Last
  BY <1>0, <1>6, <1>9 DEF Last
<1>11. \A l \in Lines : Show[Last + l] = <<"value", l, 0>>
  <2> SUFFICES ASSUME NEW l \in Lines PROVE Show[Last + l] = <<"value", l, 0>>
    OBVIOUS
  <2>1. Len(X) + l \in 1 .. Len(led_loop) /\ Children + (Len(X) + l) = Last + l
    BY <1>0, <1>6, <1>8, <1>10 DEF Lines
  <2> QED BY <1>8, <1>9, <2>1
<1>12. led_loop = From(Children + 1)
  <2>0. Len(Show) = Children + Len(led_loop) /\ Len(led_loop) \in Nat
    BY <1>0, <1>6, <1>8, <1>9
  <2>1. /\ From(Children + 1) \in Seq(Calls) /\ Len(From(Children + 1)) = Len(led_loop)
        /\ \A k \in 1 .. Len(led_loop) : From(Children + 1)[k] = Show[Children + k]
    <3> DEFINE n == Len(Show)
               m == Len(led_loop)
    <3>1. /\ Show \in Seq(Calls) /\ n \in Nat /\ m \in Nat /\ n = Children + m
          /\ \A k \in 1 .. n : Show[k] \in Calls
      BY <1>9, <2>0
    <3>2. From(Children + 1) = [k \in 1 .. m |-> Show[(Children + 1) + k - 1]]
      BY <1>0, <3>1 DEF From
    <3> HIDE DEF n, m
    <3>3. \A k \in 1 .. m : (Children + 1) + k - 1 = Children + k /\ Children + k \in 1 .. n
      BY <1>0, <3>1
    <3>4. From(Children + 1) \in [1 .. m -> Calls]
      BY <3>1, <3>2, <3>3
    <3>5. \A k \in 1 .. m : From(Children + 1)[k] = Show[Children + k]
      BY <3>2, <3>3
    <3> QED BY <3>1, <3>4, <3>5 DEF m
  <2>2. \A k \in 1 .. Len(led_loop) : From(Children + 1)[k] = led_loop[k]
    BY <1>9, <2>1
  <2> QED BY <1>8, <2>1, <2>2
<1> QED BY <1>0, <1>6, <1>8, <1>9, <1>10, <1>11, <1>12

\* What is left of the calls is walked one by one.
LEMMA FromLemma ==
  ASSUME Children > 0, NEW j \in 1 .. Len(Show)
  PROVE  /\ Head(From(j)) = Show[j] /\ Len(From(j)) = Len(Show) - j + 1 /\ From(j) # <<>>
         /\ j < Len(Show) => Tail(From(j)) = From(j + 1)
<1> DEFINE n == Len(Show)
           m == n - j + 1
<1>0. Show \in Seq(Calls) /\ n \in Nat
  BY ShowLemma
<1>1. \A k \in 1 .. n : Show[k] \in Calls
  BY <1>0
<1>2. ASSUME NEW i \in 1 .. n
      PROVE  /\ From(i) \in Seq(Calls) /\ Len(From(i)) = n - i + 1
             /\ \A k \in 1 .. n - i + 1 : From(i)[k] = Show[i + k - 1]
  <2>1. From(i) = [k \in 1 .. n - i + 1 |-> Show[i + k - 1]]
    BY <1>0 DEF From
  <2> HIDE DEF n
  <2>2. \A k \in 1 .. n - i + 1 : i + k - 1 \in 1 .. n
    BY <1>0
  <2>3. From(i) \in [1 .. n - i + 1 -> Calls] /\ n - i + 1 \in Nat
    BY <1>0, <1>1, <2>1, <2>2
  <2>4. From(i) \in Seq(Calls) /\ Len(From(i)) = n - i + 1
    BY <2>3
  <2> QED BY <2>1, <2>4
<1> HIDE DEF n
<1>3. Head(From(j)) = Show[j] /\ Len(From(j)) = n - j + 1 /\ From(j) # <<>>
  <2>1. j \in 1 .. n
    BY DEF n
  <2>2. From(j) \in Seq(Calls) /\ Len(From(j)) = n - j + 1 /\ Len(From(j)) > 0
    BY <1>0, <1>2, <2>1
  <2>3. 1 \in 1 .. n - j + 1 /\ j + 1 - 1 = j
    BY <1>0, <2>1
  <2>4. From(j)[1] = Show[j]
    BY <1>2, <2>1, <2>3
  <2> QED BY <2>2, <2>4
<1>4. ASSUME j < n
      PROVE  Tail(From(j)) = From(j + 1)
  <2>1. j \in 1 .. n /\ j + 1 \in 1 .. n
    BY <1>0, <1>4 DEF n
  <2>2. /\ From(j) \in Seq(Calls) /\ Len(From(j)) = n - j + 1 /\ Len(From(j)) > 0
        /\ From(j + 1) \in Seq(Calls) /\ Len(From(j + 1)) = n - j
    <3>1. From(j) \in Seq(Calls) /\ Len(From(j)) = n - j + 1
      BY <1>2, <2>1
    <3>2. From(j + 1) \in Seq(Calls) /\ Len(From(j + 1)) = n - (j + 1) + 1
      BY <1>2, <2>1, Zenon
    <3>3. n - (j + 1) + 1 = n - j /\ n - j + 1 > 0
      BY <1>0, <2>1
    <3> QED BY <3>1, <3>2, <3>3
  <2>3. /\ Tail(From(j)) \in Seq(Calls) /\ Len(Tail(From(j))) = n - j
        /\ \A k \in 1 .. n - j : Tail(From(j))[k] = From(j)[k + 1]
    BY <1>0, <2>1, <2>2
  <2>4. ASSUME NEW k \in 1 .. n - j
        PROVE  From(j)[k + 1] = From(j + 1)[k]
    <3>1. k + 1 \in 1 .. n - j + 1 /\ k \in 1 .. n - (j + 1) + 1
          /\ j + (k + 1) - 1 = (j + 1) + k - 1
      BY <1>0, <2>1
    <3> QED BY <1>2, <2>1, <3>1
  <2> QED BY <2>2, <2>3, <2>4
<1> QED BY <1>3, <1>4 DEF n

\* The case GpioClean is about: no child is disabled and no probe has failed.
Fine == avail = Lines /\ ~failed

\* The data is the oldest of what devm holds, so it goes last.
IrqInv ==
  /\ devres \in Seq({"data", "irq"})
  /\ Len(devres) > 0 => devres[1] = "data"
  /\ irqpc = "probing" => Len(devres) > 0

\* The probe has created devices 1, 2, ... in this order, so that remove finds each of them.
DriverInv ==
  Fine =>
    /\ ~crash /\ gpc \in {"out", "probing", "bound"}
    /\ gpc = "out" => sysfs = {} /\ alive = {}
    /\ gpc = "probing" =>
         /\ at \in 1 .. Children + 1 /\ DOMAIN dev = Lines
         /\ \A k \in Lines : dev[k] = IF k < at THEN k ELSE 0
         /\ sysfs = 1 .. at - 1 /\ alive = sysfs
    /\ gpc = "bound" => (\A k \in Lines : dev[k] = k) /\ sysfs = Lines /\ alive = Lines
    /\ \A l \in sysfs : owner[l] = "driver"

LineInv ==
  /\ DOMAIN owner = Lines /\ DOMAIN val = Lines
  /\ gpiod \in 0 .. Children /\ \A l \in Lines : l <= gpiod => owner[l] = "gpiod"

\* While gpio_app sets the directions, and while it turns the LEDs off for the last time in its
\* loop, the lines it has come past are dark.
Dark(j) ==
  \A l \in sysfs :
    (j <= Children + 1 /\ l < j) \/ (j > Last /\ l < j - Last) => val[l] = 0

LedInv ==
  leds = <<>> \/ (Children > 0 /\ \E j \in 1 .. Len(Show) : leds = From(j) /\ (Fine => Dark(j)))

GpioInv == IrqInv /\ DriverInv /\ LineInv /\ LedInv

\* The interrupt example.
LEMMA IrqStep ==
  ASSUME GpioInv, GpioIrqNext,
         UNCHANGED <<avail, gpc, at, dev, sysfs, alive, owner, dir, val, leds, gpiod, failed>>
  PROVE  GpioInv'
<1>0. devres \in Seq({"data", "irq"}) /\ Len(devres) \in Nat
  BY DEF GpioInv, IrqInv
<1>1. Holds("irq") => Holds("data")
  <2> SUFFICES ASSUME Holds("irq") PROVE Holds("data")
    OBVIOUS
  <2>1. Len(devres) > 0 /\ 1 \in 1 .. Len(devres)
    BY <1>0 DEF Holds
  <2>2. devres[1] = "data"
    BY <2>1 DEF GpioInv, IrqInv
  <2> QED BY <2>1, <2>2 DEF Holds
<1>2. IrqInv'
  <2>1. CASE gpio_irq_probe
    <3>1. <<"data">> \in Seq({"data", "irq"}) /\ Len(<<"data">>) > 0 /\ <<"data">>[1] = "data"
      OBVIOUS
    <3>2. /\ Append(devres, "irq") \in Seq({"data", "irq"}) /\ Len(Append(devres, "irq")) > 0
          /\ Len(devres) > 0 => Append(devres, "irq")[1] = devres[1]
      BY <1>0
    <3> QED BY <2>1, <3>1, <3>2 DEF gpio_irq_probe, IrqProbeFails, GpioInv, IrqInv
  <2>2. CASE gpio_irq_remove
    BY <2>2 DEF gpio_irq_remove, GpioInv, IrqInv
  <2>3. CASE DevresRelease
    <3> DEFINE s == SubSeq(devres, 1, Len(devres) - 1)
    <3>1. devres # <<>> =>
            /\ s \in Seq({"data", "irq"}) /\ Len(s) = Len(devres) - 1
            /\ Len(s) > 0 => s[1] = devres[1]
      <4> SUFFICES ASSUME devres # <<>>
                   PROVE  /\ s \in Seq({"data", "irq"}) /\ Len(s) = Len(devres) - 1
                          /\ Len(s) > 0 => s[1] = devres[1]
        OBVIOUS
      <4>1. Len(devres) > 0 /\ \A k \in 1 .. Len(devres) : devres[k] \in {"data", "irq"}
        BY <1>0
      <4>2. Len(devres) - 1 \in Nat /\ s = [k \in 1 .. Len(devres) - 1 |-> devres[k]]
        BY <1>0, <4>1
      <4> DEFINE n == Len(devres) - 1
      <4>3. n \in Nat /\ s = [k \in 1 .. n |-> devres[k]]
            /\ \A k \in 1 .. n : devres[k] \in {"data", "irq"}
        BY <1>0, <4>1, <4>2
      <4> HIDE DEF n
      <4>4. s \in [1 .. n -> {"data", "irq"}]
        BY <4>3
      <4>5. s \in Seq({"data", "irq"}) /\ Len(s) = n
        BY <4>3, <4>4
      <4> QED BY <4>3, <4>5 DEF n
    <3> HIDE DEF s
    <3>2. irqpc' # "probing" /\ (devres' = devres \/ (devres # <<>> /\ devres' = s))
      BY <2>3 DEF DevresRelease, s
    <3> QED BY <1>0, <3>1, <3>2 DEF GpioInv, IrqInv
  <2>4. CASE gpio_irq_handler
    BY <2>4 DEF gpio_irq_handler, irqVars, GpioInv, IrqInv
  <2> QED BY <2>1, <2>2, <2>3, <2>4 DEF GpioIrqNext
<1>3. crash' <=> crash
  <2>1. CASE gpio_irq_handler
    BY <1>1, <2>1 DEF gpio_irq_handler
  <2>2. CASE ~gpio_irq_handler
    <3>1. crash' = crash
      BY <2>2, Zenon DEF GpioIrqNext, gpio_irq_probe, IrqProbeFails, gpio_irq_remove, DevresRelease
    <3> QED BY <3>1
  <2> QED BY <2>1, <2>2
<1>4. DriverInv'
  BY <1>3 DEF GpioInv, DriverInv, Fine
<1>5. LineInv' /\ LedInv'
  BY DEF GpioInv, LineInv, LedInv, Fine, Dark
<1> QED BY <1>2, <1>4, <1>5 DEF GpioInv

\* A step that leaves gpio_app where it is and no reachable LED alight.
LEMMA DarkKept ==
  ASSUME LedInv, leds' = leds, Fine' => Fine,
         Fine => \A l \in sysfs' : val'[l] = 0 \/ (l \in sysfs /\ val'[l] = val[l])
  PROVE  LedInv'
BY DEF LedInv, Dark

\* The driver, the shell and the gpiod program.
LEMMA DriverStep ==
  ASSUME GpioInv, UNCHANGED irqVars,
         \/ gpio_sysfs_init \/ SkipChild \/ ProbeChild \/ TableFault \/ ProbeFails \/ ProbeDone
         \/ gpio_sysfs_exit \/ FailedExit \/ configure_gpio_lines \/ Blink \/ ChipClose \/ ShellIn
  PROVE  GpioInv'
<1> USE DEF GpioInv
<1>0. Children \in Nat
  BY GpioAssumption
<1>a. IrqInv'
  BY DEF IrqInv, irqVars
<1>b. leds' = leds /\ avail' = avail
  BY Zenon DEF gpio_sysfs_init, SkipChild, ProbeChild, Child, TableFault, ProbeFails, ProbeDone,
     gpio_sysfs_exit, FailedExit, configure_gpio_lines, Blink, ChipClose, ShellIn
<1>1. CASE gpio_sysfs_init
  <2>1. UNCHANGED <<sysfs, alive, owner, val, gpiod, crash>> /\ (Fine' => Fine)
    BY <1>1, <1>b DEF gpio_sysfs_init, lineVars, Fine
  <2>2. DriverInv'
    BY <1>0, <1>1, <1>b, <2>1 DEF gpio_sysfs_init, DriverInv, Fine, Lines
  <2>3. LineInv'
    BY <2>1 DEF LineInv
  <2>4. LedInv'
    BY <1>b, <2>1, DarkKept
  <2> QED BY <1>a, <2>2, <2>3, <2>4
<1>2. CASE SkipChild
  <2>1. UNCHANGED <<sysfs, alive, owner, val, gpiod, failed, crash, gpc, dev>>
    BY <1>2 DEF SkipChild, lineVars
  <2>2. ~Fine
    BY <1>0, <1>2 DEF SkipChild, DriverInv, Fine, Lines
  <2>3. ~Fine'
    BY <1>b, <2>1, <2>2 DEF Fine
  <2>4. DriverInv' /\ LineInv'
    BY <2>1, <2>3 DEF DriverInv, LineInv
  <2>5. LedInv'
    BY <1>b, <2>2, <2>3, DarkKept
  <2> QED BY <1>a, <2>4, <2>5
<1>3. CASE ProbeChild
  <2>0. /\ gpc = "probing" /\ owner[at] = "nobody" /\ alive' = alive \cup {at}
        /\ owner' = [owner EXCEPT ![at] = "driver"] /\ val' = [val EXCEPT ![at] = 0]
        /\ dev' = [dev EXCEPT ![NextFree] = at] /\ sysfs' = sysfs \cup {at} /\ at' = at + 1
        /\ UNCHANGED <<gpc, gpiod, failed, crash>> /\ at \in avail
    BY <1>3 DEF ProbeChild, Child
  <2>1. LineInv'
    BY <2>0 DEF LineInv
  <2>2. DriverInv'
    <3> SUFFICES ASSUME Fine PROVE DriverInv'
      BY <1>b, <2>0 DEF DriverInv, Fine
    <3>1. at \in Lines /\ at \in 1 .. Children
      BY <2>0 DEF Fine, Lines
    <3>2. /\ DOMAIN dev = Lines /\ \A k \in Lines : dev[k] = IF k < at THEN k ELSE 0
          /\ sysfs = 1 .. at - 1 /\ alive = sysfs
      BY <2>0 DEF DriverInv
    <3>3. NextFree = at
      <4>1. dev[at] = 0 /\ \A i \in 1 .. at - 1 : dev[i] # 0
        BY <1>0, <3>1, <3>2 DEF Lines
      <4>2. ASSUME NEW k \in Lines, dev[k] = 0, \A i \in 1 .. k - 1 : dev[i] # 0
            PROVE  k = at
        <5>1. ~(k < at)
          BY <1>0, <3>1, <3>2, <4>2 DEF Lines
        <5>2. ~(at < k)
          BY <1>0, <3>1, <4>1, <4>2 DEF Lines
        <5> QED BY <1>0, <3>1, <5>1, <5>2 DEF Lines
      <4> QED BY <3>1, <4>1, <4>2 DEF NextFree
    <3>4. /\ at + 1 \in 1 .. Children + 1 /\ DOMAIN dev' = Lines
          /\ \A k \in Lines : dev'[k] = IF k < at + 1 THEN k ELSE 0
      BY <1>0, <2>0, <3>1, <3>2, <3>3 DEF Lines
    <3>5. sysfs' = 1 .. (at + 1) - 1 /\ alive' = sysfs'
      BY <1>0, <2>0, <3>1, <3>2
    <3>6. \A l \in sysfs' : owner'[l] = "driver"
      <4>1. sysfs \subseteq Lines
        BY <1>0, <3>1, <3>2 DEF Lines
      <4>2. \A l \in sysfs : owner[l] = "driver"
        BY DEF DriverInv
      <4> QED BY <2>0, <3>1, <4>1, <4>2 DEF LineInv
    <3> QED BY <2>0, <3>4, <3>5, <3>6 DEF DriverInv
  <2>3. LedInv'
    <3>1. Fine => \A l \in sysfs' : val'[l] = 0 \/ (l \in sysfs /\ val'[l] = val[l])
      BY <2>0 DEF Fine, LineInv
    <3> QED BY <1>b, <2>0, <3>1, DarkKept DEF Fine
  <2> QED BY <1>a, <2>1, <2>2, <2>3
<1>c. CASE TableFault
  <2>1. /\ failed' = TRUE /\ UNCHANGED gpiod /\ owner[at] = "nobody"
        /\ owner' = [owner EXCEPT ![at] = "driver"] /\ val' = [val EXCEPT ![at] = 0]
    BY <1>c DEF TableFault, Child
  <2>2. ~Fine'
    BY <2>1 DEF Fine
  <2>3. LineInv'
    BY <2>1 DEF LineInv
  <2>4. LedInv'
    BY <1>b, <2>2 DEF LedInv
  <2> QED BY <1>a, <2>2, <2>3, <2>4 DEF DriverInv
<1>4. CASE ProbeFails
  <2>1. failed' = TRUE /\ UNCHANGED <<val, gpiod>>
        /\ owner' = [l \in Lines |-> IF owner[l] = "driver" THEN "nobody" ELSE owner[l]]
    BY <1>4 DEF ProbeFails, Release
  <2>2. ~Fine'
    BY <2>1 DEF Fine
  <2>3. LineInv'
    BY <2>1 DEF LineInv
  <2>4. LedInv'
    BY <1>b, <2>2 DEF LedInv
  <2> QED BY <1>a, <2>2, <2>3, <2>4 DEF DriverInv
<1>5. CASE ProbeDone
  <2>1. UNCHANGED <<at, dev, sysfs, alive, owner, val, gpiod, failed, crash>>
        /\ gpc = "probing" /\ at > Children /\ gpc' = "bound"
    BY <1>5 DEF ProbeDone, lineVars
  <2>2. DriverInv'
    <3> SUFFICES ASSUME Fine PROVE DriverInv'
      BY <1>b, <2>1 DEF DriverInv, Fine
    <3>1. at = Children + 1
      BY <1>0, <2>1 DEF DriverInv
    <3>2. sysfs = Lines /\ alive = Lines /\ \A k \in Lines : dev[k] = k
      BY <1>0, <2>1, <3>1 DEF DriverInv, Lines
    <3> QED BY <2>1, <3>2 DEF DriverInv
  <2>3. LineInv' /\ LedInv'
    BY <1>b, <2>1, DarkKept DEF LineInv, Fine
  <2> QED BY <1>a, <2>2, <2>3
<1>6. CASE gpio_sysfs_exit
  <2>1. /\ gpc = "bound" /\ gpc' = "out" /\ sysfs' = sysfs \ gpio_sysfs_remove
        /\ (crash' <=> crash \/ \E d \in {0, -1} : d \in gpio_sysfs_remove) /\ alive' = {}
        /\ owner' = [l \in Lines |-> IF owner[l] = "driver" THEN "nobody" ELSE owner[l]]
        /\ UNCHANGED <<val, gpiod, failed>>
    BY <1>6 DEF gpio_sysfs_exit, Release
  <2>2. DriverInv'
    <3> SUFFICES ASSUME Fine PROVE DriverInv'
      BY <1>b, <2>1 DEF DriverInv, Fine
    <3>1. gpio_sysfs_remove = Lines /\ sysfs = Lines
      BY <2>1 DEF gpio_sysfs_remove, DriverInv, Lines
    <3>2. sysfs' = {} /\ 0 \notin Lines /\ -1 \notin Lines
      BY <1>0, <2>1, <3>1 DEF Lines
    <3> QED BY <2>1, <3>1, <3>2 DEF DriverInv
  <2>3. LineInv'
    BY <2>1 DEF LineInv
  <2>4. LedInv'
    BY <1>b, <2>1, DarkKept DEF Fine
  <2> QED BY <1>a, <2>2, <2>3, <2>4
<1>7. CASE FailedExit
  <2>1. UNCHANGED <<sysfs, owner, val, gpiod, failed, crash>> /\ gpc = "failed"
    BY <1>7 DEF FailedExit, lineVars
  <2>2. ~Fine'
    BY <1>b, <2>1 DEF DriverInv, Fine
  <2>3. LineInv' /\ LedInv'
    BY <1>b, <2>1, DarkKept DEF LineInv, Fine
  <2> QED BY <1>a, <2>2, <2>3 DEF DriverInv
<1>8. CASE configure_gpio_lines
  <2> DEFINE l == gpiod + 1
  <2>0. UNCHANGED <<gpc, at, dev, sysfs, alive, failed, crash>> /\ gpiod < Children
    BY <1>8 DEF configure_gpio_lines
  <2>1. l \in Lines
    BY <1>0, <2>0 DEF LineInv, Lines
  <2>2. CASE /\ owner[l] = "nobody" /\ owner' = [owner EXCEPT ![l] = "gpiod"]
             /\ val' = [val EXCEPT ![l] = 1] /\ gpiod' = l
    <3>1. Fine => l \notin sysfs
      BY <2>2 DEF DriverInv
    <3> HIDE DEF l
    <3>2. LineInv'
      <4>1. gpiod' \in 0 .. Children
        BY <1>0, <2>1, <2>2 DEF Lines
      <4>2. ASSUME NEW k \in Lines, k <= gpiod'
            PROVE  owner'[k] = "gpiod"
        <5>1. k = l \/ k <= gpiod
          BY <1>0, <2>1, <2>2, <4>2 DEF Lines, LineInv, l
        <5> QED BY <2>1, <2>2, <5>1 DEF LineInv
      <4> QED BY <2>2, <4>1, <4>2 DEF LineInv
    <3>3. DriverInv'
      BY <1>b, <2>0, <2>1, <2>2, <3>1 DEF DriverInv, Fine, LineInv
    <3>4. LedInv'
      <4>1. Fine => \A k \in sysfs' : val'[k] = 0 \/ (k \in sysfs /\ val'[k] = val[k])
        BY <2>0, <2>1, <2>2, <3>1 DEF LineInv
      <4> QED BY <1>b, <2>0, <4>1, DarkKept DEF Fine
    <3> QED BY <1>a, <3>2, <3>3, <3>4
  <2>3. CASE /\ gpiod' = 0 /\ val' = val
             /\ owner' = [k \in Lines |-> IF owner[k] = "gpiod" THEN "nobody" ELSE owner[k]]
    <3>1. LineInv'
      BY <1>0, <2>3 DEF LineInv, Lines
    <3>2. Fine => sysfs \subseteq Lines
      BY <1>0 DEF DriverInv, Lines
    <3>3. DriverInv'
      BY <1>b, <2>0, <2>3, <3>2 DEF DriverInv, Fine
    <3>4. LedInv'
      BY <1>b, <2>0, <2>3, DarkKept DEF Fine
    <3> QED BY <1>a, <3>1, <3>3, <3>4
  <2> QED BY <1>8, <2>2, <2>3 DEF configure_gpio_lines
<1>9. CASE Blink
  <2>1. /\ UNCHANGED <<gpc, at, dev, sysfs, alive, owner, gpiod, failed, crash>>
        /\ gpiod = Children /\ DOMAIN val' = Lines
    BY <1>9 DEF Blink, LineInv
  <2>2. Fine => sysfs \subseteq Lines
    BY <1>0 DEF DriverInv, Lines
  <2>3. Fine => sysfs = {}
    BY <1>0, <2>1, <2>2 DEF LineInv, DriverInv, Lines
  <2>4. DriverInv' /\ LineInv'
    BY <1>b, <2>1 DEF DriverInv, LineInv, Fine
  <2>5. LedInv'
    BY <1>b, <2>1, <2>3, DarkKept DEF Fine
  <2> QED BY <1>a, <2>4, <2>5
<1>10. CASE ChipClose
  <2>1. /\ UNCHANGED <<gpc, at, dev, sysfs, alive, val, failed, crash>> /\ gpiod' = 0
        /\ owner' = [k \in Lines |-> IF owner[k] = "gpiod" THEN "nobody" ELSE owner[k]]
    BY <1>10 DEF ChipClose
  <2>2. Fine => sysfs \subseteq Lines
    BY <1>0 DEF DriverInv, Lines
  <2>3. LineInv'
    BY <1>0, <2>1 DEF LineInv, Lines
  <2>4. DriverInv'
    BY <1>b, <2>1, <2>2 DEF DriverInv, Fine
  <2>5. LedInv'
    BY <1>b, <2>1, DarkKept DEF Fine
  <2> QED BY <1>a, <2>3, <2>4, <2>5
<1>11. CASE ShellIn
  <2>1. UNCHANGED <<gpc, at, dev, sysfs, alive, owner, gpiod, failed>>
    BY <1>11 DEF ShellIn
  <2>2. PICK l \in Lines : direction_store(l, "in")
    BY <1>11 DEF ShellIn
  <2>3. l \in sysfs /\ val' = val /\ (l \in alive => crash' = crash)
    BY <2>2 DEF direction_store, Store
  <2>4. Fine => sysfs \subseteq alive
    BY DEF DriverInv
  <2>5. DriverInv'
    BY <1>b, <2>1, <2>3, <2>4 DEF DriverInv, Fine
  <2>6. LineInv'
    BY <2>1, <2>3 DEF LineInv
  <2>7. LedInv'
    BY <1>b, <2>1, <2>3, DarkKept DEF Fine
  <2> QED BY <1>a, <2>5, <2>6, <2>7
<1> QED BY <1>1, <1>2, <1>3, <1>4, <1>5, <1>6, <1>7, <1>8, <1>9, <1>10, <1>11, <1>c

\* One call of gpio_app: it changes at most its own line, and turns it off if that is what it
\* asks for (setting the direction to out does as well).
LEMMA CallLemma ==
  ASSUME DriverInv, LineInv, NEW c,
         IF c[1] = "direction" THEN gpio_configure_dir(c[2], c[3]) ELSE gpio_set_value(c[2], c[3])
  PROVE  /\ DOMAIN val' = Lines
         /\ Fine => (crash' <=> crash)
         /\ \A l \in Lines : l # c[2] => val'[l] = val[l]
         /\ Fine /\ c[2] \in sysfs /\ (c[1] = "direction" /\ c[3] = "out") => val'[c[2]] = 0
         /\ Fine /\ c[2] \in sysfs /\ (c[1] = "value" /\ c[3] = 0) => val'[c[2]] = 0
<1>1. Fine => sysfs \subseteq alive /\ sysfs \subseteq Lines
  BY GpioAssumption DEF DriverInv, Lines
<1>2. CASE c[2] \notin sysfs
  <2>1. UNCHANGED <<dir, val, crash>>
    BY <1>2 DEF gpio_configure_dir, gpio_set_value, direction_store, value_store, Store
  <2> QED BY <1>2, <2>1 DEF LineInv
<1>3. CASE c[2] \in sysfs /\ c[2] \notin alive
  <2>1. UNCHANGED <<dir, val>> /\ ~Fine
    BY <1>1, <1>3 DEF gpio_configure_dir, gpio_set_value, direction_store, value_store, Store
  <2> QED BY <2>1 DEF LineInv
<1>4. CASE c[2] \in sysfs /\ c[2] \in alive
  <2>1. CASE c[1] = "direction"
    <3>1. val' = (IF c[3] = "out" THEN [val EXCEPT ![c[2]] = 0] ELSE val) /\ crash' = crash
      BY <1>4, <2>1 DEF gpio_configure_dir, direction_store, Store
    <3> QED BY <1>1, <1>4, <2>1, <3>1 DEF LineInv
  <2>2. CASE c[1] # "direction"
    <3>1. val' = [val EXCEPT ![c[2]] = c[3]] /\ crash' = crash
      BY <1>4, <2>2 DEF gpio_set_value, value_store, Store
    <3> QED BY <1>1, <1>4, <2>2, <3>1 DEF LineInv
  <2> QED BY <2>1, <2>2
<1> QED BY <1>2, <1>3, <1>4

\* A step of gpio_app.
LEMMA GpioAppStep ==
  ASSUME GpioInv, UNCHANGED irqVars, gpio_app
  PROVE  GpioInv'
<1> USE DEF GpioInv
<1>0. Children \in Nat /\ Children > 0
  BY GpioAssumption DEF gpio_app
<1>a. IrqInv'
  BY DEF IrqInv, irqVars
<1>b. UNCHANGED <<avail, gpc, at, dev, sysfs, alive, owner, gpiod, failed>>
  BY DEF gpio_app
<1>c. Fine => sysfs \subseteq Lines
  BY <1>0 DEF DriverInv, Lines
<1>d. /\ Show \in Seq(Calls) /\ Len(Show) \in Nat /\ Last \in Nat /\ Last > Children
      /\ Len(Show) = Last + Children
      /\ \A l \in Lines : Show[l] = <<"direction", l, "out">>
      /\ \A l \in Lines : Show[Last + l] = <<"value", l, 0>>
      /\ led_loop = From(Children + 1)
  BY <1>0, ShowLemma DEF Last
<1>1. CASE leds = <<>>
  <2>1. leds' = Show /\ UNCHANGED <<val, crash>>
    BY <1>1 DEF gpio_app, Show
  <2>2. Show = From(1)
    BY <1>d DEF From
  <2>3. Fine => Dark(1)
    BY <1>0, <1>c, <1>d DEF Dark, Lines
  <2>4. 1 \in 1 .. Len(Show)
    BY <1>0, <1>d
  <2>5. LedInv'
    BY <1>0, <1>b, <2>1, <2>2, <2>3, <2>4 DEF LedInv, Fine, Dark
  <2>6. DriverInv' /\ LineInv'
    BY <1>b, <2>1 DEF DriverInv, LineInv, Fine
  <2> QED BY <1>a, <2>5, <2>6
<1>2. CASE leds # <<>>
  <2>1. PICK j \in 1 .. Len(Show) : leds = From(j) /\ (Fine => Dark(j))
    BY <1>2 DEF LedInv
  <2> DEFINE c == Show[j]
  <2>2. Head(leds) = c /\ Len(leds) = Len(Show) - j + 1 /\ (j < Len(Show) => Tail(leds) = From(j + 1))
    BY <1>0, <2>1, FromLemma
  <2>3. /\ leds' = IF Len(leds) = 1 THEN led_loop ELSE Tail(leds)
        /\ IF c[1] = "direction" THEN gpio_configure_dir(c[2], c[3]) ELSE gpio_set_value(c[2], c[3])
    BY <1>2, <2>2 DEF gpio_app
  <2>4. /\ DOMAIN val' = Lines
        /\ Fine => (crash' <=> crash)
        /\ \A l \in Lines : l # c[2] => val'[l] = val[l]
        /\ Fine /\ c[2] \in sysfs /\ (c[1] = "direction" /\ c[3] = "out") => val'[c[2]] = 0
        /\ Fine /\ c[2] \in sysfs /\ (c[1] = "value" /\ c[3] = 0) => val'[c[2]] = 0
    BY <2>3, CallLemma
  <2>5. DriverInv' /\ LineInv'
    BY <1>b, <2>4 DEF DriverInv, LineInv, Fine
  <2>6. (Fine' <=> Fine) /\ sysfs' = sysfs
    BY <1>b DEF Fine
  <2>7. ASSUME Fine, NEW l \in sysfs, j <= Children, l < j + 1
        PROVE  val'[l] = 0
    <3>1. j \in Lines /\ l \in Lines
      BY <1>0, <1>c, <2>7 DEF Lines
    <3>2. c[1] = "direction" /\ c[2] = j /\ c[3] = "out"
      BY <1>d, <3>1
    <3>3. CASE l = j
      BY <2>4, <2>7, <3>2, <3>3
    <3>4. CASE l # j
      <4>1. val'[l] = val[l]
        BY <2>4, <3>1, <3>2, <3>4
      <4>2. l < j
        BY <2>7, <3>1, <3>4 DEF Lines
      <4>3. val[l] = 0
        BY <1>0, <2>1, <2>7, <3>1, <4>2 DEF Dark, Lines
      <4> QED BY <4>1, <4>3
    <3> QED BY <3>3, <3>4
  <2>8. ASSUME Fine, NEW l \in sysfs, j > Last, l < (j - Last) + 1
        PROVE  val'[l] = 0
    <3> DEFINE k == j - Last
    <3>1. k \in Lines /\ l \in Lines /\ j = Last + k
      BY <1>0, <1>c, <1>d, <2>8 DEF Lines
    <3>2. c[1] = "value" /\ c[2] = k /\ c[3] = 0
      BY <1>d, <3>1
    <3> HIDE DEF k
    <3>3. CASE l = k
      BY <2>4, <2>8, <3>2, <3>3
    <3>4. CASE l # k
      <4>1. val'[l] = val[l]
        BY <2>4, <3>1, <3>2, <3>4
      <4>2. l < j - Last
        BY <1>d, <2>8, <3>1, <3>4 DEF Lines
      <4>3. val[l] = 0
        BY <2>1, <2>8, <4>2 DEF Dark
      <4> QED BY <4>1, <4>3
    <3> QED BY <3>3, <3>4
  <2>9. CASE j < Len(Show)
    <3>0. Len(leds) # 1 /\ j + 1 \in 1 .. Len(Show)
      BY <1>d, <2>2, <2>9
    <3>1. leds' = From(j + 1) /\ j + 1 \in 1 .. Len(Show)
      BY <2>2, <2>3, <2>9, <3>0, Zenon
    <3>2. Fine => Dark(j + 1)'
      <4> SUFFICES ASSUME Fine, NEW l \in sysfs,
                          \/ j + 1 <= Children + 1 /\ l < j + 1
                          \/ j + 1 > Last /\ l < (j + 1) - Last
                   PROVE  val'[l] = 0
        BY <1>b DEF Dark, Last, Show
      <4>0. l \in Lines
        BY <1>c
      <4>1. CASE j + 1 <= Children + 1 /\ l < j + 1
        BY <1>0, <2>7, <4>1
      <4>2. CASE j + 1 > Last /\ l < (j + 1) - Last
        <5>1. j > Last /\ l < (j - Last) + 1
          BY <1>0, <1>d, <4>0, <4>2 DEF Lines
        <5> QED BY <2>8, <5>1
      <4> QED BY <4>1, <4>2
    <3>3. LedInv'
      <4>1. /\ leds' = From(j + 1) /\ (Fine' => Dark(j + 1)')
        BY <2>6, <3>1, <3>2
      <4> QED BY <1>0, <3>1, <4>1 DEF LedInv
    <3> QED BY <1>a, <2>5, <3>3
  <2>10. CASE j = Len(Show)
    <3>0. Len(leds) = 1 /\ Children + 1 \in 1 .. Len(Show)
      <4>1. /\ Len(Show) \in Nat /\ Last \in Nat /\ Last > Children /\ Len(Show) = Last + Children
            /\ Len(leds) = Len(Show) - j + 1
        BY <1>d, <2>2
      <4> QED BY <1>0, <2>10, <4>1
    <3>1. leds' = From(Children + 1) /\ Children + 1 \in 1 .. Len(Show)
      <4>1. leds' = led_loop
        BY <2>3, <3>0, Zenon
      <4> QED BY <1>d, <3>0, <4>1, Zenon
    <3>2. Fine => Dark(Children + 1)'
      <4> SUFFICES ASSUME Fine, NEW l \in sysfs PROVE val'[l] = 0
        BY <1>b DEF Dark
      <4>1. l \in Lines
        BY <1>c
      <4>2. j > Last /\ l < (j - Last) + 1
        BY <1>0, <1>d, <2>10, <4>1 DEF Lines
      <4> QED BY <2>8, <4>2
    <3>3. LedInv'
      <4>1. leds' = From(Children + 1) /\ (Fine' => Dark(Children + 1)')
        BY <2>6, <3>1, <3>2
      <4> QED BY <1>0, <3>1, <4>1 DEF LedInv
    <3> QED BY <1>a, <2>5, <3>3
  <2> QED BY <1>d, <2>9, <2>10
<1> QED BY <1>1, <1>2

\* For every number of lines and rounds of the light show: as long as no child is disabled and no
\* probe has failed, no device outlives its data however loading, unloading, gpio_app, a shell
\* and gpiod interleave, nothing is left after unloading, gpiod never has a line that sysfs
\* reaches, and gpio_app's loop starts in the dark.
THEOREM GpioStaysClean == GpioSpec => []GpioClean
<1>1. GpioInit => GpioInv
  <2> SUFFICES ASSUME GpioInit PROVE GpioInv
    OBVIOUS
  <2>0. Children \in Nat
    BY GpioAssumption
  <2>1. IrqInv
    <3>1. <<>> \in Seq({"data", "irq"}) /\ Len(<<>>) = 0
      OBVIOUS
    <3> QED BY <3>1 DEF GpioInit, IrqInv
  <2>2. DriverInv /\ LineInv /\ LedInv
    BY <2>0 DEF GpioInit, DriverInv, LineInv, LedInv, Lines
  <2> QED BY <2>1, <2>2 DEF GpioInv
<1>2. GpioInv /\ [GpioStep]_<<gpioVars, irqVars>> => GpioInv'
  <2> SUFFICES ASSUME GpioInv, [GpioStep]_<<gpioVars, irqVars>> PROVE GpioInv'
    OBVIOUS
  <2>1. CASE UNCHANGED <<gpioVars, irqVars>>
    <3>1. /\ UNCHANGED <<avail, gpc, at, dev, sysfs, alive, owner, val, leds, gpiod, failed, crash>>
          /\ UNCHANGED <<irqpc, devres>>
      BY <2>1, Zenon DEF gpioVars, irqVars
    <3> QED BY <3>1 DEF GpioInv, IrqInv, DriverInv, LineInv, LedInv, Fine, Dark
  <2>2. CASE GpioIrqNext /\ UNCHANGED <<avail, gpc, at, dev, sysfs, alive, lineVars, leds, gpiod, failed>>
    <3>1. UNCHANGED <<avail, gpc, at, dev, sysfs, alive, owner, dir, val, leds, gpiod, failed>>
      BY <2>2, Zenon DEF lineVars
    <3> QED BY <2>2, <3>1, IrqStep
  <2>3. CASE GpioNext /\ UNCHANGED irqVars
    BY <2>3, DriverStep, GpioAppStep, Zenon DEF GpioNext
  <2> QED BY <2>1, <2>2, <2>3 DEF GpioStep
<1>3. GpioInv => GpioClean
  <2> SUFFICES ASSUME GpioInv, avail = Lines, ~failed
               PROVE  /\ sysfs \subseteq alive /\ ~crash /\ \A l \in sysfs : owner[l] = "driver"
                      /\ gpc = "out" => sysfs = {}
                      /\ leds = led_loop => \A l \in sysfs : val[l] = 0
    BY DEF GpioClean
  <2>0. Children \in Nat /\ Fine
    BY GpioAssumption DEF Fine
  <2>1. /\ sysfs \subseteq alive /\ ~crash /\ \A l \in sysfs : owner[l] = "driver"
        /\ gpc = "out" => sysfs = {}
    BY <2>0 DEF GpioInv, DriverInv
  <2>2. sysfs \subseteq Lines
    BY <2>0 DEF GpioInv, DriverInv, Lines
  <2>3. ASSUME leds = led_loop, NEW l \in sysfs
        PROVE  val[l] = 0
    <3>1. l \in Lines /\ Children > 0
      BY <2>0, <2>2 DEF Lines
    <3>2. /\ Len(led_loop) = Last /\ Last \in Nat /\ Last > Children
          /\ Len(Show) = Last + Children /\ Len(Show) \in Nat
      BY <2>0, <3>1, ShowLemma DEF Last
    <3>3. leds # <<>>
      BY <2>0, <2>3, <3>1, <3>2
    <3>4. PICK j \in 1 .. Len(Show) : leds = From(j) /\ Dark(j)
      BY <2>0, <3>3 DEF GpioInv, LedInv
    <3>5. Len(From(j)) = Len(Show) - j + 1
      BY <3>1, FromLemma
    <3>6. j = Children + 1
      BY <2>0, <2>3, <3>2, <3>4, <3>5
    <3>7. l < j
      BY <2>0, <3>1, <3>6 DEF Lines
    <3> QED BY <2>0, <3>4, <3>6, <3>7 DEF Dark
  <2> QED BY <2>1, <2>3
<1> QED BY <1>1, <1>2, <1>3, PTL DEF GpioSpec

(***************************************************************************)
(* EvsocOverlay: pixels.                                                   *)
(***************************************************************************)
\* Quotient and remainder are determined by what they make up.
LEMMA DivIs ==
  ASSUME NEW n \in Nat \ {0}, NEW x \in Int, NEW q \in Int, NEW r \in 0 .. n - 1, x = n * q + r
  PROVE  x \div n = q /\ x % n = r
<1> DEFINE p == x \div n
           s == x % n
<1>1. p \in Int /\ s \in 0 .. n - 1 /\ x = n * p + s
  OBVIOUS
<1> HIDE DEF p, s
<1> DEFINE d == p - q
<1>2. d \in Int /\ p = q + d
  BY <1>1
<1> HIDE DEF d
<1>3. n * p = n * q + n * d /\ n * d \in Int /\ n * q \in Int
  BY <1>2
<1>a. n * d = r - s
  BY <1>1, <1>3
<1>4. n * d = r - s /\ n * d > -n /\ n * d < n
  BY <1>1, <1>a
<1>5. d = 0
  <2>1. CASE d >= 1
    <3> DEFINE e == d - 1
    <3>1. e \in Nat /\ n * d = n * e + n
      BY <1>2, <2>1
    <3> HIDE DEF e
    <3>2. n * e \in Nat
      BY <3>1
    <3> QED BY <1>3, <1>4, <3>1, <3>2
  <2>2. CASE d <= -1
    <3> DEFINE e == -1 - d
    <3>1. e \in Nat /\ n * d = -(n * e) - n
      BY <1>2, <2>2
    <3> HIDE DEF e
    <3>2. n * e \in Nat
      BY <3>1
    <3> QED BY <1>3, <1>4, <3>1, <3>2
  <2> QED BY <1>2, <2>1, <2>2
<1>6. p = q /\ s = r
  BY <1>1, <1>2, <1>3, <1>4, <1>5
<1> QED BY <1>6 DEF p, s

\* Quotient and remainder of a natural number.
LEMMA DivNat ==
  ASSUME NEW n \in Nat \ {0}, NEW x \in Nat
  PROVE  x \div n \in Nat /\ x % n \in 0 .. n - 1 /\ x = n * (x \div n) + (x % n)
OBVIOUS

\* A place of the text: size pixels from each multiple of pitch on.
LEMMA CellOf ==
  ASSUME NEW pitch \in Nat \ {0}, NEW size \in Nat, size <= pitch, NEW k \in Nat, NEW v \in Nat
  PROVE  /\ (k * pitch <= v /\ v < k * pitch + size) <=> (v \div pitch = k /\ v % pitch < size)
         /\ v \div pitch = k => v % pitch = v - k * pitch
<1> DEFINE q == v \div pitch
           r == v % pitch
<1>1. q \in Nat /\ r \in 0 .. pitch - 1 /\ v = pitch * q + r
  BY DivNat
<1>2. ASSUME k * pitch <= v, v < k * pitch + size PROVE q = k /\ r < size
  <2> DEFINE s == v - k * pitch
  <2>1. k * pitch \in Nat /\ s \in 0 .. pitch - 1 /\ s < size /\ v = pitch * k + s
    BY <1>2
  <2> HIDE DEF s
  <2>2. q = k /\ r = s
    BY <2>1, DivIs
  <2> QED BY <2>1, <2>2
<1> HIDE DEF q, r
<1>3. ASSUME q = k PROVE k * pitch \in Nat /\ v = k * pitch + r
  BY <1>1, <1>3
<1>4. ASSUME q = k, r < size PROVE k * pitch <= v /\ v < k * pitch + size
  BY <1>1, <1>3, <1>4
<1>5. ASSUME q = k PROVE r = v - k * pitch
  BY <1>1, <1>3, <1>5
<1> QED BY <1>2, <1>4, <1>5 DEF q, r

Byte == 0 .. 255

\* The driver finds in the argument what the program put into it.
LEMMA ArgBytes ==
  ASSUME NEW ch \in Byte, NEW type \in Byte, NEW row \in Byte, NEW col \in Byte
  PROVE  /\ CharOf(CharArg(ch, type, row, col)) = ch
         /\ TypeOf(CharArg(ch, type, row, col)) = type
         /\ RowOf(CharArg(ch, type, row, col)) = row
         /\ ColOf(CharArg(ch, type, row, col)) = col
<1> USE DEF Byte
<1>1. CharArg(ch, type, row, col) = ch + type * 256 + row * 65536 + col * 16777216
  BY DEF CharArg
<1> DEFINE a == CharArg(ch, type, row, col)
           K == 65536
           M == 16777216
           rc == row + 256 * col
           trc == type + 256 * rc
           m == row * K + 256 * type + ch
<1>2. K = 256 * 256 /\ M = 256 * K /\ K \in Nat \ {0} /\ M \in Nat \ {0}
  BY SMT
<1>3. a = ch + type * 256 + row * K + col * M
  BY <1>1
<1>4. 256 * type + ch >= 0 /\ 256 * type + ch < K
  BY SMT
<1>5. m >= 0 /\ m < M
  BY SMT
<1>6. rc * K = row * K + col * M /\ trc = 256 * rc + type
  BY SMT
<1> HIDE DEF a, K, M
<1>7. /\ rc \in Nat /\ trc \in Nat /\ m \in Int /\ row * K \in Int /\ col * M \in Int
      /\ rc = 256 * col + row
  BY <1>2
<1> HIDE DEF rc, m
<1>n. K \in Nat \ {0} /\ M \in Nat \ {0}
  BY <1>2
<1>8. a \in Int /\ a = K * rc + (256 * type + ch)
  BY <1>2, <1>3, <1>6, <1>7
<1>9. a = M * col + m
  BY <1>2, <1>3, <1>7 DEF m
<1>10. K * rc = 256 * (256 * rc)
  BY <1>2, <1>7
<1>11. a = 256 * trc + ch
  BY <1>6, <1>7, <1>8, <1>10
<1> HIDE DEF trc
<1>12. a \div 256 = trc /\ a % 256 = ch
  BY <1>7, <1>8, <1>11
<1>13. a \div K = rc
  <2> DEFINE r == 256 * type + ch
  <2>1. r \in Int /\ 0 <= r /\ r < K /\ a = K * rc + r
    BY <1>4, <1>8
  <2> HIDE DEF r
  <2>2. r \in 0 .. K - 1 /\ rc \in Int
    BY <1>n, <1>7, <2>1
  <2>3. K \in Nat \ {0} /\ a \in Int /\ a = K * rc + r
    BY <1>n, <1>8, <2>1
  <2> QED BY <2>2, <2>3, DivIs
<1>14. a \div M = col
  <2>1. m \in 0 .. M - 1 /\ col \in Int
    BY <1>n, <1>5, <1>7
  <2>2. M \in Nat \ {0} /\ a \in Int /\ a = M * col + m
    BY <1>n, <1>8, <1>9
  <2> QED BY <2>1, <2>2, DivIs
<1>15. trc % 256 = type
  BY <1>6, <1>7
<1>16. rc % 256 = row /\ col % 256 = col
  BY <1>7
<1> QED BY <1>12, <1>13, <1>14, <1>15, <1>16, SMT DEF a, K, M, CharOf, TypeOf, RowOf, ColOf

Begin(R, C) == R * FrameWidth + C

\* A pixel of the character whose first pixel is given; of the square at row R and column C.
Inside(p, first, size) ==
  p >= first /\ (p - first) \div FrameWidth < size /\ (p - first) % FrameWidth < size
Within(p, R, C, size) ==
  /\ R <= p \div FrameWidth /\ p \div FrameWidth < R + size
  /\ C <= p % FrameWidth /\ p % FrameWidth < C + size
OffsetBy(p, R, C) ==
  /\ (p - Begin(R, C)) \div FrameWidth = (p \div FrameWidth) - R
  /\ (p - Begin(R, C)) % FrameWidth = (p % FrameWidth) - C

\* The pixels a character covers, found from the buffer index or from row and column.
LEMMA CellPixels ==
  ASSUME NEW R \in Nat, NEW C \in Nat, NEW size \in Nat, C + size <= FrameWidth, NEW p \in Nat
  PROVE  /\ Inside(p, Begin(R, C), size) <=> Within(p, R, C, size)
         /\ Within(p, R, C, size) => OffsetBy(p, R, C)
<1> DEFINE W == FrameWidth
           first == R * W + C
           y == (p - first) \div W
           x == (p - first) % W
           Y == p \div W
           X == p % W
<1>0. W \in Nat \ {0}
  BY OverlayAssumption
<1> HIDE DEF W
<1>1. Y \in Nat /\ X \in 0 .. W - 1 /\ p = W * Y + X
  BY <1>0, DivNat
<1>2. R * W \in Nat /\ first \in Nat /\ p - first \in Int
  BY <1>0
<1> DEFINE z == p - first
<1>3. z \in Int /\ z = p - first
  BY <1>2
<1>4. ASSUME p >= first, y < size, x < size
      PROVE  R <= Y /\ Y < R + size /\ C <= X /\ X < C + size
  <2>0. p >= first
    BY <1>4
  <2>1. z \in Nat
    <3> HIDE DEF first
    <3> QED BY <1>2, <2>0
  <2> HIDE DEF z
  <2> DEFINE b == z \div W
             a == z % W
  <2>2. b \in Nat /\ a \in 0 .. W - 1 /\ z = W * b + a
    BY <1>0, <2>1, DivNat
  <2>3. b < size /\ a < size
    BY <1>4 DEF z
  <2> HIDE DEF a, b
  <2>4. C + a \in 0 .. W - 1 /\ R + b \in Int
    BY <1>0, <2>2, <2>3 DEF W
  <2>5. p = W * (R + b) + (C + a)
    <3>1. W * (R + b) = R * W + W * b /\ W * b \in Nat
      BY <1>0, <2>2
    <3>2. p = first + z
      BY <1>2, <1>3
    <3> QED BY <1>2, <2>2, <3>1, <3>2
  <2>6. Y = R + b /\ X = C + a
    <3> DEFINE q == R + b
               r == C + a
    <3>1. q \in Int /\ r \in 0 .. W - 1 /\ p = W * q + r
      BY <2>4, <2>5
    <3> HIDE DEF q, r
    <3>2. p \div W = q /\ p % W = r
      BY <1>0, <3>1, DivIs
    <3> QED BY <3>2 DEF q, r
  <2> HIDE DEF X, Y
  <2> QED BY <2>2, <2>3, <2>6
<1>5. ASSUME R <= Y, Y < R + size, C <= X, X < C + size
      PROVE  p >= first /\ y = Y - R /\ x = X - C
  <2> DEFINE b == Y - R
             a == X - C
  <2>1. b \in Nat /\ a \in 0 .. W - 1 /\ b < size /\ a < size
    <3> HIDE DEF X, Y
    <3> QED BY <1>0, <1>1, <1>5 DEF W
  <2>2. p - first = W * b + a /\ W * b \in Nat
    <3> HIDE DEF X, Y
    <3>1. Y = R + b /\ X = C + a
      BY <1>1
    <3> HIDE DEF a, b
    <3>2. W * Y = R * W + W * b /\ W * b \in Nat
      BY <1>0, <2>1, <3>1
    <3> QED BY <1>0, <1>1, <1>2, <2>1, <3>1, <3>2
  <2>3. p >= first
    <3> HIDE DEF a, b, first
    <3> QED BY <1>0, <1>2, <2>1, <2>2
  <2>4. y = b /\ x = a
    <3> HIDE DEF a, b, first
    <3> QED BY <1>0, <1>2, <2>1, <2>2, DivIs
  <2> QED BY <2>3, <2>4
<1>6. ASSUME R <= Y, Y < R + size, C <= X, X < C + size
      PROVE  y < size /\ x < size
  <2>1. y = Y - R /\ x = X - C
    BY <1>5, <1>6
  <2> HIDE DEF x, y, X, Y
  <2> QED BY <1>1, <1>6, <2>1
<1> QED BY <1>4, <1>5, <1>6, Zenon DEF W, Inside, Within, Begin, OffsetBy

\* A buffer shows a text.
Shows(buf, txt, pitch, size, scan) ==
  \A p \in DOMAIN buf : buf[p] = Seen(txt, p \div FrameWidth, p % FrameWidth, pitch, size, scan)

\* A buffer that has a character drawn into it shows the text with that character.
DrawsChar(buf, txt, ch, type, row, col, pitch, size, scan, height) ==
  /\ DOMAIN Draw(buf, CharArg(ch, type, row, col), pitch, size, scan) = DOMAIN buf
  /\ ~WithChar(txt, ch, type, row, col, pitch, size, height).spilled =>
       Shows(Draw(buf, CharArg(ch, type, row, col), pitch, size, scan),
             WithChar(txt, ch, type, row, col, pitch, size, height), pitch, size, scan)

\* Drawing a character that fits changes what the buffer shows by that character and nothing else.
LEMMA DrawShows ==
  ASSUME NEW buf, DOMAIN buf \subseteq Nat, NEW txt, NEW height,
         NEW pitch \in Nat \ {0}, NEW size \in Nat, size <= pitch, NEW scan,
         NEW ch \in Byte, NEW type \in Byte, NEW row \in Byte, NEW col \in Byte,
         ~txt.spilled => Shows(buf, txt, pitch, size, scan)
  PROVE  DrawsChar(buf, txt, ch, type, row, col, pitch, size, scan, height)
<1> DEFINE txt2 == WithChar(txt, ch, type, row, col, pitch, size, height)
           buf2 == Draw(buf, CharArg(ch, type, row, col), pitch, size, scan)
           W == FrameWidth
           R == row * pitch
           C == col * pitch
           first == R * W + C
           in(p) == Inside(p, first, size)
           lit(p) == is_ch_show(ch, (p - first) \div W, (p - first) % W, scan)
<1>1. buf2 = [p \in DOMAIN buf |->
                IF in(p) THEN IF lit(p) THEN Colour(type) ELSE 0 ELSE buf[p]]
  <2> DEFINE arg == CharArg(ch, type, row, col)
             c == CharOf(arg)
             t == TypeOf(arg)
             r == RowOf(arg)
             k == ColOf(arg)
  <2>1. c = ch /\ t = type /\ r = row /\ k = col
    BY ArgBytes, SMT
  <2>2. buf2 = [p \in DOMAIN buf |->
                  LET f == r * pitch * W + k * pitch
                      y == (p - f) \div W
                      x == (p - f) % W
                  IN IF p >= f /\ y < size /\ x < size
                       THEN IF is_ch_show(c, y, x, scan) THEN Colour(t) ELSE 0
                       ELSE buf[p]]
    BY Zenon DEF Draw
  <2> HIDE DEF c, t, r, k, buf2
  <2> QED BY <2>1, <2>2, Zenon DEF Inside
<1> HIDE DEF buf2
<1>2. ASSUME ~(C + size <= W /\ R + size <= height) PROVE txt2.spilled
  <2>1. txt2 = [at |-> txt.at, spilled |-> TRUE]
    BY <1>2 DEF WithChar
  <2> QED BY <2>1
<1>3. ASSUME C + size <= W /\ R + size <= height, ~txt2.spilled, NEW p \in DOMAIN buf
      PROVE  buf2[p] = Seen(txt2, p \div W, p % W, pitch, size, scan)
  <2>1. txt2 = [at |-> [a \in DOMAIN txt.at \cup {<<row, col>>} |->
                          IF a = <<row, col>> THEN <<ch, type>> ELSE txt.at[a]],
                spilled |-> txt.spilled]
    BY <1>3 DEF WithChar
  <2> HIDE DEF txt2
  <2>a. /\ txt2.spilled = txt.spilled
        /\ DOMAIN txt2.at = DOMAIN txt.at \cup {<<row, col>>}
        /\ txt2.at[<<row, col>>] = <<ch, type>>
        /\ \A a \in DOMAIN txt.at : a # <<row, col>> => txt2.at[a] = txt.at[a]
    BY <2>1
  <2> DEFINE Y == p \div W
             X == p % W
             j == Y \div pitch
             i == X \div pitch
             y == Y % pitch
             x == X % pitch
  <2>3. p \in Nat /\ W \in Nat \ {0}
    BY OverlayAssumption
  <2>4. Y \in Nat /\ X \in Nat
    <3>1. Y \in Nat /\ X \in 0 .. W - 1
      BY <2>3, DivNat
    <3> HIDE DEF X, Y
    <3> QED BY <2>3, <3>1
  <2>5. R \in Nat /\ C \in Nat /\ row \in Nat /\ col \in Nat
    BY DEF Byte
  <2>6. /\ in(p) <=> (R <= Y /\ Y < R + size /\ C <= X /\ X < C + size)
        /\ R <= Y /\ Y < R + size /\ C <= X /\ X < C + size =>
             (p - first) \div W = Y - R /\ (p - first) % W = X - C
    <3> HIDE DEF R, C
    <3>1. C + size <= FrameWidth
      BY <1>3
    <3>2. /\ Inside(p, Begin(R, C), size) <=> Within(p, R, C, size)
          /\ Within(p, R, C, size) => OffsetBy(p, R, C)
      BY <2>3, <2>5, <3>1, CellPixels, SMT
    <3> QED BY <3>2, Zenon DEF Within, Begin, OffsetBy
  <2>7. /\ (R <= Y /\ Y < R + size) <=> (j = row /\ y < size)
        /\ j = row => y = Y - R
    <3> HIDE DEF Y
    <3> QED BY <2>4, <2>5, CellOf
  <2>8. /\ (C <= X /\ X < C + size) <=> (i = col /\ x < size)
        /\ i = col => x = X - C
    <3> HIDE DEF X
    <3> QED BY <2>4, <2>5, CellOf
  <2>9. Seen(txt2, Y, X, pitch, size, scan) =
          IF <<j, i>> \in DOMAIN txt2.at /\ y < size /\ x < size
               /\ is_ch_show(txt2.at[<<j, i>>][1], y, x, scan)
            THEN Colour(txt2.at[<<j, i>>][2]) ELSE 0
    BY Zenon DEF Seen
  <2>10. ~txt.spilled => buf[p] =
           IF <<j, i>> \in DOMAIN txt.at /\ y < size /\ x < size
                /\ is_ch_show(txt.at[<<j, i>>][1], y, x, scan)
             THEN Colour(txt.at[<<j, i>>][2]) ELSE 0
    <3>1. ~txt.spilled => buf[p] = Seen(txt, Y, X, pitch, size, scan)
      BY Zenon DEF Shows
    <3> HIDE DEF X, Y
    <3> QED BY <3>1 DEF Seen
  <2>11. CASE in(p)
    <3>1. j = row /\ i = col /\ y < size /\ x < size
      BY <2>6, <2>7, <2>8, <2>11, Zenon
    <3>2. (p - first) \div W = y /\ (p - first) % W = x
      BY <2>6, <2>7, <2>8, <2>11, Zenon
    <3>3. buf2[p] = IF is_ch_show(ch, y, x, scan) THEN Colour(type) ELSE 0
      BY <1>1, <2>11, <3>2, Zenon
    <3>4. txt2.at[<<j, i>>][1] = ch /\ txt2.at[<<j, i>>][2] = type /\ <<j, i>> \in DOMAIN txt2.at
      <4> HIDE DEF i, j
      <4> QED BY <2>a, <3>1
    <3> HIDE DEF i, j, x, y, X, Y
    <3> QED BY <2>9, <3>1, <3>3, <3>4, Zenon DEF X, Y
  <2>12. CASE ~in(p)
    <3>1. buf2[p] = buf[p]
      BY <1>1, <2>12, Zenon
    <3>2. ~(j = row /\ i = col /\ y < size /\ x < size)
      BY <2>6, <2>7, <2>8, <2>12, Zenon
    <3> HIDE DEF i, j, x, y, in
    <3>3. CASE <<j, i>> = <<row, col>>
      <4>1. ~(y < size /\ x < size)
        BY <3>2, <3>3
      <4> QED BY <1>3, <2>9, <2>10, <2>a, <3>1, <4>1, Zenon
    <3>4. CASE <<j, i>> # <<row, col>>
      <4>1. <<j, i>> \in DOMAIN txt2.at <=> <<j, i>> \in DOMAIN txt.at
        BY <2>a, <3>4, Zenon
      <4>2. <<j, i>> \in DOMAIN txt.at => txt2.at[<<j, i>>] = txt.at[<<j, i>>]
        BY <2>a, <3>4, Zenon
      <4> QED BY <1>3, <2>9, <2>10, <2>a, <3>1, <4>1, <4>2, Zenon
    <3> QED BY <3>3, <3>4
  <2> QED BY <2>11, <2>12
<1>4. DOMAIN buf2 = DOMAIN buf
  BY <1>1, Zenon
<1> HIDE DEF txt2, R, C
<1>5. ~txt2.spilled => Shows(buf2, txt2, pitch, size, scan)
  BY <1>2, <1>3, <1>4, Zenon DEF Shows
<1> QED BY <1>4, <1>5, Zenon DEF buf2, txt2, DrawsChar

\* A pixel of a frame with the text merged into it.
Merged(txt, y, x) ==
  LET c == Seen(txt, y, x, Glyph + 1, Glyph, 1) IN IF c # 0 THEN c ELSE Cam

OverlayTypes ==
  /\ DOMAIN layer0 = Pixels(FrameHeight) /\ DOMAIN title_buf = Pixels(TitleHigh)
  /\ DOMAIN rframe = Pixels(FrameHeight) /\ DOMAIN capture_array = Pixels(FrameHeight)
  /\ rpass \in {"layer", "capture", "title", "next"} /\ capture_mode \in {"none", "full", "part"}

\* Before the first pass the frame is the camera's, between the first and the second the
\* camera's with the text of the overlay.
FrameInv ==
  /\ rpass = "layer" => \A p \in Pixels(FrameHeight) : rframe[p] = Cam
  /\ rpass = "capture" /\ ~used.spilled =>
       \A p \in Pixels(FrameHeight) : rframe[p] = Merged(used, p \div FrameWidth, p % FrameWidth)

OverlayInv == OverlayTypes /\ BuffersShowText /\ FrameInv /\ PictureShowsText

\* An empty text shows nothing.
LEMMA NoTextShowsNothing ==
  ASSUME NEW y, NEW x, NEW pitch, NEW size, NEW scan
  PROVE  Seen(NoText, y, x, pitch, size, scan) = 0
<1>1. NoText.at = <<>> /\ DOMAIN <<>> = {}
  BY DEF NoText
<1> QED BY <1>1, Zenon DEF Seen

\* A picture with width columns and height rows, stored row by row.
LEMMA PixelOf ==
  ASSUME NEW width \in Nat, NEW height \in Nat, NEW y \in 0 .. height - 1, NEW x \in 0 .. width - 1
  PROVE  /\ y * width + x \in 0 .. width * height - 1
         /\ (y * width + x) \div width = y /\ (y * width + x) % width = x
<1>1. width \in Nat \ {0} /\ y \in Nat /\ x \in Nat /\ y * width \in Nat /\ y * width + x \in Int
  OBVIOUS
<1>2. (y * width + x) \div width = y /\ (y * width + x) % width = x
  <2> DEFINE v == y * width + x
  <2>1. v \in Int /\ v = width * y + x
    BY <1>1
  <2> HIDE DEF v
  <2>2. v \div width = y /\ v % width = x
    BY <1>1, <2>1, DivIs
  <2> QED BY <2>2 DEF v
<1>3. y * width + x \in 0 .. width * height - 1
  <2> DEFINE e == height - 1 - y
  <2>1. e \in Nat /\ height = y + e + 1
    OBVIOUS
  <2> HIDE DEF e
  <2>2. width * height = y * width + width * e + width /\ width * e \in Nat
    BY <1>1, <2>1
  <2> QED BY <1>1, <2>2
<1> QED BY <1>2, <1>3

\* What is printed is printed within the bytes of the argument.
LEMMA PrintedBytes ==
  /\ Glyph \in Nat \ {0} /\ Printed \subseteq Byte /\ {0, 3} \subseteq Byte
  /\ \A pl \in Places : pl[1] \in Byte /\ pl[2] \in Byte
  /\ \A height : Pixels(height) \subseteq Nat
<1>1. Glyph \in Nat \ {0} /\ Printed \subseteq Byte /\ {0, 3} \subseteq Byte
  BY OverlayAssumption DEF Byte
<1>2. \A pl \in Places : pl[1] \in 0 .. 127 /\ pl[2] \in 0 .. 127
  BY OverlayAssumption
<1> QED BY <1>1, <1>2 DEF Byte, Pixels

\* An ioctl keeps the buffers true to the text and leaves frame and capture alone.
LEMMA OverlayIoctl ==
  ASSUME OverlayInv, evsoc_ioctl
  PROVE  OverlayInv'
<1>1. /\ rframe' = rframe /\ rpass' = rpass /\ capture_array' = capture_array
      /\ used' = used /\ shot' = shot
  BY DEF evsoc_ioctl
<1>2. FrameInv' /\ PictureShowsText'
  BY <1>1 DEF OverlayInv, FrameInv, PictureShowsText, Merged, crt_pic, fill_mat
<1>3. /\ ~text.spilled => Shows(layer0, text, Glyph + 1, Glyph, 1)
      /\ ~ttext.spilled => Shows(title_buf, ttext, 2 * Glyph, 2 * Glyph, 2)
  BY DEF OverlayInv, BuffersShowText, Shows
<1>4. /\ DOMAIN layer0 = Pixels(FrameHeight) /\ DOMAIN title_buf = Pixels(TitleHigh)
      /\ capture_mode \in {"none", "full", "part"}
  BY DEF OverlayInv, OverlayTypes
<1> DEFINE layerOk == /\ DOMAIN layer0' = DOMAIN layer0
                      /\ ~text'.spilled => Shows(layer0', text', Glyph + 1, Glyph, 1)
           titleOk == /\ DOMAIN title_buf' = DOMAIN title_buf
                      /\ ~ttext'.spilled => Shows(title_buf', ttext', 2 * Glyph, 2 * Glyph, 2)
           modeOk == capture_mode' \in {"none", "full", "part"}
<1>5. ASSUME SetChar PROVE layerOk /\ titleOk /\ modeOk
  <2>1. PICK ch \in Printed, type \in {0, 3}, pl \in Places :
          /\ layer0' = Draw(layer0, CharArg(ch, type, pl[1], pl[2]), Glyph + 1, Glyph, 1)
          /\ text' = WithChar(text, ch, type, pl[1], pl[2], Glyph + 1, Glyph, FrameHeight)
    BY <1>5 DEF SetChar
  <2>2. ch \in Byte /\ type \in Byte /\ pl[1] \in Byte /\ pl[2] \in Byte
    BY PrintedBytes, Zenon
  <2>3. /\ DOMAIN layer0 \subseteq Nat /\ Glyph + 1 \in Nat \ {0} /\ Glyph \in Nat
        /\ Glyph <= Glyph + 1
    BY <1>4, PrintedBytes
  <2>4. layerOk
    <3> DEFINE pitch == Glyph + 1
               row == pl[1]
               col == pl[2]
    <3> HIDE DEF pitch, row, col
    <3>1. DrawsChar(layer0, text, ch, type, row, col, pitch, Glyph, 1, FrameHeight)
      <4>1. /\ ch \in Byte /\ type \in Byte /\ row \in Byte /\ col \in Byte /\ pitch \in Nat \ {0}
            /\ Glyph <= pitch /\ (~text.spilled => Shows(layer0, text, pitch, Glyph, 1))
        BY <1>3, <2>2, <2>3 DEF pitch, row, col
      <4> QED BY <2>3, <4>1, DrawShows, SMT
    <3> QED BY <2>1, <3>1, Zenon DEF pitch, row, col, DrawsChar
  <2> QED BY <1>3, <1>4, <1>5, <2>4 DEF SetChar
<1>6. ASSUME SetMsg PROVE layerOk /\ titleOk /\ modeOk
  <2>1. PICK ch \in Printed, pl \in Places :
          /\ title_buf' = Draw(title_buf, CharArg(ch, 0, 0, pl[2]), 2 * Glyph, 2 * Glyph, 2)
          /\ ttext' = WithChar(ttext, ch, 0, 0, pl[2], 2 * Glyph, 2 * Glyph, TitleHigh)
    BY <1>6 DEF SetMsg
  <2>2. ch \in Byte /\ 0 \in Byte /\ pl[2] \in Byte
    BY PrintedBytes, Zenon
  <2>3. /\ DOMAIN title_buf \subseteq Nat /\ 2 * Glyph \in Nat \ {0} /\ 2 * Glyph \in Nat
        /\ 2 * Glyph <= 2 * Glyph
    BY <1>4, PrintedBytes
  <2>4. titleOk
    <3> DEFINE size == 2 * Glyph
               col == pl[2]
    <3> HIDE DEF size, col
    <3>1. DrawsChar(title_buf, ttext, ch, 0, 0, col, size, size, 2, TitleHigh)
      <4>1. /\ ch \in Byte /\ 0 \in Byte /\ col \in Byte /\ size \in Nat \ {0} /\ size \in Nat
            /\ size <= size /\ (~ttext.spilled => Shows(title_buf, ttext, size, size, 2))
        BY <1>3, <2>2, <2>3 DEF size, col
      <4> QED BY <2>3, <4>1, DrawShows, SMT
    <3> QED BY <2>1, <3>1, Zenon DEF size, col, DrawsChar
  <2> QED BY <1>3, <1>4, <1>6, <2>4 DEF SetMsg
<1>7. ASSUME SetLayer PROVE layerOk /\ titleOk /\ modeOk
  <2>1. \/ layer0' = layer0 /\ text' = text
        \/ layer0' = [p \in DOMAIN layer0 |-> 0] /\ text' = NoText
    BY <1>7 DEF SetLayer
  <2>2. layerOk
    BY <1>3, <2>1, NoTextShowsNothing DEF Shows
  <2> QED BY <1>3, <1>4, <1>7, <2>2 DEF SetLayer
<1>8. ASSUME ClrMsg PROVE layerOk /\ titleOk /\ modeOk
  <2>1. \/ title_buf' = title_buf /\ ttext' = ttext
        \/ title_buf' = [p \in DOMAIN title_buf |-> 0] /\ ttext' = NoText
    BY <1>8 DEF ClrMsg
  <2>2. titleOk
    BY <1>3, <2>1, NoTextShowsNothing DEF Shows
  <2> QED BY <1>3, <1>4, <1>8, <2>2 DEF ClrMsg
<1>9. ASSUME SetCapture PROVE layerOk /\ titleOk /\ modeOk
  BY <1>3, <1>4, <1>9 DEF SetCapture
<1>10. layerOk /\ titleOk /\ modeOk
  BY <1>5, <1>6, <1>7, <1>8, <1>9 DEF evsoc_ioctl
<1>11. BuffersShowText'
  BY <1>10 DEF BuffersShowText, Shows
<1>12. OverlayTypes'
  BY <1>1, <1>10 DEF OverlayInv, OverlayTypes
<1> QED BY <1>2, <1>11, <1>12 DEF OverlayInv

\* The passes leave the text alone.
LEMMA PassKeepsText ==
  ASSUME OverlayInv, UNCHANGED textVars
  PROVE  /\ BuffersShowText' /\ DOMAIN layer0' = Pixels(FrameHeight)
         /\ DOMAIN title_buf' = Pixels(TitleHigh)
BY DEF OverlayInv, OverlayTypes, BuffersShowText, textVars

\* The first pass merges what the buffer shows.
LEMMA OverlayMerge ==
  ASSUME OverlayInv, MergeLayer
  PROVE  OverlayInv'
<1>1. /\ UNCHANGED textVars /\ capture_mode' = capture_mode /\ capture_array' = capture_array
      /\ shot' = shot /\ rpass = "layer" /\ rpass' = "capture"
  BY DEF MergeLayer
<1>2. PictureShowsText'
  BY <1>1 DEF OverlayInv, PictureShowsText, crt_pic, fill_mat
<1>3. DOMAIN rframe = Pixels(FrameHeight) /\ DOMAIN layer0 = Pixels(FrameHeight)
  BY DEF OverlayInv, OverlayTypes
<1>4. \A p \in Pixels(FrameHeight) : rframe[p] = Cam
  BY <1>1 DEF OverlayInv, FrameInv
<1>5. /\ DOMAIN rframe' = Pixels(FrameHeight)
      /\ ~used'.spilled => \A p \in Pixels(FrameHeight) :
           rframe'[p] = Merged(used', p \div FrameWidth, p % FrameWidth)
  <2>1. CASE lay0_is_ready > 0
    <3>1. /\ rframe' = [p \in DOMAIN rframe |-> IF layer0[p] # 0 THEN layer0[p] ELSE rframe[p]]
          /\ used' = text
      BY <2>1 DEF MergeLayer
    <3>2. ~text.spilled => \A p \in Pixels(FrameHeight) :
            layer0[p] = Seen(text, p \div FrameWidth, p % FrameWidth, Glyph + 1, Glyph, 1)
      BY <1>3, Zenon DEF OverlayInv, BuffersShowText
    <3> QED BY <1>3, <1>4, <3>1, <3>2, Zenon DEF Merged
  <2>2. CASE ~(lay0_is_ready > 0)
    <3>1. rframe' = rframe /\ used' = NoText
      BY <2>2 DEF MergeLayer
    <3> QED BY <1>3, <1>4, <3>1, NoTextShowsNothing, Zenon DEF Merged
  <2> QED BY <2>1, <2>2
<1>6. FrameInv'
  BY <1>1, <1>5 DEF FrameInv
<1>7. OverlayTypes'
  BY <1>1, <1>5, PassKeepsText DEF OverlayInv, OverlayTypes
<1> QED BY <1>1, <1>2, <1>6, <1>7, PassKeepsText DEF OverlayInv

\* The second pass copies the frame with the text and without the title, as it is asked to.
LEMMA OverlayCopy ==
  ASSUME OverlayInv, CopyCapture
  PROVE  OverlayInv'
<1> DEFINE w == FrameWidth \div 2
           h == FrameHeight \div 2
<1>1. /\ UNCHANGED textVars /\ rframe' = rframe /\ used' = used /\ capture_mode' = "none"
      /\ rpass = "capture" /\ rpass' = "title"
  BY DEF CopyCapture
<1>2. FrameInv'
  BY <1>1 DEF FrameInv
<1>3. /\ DOMAIN rframe = Pixels(FrameHeight) /\ DOMAIN capture_array = Pixels(FrameHeight)
      /\ capture_mode \in {"none", "full", "part"}
  BY DEF OverlayInv, OverlayTypes
<1>4. ~used.spilled => \A p \in Pixels(FrameHeight) :
        rframe[p] = Merged(used, p \div FrameWidth, p % FrameWidth)
  BY <1>1, Zenon DEF OverlayInv, FrameInv
<1>5. ASSUME ~used.spilled, NEW y \in 0 .. FrameHeight - 1, NEW x \in 0 .. FrameWidth - 1
      PROVE  rframe[y * FrameWidth + x] = Merged(used, y, x)
  <2> DEFINE p == y * FrameWidth + x
  <2>1. p \in Pixels(FrameHeight) /\ p \div FrameWidth = y /\ p % FrameWidth = x
    <3>1. FrameWidth \in Nat /\ FrameHeight \in Nat
      BY OverlayAssumption
    <3>2. /\ y * FrameWidth + x \in 0 .. FrameWidth * FrameHeight - 1
          /\ (y * FrameWidth + x) \div FrameWidth = y /\ (y * FrameWidth + x) % FrameWidth = x
      BY <1>5, <3>1, PixelOf, Zenon
    <3> QED BY <3>2, Zenon DEF Pixels
  <2> HIDE DEF p
  <2>2. rframe[p] = Merged(used, y, x)
    BY <1>4, <1>5, <2>1, Zenon
  <2> QED BY <2>2 DEF p
<1>6. CASE capture_mode = "none"
  <2>1. capture_array' = capture_array /\ shot' = shot
    BY <1>6 DEF CopyCapture
  <2>2. PictureShowsText'
    BY <2>1 DEF OverlayInv, PictureShowsText, crt_pic, fill_mat
  <2>3. OverlayTypes'
    BY <1>1, <1>3, <2>1, PassKeepsText DEF OverlayTypes
  <2> QED BY <1>1, <1>2, <2>2, <2>3, PassKeepsText DEF OverlayInv
<1>7. CASE capture_mode = "full"
  <2>1. capture_array' = rframe /\ shot' = [kind |-> "full", text |-> used]
    BY <1>7 DEF CopyCapture
  <2>2. PictureShowsText'
    <3>1. shot'.kind = "full" /\ shot'.text = used
      BY <2>1
    <3>2. SUFFICES ASSUME ~used.spilled,
                          NEW pl \in (0 .. FrameHeight - 1) \X (0 .. FrameWidth - 1)
                   PROVE  capture_array'[pl[1] * FrameWidth + pl[2]] = Merged(used, pl[1], pl[2])
      BY <3>1, SMT DEF PictureShowsText, crt_pic, Merged
    <3>3. pl[1] \in 0 .. FrameHeight - 1 /\ pl[2] \in 0 .. FrameWidth - 1
      OBVIOUS
    <3> QED BY <1>5, <2>1, <3>2, <3>3, Zenon
  <2>3. OverlayTypes'
    BY <1>1, <1>3, <2>1, PassKeepsText DEF OverlayTypes
  <2> QED BY <1>1, <1>2, <2>2, <2>3, PassKeepsText DEF OverlayInv
<1>8. CASE capture_mode = "part"
  <2>1. /\ capture_array' = [p \in DOMAIN rframe |->
                               IF p < w * h THEN rframe[(p \div w) * 2 * FrameWidth + (p % w) * 2]
                               ELSE capture_array[p]]
        /\ shot' = [kind |-> "part", text |-> used]
    BY <1>8 DEF CopyCapture
  <2>2. PictureShowsText'
    <3>1. shot'.kind = "part" /\ shot'.text = used
      BY <2>1
    <3>2. SUFFICES ASSUME ~used.spilled, NEW pl \in (0 .. h - 1) \X (0 .. w - 1)
                   PROVE  capture_array'[pl[1] * w + pl[2]] = Merged(used, 2 * pl[1], 2 * pl[2])
      BY <3>1, SMT DEF PictureShowsText, fill_mat, Merged
    <3> DEFINE y == pl[1]
               x == pl[2]
               p == y * w + x
    <3>3. y \in 0 .. h - 1 /\ x \in 0 .. w - 1
      OBVIOUS
    <3>4. w \in Nat /\ h \in Nat /\ 2 * w <= FrameWidth /\ 2 * h <= FrameHeight
      <4>1. FrameWidth \in Nat /\ FrameHeight \in Nat
        BY OverlayAssumption
      <4> QED BY <4>1
    <3> HIDE DEF w, h, x, y
    <3>5. p \in 0 .. w * h - 1 /\ p \div w = y /\ p % w = x
      BY <3>3, <3>4, PixelOf
    <3> HIDE DEF p
    <3>6. p \in Pixels(FrameHeight) /\ p < w * h
      <4>1. \A a, b, c \in Nat : a <= b => a * c <= b * c /\ c * a <= c * b
        <5> SUFFICES ASSUME NEW a \in Nat, NEW b \in Nat, NEW c \in Nat, a <= b
                     PROVE  a * c <= b * c /\ c * a <= c * b
          OBVIOUS
        <5> DEFINE d == b - a
        <5>1. d \in Nat /\ b = a + d
          OBVIOUS
        <5> HIDE DEF d
        <5>2. b * c = a * c + d * c /\ c * b = b * c /\ c * a = a * c /\ d * c \in Nat
              /\ a * c \in Nat /\ b * c \in Nat
          BY <5>1
        <5> QED BY <5>2
      <4>2. w <= FrameWidth /\ h <= FrameHeight /\ FrameWidth \in Nat /\ FrameHeight \in Nat
        BY <3>4, OverlayAssumption
      <4>3. w * h <= FrameWidth * h /\ FrameWidth * h <= FrameWidth * FrameHeight
        BY <3>4, <4>1, <4>2
      <4>4. w * h \in Nat /\ FrameWidth * h \in Nat /\ FrameWidth * FrameHeight \in Nat
        BY <3>4, <4>2
      <4> DEFINE a == w * h
                 b == FrameWidth * h
                 c == FrameWidth * FrameHeight
      <4> HIDE DEF a, b, c
      <4>5. p \in 0 .. a - 1 /\ a <= b /\ b <= c /\ a \in Nat /\ b \in Nat /\ c \in Nat
        BY <3>5, <4>3, <4>4 DEF a, b, c
      <4>6. p \in 0 .. c - 1 /\ p < a
        BY <4>5
      <4> QED BY <4>6 DEF a, c, Pixels
    <3>7. capture_array'[p] = rframe[y * 2 * FrameWidth + x * 2]
      BY <1>3, <2>1, <3>5, <3>6
    <3>8. 2 * y \in 0 .. FrameHeight - 1 /\ 2 * x \in 0 .. FrameWidth - 1
      <4>1. FrameWidth \in Nat /\ FrameHeight \in Nat
        BY OverlayAssumption
      <4>2. 2 * y \in 0 .. FrameHeight - 1
        BY <3>3, <3>4, <4>1
      <4>3. 2 * x \in 0 .. FrameWidth - 1
        BY <3>3, <3>4, <4>1
      <4> QED BY <4>2, <4>3
    <3>9. rframe[(2 * y) * FrameWidth + 2 * x] = Merged(used, 2 * y, 2 * x)
      BY <1>5, <3>2, <3>8, Zenon
    <3>10. y * 2 * FrameWidth + x * 2 = (2 * y) * FrameWidth + 2 * x
      BY <3>3, <3>4, OverlayAssumption
    <3>11. capture_array'[p] = Merged(used, 2 * y, 2 * x)
      BY <3>7, <3>9, <3>10, Zenon
    <3> QED BY <3>11, Zenon DEF p, x, y
  <2>3. DOMAIN capture_array' = Pixels(FrameHeight)
    BY <1>3, <2>1, Zenon
  <2>4. OverlayTypes'
    BY <1>1, <1>3, <2>3, PassKeepsText DEF OverlayTypes
  <2> QED BY <1>1, <1>2, <2>2, <2>4, PassKeepsText DEF OverlayInv
<1> QED BY <1>3, <1>6, <1>7, <1>8

\* The text on the screen and in the pictures is the text that was printed, for every size of the
\* frame and of the characters, every font, and every interleaving of the ioctls with the passes
\* of the receive thread.
THEOREM TextIsShown == OverlaySpec => []OverlayCorrect
<1>1. OverlayInit => OverlayInv
  <2> SUFFICES ASSUME OverlayInit PROVE OverlayInv
    OBVIOUS
  <2>1. OverlayTypes
    BY DEF OverlayInit, OverlayTypes
  <2>2. BuffersShowText
    BY NoTextShowsNothing DEF OverlayInit, BuffersShowText
  <2>3. FrameInv
    BY DEF OverlayInit, FrameInv
  <2>4. PictureShowsText
    BY DEF OverlayInit, PictureShowsText
  <2> QED BY <2>1, <2>2, <2>3, <2>4 DEF OverlayInv
<1>2. OverlayInv /\ [OverlayNext]_overlayVars => OverlayInv'
  <2> SUFFICES ASSUME OverlayInv, [OverlayNext]_overlayVars PROVE OverlayInv'
    OBVIOUS
  <2>1. CASE MergeTitle \/ NextFrame
    <3>1. /\ UNCHANGED textVars /\ capture_mode' = capture_mode /\ capture_array' = capture_array
          /\ shot' = shot /\ rpass' \in {"next", "layer"} /\ DOMAIN rframe' = DOMAIN rframe
          /\ rpass' = "layer" => rframe' = [p \in DOMAIN rframe |-> Cam]
      BY <2>1 DEF MergeTitle, NextFrame
    <3>2. PictureShowsText'
      BY <3>1 DEF OverlayInv, PictureShowsText, crt_pic, fill_mat
    <3>3. OverlayTypes'
      BY <3>1, PassKeepsText DEF OverlayInv, OverlayTypes
    <3>4. FrameInv'
      BY <3>1 DEF OverlayInv, OverlayTypes, FrameInv
    <3> QED BY <3>1, <3>2, <3>3, <3>4, PassKeepsText DEF OverlayInv
  <2>2. CASE UNCHANGED overlayVars
    BY <2>2 DEF overlayVars, OverlayInv, OverlayTypes, BuffersShowText, FrameInv, PictureShowsText,
       Merged, crt_pic, fill_mat
  <2> QED BY <2>1, <2>2, OverlayIoctl, OverlayMerge, OverlayCopy DEF OverlayNext
<1>3. OverlayInv => OverlayCorrect
  BY DEF OverlayInv, OverlayCorrect
<1> QED BY <1>1, <1>2, <1>3, PTL DEF OverlaySpec
=============================================================================
