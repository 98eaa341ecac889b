-------------------------------- MODULE Apb3 --------------------------------
(***************************************************************************)
(* The APB3 sample character device (kernel_modules/apb3) and the program  *)
(* that uses it (package/apb3app).  fops has no owner: only the reference  *)
(* taken in apb3_open keeps the module loaded, and apb3_open does not look *)
(* whether it got one.  It tests and sets is_open without a lock.          *)
(*                                                                         *)
(* The generator behind the registers and the module loader are external.  *)
(* A program opens, reads or writes, and closes, whether or not the open   *)
(* worked.                                                                 *)
(***************************************************************************)
EXTENDS Integers

CONSTANTS Programs, MaxRounds      \* copies of apb3app; bound on what each opens

ASSUME ApbAssumption == MaxRounds \in Nat

VARIABLES
  amod,            \* the module: which of its objects exist
  agoing,          \* rmmod has begun: try_module_get fails
  is_open,
  arefs, aheld,    \* module references taken by apb3_open; the programs it took one for
  apc, rounds,     \* per program: where it is; files left to open
  stopped          \* the register at base + 4: the generator stands still

apbVars == <<amod, agoing, is_open, arefs, aheld, apc, rounds, stopped>>
Objects == {"region", "class", "device", "cdev"}

ApbInit ==
  /\ amod = {} /\ agoing = FALSE /\ is_open = FALSE /\ arefs = 0 /\ aheld = {} /\ stopped = FALSE
  /\ apc = [p \in Programs |-> "closed"] /\ rounds = [p \in Programs |-> MaxRounds]

ApbLoaded == "class" \in amod

\* A failed region is the only failure that is seen: class_create and device_create report
\* theirs by a pointer that is not NULL, cdev_add by a number that is not -1.  Without a class
\* device_create crashes; without the device or the cdev the module is loaded, of no use.
apb3_init ==
  /\ amod = {}
  /\ amod' \in {{}, {"region"}, Objects, Objects \ {"device"}, Objects \ {"cdev"}}
  /\ is_open' = FALSE
  /\ UNCHANGED <<agoing, arefs, aheld, apc, rounds, stopped>>

\* External: rmmod needs the module's references to be gone, and lets nobody take another.
ApbRmmod ==
  /\ ApbLoaded /\ ~agoing /\ arefs = 0 /\ agoing' = TRUE
  /\ UNCHANGED <<amod, is_open, arefs, aheld, apc, rounds, stopped>>

\* cdev_del and the rest, and then the code is freed, also under the programs that have got
\* past the test in apb3_open, or through it.
apb3_exit ==
  /\ agoing /\ amod' = {} /\ agoing' = FALSE
  /\ apc' = [p \in Programs |-> IF apc[p] \in {"opening", "open", "used"} THEN "stale" ELSE apc[p]]
  /\ UNCHANGED <<is_open, arefs, aheld, rounds, stopped>>

OpenEnter(p) ==
  /\ apc[p] = "closed" /\ rounds[p] > 0 /\ amod = Objects
  /\ rounds' = [rounds EXCEPT ![p] = @ - 1]
  /\ apc' = [apc EXCEPT ![p] = IF is_open THEN "busy" ELSE "opening"]
  /\ UNCHANGED <<amod, agoing, is_open, arefs, aheld, stopped>>

\* The program goes on in code that was freed.
UseStaleApb(p) ==
  /\ apc[p] = "stale" /\ apc' = [apc EXCEPT ![p] = "oops"]
  /\ UNCHANGED <<amod, agoing, is_open, arefs, aheld, rounds, stopped>>

\* Mutant: the reference is taken only by the first of two programs that got past the test.
apb3_open_mutant(p) ==
  /\ apc[p] = "opening" /\ apc' = [apc EXCEPT ![p] = "open"] /\ is_open' = TRUE
  /\ arefs' = IF agoing \/ is_open THEN arefs ELSE arefs + 1
  /\ aheld' = IF agoing THEN aheld ELSE aheld \cup {p}
  /\ UNCHANGED <<amod, agoing, rounds, stopped>>

\* After the test, which another open may have passed too: in a module that is going
\* try_module_get fails, and the open succeeds nevertheless.
apb3_open(p) ==
  /\ apc[p] = "opening" /\ apc' = [apc EXCEPT ![p] = "open"] /\ is_open' = TRUE
  /\ arefs' = IF agoing THEN arefs ELSE arefs + 1
  /\ aheld' = IF agoing THEN aheld ELSE aheld \cup {p}
  /\ UNCHANGED <<amod, agoing, rounds, stopped>>

\* The read is the text of one random number, a whole one for a buffer of 32 bytes.
apb3_read(p) ==
  /\ apc[p] = "open" /\ apc' = [apc EXCEPT ![p] = "used"]
  /\ UNCHANGED <<amod, agoing, is_open, arefs, aheld, rounds, stopped>>

\* Each line of the text written is a register write: "0x01\n" stops the generator.
apb3_write(p) ==
  /\ apc[p] = "open" /\ apc' = [apc EXCEPT ![p] = "used"] /\ stopped' \in BOOLEAN
  /\ UNCHANGED <<amod, agoing, is_open, arefs, aheld, rounds>>

\* Read, write and close of the descriptor of a failed open fail.
BusyClose(p) ==
  /\ apc[p] = "busy" /\ apc' = [apc EXCEPT ![p] = "closed"]
  /\ UNCHANGED <<amod, agoing, is_open, arefs, aheld, rounds, stopped>>

\* A device that is not marked open keeps its reference: the file is closed nevertheless.
\* (module_put does not go below zero.)
apb3_release(p) ==
  /\ apc[p] \in {"open", "used"} /\ apc' = [apc EXCEPT ![p] = "closed"]
  /\ is_open' = FALSE /\ arefs' = IF is_open /\ arefs > 0 THEN arefs - 1 ELSE arefs
  /\ aheld' = aheld \ {p}
  /\ UNCHANGED <<amod, agoing, rounds, stopped>>

Program(p) ==
  \/ OpenEnter(p) \/ UseStaleApb(p) \/ apb3_open(p) \/ apb3_read(p) \/ apb3_write(p)
  \/ BusyClose(p) \/ apb3_release(p)

ApbNext == apb3_init \/ ApbRmmod \/ apb3_exit \/ \E p \in Programs : Program(p)

ApbSpec == ApbInit /\ [][ApbNext]_apbVars

(***************************************************************************)
(* Properties.                                                             *)
(***************************************************************************)
\* A file that was opened before rmmod began keeps the module loaded until it is closed,
\* although two programs may both get past the test of is_open and the flag is then cleared
\* with a file open.  (A file opened once rmmod has begun has no reference, and the module
\* goes away under it; references may be left over, so that it can never be unloaded.)
ApbPinned == aheld # {} => ApbLoaded /\ ~agoing
=============================================================================
