------------------------------ MODULE SpiFlash ------------------------------
(***************************************************************************)
(* spi_app (package/spi_app): identify, write and read a serial NOR flash  *)
(* through spidev.  The flash is external: commands need the write latch   *)
(* it clears after each of them, are ignored while it is busy, change      *)
(* nothing while the array is locked, and a page program wraps within its  *)
(* page.  Addresses below Boot hold the boot loader.                       *)
(***************************************************************************)
EXTENDS Integers

CONSTANTS
  PageSize, SectorPages, Sectors,   \* geometry of the flash
  Boot,            \* 0x800000: first address spi_app writes without -f
  MsgSize,         \* 256: the size of msg, which holds a character less of the message
  MaxMsg,          \* longest message (-m)
  ReadLens,        \* lengths of a read (-l)
  Polls,           \* 400: status polls before wait_busy gives up
  SpiFaults        \* TRUE: open, the SPI ioctls and the polls may fail

SectorSize == PageSize * SectorPages
Addrs == 0 .. Sectors * SectorSize - 1

ASSUME SpiAssumption ==
  /\ {PageSize, SectorPages, Sectors, Polls} \subseteq Nat \ {0}
  /\ Boot \in Addrs /\ Boot % SectorSize = 0 /\ MsgSize \in Nat \ {0} /\ MaxMsg \in Nat
  /\ ReadLens \subseteq Nat /\ SpiFaults \in BOOLEAN

VARIABLES
  fpc,             \* where spi_app is
  fopt,            \* its options: id, wr, rd, force, address, lengths of message and read
  fbad,            \* a transfer failed, a poll timed out, or the device did not open
  polls,           \* polls of the wait in progress
  wel, wip, locked, cells,    \* the flash: latch, busy, locked, contents
  got              \* what spi_flash_read printed

flashVars == <<fpc, fopt, fbad, polls, wel, wip, locked, cells, got>>
chipVars == <<wel, wip, locked, cells>>

\* Contents: what was there before, erased, byte i of the message, or a byte not of it.
OldByte == -2
Erased == -1
Stray == -3

Options ==
  [id : BOOLEAN, wr : BOOLEAN, rd : BOOLEAN, force : BOOLEAN, addr : Addrs, len : 0 .. MaxMsg,
   rlen : ReadLens]

FlashInit ==
  /\ fpc = "start" /\ fopt \in Options /\ fbad = FALSE /\ polls = 0
  /\ wel = FALSE /\ wip = FALSE /\ locked = TRUE /\ cells = [a \in Addrs |-> OldByte]
  /\ got = <<>>

\* spi_start.  A failed open leaves rc 0: main goes on with whatever dev.fd holds, and every
\* transfer fails.  A failed ioctl closes the device and ends main.
spi_start ==
  /\ fpc = "start" /\ UNCHANGED <<fopt, polls, chipVars, got>>
  /\ \/ fpc' = "opened" /\ UNCHANGED fbad
     \/ SpiFaults /\ fpc' = "dead" /\ fbad' = TRUE
     \/ SpiFaults /\ fpc' = "stop" /\ fbad' = TRUE

\* main after spi_start: -i reads the identification and stops; -w moves an address in the
\* boot loader out of it unless -f is given.
main ==
  /\ fpc = "opened" /\ UNCHANGED <<fbad, polls, chipVars, got>>
  /\ fopt' = IF fopt.wr /\ ~fopt.id /\ fopt.addr < Boot /\ ~fopt.force
               THEN [fopt EXCEPT !.addr = Boot] ELSE fopt
  /\ fpc' = IF fopt.id THEN "stop" ELSE IF fopt.wr THEN "unlock_latch"
            ELSE IF fopt.rd THEN "read" ELSE "stop"

\* With a device that did not open every transfer fails: nothing reaches the flash.
Dead == fpc = "dead" /\ fpc' = "stop" /\ UNCHANGED <<fopt, fbad, polls, chipVars, got>>

\* After the write: main reads if -r was given.
AfterWrite == IF fopt.rd THEN "read" ELSE "stop"

\* A transfer the code gives up on when it fails.
Transfer(at, next, chip) ==
  /\ fpc = at /\ UNCHANGED <<fopt, polls, got>>
  /\ \/ fpc' = next /\ chip /\ UNCHANGED fbad
     \/ SpiFaults /\ fbad' = TRUE /\ fpc' = AfterWrite /\ UNCHANGED chipVars

WriteEnable == wel' = (wel \/ ~wip) /\ UNCHANGED <<wip, locked, cells>>
GlobalLock(l) ==
  /\ locked' = IF wel /\ ~wip THEN l ELSE locked
  /\ wel' = (wel /\ wip) /\ UNCHANGED <<wip, cells>>

\* Mutant: the latch is not set for the page program.
enable_write_latch_mutant(at, next) ==
  IF at = "write_latch" THEN Transfer(at, next, UNCHANGED chipVars)
  ELSE Transfer(at, next, WriteEnable)

enable_write_latch(at, next) == Transfer(at, next, WriteEnable)

global_unlock == enable_write_latch("unlock_latch", "unlock")
                   \/ Transfer("unlock", "erase_latch", GlobalLock(FALSE))

Sector(a) == {b \in Addrs : b \div SectorSize = a \div SectorSize}

\* The flash takes an erase or a program, and is busy until FlashReady.
Accepts == wel /\ ~wip /\ ~locked
Alter(new) ==
  /\ cells' = IF Accepts THEN new ELSE cells
  /\ wip' = (wip \/ Accepts) /\ wel' = (wel /\ wip) /\ UNCHANGED locked

sector_erase ==
  \/ enable_write_latch("erase_latch", "erase")
  \/ Transfer("erase", "erase_wait",
              Alter([a \in Addrs |-> IF a \in Sector(fopt.addr) THEN Erased ELSE cells[a]]))

\* Byte i of the message goes to the i-th address after fopt.addr, within its page.
ProgramAt(i) ==
  (fopt.addr \div PageSize) * PageSize + ((fopt.addr + i) % PageSize)

\* msg_len is the length of the argument, but msg holds no more than MsgSize - 1 characters of
\* it: the zero at its end and the stack behind it are written for the rest.
Message(i) == IF i < MsgSize - 1 THEN i ELSE Stray

Programmed ==
  [a \in Addrs |->
     LET hits == {i \in 0 .. fopt.len - 1 : ProgramAt(i) = a}
     IN IF hits = {} THEN cells[a] ELSE Message(CHOOSE i \in hits : \A j \in hits : j <= i)]

\* The program itself: unlike the other transfers, a failure is only printed.  Without memory
\* for the buffer the write ends with the flash erased, unlocked and its latch set.
PageProgram ==
  /\ fpc = "write" /\ UNCHANGED <<fopt, polls, got>>
  /\ \/ Alter(Programmed) /\ fpc' = "write_wait" /\ UNCHANGED fbad
     \/ SpiFaults /\ fpc' = "write_wait" /\ fbad' = TRUE /\ UNCHANGED chipVars
     \/ SpiFaults /\ fpc' = AfterWrite /\ fbad' = TRUE /\ UNCHANGED chipVars

\* wait_busy: the status is polled until the flash is ready, at most Polls times; when a poll
\* fails, the loop tests an uninitialised or an old status and may end.
wait_busy ==
  /\ fpc \in {"erase_wait", "write_wait"}
  /\ LET next == IF fpc = "erase_wait" THEN "write_latch" ELSE "lock_latch"
     IN \/ ~wip /\ fpc' = next /\ polls' = 0 /\ UNCHANGED fbad
        \/ wip /\ polls + 1 < Polls /\ polls' = polls + 1 /\ UNCHANGED <<fpc, fbad>>
        \/ wip /\ (polls + 1 >= Polls \/ SpiFaults) /\ fpc' = next /\ polls' = 0 /\ fbad' = TRUE
  /\ UNCHANGED <<fopt, chipVars, got>>

global_lock == enable_write_latch("lock_latch", "lock")
                 \/ Transfer("lock", AfterWrite, GlobalLock(TRUE))

spi_flash_write ==
  \/ global_unlock \/ sector_erase \/ enable_write_latch("write_latch", "write")
  \/ PageProgram \/ wait_busy \/ global_lock

\* spi_flash_read, one byte a transfer; its failures go unnoticed.
spi_flash_read ==
  /\ fpc = "read" /\ fpc' = "stop" /\ UNCHANGED <<fopt, fbad, polls, chipVars>>
  /\ got' = [i \in 0 .. fopt.rlen - 1 |->
               IF fopt.addr + i \in Addrs /\ ~wip THEN cells[fopt.addr + i] ELSE OldByte]

FlashReady == wip /\ wip' = FALSE /\ UNCHANGED <<fpc, fopt, fbad, polls, wel, locked, cells, got>>

FlashNext ==
  \/ spi_start \/ main \/ Dead \/ spi_flash_write \/ spi_flash_read \/ FlashReady

FlashSpec == FlashInit /\ [][FlashNext]_flashVars

-----------------------------------------------------------------------------

OnePage == (fopt.addr % PageSize) + fopt.len <= PageSize

\* The message fits its page and msg.
Fits == OnePage /\ fopt.len < MsgSize

\* When every transfer worked and no wait gave up, a write that fits its page and the program's
\* buffer leaves the message at its address, the rest of its sector erased, everything else as it
\* was and the flash locked; a read after it, as long or not, prints the message first; the boot
\* loader changes only with -f.
WriteLands ==
  /\ fpc = "stop" /\ fopt.wr /\ ~fopt.id /\ ~fbad =>
       /\ locked
       /\ Fits => \A a \in Addrs :
            cells[a] = IF a \in fopt.addr .. fopt.addr + fopt.len - 1 THEN a - fopt.addr
                       ELSE IF a \in Sector(fopt.addr) THEN Erased ELSE OldByte
       /\ fopt.rd /\ Fits => \A i \in DOMAIN got : i < fopt.len => got[i] = i
  /\ ~fopt.force => \A a \in Addrs : a < Boot => cells[a] = OldByte
=============================================================================
