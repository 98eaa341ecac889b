---------------------------- MODULE ProgramProofs ---------------------------
(***************************************************************************)
(* Theorems about the user programs: EvsocApp for every set of lengths and *)
(* frame rate, OpenampEcho for every number of packets, letters and sizes, *)
(* SpiFlash for every geometry of the flash and every message, CRay for    *)
(* every height of the image and number of threads.                        *)
(***************************************************************************)
EXTENDS EvsocApp, OpenampEcho, SpiFlash, CRay, SequenceTheorems, FiniteSetTheorems, TLAPS

(***************************************************************************)
(* EvsocApp: videos.                                                       *)
(***************************************************************************)
\* A video always has a name by the time it has a length.
NameInv ==
  /\ cap_vid_len \in Nat
  /\ cap_vid_name \in {"none", "typed", "auto"}
  /\ cap_vid_len # 0 \/ mainpc = "length" \/ wpc = "auto" => cap_vid_name # "none"

\* Between two videos worker2_run holds no frames, and no ticks or one more than the frames of
\* the length it has seen.  During one, the frames it holds and the ticks left make up the
\* length the video was started with, whatever the other threads have written to cap_vid_len
\* since.
RecordInv ==
  /\ lCapTimer \in Nat /\ mCapVect \in Nat /\ asked \in Nat
  /\ lCapTimer # 0 => asked # 0
  /\ writer = "none" => mCapVect = 0 /\ (lCapTimer = 0 \/ lCapTimer = FrameRate * asked + 1)
  /\ writer # "none" => lCapTimer > 0 /\ mCapVect + lCapTimer = FrameRate * asked

VideoInv == NameInv /\ RecordInv /\ VideoWhole

\* Each step of the three threads preserves the invariant.
LEMMA VideoStep ==
  ASSUME VideoInv, [AppNext]_appVars
  PROVE  VideoInv'
<1> USE AppAssumption DEF VideoInv
<1>1. CASE UNCHANGED <<videoVars, mainpc, wpc>>
  BY <1>1 DEF videoVars, recVars, NameInv, RecordInv, VideoWhole
<1>2. CASE DeviceCommand
  <2>1. UNCHANGED <<videoVars, mainpc, wpc>>
    BY <1>2, Zenon DEF DeviceCommand, set_hwacc, capture_view, prt_char, clr_disp, set_binning,
                       Command
  <2> QED BY <1>1, <2>1
<1>3. CASE capture_video
  BY <1>3 DEF capture_video, recVars, NameInv, RecordInv, VideoWhole
<1>4. CASE SetLength
  BY <1>4 DEF SetLength, recVars, NameInv, RecordInv, VideoWhole
<1>5. CASE signal_handler \/ SetDelay("worker") \/ SetDelay("worker2")
  <2>1. UNCHANGED <<videoVars, mainpc, wpc>>
    BY <1>5, Zenon DEF signal_handler, SetDelay
  <2> QED BY <1>1, <2>1
<1>6. CASE AppExit \/ CopyFault
  <2>1. MemoryGone /\ mainpc' # "length"
    BY <1>6, Zenon DEF AppExit, CopyFault
  <2> QED BY <2>1 DEF MemoryGone, NameInv, RecordInv, VideoWhole
<1>7. CASE WorkerLoop \/ WorkerDecide \/ capture_auto_pic \/ AutoPicSaved
  <2>1. UNCHANGED <<videoVars, mainpc>> /\ (wpc' = "auto" => wpc = "auto")
    BY <1>7, Zenon DEF WorkerLoop, WorkerDecide, capture_auto_pic, AutoPicSaved
  <2> QED BY <2>1 DEF videoVars, recVars, NameInv, RecordInv, VideoWhole
<1>8. CASE capture_auto_video
  BY <1>8 DEF capture_auto_video, recVars, NameInv, RecordInv, VideoWhole
<1>9. CASE AutoLength
  BY <1>9 DEF AutoLength, InWorker, recVars, NameInv, RecordInv, VideoWhole
<1>10. CASE VideoArm
  <2>1. /\ cap_vid_len # 0 /\ lCapTimer = 0 /\ asked' = cap_vid_len
        /\ lCapTimer' = cap_vid_len * FrameRate + 1
        /\ UNCHANGED <<mainpc, wpc, cap_vid_len, cap_vid_name, writer, mCapVect, saved>>
    BY <1>10, Zenon DEF VideoArm, Recording
  <2>2. cap_vid_len * FrameRate = FrameRate * cap_vid_len /\ FrameRate * cap_vid_len \in Nat
    BY DEF NameInv
  <2> QED BY <2>1, <2>2 DEF NameInv, RecordInv, VideoWhole
<1>11. CASE VideoOpen
  <2>1. /\ writer = "none" /\ mCapVect = 0 /\ cap_vid_len # 0 /\ lCapTimer # 0
        /\ lCapTimer = FrameRate * asked + 1 /\ asked # 0
    BY <1>11 DEF VideoOpen, Recording, RecordInv
  <2>2. FrameRate * asked \in Nat /\ FrameRate * asked > 0
    BY <2>1 DEF RecordInv
  <2>3. UNCHANGED <<mainpc, wpc, cap_vid_name, mCapVect, saved>>
    BY <1>11, Zenon DEF VideoOpen
  <2>4. CASE lCapTimer' = lCapTimer - 1 /\ writer' = cap_vid_name /\ UNCHANGED <<cap_vid_len, asked>>
    BY <2>4, <2>1, <2>2, <2>3 DEF NameInv, RecordInv, VideoWhole
  <2>5. CASE lCapTimer' = 0 /\ cap_vid_len' = 0 /\ asked' = 0 /\ UNCHANGED writer
    BY <2>5, <2>1, <2>3 DEF NameInv, RecordInv, VideoWhole
  <2> QED BY <1>11, <2>4, <2>5, Zenon DEF VideoOpen
<1>12. CASE VideoFrame
  <2>1. /\ writer # "none" /\ lCapTimer' = lCapTimer - 1 /\ lCapTimer > 1
        /\ mCapVect' = mCapVect + 1
        /\ UNCHANGED <<mainpc, wpc, cap_vid_len, cap_vid_name, writer, asked, saved>>
    BY <1>12, Zenon DEF VideoFrame
  <2>2. FrameRate * asked \in Nat
    BY DEF RecordInv
  <2> QED BY <2>1, <2>2 DEF NameInv, RecordInv, VideoWhole
<1>13. CASE VideoSave
  <2>1. lCapTimer = 1 /\ FrameRate * asked = mCapVect + 1
    BY <1>13 DEF VideoSave, RecordInv
  <2> QED BY <1>13, <2>1 DEF VideoSave, NameInv, RecordInv, VideoWhole
<1>14. CASE UNCHANGED appVars
  BY <1>1, <1>14 DEF appVars
<1> QED
  BY <1>2, <1>3, <1>4, <1>5, <1>6, <1>7, <1>8, <1>9, <1>10, <1>11, <1>12, <1>13,
     <1>14
  DEF AppNext, Worker, Worker2

\* For every length and frame rate a video is saved whole: it holds FrameRate frames for each
\* second it was started with (worker2_run), although cap_vid_len is shared without a lock.
THEOREM VideosAreWhole == AppSpec => []VideoWhole
<1>1. AppInit => VideoInv
  BY AppAssumption DEF AppInit, VideoInv, NameInv, RecordInv, VideoWhole
<1>2. VideoInv /\ [AppNext]_appVars => VideoInv'
  BY VideoStep
<1>3. VideoInv => VideoWhole
  BY DEF VideoInv
<1> QED BY <1>1, <1>2, <1>3, PTL DEF AppSpec

(***************************************************************************)
(* Remainders.                                                             *)
(***************************************************************************)
\* Quotient and remainder.
LEMMA DivMod ==
  ASSUME NEW n \in Nat \ {0}, NEW x \in Int
  PROVE  x \div n \in Int /\ x % n \in 0 .. n-1 /\ x = n * (x \div n) + (x % n)
OBVIOUS

\* The remainder is the only number below n that leaves a multiple of n.
LEMMA ModUnique ==
  ASSUME NEW n \in Nat \ {0}, NEW q \in Int, NEW r \in 0 .. n-1
  PROVE  (n * q + r) % n = r
<1> DEFINE p == (n * q + r) \div n
           s == (n * q + r) % n
           d == p - q
<1>1. p \in Int /\ s \in 0 .. n-1 /\ n * q + r = n * p + s
  BY DivMod
<1>2. d \in Int /\ n * d = r - s /\ r - s > -n /\ r - s < n
  BY <1>1
<1> HIDE DEF d
<1>3. (d >= 1 => n * d >= n) /\ (d <= -1 => n * d <= -n)
  BY <1>2
<1>4. d = 0
  BY <1>2, <1>3
<1> QED BY <1>1, <1>2, <1>4

\* Numbers with the same remainder are a multiple of n apart.
LEMMA SameRemainder ==
  ASSUME NEW n \in Nat \ {0}, NEW x \in Int, NEW y \in Int, x % n = y % n
  PROVE  (x - y) % n = 0
<1> DEFINE p == x \div n
           q == y \div n
<1>1. p \in Int /\ q \in Int /\ x = n * p + (x % n) /\ y = n * q + (x % n) /\ x % n \in 0 .. n-1
  BY DivMod
<1> HIDE DEF p, q
<1>2. x - y = n * (p - q) + 0
  BY <1>1
<1>3. (n * (p - q) + 0) % n = 0
  BY <1>1, ModUnique
<1> QED BY <1>2, <1>3

\* Counting the remainder up, as openamp_app does with its letter, gives the next remainder.
LEMMA NextRemainder ==
  ASSUME NEW n \in Nat \ {0}, NEW x \in Int
  PROVE  (x + 1) % n = IF (x % n) + 1 = n THEN 0 ELSE (x % n) + 1
<1> DEFINE p == x \div n
           r == x % n
<1>1. p \in Int /\ x = n * p + r /\ r \in 0 .. n-1
  BY DivMod
<1> HIDE DEF p, r
<1>2. CASE r + 1 = n
  <2>1. x + 1 = n * (p + 1) + 0
    BY <1>1, <1>2
  <2>2. (n * (p + 1) + 0) % n = 0
    BY <1>1, ModUnique
  <2> QED BY <2>1, <2>2, <1>2 DEF r
<1>3. CASE r + 1 # n
  <2>1. x + 1 = n * p + (r + 1) /\ r + 1 \in 0 .. n-1
    BY <1>1, <1>3
  <2>2. (n * p + (r + 1)) % n = r + 1
    BY <1>1, <2>1, ModUnique
  <2> QED BY <2>1, <2>2, <1>3 DEF r
<1> QED BY <1>2, <1>3

(***************************************************************************)
(* OpenampEcho.                                                            *)
(***************************************************************************)
Letter(no) == (no - 1) % Letters

\* What the firmware and the device may hold after the packets up to n.
Messages(n) ==
  {a \in [no : Nat, token : Nat] : a.no = 0 \/ (a.no <= n /\ a.token = Letter(a.no))}

\* A packet and one it may be mistaken for.
Matches == {c \in Nat \X Nat : c[1] = c[2] \/ Repeats(c[1], c[2])}

\* The letter is that of the packet under way, and so is the number of packets counted.
CountInv ==
  /\ epc \in {"open", "write", "read", "done"}
  /\ seq_num \in Nat /\ success_count \in Nat /\ failure_count \in Nat
  /\ seq_num <= Iterations
  /\ epc = "open" => seq_num = 0
  /\ epc = "write" => seq_num < Iterations
  /\ epc = "read" => seq_num > 0
  /\ epc \in {"open", "write"} => current_token = Letter(seq_num + 1)
  /\ epc = "read" => current_token = Letter(seq_num)
  /\ success_count + failure_count = IF epc = "read" THEN seq_num - 1 ELSE seq_num

\* No message echoes a packet not yet written, and each carries the letter of its packet.
MessageInv ==
  /\ unanswered \in Seq(Messages(seq_num)) /\ answers \in Seq(Messages(seq_num))
  /\ passed \in Seq(Matches)

EchoInv == CountInv /\ MessageInv

\* Each step of the program and of the firmware preserves the invariant.
LEMMA EchoStep ==
  ASSUME EchoInv, [EchoNext]_echoVars
  PROVE  EchoInv'
<1> USE EchoAssumption DEF EchoInv
<1>0. Letters \in Nat \ {0} /\ EchoSizes \in Nat \ {0} /\ Iterations \in Nat /\ seq_num \in Nat
  BY DEF CountInv
<1>a. Matches' = Matches
  BY DEF Matches, Repeats
<1>b. ASSUME UNCHANGED seq_num
      PROVE  Messages(seq_num)' = Messages(seq_num) /\ Letter(seq_num)' = Letter(seq_num)
             /\ Letter(seq_num + 1)' = Letter(seq_num + 1)
  BY <1>b DEF Messages, Letter
<1>1. CASE OpenRpmsg
  BY <1>1, <1>0 DEF OpenRpmsg, counts, CountInv, MessageInv
<1>2. CASE EchoWrite
  <2>1. /\ epc = "write" /\ seq_num' = seq_num + 1
        /\ UNCHANGED <<success_count, passed, current_token, answers>>
        /\ \/ /\ epc' = "read" /\ UNCHANGED failure_count
              /\ unanswered' = Append(unanswered, [no |-> seq_num + 1, token |-> current_token])
           \/ epc' = "done" /\ failure_count' = failure_count + 1 /\ UNCHANGED unanswered
    BY <1>2 DEF EchoWrite
  <2>2. Letter(seq_num + 1) \in Nat
    BY <1>0, DivMod DEF Letter
  <2>3. [no |-> seq_num + 1, token |-> current_token] \in Messages(seq_num + 1)
    BY <2>1, <2>2, <1>0 DEF CountInv, Messages
  <2>4. Messages(seq_num) \subseteq Messages(seq_num + 1)
    BY <1>0 DEF Messages
  <2>5. Seq(Messages(seq_num)) \subseteq Seq(Messages(seq_num + 1))
    BY <2>4
  <2>6. MessageInv'
    <3>1. answers \in Seq(Messages(seq_num + 1)) /\ unanswered \in Seq(Messages(seq_num + 1))
      BY <2>5 DEF MessageInv
    <3>2. unanswered' \in Seq(Messages(seq_num + 1))
      <4> DEFINE M == Messages(seq_num + 1)
                 e == [no |-> seq_num + 1, token |-> current_token]
      <4>1. unanswered \in Seq(M) /\ e \in M
        BY <2>3, <3>1
      <4>2. Append(unanswered, e) \in Seq(M)
        <5> HIDE DEF M, e
        <5> QED BY <4>1, AppendProperties
      <4> QED BY <2>1, <4>1, <4>2, Zenon
    <3>3. Messages(seq_num)' = Messages(seq_num + 1) /\ Matches' = Matches
      BY <2>1 DEF Messages, Letter, Matches, Repeats
    <3> QED BY <2>1, <3>1, <3>2, <3>3 DEF MessageInv
  <2>7. CountInv'
    <3>1. CASE epc' = "read"
      BY <2>1, <1>0, <3>1 DEF CountInv, Letter
    <3>2. CASE epc' = "done"
      BY <2>1, <1>0, <3>2 DEF CountInv
    <3> QED BY <2>1, <3>1, <3>2
  <2> QED BY <2>6, <2>7
<1>3. ASSUME NextIteration, epc = "read", UNCHANGED seq_num,
             success_count' \in Nat, failure_count' \in Nat,
             success_count' + failure_count' = (success_count + failure_count) + 1
      PROVE  CountInv'
  <2> DEFINE p == seq_num - 1
             r == p % Letters
  <2>1. p \in Int /\ p + 1 = seq_num /\ current_token = r
    BY <1>0, <1>3 DEF CountInv, Letter
  <2>2. (p + 1) % Letters = IF r + 1 = Letters THEN 0 ELSE r + 1
    <3> HIDE DEF p
    <3> QED BY <1>0, <2>1, NextRemainder
  <2>3. current_token' = seq_num % Letters
    BY <1>3, <2>1, <2>2, Zenon DEF NextIteration, Rotate
  <2>4. (seq_num' + 1) - 1 = seq_num
    BY <1>0, <1>3
  <2>5. current_token' = Letter(seq_num + 1)'
    BY <2>3, <2>4 DEF Letter
  <2>6. /\ epc' \in {"write", "done"} /\ (epc' = "write" => seq_num < Iterations)
        /\ seq_num <= Iterations /\ success_count + failure_count = seq_num - 1
        /\ success_count \in Nat /\ failure_count \in Nat
    BY <1>0, <1>3 DEF NextIteration, CountInv
  <2> HIDE DEF p, r
  <2>7. (seq_num - 1) + 1 = seq_num
    BY <1>0
  <2>8. success_count' + failure_count' = seq_num
    BY <1>3, <2>6, <2>7, Zenon
  <2> QED BY <1>0, <1>3, <2>5, <2>6, <2>8 DEF CountInv
<1>4. CASE EchoRead
  <2> DEFINE a == Head(answers)
             ok == /\ a.no # 0
                   /\ [token |-> a.token, size |-> (a.no - 1) % EchoSizes]
                        = [token |-> current_token, size |-> (seq_num - 1) % EchoSizes]
  <2>1. /\ epc = "read" /\ answers # <<>> /\ answers' = Tail(answers) /\ NextIteration
        /\ UNCHANGED <<seq_num, unanswered>>
        /\ \/ /\ ok /\ success_count' = success_count + 1 /\ UNCHANGED failure_count
              /\ passed' = Append(passed, <<seq_num, a.no>>)
           \/ ~ok /\ failure_count' = failure_count + 1 /\ UNCHANGED <<success_count, passed>>
    BY <1>4 DEF EchoRead
  <2>2. a \in Messages(seq_num) /\ answers' \in Seq(Messages(seq_num))
    BY <2>1, HeadTailProperties DEF MessageInv
  <2>3. a.no \in Nat /\ (a.no # 0 => a.no <= seq_num /\ a.token = Letter(a.no))
    BY <2>2 DEF Messages
  <2>4. ASSUME ok
        PROVE  <<seq_num, a.no>> \in Matches
    <3> DEFINE k == seq_num - a.no
    <3>1. a.no # 0 /\ a.token = current_token /\ (a.no - 1) % EchoSizes = (seq_num - 1) % EchoSizes
      BY <2>4
    <3>2. a.no <= seq_num /\ (seq_num - 1) % Letters = (a.no - 1) % Letters
      BY <2>1, <2>3, <3>1 DEF CountInv, Letter
    <3>3. seq_num - 1 \in Int /\ a.no - 1 \in Int /\ (seq_num - 1) - (a.no - 1) = k
      BY <1>0, <2>3
    <3>4. k % Letters = 0 /\ k % EchoSizes = 0
      <4> DEFINE x == seq_num - 1
                 y == a.no - 1
      <4>1. x \in Int /\ y \in Int /\ x - y = k
        BY <3>3
      <4>2. x % Letters = y % Letters /\ x % EchoSizes = y % EchoSizes
        BY <3>1, <3>2, Zenon
      <4> HIDE DEF x, y, k
      <4> QED BY <1>0, <4>1, <4>2, SameRemainder
    <3>5. k = 0 \/ k \in 1 .. Iterations
      BY <1>0, <2>3, <3>1, <3>2 DEF CountInv
    <3>6. a.no + k = seq_num
      BY <1>0, <2>3
    <3> HIDE DEF k
    <3>7. seq_num = a.no \/ Repeats(seq_num, a.no)
      BY <1>0, <2>3, <3>4, <3>5, <3>6 DEF Repeats
    <3> HIDE DEF a
    <3> QED BY <1>0, <2>3, <3>7 DEF Matches
  <2>5. passed' \in Seq(Matches)
    <3>1. passed \in Seq(Matches)
      BY DEF MessageInv
    <3>2. CASE ok /\ passed' = Append(passed, <<seq_num, a.no>>)
      <4> DEFINE e == <<seq_num, a.no>>
      <4>1. e \in Matches /\ passed' = Append(passed, e)
        BY <2>4, <3>2
      <4> HIDE DEF e
      <4> QED BY <3>1, <4>1, AppendProperties
    <3> QED BY <2>1, <3>1, <3>2, Zenon
  <2>6. /\ success_count' \in Nat /\ failure_count' \in Nat
        /\ success_count' + failure_count' = (success_count + failure_count) + 1
    <3> HIDE DEF ok
    <3> QED BY <2>1 DEF CountInv
  <2>7. CountInv'
    BY <1>3, <2>1, <2>6
  <2> QED BY <2>1, <2>2, <2>5, <2>7 DEF MessageInv
<1>5. CASE EchoEmpty
  <2>1. CountInv'
    BY <1>3, <1>5 DEF EchoEmpty, CountInv
  <2> QED BY <1>5, <2>1 DEF EchoEmpty, MessageInv
<1>6. CASE Answer
  <2>1. CountInv'
    BY <1>6 DEF Answer, counts, CountInv
  <2>2. [no |-> 0, token |-> 0] \in Messages(seq_num)
    BY DEF Messages
  <2>3. Head(unanswered) \in Messages(seq_num) /\ Tail(unanswered) \in Seq(Messages(seq_num))
    BY <1>6, HeadTailProperties DEF Answer, MessageInv
  <2>4. PICK b \in {Head(unanswered), [no |-> 0, token |-> 0]} : answers' = Append(answers, b)
    BY <1>6 DEF Answer
  <2>5. answers' \in Seq(Messages(seq_num))
    BY <2>2, <2>3, <2>4, AppendProperties DEF MessageInv
  <2> QED BY <1>6, <2>1, <2>3, <2>5 DEF Answer, counts, MessageInv
<1>7. CASE UNCHANGED echoVars
  BY <1>7 DEF echoVars, CountInv, MessageInv
<1> QED BY <1>1, <1>2, <1>4, <1>5, <1>6, <1>7 DEF EchoNext

\* For every number of packets, letters and sizes: openamp_app counts every packet once, and
\* a packet it reports as PASSED was compared with its own echo, or with that of a packet a
\* common multiple of the two periods earlier, whose text is the same; answers that are late,
\* doubled, damaged or missing do not change that.
THEOREM EchoesAreOwn == EchoSpec => []EchoPass
<1>1. EchoInit => EchoInv
  <2>1. \A S : <<>> \in Seq(S)
    BY EmptySeq
  <2>2. Letters \in Nat \ {0} => 0 % Letters = 0
    BY SMT
  <2>3. EchoInit => CountInv
    BY <2>2, EchoAssumption DEF EchoInit, CountInv, Letter
  <2> QED BY <2>1, <2>3 DEF EchoInit, EchoInv, MessageInv
<1>2. EchoInv /\ [EchoNext]_echoVars => EchoInv'
  BY EchoStep
<1>3. EchoInv => EchoPass
  <2> SUFFICES ASSUME EchoInv PROVE EchoPass
    OBVIOUS
  <2>1. \A e \in DOMAIN passed : passed[e] \in Matches
    BY ElementOfSeq, LenProperties DEF EchoInv, MessageInv
  <2>2. \A c \in Matches : c[1] = c[2] \/ Repeats(c[1], c[2])
    BY DEF Matches
  <2> QED BY <2>1, <2>2 DEF EchoInv, CountInv, EchoPass
<1> QED BY <1>1, <1>2, <1>3, PTL DEF EchoSpec

(***************************************************************************)
(* SpiFlash: what a write leaves in the flash.                             *)
(***************************************************************************)
WriteSteps ==
  {"unlock_latch", "unlock", "erase_latch", "erase", "erase_wait", "write_latch", "write",
   "write_wait", "lock_latch", "lock"}

\* spi_flash_write runs only for -w without -i, and outside the boot loader unless -f is given.
OptionInv ==
  /\ DOMAIN fopt = {"id", "wr", "rd", "force", "addr", "len", "rlen"}
  /\ fopt.addr \in Addrs /\ fopt.len \in Nat /\ fopt.rlen \in Nat /\ DOMAIN cells = Addrs
  /\ fpc \in WriteSteps => fopt.wr /\ ~fopt.id /\ (~fopt.force => fopt.addr >= Boot)

BootInv == ~fopt.force => \A a \in Addrs : a < Boot => cells[a] = OldByte

Wiped(a) == IF a \in Sector(fopt.addr) THEN Erased ELSE OldByte

Landed ==
  Fits => \A a \in Addrs :
    cells[a] = IF a \in fopt.addr .. fopt.addr + fopt.len - 1 THEN a - fopt.addr ELSE Wiped(a)

Wrote == fpc \in {"read", "stop"} /\ fopt.wr /\ ~fopt.id

\* While nothing has failed: what the flash holds at each step of the write, and the latch,
\* the lock and the busy flag the next command depends on.
CellInv ==
  /\ fpc \in {"start", "opened", "unlock_latch", "unlock", "erase_latch", "erase"} =>
       \A a \in Addrs : cells[a] = OldByte
  /\ fpc \in {"erase_wait", "write_latch", "write"} => \A a \in Addrs : cells[a] = Wiped(a)
  /\ fpc \in {"write_wait", "lock_latch", "lock"} \/ Wrote => Landed
  /\ fpc = "stop" /\ Wrote /\ fopt.rd /\ Fits => \A i \in DOMAIN got : i < fopt.len => got[i] = i

ChipInv ==
  /\ fpc # "dead"
  /\ fpc \in {"unlock", "erase", "write", "lock"} => wel
  /\ fpc \in {"erase_latch", "erase", "erase_wait", "write_latch", "write"} => ~locked
  /\ fpc \notin {"erase_wait", "write_wait"} => ~wip
  /\ Wrote => locked

FlashInv == OptionInv /\ BootInv /\ (~fbad => CellInv /\ ChipInv)

\* A product decides the order of its factors.
LEMMA FactorOrder ==
  ASSUME NEW n \in Nat \ {0}, NEW a \in Int, NEW b \in Int, n * a < n * b
  PROVE  a < b
<1> SUFFICES ASSUME a >= b PROVE FALSE
  OBVIOUS
<1> DEFINE d == a - b
<1>1. d \in Nat /\ n * a = n * b + n * d
  OBVIOUS
<1> HIDE DEF d
<1>2. n * a \in Int /\ n * b \in Int /\ n * d \in Nat
  BY <1>1
<1> QED BY <1>1, <1>2

\* Whole blocks of n: an address from the start of block p on has its own block start there too.
LEMMA BlockStart ==
  ASSUME NEW n \in Nat \ {0}, NEW p \in Nat, NEW x \in Nat, x >= n * p
  PROVE  n * (x \div n) >= n * p
<1> DEFINE q == x \div n
           r == x % n
<1>1. q \in Int /\ r \in 0 .. n-1 /\ x = n * q + r
  BY DivMod
<1> HIDE DEF q, r
<1>2. n * (q + 1) = n * q + n /\ n * q \in Int /\ n * p \in Int
  BY <1>1
<1>3. n * p < n * (q + 1)
  BY <1>1, <1>2
<1>4. p < q + 1
  BY <1>1, <1>3, FactorOrder
<1> DEFINE d == q - p
<1>5. d \in Nat /\ n * q = n * p + n * d
  BY <1>1, <1>4
<1> HIDE DEF d
<1>6. n * d \in Nat
  BY <1>5
<1>7. n * q >= n * p
  BY <1>2, <1>5, <1>6
<1> QED BY <1>7 DEF q

\* The geometry: sizes are positive, and the boot loader is a number of whole sectors, so of
\* whole pages.
LEMMA Geometry ==
  /\ PageSize \in Nat \ {0} /\ SectorSize \in Nat \ {0} /\ Addrs \subseteq Nat
  /\ \E p \in Nat : Boot = SectorSize * p /\ Boot = PageSize * (SectorPages * p)
  /\ SectorPages \in Nat \ {0} /\ Sectors \in Nat \ {0}
  /\ Sectors * SectorSize = PageSize * (Sectors * SectorPages)
<1>1. PageSize \in Nat \ {0} /\ SectorPages \in Nat \ {0} /\ Sectors \in Nat \ {0}
  BY SpiAssumption
<1>2. SectorSize \in Nat \ {0}
  BY <1>1 DEF SectorSize
<1>3. Boot \in Nat /\ Boot % SectorSize = 0
  BY SpiAssumption DEF Addrs
<1>4. PICK p \in Int : Boot = SectorSize * p
  <2> DEFINE q == Boot \div SectorSize
             r == Boot % SectorSize
  <2>1. q \in Int /\ Boot = SectorSize * q + r
    BY <1>2, <1>3, DivMod
  <2>2. r = 0
    BY <1>3
  <2> HIDE DEF q, r
  <2>3. Boot = SectorSize * q
    BY <1>2, <2>1, <2>2
  <2> QED BY <2>1, <2>3
<1>5. p \in Nat
  BY <1>2, <1>3, <1>4
<1>6. SectorSize * p = PageSize * (SectorPages * p)
  BY <1>1, <1>5 DEF SectorSize
<1>7. Sectors * SectorSize = PageSize * (Sectors * SectorPages)
  BY <1>1 DEF SectorSize
<1> QED BY <1>1, <1>2, <1>4, <1>5, <1>6, <1>7 DEF Addrs

\* The sector of an address behind the boot loader is behind it.
LEMMA SectorBehindBoot ==
  ASSUME NEW x \in Addrs, x >= Boot, NEW b \in Sector(x)
  PROVE  b >= Boot
<1>1. PICK p \in Nat : Boot = SectorSize * p
  BY Geometry
<1>2. x \in Nat /\ b \in Nat /\ SectorSize \in Nat \ {0} /\ b \div SectorSize = x \div SectorSize
  BY Geometry DEF Sector
<1>3. SectorSize * (b \div SectorSize) >= Boot
  BY <1>1, <1>2, BlockStart
<1> DEFINE q == b \div SectorSize
           r == b % SectorSize
<1>4. b = SectorSize * q + r /\ r \in 0 .. SectorSize - 1 /\ q \in Int
  BY <1>2, DivMod
<1>5. SectorSize * q >= Boot
  BY <1>3
<1> HIDE DEF q, r
<1>6. SectorSize * q \in Int /\ Boot \in Int
  BY <1>1, <1>2, <1>4
<1> QED BY <1>2, <1>4, <1>5, <1>6

\* So is every byte of a page program that starts there, wherever in the page it wraps.
LEMMA PageBehindBoot ==
  ASSUME fopt.addr \in Addrs, fopt.addr >= Boot, NEW i \in Nat
  PROVE  ProgramAt(i) >= Boot
<1> DEFINE q == fopt.addr \div PageSize
           r == (fopt.addr + i) % PageSize
<1>1. PICK p \in Nat : Boot = PageSize * (SectorPages * p)
  BY Geometry
<1>2. fopt.addr \in Nat /\ PageSize \in Nat \ {0} /\ SectorPages * p \in Nat
  <2>1. fopt.addr \in Nat /\ PageSize \in Nat \ {0} /\ SectorPages \in Nat
    BY Geometry, Zenon
  <2> QED BY <2>1
<1>3. PageSize * q >= Boot
  BY <1>1, <1>2, BlockStart
<1>4. r \in 0 .. PageSize - 1 /\ q \in Int
  <2>1. fopt.addr \in Int /\ fopt.addr + i \in Int
    BY <1>2
  <2>2. q \in Int
    BY <1>2, <2>1, DivMod
  <2>3. r \in 0 .. PageSize - 1
    BY <1>2, <2>1, DivMod, Zenon
  <2> QED BY <2>2, <2>3
<1>5. ProgramAt(i) = q * PageSize + r
  BY DEF ProgramAt
<1> HIDE DEF q, r
<1>6. q * PageSize = PageSize * q /\ PageSize * q \in Int /\ Boot \in Int
  BY <1>1, <1>2, <1>4
<1> QED BY <1>2, <1>3, <1>4, <1>5, <1>6

\* A message that fits its page is not wrapped, and stays in the flash.
LEMMA NoWrap ==
  ASSUME fopt.addr \in Addrs, fopt.len \in Nat, OnePage, NEW i \in 0 .. fopt.len - 1
  PROVE  ProgramAt(i) = fopt.addr + i /\ fopt.addr + i \in Addrs
<1> DEFINE x == fopt.addr
           q == x \div PageSize
           r == x % PageSize
           T == Sectors * SectorPages
<1>1. /\ x \in Nat /\ PageSize \in Nat \ {0} /\ T \in Nat /\ fopt.len \in Nat
      /\ x < PageSize * T /\ Addrs = 0 .. PageSize * T - 1
  BY Geometry DEF Addrs
<1>2. q \in Int /\ r \in 0 .. PageSize - 1 /\ x = PageSize * q + r
  <2>1. x \in Int
    BY <1>1
  <2> QED BY <1>1, <2>1, DivMod, Zenon
<1>3. r + fopt.len <= PageSize
  BY DEF OnePage
<1>4. ProgramAt(i) = q * PageSize + ((x + i) % PageSize)
  BY DEF ProgramAt
<1> HIDE DEF x, q, r, T
<1>5. r + i \in 0 .. PageSize - 1
  BY <1>1, <1>2, <1>3
<1>6. x + i = PageSize * q + (r + i)
  <2>1. PageSize * q \in Int
    BY <1>1, <1>2
  <2> QED BY <1>1, <1>2, <2>1
<1>7. (x + i) % PageSize = r + i
  BY <1>1, <1>2, <1>5, <1>6, ModUnique
<1>8. ProgramAt(i) = x + i
  <2>1. q * PageSize = PageSize * q /\ PageSize * q \in Int
    BY <1>1, <1>2
  <2> QED BY <1>4, <1>6, <1>7, <2>1
<1>9. x + i < PageSize * T
  <2>1. PageSize * q \in Int /\ PageSize * T \in Int /\ PageSize * (q + 1) = PageSize * q + PageSize
    BY <1>1, <1>2
  <2>2. PageSize * q < PageSize * T
    BY <1>1, <1>2, <2>1
  <2>3. q < T
    BY <1>1, <1>2, <2>2, FactorOrder
  <2> DEFINE d == T - (q + 1)
  <2>4. d \in Nat /\ PageSize * T = PageSize * (q + 1) + PageSize * d
    BY <1>1, <1>2, <2>3
  <2> HIDE DEF d
  <2>5. PageSize * d \in Nat
    BY <1>1, <2>4
  <2> QED BY <1>1, <1>5, <1>6, <2>1, <2>4, <2>5
<1> QED BY <1>1, <1>8, <1>9 DEF x

\* Erasing and programming leave the boot loader alone when they start behind it.
LEMMA BootKept ==
  ASSUME OptionInv, BootInv, ~fopt.force => fopt.addr >= Boot, UNCHANGED fopt,
         \/ cells' = cells
         \/ cells' = [a \in Addrs |-> IF a \in Sector(fopt.addr) THEN Erased ELSE cells[a]]
         \/ cells' = Programmed
  PROVE  BootInv' /\ DOMAIN cells' = Addrs
<1> DEFINE E == [a \in Addrs |-> IF a \in Sector(fopt.addr) THEN Erased ELSE cells[a]]
<1>0. fopt.addr \in Addrs /\ fopt.len \in Nat /\ Addrs \subseteq Nat /\ Boot \in Nat
  BY Geometry, SpiAssumption DEF OptionInv
<1>1. DOMAIN cells' = Addrs
  BY DEF OptionInv, Programmed
<1>2. CASE cells' = cells
  BY <1>1, <1>2 DEF BootInv
<1>3. CASE cells' = E
  <2> SUFFICES ASSUME ~fopt.force, NEW a \in Addrs, a < Boot
               PROVE  cells'[a] = OldByte
    BY <1>1 DEF BootInv
  <2>1. a \notin Sector(fopt.addr)
    <3> SUFFICES ASSUME a \in Sector(fopt.addr) PROVE FALSE
      OBVIOUS
    <3>1. a >= Boot
      BY <1>0, SectorBehindBoot
    <3> QED BY <1>0, <3>1
  <2>2. cells'[a] = cells[a]
    BY <1>3, <2>1
  <2> QED BY <2>2 DEF BootInv
<1>4. CASE cells' = Programmed
  <2> SUFFICES ASSUME ~fopt.force, NEW a \in Addrs, a < Boot
               PROVE  cells'[a] = OldByte
    BY <1>1 DEF BootInv
  <2>1. {i \in 0 .. fopt.len - 1 : ProgramAt(i) = a} = {}
    <3> SUFFICES ASSUME NEW i \in 0 .. fopt.len - 1, ProgramAt(i) = a PROVE FALSE
      OBVIOUS
    <3>1. i \in Nat
      BY <1>0
    <3>2. a >= Boot
      BY <1>0, <3>1, PageBehindBoot
    <3> QED BY <1>0, <3>2
  <2>2. cells'[a] = cells[a]
    BY <1>4, <2>1 DEF Programmed
  <2> QED BY <2>2 DEF BootInv
<1> QED BY <1>1, <1>2, <1>3, <1>4

\* The page program puts the message into the erased sector.
LEMMA ProgramLands ==
  ASSUME OptionInv, \A a \in Addrs : cells[a] = Wiped(a), cells' = Programmed, UNCHANGED fopt
  PROVE  Landed'
<1> SUFFICES ASSUME Fits, NEW a \in Addrs
             PROVE  Programmed[a] = IF a \in fopt.addr .. fopt.addr + fopt.len - 1
                                      THEN a - fopt.addr ELSE Wiped(a)
  BY DEF Landed, Fits, OnePage, Wiped
<1> DEFINE hits == {i \in 0 .. fopt.len - 1 : ProgramAt(i) = a}
           x == fopt.addr
           n == fopt.len
<1>0. x \in Nat /\ n \in Nat /\ a \in Nat
  BY Geometry DEF OptionInv
<1>1. Programmed[a] = IF hits = {} THEN cells[a] ELSE Message(CHOOSE i \in hits : \A j \in hits : j <= i)
  BY DEF Programmed
<1>2. \A i \in 0 .. n - 1 : ProgramAt(i) = x + i
  BY NoWrap DEF OptionInv, Fits
<1>3. hits = {i \in 0 .. n - 1 : x + i = a}
  BY <1>2
<1> HIDE DEF hits, x, n
<1>4. CASE a \in x .. x + n - 1
  <2>1. a - x \in 0 .. n - 1 /\ x + (a - x) = a
    BY <1>0, <1>4
  <2>2. hits = {a - x}
    BY <1>0, <1>3, <2>1
  <2>3. (CHOOSE i \in hits : \A j \in hits : j <= i) = a - x
    BY <1>0, <2>1, <2>2
  <2>4. Message(a - x) = a - x
    <3>1. n < MsgSize /\ MsgSize \in Nat
      BY SpiAssumption DEF Fits, n
    <3>2. a - x < MsgSize - 1
      BY <1>0, <2>1, <3>1
    <3> QED BY <3>2 DEF Message
  <2> QED BY <1>1, <1>4, <2>2, <2>3, <2>4 DEF x, n
<1>5. CASE a \notin x .. x + n - 1
  <2>1. hits = {}
    BY <1>0, <1>3, <1>5
  <2> QED BY <1>1, <1>5, <2>1 DEF x, n
<1> QED BY <1>4, <1>5

\* Every step preserves the invariant.
LEMMA FlashStep ==
  ASSUME FlashInv, [FlashNext]_flashVars
  PROVE  FlashInv'
<1> USE DEF FlashInv
<1>a. ASSUME UNCHANGED <<fopt, cells>>, fpc' \in WriteSteps => fpc \in WriteSteps
      PROVE  OptionInv' /\ BootInv'
  BY <1>a DEF OptionInv, BootInv
<1>b. ASSUME UNCHANGED <<fopt, cells>>, fpc' \in WriteSteps => fpc \in WriteSteps, fbad'
      PROVE  FlashInv'
  BY <1>a, <1>b
<1>1. CASE UNCHANGED flashVars
  <2>1. OptionInv' /\ BootInv'
    BY <1>1, Zenon DEF flashVars, OptionInv, BootInv
  <2>2. fbad' = fbad /\ (CellInv => CellInv')
    BY <1>1, Zenon DEF flashVars, CellInv, Landed, Wiped, Wrote, Fits, OnePage
  <2>3. ChipInv => ChipInv'
    BY <1>1, Zenon DEF flashVars, ChipInv, Wrote
  <2> QED BY <2>1, <2>2, <2>3
<1>2. CASE spi_start
  <2>1. UNCHANGED <<fopt, polls, wel, wip, locked, cells, got>> /\ fpc = "start"
    BY <1>2, Zenon DEF spi_start, chipVars
  <2>2. CASE fbad' = TRUE /\ fpc' \in {"dead", "stop"}
    BY <1>b, <2>1, <2>2 DEF WriteSteps
  <2>3. CASE fpc' = "opened" /\ fbad' = fbad
    <3>1. OptionInv' /\ BootInv'
      BY <1>a, <2>1, <2>3 DEF WriteSteps
    <3>2. ~fbad => CellInv' /\ ChipInv'
      BY <2>1, <2>3 DEF CellInv, ChipInv, Wrote
    <3> QED BY <2>3, <3>1, <3>2
  <2> QED BY <1>2, <2>2, <2>3 DEF spi_start
<1>3. CASE main
  <2>1. UNCHANGED <<fbad, polls, wel, wip, locked, cells, got>> /\ fpc = "opened"
    BY <1>3, Zenon DEF main, chipVars
  <2>2. /\ fopt' = IF fopt.wr /\ ~fopt.id /\ fopt.addr < Boot /\ ~fopt.force
                     THEN [fopt EXCEPT !.addr = Boot] ELSE fopt
        /\ fpc' = IF fopt.id THEN "stop" ELSE IF fopt.wr THEN "unlock_latch"
                  ELSE IF fopt.rd THEN "read" ELSE "stop"
    BY <1>3 DEF main
  <2>3. /\ DOMAIN fopt' = DOMAIN fopt /\ fopt'.addr \in Addrs /\ fopt'.len = fopt.len /\ fopt'.rlen = fopt.rlen
        /\ (fopt'.force <=> fopt.force) /\ (fopt'.wr <=> fopt.wr) /\ (fopt'.id <=> fopt.id)
        /\ fopt.wr /\ ~fopt.id /\ ~fopt.force => fopt'.addr >= Boot
    <3>1. Boot \in Nat /\ fopt.addr \in Nat /\ Boot \in Addrs
      BY Geometry, SpiAssumption DEF OptionInv
    <3> QED BY <2>2, <3>1 DEF OptionInv
  <2>4. OptionInv' /\ BootInv'
    BY <2>1, <2>2, <2>3 DEF OptionInv, BootInv, WriteSteps
  <2>5. ~fbad => CellInv' /\ ChipInv'
    BY <2>1, <2>2, <2>3 DEF CellInv, ChipInv, Wrote
  <2> QED BY <2>1, <2>4, <2>5
<1>4. CASE Dead
  <2>1. UNCHANGED <<fopt, cells, fbad>> /\ fpc = "dead" /\ fpc' = "stop"
    BY <1>4, Zenon DEF Dead, chipVars
  <2>2. fbad
    BY <2>1 DEF ChipInv
  <2> QED BY <1>b, <2>1, <2>2 DEF WriteSteps
<1>5. ASSUME NEW at, NEW next, at \in WriteSteps, fpc = at, UNCHANGED <<fopt, polls, got>>,
             fbad' = TRUE, fpc' = AfterWrite, UNCHANGED chipVars
      PROVE  FlashInv'
  <2>1. UNCHANGED <<fopt, cells>> /\ fpc' \in {"read", "stop"}
    BY <1>5 DEF chipVars, AfterWrite
  <2> QED BY <1>5, <1>b, <2>1 DEF WriteSteps
<1>6. ASSUME NEW at, NEW next, enable_write_latch(at, next),
             <<at, next>> \in {<<"unlock_latch", "unlock">>, <<"erase_latch", "erase">>,
                               <<"write_latch", "write">>, <<"lock_latch", "lock">>}
      PROVE  FlashInv'
  <2>1. CASE fpc = at /\ fpc' = next /\ WriteEnable /\ UNCHANGED <<fopt, polls, got, fbad>>
    <3>1. OptionInv' /\ BootInv'
      BY <1>a, <1>6, <2>1 DEF WriteEnable, WriteSteps
    <3>2. ~fbad => CellInv' /\ ChipInv'
      <4>1. wel' = (wel \/ ~wip) /\ UNCHANGED <<wip, locked, cells, fopt, got>>
        BY <2>1 DEF WriteEnable
      <4>2. ~fbad => CellInv'
        BY <1>6, <2>1, <4>1 DEF CellInv, Landed, Wiped, Wrote, Fits, OnePage
      <4>3. ~fbad => ChipInv'
        BY <1>6, <2>1, <4>1 DEF ChipInv, Wrote
      <4> QED BY <4>2, <4>3
    <3> QED BY <2>1, <3>1, <3>2
  <2>2. at \in WriteSteps
    BY <1>6 DEF WriteSteps
  <2> QED BY <1>5, <1>6, <2>1, <2>2, Zenon DEF enable_write_latch, Transfer
<1>7. ASSUME NEW at, NEW next, NEW l \in BOOLEAN, Transfer(at, next, GlobalLock(l)),
             \/ at = "unlock" /\ next = "erase_latch" /\ l = FALSE
             \/ at = "lock" /\ next = AfterWrite /\ l = TRUE
      PROVE  FlashInv'
  <2>0. at \in WriteSteps
    BY <1>7, Zenon DEF WriteSteps
  <2>1. CASE fpc = at /\ fpc' = next /\ GlobalLock(l) /\ UNCHANGED <<fopt, polls, got, fbad>>
    <3>0. UNCHANGED <<wip, cells, fopt, got, fbad>>
      BY <2>1, Zenon DEF GlobalLock
    <3>1. fpc' \in {"erase_latch", "read", "stop"} /\ fpc \in {"unlock", "lock"}
      BY <1>7, <2>1, Zenon DEF AfterWrite
    <3>2. OptionInv' /\ BootInv'
      BY <1>a, <3>0, <3>1 DEF WriteSteps
    <3>3. CASE at = "unlock"
      <4>1. fpc = "unlock" /\ fpc' = "erase_latch" /\ l = FALSE
        BY <1>7, <2>1, <3>3
      <4>2. ~fbad => wel /\ ~wip
        BY <4>1 DEF ChipInv
      <4>3. ~fbad => ~locked'
        BY <2>1, <4>1, <4>2 DEF GlobalLock
      <4>4. ~fbad => CellInv'
        BY <3>0, <4>1 DEF CellInv, Wrote
      <4>5. ~fbad => ChipInv'
        BY <3>0, <4>1, <4>2, <4>3 DEF ChipInv, Wrote
      <4> QED BY <3>0, <3>2, <4>4, <4>5
    <3>4. CASE at = "lock"
      <4>1. fpc = "lock" /\ fpc' = AfterWrite /\ l = TRUE
        BY <1>7, <2>1, <3>4
      <4>2. ~fbad => wel /\ ~wip
        BY <4>1 DEF ChipInv
      <4>3. ~fbad => locked'
        BY <2>1, <4>1, <4>2 DEF GlobalLock
      <4>4. fpc' \in {"read", "stop"} /\ (fpc' = "stop" => ~fopt.rd)
        BY <4>1 DEF AfterWrite
      <4>5. ~fbad => CellInv'
        BY <3>0, <4>1, <4>4 DEF CellInv, Wrote, Landed, Wiped, Fits, OnePage
      <4>6. ~fbad => ChipInv'
        BY <3>0, <4>2, <4>3, <4>4 DEF ChipInv, Wrote
      <4> QED BY <3>0, <3>2, <4>5, <4>6
    <3> QED BY <1>7, <3>3, <3>4
  <2> QED BY <1>5, <1>7, <2>0, <2>1, Zenon DEF Transfer
<1>8. ASSUME Transfer("erase", "erase_wait",
                      Alter([a \in Addrs |-> IF a \in Sector(fopt.addr) THEN Erased ELSE cells[a]]))
      PROVE  FlashInv'
  <2> DEFINE E == [a \in Addrs |-> IF a \in Sector(fopt.addr) THEN Erased ELSE cells[a]]
  <2>0. "erase" \in WriteSteps
    BY DEF WriteSteps
  <2>1. CASE fpc = "erase" /\ fpc' = "erase_wait" /\ Alter(E) /\ UNCHANGED <<fopt, polls, got, fbad>>
    <3>1. (cells' = cells \/ cells' = E) /\ UNCHANGED <<locked, fopt, got, fbad>>
      BY <2>1 DEF Alter
    <3>2. fopt.wr /\ ~fopt.id /\ (~fopt.force => fopt.addr >= Boot)
      BY <2>1 DEF OptionInv, WriteSteps
    <3>3. BootInv' /\ DOMAIN cells' = Addrs
      BY <3>1, <3>2, BootKept
    <3>4. OptionInv'
      BY <3>1, <3>2, <3>3 DEF OptionInv
    <3>5. ASSUME ~fbad
          PROVE  CellInv' /\ ChipInv'
      <4>1. wel /\ ~wip /\ ~locked
        BY <2>1, <3>5 DEF ChipInv
      <4>2. cells' = E
        BY <2>1, <4>1 DEF Alter, Accepts
      <4>3. \A a \in Addrs : cells[a] = OldByte
        BY <2>1, <3>5 DEF CellInv
      <4>4. \A a \in Addrs : cells'[a] = Wiped(a)
        BY <4>2, <4>3 DEF Wiped
      <4>5. CellInv'
        BY <2>1, <3>1, <4>4 DEF CellInv, Wrote, Wiped
      <4>6. ChipInv'
        BY <2>1, <3>1, <4>1 DEF ChipInv, Wrote
      <4> QED BY <4>5, <4>6
    <3> QED BY <3>1, <3>3, <3>4, <3>5
  <2> QED BY <1>5, <1>8, <2>0, <2>1, Zenon DEF Transfer
<1>9. CASE PageProgram
  <2>0. fpc = "write" /\ UNCHANGED <<fopt, got>>
    BY <1>9 DEF PageProgram
  <2>1. CASE fbad' = TRUE /\ UNCHANGED chipVars
    BY <1>b, <2>0, <2>1 DEF chipVars, WriteSteps
  <2>2. CASE Alter(Programmed) /\ fpc' = "write_wait" /\ fbad' = fbad
    <3>1. (cells' = cells \/ cells' = Programmed) /\ UNCHANGED <<locked, fopt, got, fbad>>
      BY <2>0, <2>2 DEF Alter
    <3>2. fopt.wr /\ ~fopt.id /\ (~fopt.force => fopt.addr >= Boot)
      BY <2>0 DEF OptionInv, WriteSteps
    <3>3. BootInv' /\ DOMAIN cells' = Addrs
      BY <3>1, <3>2, BootKept
    <3>4. OptionInv'
      BY <3>1, <3>2, <3>3 DEF OptionInv
    <3>5. ASSUME ~fbad
          PROVE  CellInv' /\ ChipInv'
      <4>1. wel /\ ~wip /\ ~locked
        BY <2>0, <3>5 DEF ChipInv
      <4>2. cells' = Programmed
        BY <2>2, <4>1 DEF Alter, Accepts
      <4>3. \A a \in Addrs : cells[a] = Wiped(a)
        BY <2>0, <3>5 DEF CellInv
      <4>4. Landed'
        BY <3>1, <4>2, <4>3, ProgramLands
      <4>5. CellInv'
        BY <2>2, <4>4 DEF CellInv, Wrote
      <4>6. ChipInv'
        BY <2>2, <3>1, <4>1 DEF ChipInv, Wrote
      <4> QED BY <4>5, <4>6
    <3> QED BY <3>1, <3>3, <3>4, <3>5
  <2> QED BY <1>9, <2>1, <2>2 DEF PageProgram
<1>10. CASE wait_busy
  <2> DEFINE next == IF fpc = "erase_wait" THEN "write_latch" ELSE "lock_latch"
  <2>0. fpc \in {"erase_wait", "write_wait"} /\ UNCHANGED <<fopt, wel, wip, locked, cells, got>>
    BY <1>10 DEF wait_busy, chipVars
  <2>1. OptionInv' /\ BootInv'
    BY <1>a, <2>0 DEF WriteSteps
  <2>2. CASE ~wip /\ fpc' = next /\ fbad' = fbad
    <3>1. ~fbad => CellInv'
      BY <2>0, <2>2 DEF CellInv, Wrote, Landed, Wiped, Fits, OnePage
    <3>2. ~fbad => ChipInv'
      BY <2>0, <2>2 DEF ChipInv, Wrote
    <3> QED BY <2>1, <2>2, <3>1, <3>2
  <2>3. CASE UNCHANGED <<fpc, fbad>>
    <3>1. ~fbad => CellInv'
      BY <2>0, <2>3 DEF CellInv, Wrote, Landed, Wiped, Fits, OnePage
    <3>2. ~fbad => ChipInv'
      BY <2>0, <2>3 DEF ChipInv, Wrote
    <3> QED BY <2>1, <2>3, <3>1, <3>2
  <2>4. CASE fbad' = TRUE
    BY <2>1, <2>4
  <2> QED BY <1>10, <2>2, <2>3, <2>4 DEF wait_busy
<1>11. CASE spi_flash_read
  <2>0. fpc = "read" /\ fpc' = "stop" /\ UNCHANGED <<fopt, fbad, wel, wip, locked, cells>>
    BY <1>11 DEF spi_flash_read, chipVars
  <2>1. OptionInv' /\ BootInv'
    BY <1>a, <2>0 DEF WriteSteps
  <2>2. ASSUME ~fbad
        PROVE  CellInv' /\ ChipInv'
    <3>1. ChipInv'
      BY <2>0, <2>2 DEF ChipInv, Wrote
    <3>2. ~wip
      BY <2>0, <2>2 DEF ChipInv
    <3>3. ASSUME fopt.wr, ~fopt.id, Fits, NEW i \in DOMAIN got', i < fopt.len
          PROVE  got'[i] = i
      <4>1. got' = [j \in 0 .. fopt.rlen - 1 |->
                      IF fopt.addr + j \in Addrs /\ ~wip THEN cells[fopt.addr + j] ELSE OldByte]
        BY <1>11 DEF spi_flash_read
      <4>2. i \in 0 .. fopt.rlen - 1 /\ i \in 0 .. fopt.len - 1
        BY <3>3, <4>1 DEF OptionInv
      <4>3. fopt.addr + i \in Addrs
        BY <3>3, <4>2, NoWrap DEF OptionInv, Fits
      <4>4. got'[i] = cells[fopt.addr + i]
        BY <3>2, <4>1, <4>2, <4>3
      <4>5. Landed
        BY <2>0, <2>2, <3>3 DEF CellInv, Wrote
      <4>6. /\ fopt.addr \in Nat /\ fopt.len \in Nat
            /\ fopt.addr + i \in fopt.addr .. fopt.addr + fopt.len - 1
            /\ (fopt.addr + i) - fopt.addr = i
        <5>1. fopt.addr \in Nat /\ fopt.len \in Nat
          BY Geometry DEF OptionInv
        <5> QED BY <4>2, <5>1
      <4> QED BY <3>3, <4>3, <4>4, <4>5, <4>6 DEF Landed
    <3>4. CellInv'
      BY <2>0, <2>2, <3>3 DEF CellInv, Wrote, Landed, Wiped, Fits, OnePage
    <3> QED BY <3>1, <3>4
  <2> QED BY <2>0, <2>1, <2>2
<1>12. CASE FlashReady
  <2>0. wip' = FALSE /\ UNCHANGED <<fpc, fopt, fbad, wel, locked, cells, got>>
    BY <1>12 DEF FlashReady
  <2>1. OptionInv' /\ BootInv'
    BY <1>a, <2>0
  <2>2. ~fbad => CellInv'
    BY <2>0 DEF CellInv, Wrote, Landed, Wiped, Fits, OnePage
  <2>3. ~fbad => ChipInv'
    BY <2>0 DEF ChipInv, Wrote
  <2> QED BY <2>0, <2>1, <2>2, <2>3
<1>13. CASE spi_flash_write
  <2>1. CASE global_unlock
    BY <1>6, <1>7, <2>1, Zenon DEF global_unlock
  <2>2. CASE sector_erase
    BY <1>6, <1>8, <2>2, Zenon DEF sector_erase
  <2>3. CASE enable_write_latch("write_latch", "write")
    BY <1>6, <2>3, Zenon
  <2>4. CASE global_lock
    BY <1>6, <1>7, <2>4, Zenon DEF global_lock
  <2> QED BY <1>9, <1>10, <1>13, <2>1, <2>2, <2>3, <2>4, Zenon DEF spi_flash_write
<1> QED BY <1>1, <1>2, <1>3, <1>4, <1>11, <1>12, <1>13, Zenon DEF FlashNext

\* For every geometry of the flash, message and position, and every failure of a transfer: a
\* write that reports no failure leaves the message at its address, the rest of the sector
\* erased, the rest of the flash as it was and the array locked, a read after it prints the
\* message, and without -f the boot loader is never changed, whatever fails.
THEOREM WritesLand == FlashSpec => []WriteLands
<1>1. FlashInit => FlashInv
  <2> SUFFICES ASSUME FlashInit PROVE FlashInv
    OBVIOUS
  <2>1. OptionInv
    <3>1. /\ fopt \in [id : BOOLEAN, wr : BOOLEAN, rd : BOOLEAN, force : BOOLEAN, addr : Addrs,
                       len : 0 .. MaxMsg, rlen : ReadLens]
          /\ fpc = "start" /\ DOMAIN cells = Addrs
      BY DEF FlashInit, Options
    <3>2. DOMAIN fopt = {"id", "wr", "rd", "force", "addr", "len", "rlen"}
      BY <3>1
    <3>3. fopt.addr \in Addrs /\ fopt.len \in 0 .. MaxMsg /\ fopt.rlen \in ReadLens
      BY <3>1
    <3>4. fopt.len \in Nat /\ fopt.rlen \in Nat
      <4>1. MaxMsg \in Nat /\ ReadLens \subseteq Nat
        BY SpiAssumption, Zenon
      <4>2. fopt.len \in Nat
        BY <3>3, <4>1
      <4> QED BY <3>3, <4>1, <4>2
    <3>5. fpc \notin WriteSteps
      BY <3>1 DEF WriteSteps
    <3> QED BY <3>1, <3>2, <3>3, <3>4, <3>5, Zenon DEF OptionInv
  <2>2. BootInv /\ CellInv /\ ChipInv
    BY DEF FlashInit, BootInv, CellInv, ChipInv, Wrote
  <2> QED BY <2>1, <2>2 DEF FlashInv
<1>2. FlashInv /\ [FlashNext]_flashVars => FlashInv'
  BY FlashStep
<1>3. FlashInv => WriteLands
  BY DEF FlashInv, BootInv, CellInv, ChipInv, Wrote, Landed, Wiped, WriteLands
<1> QED BY <1>1, <1>2, <1>3, PTL DEF FlashSpec

(***************************************************************************)
(* CRay: the scanlines.                                                    *)
(***************************************************************************)
Made(t) == tpc[t] # "none"
Covers(t, l) == band[t].first <= l /\ l < band[t].first + band[t].count
Did(t, l) == band[t].first <= l /\ l < band[t].first + tline[t]

RayTypes ==
  /\ yres \in 0 .. MaxLines /\ thread_num \in 0 .. MaxThreads /\ sl \in 0 .. yres
  /\ DOMAIN rendered = 0 .. MaxLines - 1 /\ DOMAIN tpc = RayThreads
  /\ DOMAIN tline = RayThreads /\ DOMAIN band = RayThreads
  /\ \A t \in RayThreads :
       /\ DOMAIN band[t] = {"first", "count"} /\ band[t].first \in Nat /\ band[t].count \in Nat
       /\ tline[t] \in Nat

ModeInv ==
  /\ rmode \in {"f", "mt"}
  /\ rpc \notin {"load", "corrupt"} => thread_num <= yres
  /\ rmode = "mt" /\ rpc # "corrupt" => thread_num >= 1
  /\ rmode = "f" => rpc \in {"load", "corrupt", "render", "written"}
  /\ rmode = "mt" => rpc # "render"
  /\ rmode = "f" \/ rpc \in {"load", "corrupt"} => \A t \in RayThreads : ~Made(t)
  /\ start <=> rpc \in {"join", "written"} /\ rmode = "mt"

\* Threads are created in order, and the bands of those created follow one another without
\* overlapping, up to sl; from the start on up to the end of the image.
BandInv ==
  /\ \A t \in RayThreads : Made(t) => t <= thread_num /\ \A u \in 1 .. t - 1 : Made(u)
  /\ \A t, u \in RayThreads :
       Made(t) /\ Made(u) /\ t < u => band[t].first + band[t].count <= band[u].first
  /\ \A t \in RayThreads :
       Made(t) => band[t].first + band[t].count <= (IF start THEN yres ELSE sl)

\* They leave no gap.
ShareInv ==
  /\ rmode = "mt" /\ ~start =>
       /\ (\A t \in RayThreads : ~Made(t)) => sl = 0
       /\ \A t \in RayThreads : Made(t) /\ (\A u \in RayThreads : u > t => ~Made(u)) =>
            sl \in Sums(t) /\ sl = band[t].first + band[t].count
       /\ \A l \in 0 .. sl - 1 : \E t \in RayThreads : Made(t) /\ Covers(t, l)
  /\ start => \A l \in 0 .. yres - 1 : \E t \in 1 .. thread_num : Covers(t, l)

\* A scanline has been rendered once if its thread has come past it, and not otherwise.
DrawInv ==
  /\ \A t \in RayThreads :
       /\ tline[t] <= band[t].count /\ (tline[t] > 0 => Made(t))
       /\ tpc[t] = "joined" => tline[t] = band[t].count
       /\ ~start => tline[t] = 0 /\ tpc[t] \notin {"run", "joined"}
  /\ rmode = "mt" => \A l \in 0 .. MaxLines - 1 :
       rendered[l] = IF \E t \in RayThreads : Did(t, l) THEN 1 ELSE 0
  /\ rmode = "mt" /\ rpc = "written" => \A t \in 1 .. thread_num : tpc[t] = "joined"
  /\ rmode = "f" =>
       /\ \A l \in 0 .. MaxLines - 1 : rendered[l] = IF l < sl THEN 1 ELSE 0
       /\ rpc \notin {"render", "written"} => sl = 0
       /\ rpc = "written" => sl = yres

RayInv == RayTypes /\ ModeInv /\ BandInv /\ ShareInv /\ DrawInv

\* A band limit: the whole number of scanlines in i of n equal parts of y.
LEMMA PartLemma ==
  ASSUME NEW y \in Nat, NEW n \in Nat \ {0}, n <= y, NEW i \in Nat
  PROVE  /\ (i * y) \div n \in Nat
         /\ (i * y) \div n + 1 <= ((i + 1) * y) \div n
         /\ i <= n => (i * y) \div n <= y
<1> DEFINE x == i * y
           z == (i + 1) * y
           e == x \div n
           f == z \div n
<1>1. x \in Nat /\ z = x + y /\ z \in Nat
  OBVIOUS
<1>z. x \in Int /\ z \in Int
  BY <1>1
<1> HIDE DEF x, z
<1>2. e \in Int /\ x % n \in 0 .. n-1 /\ x = n * e + (x % n)
  BY <1>z, DivMod
<1>3. f \in Int /\ z % n \in 0 .. n-1 /\ z = n * f + (z % n)
  BY <1>z, DivMod
<1> HIDE DEF e, f
<1>4. n * e \in Int /\ n * f \in Int /\ n * (e + 1) = n * e + n /\ n * (f + 1) = n * f + n
  BY <1>2, <1>3
<1>5. e >= 0
  <2>1. n * 0 < n * (e + 1)
    BY <1>1, <1>2, <1>4
  <2>2. 0 < e + 1
    BY <1>2, <2>1, FactorOrder
  <2> QED BY <1>2, <2>2
<1>6. e + 1 <= f
  <2>1. n * (e + 1) < n * (f + 1)
    BY <1>1, <1>2, <1>3, <1>4
  <2>2. e + 1 < f + 1
    BY <1>2, <1>3, <2>1, FactorOrder
  <2> QED BY <1>2, <1>3, <2>2
<1>7. ASSUME i <= n PROVE e <= y
  <2> DEFINE d == n - i
  <2>1. d \in Nat /\ n * y = x + d * y
    BY <1>7 DEF x
  <2> HIDE DEF d
  <2>2. d * y \in Nat /\ n * y \in Nat /\ n * (y + 1) = n * y + n
    BY <2>1
  <2>3. n * e < n * (y + 1)
    BY <1>1, <1>2, <1>4, <2>1, <2>2
  <2>4. e < y + 1
    BY <1>2, <2>3, FactorOrder
  <2> QED BY <1>2, <2>4
<1>8. e \in Nat
  BY <1>2, <1>5
<1> QED BY <1>6, <1>7, <1>8 DEF e, f, x, z

\* The limits as main rounds them grow, and stay in the image.
LEMMA SumsLemma ==
  ASSUME yres \in Nat, thread_num \in Nat \ {0}, thread_num <= yres,
         NEW i \in Nat, i < thread_num, NEW x \in Sums(i), NEW s \in Sums(i + 1)
  PROVE  s \in Nat /\ x \in Nat /\ x <= s /\ s <= yres
<1> DEFINE e == (i * yres) \div thread_num
           f == ((i + 1) * yres) \div thread_num
<1>1. e \in Nat /\ e + 1 <= f
  BY PartLemma
<1>2. f \in Nat /\ f <= yres
  <2>1. i + 1 \in Nat /\ i + 1 <= thread_num
    OBVIOUS
  <2> QED BY <2>1, PartLemma
<1>3. x \in {e, e - 1} /\ (i = 0 => x = e)
  BY DEF Sums
<1>4. s \in {f, f - 1}
  BY DEF Sums
<1>5. i > 0 => e \in Nat \ {0}
  <2> SUFFICES ASSUME i > 0 PROVE e >= 1
    BY <1>1
  <2> DEFINE j == i - 1
             g == (j * yres) \div thread_num
             h == ((j + 1) * yres) \div thread_num
  <2>1. j \in Nat /\ j + 1 = i
    OBVIOUS
  <2>2. g \in Nat /\ g + 1 <= h
    BY <2>1, PartLemma
  <2>3. h = e
    BY <2>1
  <2> HIDE DEF g, h, e, j
  <2> QED BY <1>1, <2>2, <2>3
<1> HIDE DEF e, f
<1> QED BY <1>1, <1>2, <1>3, <1>4, <1>5

\* The steps that no thread takes part in: reading the scene, and rendering on the main thread.
LEMMA RayAlone ==
  ASSUME RayInv, load_scene \/ Loaded \/ render
  PROVE  RayInv'
<1> USE CRayAssumption DEF RayThreads
<1>1. CASE load_scene
  <2>1. rpc = "load" /\ rpc' \in {"load", "corrupt"}
    BY <1>1 DEF load_scene, SceneLine
  <2>2. /\ UNCHANGED <<rmode, yres, thread_num, band, sl, tpc, tline, rendered>>
        /\ start' = start
    BY <1>1 DEF load_scene, threadVars
  <2>3. RayTypes' /\ ModeInv'
    BY <2>1, <2>2 DEF RayInv, RayTypes, ModeInv, Made
  <2>4. BandInv' /\ DrawInv'
    BY <2>1, <2>2 DEF RayInv, ModeInv, BandInv, DrawInv, Made, Did
  <2>5. ShareInv'
    BY <2>1, <2>2 DEF RayInv, ShareInv, Made, Covers, Sums
  <2> QED BY <2>3, <2>4, <2>5 DEF RayInv
<1>2. CASE Loaded
  <2>1. /\ rpc = "load"
        /\ rpc' = IF rmode = "f" THEN "render" ELSE IF yres = 0 THEN "corrupt" ELSE "spawn"
        /\ UNCHANGED <<rmode, yres, band, sl, tpc, tline, rendered>> /\ start' = start
        /\ thread_num' = (IF thread_num > yres THEN yres ELSE thread_num)
    BY <1>2 DEF Loaded, threadVars
  <2>2. /\ thread_num' \in 0 .. MaxThreads /\ thread_num' <= yres
        /\ rmode = "mt" /\ rpc' # "corrupt" => thread_num' >= 1
    BY <2>1 DEF RayInv, RayTypes, ModeInv
  <2>3. ~start /\ \A t \in RayThreads : ~Made(t) /\ ~(Made(t)')
    BY <2>1 DEF RayInv, ModeInv, Made
  <2>4. sl = 0
    BY <2>1, <2>3 DEF RayInv, ModeInv, ShareInv, DrawInv
  <2>5. RayTypes' /\ ModeInv'
    BY <2>1, <2>2, <2>3 DEF RayInv, RayTypes, ModeInv, Made
  <2>6. BandInv' /\ ShareInv'
    BY <2>1, <2>3, <2>4 DEF BandInv, ShareInv
  <2>7. DrawInv'
    BY <2>1, <2>3, <2>4 DEF RayInv, ModeInv, DrawInv, Made, Did
  <2> QED BY <2>5, <2>6, <2>7 DEF RayInv
<1>3. CASE render
  <2>1. /\ rpc = "render" /\ UNCHANGED <<rmode, yres, thread_num, band, tpc, tline>>
        /\ start' = start
    BY <1>3 DEF render
  <2>2. rmode = "f" /\ ~start /\ \A t \in RayThreads : ~Made(t) /\ ~(Made(t)')
    BY <2>1 DEF RayInv, ModeInv, Made
  <2>3. \/ sl < yres /\ rendered' = [rendered EXCEPT ![sl] = @ + 1] /\ sl' = sl + 1 /\ rpc' = rpc
        \/ sl = yres /\ rpc' = "written" /\ sl' = sl /\ rendered' = rendered
    BY <1>3 DEF render, render_scanline
  <2>4. RayTypes'
    BY <2>1, <2>3 DEF RayInv, RayTypes
  <2>5. ModeInv'
    BY <2>1, <2>2, <2>3 DEF RayInv, ModeInv
  <2>6. BandInv' /\ ShareInv'
    BY <2>1, <2>2 DEF BandInv, ShareInv
  <2>a. \A l \in 0 .. MaxLines - 1 : rendered[l] = IF l < sl THEN 1 ELSE 0
    BY <2>2 DEF RayInv, DrawInv
  <2>b. DOMAIN rendered = 0 .. MaxLines - 1 /\ sl \in Nat /\ MaxLines \in Nat
    BY DEF RayInv, RayTypes
  <2>7. \A l \in 0 .. MaxLines - 1 : rendered'[l] = IF l < sl' THEN 1 ELSE 0
    <3>1. CASE rendered' = [rendered EXCEPT ![sl] = @ + 1] /\ sl' = sl + 1
      <4> SUFFICES ASSUME NEW l \in 0 .. MaxLines - 1
                   PROVE  rendered'[l] = IF l < sl + 1 THEN 1 ELSE 0
        BY <3>1
      <4>1. CASE l = sl
        BY <4>1, <3>1, <2>a, <2>b
      <4>2. CASE l # sl
        <5>1. rendered'[l] = rendered[l]
          BY <4>2, <3>1, <2>b
        <5>2. l < sl + 1 <=> l < sl
          BY <4>2, <2>b
        <5> QED BY <5>1, <5>2, <2>a
      <4> QED BY <4>1, <4>2
    <3>2. CASE sl' = sl /\ rendered' = rendered
      BY <3>2, <2>a
    <3> QED BY <3>1, <3>2, <2>3
  <2>8. rpc' = "written" => sl' = yres'
    BY <2>1, <2>3
  <2>9. \A t \in RayThreads :
          /\ tline[t] <= band[t].count /\ (tline[t] > 0 => Made(t))
          /\ tpc[t] = "joined" => tline[t] = band[t].count
          /\ tline[t] = 0 /\ tpc[t] \notin {"run", "joined"}
    BY <2>2 DEF RayInv, DrawInv
  <2>10. DrawInv'
    BY <2>1, <2>2, <2>3, <2>7, <2>8, <2>9 DEF DrawInv, Made
  <2> QED BY <2>4, <2>5, <2>6, <2>10 DEF RayInv
<1> QED BY <1>1, <1>2, <1>3

\* A thread is created: its band starts where the one before it ends.
LEMMA RaySpawn ==
  ASSUME RayInv, NEW t \in RayThreads, Spawn(t)
  PROVE  RayInv'
<1> USE CRayAssumption DEF RayThreads
<1>1. /\ rpc = "spawn" /\ t <= thread_num /\ ~Made(t) /\ \A u \in 1 .. t - 1 : Made(u)
      /\ UNCHANGED <<rmode, yres, thread_num, tline, rendered>> /\ start' = start
  BY DEF Spawn, Made
<1>2. rmode = "mt" /\ ~start /\ thread_num <= yres
  BY <1>1 DEF RayInv, ModeInv
<1>3. t \in Nat /\ t > 0 /\ yres \in Nat /\ thread_num \in Nat /\ thread_num > 0 /\ sl \in Nat
  BY <1>1, <1>2 DEF RayInv, RayTypes, ModeInv
<1>4. CASE rpc' = "failed" /\ UNCHANGED <<band, sl, tpc>>
  <2>1. RayTypes' /\ ModeInv'
    BY <1>1, <1>2, <1>4 DEF RayInv, RayTypes, ModeInv, Made
  <2>2. BandInv'
    BY <1>1, <1>4 DEF RayInv, BandInv, Made
  <2>3. DrawInv'
    BY <1>1, <1>2, <1>4 DEF RayInv, DrawInv, Made, Did
  <2>4. ShareInv'
    BY <1>1, <1>4 DEF RayInv, ShareInv, Made, Covers, Sums
  <2> QED BY <2>1, <2>2, <2>3, <2>4 DEF RayInv
<1>5. ASSUME NEW s \in Sums(t), sl' = s,
             band' = [band EXCEPT ![t] = [first |-> sl, count |-> s - sl]],
             tpc' = [tpc EXCEPT ![t] = "new"], rpc' = rpc
      PROVE  RayInv'
  <2>1. \A u \in RayThreads : u > t => ~Made(u)
    BY <1>1, <1>3 DEF RayInv, BandInv
  <2>2. sl \in Sums(t - 1)
    <3>1. CASE t = 1
      <4>1. sl = 0
        BY <1>1, <1>2, <2>1, <3>1 DEF RayInv, ShareInv
      <4>2. (0 * yres) \div thread_num = 0
        BY <1>3
      <4> QED BY <4>1, <4>2, <3>1 DEF Sums
    <3>2. CASE t > 1
      <4>1. t - 1 \in RayThreads /\ Made(t - 1)
        BY <1>1, <1>3, <3>2
      <4>2. \A u \in RayThreads : u > t - 1 => ~Made(u)
        BY <1>1, <1>3, <2>1
      <4> QED BY <1>2, <4>1, <4>2 DEF RayInv, ShareInv
    <3> QED BY <1>3, <3>1, <3>2
  <2>3. s \in Nat /\ sl <= s /\ s <= yres
    <3> DEFINE i == t - 1
    <3>1. i \in Nat /\ i < thread_num /\ i + 1 = t
      BY <1>1, <1>3
    <3>2. sl \in Sums(i) /\ s \in Sums(i + 1)
      BY <2>2, <3>1, <1>5
    <3> HIDE DEF i
    <3> QED BY <3>1, <3>2, <1>2, <1>3, SumsLemma
  <2>4. DOMAIN band = RayThreads /\ DOMAIN tpc = RayThreads
    BY DEF RayInv, RayTypes
  <2>5. band'[t].first = sl /\ band'[t].count = s - sl /\ DOMAIN band'[t] = {"first", "count"}
    BY <1>5, <2>4
  <2>6. \A u \in RayThreads : u # t => band'[u] = band[u] /\ tpc'[u] = tpc[u]
    BY <1>5, <2>4
  <2>7. \A u \in RayThreads : Made(u)' <=> Made(u) \/ u = t
    BY <1>5, <2>4 DEF Made
  <2>8. RayTypes'
    <3>1. /\ DOMAIN rendered' = 0 .. MaxLines - 1 /\ DOMAIN tpc' = RayThreads
          /\ DOMAIN tline' = RayThreads /\ DOMAIN band' = RayThreads
      BY <1>1, <1>5, <2>4 DEF RayInv, RayTypes
    <3>2. yres' \in 0 .. MaxLines /\ thread_num' \in 0 .. MaxThreads /\ sl' \in 0 .. yres'
      BY <1>1, <1>5, <2>3 DEF RayInv, RayTypes
    <3>3. ASSUME NEW u \in RayThreads
          PROVE  /\ DOMAIN band'[u] = {"first", "count"} /\ band'[u].first \in Nat
                 /\ band'[u].count \in Nat /\ tline'[u] \in Nat
      <4>0. /\ DOMAIN band[u] = {"first", "count"} /\ band[u].first \in Nat
            /\ band[u].count \in Nat /\ tline[u] \in Nat
        BY DEF RayInv, RayTypes
      <4>1. CASE u = t
        <5>1. s - sl \in Nat
          BY <1>3, <2>3
        <5> QED BY <1>1, <1>3, <2>5, <4>0, <4>1, <5>1
      <4>2. CASE u # t
        BY <1>1, <2>6, <4>0, <4>2
      <4> QED BY <4>1, <4>2
    <3> QED BY <3>1, <3>2, <3>3 DEF RayTypes
  <2>9. ModeInv'
    BY <1>1, <1>2, <1>5 DEF RayInv, ModeInv
  <2>10. BandInv'
    <3>1. \A u \in RayThreads :
            Made(u)' => u <= thread_num /\ \A v \in 1 .. u - 1 : Made(v)'
      <4> SUFFICES ASSUME NEW u \in RayThreads, Made(u)'
                   PROVE  u <= thread_num /\ \A v \in 1 .. u - 1 : Made(v)'
        OBVIOUS
      <4>1. u <= thread_num /\ \A v \in 1 .. u - 1 : Made(v)
        BY <1>1, <2>7 DEF RayInv, BandInv
      <4>2. \A v \in 1 .. u - 1 : v \in RayThreads
        OBVIOUS
      <4> QED BY <2>7, <4>1, <4>2
    <3>2. \A u \in RayThreads : Made(u)' => band'[u].first + band'[u].count <= s
      <4> SUFFICES ASSUME NEW u \in RayThreads, Made(u)'
                   PROVE  band'[u].first + band'[u].count <= s
        OBVIOUS
      <4>1. CASE u = t
        BY <1>3, <2>3, <2>5, <4>1
      <4>2. CASE u # t
        <5>1. band[u].first + band[u].count <= sl
          BY <1>2, <2>7, <4>2 DEF RayInv, BandInv
        <5>2. band[u].first \in Nat /\ band[u].count \in Nat
          BY DEF RayInv, RayTypes
        <5> QED BY <1>3, <2>3, <2>6, <4>2, <5>1, <5>2
      <4> QED BY <4>1, <4>2
    <3>3. ASSUME NEW u \in RayThreads, NEW v \in RayThreads, Made(u)', Made(v)', u < v
          PROVE  band'[u].first + band'[u].count <= band'[v].first
      <4>1. u # t
        BY <1>3, <2>1, <2>7, <3>3
      <4>2. CASE v = t
        <5>1. band[u].first + band[u].count <= sl
          BY <1>2, <2>7, <4>1, <3>3 DEF RayInv, BandInv
        <5> QED BY <2>5, <2>6, <4>1, <4>2, <5>1
      <4>3. CASE v # t
        BY <2>6, <2>7, <3>3, <4>1, <4>3 DEF RayInv, BandInv
      <4> QED BY <4>2, <4>3
    <3> QED BY <1>1, <1>2, <1>5, <3>1, <3>2, <3>3 DEF BandInv
  <2>11. ShareInv'
    <3>1. ~(\A u \in RayThreads : ~(Made(u)'))
      BY <2>7
    <3>2. \A u \in RayThreads : Made(u)' /\ (\A v \in RayThreads : v > u => ~(Made(v)')) => u = t
      BY <1>3, <2>1, <2>7
    <3>3. s \in Sums(t)'
      BY <1>1, <1>5 DEF Sums
    <3>4. s = band'[t].first + band'[t].count
      BY <1>3, <2>3, <2>5
    <3>5. ASSUME NEW l \in 0 .. s - 1
          PROVE  \E u \in RayThreads : Made(u)' /\ Covers(u, l)'
      <4>1. CASE l < sl
        <5>1. PICK u \in RayThreads : Made(u) /\ Covers(u, l)
          BY <1>2, <1>3, <4>1 DEF RayInv, ShareInv
        <5>2. u # t
          BY <1>1, <5>1
        <5> QED BY <2>6, <2>7, <5>1, <5>2 DEF Covers
      <4>2. CASE l >= sl
        <5>1. Covers(t, l)'
          BY <1>3, <2>3, <2>5, <4>2 DEF Covers
        <5> QED BY <2>7, <5>1
      <4> QED BY <1>3, <4>1, <4>2
    <3>6. \A u \in RayThreads : Made(u)' /\ (\A v \in RayThreads : v > u => ~(Made(v)')) =>
            s \in Sums(u)' /\ s = band'[u].first + band'[u].count
      BY <3>2, <3>3, <3>4
    <3> QED BY <1>1, <1>2, <1>5, <3>1, <3>5, <3>6 DEF ShareInv
  <2>12. DrawInv'
    <3>1. \A u \in RayThreads : tline[u] = 0 /\ tpc[u] \notin {"run", "joined"}
      BY <1>2 DEF RayInv, DrawInv
    <3>2. \A u \in RayThreads :
            /\ tline'[u] = 0 /\ tpc'[u] \notin {"run", "joined"} /\ band'[u].count \in Nat
            /\ band'[u].first \in Nat
      BY <1>1, <1>5, <2>4, <2>8, <3>1 DEF RayTypes
    <3>0. \A u \in RayThreads : band[u].first \in Nat
      BY DEF RayInv, RayTypes
    <3>3. \A u \in RayThreads, l \in 0 .. MaxLines - 1 : ~Did(u, l) /\ ~(Did(u, l)')
      BY <3>0, <3>1, <3>2 DEF Did
    <3>4. \A l \in 0 .. MaxLines - 1 :
            rendered'[l] = IF \E u \in RayThreads : Did(u, l)' THEN 1 ELSE 0
      BY <1>1, <1>2, <3>3 DEF RayInv, DrawInv
    <3> QED BY <1>1, <1>2, <1>5, <3>2, <3>4 DEF DrawInv
  <2> QED BY <2>8, <2>9, <2>10, <2>11, <2>12 DEF RayInv
<1> QED BY <1>4, <1>5 DEF Spawn

\* The start: the last band is stretched to the end of the image, so that the bands cover it.
LEMMA RayBroadcast ==
  ASSUME RayInv, Broadcast
  PROVE  RayInv'
<1> USE CRayAssumption DEF RayThreads
<1> DEFINE n == thread_num
<1>1. /\ rpc = "spawn" /\ Made(n) /\ rpc' = "join" /\ start'
      /\ band' = [band EXCEPT ![n].count = yres - band[n].first]
      /\ tpc' = [t \in RayThreads |-> IF tpc[t] = "waiting" THEN "run" ELSE tpc[t]]
      /\ UNCHANGED <<rmode, yres, thread_num, sl, tline, rendered>>
  BY DEF Broadcast, LastBand, Made
<1>2. rmode = "mt" /\ ~start /\ n <= yres
  BY <1>1 DEF RayInv, ModeInv
<1>3. n \in RayThreads /\ yres \in Nat /\ n \in Nat /\ sl \in Nat /\ sl <= yres
  BY <1>1, <1>2 DEF RayInv, RayTypes, ModeInv
<1>4. /\ DOMAIN band = RayThreads /\ DOMAIN tpc = RayThreads
      /\ \A t \in RayThreads : /\ DOMAIN band[t] = {"first", "count"} /\ band[t].first \in Nat
                               /\ band[t].count \in Nat
  BY DEF RayInv, RayTypes
<1>5. \A u \in RayThreads : Made(u) => u <= n
  BY DEF RayInv, BandInv
<1>6. sl = band[n].first + band[n].count
  <2>1. \A u \in RayThreads : u > n => ~Made(u)
    BY <1>3, <1>5
  <2> QED BY <1>1, <1>2, <1>3, <2>1 DEF RayInv, ShareInv
<1>7. band'[n].first = band[n].first /\ band'[n].count = yres - band[n].first
      /\ DOMAIN band'[n] = {"first", "count"}
  BY <1>1, <1>3, <1>4
<1>8. \A u \in RayThreads : u # n => band'[u] = band[u]
  BY <1>1, <1>3, <1>4
<1>9. band'[n].count \in Nat /\ band[n].first + band'[n].count = yres
      /\ band[n].count <= band'[n].count
  BY <1>3, <1>4, <1>6, <1>7
<1>10. \A u \in RayThreads : Made(u)' <=> Made(u)
  BY <1>1, <1>4 DEF Made
<1>11. \A u \in RayThreads : /\ band'[u].first = band[u].first /\ band'[u].first \in Nat
                             /\ band'[u].count \in Nat /\ DOMAIN band'[u] = {"first", "count"}
  BY <1>4, <1>7, <1>8, <1>9
<1> HIDE DEF n
<1>12. RayTypes'
  <2>1. DOMAIN tpc' = RayThreads /\ DOMAIN band' = RayThreads
    BY <1>1, <1>4
  <2> QED BY <1>1, <1>11, <2>1 DEF RayInv, RayTypes
<1>13. ModeInv'
  BY <1>1, <1>2 DEF RayInv, ModeInv, n
<1>14. BandInv'
  <2>1. \A t \in RayThreads : Made(t)' => t <= n /\ \A u \in 1 .. t - 1 : Made(u)'
    <3>1. SUFFICES ASSUME NEW t \in RayThreads, Made(t)'
                   PROVE  t <= n /\ \A u \in 1 .. t - 1 : Made(u)'
      OBVIOUS
    <3>2. t <= n /\ \A u \in 1 .. t - 1 : Made(u)
      BY <1>10, <3>1 DEF RayInv, BandInv, n
    <3>3. \A u \in 1 .. t - 1 : u \in RayThreads
      OBVIOUS
    <3> QED BY <1>10, <3>2, <3>3
  <2>2. ASSUME NEW t \in RayThreads, NEW u \in RayThreads, Made(t)', Made(u)', t < u
        PROVE  band'[t].first + band'[t].count <= band'[u].first
    <3>1. t # n
      BY <1>3, <1>5, <1>10, <2>2
    <3>2. band[t].first + band[t].count <= band[u].first
      BY <1>10, <2>2 DEF RayInv, BandInv
    <3> QED BY <1>8, <1>11, <3>1, <3>2
  <2>3. ASSUME NEW t \in RayThreads, Made(t)'
        PROVE  band'[t].first + band'[t].count <= yres
    <3>1. CASE t = n
      BY <1>3, <1>4, <1>7, <1>9, <3>1
    <3>2. CASE t # n
      <4>1. band[t].first + band[t].count <= sl
        BY <1>2, <1>10, <2>3 DEF RayInv, BandInv
      <4> QED BY <1>3, <1>4, <1>8, <3>2, <4>1
    <3> QED BY <3>1, <3>2
  <2> QED BY <1>1, <2>1, <2>2, <2>3 DEF BandInv, n
<1>15. ShareInv'
  <2> SUFFICES ASSUME NEW l \in 0 .. yres - 1 PROVE \E t \in 1 .. n : Covers(t, l)'
    BY <1>1 DEF ShareInv, n
  <2>1. CASE l < sl
    <3>1. PICK u \in RayThreads : Made(u) /\ Covers(u, l)
      BY <1>2, <1>3, <2>1 DEF RayInv, ShareInv
    <3>2. u \in 1 .. n
      BY <1>3, <1>5, <3>1
    <3>3. CASE u = n
      BY <1>3, <1>4, <1>7, <1>9, <3>1, <3>2, <3>3 DEF Covers
    <3>4. CASE u # n
      BY <1>8, <3>1, <3>2, <3>4 DEF Covers
    <3> QED BY <3>3, <3>4
  <2>2. CASE l >= sl
    <3>1. band'[n].first <= l /\ l < band'[n].first + band'[n].count /\ n \in 1 .. n
      BY <1>3, <1>4, <1>6, <1>7, <1>9, <2>2
    <3> QED BY <3>1 DEF Covers
  <2> QED BY <1>3, <2>1, <2>2
<1>16. DrawInv'
  <2>1. \A u \in RayThreads : tline[u] = 0 /\ tpc[u] \notin {"run", "joined"}
    BY <1>2 DEF RayInv, DrawInv
  <2>2. \A u \in RayThreads : tline'[u] = 0 /\ tpc'[u] # "joined"
    BY <1>1, <1>4, <2>1
  <2>3. \A u \in RayThreads, l \in 0 .. MaxLines - 1 : ~Did(u, l) /\ ~(Did(u, l)')
    BY <1>4, <1>11, <2>1, <2>2 DEF Did
  <2>4. \A l \in 0 .. MaxLines - 1 :
          rendered'[l] = IF \E u \in RayThreads : Did(u, l)' THEN 1 ELSE 0
    BY <1>1, <1>2, <2>3 DEF RayInv, DrawInv
  <2> QED BY <1>1, <1>2, <1>11, <2>2, <2>4 DEF DrawInv
<1> QED BY <1>12, <1>13, <1>14, <1>15, <1>16 DEF RayInv

\* A thread's own steps: taking the mutex, rendering a scanline of its band, ending.
LEMMA RayThreadStep ==
  ASSUME RayInv, NEW t \in RayThreads, ThreadStart(t) \/ ThreadRender(t)
  PROVE  RayInv'
<1> USE CRayAssumption DEF RayThreads
<1>1. /\ UNCHANGED <<rmode, rpc, yres, thread_num, band, sl>> /\ start' = start /\ Made(t)
  BY DEF ThreadStart, ThreadRender, Made
<1>2. /\ DOMAIN band = RayThreads /\ DOMAIN tpc = RayThreads /\ DOMAIN tline = RayThreads
      /\ DOMAIN rendered = 0 .. MaxLines - 1 /\ yres \in 0 .. MaxLines
      /\ \A u \in RayThreads :
           band[u].first \in Nat /\ band[u].count \in Nat /\ tline[u] \in Nat
  BY DEF RayInv, RayTypes
<1>3. rmode = "mt"
  BY <1>1 DEF RayInv, ModeInv
<1>4. \/ /\ UNCHANGED <<tline, rendered>>
         /\ \E w \in {"run", "waiting", "joined"} : tpc' = [tpc EXCEPT ![t] = w]
      \/ /\ tpc' = tpc /\ tpc[t] = "run" /\ tline[t] < band[t].count
         /\ tline' = [tline EXCEPT ![t] = @ + 1]
         /\ rendered' = [rendered EXCEPT ![band[t].first + tline[t]] = @ + 1]
  BY DEF ThreadStart, ThreadRender, render_scanline
<1>5. \A u \in RayThreads : Made(u)' <=> Made(u)
  BY <1>1, <1>2, <1>4 DEF Made
<1>6. RayTypes'
  <2>1. DOMAIN tpc' = RayThreads /\ DOMAIN tline' = RayThreads
    BY <1>2, <1>4
  <2>2. DOMAIN rendered' = 0 .. MaxLines - 1
    BY <1>2, <1>4
  <2>3. \A u \in RayThreads : tline'[u] = tline[u] \/ tline'[u] = tline[u] + 1
    BY <1>2, <1>4
  <2>4. \A u \in RayThreads : tline'[u] \in Nat
    BY <1>2, <2>3
  <2> QED BY <1>1, <2>1, <2>2, <2>4 DEF RayInv, RayTypes
<1>7. ModeInv'
  BY <1>1, <1>3, <1>5 DEF RayInv, ModeInv
<1>8. BandInv'
  <2>1. \A v \in RayThreads : \A u \in 1 .. v - 1 : u \in RayThreads
    OBVIOUS
  <2> QED BY <1>1, <1>5, <2>1 DEF RayInv, BandInv
<1>9. ShareInv'
  <2>1. \A u \in RayThreads : Sums(u)' = Sums(u)
    BY <1>1 DEF Sums
  <2>2. \A u, l : Covers(u, l)' <=> Covers(u, l)
    BY <1>1 DEF Covers
  <2> QED BY <1>1, <1>5, <2>1, <2>2 DEF RayInv, ShareInv
<1>10. DrawInv'
  <2>1. CASE tline' = tline /\ rendered' = rendered
    <3>1. PICK w \in {"run", "waiting", "joined"} : tpc' = [tpc EXCEPT ![t] = w]
      BY <1>2, <1>4, <2>1
    <3>2. w \in {"run", "joined"} => start
      <4>1. CASE ThreadStart(t)
        BY <1>2, <3>1, <4>1 DEF ThreadStart
      <4>2. CASE ThreadRender(t)
        BY <4>2 DEF ThreadRender, RayInv, DrawInv
      <4> QED BY <4>1, <4>2
    <3>3. w = "joined" => tline[t] = band[t].count
      <4>1. CASE ThreadStart(t)
        BY <1>2, <3>1, <4>1 DEF ThreadStart
      <4>2. CASE ThreadRender(t)
        BY <1>2, <2>1, <3>1, <4>2 DEF ThreadRender, RayInv, DrawInv
      <4> QED BY <4>1, <4>2
    <3>4. ASSUME NEW u \in RayThreads
          PROVE  /\ tline[u] <= band[u].count /\ (tline[u] > 0 => Made(u)')
                 /\ tpc'[u] = "joined" => tline[u] = band[u].count
                 /\ ~start => tline[u] = 0 /\ tpc'[u] \notin {"run", "joined"}
      <4>1. /\ tline[u] <= band[u].count /\ (tline[u] > 0 => Made(u))
            /\ tpc[u] = "joined" => tline[u] = band[u].count
            /\ ~start => tline[u] = 0 /\ tpc[u] \notin {"run", "joined"}
        BY DEF RayInv, DrawInv
      <4>2. tpc'[u] = IF u = t THEN w ELSE tpc[u]
        BY <1>2, <3>1
      <4> QED BY <1>5, <3>2, <3>3, <4>1, <4>2
    <3>5. \A u, l : Did(u, l)' <=> Did(u, l)
      BY <1>1, <2>1 DEF Did
    <3>6. \A l \in 0 .. MaxLines - 1 :
            rendered'[l] = IF \E u \in RayThreads : Did(u, l)' THEN 1 ELSE 0
      BY <1>3, <2>1, <3>5 DEF RayInv, DrawInv
    <3>7. rpc # "written"
      <4>1. tpc[t] # "joined" /\ t \in 1 .. thread_num
        BY <1>1, <1>2 DEF ThreadStart, ThreadRender, RayInv, BandInv, RayTypes
      <4> QED BY <1>3, <4>1 DEF RayInv, DrawInv
    <3> QED BY <1>1, <1>3, <2>1, <3>4, <3>6, <3>7 DEF DrawInv
  <2>2. CASE /\ tpc' = tpc /\ tpc[t] = "run" /\ tline[t] < band[t].count
             /\ tline' = [tline EXCEPT ![t] = @ + 1]
             /\ rendered' = [rendered EXCEPT ![band[t].first + tline[t]] = @ + 1]
    <3> DEFINE k == band[t].first + tline[t]
    <3>1. start
      BY <2>2 DEF RayInv, DrawInv
    <3>2. k \in 0 .. MaxLines - 1
      <4>1. band[t].first + band[t].count <= yres
        BY <1>1, <3>1 DEF RayInv, BandInv
      <4>2. band[t].first \in Nat /\ band[t].count \in Nat /\ tline[t] \in Nat
            /\ MaxLines \in Nat /\ yres \in Nat /\ yres <= MaxLines
        BY <1>2
      <4>3. tline[t] < band[t].count
        BY <2>2
      <4> QED BY <4>1, <4>2, <4>3
    <3>3. \A u \in RayThreads : ~Did(u, k)
      <4> SUFFICES ASSUME NEW u \in RayThreads, Did(u, k) PROVE FALSE
        OBVIOUS
      <4>0. /\ band[u].first \in Nat /\ band[u].count \in Nat /\ tline[u] \in Nat
            /\ band[t].first \in Nat /\ band[t].count \in Nat /\ tline[t] \in Nat
            /\ tline[t] < band[t].count
        BY <1>2, <2>2
      <4>1. u # t
        BY <4>0 DEF Did
      <4>2. tline[u] > 0 /\ k < band[u].first + tline[u] /\ band[u].first <= k
        BY <4>0 DEF Did
      <4>3. Made(u) /\ tline[u] <= band[u].count
        BY <4>2 DEF RayInv, DrawInv
      <4>4. CASE u < t
        <5>1. band[u].first + band[u].count <= band[t].first
          BY <1>1, <4>3, <4>4 DEF RayInv, BandInv
        <5> QED BY <4>0, <4>2, <4>3, <5>1
      <4>5. CASE t < u
        <5>1. band[t].first + band[t].count <= band[u].first
          BY <1>1, <4>3, <4>5 DEF RayInv, BandInv
        <5> QED BY <4>0, <4>2, <4>3, <5>1
      <4> QED BY <4>1, <4>4, <4>5
    <3>4. \A u \in RayThreads, l \in 0 .. MaxLines - 1 :
            Did(u, l)' <=> Did(u, l) \/ (u = t /\ l = k)
      <4> SUFFICES ASSUME NEW u \in RayThreads, NEW l \in 0 .. MaxLines - 1
                   PROVE  Did(u, l)' <=> Did(u, l) \/ (u = t /\ l = k)
        OBVIOUS
      <4>1. tline'[u] = IF u = t THEN tline[u] + 1 ELSE tline[u]
        BY <1>2, <2>2
      <4>2. band[u].first \in Nat /\ tline[u] \in Nat /\ l \in Nat
        BY <1>2
      <4>3. CASE u = t
        <5>1. Did(u, l)' <=> band[u].first <= l /\ l < band[u].first + tline[u] + 1
          BY <1>1, <4>1, <4>2, <4>3 DEF Did
        <5>2. k = band[u].first + tline[u]
          BY <4>3
        <5> HIDE DEF k
        <5> QED BY <4>2, <4>3, <5>1, <5>2 DEF Did
      <4>4. CASE u # t
        BY <1>1, <4>1, <4>4 DEF Did
      <4> QED BY <4>3, <4>4
    <3> HIDE DEF k
    <3>5. ASSUME NEW l \in 0 .. MaxLines - 1
          PROVE  rendered'[l] = IF \E u \in RayThreads : Did(u, l)' THEN 1 ELSE 0
      <4>0. rendered[l] = IF \E u \in RayThreads : Did(u, l) THEN 1 ELSE 0
        BY <1>3 DEF RayInv, DrawInv
      <4>1. CASE l = k
        <5>1. rendered'[l] = rendered[l] + 1
          BY <1>2, <2>2, <4>1 DEF k
        <5>2. rendered[l] = 0
          BY <3>3, <4>0, <4>1
        <5>3. \E u \in RayThreads : Did(u, l)'
          BY <3>4, <4>1
        <5> QED BY <5>1, <5>2, <5>3
      <4>2. CASE l # k
        <5>1. rendered'[l] = rendered[l]
          BY <1>2, <2>2, <4>2 DEF k
        <5>2. \A u \in RayThreads : Did(u, l)' <=> Did(u, l)
          BY <3>4, <4>2
        <5> QED BY <4>0, <5>1, <5>2
      <4> QED BY <4>1, <4>2
    <3>6. ASSUME NEW u \in RayThreads
          PROVE  /\ tline'[u] <= band[u].count /\ (tline'[u] > 0 => Made(u)')
                 /\ tpc[u] = "joined" => tline'[u] = band[u].count
      <4>1. /\ tline[u] <= band[u].count /\ (tline[u] > 0 => Made(u))
            /\ tpc[u] = "joined" => tline[u] = band[u].count
        BY DEF RayInv, DrawInv
      <4>2. tline'[u] = IF u = t THEN tline[u] + 1 ELSE tline[u]
        BY <1>2, <2>2
      <4> QED BY <1>1, <1>2, <1>5, <2>2, <4>1, <4>2
    <3>7. rmode = "mt" /\ rpc = "written" => \A u \in 1 .. thread_num : tpc[u] = "joined"
      BY DEF RayInv, DrawInv
    <3> QED BY <1>1, <1>3, <2>2, <3>1, <3>5, <3>6, <3>7 DEF DrawInv
  <2> QED BY <1>4, <2>1, <2>2
<1> QED BY <1>6, <1>7, <1>8, <1>9, <1>10 DEF RayInv

\* The threads have ended: the image is written.
LEMMA RayJoined ==
  ASSUME RayInv, Joined
  PROVE  RayInv'
<1>1. /\ rpc = "join" /\ rpc' = "written" /\ \A t \in 1 .. thread_num : tpc[t] = "joined"
      /\ UNCHANGED <<rmode, yres, thread_num, band, sl, tpc, tline, rendered>> /\ start' = start
  BY DEF Joined, threadVars
<1>2. rmode = "mt" /\ start
  BY <1>1 DEF RayInv, ModeInv
<1>3. RayTypes' /\ ModeInv'
  BY <1>1, <1>2 DEF RayInv, RayTypes, ModeInv, Made
<1>4. BandInv'
  BY <1>1 DEF RayInv, BandInv, Made
<1>5. ShareInv'
  BY <1>1, <1>2 DEF RayInv, ShareInv, Covers
<1>6. DrawInv'
  BY <1>1, <1>2 DEF RayInv, DrawInv, Made, Did
<1> QED BY <1>3, <1>4, <1>5, <1>6 DEF RayInv

\* c-ray-mt and c-ray-f: for every height, every number of threads, every rounding of the band
\* limits and every order in which the threads start and run, no scanline is rendered twice or
\* outside the image, and the image is written only when each has been rendered.
THEOREM LinesAreRenderedOnce == RaySpec => [](AtMostOnce /\ WrittenWhole)
<1> USE CRayAssumption
<1>1. RayInit => RayInv
  <2> SUFFICES ASSUME RayInit PROVE RayInv
    OBVIOUS
  <2>1. /\ \A t \in RayThreads : /\ tpc[t] = "none" /\ tline[t] = 0 /\ band[t].first = 0
                                 /\ band[t].count = 0 /\ DOMAIN band[t] = {"first", "count"}
        /\ \A l \in 0 .. MaxLines - 1 : rendered[l] = 0
        /\ rpc = "load" /\ ~start /\ sl = 0 /\ rmode \in {"f", "mt"}
    BY DEF RayInit
  <2>2. RayTypes
    BY <2>1 DEF RayInit, RayTypes
  <2>3. ModeInv /\ BandInv
    BY <2>1 DEF RayInit, ModeInv, BandInv, Made
  <2>4. ShareInv
    BY <2>1 DEF ShareInv, Made
  <2>5. \A t \in RayThreads, l \in 0 .. MaxLines - 1 : ~Did(t, l)
    BY <2>1 DEF Did
  <2>6. DrawInv
    BY <2>1, <2>5 DEF DrawInv
  <2> QED BY <2>2, <2>3, <2>4, <2>6 DEF RayInv
<1>2. RayInv /\ [RayNext]_rayVars => RayInv'
  <2> SUFFICES ASSUME RayInv, [RayNext]_rayVars PROVE RayInv'
    OBVIOUS
  <2>1. CASE UNCHANGED rayVars
    <3>1. UNCHANGED <<rmode, rpc, yres, thread_num, band, sl, tpc, tline, rendered>> /\ start' = start
      BY <2>1 DEF rayVars
    <3> QED BY <3>1 DEF RayInv, RayTypes, ModeInv, BandInv, ShareInv, DrawInv, Made, Covers, Did, Sums
  <2>2. CASE RayNext
    BY <2>2, RayAlone, RaySpawn, RayBroadcast, RayJoined, RayThreadStep DEF RayNext, RayMain, RayThread
  <2> QED BY <2>1, <2>2
<1>3. RayInv => AtMostOnce /\ WrittenWhole
  <2> SUFFICES ASSUME RayInv PROVE AtMostOnce /\ WrittenWhole
    OBVIOUS
  <2>1. /\ DOMAIN rendered = 0 .. MaxLines - 1 /\ yres \in 0 .. MaxLines /\ sl \in 0 .. yres
        /\ thread_num \in 0 .. MaxThreads /\ rmode \in {"f", "mt"}
        /\ \A t \in RayThreads : band[t].first \in Nat /\ band[t].count \in Nat /\ tline[t] \in Nat
    BY DEF RayInv, RayTypes, ModeInv
  <2>2. CASE rmode = "f"
    BY <2>1, <2>2 DEF RayInv, DrawInv, AtMostOnce, WrittenWhole
  <2>3. CASE rmode = "mt"
    <3>1. \A l \in 0 .. MaxLines - 1 :
            rendered[l] = IF \E t \in RayThreads : Did(t, l) THEN 1 ELSE 0
      BY <2>3 DEF RayInv, DrawInv
    <3>2. ASSUME NEW t \in RayThreads, NEW l \in 0 .. MaxLines - 1, Did(t, l) PROVE l < yres
      <4>1. tline[t] > 0 /\ l < band[t].first + tline[t]
        BY <2>1, <3>2 DEF Did
      <4>2. tline[t] <= band[t].count /\ Made(t) /\ start
        BY <2>1, <4>1 DEF RayInv, DrawInv
      <4>3. band[t].first + band[t].count <= yres
        BY <4>2 DEF RayInv, BandInv
      <4> QED BY <2>1, <4>1, <4>2, <4>3
    <3>3. \A l \in DOMAIN rendered : rendered[l] <= IF l < yres THEN 1 ELSE 0
      BY <2>1, <3>1, <3>2
    <3>4. ASSUME rpc = "written", NEW l \in 0 .. yres - 1 PROVE rendered[l] = 1
      <4>1. start
        BY <2>3, <3>4 DEF RayInv, ModeInv
      <4>2. PICK t \in 1 .. thread_num : Covers(t, l)
        BY <4>1 DEF RayInv, ShareInv
      <4>3. t \in RayThreads /\ l \in 0 .. MaxLines - 1
        BY <2>1 DEF RayThreads
      <4>4. tline[t] = band[t].count
        BY <2>3, <3>4, <4>3 DEF RayInv, DrawInv
      <4>5. Did(t, l)
        BY <4>2, <4>4 DEF Covers, Did
      <4> QED BY <3>1, <4>3, <4>5
    <3> QED BY <3>3, <3>4 DEF AtMostOnce, WrittenWhole
  <2> QED BY <2>1, <2>2, <2>3
<1> QED BY <1>1, <1>2, <1>3, PTL DEF RaySpec
=============================================================================
