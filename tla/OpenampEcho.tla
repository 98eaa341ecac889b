---------------------------- MODULE OpenampEcho ----------------------------
(***************************************************************************)
(* The OpenAMP echo test (package/openamp_app): packets of changing size   *)
(* and letter are written to the rpmsg device and each one is compared     *)
(* with the next message read from it.                                     *)
(*                                                                         *)
(* The remote firmware and the rpmsg queue are external: the firmware may  *)
(* answer late, twice, damaged or not at all, but in order.  A message is  *)
(* the number of the packet it echoes, 0 for one that echoes none; its     *)
(* text is the packet's letter and size.                                   *)
(***************************************************************************)
EXTENDS Integers, Sequences

CONSTANTS
  Letters,         \* 26
  EchoSizes,       \* 12: sizes in sweep_sizes
  Iterations,      \* packets to send (argv[2])
  MaxQueue         \* bound on the answers waiting

ASSUME EchoAssumption ==
  {Letters, EchoSizes} \subseteq Nat \ {0} /\ {Iterations, MaxQueue} \subseteq Nat

VARIABLES
  epc,             \* open, write, read, done
  seq_num, success_count, failure_count,
  current_token,
  unanswered,      \* packets the firmware has not answered yet
  answers,         \* messages the device holds for the reader
  passed           \* history: the packet whose echo each PASSED packet was compared with

echoVars ==
  <<epc, seq_num, success_count, failure_count, current_token, unanswered, answers, passed>>
counts == <<success_count, failure_count, passed>>

EchoInit ==
  /\ epc = "open" /\ seq_num = 0 /\ success_count = 0 /\ failure_count = 0 /\ current_token = 0
  /\ unanswered = <<>> /\ answers = <<>> /\ passed = <<>>

OpenRpmsg ==
  /\ epc = "open" /\ epc' \in {IF Iterations = 0 THEN "done" ELSE "write", "done"}
  /\ UNCHANGED <<seq_num, counts, current_token, unanswered, answers>>

\* A failed write is counted and ends the test.
EchoWrite ==
  /\ epc = "write" /\ seq_num' = seq_num + 1
  /\ \/ /\ epc' = "read" /\ UNCHANGED failure_count
        /\ unanswered' = Append(unanswered, [no |-> seq_num', token |-> current_token])
     \/ epc' = "done" /\ failure_count' = failure_count + 1 /\ UNCHANGED unanswered
  /\ UNCHANGED <<success_count, passed, current_token, answers>>

\* Mutant: the letter stays at the first one.
Rotate_mutant(token) == 0

Rotate(token) == IF token + 1 = Letters THEN 0 ELSE token + 1

NextIteration ==
  /\ current_token' = Rotate(current_token)
  /\ epc' = IF seq_num < Iterations THEN "write" ELSE "done"

\* The answer is stripped of NUL, CR, LF and of the firmware's "BareMetal_...: " and compared.
EchoRead ==
  LET a == Head(answers)
      sent == [token |-> current_token, size |-> (seq_num - 1) % EchoSizes]
      ok == a.no # 0 /\ [token |-> a.token, size |-> (a.no - 1) % EchoSizes] = sent
  IN /\ epc = "read" /\ answers # <<>> /\ answers' = Tail(answers) /\ NextIteration
     /\ \/ /\ ok /\ success_count' = success_count + 1 /\ UNCHANGED failure_count
           /\ passed' = Append(passed, <<seq_num, a.no>>)
        \/ ~ok /\ failure_count' = failure_count + 1 /\ UNCHANGED <<success_count, passed>>
     /\ UNCHANGED <<seq_num, unanswered>>

\* read returned 0 or an error.
EchoEmpty ==
  /\ epc = "read" /\ failure_count' = failure_count + 1 /\ NextIteration
  /\ UNCHANGED <<seq_num, success_count, passed, unanswered, answers>>

\* The firmware answers the oldest packet, or damages the answer, and may do so again.
Answer ==
  /\ unanswered # <<>> /\ Len(answers) < MaxQueue
  /\ \E a \in {Head(unanswered), [no |-> 0, token |-> 0]} : answers' = Append(answers, a)
  /\ unanswered' \in {unanswered, Tail(unanswered)}
  /\ UNCHANGED <<epc, seq_num, counts, current_token>>

EchoNext == OpenRpmsg \/ EchoWrite \/ EchoRead \/ EchoEmpty \/ Answer

EchoSpec == EchoInit /\ [][EchoNext]_echoVars

(***************************************************************************)
(* Properties.                                                             *)
(***************************************************************************)
\* Texts repeat only after every combination of letter and size that the sweep goes through.
Repeats(n, m) == \E k \in 1 .. Iterations : m + k = n /\ k % Letters = 0 /\ k % EchoSizes = 0

\* Every packet is counted once, as success or failure, and a packet counted as PASSED was
\* compared with its own echo: an echo that comes late or twice is not taken for that of a
\* later packet, unless the two are so far apart that letter and size are both the same again.
EchoPass ==
  /\ epc \in {"write", "done"} => success_count + failure_count = seq_num
  /\ \A i \in DOMAIN passed : passed[i][1] = passed[i][2] \/ Repeats(passed[i][1], passed[i][2])
=============================================================================
