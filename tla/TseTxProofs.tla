----------------------------- MODULE TseTxProofs ----------------------------
(***************************************************************************)
(* Theorems about TseTx, for every ring size, number of fragments, budget  *)
(* and interleaving; each states the faults it excludes.                   *)
(***************************************************************************)
EXTENDS TseTx, Integers, TLAPS

USE DEF ringVars, idxVars, xmitVars, dmaVars, irqVars, pollVars

(***************************************************************************)
(* Descriptor indices.                                                     *)
(***************************************************************************)
\* Advancing by at most one round.
LEMMA PlusIs ==
  ASSUME NEW a \in BD, NEW n \in 0 .. N
  PROVE  /\ Plus(a, n) \in BD
         /\ Plus(a, n) = IF a + n < N THEN a + n ELSE a + n - N
BY TseTxAssumption DEF BD, Plus

\* Advancing by any number stays in the ring.
LEMMA PlusIn ==
  ASSUME NEW a \in BD, NEW n \in Nat
  PROVE  Plus(a, n) \in BD
BY TseTxAssumption DEF BD, Plus

(***************************************************************************)
(* Types.                                                                  *)
(***************************************************************************)
FlagsOK ==
  /\ eop \in [BD -> BOOLEAN] /\ done \in [BD -> BOOLEAN] /\ skb \in [BD -> BOOLEAN]
  /\ stopped \in BOOLEAN /\ busy \in BOOLEAN /\ mid \in BOOLEAN
  /\ pending \in BOOLEAN /\ enabled \in BOOLEAN /\ up \in BOOLEAN

IndexOK ==
  /\ bytes \in [BD -> Nat]
  /\ tx_bd_ci \in BD /\ tx_bd_tail \in BD
  /\ xpc \in {"idle", "check", "full", "frag", "head", "undo", "publish", "tail", "scan",
              "kick", "space", "stop", "recheck"}
  /\ nf \in 0 .. MaxFrags /\ orig \in BD /\ newt \in BD /\ head \in BD
  /\ dma \in {"idle", "xfer", "ending"} /\ dpos \in BD
  /\ napi \in {"idle", "sched", "free", "look", "wake", "complete"} /\ pidx \in BD
  /\ packets \in 0 .. Budget

\* The two parts of the type invariant: what is Boolean, and what is not.
LEMMA TypeParts == TypeOK <=> FlagsOK /\ IndexOK
BY Zenon DEF TypeOK, FlagsOK, IndexOK

\* Every action keeps the flags Boolean.
LEMMA FlagsStep ==
  ASSUME FlagsOK, [Next]_vars
  PROVE  FlagsOK'
<1> USE DEF FlagsOK
<1>1. CASE XmitEnter
  BY <1>1, Zenon DEF XmitEnter
<1>2. CASE XmitCheck
  BY <1>2, Zenon DEF XmitCheck
<1>3. CASE XmitFull
  BY <1>3, Zenon DEF XmitFull
<1>4. CASE XmitFrag
  BY <1>4, Zenon DEF XmitFrag
<1>5. CASE XmitHead
  BY <1>5, Zenon DEF XmitHead
<1>6. CASE XmitPublish
  BY <1>6, Zenon DEF XmitPublish
<1>7. CASE XmitTail
  BY <1>7, Zenon DEF XmitTail
<1>8. CASE XmitScan
  BY <1>8, Zenon DEF XmitScan
<1>9. CASE XmitKick
  BY <1>9, Zenon DEF XmitKick, DmaArrive
<1>10. CASE XmitSpace
  BY <1>10, Zenon DEF XmitSpace
<1>11. CASE XmitStop
  BY <1>11, Zenon DEF XmitStop
<1>12. CASE XmitRecheck
  BY <1>12, Zenon DEF XmitRecheck, TxBdSpace, InUse
<1>13. CASE DmaXfer
  BY <1>13, Zenon DEF DmaXfer, DmaArrive
<1>14. CASE DmaEnd
  BY <1>14, Zenon DEF DmaEnd
<1>15. CASE TxIrq
  BY <1>15, Zenon DEF TxIrq
<1>16. CASE PollStart
  BY <1>16, Zenon DEF PollStart
<1>17. CASE PollFree
  BY <1>17, Zenon DEF PollFree
<1>18. CASE PollLook
  BY <1>18, Zenon DEF PollLook
<1>19. CASE PollWake
  BY <1>19, Zenon DEF PollWake
<1>20. CASE PollComplete
  BY <1>20, Zenon DEF PollComplete
<1>21. CASE TseStop
  BY <1>21, Zenon DEF TseStop
<1>22. CASE TseOpen
  BY <1>22, Zenon DEF TseOpen, FreshRing
<1>23. CASE UNCHANGED vars
  BY <1>23, Zenon DEF vars
<1>24. CASE XmitUndo
  BY <1>24, Zenon DEF XmitUndo
<1> QED
  BY <1>1, <1>2, <1>3, <1>4, <1>5, <1>6, <1>7, <1>8, <1>9, <1>10, <1>11, <1>12, <1>13,
  <1>14, <1>15, <1>16, <1>17, <1>18, <1>19, <1>20, <1>21, <1>22, <1>23, <1>24
  DEF Next, Xmit, Dma, Poll

\* Every action keeps the indices and counters in range.
LEMMA IndexStep ==
  ASSUME IndexOK, [Next]_vars
  PROVE  IndexOK'
<1> USE TseTxAssumption DEF IndexOK
<1>a. 1 \in 0 .. N /\ 0 \in BD /\ \A a \in BD : Plus(a, 1) \in BD
  <2>1. 1 \in 0 .. N /\ 0 \in BD
    BY DEF BD
  <2> QED BY <2>1, PlusIs
<1>b. \A n \in Nat : Plus(tx_bd_ci, n) \in BD
  BY PlusIn
<1>1. CASE XmitEnter
  BY <1>a, <1>b, <1>1 DEF XmitEnter
<1>2. CASE XmitCheck
  BY <1>a, <1>b, <1>2 DEF XmitCheck
<1>3. CASE XmitFull
  BY <1>a, <1>b, <1>3 DEF XmitFull
<1>4. CASE XmitFrag
  BY <1>a, <1>b, <1>4 DEF XmitFrag
<1>5. CASE XmitHead
  BY <1>a, <1>b, <1>5 DEF XmitHead
<1>6. CASE XmitPublish
  BY <1>a, <1>b, <1>6 DEF XmitPublish
<1>7. CASE XmitTail
  BY <1>a, <1>b, <1>7 DEF XmitTail
<1>8. CASE XmitScan
  BY <1>a, <1>b, <1>8 DEF XmitScan
<1>9. CASE XmitKick
  BY <1>a, <1>b, <1>9 DEF XmitKick, DmaArrive
<1>10. CASE XmitSpace
  BY <1>a, <1>b, <1>10 DEF XmitSpace
<1>11. CASE XmitStop
  BY <1>a, <1>b, <1>11 DEF XmitStop
<1>12. CASE XmitRecheck
  BY <1>a, <1>b, <1>12 DEF XmitRecheck
<1>13. CASE DmaXfer
  BY <1>a, <1>b, <1>13 DEF DmaXfer, DmaArrive
<1>14. CASE DmaEnd
  BY <1>a, <1>b, <1>14 DEF DmaEnd
<1>15. CASE TxIrq
  BY <1>a, <1>b, <1>15 DEF TxIrq
<1>16. CASE PollStart
  BY <1>a, <1>b, <1>16 DEF PollStart
<1>17. CASE PollFree
  BY <1>a, <1>b, <1>17 DEF PollFree
<1>18. CASE PollLook
  BY <1>a, <1>b, <1>18 DEF PollLook
<1>19. CASE PollWake
  BY <1>a, <1>b, <1>19 DEF PollWake
<1>20. CASE PollComplete
  BY <1>a, <1>b, <1>20 DEF PollComplete
<1>21. CASE TseStop
  BY <1>a, <1>b, <1>21 DEF TseStop
<1>22. CASE TseOpen
  BY <1>a, <1>b, <1>22 DEF TseOpen, FreshRing
<1>23. CASE UNCHANGED vars
  BY <1>23 DEF vars
<1>24. CASE XmitUndo
  BY <1>24, <1>a, <1>b DEF XmitUndo
<1> QED
  BY <1>1, <1>2, <1>3, <1>4, <1>5, <1>6, <1>7, <1>8, <1>9, <1>10, <1>11, <1>12, <1>13,
  <1>14, <1>15, <1>16, <1>17, <1>18, <1>19, <1>20, <1>21, <1>22, <1>23, <1>24
  DEF Next, Xmit, Dma, Poll

\* Every variable keeps its type: the two ring indices, start_xmit's and the poll's stay
\* within the ring, under every fault the model has.
THEOREM TypeCorrect == Spec => []TypeOK
<1>1. Init => TypeOK
  <2>1. Init => FlagsOK
    BY Zenon DEF Init, FlagsOK, FreshRing
  <2>2. Init => IndexOK
    BY TseTxAssumption DEF Init, IndexOK, FreshRing, BD
  <2> QED BY <2>1, <2>2, TypeParts
<1>2. TypeOK /\ [Next]_vars => TypeOK'
  <2> SUFFICES ASSUME FlagsOK, IndexOK, [Next]_vars PROVE FlagsOK' /\ IndexOK'
    BY Zenon DEF TypeOK, FlagsOK, IndexOK
  <2> QED BY FlagsStep, IndexStep
<1> QED BY <1>1, <1>2, PTL DEF Spec

(***************************************************************************)
(* The end of the list.                                                    *)
(***************************************************************************)
\* How far b is ahead of a.
Dist(a, b) == IF b >= a THEN b - a ELSE b - a + N

\* Distances along the ring.
LEMMA DistIs ==
  ASSUME NEW a \in BD, NEW b \in BD
  PROVE  /\ Dist(a, b) \in 0 .. N - 1
         /\ Dist(a, b) = 0 <=> a = b
         /\ Dist(a, Plus(b, 1)) = IF Dist(a, b) = N - 1 THEN 0 ELSE Dist(a, b) + 1
         /\ Dist(Plus(a, 1), b) = IF a = b THEN N - 1 ELSE Dist(a, b) - 1
         /\ \A n \in 0 .. N - 1 : b = Plus(a, n) <=> Dist(a, b) = n
<1>1. /\ Plus(a, 1) = IF a + 1 < N THEN a + 1 ELSE a + 1 - N
      /\ Plus(b, 1) = IF b + 1 < N THEN b + 1 ELSE b + 1 - N
  BY TseTxAssumption, PlusIs
<1>2. \A n \in 0 .. N - 1 : Plus(a, n) = IF a + n < N THEN a + n ELSE a + n - N
  BY TseTxAssumption, PlusIs
<1>3. /\ Dist(a, b) \in 0 .. N - 1
      /\ Dist(a, b) = 0 <=> a = b
  BY TseTxAssumption DEF BD, Dist
<1>4. /\ Dist(a, Plus(b, 1)) = IF Dist(a, b) = N - 1 THEN 0 ELSE Dist(a, b) + 1
      /\ Dist(Plus(a, 1), b) = IF a = b THEN N - 1 ELSE Dist(a, b) - 1
  BY <1>1, TseTxAssumption DEF BD, Dist
<1>5. \A n \in 0 .. N - 1 : b = Plus(a, n) <=> Dist(a, b) = n
  BY <1>2, TseTxAssumption DEF BD, Dist
<1> QED BY <1>3, <1>4, <1>5

\* While a packet is put together the tail stays at its head descriptor, and the fragments go
\* behind it without coming round to it.
TailInv ==
  /\ xpc \in {"check", "full", "frag", "head", "publish", "tail"} => orig = tx_bd_tail
  /\ xpc = "check" => newt = orig
  /\ xpc = "frag" => Dist(orig, newt) < nf
  /\ ~up => xpc = "idle"
  /\ TailTerminates

\* Every action keeps the end of the list, mapping failures and reopening included.
LEMMA TailStep ==
  ASSUME FlagsOK, IndexOK, TailInv, [Next]_vars
  PROVE  TailInv'
<1>a. nf \in Nat /\ nf < N
  BY TseTxAssumption DEF IndexOK
<1>b. DOMAIN done = BD /\ tx_bd_tail \in BD /\ orig \in BD /\ newt \in BD
  BY Zenon DEF FlagsOK, IndexOK
<1>c. CASE UNCHANGED <<done, tx_bd_tail, orig, newt, nf, xpc, up>>
  BY <1>c DEF TailInv, TailTerminates
<1>1. CASE XmitEnter
  BY <1>1 DEF XmitEnter, TailInv, TailTerminates
<1>2. CASE XmitCheck
  <2>1. Dist(orig, orig) = 0
    BY <1>b, DistIs
  <2> QED BY <1>2, <1>a, <2>1 DEF XmitCheck, TailInv, TailTerminates
<1>3. CASE XmitFull
  BY <1>3 DEF XmitFull, TailInv, TailTerminates
<1>4. CASE XmitUndo
  <2>1. xpc = "undo" /\ xpc' \in {"undo", "idle"} /\ UNCHANGED <<tx_bd_tail, up>>
    BY <1>4 DEF XmitUndo
  <2>2. done'[tx_bd_tail]
    <3>1. done[tx_bd_tail]
      BY <2>1 DEF TailInv, TailTerminates
    <3> QED BY <1>4, <1>b, <3>1, Zenon DEF XmitUndo
  <2> QED BY <2>1, <2>2 DEF TailInv, TailTerminates
<1>5. CASE XmitFrag
  <2> DEFINE t == Plus(newt, 1)
  <2>1. Dist(orig, newt) < nf /\ orig = tx_bd_tail /\ done[tx_bd_tail] /\ up
    BY <1>5 DEF XmitFrag, TailInv, TailTerminates
  <2>2. /\ Dist(orig, t) = Dist(orig, newt) + 1 /\ Dist(orig, newt) \in Nat
        /\ t \in BD /\ t # orig
        /\ t = Plus(orig, nf) <=> Dist(orig, t) = nf
    <3>1. t \in BD
      BY <1>b, PlusIs, TseTxAssumption
    <3>2. Dist(orig, newt) \in 0 .. N - 1 /\ Dist(orig, newt) # N - 1
      BY <1>a, <1>b, <2>1, DistIs, TseTxAssumption
    <3>3. Dist(orig, t) = Dist(orig, newt) + 1
      BY <1>b, <3>2, DistIs
    <3>4. nf \in 0 .. N - 1
      BY <1>a, TseTxAssumption
    <3> HIDE DEF t
    <3>5. (t = Plus(orig, nf) <=> Dist(orig, t) = nf) /\ (Dist(orig, t) = 0 <=> orig = t)
      BY <1>b, <3>1, <3>4, DistIs
    <3> QED BY <3>1, <3>2, <3>3, <3>5
  <2> HIDE DEF t
  <2>3. CASE /\ newt' = t /\ done' = [done EXCEPT ![t] = FALSE]
             /\ xpc' = (IF t = Plus(orig, nf) THEN "head" ELSE "frag")
             /\ UNCHANGED <<tx_bd_tail, nf, orig, up>>
    <3>1. done'[tx_bd_tail]
      BY <1>b, <2>1, <2>2, <2>3
    <3>2. xpc' = "frag" => Dist(orig, t) < nf
      BY <1>a, <2>1, <2>2, <2>3
    <3> QED BY <2>1, <2>3, <3>1, <3>2 DEF TailInv, TailTerminates, Dist
  <2>4. CASE xpc' = "undo" /\ UNCHANGED <<done, tx_bd_tail, up>>
    BY <2>1, <2>4 DEF TailInv, TailTerminates
  <2> QED BY <1>5, <2>3, <2>4 DEF XmitFrag, t, ringVars, idxVars
<1>6. CASE XmitHead
  <2>1. xpc' \in {"publish", "undo"} /\ UNCHANGED <<done, tx_bd_tail, orig, up>>
    BY <1>6 DEF XmitHead, idxVars
  <2> QED BY <1>6, <2>1 DEF XmitHead, TailInv, TailTerminates
<1>7. CASE XmitPublish
  BY <1>7 DEF XmitPublish, TailInv, TailTerminates
<1>8. CASE XmitTail
  <2>1. Plus(newt, 1) \in BD
    BY <1>b, PlusIs, TseTxAssumption
  <2>2. xpc' = "scan" /\ done'[tx_bd_tail'] /\ up' = up /\ up
    BY <1>b, <1>8, <2>1 DEF XmitTail, TailInv
  <2> QED BY <2>2 DEF TailInv, TailTerminates
<1>9. CASE XmitScan \/ XmitKick \/ XmitSpace \/ XmitStop \/ XmitRecheck
  <2>1. UNCHANGED <<done, tx_bd_tail, up>>
    BY <1>9, Zenon DEF XmitScan, XmitKick, XmitSpace, XmitStop, XmitRecheck
  <2>2. /\ xpc \in {"scan", "kick", "space", "stop", "recheck"}
        /\ xpc' \in {"scan", "kick", "space", "stop", "recheck", "idle"}
    BY <1>9 DEF XmitScan, XmitKick, XmitSpace, XmitStop, XmitRecheck
  <2> QED BY <2>1, <2>2 DEF TailInv, TailTerminates
<1>10. ASSUME \A i \in BD : done[i] => done'[i],
              UNCHANGED <<tx_bd_tail, orig, newt, nf, xpc, up>>
       PROVE  TailInv'
  BY <1>10, <1>b DEF TailInv, TailTerminates
<1>11. CASE DmaXfer
  <2>1. \A i \in BD : done[i] => done'[i]
    BY <1>11, <1>b, Zenon DEF DmaXfer
  <2> QED BY <1>10, <1>11, <2>1 DEF DmaXfer
<1>12. CASE PollFree
  <2>1. \A i \in BD : done[i] => done'[i]
    BY <1>12, <1>b, Zenon DEF PollFree
  <2> QED BY <1>10, <1>12, <2>1 DEF PollFree
<1>13. CASE DmaEnd \/ TxIrq \/ PollStart \/ PollLook \/ PollWake \/ PollComplete
  <2>1. UNCHANGED <<done, tx_bd_tail, orig, newt, nf, xpc, up>>
    BY <1>13, Zenon DEF DmaEnd, TxIrq, PollStart, PollLook, PollWake, PollComplete
  <2> QED BY <1>c, <2>1
<1>14. CASE TseStop
  BY <1>14 DEF TseStop, TailInv, TailTerminates
<1>15. CASE TseOpen
  <2>1. xpc = "idle" /\ xpc' = xpc
    BY <1>15 DEF TseOpen, TailInv
  <2>2. 0 \in BD
    BY TseTxAssumption DEF BD
  <2>3. done'[tx_bd_tail']
    BY <1>15, <2>2 DEF TseOpen, FreshRing
  <2> QED BY <2>1, <2>3 DEF TailInv, TailTerminates
<1>16. CASE UNCHANGED vars
  BY <1>c, <1>16 DEF vars
<1> QED
  BY <1>1, <1>2, <1>3, <1>4, <1>5, <1>6, <1>7, <1>8, <1>9, <1>11, <1>12, <1>13, <1>14, <1>15, <1>16
  DEF Next, Xmit, Dma, Poll

\* The list the DMA walks ends at tx_bd_tail, for every ring the driver allows, on any number
\* of CPUs, with mapping failures, one-byte fragments and reopening of the interface.
THEOREM ListEnds == Spec => []TailTerminates
<1>1. Init => TailInv
  <2>1. 0 \in BD
    BY TseTxAssumption DEF BD
  <2> QED BY <2>1 DEF Init, FreshRing, TailInv, TailTerminates
<1>2. TypeOK /\ TailInv /\ [Next]_vars => TailInv'
  <2> SUFFICES ASSUME FlagsOK, IndexOK, TailInv, [Next]_vars PROVE TailInv'
    BY Zenon DEF TypeOK, FlagsOK, IndexOK
  <2> QED BY TailStep
<1>3. TailInv => TailTerminates
  BY DEF TailInv
<1> QED BY <1>1, <1>2, <1>3, TypeCorrect, PTL DEF Spec

(***************************************************************************)
(* The stopped queue.                                                      *)
(***************************************************************************)
Room == TxBdSpace(tx_bd_tail, MaxFrags + 1)

\* A stopped queue that has room is about to be looked at: by start_xmit, or by a poll that
\* has released something and not tested for room since.
WakeInv ==
  /\ stopped => xpc \in {"idle", "recheck"}
  /\ stopped /\ ~busy /\ xpc = "idle" /\ Room =>
       napi \in {"look", "wake"} \/ (napi = "free" /\ packets > 0)

\* Every action but a reopening keeps the promise.
LEMMA WakeStep ==
  ASSUME ~Reopen, IndexOK, WakeInv, [Next]_vars, up
  PROVE  WakeInv' /\ up'
<1>a. CASE UNCHANGED <<bytes, eop, tx_bd_tail, xpc, stopped, busy, napi, packets, up>>
  BY <1>a DEF WakeInv, Room, TxBdSpace, InUse, Plus
<1>1. CASE \/ XmitEnter \/ XmitCheck \/ XmitFrag \/ XmitHead \/ XmitUndo \/ XmitPublish
           \/ XmitTail \/ XmitScan \/ XmitKick \/ XmitSpace
  <2>1. ~stopped /\ UNCHANGED <<stopped, up>>
    BY <1>1 DEF WakeInv, XmitEnter, XmitCheck, XmitFrag, XmitHead, XmitUndo, XmitPublish,
         XmitTail, XmitScan, XmitKick, XmitSpace
  <2> QED BY <2>1 DEF WakeInv
<1>2. CASE XmitFull \/ XmitStop
  BY <1>2 DEF WakeInv, XmitFull, XmitStop
<1>3. CASE XmitRecheck
  BY <1>3 DEF WakeInv, XmitRecheck, Room, TxBdSpace, InUse, Plus
<1>4. CASE DmaXfer \/ DmaEnd
  <2>1. UNCHANGED <<bytes, eop, tx_bd_tail, xpc, stopped, busy, napi, packets, up>>
    BY <1>4, Zenon DEF DmaXfer, DmaEnd
  <2> QED BY <1>a, <2>1
<1>5. CASE TxIrq
  <2>1. UNCHANGED <<bytes, eop, tx_bd_tail, xpc, stopped, busy, packets, up>>
    BY <1>5, Zenon DEF TxIrq
  <2>2. napi' = IF napi = "idle" THEN "sched" ELSE napi
    BY <1>5 DEF TxIrq
  <2> QED BY <2>1, <2>2 DEF WakeInv, Room, TxBdSpace, InUse, Plus
<1>6. CASE PollStart
  BY <1>6 DEF PollStart, WakeInv, Room, TxBdSpace, InUse, Plus
<1>7. CASE PollFree
  <2>1. CASE packets < Budget /\ Completed(pidx)
    <3>1. napi' = "free" /\ packets' > 0 /\ UNCHANGED <<xpc, stopped, up>>
      BY <1>7, <2>1, TseTxAssumption DEF PollFree, IndexOK
    <3> QED BY <3>1 DEF WakeInv
  <2>2. CASE ~(packets < Budget /\ Completed(pidx))
    <3>1. UNCHANGED <<bytes, eop, tx_bd_tail, xpc, stopped, busy, packets, up>>
      BY <1>7, <2>2, Zenon DEF PollFree
    <3>2. napi = "free" /\ napi' = IF packets > 0 THEN "look" ELSE "complete"
      BY <1>7, <2>2, Zenon DEF PollFree
    <3> QED BY <3>1, <3>2 DEF WakeInv, Room, TxBdSpace, InUse, Plus
  <2> QED BY <2>1, <2>2
<1>8. CASE PollLook
  BY <1>8 DEF PollLook, WakeInv, Room, TxBdSpace, InUse, Plus
<1>9. CASE PollWake
  BY <1>9 DEF PollWake, WakeInv
<1>10. CASE PollComplete
  BY <1>10 DEF PollComplete, WakeInv, Room, TxBdSpace, InUse, Plus
<1>11. CASE TseStop \/ TseOpen
  BY <1>11 DEF TseStop, TseOpen
<1>12. CASE UNCHANGED vars
  BY <1>a, <1>12 DEF vars
<1> QED
  BY <1>1, <1>2, <1>3, <1>4, <1>5, <1>6, <1>7, <1>8, <1>9, <1>10, <1>11, <1>12
  DEF Next, Xmit, Dma, Poll

\* As long as the interface is up, start_xmit's stop and second look and the poll's wake never
\* leave the queue stopped with room in the ring, however they interleave.
THEOREM StopsHaveReason ==
  ASSUME ~Reopen
  PROVE  Spec => []StoppedNeedsReason
<1>1. Init => WakeInv /\ up
  BY DEF Init, WakeInv
<1>2. TypeOK /\ WakeInv /\ up /\ [Next]_vars => WakeInv' /\ up'
  BY WakeStep, TypeParts
<1>3. WakeInv => StoppedNeedsReason
  BY DEF WakeInv, StoppedNeedsReason, Room
<1> QED BY <1>1, <1>2, <1>3, TypeCorrect, PTL DEF Spec

(***************************************************************************)
(* The descriptors that carry packets.                                     *)
(***************************************************************************)
\* Distances add up, and tell descriptors apart.
LEMMA DistAdd ==
  ASSUME NEW a \in BD, NEW b \in BD, NEW c \in BD
  PROVE  /\ Dist(a, c) = IF Dist(a, b) + Dist(b, c) < N THEN Dist(a, b) + Dist(b, c)
                         ELSE Dist(a, b) + Dist(b, c) - N
         /\ Dist(a, b) = Dist(a, c) <=> b = c
BY TseTxAssumption DEF BD, Dist

\* The descriptors from tx_bd_ci to here carry packets: up to the tail, and between the
\* publication of a packet and the advance of the tail up to the end of that packet.
End == IF xpc = "tail" THEN Plus(newt, 1) ELSE tx_bd_tail

Inside(i) == Dist(tx_bd_ci, i) < Dist(tx_bd_ci, End)

\* A fragment of the packet being put together, behind its still unused head descriptor.
Filled(i) ==
  xpc \in {"frag", "head", "publish"} /\ 0 < Dist(orig, i) /\ Dist(orig, i) <= Dist(orig, newt)

\* The packet being put together fits, and the poll is where the ring begins.
FitInv ==
  /\ xpc \in {"head", "publish", "tail"} => Dist(orig, newt) = nf
  /\ xpc \in {"frag", "head", "publish"} => Dist(tx_bd_ci, tx_bd_tail) + nf + 2 < N
  /\ ~up => napi = "idle" /\ ~enabled /\ dma = "idle"
  /\ napi = "free" => pidx = tx_bd_ci

\* What each descriptor holds.  A packet whose sending has begun is followed by the rest of it.
SlotInv ==
  \A i \in BD :
    /\ Inside(i) => InUse(i) /\ ~Filled(i)
    /\ Filled(i) => bytes[i] # 0 /\ ~eop[i] /\ ~done[i]
    /\ ~Inside(i) /\ ~Filled(i) => ~InUse(i) /\ done[i]
    /\ Inside(i) /\ ~done[i] /\ ~eop[i] => Inside(Plus(i, 1)) /\ ~done[Plus(i, 1)]

\* Everything before i that carries a packet has been sent.
SentBefore(i) ==
  \A j \in BD : Dist(tx_bd_ci, j) < Dist(tx_bd_ci, i) => done[j]

\* The DMA channel and the scan for its next start are at the first descriptor not sent yet,
\* or at one that was reclaimed meanwhile.
DmaInv ==
  /\ dma # "xfer" => ~mid
  /\ dma = "xfer" => Inside(dpos) /\ ~done[dpos] /\ SentBefore(dpos)
  /\ xpc \in {"scan", "kick"} /\ Inside(head) => SentBefore(head)

RingTypes == IndexOK /\ DOMAIN eop = BD /\ DOMAIN done = BD

RingInv == TailInv /\ FitInv /\ SlotInv /\ DmaInv

\* The ring is larger than the largest packet by two, no mapping fails and no fragment has a
\* single byte (its control word would read as that of a free descriptor).
Regular == ~MapFaults /\ 1 \notin FragSizes /\ N >= MaxFrags + 3

\* A free descriptor n ahead of the tail means room for n.
LEMMA RoomMeans ==
  ASSUME RingTypes, SlotInv, xpc \notin {"frag", "head", "publish", "tail"}, NEW n \in 0 .. N - 1
  PROVE  ~InUse(Plus(tx_bd_tail, n)) <=> Dist(tx_bd_ci, tx_bd_tail) + n < N
<1> DEFINE x == Plus(tx_bd_tail, n)
           u == Dist(tx_bd_ci, tx_bd_tail)
<1>1. tx_bd_tail \in BD /\ tx_bd_ci \in BD
  BY DEF RingTypes, IndexOK
<1>2. x \in BD
  BY <1>1, PlusIs, TseTxAssumption
<1>3. Dist(tx_bd_tail, x) = n
  BY <1>1, <1>2, DistIs
<1>4. u \in 0 .. N - 1 /\ Dist(tx_bd_ci, x) = IF u + n < N THEN u + n ELSE u + n - N
  BY <1>1, <1>2, <1>3, DistIs, DistAdd
<1>5. Inside(x) <=> Dist(tx_bd_ci, x) < u
  BY DEF Inside, End
<1>6. ~Filled(x)
  BY DEF Filled
<1>7. Inside(x) <=> InUse(x)
  BY <1>2, <1>6 DEF SlotInv
<1> HIDE DEF x, u
<1>8. Inside(x) <=> ~(u + n < N)
  BY <1>4, <1>5, TseTxAssumption
<1> QED BY <1>7, <1>8 DEF x, u

\* A step that leaves descriptors and their bounds alone keeps what is said of them.
LEMMA SameRing ==
  ASSUME RingTypes, SlotInv,
         UNCHANGED <<bytes, eop, tx_bd_ci>>, End' = End,
         \A i \in BD : done'[i] <=> done[i],
         \A i \in BD : Filled(i)' <=> Filled(i)
  PROVE  /\ SlotInv'
         /\ \A i \in BD : Inside(i)' <=> Inside(i)
         /\ \A i \in BD : SentBefore(i)' <=> SentBefore(i)
<1>1. \A i \in BD : Inside(i)' <=> Inside(i)
  BY DEF Inside
<1>2. \A i \in BD : SentBefore(i)' <=> SentBefore(i)
  BY DEF SentBefore
<1>3. \A i \in BD : InUse(i)' <=> InUse(i)
  BY DEF InUse
<1>4. \A i \in BD : Plus(i, 1) \in BD /\ Plus(i, 1)' = Plus(i, 1)
  BY PlusIs, TseTxAssumption
<1>5. SlotInv'
  <2> SUFFICES ASSUME NEW i \in BD
               PROVE  /\ Inside(i)' => InUse(i)' /\ ~Filled(i)'
                      /\ Filled(i)' => bytes'[i] # 0 /\ ~eop'[i] /\ ~done'[i]
                      /\ ~Inside(i)' /\ ~Filled(i)' => ~InUse(i)' /\ done'[i]
                      /\ Inside(i)' /\ ~done'[i] /\ ~eop'[i]
                           => Inside(Plus(i, 1))' /\ ~done'[Plus(i, 1)]
    BY DEF SlotInv
  <2> QED BY <1>1, <1>3, <1>4 DEF SlotInv
<1> QED BY <1>1, <1>2, <1>5

\* Adding a fragment.
LEMMA FragStep ==
  ASSUME Regular, RingTypes, RingInv, XmitFrag
  PROVE  FitInv' /\ SlotInv' /\ DmaInv'
<1> DEFINE t == Plus(newt, 1)
           k == Dist(orig, newt)
           u == Dist(tx_bd_ci, orig)
<1> USE TseTxAssumption
<1>1. PICK s \in FragSizes :
        /\ xpc = "frag" /\ newt' = t
        /\ bytes' = [bytes EXCEPT ![t] = s - 1] /\ eop' = [eop EXCEPT ![t] = FALSE]
        /\ done' = [done EXCEPT ![t] = FALSE]
        /\ xpc' = (IF t = Plus(orig, nf) THEN "head" ELSE "frag")
        /\ UNCHANGED <<tx_bd_ci, tx_bd_tail, nf, orig, dma, dpos, mid, napi, pidx, up, enabled>>
  BY DEF Regular, XmitFrag
<1>2. /\ tx_bd_ci \in BD /\ orig \in BD /\ newt \in BD /\ dpos \in BD /\ nf \in Nat /\ nf < N
      /\ DOMAIN bytes = BD /\ DOMAIN eop = BD /\ DOMAIN done = BD
  BY DEF RingTypes, IndexOK
<1>3. orig = tx_bd_tail /\ k < nf /\ u + nf + 2 < N
  BY <1>1 DEF RingInv, TailInv, FitInv
<1>4. k \in 0 .. N - 1 /\ u \in 0 .. N - 1 /\ t \in BD
  BY <1>2, DistIs, PlusIs
<1>5. Dist(orig, t) = k + 1
  BY <1>2, <1>3, <1>4, DistIs
<1>6. Dist(tx_bd_ci, t) = u + k + 1
  BY <1>2, <1>3, <1>4, <1>5, DistAdd
<1>7. End = orig /\ End' = orig
  BY <1>1, <1>3 DEF End
<1> HIDE DEF t, k, u
<1>8. \A i \in BD : Inside(i)' <=> Inside(i)
  BY <1>1, <1>7 DEF Inside
<1>9. ~Inside(t) /\ \A i \in BD : Inside(i) => i # t
  <2>1. ~Inside(t)
    BY <1>4, <1>6, <1>7 DEF Inside, u
  <2> QED BY <2>1
<1>10. \A i \in BD : Filled(i)' <=> Filled(i) \/ i = t
  <2> TAKE i \in BD
  <2>1. Dist(orig, i) \in 0 .. N - 1 /\ (Dist(orig, i) = k + 1 <=> i = t)
    BY <1>2, <1>4, <1>5, DistIs, DistAdd
  <2>2. Filled(i) <=> 0 < Dist(orig, i) /\ Dist(orig, i) <= k
    BY <1>1 DEF Filled, k
  <2>3. Filled(i)' <=> 0 < Dist(orig, i) /\ Dist(orig, i) <= k + 1
    BY <1>1, <1>5 DEF Filled
  <2> QED BY <1>4, <2>1, <2>2, <2>3
<1>11. \A i \in BD : i # t => /\ bytes'[i] = bytes[i] /\ (eop'[i] <=> eop[i])
                              /\ (done'[i] <=> done[i]) /\ (InUse(i)' <=> InUse(i))
  BY <1>1, <1>2, <1>4 DEF InUse
<1>12. bytes'[t] # 0 /\ ~eop'[t] /\ ~done'[t]
  <2>1. s \in Nat /\ s # 0 /\ s # 1
    BY DEF Regular
  <2> QED BY <1>1, <1>2, <1>4, <2>1
<1>13. \A i \in BD : Plus(i, 1) \in BD /\ Plus(i, 1)' = Plus(i, 1)
  BY PlusIs
<1>14. SlotInv'
  <2> SUFFICES ASSUME NEW i \in BD
               PROVE  /\ Inside(i)' => InUse(i)' /\ ~Filled(i)'
                      /\ Filled(i)' => bytes'[i] # 0 /\ ~eop'[i] /\ ~done'[i]
                      /\ ~Inside(i)' /\ ~Filled(i)' => ~InUse(i)' /\ done'[i]
                      /\ Inside(i)' /\ ~done'[i] /\ ~eop'[i]
                           => Inside(Plus(i, 1))' /\ ~done'[Plus(i, 1)]
    BY DEF SlotInv
  <2>1. CASE i = t
    BY <1>8, <1>9, <1>10, <1>12, <2>1
  <2>2. CASE i # t
    BY <1>8, <1>9, <1>10, <1>11, <1>13, <2>2 DEF RingInv, SlotInv
  <2> QED BY <2>1, <2>2
<1>15. DmaInv'
  <2>1. xpc' \notin {"scan", "kick"}
    BY <1>1
  <2>2. dma = "xfer" => Inside(dpos)' /\ ~done'[dpos]
    BY <1>1, <1>2, <1>7, <1>9, <1>11 DEF RingInv, DmaInv, Inside
  <2>3. dma = "xfer" => SentBefore(dpos)'
    <3> SUFFICES ASSUME dma = "xfer", NEW j \in BD,
                        Dist(tx_bd_ci, j) < Dist(tx_bd_ci, dpos)
                 PROVE  done'[j]
      BY <1>1 DEF SentBefore
    <3>1. done[j] /\ Inside(dpos)
      BY DEF RingInv, DmaInv, SentBefore
    <3>2. Inside(j)
      BY <1>2, <3>1, <1>7, DistIs DEF Inside
    <3> QED BY <1>9, <1>11, <3>1, <3>2
  <2> QED BY <1>1, <2>1, <2>2, <2>3 DEF RingInv, DmaInv
<1>16. FitInv'
  <2>1. t = Plus(orig, nf) <=> k + 1 = nf
    BY <1>2, <1>4, <1>5, DistIs
  <2>2. xpc' = "head" => Dist(orig, newt)' = nf
    BY <1>1, <1>5, <2>1
  <2>3. Dist(tx_bd_ci, tx_bd_tail)' = u
    BY <1>1, <1>3 DEF u
  <2> QED BY <1>1, <1>3, <2>2, <2>3 DEF RingInv, FitInv
<1> QED BY <1>14, <1>15, <1>16

\* Publishing a packet.
LEMMA PublishStep ==
  ASSUME Regular, RingTypes, RingInv, XmitPublish
  PROVE  FitInv' /\ SlotInv' /\ DmaInv'
<1> DEFINE u == Dist(tx_bd_ci, orig)
<1> USE TseTxAssumption
<1>1. /\ xpc = "publish" /\ xpc' = "tail"
      /\ eop' = [eop EXCEPT ![orig] = FALSE, ![newt] = TRUE]
      /\ bytes' = [bytes EXCEPT ![orig] = 1] /\ done' = [done EXCEPT ![orig] = FALSE]
      /\ UNCHANGED <<tx_bd_ci, tx_bd_tail, nf, orig, newt, dma, dpos, mid, napi, pidx, up, enabled>>
  BY DEF XmitPublish
<1>2. /\ tx_bd_ci \in BD /\ orig \in BD /\ newt \in BD /\ dpos \in BD /\ nf \in Nat
      /\ DOMAIN bytes = BD /\ DOMAIN eop = BD /\ DOMAIN done = BD
  BY DEF RingTypes, IndexOK
<1>3. orig = tx_bd_tail /\ Dist(orig, newt) = nf /\ u + nf + 2 < N
  BY <1>1 DEF RingInv, TailInv, FitInv
<1>4. u \in 0 .. N - 1
  BY <1>2, DistIs
<1>5. Dist(tx_bd_ci, newt) = u + nf
  BY <1>2, <1>3, <1>4, DistAdd
<1>6. Dist(tx_bd_ci, Plus(newt, 1)) = u + nf + 1
  BY <1>2, <1>3, <1>4, <1>5, DistIs
<1>7. End = orig /\ End' = Plus(newt, 1)
  BY <1>1, <1>3 DEF End
<1> HIDE DEF u
<1>8. \A i \in BD : Inside(i)' <=> Inside(i) \/ i = orig \/ Filled(i)
  <2> TAKE i \in BD
  <2>1. Inside(i)' <=> Dist(tx_bd_ci, i) < u + nf + 1
    BY <1>1, <1>6, <1>7 DEF Inside
  <2>2. Inside(i) <=> Dist(tx_bd_ci, i) < u
    BY <1>7 DEF Inside, u
  <2>3. Filled(i) <=> 0 < Dist(orig, i) /\ Dist(orig, i) <= nf
    BY <1>1, <1>3 DEF Filled
  <2>4. Dist(orig, i) \in 0 .. N - 1 /\ (Dist(orig, i) = 0 <=> i = orig)
    BY <1>2, DistIs
  <2>5. Dist(tx_bd_ci, i) = IF u + Dist(orig, i) < N THEN u + Dist(orig, i)
                            ELSE u + Dist(orig, i) - N
    BY <1>2, DistAdd DEF u
  <2> QED BY <1>2, <1>3, <1>4, <2>1, <2>2, <2>3, <2>4, <2>5
<1>9. ~Inside(orig) /\ ~Inside(newt) /\ (newt = orig \/ Filled(newt))
  <2>1. ~Inside(orig) /\ ~Inside(newt)
    BY <1>2, <1>4, <1>5, <1>7 DEF Inside, u
  <2>2. nf = 0 => newt = orig
    BY <1>2, <1>3, DistIs
  <2> QED BY <1>1, <1>2, <1>3, <2>1, <2>2 DEF Filled
<1>10. \A i \in BD : ~Filled(i)'
  BY <1>1 DEF Filled
<1>11. \A i \in BD : i # orig /\ i # newt =>
         bytes'[i] = bytes[i] /\ (eop'[i] <=> eop[i]) /\ (InUse(i)' <=> InUse(i))
  BY <1>1, <1>2 DEF InUse
<1>12. \A i \in BD : i # orig => (done'[i] <=> done[i]) /\ bytes'[i] = bytes[i]
  BY <1>1, <1>2
<1>13. eop'[newt] /\ InUse(newt)' /\ InUse(orig)' /\ ~done'[orig]
  BY <1>1, <1>2 DEF InUse
<1>14. \A i \in BD : Plus(i, 1) \in BD /\ Plus(i, 1)' = Plus(i, 1)
  BY PlusIs
<1>15. \A i \in BD : (i = orig \/ Filled(i)) /\ i # newt => Filled(Plus(i, 1))
  <2> TAKE i \in BD
  <2> HAVE (i = orig \/ Filled(i)) /\ i # newt
  <2>a. Dist(orig, i) \in 0 .. N - 1 /\ (Dist(orig, i) = 0 <=> i = orig)
    BY <1>2, DistIs
  <2>b. Dist(orig, i) = Dist(orig, newt) <=> i = newt
    BY <1>2, DistAdd
  <2>1. /\ Dist(orig, i) \in 0 .. N - 1 /\ (Dist(orig, i) = 0 <=> i = orig)
        /\ Dist(orig, i) # nf
    BY <1>3, <2>a, <2>b
  <2>2. Dist(orig, i) < nf
    BY <1>1, <1>2, <1>3, <2>1 DEF Filled
  <2>3. Dist(orig, Plus(i, 1)) = Dist(orig, i) + 1
    BY <1>2, <1>3, <1>4, <2>1, <2>2, DistIs
  <2> QED BY <1>1, <1>2, <1>3, <2>1, <2>2, <2>3 DEF Filled
<1>16. SlotInv'
  <2> SUFFICES ASSUME NEW i \in BD
               PROVE  /\ Inside(i)' => InUse(i)' /\ ~Filled(i)'
                      /\ Filled(i)' => bytes'[i] # 0 /\ ~eop'[i] /\ ~done'[i]
                      /\ ~Inside(i)' /\ ~Filled(i)' => ~InUse(i)' /\ done'[i]
                      /\ Inside(i)' /\ ~done'[i] /\ ~eop'[i]
                           => Inside(Plus(i, 1))' /\ ~done'[Plus(i, 1)]
    BY DEF SlotInv
  <2>1. Inside(i)' => InUse(i)' /\ ~Filled(i)'
    <3>1. Filled(i) => InUse(i)
      BY DEF RingInv, SlotInv, InUse
    <3>2. Inside(i) => InUse(i)
      BY DEF RingInv, SlotInv
    <3>3. i = orig => InUse(i)'
      BY <1>1, <1>2 DEF InUse
    <3>4. i = newt => InUse(i)'
      BY <1>1, <1>2 DEF InUse
    <3> QED BY <1>8, <1>10, <1>11, <3>1, <3>2, <3>3, <3>4
  <2>2. ~Inside(i)' => ~InUse(i)' /\ done'[i]
    BY <1>8, <1>9, <1>11, <1>12 DEF RingInv, SlotInv
  <2>3. ASSUME Inside(i)', ~done'[i], ~eop'[i]
        PROVE  Inside(Plus(i, 1))' /\ ~done'[Plus(i, 1)]
    <3>1. CASE Inside(i)
      <4>1. i # orig /\ i # newt
        BY <1>9, <3>1
      <4>2. Inside(Plus(i, 1)) /\ ~done[Plus(i, 1)]
        BY <1>11, <1>12, <2>3, <3>1, <4>1 DEF RingInv, SlotInv
      <4>3. Plus(i, 1) # orig
        BY <1>9, <4>2
      <4> QED BY <1>8, <1>12, <1>14, <4>2, <4>3
    <3>2. CASE i = orig \/ Filled(i)
      <4>1. Filled(Plus(i, 1))
        BY <1>13, <1>15, <2>3, <3>2
      <4>2. ~done[Plus(i, 1)] /\ Plus(i, 1) # orig
        <5>1. ~Filled(orig)
          BY <1>2, DistIs DEF Filled
        <5> QED BY <1>14, <4>1, <5>1 DEF RingInv, SlotInv
      <4> QED BY <1>8, <1>12, <1>14, <4>1, <4>2
    <3> QED BY <1>8, <2>3, <3>1, <3>2
  <2> QED BY <1>10, <2>1, <2>2, <2>3
<1>17. DmaInv'
  <2>1. dma = "xfer" => Inside(dpos)' /\ ~done'[dpos]
    <3>1. dma = "xfer" => Inside(dpos) /\ ~done[dpos]
      BY DEF RingInv, DmaInv
    <3>2. dma = "xfer" => dpos # orig
      BY <1>9, <3>1
    <3>3. dma = "xfer" => Dist(tx_bd_ci, dpos) < u
      BY <1>7, <3>1 DEF Inside, u
    <3>4. Dist(tx_bd_ci, dpos) \in 0 .. N - 1
      BY <1>2, DistIs
    <3>5. dma = "xfer" => Dist(tx_bd_ci, dpos) < u + nf + 1
      BY <1>2, <1>4, <3>3, <3>4
    <3>6. dma = "xfer" => Inside(dpos)'
      BY <1>1, <1>6, <1>7, <3>5 DEF Inside
    <3> QED BY <1>2, <1>12, <3>1, <3>2, <3>6
  <2>2. dma = "xfer" => SentBefore(dpos)'
    <3> SUFFICES ASSUME dma = "xfer", NEW j \in BD,
                        Dist(tx_bd_ci, j) < Dist(tx_bd_ci, dpos)
                 PROVE  done'[j]
      BY <1>1 DEF SentBefore
    <3>1. done[j] /\ Inside(dpos)
      BY DEF RingInv, DmaInv, SentBefore
    <3>2. Inside(j)
      BY <1>2, <3>1, <1>7, DistIs DEF Inside
    <3> QED BY <1>9, <1>12, <3>1, <3>2
  <2> QED BY <1>1, <2>1, <2>2 DEF RingInv, DmaInv
<1>18. FitInv'
  BY <1>1, <1>3 DEF RingInv, FitInv
<1> QED BY <1>16, <1>17, <1>18

\* A step that leaves the ring and the DMA channel alone.
LEMMA QuietStep ==
  ASSUME RingTypes, RingInv,
         UNCHANGED <<bytes, eop, tx_bd_ci, dma, dpos, mid, head>>, End' = End,
         \A i \in BD : done'[i] <=> done[i],
         \A i \in BD : Filled(i)' <=> Filled(i),
         xpc' \in {"scan", "kick"} => xpc \in {"scan", "kick"}
  PROVE  SlotInv' /\ DmaInv'
<1>1. SlotInv'
  BY SameRing DEF RingInv
<1>2. dpos \in BD /\ head \in BD
  BY DEF RingTypes, IndexOK
<1>3. DmaInv'
  BY <1>2 DEF RingInv, DmaInv, Inside, SentBefore
<1> QED BY <1>1, <1>3

\* The end of what carries packets does not carry one itself, and is COMPLETED.
LEMMA EndIsDone ==
  ASSUME RingTypes, RingInv
  PROVE  End \in BD /\ done[End] /\ ~InUse(End) /\ ~Inside(End)
<1>1. /\ tx_bd_ci \in BD /\ tx_bd_tail \in BD /\ newt \in BD
  BY DEF RingTypes, IndexOK
<1>2. End \in BD
  BY <1>1, PlusIs, TseTxAssumption DEF End
<1>3. Dist(tx_bd_ci, End) \in 0 .. N - 1
  BY <1>1, <1>2, DistIs
<1>4. ~Inside(End)
  BY <1>3 DEF Inside
<1>5. ~Filled(End)
  <2>1. CASE xpc \in {"frag", "head", "publish"}
    <3>1. End = orig
      BY <2>1 DEF RingInv, TailInv, End
    <3>2. Dist(orig, orig) = 0
      BY <1>2, <3>1, DistIs
    <3> QED BY <3>1, <3>2 DEF Filled
  <2> QED BY <2>1 DEF Filled
<1> QED BY <1>2, <1>4, <1>5 DEF RingInv, SlotInv

\* Inside the ring the next descriptor is one further on.
LEMMA NextInside ==
  ASSUME RingTypes, RingInv, NEW i \in BD, Inside(i)
  PROVE  /\ Plus(i, 1) \in BD
         /\ Dist(tx_bd_ci, i) \in Nat
         /\ Dist(tx_bd_ci, Plus(i, 1)) = Dist(tx_bd_ci, i) + 1
         /\ Inside(Plus(i, 1)) \/ Plus(i, 1) = End
<1>1. tx_bd_ci \in BD /\ End \in BD
  BY EndIsDone DEF RingTypes, IndexOK
<1>2. Dist(tx_bd_ci, End) \in 0 .. N - 1 /\ Dist(tx_bd_ci, i) \in 0 .. N - 1
  BY <1>1, DistIs
<1>3. Dist(tx_bd_ci, i) < Dist(tx_bd_ci, End)
  BY DEF Inside
<1>4. Plus(i, 1) \in BD
  BY PlusIs, TseTxAssumption
<1>5. Dist(tx_bd_ci, Plus(i, 1)) = Dist(tx_bd_ci, i) + 1
  BY <1>1, <1>2, <1>3, DistIs, TseTxAssumption
<1>6. Dist(tx_bd_ci, Plus(i, 1)) = Dist(tx_bd_ci, End) <=> Plus(i, 1) = End
  BY <1>1, <1>4, DistAdd
<1>7. Inside(Plus(i, 1)) <=> Dist(tx_bd_ci, Plus(i, 1)) < Dist(tx_bd_ci, End)
  BY DEF Inside
<1> QED BY <1>2, <1>3, <1>4, <1>5, <1>6, <1>7

\* A descriptor is sent and the DMA goes on to the next, which belongs to the same packet
\* unless this one ended it.
LEMMA DmaXferStep ==
  ASSUME RingTypes, RingInv, DmaXfer
  PROVE  FitInv' /\ SlotInv' /\ DmaInv'
<1> DEFINE t == Plus(dpos, 1)
<1>1. /\ dma = "xfer" /\ dpos' = t /\ mid' = ~eop[dpos]
      /\ dma' = "xfer" <=> ~done[t]
      /\ done' = [done EXCEPT ![dpos] = TRUE]
      /\ UNCHANGED <<bytes, eop, tx_bd_ci, tx_bd_tail, xpc, nf, orig, newt, head, napi, pidx,
                     up, enabled>>
  BY DEF DmaXfer, DmaArrive
<1>2. /\ tx_bd_ci \in BD /\ dpos \in BD /\ head \in BD
      /\ DOMAIN eop = BD /\ DOMAIN done = BD
  BY DEF RingTypes, IndexOK
<1>3. Inside(dpos) /\ ~done[dpos] /\ SentBefore(dpos)
  BY <1>1 DEF RingInv, DmaInv
<1>4. /\ t \in BD /\ Dist(tx_bd_ci, dpos) \in Nat
      /\ Dist(tx_bd_ci, t) = Dist(tx_bd_ci, dpos) + 1
      /\ Inside(t) \/ t = End
  BY <1>2, <1>3, NextInside
<1>5. done[End] /\ End' = End
  BY <1>1, EndIsDone DEF End
<1>6. /\ done'[dpos]
      /\ \A i \in BD : i # dpos => (done'[i] <=> done[i])
      /\ \A i \in BD : done[i] => done'[i]
  BY <1>1, <1>2
<1>7. \A i \in BD : (Inside(i)' <=> Inside(i)) /\ (Filled(i)' <=> Filled(i))
                    /\ (InUse(i)' <=> InUse(i))
  BY <1>1, <1>5 DEF Inside, Filled, InUse
<1> HIDE DEF t
<1>8. SlotInv'
  <2> SUFFICES ASSUME NEW i \in BD
               PROVE  /\ Inside(i)' => InUse(i)' /\ ~Filled(i)'
                      /\ Filled(i)' => bytes'[i] # 0 /\ ~eop'[i] /\ ~done'[i]
                      /\ ~Inside(i)' /\ ~Filled(i)' => ~InUse(i)' /\ done'[i]
                      /\ Inside(i)' /\ ~done'[i] /\ ~eop'[i]
                           => Inside(Plus(i, 1))' /\ ~done'[Plus(i, 1)]
    BY DEF SlotInv
  <2>1. ~Filled(dpos)
    BY <1>2, <1>3 DEF RingInv, SlotInv
  <2>2. ASSUME Inside(i), ~done'[i], ~eop[i]
        PROVE  Inside(Plus(i, 1))' /\ ~done'[Plus(i, 1)]
    <3>1. ~done[i]
      BY <1>6, <2>2
    <3>2. Inside(Plus(i, 1)) /\ ~done[Plus(i, 1)]
      BY <2>2, <3>1 DEF RingInv, SlotInv
    <3>3. /\ Plus(i, 1) \in BD /\ Dist(tx_bd_ci, i) \in Nat
          /\ Dist(tx_bd_ci, Plus(i, 1)) = Dist(tx_bd_ci, i) + 1
      BY <2>2, NextInside
    <3>4. Plus(i, 1) # dpos
      BY <1>3, <3>1, <3>3 DEF SentBefore
    <3> QED BY <1>6, <1>7, <3>2, <3>3, <3>4
  <2> QED BY <1>1, <1>6, <1>7, <2>1, <2>2 DEF RingInv, SlotInv
<1>9. DmaInv'
  <2>1. dma' # "xfer" => ~mid'
    BY <1>1, <1>2, <1>3 DEF RingInv, SlotInv, t
  <2>2. dma' = "xfer" => Inside(t) /\ ~done'[t]
    BY <1>1, <1>2, <1>4, <1>5
  <2>3. ASSUME NEW j \in BD, Dist(tx_bd_ci, j) < Dist(tx_bd_ci, t)
        PROVE  done'[j]
    <3>1. Dist(tx_bd_ci, j) \in 0 .. N - 1
      BY <1>2, DistIs
    <3>2. Dist(tx_bd_ci, j) < Dist(tx_bd_ci, dpos) \/ Dist(tx_bd_ci, j) = Dist(tx_bd_ci, dpos)
      BY <1>4, <2>3, <3>1
    <3>3. Dist(tx_bd_ci, j) = Dist(tx_bd_ci, dpos) <=> j = dpos
      BY <1>2, DistAdd
    <3>4. Dist(tx_bd_ci, j) < Dist(tx_bd_ci, dpos) => done[j]
      BY <1>3 DEF SentBefore
    <3> QED BY <1>6, <3>2, <3>3, <3>4
  <2>4. dma' = "xfer" => Inside(dpos)' /\ ~done'[dpos'] /\ SentBefore(dpos)'
    BY <1>1, <1>5, <2>2, <2>3 DEF Inside, SentBefore
  <2>5. xpc \in {"scan", "kick"} /\ Inside(head) => SentBefore(head)
    BY DEF RingInv, DmaInv
  <2>6. (xpc \in {"scan", "kick"})' /\ Inside(head)' => SentBefore(head)'
    BY <1>1, <1>5, <1>6, <2>5 DEF Inside, SentBefore
  <2> QED BY <2>1, <2>4, <2>6 DEF DmaInv
<1>10. FitInv'
  BY <1>1 DEF RingInv, FitInv
<1> QED BY <1>8, <1>9, <1>10

\* The poll releases the first descriptor of the ring.
LEMMA PollFreeStep ==
  ASSUME RingTypes, RingInv, PollFree, Completed(pidx), packets < Budget
  PROVE  FitInv' /\ SlotInv' /\ DmaInv'
<1> DEFINE c == tx_bd_ci
           d == Plus(tx_bd_ci, 1)
<1>1. /\ napi = "free" /\ pidx = c /\ tx_bd_ci' = d /\ pidx' = d /\ up
      /\ bytes' = [bytes EXCEPT ![c] = 0] /\ eop' = [eop EXCEPT ![c] = FALSE]
      /\ done' = [done EXCEPT ![c] = TRUE]
      /\ UNCHANGED <<tx_bd_tail, xpc, nf, orig, newt, head, napi, dma, dpos, mid, up, enabled>>
  BY DEF PollFree, RingInv, FitInv
<1>2. /\ c \in BD /\ tx_bd_tail \in BD /\ dpos \in BD /\ head \in BD
      /\ DOMAIN bytes = BD /\ DOMAIN eop = BD /\ DOMAIN done = BD
  BY DEF RingTypes, IndexOK
<1>3. Inside(c) /\ ~Filled(c) /\ done[c]
  BY <1>1, <1>2 DEF Completed, RingInv, SlotInv
<1>4. End \in BD /\ End' = End
  BY <1>1, EndIsDone DEF End
<1>5. c # End
  BY <1>3, EndIsDone
<1>6. \A i \in BD : /\ Dist(c, i) \in 0 .. N - 1
                    /\ Dist(d, i) = IF c = i THEN N - 1 ELSE Dist(c, i) - 1
  BY <1>2, DistIs
<1>7. \A i \in BD : Inside(i)' <=> Inside(i) /\ i # c
  <2> TAKE i \in BD
  <2>1. Inside(i)' <=> Dist(d, i) < Dist(d, End)
    BY <1>1, <1>4 DEF Inside
  <2>2. Inside(i) <=> Dist(c, i) < Dist(c, End)
    BY DEF Inside
  <2> HIDE DEF c, d
  <2> QED BY <1>4, <1>5, <1>6, <2>1, <2>2, TseTxAssumption
<1>8. \A i \in BD : Filled(i)' <=> Filled(i)
  BY <1>1 DEF Filled
<1>9. \A i \in BD : i # c => /\ bytes'[i] = bytes[i] /\ (eop'[i] <=> eop[i])
                             /\ (done'[i] <=> done[i]) /\ (InUse(i)' <=> InUse(i))
  BY <1>1, <1>2 DEF InUse
<1>10. bytes'[c] = 0 /\ ~eop'[c] /\ done'[c]
  BY <1>1, <1>2
<1>11. \A i \in BD : Plus(i, 1) \in BD /\ Plus(i, 1)' = Plus(i, 1)
  BY PlusIs, TseTxAssumption
<1>12. SlotInv'
  <2> SUFFICES ASSUME NEW i \in BD
               PROVE  /\ Inside(i)' => InUse(i)' /\ ~Filled(i)'
                      /\ Filled(i)' => bytes'[i] # 0 /\ ~eop'[i] /\ ~done'[i]
                      /\ ~Inside(i)' /\ ~Filled(i)' => ~InUse(i)' /\ done'[i]
                      /\ Inside(i)' /\ ~done'[i] /\ ~eop'[i]
                           => Inside(Plus(i, 1))' /\ ~done'[Plus(i, 1)]
    BY DEF SlotInv
  <2>1. CASE i = c
    <3>1. ~Inside(i)' /\ ~Filled(i)'
      BY <1>2, <1>3, <1>7, <1>8, <2>1
    <3>2. ~InUse(i)' /\ done'[i]
      BY <1>10, <2>1 DEF InUse
    <3> QED BY <3>1, <3>2
  <2>2. CASE i # c
    <3>1. Inside(i) /\ ~done[i] /\ ~eop[i] =>
            Inside(Plus(i, 1)) /\ ~done[Plus(i, 1)] /\ Plus(i, 1) # c
      BY <1>3 DEF RingInv, SlotInv
    <3> QED BY <1>7, <1>8, <1>9, <1>11, <2>2, <3>1 DEF RingInv, SlotInv
  <2> QED BY <2>1, <2>2
<1>13. ASSUME NEW i \in BD, i # c, Inside(i), SentBefore(i), NEW j \in BD,
              Dist(d, j) < Dist(d, i)
       PROVE  done'[j]
  <2>1. CASE j = c
    BY <1>10, <2>1
  <2>2. CASE j # c
    <3>1. Dist(c, j) < Dist(c, i)
      <4> HIDE DEF c, d
      <4> QED BY <1>6, <1>13, <2>2, TseTxAssumption
    <3>2. done[j]
      BY <1>13, <3>1 DEF SentBefore
    <3> QED BY <1>9, <2>2, <3>2
  <2> QED BY <2>1, <2>2
<1>14. DmaInv'
  <2>1. dma = "xfer" => /\ Inside(dpos) /\ ~done[dpos] /\ SentBefore(dpos) /\ dpos # c
    BY <1>3 DEF RingInv, DmaInv
  <2>2. dma = "xfer" => Dist(d, dpos) < Dist(d, End)
    <3>1. dma = "xfer" => Dist(c, dpos) < Dist(c, End)
      BY <2>1 DEF Inside
    <3> HIDE DEF c, d
    <3> QED BY <1>2, <1>4, <1>5, <1>6, <2>1, <3>1
  <2>3. dma = "xfer" => Inside(dpos)' /\ ~done'[dpos'] /\ SentBefore(dpos)'
    <3>1. dma = "xfer" => Inside(dpos)' /\ ~done'[dpos']
      BY <1>1, <1>2, <1>4, <1>9, <2>1, <2>2 DEF Inside
    <3>2. dma = "xfer" => SentBefore(dpos)'
      BY <1>1, <1>2, <1>13, <2>1 DEF SentBefore
    <3> QED BY <3>1, <3>2
  <2>4. ASSUME xpc \in {"scan", "kick"}, Dist(d, head) < Dist(d, End)
        PROVE  head # c /\ Inside(head) /\ SentBefore(head)
    <3>1. head # c /\ Dist(c, head) < Dist(c, End)
      <4> HIDE DEF c, d
      <4> QED BY <1>2, <1>4, <1>5, <1>6, <2>4, TseTxAssumption
    <3>2. Inside(head)
      BY <3>1 DEF Inside
    <3> QED BY <2>4, <3>1, <3>2 DEF RingInv, DmaInv
  <2>5. (xpc \in {"scan", "kick"})' /\ Inside(head)' => SentBefore(head)'
    BY <1>1, <1>2, <1>4, <1>13, <2>4 DEF Inside, SentBefore
  <2> QED BY <1>1, <2>3, <2>5 DEF RingInv, DmaInv
<1>15. FitInv'
  <2>1. xpc \in {"frag", "head", "publish"} =>
          /\ Dist(c, tx_bd_tail) + nf + 2 < N /\ tx_bd_tail = End
    BY DEF RingInv, FitInv, End
  <2>2. xpc \in {"frag", "head", "publish"} => Dist(d, tx_bd_tail) + nf + 2 < N
    <3>1. nf \in Nat
      BY TseTxAssumption DEF RingTypes, IndexOK
    <3> HIDE DEF c, d
    <3> QED BY <1>2, <1>5, <1>6, <2>1, <3>1, TseTxAssumption
  <2> QED BY <1>1, <2>2 DEF RingInv, FitInv
<1> QED BY <1>12, <1>14, <1>15

\* The tail moves behind the packet that was published, to a descriptor that is free.
LEMMA XmitTailStep ==
  ASSUME RingTypes, RingInv, XmitTail
  PROVE  FitInv' /\ SlotInv' /\ DmaInv'
<1>1. /\ xpc = "tail" /\ xpc' = "scan" /\ head' = tx_bd_ci
      /\ tx_bd_tail' = End /\ done' = [done EXCEPT ![End] = TRUE] /\ End' = End
      /\ UNCHANGED <<bytes, eop, tx_bd_ci, dma, dpos, mid, napi, pidx, up, enabled>>
  BY DEF XmitTail, End
<1>2. /\ tx_bd_ci \in BD /\ dpos \in BD /\ DOMAIN done = BD
  BY DEF RingTypes, IndexOK
<1>3. \A i \in BD : (done'[i] <=> done[i]) /\ (Filled(i)' <=> Filled(i))
  BY <1>1, <1>2, EndIsDone DEF Filled
<1>4. SlotInv'
  BY <1>1, <1>3, SameRing DEF RingInv
<1>5. \A j \in BD : ~(Dist(tx_bd_ci, j) < Dist(tx_bd_ci, tx_bd_ci))
  <2> TAKE j \in BD
  <2>1. Dist(tx_bd_ci, j) \in 0 .. N - 1 /\ Dist(tx_bd_ci, tx_bd_ci) = 0
    BY <1>2, DistIs
  <2> QED BY <2>1
<1>6. SentBefore(head)'
  BY <1>1, <1>5 DEF SentBefore
<1>7. DmaInv'
  <2>1. dma' = "xfer" => Inside(dpos)' /\ ~done'[dpos'] /\ SentBefore(dpos)'
    BY <1>1, <1>2, <1>3 DEF RingInv, DmaInv, Inside, SentBefore
  <2> QED BY <1>1, <1>6, <2>1 DEF RingInv, DmaInv
<1>8. FitInv'
  BY <1>1 DEF RingInv, FitInv
<1> QED BY <1>4, <1>7, <1>8

\* The check for room before a packet is put together.
LEMMA CheckStep ==
  ASSUME Regular, RingTypes, RingInv, XmitCheck
  PROVE  FitInv' /\ SlotInv' /\ DmaInv'
<1>1. /\ xpc = "check" /\ xpc' \in {"full", "head", "frag"}
      /\ xpc' # "full" => ~InUse(Plus(tx_bd_tail, nf + 1 + 1))
      /\ xpc' = "head" => nf = 0
      /\ UNCHANGED <<bytes, eop, done, tx_bd_ci, tx_bd_tail, nf, orig, newt, head, dma, dpos, mid,
                     napi, pidx, up, enabled>>
  BY DEF XmitCheck, TxBdSpace
<1>2. newt = orig /\ End' = End
  BY <1>1 DEF RingInv, TailInv, End
<1>3. orig \in BD /\ tx_bd_ci \in BD /\ tx_bd_tail \in BD /\ nf \in Nat /\ nf <= MaxFrags
  BY TseTxAssumption DEF RingTypes, IndexOK
<1>4. Dist(orig, newt) = 0
  BY <1>2, <1>3, DistIs
<1>5. \A i \in BD : Dist(orig, i) \in 0 .. N - 1
  BY <1>3, DistIs
<1>6. \A i \in BD : ~Filled(i)' /\ ~Filled(i)
  BY <1>1, <1>4, <1>5 DEF Filled
<1>7. SlotInv' /\ DmaInv'
  BY <1>1, <1>2, <1>6, QuietStep
<1>8. nf + 2 \in 0 .. N - 1 /\ nf + 2 = nf + 1 + 1
  BY <1>3, TseTxAssumption DEF Regular
<1>9. xpc' # "full" => Dist(tx_bd_ci, tx_bd_tail) + (nf + 2) < N
  BY <1>1, <1>8, RoomMeans DEF RingInv
<1>10. Dist(tx_bd_ci, tx_bd_tail) \in 0 .. N - 1
  BY <1>3, DistIs
<1>11. xpc' # "full" => Dist(tx_bd_ci, tx_bd_tail) + nf + 2 < N
  BY <1>3, <1>9, <1>10, TseTxAssumption
<1>12. FitInv'
  BY <1>1, <1>4, <1>11 DEF RingInv, FitInv
<1> QED BY <1>7, <1>12

\* The scan for the first descriptor not sent yet.
LEMMA ScanStep ==
  ASSUME RingTypes, RingInv, XmitScan
  PROVE  FitInv' /\ SlotInv' /\ DmaInv'
<1>1. /\ xpc = "scan" /\ xpc' \in {"scan", "kick"} /\ End' = End
      /\ UNCHANGED <<bytes, eop, done, tx_bd_ci, tx_bd_tail, nf, orig, newt, dma, dpos, mid,
                     napi, pidx, up, enabled>>
  BY DEF XmitScan, End
<1>2. tx_bd_ci \in BD /\ head \in BD /\ dpos \in BD
  BY DEF RingTypes, IndexOK
<1>3. \A i \in BD : ~Filled(i)' /\ ~Filled(i)
  BY <1>1 DEF Filled
<1>4. SlotInv'
  BY <1>1, <1>3, SameRing DEF RingInv
<1>5. CASE head' = head
  BY <1>1, <1>2, <1>3, <1>5, QuietStep DEF RingInv, FitInv
<1>6. CASE head' = Plus(head, 1) /\ Completed(head)
  <2>1. Inside(head) /\ done[head]
    BY <1>2, <1>3, <1>6 DEF RingInv, SlotInv, Completed
  <2>2. SentBefore(head)
    BY <1>1, <2>1 DEF RingInv, DmaInv
  <2>3. /\ Dist(tx_bd_ci, head) \in Nat
        /\ Dist(tx_bd_ci, Plus(head, 1)) = Dist(tx_bd_ci, head) + 1
    BY <1>2, <2>1, NextInside
  <2>4. ASSUME NEW j \in BD, Dist(tx_bd_ci, j) < Dist(tx_bd_ci, Plus(head, 1))
        PROVE  done[j]
    <3>1. Dist(tx_bd_ci, j) \in 0 .. N - 1
      BY <1>2, DistIs
    <3>2. Dist(tx_bd_ci, j) < Dist(tx_bd_ci, head) \/ Dist(tx_bd_ci, j) = Dist(tx_bd_ci, head)
      BY <2>3, <2>4, <3>1
    <3>3. Dist(tx_bd_ci, j) = Dist(tx_bd_ci, head) <=> j = head
      BY <1>2, DistAdd
    <3>4. Dist(tx_bd_ci, j) < Dist(tx_bd_ci, head) => done[j]
      BY <2>2 DEF SentBefore
    <3> QED BY <2>1, <3>2, <3>3, <3>4
  <2>5. SentBefore(head)'
    BY <1>1, <1>6, <2>4 DEF SentBefore
  <2>6. dma' = "xfer" => Inside(dpos)' /\ ~done'[dpos'] /\ SentBefore(dpos)'
    BY <1>1 DEF RingInv, DmaInv, Inside, SentBefore
  <2>7. DmaInv'
    BY <1>1, <2>5, <2>6 DEF RingInv, DmaInv
  <2> QED BY <1>1, <1>4, <2>7 DEF RingInv, FitInv
<1> QED BY <1>5, <1>6 DEF XmitScan

\* The DMA is started at the descriptor the scan found.
LEMMA KickStep ==
  ASSUME RingTypes, RingInv, XmitKick
  PROVE  FitInv' /\ SlotInv' /\ DmaInv'
<1>1. /\ xpc = "kick" /\ xpc' = "space" /\ End' = End
      /\ UNCHANGED <<bytes, eop, done, tx_bd_ci, tx_bd_tail, nf, orig, newt, head, mid,
                     napi, pidx, up, enabled>>
  BY DEF XmitKick, End
<1>2. tx_bd_ci \in BD /\ head \in BD /\ dpos \in BD
  BY DEF RingTypes, IndexOK
<1>3. \A i \in BD : ~Filled(i)' /\ ~Filled(i)
  BY <1>1 DEF Filled
<1>a. FitInv'
  BY <1>1 DEF XmitKick, RingInv, FitInv, TailInv
<1>4. CASE dma # "idle"
  <2>1. UNCHANGED <<dma, dpos>>
    BY <1>4 DEF XmitKick
  <2> QED BY <1>a, <1>1, <1>2, <1>3, <2>1, QuietStep
<1>5. CASE dma = "idle"
  <2>1. dpos' = head /\ (dma' = "xfer" <=> ~done[head])
    BY <1>5 DEF XmitKick, DmaArrive
  <2>2. ~done[head] => Inside(head)
    BY <1>2, <1>3 DEF RingInv, SlotInv
  <2>3. ~done[head] => SentBefore(head)
    BY <1>1, <2>2 DEF RingInv, DmaInv
  <2>4. dma' = "xfer" => Inside(dpos)' /\ ~done'[dpos'] /\ SentBefore(dpos)'
    BY <1>1, <2>1, <2>2, <2>3 DEF Inside, SentBefore
  <2>5. DmaInv'
    BY <1>1, <1>5, <2>4 DEF RingInv, DmaInv
  <2>6. SlotInv'
    BY <1>1, <1>3, SameRing DEF RingInv
  <2> QED BY <1>a, <2>5, <2>6
<1> QED BY <1>4, <1>5

\* Opening starts from an empty ring.
LEMMA OpenStep ==
  ASSUME RingInv, TseOpen
  PROVE  FitInv' /\ SlotInv' /\ DmaInv'
<1>1. /\ ~up /\ up' /\ xpc = "idle" /\ napi = "idle" /\ xpc' = xpc /\ napi' = napi
      /\ tx_bd_ci' = 0 /\ tx_bd_tail' = 0 /\ dma' = "idle" /\ ~mid'
      /\ bytes' = [i \in BD |-> 0] /\ eop' = [i \in BD |-> FALSE] /\ done' = [i \in BD |-> TRUE]
  BY DEF TseOpen, FreshRing, RingInv, TailInv, FitInv
<1>2. \A i \in BD : ~Filled(i)' /\ ~InUse(i)' /\ done'[i]
  BY <1>1 DEF Filled, InUse
<1>3. \A i \in BD : ~Inside(i)'
  <2> TAKE i \in BD
  <2>1. 0 \in BD
    BY TseTxAssumption DEF BD
  <2>2. Dist(0, i) \in 0 .. N - 1 /\ Dist(0, 0) = 0
    BY <2>1, DistIs
  <2> QED BY <1>1, <2>2 DEF Inside, End
<1>4. SlotInv'
  BY <1>2, <1>3 DEF SlotInv
<1> QED BY <1>1, <1>4 DEF FitInv, DmaInv

\* Every action keeps the ring, on any number of CPUs and across a reopening.
LEMMA RingStep ==
  ASSUME Regular, FlagsOK, IndexOK, RingInv, [Next]_vars
  PROVE  RingInv'
<1>1. RingTypes
  BY Zenon DEF RingTypes, FlagsOK
<1>2. TailInv'
  BY TailStep DEF RingInv
<1> SUFFICES FitInv' /\ SlotInv' /\ DmaInv'
  BY <1>2 DEF RingInv
<1>a. ASSUME UNCHANGED <<bytes, eop, done, tx_bd_ci, tx_bd_tail, orig, newt, head, dma, dpos, mid>>,
             xpc' = xpc \/ (/\ xpc \notin {"frag", "head", "publish", "tail"}
                            /\ xpc' \notin {"frag", "head", "publish", "tail", "scan", "kick"})
      PROVE  SlotInv' /\ DmaInv'
  <2>1. End' = End /\ \A i \in BD : Filled(i)' <=> Filled(i)
    BY <1>a DEF End, Filled
  <2> QED BY <1>1, <1>a, <2>1, QuietStep
<1>3. CASE XmitEnter
  <2>1. End' = End /\ \A i \in BD : Filled(i)' <=> Filled(i)
    BY <1>3 DEF XmitEnter, End, Filled
  <2>2. SlotInv' /\ DmaInv'
    BY <1>1, <1>3, <2>1, QuietStep DEF XmitEnter
  <2> QED BY <1>3, <2>2 DEF XmitEnter, RingInv, FitInv
<1>4. CASE XmitCheck
  BY <1>1, <1>4, CheckStep
<1>5. CASE XmitFrag
  BY <1>1, <1>5, FragStep
<1>6. CASE XmitHead
  <2>1. /\ xpc = "head" /\ xpc' = "publish"
        /\ UNCHANGED <<bytes, eop, done, tx_bd_ci, tx_bd_tail, nf, orig, newt, head, dma, dpos, mid,
                       napi, pidx, up, enabled>>
    BY <1>6 DEF XmitHead, Regular
  <2>2. End' = End /\ \A i \in BD : Filled(i)' <=> Filled(i)
    BY <2>1 DEF End, Filled
  <2>3. SlotInv' /\ DmaInv'
    BY <1>1, <2>1, <2>2, QuietStep
  <2> QED BY <2>1, <2>3 DEF RingInv, FitInv
<1>7. CASE XmitPublish
  BY <1>1, <1>7, PublishStep
<1>8. CASE XmitTail
  BY <1>1, <1>8, XmitTailStep
<1>9. CASE XmitScan
  BY <1>1, <1>9, ScanStep
<1>10. CASE XmitKick
  BY <1>1, <1>10, KickStep
<1>11. CASE XmitFull \/ XmitSpace \/ XmitStop \/ XmitRecheck
  <2>1. UNCHANGED <<bytes, eop, done, tx_bd_ci, tx_bd_tail, nf, orig, newt, head, dma, dpos, mid,
                    napi, pidx, up, enabled>>
    BY <1>11, Zenon DEF XmitFull, XmitSpace, XmitStop, XmitRecheck
  <2>2. /\ xpc \in {"full", "space", "stop", "recheck"}
        /\ xpc' \in {"idle", "stop", "recheck"}
    BY <1>11 DEF XmitFull, XmitSpace, XmitStop, XmitRecheck
  <2>3. SlotInv' /\ DmaInv'
    BY <1>a, <2>1, <2>2
  <2> QED BY <2>1, <2>2, <2>3 DEF RingInv, FitInv
<1>12. CASE DmaXfer
  BY <1>1, <1>12, DmaXferStep
<1>13. CASE DmaEnd
  <2>1. /\ dma = "ending" /\ dma' = "idle"
        /\ UNCHANGED <<bytes, eop, done, tx_bd_ci, tx_bd_tail, xpc, nf, orig, newt, head, dpos, mid,
                       napi, pidx, up, enabled>>
    BY <1>13 DEF DmaEnd
  <2>2. End' = End /\ \A i \in BD : Filled(i)' <=> Filled(i)
    BY <2>1 DEF End, Filled
  <2>3. SlotInv'
    BY <1>1, <2>1, <2>2, SameRing DEF RingInv
  <2>4. DmaInv'
    BY <2>1 DEF RingInv, DmaInv, Inside, End, SentBefore
  <2> QED BY <2>1, <2>3, <2>4 DEF RingInv, FitInv
<1>14. CASE TxIrq \/ PollStart \/ PollLook \/ PollWake \/ PollComplete
  <2>1. UNCHANGED <<bytes, eop, done, tx_bd_ci, tx_bd_tail, xpc, nf, orig, newt, head, dma, dpos,
                    mid, up>>
    BY <1>14, Zenon DEF TxIrq, PollStart, PollLook, PollWake, PollComplete
  <2>2. SlotInv' /\ DmaInv'
    BY <1>a, <2>1
  <2>3. up
    BY <1>14 DEF TxIrq, PollStart, PollLook, PollWake, PollComplete, RingInv, FitInv
  <2>4. napi' = "free" => pidx' = tx_bd_ci
    BY <1>14 DEF TxIrq, PollStart, PollLook, PollWake, PollComplete, RingInv, FitInv
  <2> QED BY <2>1, <2>2, <2>3, <2>4 DEF RingInv, FitInv
<1>15. CASE PollFree
  <2>1. CASE packets < Budget /\ Completed(pidx)
    BY <1>1, <1>15, <2>1, PollFreeStep
  <2>2. CASE ~(packets < Budget /\ Completed(pidx))
    <3>1. /\ napi = "free" /\ napi' \in {"look", "complete"}
          /\ UNCHANGED <<bytes, eop, done, tx_bd_ci, tx_bd_tail, xpc, nf, orig, newt, head, dma,
                         dpos, mid, up, enabled>>
      BY <1>15, <2>2 DEF PollFree
    <3>2. SlotInv' /\ DmaInv'
      BY <1>a, <3>1
    <3> QED BY <3>1, <3>2 DEF RingInv, FitInv
  <2> QED BY <2>1, <2>2
<1>16. CASE TseStop
  <2>1. /\ xpc = "idle" /\ napi = "idle" /\ dma' = "idle" /\ ~mid' /\ ~enabled'
        /\ UNCHANGED <<bytes, eop, done, tx_bd_ci, tx_bd_tail, xpc, nf, orig, newt, head, napi, pidx>>
    BY <1>16 DEF TseStop
  <2>2. End' = End /\ \A i \in BD : Filled(i)' <=> Filled(i)
    BY <2>1 DEF End, Filled
  <2>3. SlotInv'
    BY <1>1, <2>1, <2>2, SameRing DEF RingInv
  <2> QED BY <2>1, <2>3 DEF RingInv, FitInv, DmaInv
<1>17. CASE TseOpen
  BY <1>17, OpenStep
<1>18. CASE UNCHANGED vars
  <2>1. UNCHANGED <<bytes, eop, done, tx_bd_ci, tx_bd_tail, xpc, nf, orig, newt, head, dma, dpos,
                    mid, napi, pidx, up, enabled>>
    BY <1>18 DEF vars
  <2>2. SlotInv' /\ DmaInv'
    BY <1>a, <2>1
  <2> QED BY <2>1, <2>2 DEF RingInv, FitInv
<1>19. ~XmitUndo
  BY DEF XmitUndo, Regular
<1> QED
  BY <1>3, <1>4, <1>5, <1>6, <1>7, <1>8, <1>9, <1>10, <1>11, <1>12, <1>13, <1>14, <1>15, <1>16,
  <1>17, <1>18, <1>19 DEF Next, Xmit, Dma, Poll

\* The ring invariant holds in every state.
LEMMA RingHolds ==
  ASSUME Regular
  PROVE  Spec => [](TypeOK /\ RingInv)
<1>1. Init => RingInv
  <2> SUFFICES ASSUME Init PROVE RingInv
    OBVIOUS
  <2>1. /\ 0 \in BD /\ tx_bd_ci = 0 /\ tx_bd_tail = 0 /\ xpc = "idle" /\ napi = "idle"
        /\ dma = "idle" /\ ~mid /\ up
        /\ bytes = [i \in BD |-> 0] /\ eop = [i \in BD |-> FALSE] /\ done = [i \in BD |-> TRUE]
    BY TseTxAssumption DEF Init, FreshRing, BD
  <2>2. \A i \in BD : ~Filled(i) /\ ~InUse(i) /\ done[i]
    BY <2>1 DEF Filled, InUse
  <2>3. \A i \in BD : ~Inside(i)
    <3> TAKE i \in BD
    <3>1. Dist(0, i) \in 0 .. N - 1 /\ Dist(0, 0) = 0
      BY <2>1, DistIs
    <3> QED BY <2>1, <3>1 DEF Inside, End
  <2>4. SlotInv
    BY <2>2, <2>3 DEF SlotInv
  <2> QED BY <2>1, <2>2, <2>4 DEF RingInv, TailInv, TailTerminates, FitInv, DmaInv
<1>2. TypeOK /\ RingInv /\ [Next]_vars => RingInv'
  <2> SUFFICES ASSUME FlagsOK, IndexOK, RingInv, [Next]_vars PROVE RingInv'
    BY Zenon DEF TypeOK, FlagsOK, IndexOK
  <2> QED BY RingStep
<1> QED BY <1>1, <1>2, TypeCorrect, PTL DEF Spec

\* What the ring invariant says about packets.
LEMMA PacketsAreKept ==
  ASSUME Regular
  PROVE  Spec => [](NoOverwrite /\ PacketsWhole)
<1>1. TypeOK /\ RingInv => NoOverwrite /\ PacketsWhole
  <2> SUFFICES ASSUME FlagsOK, IndexOK, RingInv PROVE NoOverwrite /\ PacketsWhole
    BY Zenon DEF TypeOK, FlagsOK, IndexOK
  <2>1. RingTypes
    BY Zenon DEF RingTypes, FlagsOK
  <2>2. ~InUse(End)
    BY <2>1, EndIsDone
  <2>3. xpc \in {"check", "frag", "head", "publish"} => ~InUse(orig)
    BY <2>2 DEF RingInv, TailInv, End
  <2>4. xpc = "tail" => ~InUse(Plus(newt, 1))
    BY <2>2 DEF End
  <2>5. ASSUME xpc = "frag" PROVE ~InUse(Plus(newt, 1))
    <3> DEFINE t == Plus(newt, 1)
               k == Dist(orig, newt)
               u == Dist(tx_bd_ci, orig)
    <3>1. tx_bd_ci \in BD /\ orig \in BD /\ newt \in BD /\ nf \in Nat
      BY TseTxAssumption DEF IndexOK
    <3>2. k < nf /\ u + nf + 2 < N /\ End = orig
      BY <2>5 DEF RingInv, TailInv, FitInv, End
    <3>3. k \in 0 .. N - 1 /\ u \in 0 .. N - 1 /\ t \in BD
      BY <3>1, DistIs, PlusIs, TseTxAssumption
    <3>4. Dist(orig, t) = k + 1
      BY <3>1, <3>2, <3>3, DistIs, TseTxAssumption
    <3>5. Dist(tx_bd_ci, t) = u + (k + 1)
      BY <3>1, <3>2, <3>3, <3>4, DistAdd, TseTxAssumption
    <3> HIDE DEF t, k, u
    <3>6. ~Inside(t)
      BY <3>2, <3>3, <3>5 DEF Inside, u
    <3>7. ~Filled(t)
      BY <3>3, <3>4 DEF Filled, k
    <3> QED BY <3>3, <3>6, <3>7 DEF RingInv, SlotInv, t
  <2>6. dma = "xfer" => InUse(dpos)
    BY DEF IndexOK, RingInv, SlotInv, DmaInv
  <2>7. dma = "idle" => ~mid
    BY DEF RingInv, DmaInv
  <2> QED BY <2>3, <2>4, <2>5, <2>6, <2>7 DEF NoOverwrite, PacketsWhole
<1> QED BY <1>1, RingHolds, PTL

\* start_xmit never writes over a descriptor that still carries a packet: for every ring at
\* least two larger than the largest packet, on any number of CPUs, whenever interrupts, polls
\* and the end of the DMA's list come, and across a reopening.
THEOREM NothingIsOverwritten ==
  ASSUME Regular
  PROVE  Spec => []NoOverwrite
BY PacketsAreKept, PTL

\* Under the same conditions the DMA neither stops inside a packet nor sends a descriptor that
\* was released.
THEOREM PacketsAreWhole ==
  ASSUME Regular
  PROVE  Spec => []PacketsWhole
BY PacketsAreKept, PTL

(***************************************************************************)
(* The check that should not fail.                                         *)
(***************************************************************************)
\* Room for the largest packet.
Ample == Dist(tx_bd_ci, tx_bd_tail) + MaxFrags + 2 < N

\* Whenever the stack may hand over a packet, or is about to be allowed to, there is room.
FullInv ==
  /\ xpc # "full"
  /\ xpc = "check" \/ (xpc = "idle" /\ ~stopped) \/ napi = "wake" => Ample
  /\ xpc # "idle" => napi \in {"idle", "sched"}
  /\ xpc = "recheck" => stopped

\* The room the driver looks for is room for the largest packet.
LEMMA AmpleMeans ==
  ASSUME Regular, RingTypes, SlotInv, xpc \notin {"frag", "head", "publish", "tail"}
  PROVE  /\ TxBdSpace(tx_bd_tail, MaxFrags + 1) <=> Ample
         /\ Ample => TxBdSpace(tx_bd_tail, nf + 1)
<1>1. /\ MaxFrags + 2 \in 0 .. N - 1 /\ MaxFrags + 2 = MaxFrags + 1 + 1
      /\ nf + 2 \in 0 .. N - 1 /\ nf + 2 = nf + 1 + 1 /\ nf \in Nat /\ nf <= MaxFrags
  BY TseTxAssumption DEF Regular, RingTypes, IndexOK
<1>2. Dist(tx_bd_ci, tx_bd_tail) \in 0 .. N - 1
  BY DistIs DEF RingTypes, IndexOK
<1>3. TxBdSpace(tx_bd_tail, MaxFrags + 1) <=> Dist(tx_bd_ci, tx_bd_tail) + (MaxFrags + 2) < N
  BY <1>1, RoomMeans DEF TxBdSpace
<1>4. TxBdSpace(tx_bd_tail, nf + 1) <=> Dist(tx_bd_ci, tx_bd_tail) + (nf + 2) < N
  BY <1>1, RoomMeans DEF TxBdSpace
<1> QED BY <1>1, <1>2, <1>3, <1>4, TseTxAssumption DEF Ample

\* On one CPU every action keeps the room.
LEMMA FullStep ==
  ASSUME Regular, ~Smp, FlagsOK, IndexOK, RingInv, FullInv, [Next]_vars
  PROVE  FullInv'
<1>1. RingTypes /\ SlotInv
  <2>1. RingTypes
    BY Zenon DEF RingTypes, FlagsOK
  <2> QED BY <2>1 DEF RingInv
<1>2. CASE XmitEnter
  BY <1>2 DEF XmitEnter, XmitRuns, FullInv, Ample
<1>3. CASE XmitCheck
  <2>1. xpc = "check" /\ TxBdSpace(tx_bd_tail, nf + 1)
    BY <1>1, <1>3, AmpleMeans DEF XmitCheck, FullInv
  <2>2. xpc' \in {"frag", "head"} /\ napi' = napi
    BY <1>3, <2>1 DEF XmitCheck
  <2> QED BY <2>1, <2>2 DEF FullInv
<1>4. CASE XmitFull
  BY <1>4 DEF XmitFull, FullInv
<1>5. CASE XmitFrag \/ XmitHead \/ XmitPublish \/ XmitTail \/ XmitScan \/ XmitKick \/ XmitStop
  <2>1. /\ xpc # "idle" /\ xpc' \notin {"idle", "check", "full"} /\ napi' = napi
        /\ xpc' = "recheck" => stopped'
    BY <1>5 DEF XmitFrag, XmitHead, XmitPublish, XmitTail, XmitScan, XmitKick, XmitStop, Regular
  <2> QED BY <2>1 DEF FullInv
<1>6. CASE XmitSpace
  <2>1. xpc = "space" /\ (TxBdSpace(tx_bd_tail, MaxFrags + 1) <=> Ample)
    BY <1>1, <1>6, AmpleMeans DEF XmitSpace
  <2>2. xpc' = (IF Ample THEN "idle" ELSE "stop") /\ UNCHANGED <<tx_bd_ci, tx_bd_tail, napi>>
    BY <1>6, <2>1 DEF XmitSpace
  <2> QED BY <2>1, <2>2 DEF FullInv, Ample
<1>7. CASE XmitRecheck
  <2>1. xpc = "recheck" /\ stopped /\ (TxBdSpace(tx_bd_tail, MaxFrags + 1) <=> Ample)
    BY <1>1, <1>7, AmpleMeans DEF XmitRecheck, FullInv
  <2>2. xpc' = "idle" /\ (~stopped' => Ample) /\ UNCHANGED <<tx_bd_ci, tx_bd_tail, napi>>
    BY <1>7, <2>1 DEF XmitRecheck
  <2> QED BY <2>1, <2>2 DEF FullInv, Ample
<1>8. CASE DmaXfer \/ DmaEnd
  <2>1. UNCHANGED <<tx_bd_ci, tx_bd_tail, xpc, stopped, napi>>
    BY <1>8, Zenon DEF DmaXfer, DmaEnd
  <2> QED BY <2>1 DEF FullInv, Ample
<1>9. CASE TxIrq
  BY <1>9 DEF TxIrq, FullInv, Ample
<1>10. CASE PollStart
  BY <1>10 DEF PollStart, PollRuns, FullInv, Ample
<1>11. CASE PollFree
  <2>1. /\ xpc = "idle" /\ xpc' = xpc /\ napi' # "wake" /\ UNCHANGED <<tx_bd_tail, stopped>>
    BY <1>11 DEF PollFree, PollRuns
  <2>2. CASE packets < Budget /\ Completed(pidx)
    <3>1. /\ tx_bd_ci \in BD /\ tx_bd_tail \in BD /\ MaxFrags \in Nat
          /\ tx_bd_ci' = Plus(tx_bd_ci, 1) /\ pidx = tx_bd_ci
      BY <1>11, <2>2, TseTxAssumption DEF PollFree, IndexOK, RingInv, FitInv
    <3>2. tx_bd_ci # tx_bd_tail
      BY <1>1, <2>1, <2>2, <3>1, EndIsDone DEF Completed, End
    <3>3. /\ Dist(tx_bd_ci', tx_bd_tail) = Dist(tx_bd_ci, tx_bd_tail) - 1
          /\ Dist(tx_bd_ci, tx_bd_tail) \in 0 .. N - 1
      BY <3>1, <3>2, DistIs
    <3>4. Ample => Ample'
      BY <2>1, <3>1, <3>3, TseTxAssumption DEF Ample
    <3> QED BY <2>1, <3>4 DEF FullInv
  <2>3. CASE ~(packets < Budget /\ Completed(pidx))
    <3>1. tx_bd_ci' = tx_bd_ci
      BY <1>11, <2>3 DEF PollFree
    <3> QED BY <2>1, <3>1 DEF FullInv, Ample
  <2> QED BY <2>2, <2>3
<1>12. CASE PollLook
  <2>1. xpc = "idle" /\ (TxBdSpace(tx_bd_tail, MaxFrags + 1) <=> Ample)
    BY <1>1, <1>12, AmpleMeans DEF PollLook, PollRuns
  <2>2. napi' = (IF Ample THEN "wake" ELSE "complete")
        /\ UNCHANGED <<tx_bd_ci, tx_bd_tail, xpc, stopped>>
    BY <1>12, <2>1 DEF PollLook
  <2> QED BY <2>1, <2>2 DEF FullInv, Ample
<1>13. CASE PollWake
  BY <1>13 DEF PollWake, PollRuns, FullInv, Ample
<1>14. CASE PollComplete
  BY <1>14 DEF PollComplete, PollRuns, FullInv, Ample
<1>15. CASE TseStop
  BY <1>15 DEF TseStop, FullInv, Ample
<1>16. CASE TseOpen
  <2>1. /\ xpc' = "idle" /\ napi' = "idle" /\ tx_bd_ci' = 0 /\ tx_bd_tail' = 0
    BY <1>16 DEF TseOpen, FreshRing, RingInv, TailInv, FitInv
  <2>2. Dist(0, 0) = 0
    BY DEF Dist
  <2>3. Ample'
    BY <2>1, <2>2, TseTxAssumption DEF Ample, Regular
  <2> QED BY <2>1, <2>3 DEF FullInv
<1>17. CASE UNCHANGED vars
  <2>1. UNCHANGED <<tx_bd_ci, tx_bd_tail, xpc, stopped, napi>>
    BY <1>17 DEF vars
  <2> QED BY <2>1 DEF FullInv, Ample
<1>18. ~XmitUndo
  BY DEF XmitUndo, Regular
<1> QED
  BY <1>2, <1>3, <1>4, <1>5, <1>6, <1>7, <1>8, <1>9, <1>10, <1>11, <1>12, <1>13, <1>14, <1>15,
  <1>16, <1>17, <1>18 DEF Next, Xmit, Dma, Poll

\* On one CPU the "TX ring unexpectedly full" path is never taken: the stop after a packet, the
\* second look and the wake from the poll keep room for the largest packet whenever the stack
\* may send one.
THEOREM RingIsNeverFull ==
  ASSUME Regular, ~Smp
  PROVE  Spec => []NeverUnexpectedlyFull
<1>1. Init => FullInv
  <2> SUFFICES ASSUME Init PROVE FullInv
    OBVIOUS
  <2>1. Dist(0, 0) = 0
    BY DEF Dist
  <2>2. Ample
    BY <2>1, TseTxAssumption DEF Init, FreshRing, Ample, Regular
  <2> QED BY <2>2 DEF Init, FullInv
<1>2. TypeOK /\ RingInv /\ FullInv /\ [Next]_vars => FullInv'
  <2> SUFFICES ASSUME FlagsOK, IndexOK, RingInv, FullInv, [Next]_vars PROVE FullInv'
    BY Zenon DEF TypeOK, FlagsOK, IndexOK
  <2> QED BY FullStep
<1>3. FullInv => NeverUnexpectedlyFull
  BY DEF FullInv, NeverUnexpectedlyFull
<1> QED BY <1>1, <1>2, <1>3, RingHolds, PTL DEF Spec
=============================================================================
