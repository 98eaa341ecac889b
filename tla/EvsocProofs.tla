---------------------------- MODULE EvsocProofs ----------------------------
(***************************************************************************)
(* Theorems about Evsoc, for every set of processes and every bound.       *)
(* Captures are requested at any time and the device is also opened while  *)
(* the module is on its way out.                                           *)
(***************************************************************************)
EXTENDS Evsoc, FiniteSetTheorems, TLAPS

USE DEF userVars, idxVars, loadVars, thrVars, dispVars, irqVars, capVars

\* Every action keeps the flags Boolean.
LEMMA FlagsStep ==
  ASSUME TypeOK, [Next]_vars
  PROVE  FlagsOK'
<1> USE EvsocAssumption DEF TypeOK, FlagsOK
<1>1. CASE LoadCdev
  BY <1>1, Zenon DEF LoadCdev
<1>2. CASE Rmmod
  BY <1>2, Zenon DEF Rmmod
<1>3. CASE LoadMap
  BY <1>3, Zenon DEF LoadMap
<1>4. CASE LoadThread
  BY <1>4, Zenon DEF LoadThread
<1>5. CASE StartTx
  BY <1>5, Zenon DEF StartTx
<1>6. CASE StartTxDone
  BY <1>6, Zenon DEF StartTxDone
<1>7. CASE MainExit
  BY <1>7, Zenon DEF MainExit
<1>8. CASE MyExit
  BY <1>8, Zenon DEF MyExit
<1>9. CASE DeviceDestroy
  BY <1>9, Zenon DEF DeviceDestroy
<1>10. CASE ThreadWait
  BY <1>10, Zenon DEF ThreadWait
<1>11. CASE ThreadLoop
  BY <1>11, Zenon DEF ThreadLoop
<1>12. CASE ThreadDraw
  BY <1>12, Zenon DEF ThreadDraw
<1>13. CASE ThreadOverlay
  BY <1>13, Zenon DEF ThreadOverlay
<1>14. CASE ThreadCapture
  BY <1>14, Zenon DEF ThreadCapture
<1>15. CASE ThreadSignal
  BY <1>15, Zenon DEF ThreadSignal
<1>16. CASE ThreadClear
  BY <1>16, Zenon DEF ThreadClear
<1>17. CASE ThreadTitle
  BY <1>17, Zenon DEF ThreadTitle
<1>18. CASE ThreadSwap1
  BY <1>18, Zenon DEF ThreadSwap1
<1>19. CASE ThreadSwap2
  BY <1>19, Zenon DEF ThreadSwap2
<1>20. CASE ThreadSleep
  BY <1>20, Zenon DEF ThreadSleep
<1>21. CASE CamDone
  BY <1>21, Zenon DEF CamDone
<1>22. CASE DispDone
  BY <1>22, Zenon DEF DispDone
<1>23. CASE TxIrqTake
  BY <1>23, Zenon DEF TxIrqTake
<1>24. CASE TxIrqStart
  BY <1>24, Zenon DEF TxIrqStart
<1>25. ASSUME NEW p \in Procs,
              \/ OpenTest(p)
              \/ OpenSet(p)
              \/ ReleaseTest(p)
              \/ ReleasePut(p)
              \/ IoctlPid(p)
              \/ IoctlOverlay(p)
              \/ UseStale(p)
              \/ \E v \in Captures \cup {0, 3} : IoctlCapture(p, v)
     PROVE  FlagsOK'
  <2>1. CASE OpenTest(p)
    BY <2>1, Zenon DEF OpenTest, Go, Loaded
  <2>2. CASE OpenSet(p)
    BY <2>2, Zenon DEF OpenSet, Go, Loaded
  <2>3. CASE ReleaseTest(p)
    BY <2>3, Zenon DEF ReleaseTest, Go, Loaded
  <2>4. CASE ReleasePut(p)
    BY <2>4, Zenon DEF ReleasePut, Go, Loaded
  <2>5. CASE IoctlPid(p)
    BY <2>5, Zenon DEF IoctlPid, Go, Loaded
  <2>6. CASE IoctlOverlay(p)
    BY <2>6, Zenon DEF IoctlOverlay, Go, Loaded
  <2>7. CASE \E v \in Captures \cup {0, 3} : IoctlCapture(p, v)
    <3>1. late' \in BOOLEAN
      BY <2>7, SMT DEF IoctlCapture
    <3> QED BY <2>7, <3>1, Zenon DEF IoctlCapture
  <2>8. CASE UseStale(p)
    BY <2>8, Zenon DEF UseStale
  <2> QED BY <1>25, <2>1, <2>2, <2>3, <2>4, <2>5, <2>6, <2>7, <2>8
<1>26. CASE UNCHANGED vars
  BY <1>26, Zenon DEF vars
<1> QED
  BY <1>1, <1>2, <1>3, <1>4, <1>5, <1>6, <1>7, <1>8, <1>9, <1>10, <1>11, <1>12,
     <1>13, <1>14, <1>15, <1>16, <1>17, <1>18, <1>19, <1>20, <1>21, <1>22, <1>23, <1>24,
     <1>25, <1>26
     DEF Next, Admin, Load, Thread, Camera, Display, Irq, User

\* Every action keeps the types.
LEMMA TypeStep ==
  ASSUME TypeOK, [Next]_vars
  PROVE  TypeOK'
<1> USE EvsocAssumption DEF TypeOK, Mod, Buf, Captures, FULL, PART, Off, Stale
<1>1. CASE LoadCdev
  BY <1>1, FlagsStep DEF LoadCdev
<1>2. CASE Rmmod
  BY <1>2, FlagsStep DEF Rmmod
<1>3. CASE LoadMap
  BY <1>3, FlagsStep DEF LoadMap
<1>4. CASE LoadThread
  BY <1>4, FlagsStep DEF LoadThread
<1>5. CASE StartTx
  BY <1>5, FlagsStep DEF StartTx
<1>6. CASE StartTxDone
  BY <1>6, FlagsStep DEF StartTxDone
<1>7. CASE MainExit
  BY <1>7, FlagsStep DEF MainExit
<1>8. CASE MyExit
  BY <1>8, FlagsStep DEF MyExit
<1>9. CASE DeviceDestroy
  BY <1>9, FlagsStep DEF DeviceDestroy
<1>10. CASE ThreadWait
  BY <1>10, FlagsStep DEF ThreadWait
<1>11. CASE ThreadLoop
  BY <1>11, FlagsStep DEF ThreadLoop
<1>12. CASE ThreadDraw
  BY <1>12, FlagsStep DEF ThreadDraw
<1>13. CASE ThreadOverlay
  BY <1>13, FlagsStep DEF ThreadOverlay
<1>14. CASE ThreadCapture
  BY <1>14, FlagsStep DEF ThreadCapture
<1>15. CASE ThreadSignal
  BY <1>15, FlagsStep DEF ThreadSignal
<1>16. CASE ThreadClear
  BY <1>16, FlagsStep DEF ThreadClear
<1>17. CASE ThreadTitle
  BY <1>17, FlagsStep DEF ThreadTitle
<1>18. CASE ThreadSwap1
  BY <1>18, FlagsStep DEF ThreadSwap1
<1>19. CASE ThreadSwap2
  BY <1>19, FlagsStep DEF ThreadSwap2
<1>20. CASE ThreadSleep
  BY <1>20, FlagsStep DEF ThreadSleep
<1>21. CASE CamDone
  BY <1>21, FlagsStep DEF CamDone
<1>22. CASE DispDone
  BY <1>22, FlagsStep DEF DispDone
<1>23. CASE TxIrqTake
  BY <1>23, FlagsStep DEF TxIrqTake
<1>24. CASE TxIrqStart
  BY <1>24, FlagsStep DEF TxIrqStart
<1>25. ASSUME NEW p \in Procs,
              \/ OpenTest(p)
              \/ OpenSet(p)
              \/ ReleaseTest(p)
              \/ ReleasePut(p)
              \/ IoctlPid(p)
              \/ IoctlOverlay(p)
              \/ UseStale(p)
              \/ \E v \in Captures \cup {0, 3} : IoctlCapture(p, v)
     PROVE  TypeOK'
  <2>1. CASE OpenTest(p)
    BY <2>1, FlagsStep DEF OpenTest, Go, Loaded
  <2>2. CASE OpenSet(p)
    BY <2>2, FlagsStep DEF OpenSet, Go, Loaded
  <2>3. CASE ReleaseTest(p)
    BY <2>3, FlagsStep DEF ReleaseTest, Go, Loaded
  <2>4. CASE ReleasePut(p)
    BY <2>4, FlagsStep DEF ReleasePut, Go, Loaded
  <2>5. CASE IoctlPid(p)
    BY <2>5, FlagsStep DEF IoctlPid, Go, Loaded
  <2>6. CASE IoctlOverlay(p)
    BY <2>6, FlagsStep DEF IoctlOverlay, Go, Loaded
  <2>7. CASE \E v \in Captures \cup {0, 3} : IoctlCapture(p, v)
    BY <2>7, FlagsStep DEF IoctlCapture
  <2>8. CASE UseStale(p)
    BY <2>8, FlagsStep DEF UseStale
  <2> QED BY <1>25, <2>1, <2>2, <2>3, <2>4, <2>5, <2>6, <2>7, <2>8
<1>26. CASE UNCHANGED vars
  BY <1>26, FlagsStep DEF vars
<1> QED
  BY <1>1, <1>2, <1>3, <1>4, <1>5, <1>6, <1>7, <1>8, <1>9, <1>10, <1>11, <1>12,
     <1>13, <1>14, <1>15, <1>16, <1>17, <1>18, <1>19, <1>20, <1>21, <1>22, <1>23, <1>24,
     <1>25, <1>26
     DEF Next, Admin, Load, Thread, Camera, Display, Irq, User

\* Every action keeps the discipline of the two buffer indices.
LEMMA IdxStep ==
  ASSUME TypeOK, IdxInv, [Next]_vars
  PROVE  IdxInv'
<1> USE EvsocAssumption DEF TypeOK, IdxInv, Buf, Mod
<1>1. CASE LoadCdev
  BY <1>1 DEF LoadCdev
<1>2. CASE Rmmod
  BY <1>2 DEF Rmmod
<1>3. CASE LoadMap
  BY <1>3 DEF LoadMap
<1>4. CASE LoadThread
  BY <1>4 DEF LoadThread
<1>5. CASE StartTx
  BY <1>5 DEF StartTx
<1>6. CASE StartTxDone
  BY <1>6 DEF StartTxDone
<1>7. CASE MainExit
  BY <1>7 DEF MainExit
<1>8. CASE MyExit
  BY <1>8 DEF MyExit
<1>9. CASE DeviceDestroy
  BY <1>9 DEF DeviceDestroy
<1>10. CASE ThreadWait
  BY <1>10 DEF ThreadWait
<1>11. CASE ThreadLoop
  BY <1>11 DEF ThreadLoop
<1>12. CASE ThreadDraw
  BY <1>12 DEF ThreadDraw
<1>13. CASE ThreadOverlay
  BY <1>13 DEF ThreadOverlay
<1>14. CASE ThreadCapture
  BY <1>14 DEF ThreadCapture
<1>15. CASE ThreadSignal
  BY <1>15 DEF ThreadSignal
<1>16. CASE ThreadClear
  BY <1>16 DEF ThreadClear
<1>17. CASE ThreadTitle
  BY <1>17 DEF ThreadTitle
<1>18. CASE ThreadSwap1
  BY <1>18 DEF ThreadSwap1
<1>19. CASE ThreadSwap2
  BY <1>19 DEF ThreadSwap2
<1>20. CASE ThreadSleep
  BY <1>20 DEF ThreadSleep
<1>21. CASE CamDone
  BY <1>21 DEF CamDone
<1>22. CASE DispDone
  BY <1>22 DEF DispDone
<1>23. CASE TxIrqTake
  BY <1>23 DEF TxIrqTake
<1>24. CASE TxIrqStart
  BY <1>24 DEF TxIrqStart
<1>25. ASSUME NEW p \in Procs,
              \/ OpenTest(p)
              \/ OpenSet(p)
              \/ ReleaseTest(p)
              \/ ReleasePut(p)
              \/ IoctlPid(p)
              \/ IoctlOverlay(p)
              \/ UseStale(p)
              \/ \E v \in Captures \cup {0, 3} : IoctlCapture(p, v)
     PROVE  IdxInv'
  <2>1. CASE OpenTest(p)
    BY <2>1 DEF OpenTest, Go, Loaded
  <2>2. CASE OpenSet(p)
    BY <2>2 DEF OpenSet, Go, Loaded
  <2>3. CASE ReleaseTest(p)
    BY <2>3 DEF ReleaseTest, Go, Loaded
  <2>4. CASE ReleasePut(p)
    BY <2>4 DEF ReleasePut, Go, Loaded
  <2>5. CASE IoctlPid(p)
    BY <2>5 DEF IoctlPid, Go, Loaded
  <2>6. CASE IoctlOverlay(p)
    BY <2>6 DEF IoctlOverlay, Go, Loaded
  <2>7. CASE \E v \in Captures \cup {0, 3} : IoctlCapture(p, v)
    BY <2>7 DEF IoctlCapture
  <2>8. CASE UseStale(p)
    BY <2>8 DEF UseStale
  <2> QED BY <1>25, <2>1, <2>2, <2>3, <2>4, <2>5, <2>6, <2>7, <2>8
<1>26. CASE UNCHANGED vars
  BY <1>26 DEF vars
<1> QED
  BY <1>1, <1>2, <1>3, <1>4, <1>5, <1>6, <1>7, <1>8, <1>9, <1>10, <1>11, <1>12,
     <1>13, <1>14, <1>15, <1>16, <1>17, <1>18, <1>19, <1>20, <1>21, <1>22, <1>23, <1>24,
     <1>25, <1>26
     DEF Next, Admin, Load, Thread, Camera, Display, Irq, User

\* No action starts the display on the frame being filled.
LEMMA StartStep ==
  ASSUME TypeOK, IdxInv, [Next]_vars
  PROVE  (disp' # disp /\ disp' \in Buf) => ~(Filling /\ disp' = rx_buf_idx)
<1> USE EvsocAssumption DEF TypeOK, IdxInv, Buf, Mod, Off, Stale, Filling
<1>1. CASE LoadCdev
  BY <1>1 DEF LoadCdev
<1>2. CASE Rmmod
  BY <1>2 DEF Rmmod
<1>3. CASE LoadMap
  BY <1>3 DEF LoadMap
<1>4. CASE LoadThread
  BY <1>4 DEF LoadThread
<1>5. CASE StartTx
  BY <1>5 DEF StartTx
<1>6. CASE StartTxDone
  BY <1>6 DEF StartTxDone
<1>7. CASE MainExit
  BY <1>7 DEF MainExit
<1>8. CASE MyExit
  BY <1>8 DEF MyExit
<1>9. CASE DeviceDestroy
  BY <1>9 DEF DeviceDestroy
<1>10. CASE ThreadWait
  BY <1>10 DEF ThreadWait
<1>11. CASE ThreadLoop
  BY <1>11 DEF ThreadLoop
<1>12. CASE ThreadDraw
  BY <1>12 DEF ThreadDraw
<1>13. CASE ThreadOverlay
  BY <1>13 DEF ThreadOverlay
<1>14. CASE ThreadCapture
  BY <1>14 DEF ThreadCapture
<1>15. CASE ThreadSignal
  BY <1>15 DEF ThreadSignal
<1>16. CASE ThreadClear
  BY <1>16 DEF ThreadClear
<1>17. CASE ThreadTitle
  BY <1>17 DEF ThreadTitle
<1>18. CASE ThreadSwap1
  BY <1>18 DEF ThreadSwap1
<1>19. CASE ThreadSwap2
  BY <1>19 DEF ThreadSwap2
<1>20. CASE ThreadSleep
  BY <1>20 DEF ThreadSleep
<1>21. CASE CamDone
  BY <1>21 DEF CamDone
<1>22. CASE DispDone
  BY <1>22 DEF DispDone
<1>23. CASE TxIrqTake
  BY <1>23 DEF TxIrqTake
<1>24. CASE TxIrqStart
  BY <1>24 DEF TxIrqStart
<1>25. ASSUME NEW p \in Procs,
              \/ OpenTest(p)
              \/ OpenSet(p)
              \/ ReleaseTest(p)
              \/ ReleasePut(p)
              \/ IoctlPid(p)
              \/ IoctlOverlay(p)
              \/ UseStale(p)
              \/ \E v \in Captures \cup {0, 3} : IoctlCapture(p, v)
     PROVE  (disp' # disp /\ disp' \in Buf) => ~(Filling /\ disp' = rx_buf_idx)
  <2>1. CASE OpenTest(p)
    BY <2>1 DEF OpenTest, Go, Loaded
  <2>2. CASE OpenSet(p)
    BY <2>2 DEF OpenSet, Go, Loaded
  <2>3. CASE ReleaseTest(p)
    BY <2>3 DEF ReleaseTest, Go, Loaded
  <2>4. CASE ReleasePut(p)
    BY <2>4 DEF ReleasePut, Go, Loaded
  <2>5. CASE IoctlPid(p)
    BY <2>5 DEF IoctlPid, Go, Loaded
  <2>6. CASE IoctlOverlay(p)
    BY <2>6 DEF IoctlOverlay, Go, Loaded
  <2>7. CASE \E v \in Captures \cup {0, 3} : IoctlCapture(p, v)
    BY <2>7 DEF IoctlCapture
  <2>8. CASE UseStale(p)
    BY <2>8 DEF UseStale
  <2> QED BY <1>25, <2>1, <2>2, <2>3, <2>4, <2>5, <2>6, <2>7, <2>8
<1>26. CASE UNCHANGED vars
  BY <1>26 DEF vars
<1> QED
  BY <1>1, <1>2, <1>3, <1>4, <1>5, <1>6, <1>7, <1>8, <1>9, <1>10, <1>11, <1>12,
     <1>13, <1>14, <1>15, <1>16, <1>17, <1>18, <1>19, <1>20, <1>21, <1>22, <1>23, <1>24,
     <1>25, <1>26
     DEF Next, Admin, Load, Thread, Camera, Display, Irq, User

-----------------------------------------------------------------------------
\* Every variable keeps its type: in particular the camera and the display only
\* ever use the two frame buffers main_init chose.
THEOREM TypeCorrect == Spec => []TypeOK
<1>1. Init => TypeOK
  <2>1. Init => FlagsOK
    BY Zenon DEF Init, FlagsOK
  <2> QED BY <2>1, EvsocAssumption DEF Init, TypeOK, Mod, Buf, Captures, FULL, PART, Off, Stale
<1>2. TypeOK /\ [Next]_vars => TypeOK'
  BY TypeStep
<1> QED BY <1>1, <1>2, PTL DEF Spec

\* dma_tx_irq never starts the display on the frame do_rx_proc is filling.
THEOREM FramesAreWhole == Spec => StartsOnWholeFrame
<1>1. Init => IdxInv
  BY DEF Init, IdxInv
<1>2. TypeOK /\ IdxInv /\ [Next]_vars => IdxInv'
  BY IdxStep
<1>3. TypeOK /\ IdxInv /\ [Next]_vars =>
        [(disp' # disp /\ disp' \in Buf) => ~(Filling /\ disp' = rx_buf_idx)]_vars
  BY StartStep
<1> QED BY <1>1, <1>2, <1>3, TypeCorrect, PTL DEF Spec, StartsOnWholeFrame

-----------------------------------------------------------------------------
\* A module on its way out has no reference left to an open file; before, every file that is
\* open has one, and there are at least as many references as such files: a release that
\* finds is_open clear keeps its reference.
PinInv ==
  Up =>
    /\ ~Loaded => held = {}
    /\ Loaded => held = {p \in Procs : upc[p] \in {"open", "closing"}}
    /\ mod = "out" => \A p \in Procs : upc[p] \in {"closed", "stale"}
    /\ IsFiniteSet(held) /\ Cardinality(held) <= refs

\* Every action keeps the module pinned.
LEMMA PinStep ==
  ASSUME TypeOK, PinInv, [Next]_vars
  PROVE  PinInv'
<1>1. CASE /\ UNCHANGED <<refs, upc, held>>
           /\ Up' => Up /\ Loaded' = Loaded /\ (mod' = "out" => mod = "out")
  BY <1>1 DEF PinInv
<1>2. CASE LoadCdev
  <2>1. Up /\ ~Loaded /\ mod = "out" /\ Loaded' /\ mod' # "out" /\ refs' = 0 /\ upc' = upc
        /\ held' = held
    BY <1>2 DEF LoadCdev, Up, Loaded
  <2>2. held = {} /\ {p \in Procs : upc[p] \in {"open", "closing"}} = {}
    BY <2>1 DEF PinInv
  <2> QED BY <2>1, <2>2, FS_EmptySet DEF PinInv
<1>3. CASE Rmmod
  <2>1. Up /\ refs = 0 /\ UNCHANGED <<refs, upc, held>> /\ ~Loaded' /\ mod' # "out"
    BY <1>3 DEF Rmmod, Up, Loaded
  <2>2. IsFiniteSet(held) /\ Cardinality(held) = 0
    BY <2>1, FS_CardinalityType DEF PinInv
  <2>3. held = {}
    BY <2>2, FS_EmptySet
  <2> QED BY <2>1, <2>2, <2>3 DEF PinInv
<1>4. CASE Up /\ (LoadMap \/ LoadThread \/ StartTx \/ StartTxDone \/ MainExit \/ MyExit)
  <2>1. UNCHANGED <<refs, upc, held>>
    BY <1>4, Zenon DEF LoadMap, LoadThread, StartTx, StartTxDone, MainExit, MyExit
  <2>2. Up' => Up /\ Loaded' = Loaded /\ (mod' = "out" => mod = "out")
    BY <1>4 DEF LoadMap, LoadThread, StartTx, StartTxDone, MainExit, MyExit, Up, Loaded
  <2> QED BY <1>1, <2>1, <2>2
<1>5. CASE Up /\ DeviceDestroy
  <2>1. ~Loaded /\ ~Loaded' /\ UNCHANGED <<refs, held>>
    BY <1>5 DEF DeviceDestroy, Loaded
  <2>2. \A p \in Procs : upc'[p] \in {"closed", "stale"}
    BY <1>5 DEF DeviceDestroy
  <2> QED BY <1>5, <2>1, <2>2 DEF PinInv
<1>6. CASE Thread \/ Camera \/ Display
  <2>1. UNCHANGED <<refs, upc, held, mod>>
    BY <1>6, Zenon DEF Thread, Camera, Display, ThreadWait, ThreadLoop, ThreadDraw,
         ThreadOverlay, ThreadCapture, ThreadSignal, ThreadClear, ThreadTitle, ThreadSwap1,
         ThreadSwap2, ThreadSleep, CamDone, DispDone
  <2> QED BY <1>1, <2>1 DEF Up, Loaded
<1>7. CASE Irq
  <2>1. UNCHANGED <<refs, upc, held>>
    BY <1>7, Zenon DEF Irq, TxIrqTake, TxIrqStart
  <2>2. Up' => Up /\ Loaded' = Loaded /\ (mod' = "out" => mod = "out")
    BY <1>7 DEF Irq, TxIrqTake, TxIrqStart, Up, Loaded
  <2> QED BY <1>1, <2>1, <2>2
<1>8. ASSUME Up, NEW p \in Procs, OpenTest(p)
      PROVE  PinInv'
  <2>1. UNCHANGED <<refs, held, mod>> /\ mod # "out"
    BY <1>8 DEF OpenTest
  <2>2. {q \in Procs : upc'[q] \in {"open", "closing"}} = {q \in Procs : upc[q] \in {"open", "closing"}}
    BY <1>8 DEF OpenTest, Go, TypeOK
  <2> QED BY <1>8, <2>1, <2>2 DEF PinInv, Loaded, Up
<1>9. ASSUME Up, NEW p \in Procs, OpenSet(p)
      PROVE  PinInv'
  <2>1. upc[p] = "opening" /\ UNCHANGED mod /\ mod # "out"
    BY <1>9 DEF OpenSet, PinInv
  <2>2. CASE ~Loaded
    BY <1>9, <2>1, <2>2 DEF OpenSet, PinInv, Loaded, Up
  <2>3. CASE Loaded
    <3>1. held' = held \cup {p} /\ p \notin held /\ refs' = refs + 1
      BY <1>9, <2>1, <2>3 DEF OpenSet, PinInv
    <3>2. held' = {q \in Procs : upc'[q] \in {"open", "closing"}}
      BY <1>9, <2>3, <3>1 DEF OpenSet, Go, TypeOK, PinInv
    <3>3. IsFiniteSet(held') /\ Cardinality(held') = Cardinality(held) + 1
      BY <1>9, <3>1, FS_AddElement DEF PinInv
    <3>4. Cardinality(held) \in Nat
      BY <1>9, FS_CardinalityType DEF PinInv
    <3> QED BY <1>9, <2>1, <2>3, <3>1, <3>2, <3>3, <3>4 DEF PinInv, TypeOK, Loaded, Up
  <2> QED BY <2>2, <2>3
<1>10. ASSUME Up, NEW p \in Procs, ReleaseTest(p) \/ ReleasePut(p)
       PROVE  PinInv'
  <2>1. upc[p] \in {"open", "closing"} /\ UNCHANGED mod /\ mod # "out"
    BY <1>10 DEF ReleaseTest, ReleasePut, PinInv
  <2>2. /\ IsFiniteSet(held) /\ Cardinality(held) \in Nat
        /\ Cardinality(held) <= refs /\ refs \in Nat
    BY <1>10, FS_CardinalityType DEF PinInv, TypeOK
  <2>3. CASE ~Loaded
    <3>1. held' = {} /\ Cardinality(held') = 0 /\ refs' \in Nat
      BY <1>10, <2>2, <2>3, FS_EmptySet DEF ReleaseTest, ReleasePut, PinInv
    <3> QED BY <1>10, <2>1, <2>3, <3>1, FS_EmptySet DEF PinInv, Loaded, Up
  <2>4. CASE Loaded
    <3>1. p \in held
      BY <1>10, <2>1, <2>4 DEF PinInv
    <3>2. /\ IsFiniteSet(held \ {p}) /\ Cardinality(held \ {p}) = Cardinality(held) - 1
          /\ Cardinality(held \ {p}) \in Nat
      BY <2>2, <3>1, FS_RemoveElement, FS_CardinalityType
    <3>3. held' = {q \in Procs : upc'[q] \in {"open", "closing"}}
      BY <1>10, <2>4 DEF ReleaseTest, ReleasePut, Go, TypeOK, PinInv
    <3>4. IsFiniteSet(held') /\ Cardinality(held') <= refs'
      BY <1>10, <2>2, <3>2 DEF ReleaseTest, ReleasePut
    <3> QED BY <1>10, <2>1, <2>4, <3>3, <3>4 DEF PinInv, Loaded, Up
  <2> QED BY <2>3, <2>4
<1>11. ASSUME Up, NEW p \in Procs,
              IoctlPid(p) \/ (\E v \in Captures \cup {0, 3} : IoctlCapture(p, v))
       PROVE  PinInv'
  <2>1. UNCHANGED <<refs, upc, held, mod>>
    BY <1>11, Zenon DEF IoctlPid, IoctlCapture
  <2> QED BY <1>1, <2>1 DEF Up, Loaded
<1>12. ASSUME NEW p \in Procs, IoctlOverlay(p) \/ UseStale(p)
       PROVE  PinInv'
  BY <1>12 DEF IoctlOverlay, UseStale, PinInv, Up
<1>13. CASE UNCHANGED vars
  <2>1. UNCHANGED <<refs, upc, held, mod>>
    BY <1>13 DEF vars
  <2> QED BY <1>1, <2>1 DEF Up, Loaded
<1> QED
  BY <1>2, <1>3, <1>4, <1>5, <1>6, <1>7, <1>8, <1>9, <1>10, <1>11, <1>12, <1>13
  DEF Next, Admin, Load, User

\* However opens and releases race for is_open and for the unload, a file opened before rmmod
\* began keeps the module loaded.
THEOREM OpenPinsEvsoc == Spec => []PinnedWhileOpen
<1>1. Init => PinInv
  BY FS_EmptySet DEF Init, PinInv, Loaded
<1>2. TypeOK /\ PinInv /\ [Next]_vars => PinInv'
  BY PinStep
<1>3. PinInv => PinnedWhileOpen
  BY DEF PinInv, PinnedWhileOpen
<1> QED BY <1>1, <1>2, <1>3, TypeCorrect, PTL DEF Spec

-----------------------------------------------------------------------------
\* Every action keeps copy, signal and requests together.
LEMMA CaptureStep ==
  ASSUME TypeOK, IdxInv, CaptureInv, [Next]_vars
  PROVE  CaptureInv'
<1>1. CASE UNCHANGED <<thr, capVars>>
  BY <1>1 DEF CaptureInv
<1>2. CASE UNCHANGED capVars /\ thr' \notin {"signal", "clear"}
  BY <1>2 DEF CaptureInv
<1>3. CASE LoadCdev
  BY <1>3 DEF LoadCdev, CaptureInv, IdxInv
<1>4. CASE LoadThread
  BY <1>2, <1>4 DEF LoadThread
<1>5. CASE Rmmod \/ LoadMap \/ StartTx \/ StartTxDone \/ MainExit \/ MyExit \/ DeviceDestroy
  <2>1. UNCHANGED <<thr, capVars>>
    BY <1>5, Zenon DEF Rmmod, LoadMap, StartTx, StartTxDone, MainExit, MyExit, DeviceDestroy
  <2> QED BY <1>1, <2>1
<1>6. CASE \/ ThreadWait \/ ThreadLoop \/ ThreadDraw \/ CamDone \/ ThreadOverlay \/ ThreadTitle
           \/ ThreadSwap1 \/ ThreadSwap2 \/ ThreadSleep
  BY <1>2, <1>6 DEF ThreadWait, ThreadLoop, ThreadDraw, CamDone, ThreadOverlay, ThreadTitle,
       ThreadSwap1, ThreadSwap2, ThreadSleep
<1>7. CASE ThreadCapture
  BY <1>7 DEF ThreadCapture, CaptureInv
<1>8. CASE ThreadSignal
  BY <1>8 DEF ThreadSignal, CaptureInv
<1>9. CASE ThreadClear
  BY <1>9 DEF ThreadClear, CaptureInv
<1>10. CASE DispDone \/ TxIrqTake \/ TxIrqStart
  <2>1. UNCHANGED <<thr, capVars>>
    BY <1>10, Zenon DEF DispDone, TxIrqTake, TxIrqStart
  <2> QED BY <1>1, <2>1
<1>11. ASSUME NEW p \in Procs, NEW v \in Captures \cup {0, 3}, IoctlCapture(p, v)
       PROVE  CaptureInv'
  BY <1>11 DEF IoctlCapture, CaptureInv
<1>12. ASSUME NEW p \in Procs,
              \/ OpenTest(p) \/ OpenSet(p) \/ ReleaseTest(p) \/ ReleasePut(p) \/ IoctlPid(p)
              \/ IoctlOverlay(p) \/ UseStale(p)
       PROVE  CaptureInv'
  <2>1. UNCHANGED <<thr, capture_mode, asked, late, shot, sig>>
    BY <1>12, Zenon DEF OpenTest, OpenSet, ReleaseTest, ReleasePut, IoctlPid, IoctlOverlay,
         UseStale
  <2> QED BY <2>1 DEF CaptureInv
<1>13. CASE UNCHANGED vars
  BY <1>1, <1>13 DEF vars
<1> QED
  BY <1>3, <1>4, <1>5, <1>6, <1>7, <1>8, <1>9, <1>10, <1>11, <1>12, <1>13
  DEF Next, Admin, Load, Thread, Camera, Display, Irq, User

\* Whenever captures are requested, and by however many processes: a request is answered or
\* still pending and a signal is true, but for requests that come between a copy and the
\* assignment that withdraws it.
THEOREM CapturesAreKept == Spec => []CaptureKept
<1>1. Init => IdxInv /\ CaptureInv
  BY DEF Init, IdxInv, CaptureInv
<1>2. TypeOK /\ IdxInv /\ CaptureInv /\ [Next]_vars => IdxInv' /\ CaptureInv'
  BY IdxStep, CaptureStep
<1>3. CaptureInv => CaptureKept
  BY DEF CaptureInv, CaptureKept
<1> QED BY <1>1, <1>2, <1>3, TypeCorrect, PTL DEF Spec
=============================================================================
