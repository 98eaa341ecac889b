--------------------------- MODULE EfxRprocProofs ---------------------------
(* Machine-checked proofs about EfxRproc, for every set of harts and        *)
(* kickers, every vring depth and every combination of the option constants.*)
EXTENDS EfxRproc, TLAPS

USE RprocAssumption
USE DEF Goto, Kick, CorePc, Why, IrqPc, FwPc
USE DEF coreVars, privVars, inVars, shmVars, irqVars, kickVars, remVars
USE DEF doorbellUnchanged, workUnchanged, kickUnchanged, remoteUnchanged

\* The kick counters stay 32-bit values.
LEMMA IncType == ASSUME NEW k \in Kick PROVE Inc(k) \in Kick
  BY DEF Inc

\* Every step of every actor keeps the driver, shared-memory and firmware state
\* well-typed.
LEMMA TypeStep == TypeOK /\ [Next]_vars => TypeOK'
<1>a. SUFFICES ASSUME TypeOK, [Next]_vars PROVE TypeOK'
  OBVIOUS
<1>b. CoreType /\ DriverType /\ CounterType /\ LinuxType /\ RemoteType
  BY <1>a DEF TypeOK
<1>1. CASE Probe
  <2>1. CoreType'
    BY <1>b, <1>1 DEF Probe, CoreType
  <2>2. DriverType'
    BY <1>b, <1>1 DEF Probe, DriverType
  <2>3. CounterType'
    BY <1>b, <1>1 DEF Probe, CounterType
  <2>4. LinuxType' /\ RemoteType'
    BY <1>b, <1>1 DEF Probe, LinuxType, RemoteType
  <2> QED
    BY <2>1, <2>2, <2>3, <2>4 DEF TypeOK
<1>2. CASE ProbeAdd
  <2>1. CoreType'
    BY <1>b, <1>2 DEF ProbeAdd, CoreType
  <2>2. DriverType' /\ CounterType' /\ LinuxType' /\ RemoteType'
    BY <1>b, <1>2 DEF ProbeAdd, DriverType, CounterType, LinuxType, RemoteType
  <2> QED
    BY <2>1, <2>2 DEF TypeOK
<1>3. CASE Remove
  <2>1. CoreType'
    BY <1>b, <1>3 DEF Remove, StopVdev, CoreType
  <2>2. RemoteType'
    BY <1>b, <1>3 DEF Remove, StopVdev, RemoteType
  <2>3. DriverType' /\ CounterType' /\ LinuxType'
    BY <1>b, <1>3 DEF Remove, StopVdev, DriverType, CounterType, LinuxType
  <2> QED
    BY <2>1, <2>2, <2>3 DEF TypeOK
<1>4. CASE RemoveHook
  <2>1. CoreType'
    BY <1>b, <1>4 DEF RemoveHook, CoreType
  <2>2. DriverType' /\ CounterType' /\ LinuxType' /\ RemoteType'
    BY <1>b, <1>4 DEF RemoveHook, DriverType, CounterType, LinuxType, RemoteType
  <2> QED
    BY <2>1, <2>2 DEF TypeOK
<1>5. CASE RemoveFree
  <2>1. CoreType'
    BY <1>b, <1>5 DEF RemoveFree, CoreType
  <2>2. DriverType' /\ CounterType' /\ LinuxType' /\ RemoteType'
    BY <1>b, <1>5 DEF RemoveFree, DriverType, CounterType, LinuxType, RemoteType
  <2> QED
    BY <2>1, <2>2 DEF TypeOK
<1>6. CASE Prepare
  <2>a. core' \in CorePc /\ UNCHANGED <<why, ret, recovering, use_ipi, hook, vdevUp>>
    BY <1>b, <1>6 DEF Prepare, CoreType
  <2>b. carveouts' \subseteq {"vdev0vring0", "vdev0vring1"}
    BY <1>b, <1>6 DEF Prepare, CoreType
  <2>1. CoreType'
    BY <1>b, <2>a, <2>b, Zenon DEF CoreType
  <2>2. DriverType' /\ CounterType' /\ LinuxType' /\ RemoteType'
    BY <1>b, <1>6 DEF Prepare, DriverType, CounterType, LinuxType, RemoteType
  <2> QED
    BY <2>1, <2>2 DEF TypeOK
<1>7. CASE LoadSegments
  <2>a. core' \in CorePc /\ UNCHANGED <<why, ret, recovering, use_ipi, hook, vdevUp>>
    BY <1>b, <1>7 DEF LoadSegments, BootFails, CoreType
  <2>b. carveouts' \subseteq {"vdev0vring0", "vdev0vring1"}
    BY <1>b, <1>7 DEF LoadSegments, BootFails, CoreType
  <2>1. CoreType'
    BY <1>b, <2>a, <2>b, Zenon DEF CoreType
  <2>2. RemoteType'
    BY <1>b, <1>7 DEF LoadSegments, BootFails, RemoteType
  <2>3. DriverType' /\ CounterType' /\ LinuxType'
    BY <1>b, <1>7 DEF LoadSegments, BootFails, DriverType, CounterType, LinuxType
  <2> QED
    BY <2>1, <2>2, <2>3 DEF TypeOK
<1>8. CASE ClearShm
  <2>1. CoreType'
    BY <1>b, <1>8 DEF ClearShm, CoreType
  <2>2. CounterType'
    BY <1>b, <1>8 DEF ClearShm, CounterType
  <2>3. RemoteType'
    BY <1>b, <1>8 DEF ClearShm, RemoteType
  <2>4. DriverType' /\ LinuxType'
    BY <1>b, <1>8 DEF ClearShm, DriverType, LinuxType
  <2> QED
    BY <2>1, <2>2, <2>3, <2>4 DEF TypeOK
<1>9. CASE ParseHartStart
  <2>a. core' \in CorePc /\ UNCHANGED <<why, ret, recovering, use_ipi, hook, vdevUp>>
    BY <1>b, <1>9 DEF ParseHartStart, BootFails, HartStarts, CoreType
  <2>b. carveouts' \subseteq {"vdev0vring0", "vdev0vring1"}
    BY <1>b, <1>9 DEF ParseHartStart, BootFails, HartStarts, CoreType
  <2>1. CoreType'
    BY <1>b, <2>a, <2>b, Zenon DEF CoreType
  <2>2. DriverType'
    BY <1>b, <1>9 DEF ParseHartStart, BootFails, HartStarts, DriverType
  <2>3. RemoteType'
    BY <1>b, <1>9 DEF ParseHartStart, BootFails, HartStarts, RemoteType
  <2>4. CounterType' /\ LinuxType'
    BY <1>b, <1>9 DEF ParseHartStart, BootFails, HartStarts, CounterType, LinuxType
  <2> QED
    BY <2>1, <2>2, <2>3, <2>4 DEF TypeOK
<1>10. CASE ParseWait
  <2>a. core' \in CorePc /\ UNCHANGED <<why, ret, recovering, use_ipi, hook, vdevUp>>
    BY <1>b, <1>10 DEF ParseWait, BootFails, CoreType
  <2>b. carveouts' \subseteq {"vdev0vring0", "vdev0vring1"}
    BY <1>b, <1>10 DEF ParseWait, BootFails, CoreType
  <2>1. CoreType'
    BY <1>b, <2>a, <2>b, Zenon DEF CoreType
  <2>2. DriverType' /\ CounterType' /\ LinuxType' /\ RemoteType'
    BY <1>b, <1>10 DEF ParseWait, BootFails, DriverType, CounterType, LinuxType, RemoteType
  <2> QED
    BY <2>1, <2>2 DEF TypeOK
<1>11. CASE InboundSnapshot
  <2>1. CoreType'
    BY <1>b, <1>11 DEF InboundSnapshot, CoreType
  <2>2. CounterType'
    BY <1>b, <1>11 DEF InboundSnapshot, CounterType
  <2>3. DriverType' /\ LinuxType' /\ RemoteType'
    BY <1>b, <1>11 DEF InboundSnapshot, DriverType, LinuxType, RemoteType
  <2> QED
    BY <2>1, <2>2, <2>3 DEF TypeOK
<1>12. CASE InboundActivate
  <2>1. CoreType'
    BY <1>b, <1>12 DEF InboundActivate, CoreType
  <2>2. DriverType'
    BY <1>b, <1>12 DEF InboundActivate, DriverType
  <2>3. CounterType' /\ LinuxType' /\ RemoteType'
    BY <1>b, <1>12 DEF InboundActivate, CounterType, LinuxType, RemoteType
  <2> QED
    BY <2>1, <2>2, <2>3 DEF TypeOK
<1>13. CASE StartHart
  <2>1. CoreType'
    BY <1>b, <1>13 DEF StartHart, HartStarts, CoreType
  <2>2. DriverType'
    BY <1>b, <1>13 DEF StartHart, HartStarts, DriverType
  <2>3. RemoteType'
    BY <1>b, <1>13 DEF StartHart, HartStarts, RemoteType
  <2>4. CounterType' /\ LinuxType'
    BY <1>b, <1>13 DEF StartHart, HartStarts, CounterType, LinuxType
  <2> QED
    BY <2>1, <2>2, <2>3, <2>4 DEF TypeOK
<1>14. CASE StartSubdevs
  <2>1. CoreType'
    BY <1>b, <1>14 DEF StartSubdevs, CoreType
  <2>2. CounterType'
    BY <1>b, <1>14 DEF StartSubdevs, CounterType
  <2>3. RemoteType'
    BY <1>b, <1>14 DEF StartSubdevs, RemoteType
  <2>4. DriverType' /\ LinuxType'
    BY <1>b, <1>14 DEF StartSubdevs, DriverType, LinuxType
  <2> QED
    BY <2>1, <2>2, <2>3, <2>4 DEF TypeOK
<1>15. CASE Shutdown
  <2>1. CoreType'
    BY <1>b, <1>15 DEF Shutdown, StopVdev, CoreType
  <2>2. RemoteType'
    BY <1>b, <1>15 DEF Shutdown, StopVdev, RemoteType
  <2>3. DriverType' /\ CounterType' /\ LinuxType'
    BY <1>b, <1>15 DEF Shutdown, StopVdev, DriverType, CounterType, LinuxType
  <2> QED
    BY <2>1, <2>2, <2>3 DEF TypeOK
<1>16. CASE StopSend
  <2>1. CoreType'
    BY <1>b, <1>16 DEF StopSend, CoreType
  <2>2. RemoteType'
    BY <1>b, <1>16 DEF StopSend, RemoteType
  <2>3. DriverType' /\ CounterType' /\ LinuxType'
    BY <1>b, <1>16 DEF StopSend, DriverType, CounterType, LinuxType
  <2> QED
    BY <2>1, <2>2, <2>3 DEF TypeOK
<1>17. CASE StopPoll
  <2>1. CoreType'
    BY <1>b, <1>17 DEF StopPoll, CoreType
  <2>2. RemoteType'
    BY <1>b, <1>17 DEF StopPoll, RemoteType
  <2>3. DriverType' /\ CounterType' /\ LinuxType'
    BY <1>b, <1>17 DEF StopPoll, DriverType, CounterType, LinuxType
  <2> QED
    BY <2>1, <2>2, <2>3 DEF TypeOK
<1>18. CASE InboundOff
  <2>1. CoreType'
    BY <1>b, <1>18 DEF InboundOff, AfterInbound, CoreType
  <2>2. DriverType'
    BY <1>b, <1>18 DEF InboundOff, AfterInbound, DriverType
  <2>3. CounterType' /\ LinuxType' /\ RemoteType'
    BY <1>b, <1>18 DEF InboundOff, AfterInbound, CounterType, LinuxType, RemoteType
  <2> QED
    BY <2>1, <2>2, <2>3 DEF TypeOK
<1>19. CASE InboundCancel
  <2>1. CoreType'
    BY <1>b, <1>19 DEF InboundCancel, AfterInbound, CoreType
  <2>2. DriverType'
    BY <1>b, <1>19 DEF InboundCancel, AfterInbound, DriverType
  <2>3. CounterType' /\ LinuxType' /\ RemoteType'
    BY <1>b, <1>19 DEF InboundCancel, AfterInbound, CounterType, LinuxType, RemoteType
  <2> QED
    BY <2>1, <2>2, <2>3 DEF TypeOK
<1>20. CASE StopFinish
  <2>1. CoreType'
    BY <1>b, <1>20 DEF StopFinish, BootFails, CoreType
  <2>2. DriverType'
    BY <1>b, <1>20 DEF StopFinish, BootFails, DriverType
  <2>3. RemoteType'
    BY <1>b, <1>20 DEF StopFinish, BootFails, RemoteType
  <2>4. CounterType' /\ LinuxType'
    BY <1>b, <1>20 DEF StopFinish, BootFails, CounterType, LinuxType
  <2> QED
    BY <2>1, <2>2, <2>3, <2>4 DEF TypeOK
<1>21. CASE SetUseIpi
  <2>1. CoreType'
    BY <1>b, <1>21 DEF SetUseIpi, CoreType
  <2>2. DriverType' /\ CounterType' /\ LinuxType' /\ RemoteType'
    BY <1>b, <1>21 DEF SetUseIpi, DriverType, CounterType, LinuxType, RemoteType
  <2> QED
    BY <2>1, <2>2 DEF TypeOK
<1>22. CASE PollTick
  <2>1. DriverType'
    BY <1>b, <1>22 DEF PollTick, DriverType
  <2>2. CounterType'
    BY <1>b, <1>22 DEF PollTick, CounterType
  <2>3. CoreType' /\ LinuxType' /\ RemoteType'
    BY <1>b, <1>22 DEF PollTick, CoreType, LinuxType, RemoteType
  <2> QED
    BY <2>1, <2>2, <2>3 DEF TypeOK
<1>23. CASE WorkStart
  <2>1. DriverType'
    BY <1>b, <1>23 DEF WorkStart, DriverType
  <2>2. CoreType' /\ CounterType' /\ LinuxType' /\ RemoteType'
    BY <1>b, <1>23 DEF WorkStart, CoreType, CounterType, LinuxType, RemoteType
  <2> QED
    BY <2>1, <2>2 DEF TypeOK
<1>24. CASE NotifyWork
  <2>1. DriverType'
    BY <1>b, <1>24 DEF NotifyWork, DriverType
  <2>2. CounterType'
    BY <1>b, <1>24 DEF NotifyWork, CounterType
  <2>3. CoreType' /\ LinuxType' /\ RemoteType'
    BY <1>b, <1>24 DEF NotifyWork, CoreType, LinuxType, RemoteType
  <2> QED
    BY <2>1, <2>2, <2>3 DEF TypeOK
<1>25. CASE RemotePublish
  <2>1. RemoteType'
    BY <1>b, <1>25 DEF RemotePublish, RemoteType
  <2>2. CoreType' /\ DriverType' /\ CounterType' /\ LinuxType'
    BY <1>b, <1>25 DEF RemotePublish, CoreType, DriverType, CounterType, LinuxType
  <2> QED
    BY <2>1, <2>2 DEF TypeOK
<1>26. CASE RemoteGo
  <2>1. RemoteType'
    BY <1>b, <1>26 DEF RemoteGo, RemoteType
  <2>2. CoreType' /\ DriverType' /\ CounterType' /\ LinuxType'
    BY <1>b, <1>26 DEF RemoteGo, CoreType, DriverType, CounterType, LinuxType
  <2> QED
    BY <2>1, <2>2 DEF TypeOK
<1>27. CASE RemotePut
  <2>1. CounterType'
    BY <1>b, <1>27 DEF RemotePut, CounterType
  <2>2. RemoteType'
    BY <1>b, <1>27 DEF RemotePut, RemoteType
  <2>3. CoreType' /\ DriverType' /\ LinuxType'
    BY <1>b, <1>27 DEF RemotePut, CoreType, DriverType, LinuxType
  <2> QED
    BY <2>1, <2>2, <2>3 DEF TypeOK
<1>28. CASE RemoteKick
  <2>1. CounterType'
    BY <1>b, <1>28, IncType DEF RemoteKick, CounterType
  <2>2. RemoteType'
    BY <1>b, <1>28, IncType DEF RemoteKick, RemoteType
  <2>3. CoreType' /\ DriverType' /\ LinuxType'
    BY <1>b, <1>28 DEF RemoteKick, CoreType, DriverType, LinuxType
  <2> QED
    BY <2>1, <2>2, <2>3 DEF TypeOK
<1>29. CASE RemoteRing
  <2>1. LinuxType'
    BY <1>b, <1>29 DEF RemoteRing, LinuxType
  <2>2. RemoteType'
    BY <1>b, <1>29 DEF RemoteRing, RemoteType
  <2>3. CoreType' /\ DriverType' /\ CounterType'
    BY <1>b, <1>29 DEF RemoteRing, CoreType, DriverType, CounterType
  <2> QED
    BY <2>1, <2>2, <2>3 DEF TypeOK
<1>30. CASE RemoteIpi
  <2>1. CounterType'
    BY <1>b, <1>30 DEF RemoteIpi, CounterType
  <2>2. RemoteType'
    BY <1>b, <1>30 DEF RemoteIpi, RemoteType
  <2>3. CoreType' /\ DriverType' /\ LinuxType'
    BY <1>b, <1>30 DEF RemoteIpi, CoreType, DriverType, LinuxType
  <2> QED
    BY <2>1, <2>2, <2>3 DEF TypeOK
<1>31. CASE RemoteHalt
  <2>1. RemoteType'
    BY <1>b, <1>31 DEF RemoteHalt, RemoteType
  <2>2. CoreType' /\ DriverType' /\ CounterType' /\ LinuxType'
    BY <1>b, <1>31 DEF RemoteHalt, CoreType, DriverType, CounterType, LinuxType
  <2> QED
    BY <2>1, <2>2 DEF TypeOK
<1>32. CASE \E h \in Harts : IrqEnter(h)
  <2>1. CoreType'
    BY <1>b, <1>32 DEF IrqEnter, CoreType
  <2>2. LinuxType'
    BY <1>b, <1>32 DEF IrqEnter, LinuxType
  <2>3. DriverType' /\ CounterType' /\ RemoteType'
    BY <1>b, <1>32 DEF IrqEnter, DriverType, CounterType, RemoteType
  <2> QED
    BY <2>1, <2>2, <2>3 DEF TypeOK
<1>33. CASE \E h \in Harts : DoorbellActive(h)
  <2>1. LinuxType'
    BY <1>b, <1>33 DEF DoorbellActive, LinuxType
  <2>2. CoreType' /\ DriverType' /\ CounterType' /\ RemoteType'
    BY <1>b, <1>33 DEF DoorbellActive, CoreType, DriverType, CounterType, RemoteType
  <2> QED
    BY <2>1, <2>2 DEF TypeOK
<1>34. CASE \E h \in Harts : DoorbellRead(h)
  <2>1. CounterType'
    BY <1>b, <1>34 DEF DoorbellRead, CounterType
  <2>2. LinuxType'
    BY <1>b, <1>34 DEF DoorbellRead, LinuxType
  <2>3. CoreType' /\ DriverType' /\ RemoteType'
    BY <1>b, <1>34 DEF DoorbellRead, CoreType, DriverType, RemoteType
  <2> QED
    BY <2>1, <2>2, <2>3 DEF TypeOK
<1>35. CASE \E h \in Harts : DoorbellCompare(h)
  <2>1. LinuxType'
    BY <1>b, <1>35 DEF DoorbellCompare, LinuxType
  <2>2. CoreType' /\ DriverType' /\ CounterType' /\ RemoteType'
    BY <1>b, <1>35 DEF DoorbellCompare, CoreType, DriverType, CounterType, RemoteType
  <2> QED
    BY <2>1, <2>2 DEF TypeOK
<1>36. CASE \E h \in Harts : DoorbellWrite(h)
  <2>1. CounterType'
    BY <1>b, <1>36 DEF DoorbellWrite, CounterType
  <2>2. LinuxType'
    BY <1>b, <1>36 DEF DoorbellWrite, LinuxType
  <2>3. CoreType' /\ DriverType' /\ RemoteType'
    BY <1>b, <1>36 DEF DoorbellWrite, CoreType, DriverType, RemoteType
  <2> QED
    BY <2>1, <2>2, <2>3 DEF TypeOK
<1>37. CASE \E h \in Harts : DoorbellSchedule(h)
  <2>1. DriverType'
    BY <1>b, <1>37 DEF DoorbellSchedule, DriverType
  <2>2. LinuxType'
    BY <1>b, <1>37 DEF DoorbellSchedule, LinuxType
  <2>3. CoreType' /\ CounterType' /\ RemoteType'
    BY <1>b, <1>37 DEF DoorbellSchedule, CoreType, CounterType, RemoteType
  <2> QED
    BY <2>1, <2>2, <2>3 DEF TypeOK
<1>38. CASE \E h \in Harts : IrqAck(h)
  <2>1. LinuxType'
    BY <1>b, <1>38 DEF IrqAck, LinuxType
  <2>2. CoreType' /\ DriverType' /\ CounterType' /\ RemoteType'
    BY <1>b, <1>38 DEF IrqAck, CoreType, DriverType, CounterType, RemoteType
  <2> QED
    BY <2>1, <2>2 DEF TypeOK
<1>39. CASE \E h \in Harts : LinuxIpi(h)
  <2>1. LinuxType'
    BY <1>b, <1>39 DEF LinuxIpi, LinuxType
  <2>2. CoreType' /\ DriverType' /\ CounterType' /\ RemoteType'
    BY <1>b, <1>39 DEF LinuxIpi, CoreType, DriverType, CounterType, RemoteType
  <2> QED
    BY <2>1, <2>2 DEF TypeOK
<1>40. CASE \E k \in Kickers : LinuxSend(k)
  <2>1. CounterType'
    BY <1>b, <1>40 DEF LinuxSend, CounterType
  <2>2. LinuxType'
    BY <1>b, <1>40 DEF LinuxSend, LinuxType
  <2>3. CoreType' /\ DriverType' /\ RemoteType'
    BY <1>b, <1>40 DEF LinuxSend, CoreType, DriverType, RemoteType
  <2> QED
    BY <2>1, <2>2, <2>3 DEF TypeOK
<1>41. CASE \E k \in Kickers : KickRead(k)
  <2>1. CounterType'
    BY <1>b, <1>41, IncType DEF KickRead, CounterType
  <2>2. LinuxType'
    BY <1>b, <1>41, IncType DEF KickRead, LinuxType
  <2>3. CoreType' /\ DriverType' /\ RemoteType'
    BY <1>b, <1>41 DEF KickRead, CoreType, DriverType, RemoteType
  <2> QED
    BY <2>1, <2>2, <2>3 DEF TypeOK
<1>42. CASE \E k \in Kickers : KickWrite(k)
  <2>1. CounterType'
    BY <1>b, <1>42 DEF KickWrite, CounterType
  <2>2. LinuxType'
    BY <1>b, <1>42 DEF KickWrite, LinuxType
  <2>3. CoreType' /\ DriverType' /\ RemoteType'
    BY <1>b, <1>42 DEF KickWrite, CoreType, DriverType, RemoteType
  <2> QED
    BY <2>1, <2>2, <2>3 DEF TypeOK
<1>43. CASE \E k \in Kickers : KickIpi(k)
  <2>1. LinuxType'
    BY <1>b, <1>43 DEF KickIpi, LinuxType
  <2>2. RemoteType'
    BY <1>b, <1>43 DEF KickIpi, RemoteType
  <2>3. CoreType' /\ DriverType' /\ CounterType'
    BY <1>b, <1>43 DEF KickIpi, CoreType, DriverType, CounterType
  <2> QED
    BY <2>1, <2>2, <2>3 DEF TypeOK
<1>44. CASE UNCHANGED vars
  BY <1>b, <1>44 DEF vars, TypeOK, CoreType, DriverType, CounterType, LinuxType, RemoteType
<1> QED
  BY <1>a, <1>1, <1>2, <1>3, <1>4, <1>5, <1>6, <1>7, <1>8, <1>9, <1>10, <1>11,
     <1>12, <1>13, <1>14, <1>15, <1>16, <1>17, <1>18, <1>19, <1>20, <1>21,
     <1>22, <1>23, <1>24, <1>25, <1>26, <1>27, <1>28, <1>29, <1>30, <1>31,
     <1>32, <1>33, <1>34, <1>35, <1>36, <1>37, <1>38, <1>39, <1>40, <1>41,
     <1>42, <1>43, <1>44 DEF Next, CoreStep, User, Boot, Stop, Irq, Work,
     KickStep, RemoteStep

\* The state after boot, before the module is loaded, is well-typed.
LEMMA TypeInit == Init => TypeOK
<1> SUFFICES ASSUME Init PROVE TypeOK
  OBVIOUS
<1>1. CoreType
  BY DEF Init, CoreType
<1>2. DriverType
  BY DEF Init, DriverType
<1>3. CounterType
  BY DEF Init, CounterType
<1>4. LinuxType /\ RemoteType
  BY DEF Init, LinuxType, RemoteType
<1> QED
  BY <1>1, <1>2, <1>3, <1>4 DEF TypeOK

\* Type correctness holds for every instance of the constants.
THEOREM TypeCorrect == Spec => []TypeOK
  BY TypeInit, TypeStep, PTL DEF Spec

\* Only StartSubdevs binds the virtio device, and every way out of "running"
\* unbinds it first.
LEMMA VdevStep ==
  TypeOK /\ VdevNeedsRunning /\ [Next]_vars => VdevNeedsRunning'
<1>a. SUFFICES ASSUME TypeOK, VdevNeedsRunning, [Next]_vars
               PROVE  VdevNeedsRunning'
  OBVIOUS
<1>b. TypeOK /\ VdevNeedsRunning
  BY <1>a
<1>1. CASE User
  BY <1>b, <1>1 DEF User, Probe, Prepare, Shutdown, Remove, SetUseIpi, StopVdev,
    VdevNeedsRunning, TypeOK, CoreType
<1>2. CASE Boot
  BY <1>b, <1>2 DEF Boot, LoadSegments, ClearShm, ParseHartStart, ParseWait,
    InboundSnapshot, InboundActivate, StartHart, StartSubdevs, BootFails,
    HartStarts, VdevNeedsRunning, TypeOK, CoreType
<1>3. CASE Stop
  BY <1>b, <1>3 DEF Stop, StopSend, StopPoll, InboundOff, InboundCancel,
    StopFinish, AfterInbound, BootFails, VdevNeedsRunning, TypeOK, CoreType
<1>4. CASE ProbeAdd \/ RemoveHook \/ RemoveFree
  BY <1>b, <1>4 DEF ProbeAdd, RemoveHook, RemoveFree, VdevNeedsRunning, TypeOK,
    CoreType
<1>5. CASE PollTick \/ Work
  BY <1>b, <1>5 DEF Work, PollTick, WorkStart, NotifyWork, VdevNeedsRunning,
    TypeOK, CoreType
<1>6. CASE RemotePut \/ RemoteStep \/ RemoteIpi
  BY <1>b, <1>6 DEF RemoteStep, RemotePublish, RemoteGo, RemotePut, RemoteKick,
    RemoteRing, RemoteIpi, RemoteHalt, VdevNeedsRunning, TypeOK, CoreType
<1>7. CASE \E h \in Harts : Irq(h) \/ LinuxIpi(h)
  BY <1>b, <1>7 DEF Irq, IrqEnter, DoorbellActive, DoorbellRead,
    DoorbellCompare, DoorbellWrite, DoorbellSchedule, IrqAck, LinuxIpi,
    VdevNeedsRunning, TypeOK, CoreType
<1>8. CASE \E k \in Kickers : LinuxSend(k) \/ KickStep(k)
  BY <1>b, <1>8 DEF KickStep, LinuxSend, KickRead, KickWrite, KickIpi,
    VdevNeedsRunning, TypeOK, CoreType
<1>9. CASE UNCHANGED vars
  BY <1>b, <1>9 DEF vars, VdevNeedsRunning, TypeOK, CoreType
<1> QED
  BY <1>a, <1>1, <1>2, <1>3, <1>4, <1>5, <1>6, <1>7, <1>8, <1>9 DEF Next,
    CoreStep

\* The carveouts outlive every session they were prepared for.
LEMMA CarveoutStep ==
  TypeOK /\ VdevNeedsRunning /\ CarveoutsHeld /\ [Next]_vars => CarveoutsHeld'
<1>a. SUFFICES ASSUME TypeOK, VdevNeedsRunning, CarveoutsHeld, [Next]_vars
               PROVE  CarveoutsHeld'
  OBVIOUS
<1>b. TypeOK /\ VdevNeedsRunning /\ CarveoutsHeld
  BY <1>a
<1>1. CASE User
  BY <1>b, <1>1 DEF User, Probe, Prepare, Shutdown, Remove, SetUseIpi, StopVdev,
    CarveoutsHeld, VdevNeedsRunning, InBoot, InSession, TypeOK, CoreType
<1>2. CASE Boot
  BY <1>b, <1>2 DEF Boot, LoadSegments, ClearShm, ParseHartStart, ParseWait,
    InboundSnapshot, InboundActivate, StartHart, StartSubdevs, BootFails,
    HartStarts, CarveoutsHeld, VdevNeedsRunning, InBoot, InSession, TypeOK,
    CoreType
<1>3. CASE Stop
  BY <1>b, <1>3 DEF Stop, StopSend, StopPoll, InboundOff, InboundCancel,
    StopFinish, AfterInbound, BootFails, CarveoutsHeld, VdevNeedsRunning,
    InBoot, InSession, TypeOK, CoreType
<1>4. CASE ProbeAdd \/ RemoveHook \/ RemoveFree
  BY <1>b, <1>4 DEF ProbeAdd, RemoveHook, RemoveFree, CarveoutsHeld,
    VdevNeedsRunning, InBoot, InSession, TypeOK, CoreType
<1>5. CASE PollTick \/ Work
  BY <1>b, <1>5 DEF Work, PollTick, WorkStart, NotifyWork, CarveoutsHeld,
    VdevNeedsRunning, InBoot, InSession, TypeOK, CoreType
<1>6. CASE RemotePut \/ RemoteStep \/ RemoteIpi
  BY <1>b, <1>6 DEF RemoteStep, RemotePublish, RemoteGo, RemotePut, RemoteKick,
    RemoteRing, RemoteIpi, RemoteHalt, CarveoutsHeld, VdevNeedsRunning, InBoot,
    InSession, TypeOK, CoreType
<1>7. CASE \E h \in Harts : Irq(h) \/ LinuxIpi(h)
  BY <1>b, <1>7 DEF Irq, IrqEnter, DoorbellActive, DoorbellRead,
    DoorbellCompare, DoorbellWrite, DoorbellSchedule, IrqAck, LinuxIpi,
    CarveoutsHeld, VdevNeedsRunning, InBoot, InSession, TypeOK, CoreType
<1>8. CASE \E k \in Kickers : LinuxSend(k) \/ KickStep(k)
  BY <1>b, <1>8 DEF KickStep, LinuxSend, KickRead, KickWrite, KickIpi,
    CarveoutsHeld, VdevNeedsRunning, InBoot, InSession, TypeOK, CoreType
<1>9. CASE UNCHANGED vars
  BY <1>b, <1>9 DEF vars, CarveoutsHeld, VdevNeedsRunning, InBoot, InSession,
    TypeOK, CoreType
<1> QED
  BY <1>a, <1>1, <1>2, <1>3, <1>4, <1>5, <1>6, <1>7, <1>8, <1>9 DEF Next,
    CoreStep

\* An unbound driver has no doorbell in flight and no live hook.
LEMMA UnboundStep ==
  TypeOK /\ UnboundSettled /\ [Next]_vars => UnboundSettled'
<1>a. SUFFICES ASSUME TypeOK, UnboundSettled, [Next]_vars
               PROVE  UnboundSettled'
  OBVIOUS
<1>b. TypeOK /\ UnboundSettled
  BY <1>a
<1>1. CASE User
  BY <1>b, <1>1 DEF User, Probe, Prepare, Shutdown, Remove, SetUseIpi, StopVdev,
    UnboundSettled, DoorbellsSettled, Doorbell, PrivReferenced, TypeOK,
    CoreType, LinuxType
<1>2. CASE Boot
  BY <1>b, <1>2 DEF Boot, LoadSegments, ClearShm, ParseHartStart, ParseWait,
    InboundSnapshot, InboundActivate, StartHart, StartSubdevs, BootFails,
    HartStarts, UnboundSettled, DoorbellsSettled, Doorbell, PrivReferenced,
    TypeOK, CoreType, LinuxType
<1>3. CASE Stop
  BY <1>b, <1>3 DEF Stop, StopSend, StopPoll, InboundOff, InboundCancel,
    StopFinish, AfterInbound, BootFails, UnboundSettled, DoorbellsSettled,
    Doorbell, PrivReferenced, TypeOK, CoreType, LinuxType
<1>4. CASE ProbeAdd \/ RemoveHook \/ RemoveFree
  BY <1>b, <1>4 DEF ProbeAdd, RemoveHook, RemoveFree, UnboundSettled,
    DoorbellsSettled, Doorbell, PrivReferenced, TypeOK, CoreType, LinuxType
<1>5. CASE PollTick \/ Work
  BY <1>b, <1>5 DEF Work, PollTick, WorkStart, NotifyWork, UnboundSettled,
    DoorbellsSettled, Doorbell, PrivReferenced, TypeOK, CoreType, LinuxType
<1>6. CASE RemotePut \/ RemoteStep \/ RemoteIpi
  BY <1>b, <1>6 DEF RemoteStep, RemotePublish, RemoteGo, RemotePut, RemoteKick,
    RemoteRing, RemoteIpi, RemoteHalt, UnboundSettled, DoorbellsSettled,
    Doorbell, PrivReferenced, TypeOK, CoreType, LinuxType
<1>7. CASE \E h \in Harts : Irq(h) \/ LinuxIpi(h)
  BY <1>b, <1>7 DEF Irq, IrqEnter, DoorbellActive, DoorbellRead,
    DoorbellCompare, DoorbellWrite, DoorbellSchedule, IrqAck, LinuxIpi,
    UnboundSettled, DoorbellsSettled, Doorbell, PrivReferenced, TypeOK,
    CoreType, LinuxType
<1>8. CASE \E k \in Kickers : LinuxSend(k) \/ KickStep(k)
  BY <1>b, <1>8 DEF KickStep, LinuxSend, KickRead, KickWrite, KickIpi,
    UnboundSettled, DoorbellsSettled, Doorbell, PrivReferenced, TypeOK,
    CoreType, LinuxType
<1>9. CASE UNCHANGED vars
  BY <1>b, <1>9 DEF vars, UnboundSettled, DoorbellsSettled, Doorbell,
    PrivReferenced, TypeOK, CoreType, LinuxType
<1> QED
  BY <1>a, <1>1, <1>2, <1>3, <1>4, <1>5, <1>6, <1>7, <1>8, <1>9 DEF Next,
    CoreStep

\* A value a doorbell has read is never ahead of the counter: the counter is
\* only reset when no doorbell is in flight.
LEMMA NowStep ==
  ASSUME ~MayWrap PROVE
  TypeOK /\ UnboundSettled /\ NowBehind /\ [Next]_vars => NowBehind'
<1>a. SUFFICES ASSUME TypeOK, UnboundSettled, NowBehind, [Next]_vars
               PROVE  NowBehind'
  OBVIOUS
<1>b. TypeOK /\ UnboundSettled /\ NowBehind
  BY <1>a
<1>1. CASE User
  BY <1>b, <1>1 DEF User, Probe, Prepare, Shutdown, Remove, SetUseIpi, StopVdev,
    NowBehind, UnboundSettled, DoorbellsSettled, Doorbell, Inc, TypeOK,
    CounterType, LinuxType
<1>2. CASE Boot
  BY <1>b, <1>2 DEF Boot, LoadSegments, ClearShm, ParseHartStart, ParseWait,
    InboundSnapshot, InboundActivate, StartHart, StartSubdevs, BootFails,
    HartStarts, NowBehind, UnboundSettled, DoorbellsSettled, Doorbell, Inc,
    TypeOK, CounterType, LinuxType
<1>3. CASE Stop
  BY <1>b, <1>3 DEF Stop, StopSend, StopPoll, InboundOff, InboundCancel,
    StopFinish, AfterInbound, BootFails, NowBehind, UnboundSettled,
    DoorbellsSettled, Doorbell, Inc, TypeOK, CounterType, LinuxType
<1>4. CASE ProbeAdd \/ RemoveHook \/ RemoveFree
  BY <1>b, <1>4 DEF ProbeAdd, RemoveHook, RemoveFree, NowBehind, UnboundSettled,
    DoorbellsSettled, Doorbell, Inc, TypeOK, CounterType, LinuxType
<1>5. CASE PollTick \/ Work
  BY <1>b, <1>5 DEF Work, PollTick, WorkStart, NotifyWork, NowBehind,
    UnboundSettled, DoorbellsSettled, Doorbell, Inc, TypeOK, CounterType,
    LinuxType
<1>6. CASE RemotePut \/ RemoteStep \/ RemoteIpi
  BY <1>b, <1>6 DEF RemoteStep, RemotePublish, RemoteGo, RemotePut, RemoteKick,
    RemoteRing, RemoteIpi, RemoteHalt, NowBehind, UnboundSettled,
    DoorbellsSettled, Doorbell, Inc, TypeOK, CounterType, LinuxType
<1>7. CASE \E h \in Harts : Irq(h) \/ LinuxIpi(h)
  <2>1. CASE \E h \in Harts : IrqEnter(h)
    BY <1>b, <2>1 DEF IrqEnter, NowBehind, UnboundSettled, DoorbellsSettled,
      Doorbell, Inc, TypeOK, CounterType, LinuxType
  <2>2. CASE \E h \in Harts : DoorbellActive(h)
    BY <1>b, <2>2 DEF DoorbellActive, NowBehind, UnboundSettled,
      DoorbellsSettled, Doorbell, Inc, TypeOK, CounterType, LinuxType
  <2>3. CASE \E h \in Harts : DoorbellRead(h)
    BY <1>b, <2>3 DEF DoorbellRead, NowBehind, UnboundSettled, DoorbellsSettled,
      Doorbell, Inc, TypeOK, CounterType, LinuxType
  <2>4. CASE \E h \in Harts : DoorbellCompare(h)
    BY <1>b, <2>4 DEF DoorbellCompare, NowBehind, UnboundSettled,
      DoorbellsSettled, Doorbell, Inc, TypeOK, CounterType, LinuxType
  <2>5. CASE \E h \in Harts : DoorbellWrite(h)
    BY <1>b, <2>5 DEF DoorbellWrite, NowBehind, UnboundSettled,
      DoorbellsSettled, Doorbell, Inc, TypeOK, CounterType, LinuxType
  <2>6. CASE \E h \in Harts : DoorbellSchedule(h)
    BY <1>b, <2>6 DEF DoorbellSchedule, NowBehind, UnboundSettled,
      DoorbellsSettled, Doorbell, Inc, TypeOK, CounterType, LinuxType
  <2>7. CASE \E h \in Harts : IrqAck(h)
    BY <1>b, <2>7 DEF IrqAck, NowBehind, UnboundSettled, DoorbellsSettled,
      Doorbell, Inc, TypeOK, CounterType, LinuxType
  <2>8. CASE \E h \in Harts : LinuxIpi(h)
    BY <1>b, <2>8 DEF LinuxIpi, NowBehind, UnboundSettled, DoorbellsSettled,
      Doorbell, Inc, TypeOK, CounterType, LinuxType
  <2> QED
    BY <1>7, <2>1, <2>2, <2>3, <2>4, <2>5, <2>6, <2>7, <2>8 DEF Irq
<1>8. CASE \E k \in Kickers : LinuxSend(k) \/ KickStep(k)
  BY <1>b, <1>8 DEF KickStep, LinuxSend, KickRead, KickWrite, KickIpi,
    NowBehind, UnboundSettled, DoorbellsSettled, Doorbell, Inc, TypeOK,
    CounterType, LinuxType
<1>9. CASE UNCHANGED vars
  BY <1>b, <1>9 DEF vars, NowBehind, UnboundSettled, DoorbellsSettled, Doorbell,
    Inc, TypeOK, CounterType, LinuxType
<1> QED
  BY <1>a, <1>1, <1>2, <1>3, <1>4, <1>5, <1>6, <1>7, <1>8, <1>9 DEF Next,
    CoreStep

\* last_r2l_seen is never ahead of the counter within a session.
LEMMA SeenStep ==
  ASSUME ~MayWrap PROVE
  TypeOK /\ VdevNeedsRunning /\ NowBehind /\ SeenBehind /\ [Next]_vars => SeenBehind'
<1>a. SUFFICES ASSUME TypeOK, VdevNeedsRunning, NowBehind, SeenBehind, [Next]_vars
               PROVE  SeenBehind'
  OBVIOUS
<1>b. TypeOK /\ VdevNeedsRunning /\ NowBehind /\ SeenBehind
  BY <1>a
<1>1. CASE User
  BY <1>b, <1>1 DEF User, Probe, Prepare, Shutdown, Remove, SetUseIpi, StopVdev,
    SeenBehind, NowBehind, VdevNeedsRunning, InSession, Inc, TypeOK,
    CounterType, LinuxType
<1>2. CASE Boot
  BY <1>b, <1>2 DEF Boot, LoadSegments, ClearShm, ParseHartStart, ParseWait,
    InboundSnapshot, InboundActivate, StartHart, StartSubdevs, BootFails,
    HartStarts, SeenBehind, NowBehind, VdevNeedsRunning, InSession, Inc, TypeOK,
    CounterType, LinuxType
<1>3. CASE Stop
  BY <1>b, <1>3 DEF Stop, StopSend, StopPoll, InboundOff, InboundCancel,
    StopFinish, AfterInbound, BootFails, SeenBehind, NowBehind,
    VdevNeedsRunning, InSession, Inc, TypeOK, CounterType, LinuxType
<1>4. CASE ProbeAdd \/ RemoveHook \/ RemoveFree
  BY <1>b, <1>4 DEF ProbeAdd, RemoveHook, RemoveFree, SeenBehind, NowBehind,
    VdevNeedsRunning, InSession, Inc, TypeOK, CounterType, LinuxType
<1>5. CASE PollTick \/ Work
  BY <1>b, <1>5 DEF Work, PollTick, WorkStart, NotifyWork, SeenBehind,
    NowBehind, VdevNeedsRunning, InSession, Inc, TypeOK, CounterType, LinuxType
<1>6. CASE RemotePut \/ RemoteStep \/ RemoteIpi
  BY <1>b, <1>6 DEF RemoteStep, RemotePublish, RemoteGo, RemotePut, RemoteKick,
    RemoteRing, RemoteIpi, RemoteHalt, SeenBehind, NowBehind, VdevNeedsRunning,
    InSession, Inc, TypeOK, CounterType, LinuxType
<1>7. CASE \E h \in Harts : Irq(h) \/ LinuxIpi(h)
  <2>1. CASE \E h \in Harts : IrqEnter(h)
    BY <1>b, <2>1 DEF IrqEnter, SeenBehind, NowBehind, VdevNeedsRunning,
      InSession, Inc, TypeOK, CounterType, LinuxType
  <2>2. CASE \E h \in Harts : DoorbellActive(h)
    BY <1>b, <2>2 DEF DoorbellActive, SeenBehind, NowBehind, VdevNeedsRunning,
      InSession, Inc, TypeOK, CounterType, LinuxType
  <2>3. CASE \E h \in Harts : DoorbellRead(h)
    BY <1>b, <2>3 DEF DoorbellRead, SeenBehind, NowBehind, VdevNeedsRunning,
      InSession, Inc, TypeOK, CounterType, LinuxType
  <2>4. CASE \E h \in Harts : DoorbellCompare(h)
    BY <1>b, <2>4 DEF DoorbellCompare, SeenBehind, NowBehind, VdevNeedsRunning,
      InSession, Inc, TypeOK, CounterType, LinuxType
  <2>5. CASE \E h \in Harts : DoorbellWrite(h)
    BY <1>b, <2>5 DEF DoorbellWrite, SeenBehind, NowBehind, VdevNeedsRunning,
      InSession, Inc, TypeOK, CounterType, LinuxType
  <2>6. CASE \E h \in Harts : DoorbellSchedule(h)
    BY <1>b, <2>6 DEF DoorbellSchedule, SeenBehind, NowBehind, VdevNeedsRunning,
      InSession, Inc, TypeOK, CounterType, LinuxType
  <2>7. CASE \E h \in Harts : IrqAck(h)
    BY <1>b, <2>7 DEF IrqAck, SeenBehind, NowBehind, VdevNeedsRunning,
      InSession, Inc, TypeOK, CounterType, LinuxType
  <2>8. CASE \E h \in Harts : LinuxIpi(h)
    BY <1>b, <2>8 DEF LinuxIpi, SeenBehind, NowBehind, VdevNeedsRunning,
      InSession, Inc, TypeOK, CounterType, LinuxType
  <2> QED
    BY <1>7, <2>1, <2>2, <2>3, <2>4, <2>5, <2>6, <2>7, <2>8 DEF Irq
<1>8. CASE \E k \in Kickers : LinuxSend(k) \/ KickStep(k)
  BY <1>b, <1>8 DEF KickStep, LinuxSend, KickRead, KickWrite, KickIpi,
    SeenBehind, NowBehind, VdevNeedsRunning, InSession, Inc, TypeOK,
    CounterType, LinuxType
<1>9. CASE UNCHANGED vars
  BY <1>b, <1>9 DEF vars, SeenBehind, NowBehind, VdevNeedsRunning, InSession,
    Inc, TypeOK, CounterType, LinuxType
<1> QED
  BY <1>a, <1>1, <1>2, <1>3, <1>4, <1>5, <1>6, <1>7, <1>8, <1>9 DEF Next,
    CoreStep

\* The stop message is in shared memory only while efinix_rproc_stop runs, with
\* the virtio device already unbound.
LEMMA StopStep ==
  TypeOK /\ VdevNeedsRunning /\ StopNeedsDown /\ [Next]_vars => StopNeedsDown'
<1>a. SUFFICES ASSUME TypeOK, VdevNeedsRunning, StopNeedsDown, [Next]_vars
               PROVE  StopNeedsDown'
  OBVIOUS
<1>b. TypeOK /\ VdevNeedsRunning /\ StopNeedsDown
  BY <1>a
<1>1. CASE User
  BY <1>b, <1>1 DEF User, Probe, Prepare, Shutdown, Remove, SetUseIpi, StopVdev,
    StopNeedsDown, StopCaller, VdevNeedsRunning, TypeOK, CoreType, RemoteType
<1>2. CASE Boot
  BY <1>b, <1>2 DEF Boot, LoadSegments, ClearShm, ParseHartStart, ParseWait,
    InboundSnapshot, InboundActivate, StartHart, StartSubdevs, BootFails,
    HartStarts, StopNeedsDown, StopCaller, VdevNeedsRunning, TypeOK, CoreType,
    RemoteType
<1>3. CASE Stop
  BY <1>b, <1>3 DEF Stop, StopSend, StopPoll, InboundOff, InboundCancel,
    StopFinish, AfterInbound, BootFails, StopNeedsDown, StopCaller,
    VdevNeedsRunning, TypeOK, CoreType, RemoteType
<1>4. CASE ProbeAdd \/ RemoveHook \/ RemoveFree
  BY <1>b, <1>4 DEF ProbeAdd, RemoveHook, RemoveFree, StopNeedsDown, StopCaller,
    VdevNeedsRunning, TypeOK, CoreType, RemoteType
<1>5. CASE PollTick \/ Work
  BY <1>b, <1>5 DEF Work, PollTick, WorkStart, NotifyWork, StopNeedsDown,
    StopCaller, VdevNeedsRunning, TypeOK, CoreType, RemoteType
<1>6. CASE RemotePut \/ RemoteStep \/ RemoteIpi
  BY <1>b, <1>6 DEF RemoteStep, RemotePublish, RemoteGo, RemotePut, RemoteKick,
    RemoteRing, RemoteIpi, RemoteHalt, StopNeedsDown, StopCaller,
    VdevNeedsRunning, TypeOK, CoreType, RemoteType
<1>7. CASE \E h \in Harts : Irq(h) \/ LinuxIpi(h)
  BY <1>b, <1>7 DEF Irq, IrqEnter, DoorbellActive, DoorbellRead,
    DoorbellCompare, DoorbellWrite, DoorbellSchedule, IrqAck, LinuxIpi,
    StopNeedsDown, StopCaller, VdevNeedsRunning, TypeOK, CoreType, RemoteType
<1>8. CASE \E k \in Kickers : LinuxSend(k) \/ KickStep(k)
  BY <1>b, <1>8 DEF KickStep, LinuxSend, KickRead, KickWrite, KickIpi,
    StopNeedsDown, StopCaller, VdevNeedsRunning, TypeOK, CoreType, RemoteType
<1>9. CASE UNCHANGED vars
  BY <1>b, <1>9 DEF vars, StopNeedsDown, StopCaller, VdevNeedsRunning, TypeOK,
    CoreType, RemoteType
<1> QED
  BY <1>a, <1>1, <1>2, <1>3, <1>4, <1>5, <1>6, <1>7, <1>8, <1>9 DEF Next,
    CoreStep

\* A firmware that halts late, after its stop timed out, sends nothing into the
\* next session.
LEMMA HaltingStep ==
  TypeOK /\ VdevNeedsRunning /\ StopNeedsDown /\ HaltingIdle /\ [Next]_vars => HaltingIdle'
<1>a. SUFFICES ASSUME TypeOK, VdevNeedsRunning, StopNeedsDown, HaltingIdle, [Next]_vars
               PROVE  HaltingIdle'
  OBVIOUS
<1>b. TypeOK /\ VdevNeedsRunning /\ StopNeedsDown /\ HaltingIdle
  BY <1>a
<1>1. CASE User
  BY <1>b, <1>1 DEF User, Probe, Prepare, Shutdown, Remove, SetUseIpi, StopVdev,
    HaltingIdle, StopNeedsDown, VdevNeedsRunning, TypeOK, CounterType
<1>2. CASE Boot
  BY <1>b, <1>2 DEF Boot, LoadSegments, ClearShm, ParseHartStart, ParseWait,
    InboundSnapshot, InboundActivate, StartHart, StartSubdevs, BootFails,
    HartStarts, HaltingIdle, StopNeedsDown, VdevNeedsRunning, TypeOK,
    CounterType
<1>3. CASE Stop
  BY <1>b, <1>3 DEF Stop, StopSend, StopPoll, InboundOff, InboundCancel,
    StopFinish, AfterInbound, BootFails, HaltingIdle, StopNeedsDown,
    VdevNeedsRunning, TypeOK, CounterType
<1>4. CASE ProbeAdd \/ RemoveHook \/ RemoveFree
  BY <1>b, <1>4 DEF ProbeAdd, RemoveHook, RemoveFree, HaltingIdle,
    StopNeedsDown, VdevNeedsRunning, TypeOK, CounterType
<1>5. CASE PollTick \/ Work
  BY <1>b, <1>5 DEF Work, PollTick, WorkStart, NotifyWork, HaltingIdle,
    StopNeedsDown, VdevNeedsRunning, TypeOK, CounterType
<1>6. CASE RemotePut \/ RemoteStep \/ RemoteIpi
  BY <1>b, <1>6 DEF RemoteStep, RemotePublish, RemoteGo, RemotePut, RemoteKick,
    RemoteRing, RemoteIpi, RemoteHalt, HaltingIdle, StopNeedsDown,
    VdevNeedsRunning, TypeOK, CounterType
<1>7. CASE \E h \in Harts : Irq(h) \/ LinuxIpi(h)
  BY <1>b, <1>7 DEF Irq, IrqEnter, DoorbellActive, DoorbellRead,
    DoorbellCompare, DoorbellWrite, DoorbellSchedule, IrqAck, LinuxIpi,
    HaltingIdle, StopNeedsDown, VdevNeedsRunning, TypeOK, CounterType
<1>8. CASE \E k \in Kickers : LinuxSend(k) \/ KickStep(k)
  BY <1>b, <1>8 DEF KickStep, LinuxSend, KickRead, KickWrite, KickIpi,
    HaltingIdle, StopNeedsDown, VdevNeedsRunning, TypeOK, CounterType
<1>9. CASE UNCHANGED vars
  BY <1>b, <1>9 DEF vars, HaltingIdle, StopNeedsDown, VdevNeedsRunning, TypeOK,
    CounterType
<1> QED
  BY <1>a, <1>1, <1>2, <1>3, <1>4, <1>5, <1>6, <1>7, <1>8, <1>9 DEF Next,
    CoreStep

\* No step marks a kick as seen without leaving somebody bound to drain it.
LEMMA KickStepInv ==
  ASSUME ~MayWrap PROVE
  TypeOK /\ VdevNeedsRunning /\ SeenBehind /\ HaltingIdle /\ KickNotLost /\ [Next]_vars => KickNotLost'
<1>a. SUFFICES ASSUME TypeOK, VdevNeedsRunning, SeenBehind, HaltingIdle, KickNotLost, [Next]_vars
               PROVE  KickNotLost'
  OBVIOUS
<1>b. TypeOK /\ VdevNeedsRunning /\ SeenBehind /\ HaltingIdle /\ KickNotLost
  BY <1>a
<1>1. CASE User
  BY <1>b, <1>1 DEF User, Probe, Prepare, Shutdown, Remove, SetUseIpi, StopVdev,
    KickNotLost, SeenBehind, HaltingIdle, VdevNeedsRunning, Inc, TypeOK,
    CounterType, LinuxType
<1>2. CASE Boot
  <2>1. CASE LoadSegments
    BY <1>b, <2>1 DEF LoadSegments, BootFails, KickNotLost, SeenBehind,
      HaltingIdle, VdevNeedsRunning, Inc, TypeOK, CounterType, LinuxType
  <2>2. CASE ClearShm
    BY <1>b, <2>2 DEF ClearShm, KickNotLost, SeenBehind, HaltingIdle,
      VdevNeedsRunning, Inc, TypeOK, CounterType, LinuxType
  <2>3. CASE ParseHartStart
    BY <1>b, <2>3 DEF ParseHartStart, BootFails, HartStarts, KickNotLost,
      SeenBehind, HaltingIdle, VdevNeedsRunning, Inc, TypeOK, CounterType,
      LinuxType
  <2>4. CASE ParseWait
    BY <1>b, <2>4 DEF ParseWait, BootFails, KickNotLost, SeenBehind,
      HaltingIdle, VdevNeedsRunning, Inc, TypeOK, CounterType, LinuxType
  <2>5. CASE InboundSnapshot
    BY <1>b, <2>5 DEF InboundSnapshot, KickNotLost, SeenBehind, HaltingIdle,
      VdevNeedsRunning, Inc, TypeOK, CounterType, LinuxType
  <2>6. CASE InboundActivate
    BY <1>b, <2>6 DEF InboundActivate, KickNotLost, SeenBehind, HaltingIdle,
      VdevNeedsRunning, Inc, TypeOK, CounterType, LinuxType
  <2>7. CASE StartHart
    BY <1>b, <2>7 DEF StartHart, HartStarts, KickNotLost, SeenBehind,
      HaltingIdle, VdevNeedsRunning, Inc, TypeOK, CounterType, LinuxType
  <2>8. CASE StartSubdevs
    <3>1. CASE core' = "running"
      <4>1. r2l' = 0
        BY <2>8, <3>1 DEF StartSubdevs
      <4> QED
        BY <4>1 DEF KickNotLost
    <3>2. CASE core' = "stopsend"
      <4>1. ~vdevUp'
        BY <1>b, <2>8, <3>2 DEF StartSubdevs, VdevNeedsRunning
      <4> QED
        BY <4>1 DEF KickNotLost
    <3> QED
      BY <2>8, <3>1, <3>2 DEF StartSubdevs
  <2> QED
    BY <1>2, <2>1, <2>2, <2>3, <2>4, <2>5, <2>6, <2>7, <2>8 DEF Boot
<1>3. CASE Stop
  BY <1>b, <1>3 DEF Stop, StopSend, StopPoll, InboundOff, InboundCancel,
    StopFinish, AfterInbound, BootFails, KickNotLost, SeenBehind, HaltingIdle,
    VdevNeedsRunning, Inc, TypeOK, CounterType, LinuxType
<1>4. CASE ProbeAdd \/ RemoveHook \/ RemoveFree
  BY <1>b, <1>4 DEF ProbeAdd, RemoveHook, RemoveFree, KickNotLost, SeenBehind,
    HaltingIdle, VdevNeedsRunning, Inc, TypeOK, CounterType, LinuxType
<1>5. CASE PollTick \/ Work
  <2>1. CASE PollTick
    BY <1>b, <2>1 DEF PollTick, KickNotLost, SeenBehind, HaltingIdle,
      VdevNeedsRunning, Inc, TypeOK, CounterType, LinuxType
  <2>2. CASE WorkStart
    BY <1>b, <2>2 DEF WorkStart, KickNotLost, SeenBehind, HaltingIdle,
      VdevNeedsRunning, Inc, TypeOK, CounterType, LinuxType
  <2>3. CASE NotifyWork
    BY <1>b, <2>3 DEF NotifyWork, KickNotLost, SeenBehind, HaltingIdle,
      VdevNeedsRunning, Inc, TypeOK, CounterType, LinuxType
  <2> QED
    BY <1>5, <2>1, <2>2, <2>3 DEF Work
<1>6. CASE RemotePut \/ RemoteStep \/ RemoteIpi
  <2>1. CASE RemotePublish
    BY <1>b, <2>1 DEF RemotePublish, KickNotLost, SeenBehind, HaltingIdle,
      VdevNeedsRunning, Inc, TypeOK, CounterType, LinuxType
  <2>2. CASE RemoteGo
    BY <1>b, <2>2 DEF RemoteGo, KickNotLost, SeenBehind, HaltingIdle,
      VdevNeedsRunning, Inc, TypeOK, CounterType, LinuxType
  <2>3. CASE RemotePut
    BY <1>b, <2>3 DEF RemotePut, KickNotLost, SeenBehind, HaltingIdle,
      VdevNeedsRunning, Inc, TypeOK, CounterType, LinuxType
  <2>4. CASE RemoteKick
    BY <1>b, <2>4 DEF RemoteKick, KickNotLost, SeenBehind, HaltingIdle,
      VdevNeedsRunning, Inc, TypeOK, CounterType, LinuxType
  <2>5. CASE RemoteRing
    BY <1>b, <2>5 DEF RemoteRing, KickNotLost, SeenBehind, HaltingIdle,
      VdevNeedsRunning, Inc, TypeOK, CounterType, LinuxType
  <2>6. CASE RemoteIpi
    BY <1>b, <2>6 DEF RemoteIpi, KickNotLost, SeenBehind, HaltingIdle,
      VdevNeedsRunning, Inc, TypeOK, CounterType, LinuxType
  <2>7. CASE RemoteHalt
    BY <1>b, <2>7 DEF RemoteHalt, KickNotLost, SeenBehind, HaltingIdle,
      VdevNeedsRunning, Inc, TypeOK, CounterType, LinuxType
  <2> QED
    BY <1>6, <2>1, <2>2, <2>3, <2>4, <2>5, <2>6, <2>7 DEF RemoteStep
<1>7. CASE \E h \in Harts : Irq(h) \/ LinuxIpi(h)
  <2>1. CASE \E h \in Harts : IrqEnter(h)
    BY <1>b, <2>1 DEF IrqEnter, KickNotLost, SeenBehind, HaltingIdle,
      VdevNeedsRunning, Inc, TypeOK, CounterType, LinuxType
  <2>2. CASE \E h \in Harts : DoorbellActive(h)
    BY <1>b, <2>2 DEF DoorbellActive, KickNotLost, SeenBehind, HaltingIdle,
      VdevNeedsRunning, Inc, TypeOK, CounterType, LinuxType
  <2>3. CASE \E h \in Harts : DoorbellRead(h)
    BY <1>b, <2>3 DEF DoorbellRead, KickNotLost, SeenBehind, HaltingIdle,
      VdevNeedsRunning, Inc, TypeOK, CounterType, LinuxType
  <2>4. CASE \E h \in Harts : DoorbellCompare(h)
    BY <1>b, <2>4 DEF DoorbellCompare, KickNotLost, SeenBehind, HaltingIdle,
      VdevNeedsRunning, Inc, TypeOK, CounterType, LinuxType
  <2>5. CASE \E h \in Harts : DoorbellWrite(h)
    BY <1>b, <2>5 DEF DoorbellWrite, KickNotLost, SeenBehind, HaltingIdle,
      VdevNeedsRunning, Inc, TypeOK, CounterType, LinuxType
  <2>6. CASE \E h \in Harts : DoorbellSchedule(h)
    BY <1>b, <2>6 DEF DoorbellSchedule, KickNotLost, SeenBehind, HaltingIdle,
      VdevNeedsRunning, Inc, TypeOK, CounterType, LinuxType
  <2>7. CASE \E h \in Harts : IrqAck(h)
    BY <1>b, <2>7 DEF IrqAck, KickNotLost, SeenBehind, HaltingIdle,
      VdevNeedsRunning, Inc, TypeOK, CounterType, LinuxType
  <2>8. CASE \E h \in Harts : LinuxIpi(h)
    BY <1>b, <2>8 DEF LinuxIpi, KickNotLost, SeenBehind, HaltingIdle,
      VdevNeedsRunning, Inc, TypeOK, CounterType, LinuxType
  <2> QED
    BY <1>7, <2>1, <2>2, <2>3, <2>4, <2>5, <2>6, <2>7, <2>8 DEF Irq
<1>8. CASE \E k \in Kickers : LinuxSend(k) \/ KickStep(k)
  <2>1. CASE \E k \in Kickers : LinuxSend(k)
    BY <1>b, <2>1 DEF LinuxSend, KickNotLost, SeenBehind, HaltingIdle,
      VdevNeedsRunning, Inc, TypeOK, CounterType, LinuxType
  <2>2. CASE \E k \in Kickers : KickRead(k)
    BY <1>b, <2>2 DEF KickRead, KickNotLost, SeenBehind, HaltingIdle,
      VdevNeedsRunning, Inc, TypeOK, CounterType, LinuxType
  <2>3. CASE \E k \in Kickers : KickWrite(k)
    BY <1>b, <2>3 DEF KickWrite, KickNotLost, SeenBehind, HaltingIdle,
      VdevNeedsRunning, Inc, TypeOK, CounterType, LinuxType
  <2>4. CASE \E k \in Kickers : KickIpi(k)
    BY <1>b, <2>4 DEF KickIpi, KickNotLost, SeenBehind, HaltingIdle,
      VdevNeedsRunning, Inc, TypeOK, CounterType, LinuxType
  <2> QED
    BY <1>8, <2>1, <2>2, <2>3, <2>4 DEF KickStep
<1>9. CASE UNCHANGED vars
  BY <1>b, <1>9 DEF vars, KickNotLost, SeenBehind, HaltingIdle,
    VdevNeedsRunning, Inc, TypeOK, CounterType, LinuxType
<1> QED
  BY <1>a, <1>1, <1>2, <1>3, <1>4, <1>5, <1>6, <1>7, <1>8, <1>9 DEF Next,
    CoreStep

\* KickInv is inductive when the 32-bit counter does not wrap within one boot.
LEMMA KickInvStep == ASSUME ~MayWrap PROVE KickInv /\ [Next]_vars => KickInv'
  BY TypeStep, VdevStep, CarveoutStep, UnboundStep, NowStep, SeenStep,
     StopStep, HaltingStep, KickStepInv DEF KickInv

\* The initial state satisfies it.
LEMMA KickInvInit == Init => KickInv
<1> SUFFICES ASSUME Init PROVE KickInv
  OBVIOUS
<1>1. TypeOK
  BY TypeInit
<1>2. VdevNeedsRunning /\ CarveoutsHeld /\ StopNeedsDown /\ HaltingIdle /\ UnboundSettled
  BY DEF Init, StopNeedsDown, StopCaller, HaltingIdle, VdevNeedsRunning,
     CarveoutsHeld, UnboundSettled, InBoot, InSession,
     DoorbellsSettled, Doorbell
<1>3. SeenBehind /\ NowBehind /\ KickNotLost
  BY DEF Init, SeenBehind, NowBehind, KickNotLost
<1> QED
  BY <1>1, <1>2, <1>3 DEF KickInv

\* The accounting of kicks that rproc_adverse checks on one hart holds on any
\* number of harts that interleave in the doorbell, with rproc_use_ipi rewritten,
\* boots and stops that time out, crash recovery and every failure.
THEOREM KickAccounting == ASSUME ~MayWrap PROVE Spec => []KickInv
  BY KickInvInit, KickInvStep, PTL DEF Spec

\* No inbound kick is ever marked as seen while its messages are left in the
\* vring with nobody bound to drain them, on any number of harts, with any
\* mixture of doorbells, timer ticks, failed boots, failed stops and recoveries.
THEOREM KicksAreNotLost == ASSUME ~MayWrap PROVE Spec => []KickNotLost
<1>1. KickInv => KickNotLost
  BY DEF KickInv
<1> QED
  BY <1>1, KickInvInit, KickInvStep, PTL DEF Spec

\* While the rpmsg device is up its vrings are the two shared-memory carveouts,
\* whatever failed before.
THEOREM VringsAreShared == Spec => []VringsInCarveouts
<1> DEFINE J == TypeOK /\ VdevNeedsRunning /\ CarveoutsHeld
<1>1. Init => J
  BY KickInvInit DEF KickInv
<1>2. J /\ [Next]_vars => J'
  BY TypeStep, VdevStep, CarveoutStep
<1>3. J => VringsInCarveouts
  BY DEF CarveoutsHeld, VringsInCarveouts
<1> HIDE DEF J
<1> QED
  BY <1>1, <1>2, <1>3, PTL DEF Spec

(***************************************************************************)
(* The end of a session.                                                   *)
(***************************************************************************)
\* Core states in which inbound kicks may be listened for.
Listening == {"hart2", "subdev", "running", "stopsend", "stoppoll", "ib_off"}

\* The hook is gone before the private data is.
HookInv ==
  /\ core # "corrupted"
  /\ hook # "dangling"
  /\ hook = "live" => use_ipi /\ core # "free"

\* Doorbells go past their test only, and work is queued only, while the session listens by
\* the method the parameter names, or while inbound_stop is about to cancel that work.
InboundInv ==
  /\ \A h \in Harts : irq[h] \in {"read", "cmp", "write", "sched"} => ipi_active
  /\ ipi_active => use_ipi /\ core \in Listening
  /\ timer => poll_running /\ core \in Listening
  /\ poll_running => ~use_ipi /\ core \in Listening \cup {"ib_cancel_poll"}
  /\ core = "ib_cancel_ipi" => use_ipi
  /\ wpend \/ wrun # "idle" => ipi_active \/ poll_running \/ core = "ib_cancel_ipi"

\* With one Linux hart and a fixed rproc_use_ipi every step keeps both.
LEMMA SessionStep ==
  ASSUME Harts = {Hart0}, ~ParamWrites, LinuxType, HookInv, InboundInv, [Next]_vars
  PROVE  HookInv' /\ InboundInv'
<1>1. DOMAIN irq = Harts
  BY DEF LinuxType
<1>2. ThreadRuns => \A h \in Harts : irq[h] = "idle"
  BY DEF ThreadRuns
<1>3. CASE User
  BY <1>2, <1>3 DEF User, Probe, Prepare, Shutdown, Remove, SetUseIpi, StopVdev,
    HookInv, InboundInv, Listening
<1>4. CASE LoadSegments \/ ClearShm \/ ParseHartStart \/ ParseWait \/ InboundSnapshot
             \/ StartHart \/ StartSubdevs \/ ProbeAdd
  BY <1>2, <1>4 DEF LoadSegments, ClearShm, ParseHartStart, ParseWait, InboundSnapshot,
    StartHart, StartSubdevs, ProbeAdd, BootFails, HartStarts, HookInv, InboundInv, Listening
<1>5. CASE InboundActivate
  BY <1>2, <1>5 DEF InboundActivate, HookInv, InboundInv, Listening
<1>6. CASE StopSend \/ StopPoll \/ StopFinish
  BY <1>2, <1>6 DEF StopSend, StopPoll, StopFinish, BootFails, HookInv, InboundInv, Listening
<1>7. CASE InboundOff
  BY <1>2, <1>7 DEF InboundOff, AfterInbound, HookInv, InboundInv, Listening
<1>8. CASE InboundCancel
  BY <1>2, <1>8 DEF InboundCancel, AfterInbound, HookInv, InboundInv, Listening
<1>9. CASE RemoveHook
  BY <1>2, <1>9 DEF RemoveHook, HookInv, InboundInv, Listening
<1>10. CASE RemoveFree
  <2>1. ~PrivReferenced
    BY <1>2, <1>10 DEF RemoveFree, PrivReferenced, Doorbell, HookInv, InboundInv, Listening
  <2> QED BY <1>2, <1>10, <2>1 DEF RemoveFree, HookInv, InboundInv, Listening
<1>11. CASE PollTick \/ Work
  BY <1>2, <1>11 DEF PollTick, Work, WorkStart, NotifyWork, HookInv, InboundInv, Listening
<1>12. CASE RemotePut \/ RemoteStep \/ RemoteIpi
  <2>1. UNCHANGED <<core, hook, use_ipi, ipi_active, timer, poll_running, wpend, wrun, irq>>
    BY <1>12, Zenon DEF RemoteStep, RemotePublish, RemoteGo, RemotePut, RemoteKick, RemoteRing,
      RemoteIpi, RemoteHalt
  <2> QED BY <2>1 DEF HookInv, InboundInv
<1>13. CASE \E h \in Harts : IrqEnter(h) \/ DoorbellActive(h)
  BY <1>1, <1>13 DEF IrqEnter, DoorbellActive, HookInv, InboundInv, Listening
<1>14. CASE \E h \in Harts : DoorbellRead(h) \/ DoorbellCompare(h) \/ DoorbellWrite(h)
                             \/ DoorbellSchedule(h) \/ IrqAck(h)
  BY <1>1, <1>14 DEF DoorbellRead, DoorbellCompare, DoorbellWrite, DoorbellSchedule, IrqAck,
    HookInv, InboundInv, Listening
<1>15. CASE \E h \in Harts : LinuxIpi(h)
  BY <1>15 DEF LinuxIpi, HookInv, InboundInv, Listening
<1>16. CASE \E k \in Kickers : LinuxSend(k) \/ KickStep(k)
  <2>1. UNCHANGED <<core, hook, use_ipi, ipi_active, timer, poll_running, wpend, wrun, irq>>
    BY <1>16, Zenon DEF KickStep, LinuxSend, KickRead, KickWrite, KickIpi
  <2> QED BY <2>1 DEF HookInv, InboundInv
<1>17. CASE UNCHANGED vars
  <2>1. UNCHANGED <<core, hook, use_ipi, ipi_active, timer, poll_running, wpend, wrun, irq>>
    BY <1>17 DEF vars
  <2> QED BY <2>1 DEF HookInv, InboundInv
<1> QED
  BY <1>3, <1>4, <1>5, <1>6, <1>7, <1>8, <1>9, <1>10, <1>11, <1>12, <1>13, <1>14, <1>15, <1>16,
    <1>17 DEF Next, CoreStep, Boot, Stop, Irq

\* What the session invariant says about the inbound path.
LEMMA SessionsEnd ==
  ASSUME Harts = {Hart0}, ~ParamWrites
  PROVE  Spec => [](InboundQuiet /\ NoUseAfterFree)
<1>1. Init => HookInv /\ InboundInv
  BY DEF Init, HookInv, InboundInv
<1>2. TypeOK /\ HookInv /\ InboundInv /\ [Next]_vars => HookInv' /\ InboundInv'
  BY SessionStep DEF TypeOK
<1>3. HookInv /\ InboundInv => InboundQuiet /\ NoUseAfterFree
  BY DEF HookInv, InboundInv, InboundQuiet, NoUseAfterFree, Listening
<1> QED BY <1>1, <1>2, <1>3, TypeCorrect, PTL DEF Spec

\* On one Linux hart whose rproc_use_ipi is not rewritten, inbound_stop leaves no doorbell,
\* timer or work of the old session behind: with boots and stops that time out, crash recovery,
\* every failure, and counters that wrap.
THEOREM SessionsEndQuiet ==
  ASSUME Harts = {Hart0}, ~ParamWrites
  PROVE  Spec => []InboundQuiet
BY SessionsEnd, PTL

\* Under the same conditions remove frees nothing that the doorbell, the timer or a work item
\* still uses.
THEOREM NothingFreedInUse ==
  ASSUME Harts = {Hart0}, ~ParamWrites
  PROVE  Spec => []NoUseAfterFree
BY SessionsEnd, PTL

(***************************************************************************)
(* The boot handshake.                                                     *)
(***************************************************************************)
\* The remote meets the two timeouts, nobody reports a crash, and the resource table is good.
Prompt == ~Slow /\ ~Recovery /\ "table" \notin Faults

\* A boot runs once, from a stopped hart that parse_fw starts, to the end.
StartInv ==
  /\ ~recovering /\ why \notin {"recover", "startfail"} /\ ret = "ok"
  /\ core \notin {"hart2", "stuck"}
  /\ core \in {"wait", "snap", "act"} => hart_started

\* The hart's state, READY and DRIVER_OK follow the driver's progress.
HartInv ==
  /\ hart = "STOPPED" <=> fw = "off"
  /\ core \in {"unbound", "probe", "offline", "load", "clear", "hartstart", "ib_off",
               "ib_cancel_ipi", "ib_cancel_poll", "stopfin", "rmhook", "free"} => hart = "STOPPED"
  /\ core = "hartstart" => ~remote_ready
  /\ core = "wait" => fw \in {"boot", "ready", "run"} /\ (remote_ready => fw # "boot")
  /\ core \in {"snap", "act", "subdev", "running", "stopsend"} => fw \in {"ready", "run"}
  /\ vdevUp => driverOk /\ fw # "boot"

\* Every step keeps the handshake.
LEMMA HandshakeStep ==
  ASSUME Prompt, RemoteType, VdevNeedsRunning, StopNeedsDown, StartInv, HartInv, [Next]_vars
  PROVE  StartInv' /\ HartInv'
<1> USE DEF Prompt, StartInv, HartInv
<1>1. hart \in {"STOPPED", "STARTED"} /\ ctrl \in {"NONE", "STOP"}
  BY DEF RemoteType
<1>2. CASE User
  BY <1>1, <1>2 DEF User, Probe, Prepare, Shutdown, Remove, SetUseIpi, StopVdev
<1>3. CASE LoadSegments \/ ClearShm
  BY <1>1, <1>3 DEF LoadSegments, ClearShm, BootFails
<1>4. CASE ParseHartStart
  BY <1>1, <1>4 DEF ParseHartStart, BootFails, HartStarts, VdevNeedsRunning
<1>5. CASE ParseWait
  BY <1>1, <1>5 DEF ParseWait, BootFails
<1>6. CASE InboundSnapshot \/ InboundActivate
  BY <1>1, <1>6 DEF InboundSnapshot, InboundActivate
<1>7. CASE StartHart
  BY <1>7 DEF StartHart
<1>8. CASE StartSubdevs
  BY <1>1, <1>8 DEF StartSubdevs
<1>9. CASE StopSend \/ StopPoll
  BY <1>1, <1>9 DEF StopSend, StopPoll
<1>10. CASE InboundOff \/ InboundCancel
  BY <1>1, <1>10 DEF InboundOff, InboundCancel, AfterInbound
<1>11. CASE StopFinish
  BY <1>1, <1>11 DEF StopFinish, BootFails
<1>12. CASE ProbeAdd \/ RemoveHook \/ RemoveFree
  BY <1>1, <1>12 DEF ProbeAdd, RemoveHook, RemoveFree
<1>13. CASE PollTick \/ Work
  <2>1. UNCHANGED <<coreVars, hart_started, hart, fw, remote_ready, vdevUp, driverOk>>
    BY <1>13, Zenon DEF PollTick, Work, WorkStart, NotifyWork
  <2> QED BY <2>1
<1>14. CASE RemotePublish
  BY <1>1, <1>14 DEF RemotePublish
<1>15. CASE RemoteGo \/ RemotePut \/ RemoteKick \/ RemoteRing
  BY <1>1, <1>15 DEF RemoteGo, RemotePut, RemoteKick, RemoteRing
<1>16. CASE RemoteIpi
  BY <1>1, <1>16 DEF RemoteIpi, StopNeedsDown
<1>17. CASE RemoteHalt
  BY <1>1, <1>17 DEF RemoteHalt
<1>18. CASE \E h \in Harts : Irq(h) \/ LinuxIpi(h)
  <2>1. /\ UNCHANGED <<why, ret, recovering, hart_started, hart, fw, remote_ready, vdevUp, driverOk>>
        /\ core' \in {core, "corrupted"}
    BY <1>18 DEF Irq, IrqEnter, DoorbellActive, DoorbellRead, DoorbellCompare, DoorbellWrite,
      DoorbellSchedule, IrqAck, LinuxIpi
  <2> QED BY <2>1
<1>19. CASE \E k \in Kickers : LinuxSend(k) \/ KickStep(k)
  <2>1. UNCHANGED <<coreVars, hart_started, hart, fw, remote_ready, vdevUp, driverOk>>
    BY <1>19, Zenon DEF KickStep, LinuxSend, KickRead, KickWrite, KickIpi
  <2> QED BY <2>1
<1>20. CASE UNCHANGED vars
  <2>1. UNCHANGED <<coreVars, hart_started, hart, fw, remote_ready, vdevUp, driverOk>>
    BY <1>20 DEF vars
  <2> QED BY <2>1
<1> QED
  BY <1>2, <1>3, <1>4, <1>5, <1>6, <1>7, <1>8, <1>9, <1>10, <1>11, <1>12, <1>13, <1>14, <1>15,
    <1>16, <1>17, <1>18, <1>19, <1>20 DEF Next, CoreStep, Boot, Stop, RemoteStep

\* With a remote that meets the timeouts the handshake over memory and SBI state that survive a
\* restart is sound: the image is loaded over a stopped hart, READY is the new firmware's and
\* DRIVER_OK is not erased, on any number of harts and with rproc_use_ipi rewritten.
THEOREM BootsShakeHands ==
  ASSUME Prompt
  PROVE  Spec => []BootHandshake
<1> DEFINE J == TypeOK /\ VdevNeedsRunning /\ StopNeedsDown /\ StartInv /\ HartInv
<1>1. Init => J
  <2>1. Init => StartInv /\ HartInv
    BY DEF Init, StartInv, HartInv
  <2> QED BY <2>1, KickInvInit DEF KickInv
<1>2. J /\ [Next]_vars => J'
  BY TypeStep, VdevStep, StopStep, HandshakeStep DEF TypeOK
<1>3. J => BootHandshake
  <2> SUFFICES ASSUME RemoteType, StartInv, HartInv PROVE BootHandshake
    BY DEF TypeOK
  <2> QED BY DEF RemoteType, StartInv, HartInv, BootHandshake, HartMatchesCore, ReadyIsFresh,
        DriverOkSticks
<1> HIDE DEF J
<1> QED BY <1>1, <1>2, <1>3, PTL DEF Spec
=============================================================================
