------------------------------- MODULE MCApps -------------------------------
(***************************************************************************)
(* The EVSoC application, the socket programs, the ray tracers and the     *)
(* camera registers, side by side.  Each has variables of its own; unit    *)
(* says which runs, and the others stay in one of their initial states, so *)
(* that the run explores the union of their state graphs.                  *)
(***************************************************************************)
EXTENDS EvsocApp, SocketApps, CRay, SensorBus

VARIABLE unit

vars == <<unit, appVars, sockVars, rayVars, sensorVars>>

AllChips == {V2, V3, Focus}

Init ==
  /\ unit \in {"app", "sock", "ray", "sensor"}
  /\ AppInit /\ SockInit /\ RayInit /\ SensorInit
  /\ unit # "sock" => sproto = "bulk" /\ msg = 1
  /\ unit # "ray" => rmode = "f" /\ yres = 1 /\ thread_num = 1

\* The machines that do not run keep their state.
Others ==
  /\ UNCHANGED unit
  /\ unit # "app" => UNCHANGED appVars
  /\ unit # "sock" => UNCHANGED sockVars
  /\ unit # "ray" => UNCHANGED rayVars
  /\ unit # "sensor" => UNCHANGED sensorVars

Next ==
  /\ Others
  /\ \/ unit = "app" /\ AppNext
     \/ unit = "sock" /\ SockNext
     \/ unit = "ray" /\ RayNext
     \/ unit = "sensor" /\ SensorNext

\* What is scheduled in the unit that runs: the threads of a program, the two programs of a
\* connection and the network between them.  Weak fairness of one action per slot, not one per
\* unit, so that a unit that does not run adds no assumption of its own.
Process(k) ==
  /\ \/ unit = "app" /\ k = 1 /\ Worker
     \/ unit = "app" /\ k = 2 /\ Worker2
     \/ unit = "sock" /\ k = 1 /\ SockServer
     \/ unit = "sock" /\ k = 2 /\ SockClient
     \/ unit = "sock" /\ k = 3 /\ ToServer
     \/ unit = "sock" /\ k = 4 /\ ToClient
     \/ unit = "ray" /\ k \in RayThreads /\ RayThread(k)
     \/ unit = "ray" /\ k = 4 /\ RayMain
  /\ Others

Spec == Init /\ [][Next]_vars /\ \A k \in 1 .. 4 : WF_vars(Process(k))
=============================================================================
