-------------------------------- MODULE CRay --------------------------------
(***************************************************************************)
(* The ray tracers (package/c-ray): c-ray-f renders on its main thread,    *)
(* c-ray-mt splits the image into bands of scanlines, one per thread.  The *)
(* threads wait on a condition variable until all have been created.       *)
(*                                                                         *)
(* Geometry and colours are left out: a scanline is rendered or not.  The  *)
(* band limits are sums of doubles: a sum that should be a whole number    *)
(* may come out just below it when the height of a band is not exact.      *)
(***************************************************************************)
EXTENDS Integers

CONSTANTS
  MaxLines,        \* bound on the height of the image
  MaxThreads,      \* bound on -t
  MaxLights,       \* MAX_LIGHTS (16)
  MaxScene         \* bound on the lines of the scene file

ASSUME CRayAssumption ==
  {MaxLines, MaxThreads, MaxLights} \subseteq Nat \ {0} /\ MaxScene \in Nat

VARIABLES
  rmode,           \* "f" or "mt"
  rpc,             \* main
  lnum, objs, scene,   \* lights and spheres loaded; lines read
  yres, thread_num,
  band,            \* struct thread_data: first scanline and number of scanlines
  sl,              \* the running sum in main, truncated
  tpc, tline,      \* thread_func: where it is and its i
  start,           \* the flag under start_mutex
  rendered         \* per scanline: how often it was rendered

rayVars ==
  <<rmode, rpc, lnum, objs, scene, yres, thread_num, band, sl, tpc, tline, start, rendered>>
sceneVars == <<lnum, objs, scene>>
threadVars == <<band, sl, tpc, tline, start>>
RayThreads == 1 .. MaxThreads

RayInit ==
  /\ rmode \in {"f", "mt"} /\ rpc = "load" /\ lnum = 0 /\ objs = 0 /\ scene = 0
  /\ yres \in 0 .. MaxLines /\ thread_num \in 1 .. MaxThreads
  /\ band = [t \in RayThreads |-> [first |-> 0, count |-> 0]] /\ sl = 0
  /\ tpc = [t \in RayThreads |-> "none"] /\ tline = [t \in RayThreads |-> 0]
  /\ start = FALSE /\ rendered = [l \in 0 .. MaxLines - 1 |-> 0]

\* What a line of the scene does: comments, the camera and incomplete lines change no table.
\* A light past the end of lights is written over what follows the array: anything goes.
SceneLine ==
  \/ UNCHANGED <<rpc, lnum, objs>>
  \/ lnum < MaxLights /\ lnum' = lnum + 1 /\ UNCHANGED <<rpc, objs>>
  \/ lnum = MaxLights /\ rpc' = "corrupt" /\ UNCHANGED <<lnum, objs>>
  \/ objs' = objs + 1 /\ UNCHANGED <<rpc, lnum>>

\* load_scene, the same in both programs.
load_scene ==
  /\ rpc = "load" /\ scene < MaxScene /\ scene' = scene + 1 /\ SceneLine
  /\ UNCHANGED <<rmode, yres, thread_num, threadVars, rendered>>

\* The end of the scene file.  There is never more than one thread for a scanline; for an image
\* without scanlines there is none, and main writes the band before the first of an empty table.
Loaded ==
  /\ rpc = "load"
  /\ rpc' = IF rmode = "f" THEN "render" ELSE IF yres = 0 THEN "corrupt" ELSE "spawn"
  /\ thread_num' = IF thread_num > yres THEN yres ELSE thread_num
  /\ UNCHANGED <<rmode, sceneVars, yres, threadVars, rendered>>

\* (int)sl after i bands.
Sums(i) ==
  LET exact == (i * yres) \div thread_num
  IN IF i > 0 /\ yres % thread_num # 0 /\ (i * yres) % thread_num = 0
       THEN {exact, exact - 1} ELSE {exact}

\* A thread that cannot be created ends the process.
Spawn(t) ==
  /\ rpc = "spawn" /\ t <= thread_num /\ tpc[t] = "none"
  /\ \A u \in 1 .. t - 1 : tpc[u] # "none"
  /\ \/ /\ \E s \in Sums(t) :
             sl' = s /\ band' = [band EXCEPT ![t] = [first |-> sl, count |-> s - sl]]
        /\ tpc' = [tpc EXCEPT ![t] = "new"] /\ UNCHANGED rpc
     \/ rpc' = "failed" /\ UNCHANGED <<band, sl, tpc>>
  /\ UNCHANGED <<rmode, sceneVars, yres, thread_num, tline, start, rendered>>

\* Mutant: the last band ends where the sum says.
LastBand_mutant == band

\* The last band gets what is left of the image.
LastBand == [band EXCEPT ![thread_num].count = yres - band[thread_num].first]

\* All created: the last band is set right and the threads are started, under the mutex.
Broadcast ==
  /\ rpc = "spawn" /\ tpc[thread_num] # "none" /\ rpc' = "join"
  /\ band' = LastBand /\ start' = TRUE
  /\ tpc' = [t \in RayThreads |-> IF tpc[t] = "waiting" THEN "run" ELSE tpc[t]]
  /\ UNCHANGED <<rmode, sceneVars, yres, thread_num, sl, tline, rendered>>

\* thread_func takes the mutex and looks at start.
ThreadStart(t) ==
  /\ tpc[t] = "new" /\ rpc \notin {"failed", "corrupt"}
  /\ tpc' = [tpc EXCEPT ![t] = IF start THEN "run" ELSE "waiting"]
  /\ UNCHANGED <<rmode, rpc, sceneVars, yres, thread_num, band, sl, tline, start, rendered>>

render_scanline(l) == rendered' = [rendered EXCEPT ![l] = @ + 1]

ThreadRender(t) ==
  /\ tpc[t] = "run"
  /\ \/ /\ tline[t] < band[t].count /\ render_scanline(band[t].first + tline[t])
        /\ tline' = [tline EXCEPT ![t] = @ + 1] /\ UNCHANGED tpc
     \/ /\ tline[t] >= band[t].count /\ tpc' = [tpc EXCEPT ![t] = "joined"]
        /\ UNCHANGED <<tline, rendered>>
  /\ UNCHANGED <<rmode, rpc, sceneVars, yres, thread_num, band, sl, start>>

Joined ==
  /\ rpc = "join" /\ rpc' = "written"
  /\ \A t \in 1 .. thread_num : tpc[t] = "joined"
  /\ UNCHANGED <<rmode, sceneVars, yres, thread_num, threadVars, rendered>>

\* c-ray-f: sl is its scanline.
render ==
  /\ rpc = "render" /\ UNCHANGED <<rmode, sceneVars, yres, thread_num, band, tpc, tline, start>>
  /\ \/ sl < yres /\ render_scanline(sl) /\ sl' = sl + 1 /\ UNCHANGED rpc
     \/ sl = yres /\ rpc' = "written" /\ UNCHANGED <<sl, rendered>>

RayMain ==
  \/ load_scene \/ Loaded \/ Broadcast \/ Joined \/ render
  \/ \E t \in RayThreads : Spawn(t)
RayThread(t) == ThreadStart(t) \/ ThreadRender(t)
RayNext == RayMain \/ \E t \in RayThreads : RayThread(t)

RaySpec == RayInit /\ [][RayNext]_rayVars

(***************************************************************************)
(* Properties.                                                             *)
(***************************************************************************)
\* No thread renders a line twice or outside the image.
AtMostOnce == \A l \in DOMAIN rendered : rendered[l] <= (IF l < yres THEN 1 ELSE 0)

\* The image is written only when each of its scanlines has been rendered.
WrittenWhole == rpc = "written" => \A l \in 0 .. yres - 1 : rendered[l] = 1

\* The image is written only when each of its scanlines has been rendered exactly once, for
\* every rounding of the band limits and every order in which the threads come to wait; and
\* once the threads are started, the image is written: no thread sleeps through the start.
RenderedOnce ==
  /\ [](AtMostOnce /\ WrittenWhole)
  /\ (rpc = "join") ~> (rpc = "written")
=============================================================================
