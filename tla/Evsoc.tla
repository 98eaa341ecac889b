-------------------------------- MODULE Evsoc -------------------------------
(***************************************************************************)
(* The EVSoC camera and display module (kernel_modules/evsoc): the loader, *)
(* the receive thread that fills one frame buffer and swaps it with the    *)
(* displayed one, the display interrupt that restarts the display DMA,     *)
(* processes that open the device and request captures, and the unload.    *)
(*                                                                         *)
(* Frame buffers 0 and 2 are swapped, 3 holds the capture.  Pixels are     *)
(* data: what the overlays, the title and the demo mode do to them is left *)
(* out, that they are written into the buffer being filled is not.  The    *)
(* camera and display DMA channels and the module loader are external.     *)
(***************************************************************************)
EXTENDS Naturals, FiniteSets

CONSTANTS
  Procs,         \* processes that use /dev/evsoc
  MaxRefs        \* bound on the module reference count

ASSUME EvsocAssumption == MaxRefs \in Nat

VARIABLES
  mod,                         \* progress of evsoc_init and evsoc_exit
  is_open, refs,               \* evsoc_main.c's flag and the module reference count
  upc,                         \* per process: where it is in open, ioctl, release
  held,                        \* the open files whose try_module_get succeeded
  tx_buf_idx, rx_buf_idx, init_tx_buf, buf_is_ready,
  thr, tmp,                    \* receive thread: pc, and lTmpIdx1 of the swap
  stopping,                    \* kthread_stop was called
  disp, dirq,                  \* display DMA: buffer being read; completion pending
  ipc, ibuf,                   \* dma_tx_irq: pc and lBuf
  capture_mode, asked,         \* requested capture; the one no copy answered yet
  late,                        \* the last request came between a copy and its withdrawal
  shot, sig, pid               \* while a capture is served: its copy and signal; g_pid set

userVars  == <<is_open, refs, upc, held>>
idxVars   == <<tx_buf_idx, rx_buf_idx>>
loadVars  == <<mod, init_tx_buf, buf_is_ready, stopping>>
thrVars   == <<thr, tmp>>
dispVars  == <<disp, dirq>>
irqVars   == <<ipc, ibuf>>
capVars   == <<capture_mode, asked, late, shot, sig, pid>>
vars == <<userVars, idxVars, loadVars, thrVars, dispVars, irqVars, capVars>>

Buf == {0, 2}
Off == 8           \* the display DMA reads no buffer,
Stale == 9         \* or one that was freed
FULL == 1          \* CMD_SET_CAPTURE_FULL
PART == 2          \* CMD_SET_CAPTURE_PART
Captures == {FULL, PART}

\* In the order evsoc_init and evsoc_exit pass through them.
Mod == {"out", "cdev", "mapped", "thread", "pattern", "live", "going", "stopped", "unmapped",
        "oops"}

\* try_module_get succeeds.
Loaded == mod \in {"cdev", "mapped", "thread", "pattern", "live"}

\* The frame in rx_buf_idx is being put together.
Filling == thr \in {"cam", "overlay", "capture", "signal", "clear", "title"}

FlagsOK ==
  /\ is_open \in BOOLEAN /\ init_tx_buf \in BOOLEAN /\ buf_is_ready \in BOOLEAN
  /\ stopping \in BOOLEAN /\ dirq \in BOOLEAN /\ pid \in BOOLEAN /\ late \in BOOLEAN

TypeOK ==
  /\ FlagsOK
  /\ mod \in Mod /\ refs \in 0 .. MaxRefs
  /\ upc \in [Procs -> {"closed", "opening", "open", "closing", "stale"}]
  /\ held \subseteq Procs
  /\ tx_buf_idx \in Buf /\ rx_buf_idx \in Buf /\ tmp \in Buf
  /\ thr \in {"none", "wait", "loop", "draw", "cam", "overlay", "capture", "signal", "clear",
              "title", "swap1", "swap2", "sleep"}
  /\ disp \in Buf \cup {Off, Stale} /\ ipc \in {"idle", "start"} /\ ibuf \in Buf
  /\ capture_mode \in Captures \cup {0, 3} /\ asked \in Captures \cup {0}
  /\ shot \in Captures \cup {0} /\ sig \in Captures \cup {0}

Init ==
  /\ mod = "out" /\ is_open = FALSE /\ refs = 0 /\ upc = [p \in Procs |-> "closed"] /\ held = {}
  /\ tx_buf_idx = 0 /\ rx_buf_idx = 2 /\ tmp = 0
  /\ init_tx_buf = TRUE /\ buf_is_ready = FALSE /\ stopping = FALSE /\ thr = "none"
  /\ disp = Off /\ dirq = FALSE /\ ipc = "idle" /\ ibuf = 0
  /\ capture_mode = 0 /\ asked = 0 /\ late = FALSE /\ shot = 0 /\ sig = 0 /\ pid = FALSE

Up == mod # "oops"

-----------------------------------------------------------------------------
(* evsoc_init and evsoc_exit.                                               *)

\* The module's variables take their initial values, and the character device
\* is added (or one of its four steps fails and everything is undone).
LoadCdev ==
  /\ mod = "out" /\ mod' = "cdev"
  /\ is_open' = FALSE /\ refs' = 0 /\ UNCHANGED <<upc, held>>
  /\ tx_buf_idx' = 0 /\ rx_buf_idx' = 2 /\ tmp' = 0
  /\ init_tx_buf' = TRUE /\ buf_is_ready' = FALSE /\ stopping' = FALSE
  /\ capture_mode' = 0 /\ asked' = 0 /\ late' = FALSE /\ shot' = 0 /\ sig' = 0 /\ pid' = FALSE
  /\ UNCHANGED <<thr, dispVars, irqVars>>

\* my_init: registers are mapped and buffers allocated.
LoadMap ==
  /\ mod = "cdev" /\ mod' = "mapped"
  /\ UNCHANGED <<init_tx_buf, buf_is_ready, stopping, userVars, idxVars, thrVars, dispVars, irqVars, capVars>>

\* main_init: indices, interrupts, camera, thread; the buffers are ready.
LoadThread ==
  /\ mod = "mapped" /\ mod' = "thread"
  /\ tx_buf_idx' = 0 /\ rx_buf_idx' = 2
  /\ thr' = "wait" /\ buf_is_ready' = TRUE
  /\ UNCHANGED <<init_tx_buf, stopping, userVars, tmp, dispVars, irqVars, capVars>>

\* start_tx: the display is started on the test pattern ...
StartTx ==
  /\ mod = "thread" /\ mod' = "pattern"
  /\ init_tx_buf' = TRUE /\ disp' = tx_buf_idx /\ dirq' = FALSE
  /\ UNCHANGED <<buf_is_ready, stopping, userVars, idxVars, thrVars, irqVars, capVars>>

\* ... which is shown for five seconds.
StartTxDone ==
  /\ mod = "pattern" /\ mod' = "live" /\ init_tx_buf' = FALSE
  /\ UNCHANGED <<buf_is_ready, stopping, userVars, idxVars, thrVars, dispVars, irqVars, capVars>>

\* External: rmmod of an unreferenced module; try_module_get fails from here on.
Rmmod ==
  /\ mod = "live" /\ refs = 0 /\ mod' = "going"
  /\ stopping' = TRUE
  /\ UNCHANGED <<init_tx_buf, buf_is_ready, userVars, idxVars, thrVars, dispVars, irqVars, capVars>>

\* main_exit: kthread_stop returns when the thread has.
MainExit ==
  /\ mod = "going" /\ thr = "none" /\ mod' = "stopped"
  /\ UNCHANGED <<init_tx_buf, buf_is_ready, stopping, userVars, idxVars, thrVars, dispVars, irqVars, capVars>>

\* my_exit frees the buffers, which the display may be reading, and unmaps.
MyExit ==
  /\ mod = "stopped"
  /\ mod' = IF ipc = "idle" THEN "unmapped" ELSE "oops"
  /\ disp' = IF disp \in Buf THEN Stale ELSE disp
  /\ UNCHANGED <<init_tx_buf, buf_is_ready, stopping, userVars, idxVars, thrVars, dirq, irqVars, capVars>>

\* cdev_del and device_destroy, which releases the interrupts; then the module's code is
\* freed, also under whoever is still in evsoc_open or has the device open.
DeviceDestroy ==
  /\ mod = "unmapped" /\ mod' = "out"
  /\ upc' = [p \in Procs |-> IF upc[p] = "closed" THEN "closed" ELSE "stale"]
  /\ UNCHANGED <<is_open, refs, held, init_tx_buf, buf_is_ready, stopping, idxVars, thrVars, dispVars, irqVars, capVars>>

-----------------------------------------------------------------------------
(* The receive thread: evsoc_thread_fun_rx and do_rx_proc.                  *)

ThreadWait ==
  /\ thr = "wait" /\ buf_is_ready /\ thr' = "loop"
  /\ UNCHANGED <<tmp, loadVars, userVars, idxVars, dispVars, irqVars, capVars>>

\* Mutant of ThreadLoop: kthread_should_stop is not called.
ThreadLoopNoStop ==
  /\ thr = "loop"
  /\ thr' = CASE init_tx_buf -> "draw" [] OTHER -> "cam"
  /\ UNCHANGED <<tmp, loadVars, userVars, idxVars, dispVars, irqVars, capVars>>

\* The head of the loop; the camera DMA is started into rx_buf_idx.
ThreadLoop ==
  /\ thr = "loop"
  /\ thr' = CASE stopping -> "none" [] ~stopping /\ init_tx_buf -> "draw" [] OTHER -> "cam"
  /\ UNCHANGED <<tmp, loadVars, userVars, idxVars, dispVars, irqVars, capVars>>

\* The test pattern is drawn into buffer 0.
ThreadDraw ==
  /\ thr = "draw" /\ thr' = "loop" /\ tx_buf_idx' = 0
  /\ UNCHANGED <<tmp, rx_buf_idx, loadVars, userVars, dispVars, irqVars, capVars>>

\* External: the camera DMA has stored a frame and is no longer busy.
CamDone ==
  /\ thr = "cam" /\ thr' = "overlay"
  /\ UNCHANGED <<tmp, loadVars, userVars, idxVars, dispVars, irqVars, capVars>>

ThreadOverlay ==
  /\ thr = "overlay" /\ thr' = "capture"
  /\ UNCHANGED <<tmp, loadVars, userVars, idxVars, dispVars, irqVars, capVars>>

\* Mutant of ThreadCapture: only full captures are recognised.
ThreadCaptureFullOnly ==
  /\ thr = "capture"
  /\ IF capture_mode = FULL
       THEN thr' = "signal" /\ shot' = capture_mode /\ asked' = 0 /\ late' = FALSE
       ELSE thr' = "title" /\ UNCHANGED <<shot, asked, late>>
  /\ UNCHANGED <<tmp, loadVars, userVars, idxVars, dispVars, irqVars, capture_mode, sig, pid>>

\* A requested capture is copied ...
ThreadCapture ==
  /\ thr = "capture"
  /\ IF capture_mode \in Captures
       THEN thr' = "signal" /\ shot' = capture_mode /\ asked' = 0 /\ late' = FALSE
       ELSE thr' = "title" /\ UNCHANGED <<shot, asked, late>>
  /\ UNCHANGED <<tmp, loadVars, userVars, idxVars, dispVars, irqVars, capture_mode, sig, pid>>

\* ... the registered process is told, with the value capture_mode has now ...
ThreadSignal ==
  /\ thr = "signal" /\ thr' = "clear"
  /\ sig' = IF pid /\ capture_mode \in Captures THEN capture_mode ELSE 0
  /\ UNCHANGED <<tmp, loadVars, userVars, idxVars, dispVars, irqVars, capture_mode, asked, late, shot, pid>>

\* ... and the request is withdrawn.
ThreadClear ==
  /\ thr = "clear" /\ thr' = "title" /\ capture_mode' = 0 /\ shot' = 0 /\ sig' = 0
  /\ UNCHANGED <<tmp, loadVars, userVars, idxVars, dispVars, irqVars, asked, late, pid>>

\* Mutant of ThreadTitle: the request is withdrawn once for both branches, after them.
ThreadTitleClears ==
  /\ thr = "title" /\ thr' = "swap1" /\ capture_mode' = 0
  /\ UNCHANGED <<tmp, loadVars, userVars, idxVars, dispVars, irqVars, asked, late, shot, sig, pid>>

ThreadTitle ==
  /\ thr = "title" /\ thr' = "swap1"
  /\ UNCHANGED <<tmp, loadVars, userVars, idxVars, dispVars, irqVars, capVars>>

\* The frame is handed to the display: two assignments.
ThreadSwap1 ==
  /\ thr = "swap1" /\ thr' = "swap2"
  /\ tmp' = tx_buf_idx /\ tx_buf_idx' = rx_buf_idx
  /\ UNCHANGED <<rx_buf_idx, loadVars, userVars, dispVars, irqVars, capVars>>

ThreadSwap2 ==
  /\ thr = "swap2" /\ thr' = "sleep" /\ rx_buf_idx' = tmp /\ tmp' = 0
  /\ UNCHANGED <<tx_buf_idx, loadVars, userVars, dispVars, irqVars, capVars>>

\* Mutant of ThreadSleep: no sleep between frames.
ThreadSleepNone ==
  /\ thr = "sleep" /\ thr' = "loop"
  /\ UNCHANGED <<tmp, loadVars, userVars, idxVars, dispVars, irqVars, capVars>>

\* msleep(50) outlasts an interrupt handler that was running when it began.
ThreadSleep ==
  /\ thr = "sleep" /\ ipc = "idle" /\ thr' = "loop"
  /\ UNCHANGED <<tmp, loadVars, userVars, idxVars, dispVars, irqVars, capVars>>

-----------------------------------------------------------------------------
(* The display.                                                             *)

\* External: the display DMA reaches the end of its buffer.
DispDone ==
  /\ disp # Off /\ disp' = Off /\ dirq' = TRUE
  /\ UNCHANGED <<loadVars, userVars, idxVars, thrVars, irqVars, capVars>>

\* dma_tx_irq, registered from main_init to device_destroy: it takes the buffer ...
TxIrqTake ==
  /\ dirq /\ ipc = "idle"
  /\ \/ /\ mod \in {"thread", "pattern", "live", "going", "stopped"}
        /\ ipc' = "start" /\ ibuf' = tx_buf_idx /\ UNCHANGED mod
     \/ mod = "unmapped" /\ mod' = "oops" /\ UNCHANGED irqVars
  /\ UNCHANGED <<init_tx_buf, buf_is_ready, stopping, userVars, idxVars, thrVars, dispVars, capVars>>

\* Mutant of TxIrqStart: the display is not restarted.
TxIrqNoRestart ==
  /\ ipc = "start" /\ ipc' = "idle" /\ disp' = disp /\ dirq' = FALSE /\ ibuf' = 0
  /\ UNCHANGED <<loadVars, userVars, idxVars, thrVars, capVars>>

\* ... clears the pending interrupt and starts the display on it.
TxIrqStart ==
  /\ ipc = "start" /\ ipc' = "idle" /\ disp' = ibuf /\ dirq' = FALSE /\ ibuf' = 0
  /\ UNCHANGED <<loadVars, userVars, idxVars, thrVars, capVars>>

-----------------------------------------------------------------------------
(* Processes.                                                               *)

Go(p, pc) == upc' = [upc EXCEPT ![p] = pc]

\* evsoc_open tests is_open ...
OpenTest(p) ==
  /\ mod # "out" /\ upc[p] = "closed" /\ ~is_open /\ Go(p, "opening")
  /\ UNCHANGED <<is_open, refs, held, loadVars, idxVars, thrVars, dispVars, irqVars, capVars>>

\* Mutant of OpenSet: only the first opener takes a reference.
OpenSetFirstOnly(p) ==
  /\ upc[p] = "opening" /\ refs < MaxRefs /\ Go(p, "open") /\ is_open' = TRUE
  /\ refs' = IF Loaded /\ ~is_open THEN refs + 1 ELSE refs
  /\ held' = IF Loaded THEN held \cup {p} ELSE held
  /\ UNCHANGED <<loadVars, idxVars, thrVars, dispVars, irqVars, capVars>>

\* ... and sets it; the result of try_module_get, which fails in a module that is
\* going, is not looked at.
OpenSet(p) ==
  /\ upc[p] = "opening" /\ refs < MaxRefs /\ Go(p, "open") /\ is_open' = TRUE
  /\ IF Loaded THEN refs' = refs + 1 /\ held' = held \cup {p} ELSE UNCHANGED <<refs, held>>
  /\ UNCHANGED <<loadVars, idxVars, thrVars, dispVars, irqVars, capVars>>

\* evsoc_release: -EBUSY if the flag is clear, and then no module_put.
ReleaseTest(p) ==
  /\ upc[p] = "open" /\ Go(p, IF is_open THEN "closing" ELSE "closed")
  /\ held' = IF is_open THEN held ELSE held \ {p}
  /\ UNCHANGED <<is_open, refs, loadVars, idxVars, thrVars, dispVars, irqVars, capVars>>

ReleasePut(p) ==
  /\ upc[p] = "closing" /\ Go(p, "closed") /\ held' = held \ {p}
  /\ is_open' = FALSE /\ refs' = IF refs = 0 THEN 0 ELSE refs - 1
  /\ UNCHANGED <<loadVars, idxVars, thrVars, dispVars, irqVars, capVars>>

\* CMD_SET_CAPTURE: any value is stored, 0 and 3 stand for those without effect.
IoctlCapture(p, v) ==
  /\ upc[p] = "open"
  /\ capture_mode' = v /\ asked' = IF v \in Captures THEN v ELSE 0
  /\ late' = (thr \in {"signal", "clear"})
  /\ UNCHANGED <<shot, sig, pid, loadVars, userVars, idxVars, thrVars, dispVars, irqVars>>

\* CMD_SET_PID.
IoctlPid(p) ==
  /\ upc[p] = "open" /\ pid' = TRUE
  /\ UNCHANGED <<capture_mode, asked, late, shot, sig, loadVars, userVars, idxVars, thrVars, dispVars, irqVars>>

\* CMD_SET_LAYER and CMD_SET_CHAR write the overlay, which does not exist before my_init
\* and is freed by my_exit.  In between they change pixels only, like the mode and title
\* commands at any time.
IoctlOverlay(p) ==
  /\ upc[p] = "open" /\ mod \in {"cdev", "unmapped"} /\ mod' = "oops"
  /\ UNCHANGED <<init_tx_buf, buf_is_ready, stopping, userVars, idxVars, thrVars, dispVars, irqVars, capVars>>

\* Whatever is done with a file of a module that is gone, its close included, runs code
\* that was freed.
UseStale(p) ==
  /\ upc[p] = "stale" /\ mod' = "oops"
  /\ UNCHANGED <<init_tx_buf, buf_is_ready, stopping, userVars, idxVars, thrVars, dispVars, irqVars, capVars>>

-----------------------------------------------------------------------------
Load   == Up /\ (LoadMap \/ LoadThread \/ StartTx \/ StartTxDone \/ MainExit \/ MyExit \/ DeviceDestroy)
Thread == Up /\ (ThreadWait \/ ThreadLoop \/ ThreadDraw \/ ThreadOverlay \/ ThreadCapture
                  \/ ThreadSignal \/ ThreadClear \/ ThreadTitle \/ ThreadSwap1 \/ ThreadSwap2
                  \/ ThreadSleep)
Camera  == Up /\ CamDone
Display == Up /\ DispDone
Irq     == Up /\ (TxIrqTake \/ TxIrqStart)
User == Up /\ \E p \in Procs :
          \/ OpenTest(p) \/ OpenSet(p) \/ ReleaseTest(p) \/ ReleasePut(p)
          \/ \E v \in Captures \cup {0, 3} : IoctlCapture(p, v)
          \/ IoctlPid(p) \/ IoctlOverlay(p) \/ UseStale(p)
Admin == LoadCdev \/ Rmmod

Next == Admin \/ Load \/ Thread \/ Camera \/ Display \/ Irq \/ User

Spec == Init /\ [][Next]_vars

\* Whoever has begun goes on; nobody need open the device or load the module.
\* The thread's timer expires however often the display interrupts.
FairSpec == Spec /\ WF_vars(Load) /\ SF_vars(Thread) /\ WF_vars(Camera) /\ WF_vars(Display)
                 /\ WF_vars(Irq)

-----------------------------------------------------------------------------
(* Properties.                                                              *)

\* The display is never started on the frame the thread is putting together,
\* although dma_tx_irq and do_rx_proc share the indices without a lock.
StartsOnWholeFrame == [][(disp' # disp /\ disp' \in Buf) => ~(Filling /\ disp' = rx_buf_idx)]_vars

\* The strengthening of StartsOnWholeFrame: the indices are swapped apart from
\* the reset by the test pattern, which only happens before the first swap, and
\* a buffer the interrupt took can only become the filled one during the sleep.
IdxInv ==
  /\ thr = "swap2" => tx_buf_idx = rx_buf_idx /\ tmp # rx_buf_idx
  /\ thr # "swap2" => tx_buf_idx # rx_buf_idx
  /\ init_tx_buf => thr \in {"none", "wait", "loop", "draw"}
  /\ init_tx_buf \/ thr = "draw" => tx_buf_idx = 0 /\ rx_buf_idx = 2
  /\ mod \in {"cdev", "mapped", "thread", "pattern"} => init_tx_buf
  /\ mod \in {"out", "cdev", "mapped", "stopped", "unmapped"} => thr = "none"
  /\ mod \in {"out", "cdev", "mapped", "unmapped"} => ipc = "idle"
  /\ ipc = "start" => ibuf = tx_buf_idx \/ thr \in {"swap2", "sleep"}

\* A file that was opened before rmmod began keeps the module loaded until it is closed,
\* even when opens and releases race for is_open.  (A file opened once rmmod has begun has
\* no reference, and the module goes away under it.)
PinnedWhileOpen == held # {} => Loaded \/ ~Up

\* A capture request that no copy has answered is still in capture_mode, and a capture
\* signal carries the kind of picture that was copied, whatever other processes ask for
\* meanwhile, unless a request came between a copy and the assignment that withdraws it.
CaptureKept ==
  /\ asked # 0 => capture_mode = asked \/ late
  /\ thr = "clear" /\ sig # 0 => sig = shot \/ late

\* The strengthening of CaptureKept: only a request made while one is served is late.
CaptureInv ==
  /\ asked # 0 => capture_mode = asked \/ late
  /\ thr \in {"signal", "clear"} => shot = capture_mode \/ late
  /\ thr \in {"signal", "clear"} /\ asked # 0 => late
  /\ thr = "clear" /\ sig # 0 => sig = shot \/ late

\* A capture request is answered by a copy, unless it came between the copy for an earlier
\* request and the assignment that withdraws that one.
CaptureServed == (asked # 0 /\ ~late) ~> (asked = 0 \/ mod # "live")

\* "Display always active": it is restarted after every frame.
DisplayActive == (mod = "live" /\ disp = Off) ~> (disp \in Buf \/ mod # "live")

\* kthread_stop returns: the thread notices the request wherever it is.
ThreadStops == mod = "going" ~> mod # "going"
=============================================================================
