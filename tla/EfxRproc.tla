------------------------------ MODULE EfxRproc ------------------------------
(***************************************************************************)
(* The Ti375 remote-processor driver (efinix_ti375_remoteproc.c), the AMP  *)
(* doorbell hook it installs in the RISC-V interrupt entry (Linux patch    *)
(* 0012) and the firmware hart it boots, kicks and stops.                  *)
(*                                                                         *)
(* Actors: the remoteproc core calling the driver's operations (one pc,    *)
(* `core', because rproc->lock serialises them), the interrupt handler of  *)
(* every Linux hart, the poll timer, the notify work, the kick callers and *)
(* the remote hart.  The remoteproc core, the workqueue, the SBI firmware  *)
(* and the bare-metal firmware are external: they are modelled from how    *)
(* the driver uses them.                                                   *)
(***************************************************************************)
EXTENDS Naturals, FiniteSets

CONSTANTS
  Harts,        \* the harts Linux runs on
  Hart0,        \* the hart whose SSIP the remote rings
  Kickers,      \* contexts that call efinix_rproc_kick (tx path, rx refill)
  Depth,        \* buffers of one vring
  KickMod,      \* modulus of the u32 kick counters (2^32 in the code)
  MayWrap,      \* TRUE: the remote may kick past KickMod - 1 in one boot
  InitUseIpi,   \* value rproc_use_ipi is loaded with
  ParamWrites,  \* TRUE: rproc_use_ipi (mode 0644) may be rewritten at run time
  Slow,         \* TRUE: the remote may miss the driver's two timeouts
  Recovery,     \* TRUE: a crash may be reported through debugfs
  Faults        \* which fallible calls may fail, a subset of FaultKinds

FaultKinds == {"prepare", "elf", "hart", "table", "subdev", "add"}

ASSUME RprocAssumption ==
  /\ Hart0 \in Harts
  /\ Depth \in Nat \ {0}
  /\ KickMod \in Nat \ {0}
  /\ MayWrap \in BOOLEAN /\ InitUseIpi \in BOOLEAN /\ ParamWrites \in BOOLEAN
  /\ Slow \in BOOLEAN /\ Recovery \in BOOLEAN
  /\ Faults \subseteq FaultKinds

VARIABLES
  core,           \* where the remoteproc core stands in the driver's callbacks
  why,            \* which caller inbound_stop / stop return to
  ret,            \* return value of efinix_rproc_stop
  recovering,     \* rproc_boot_recovery is running
  use_ipi,        \* module parameter rproc_use_ipi
  hook,           \* riscv_amp_ipi_hook: "null", "live", "dangling"
  ipi_active, poll_running, hart_started, last_r2l_seen,   \* struct efinix_rproc
  timer,          \* poll_timer is queued
  wpend, wrun,    \* notify_work: PENDING bit, and what the worker is executing
  carveouts,      \* rproc->carveouts
  vdevUp,         \* the rpmsg virtio device is bound: rvring->vq # NULL
  kick_r2l, kick_l2r, remote_ready, ctrl, driverOk,        \* shared memory
  r2l, l2r,       \* unconsumed messages in the two vrings
  ssip, irq, now, \* per Linux hart: pending SSIP, handler pc, local `now'
  lk, lnext,      \* per kicker: pc in efinix_rproc_kick, local `next'
  hart,           \* SBI HSM state of the remote hart
  fw, rpc,        \* firmware phase, and its step within one message
  ripi            \* IPI pending at the remote hart

coreVars == <<core, why, ret, recovering>>
privVars == <<ipi_active, poll_running, hart_started, last_r2l_seen>>
inVars   == <<timer, wpend, wrun>>
shmVars  == <<kick_r2l, kick_l2r, remote_ready, ctrl, driverOk>>
irqVars  == <<ssip, irq, now>>
kickVars == <<lk, lnext>>
remVars  == <<hart, fw, rpc, ripi>>
vars == <<coreVars, use_ipi, hook, privVars, inVars, carveouts, vdevUp,
          shmVars, r2l, l2r, irqVars, kickVars, remVars>>

CorePc == {"unbound", "probe", "offline", "load", "clear", "hartstart", "wait",
           "snap", "act", "hart2", "subdev", "running", "stuck", "stopsend",
           "stoppoll", "ib_off", "ib_cancel_ipi", "ib_cancel_poll", "stopfin", "rmhook", "free",
           "corrupted"}
Why    == {"none", "startfail", "shutdown", "recover", "bootfail", "remove", "final"}
IrqPc  == {"idle", "active", "read", "cmp", "write", "sched", "ack"}
Doorbell == {"active", "read", "cmp", "write", "sched"}   \* inside efinix_rproc_ipi_doorbell
FwPc   == {"off", "boot", "ready", "run", "halting", "hung"}
Kick   == 0 .. KickMod - 1

CoreType ==
  /\ core \in CorePc /\ why \in Why /\ ret \in {"ok", "fail"} /\ recovering \in BOOLEAN
  /\ use_ipi \in BOOLEAN /\ hook \in {"null", "live", "dangling"}
  /\ carveouts \subseteq {"vdev0vring0", "vdev0vring1"} /\ vdevUp \in BOOLEAN
DriverType ==
  /\ ipi_active \in BOOLEAN /\ poll_running \in BOOLEAN /\ hart_started \in BOOLEAN
  /\ timer \in BOOLEAN /\ wpend \in BOOLEAN /\ wrun \in {"idle", "vq0", "vq1"}
CounterType ==
  /\ last_r2l_seen \in Kick /\ kick_r2l \in Kick /\ kick_l2r \in Kick
  /\ now \in [Harts -> Kick] /\ lnext \in [Kickers -> Kick]
  /\ r2l \in 0 .. Depth /\ l2r \in 0 .. Depth
LinuxType ==
  /\ ssip \in [Harts -> BOOLEAN] /\ irq \in [Harts -> IrqPc]
  /\ lk \in [Kickers -> {"idle", "read", "write", "ipi"}]
RemoteType ==
  /\ remote_ready \in BOOLEAN /\ ctrl \in {"NONE", "STOP"} /\ driverOk \in BOOLEAN
  /\ hart \in {"STOPPED", "STARTED"} /\ fw \in FwPc
  /\ rpc \in {"idle", "kick", "ring"} /\ ripi \in BOOLEAN

\* Every variable of the driver, the shared memory, the harts and the firmware
\* stays in its C type: enumerated states, flags, 32-bit counters, vring fill.
TypeOK == CoreType /\ DriverType /\ CounterType /\ LinuxType /\ RemoteType

Init ==
  /\ core = "unbound" /\ why = "none" /\ ret = "ok" /\ recovering = FALSE
  /\ use_ipi = InitUseIpi /\ hook = "null"
  /\ ipi_active = FALSE /\ poll_running = FALSE /\ hart_started = FALSE
  /\ last_r2l_seen = 0 /\ timer = FALSE /\ wpend = FALSE /\ wrun = "idle"
  /\ carveouts = {} /\ vdevUp = FALSE
  /\ kick_r2l = 0 /\ kick_l2r = 0 /\ remote_ready = FALSE /\ ctrl = "NONE"
  /\ driverOk = FALSE /\ r2l = 0 /\ l2r = 0
  /\ ssip = [h \in Harts |-> FALSE] /\ irq = [h \in Harts |-> "idle"]
  /\ now = [h \in Harts |-> 0]
  /\ lk = [k \in Kickers |-> "idle"] /\ lnext = [k \in Kickers |-> 0]
  /\ hart = "STOPPED" /\ fw = "off" /\ rpc = "idle" /\ ripi = FALSE

Inc(k) == IF k + 1 = KickMod THEN 0 ELSE k + 1

\* A thread (core, worker, kicker) runs on a hart that is not in its interrupt
\* handler; with one Linux hart the handler is atomic for the threads.
ThreadRuns == \E h \in Harts : irq[h] = "idle"

\* Hard interrupt handlers outlive neither a firmware file load nor a module
\* reload: none entered before is still running when the counters are cleared.
DoorbellsSettled == \A h \in Harts : irq[h] \notin Doorbell

-----------------------------------------------------------------------------
(* Probe and remove.                                                        *)

Goto(pc) == core' = pc

\* efinix_rproc_probe up to rproc_add: a fresh priv, counters cleared, hook set.
Probe ==
  /\ core = "unbound" /\ ThreadRuns /\ Goto("probe")
  /\ ipi_active' = FALSE /\ poll_running' = FALSE /\ hart_started' = FALSE
  /\ last_r2l_seen' = 0 /\ kick_l2r' = 0 /\ kick_r2l' = 0
  /\ hook' = IF use_ipi THEN "live" ELSE hook
  /\ UNCHANGED <<why, ret, recovering, use_ipi, inVars, carveouts, vdevUp, remote_ready,
                 ctrl, driverOk, r2l, l2r, irqVars, kickVars, remVars>>

\* rproc_add succeeds, or fails and takes the err_unmap_shm path.
ProbeAdd ==
  /\ core = "probe" /\ ThreadRuns
  /\ \/ Goto("offline")
     \/ "add" \in Faults /\ Goto("rmhook")
  /\ UNCHANGED <<why, ret, recovering, use_ipi, hook, privVars, inVars, carveouts, vdevUp,
                 shmVars, r2l, l2r, irqVars, kickVars, remVars>>

\* efinix_rproc_remove: rproc_del shuts a running processor down first; one
\* stuck in recovery cannot be shut down and is simply deleted.
StopVdev ==
  /\ \A k \in Kickers : lk[k] = "idle"
  /\ vdevUp' = FALSE /\ driverOk' = FALSE

Remove ==
  /\ ThreadRuns
  /\ \/ core \in {"offline", "stuck"} /\ Goto("ib_off") /\ why' = "final"
        /\ UNCHANGED <<vdevUp, driverOk>>
     \/ core = "running" /\ Goto("stopsend") /\ why' = "remove" /\ StopVdev
  /\ recovering' = FALSE
  /\ UNCHANGED <<ret, use_ipi, hook, privVars, inVars, carveouts, kick_r2l, kick_l2r,
                 remote_ready, ctrl, r2l, l2r, irqVars, kickVars, remVars>>

\* Mutant of RemoveHook: the hook stays registered.
RemoveHookForgets ==
  /\ core = "rmhook" /\ ThreadRuns /\ Goto("free")
  /\ hook' = hook
  /\ UNCHANGED <<why, ret, recovering, use_ipi, privVars, inVars, carveouts, vdevUp, shmVars,
                 r2l, l2r, irqVars, kickVars, remVars>>

\* riscv_amp_set_ipi_hook(NULL, NULL), only if the parameter says IPI now.
RemoveHook ==
  /\ core = "rmhook" /\ ThreadRuns /\ Goto("free")
  /\ hook' = IF use_ipi THEN "null" ELSE hook
  /\ UNCHANGED <<why, ret, recovering, use_ipi, privVars, inVars, carveouts, vdevUp, shmVars,
                 r2l, l2r, irqVars, kickVars, remVars>>

\* Something that still dereferences priv or its mappings.
PrivReferenced ==
  timer \/ wpend \/ wrun # "idle" \/ \E h \in Harts : irq[h] \in Doorbell

\* iounmap and rproc_free.  Freeing memory in use leaves the modelled world.
RemoveFree ==
  /\ core = "free" /\ ThreadRuns
  /\ Goto(IF PrivReferenced THEN "corrupted" ELSE "unbound")
  /\ hook' = IF hook = "live" THEN "dangling" ELSE hook
  /\ carveouts' = {}
  /\ UNCHANGED <<why, ret, recovering, use_ipi, privVars, inVars, vdevUp, shmVars, r2l, l2r,
                 irqVars, kickVars, remVars>>

-----------------------------------------------------------------------------
(* Booting: rproc_boot calls prepare, parse_fw and start.                   *)

\* Mutant of Prepare: a failed second carveout is not reported.
PrepareIgnoresError ==
  /\ core = "offline" /\ ThreadRuns
  /\ \/ carveouts' = {"vdev0vring0", "vdev0vring1"} /\ Goto("load")
     \/ /\ "prepare" \in Faults
        /\ carveouts' \in {carveouts, carveouts \cup {"vdev0vring0"}}
        /\ Goto("load")
  /\ UNCHANGED <<why, ret, recovering, use_ipi, hook, privVars, inVars, vdevUp, shmVars,
                 r2l, l2r, irqVars, kickVars, remVars>>

\* efinix_rproc_prepare: two carveouts; the second allocation may fail after
\* the first was added, and the core does not clean up after a failed prepare.
Prepare ==
  /\ core = "offline" /\ ThreadRuns
  /\ \/ carveouts' = {"vdev0vring0", "vdev0vring1"} /\ Goto("load")
     \/ /\ "prepare" \in Faults
        /\ carveouts' \in {carveouts, carveouts \cup {"vdev0vring0"}}
        /\ UNCHANGED core
  /\ UNCHANGED <<why, ret, recovering, use_ipi, hook, privVars, inVars, vdevUp, shmVars,
                 r2l, l2r, irqVars, kickVars, remVars>>

\* A boot that fails before ops->start: the core releases the resources and
\* calls no driver operation.
BootFails == Goto("offline") /\ carveouts' = {}

\* rproc_elf_load_segments.  Loading over a hart that still executes the old
\* image leaves that hart anywhere in the firmware, or lost; one already inside
\* the SBI stop call is not disturbed.
LoadSegments ==
  /\ core = "load" /\ ThreadRuns
  /\ \/ Goto("clear") /\ UNCHANGED carveouts
     \/ "elf" \in Faults /\ BootFails
  /\ IF hart = "STARTED" /\ fw # "halting"
       THEN fw' \in {"boot", "ready", "run", "hung"} /\ rpc' \in {"idle", "kick", "ring"}
       ELSE UNCHANGED <<fw, rpc>>
  /\ UNCHANGED <<why, ret, recovering, use_ipi, hook, privVars, inVars, vdevUp, shmVars,
                 r2l, l2r, irqVars, kickVars, hart, ripi>>

\* Mutant of ClearShm: REMOTE_READY of the previous boot is not cleared.
ClearShmKeepsReady ==
  /\ core = "clear" /\ ThreadRuns /\ DoorbellsSettled /\ Goto("hartstart")
  /\ remote_ready' = remote_ready /\ kick_r2l' = 0 /\ kick_l2r' = 0 /\ ctrl' = "NONE"
  /\ UNCHANGED <<why, ret, recovering, use_ipi, hook, privVars, inVars, carveouts, vdevUp,
                 driverOk, r2l, l2r, irqVars, kickVars, remVars>>

\* The four writel of parse_fw before the hart starts.
ClearShm ==
  /\ core = "clear" /\ ThreadRuns /\ DoorbellsSettled /\ Goto("hartstart")
  /\ remote_ready' = FALSE /\ kick_r2l' = 0 /\ kick_l2r' = 0 /\ ctrl' = "NONE"
  /\ UNCHANGED <<why, ret, recovering, use_ipi, hook, privVars, inVars, carveouts, vdevUp,
                 driverOk, r2l, l2r, irqVars, kickVars, remVars>>

\* efinix_rproc_hart_start: skipped when the hart is already STARTED.
HartStarts ==
  /\ hart' = "STARTED"
  /\ IF hart = "STARTED" THEN UNCHANGED <<fw, rpc>> ELSE fw' = "boot" /\ rpc' = "idle"

ParseHartStart ==
  /\ core = "hartstart" /\ ThreadRuns
  /\ \/ Goto("wait") /\ HartStarts /\ hart_started' = TRUE /\ UNCHANGED carveouts
     \/ /\ "hart" \in Faults /\ hart = "STOPPED" /\ BootFails
        /\ UNCHANGED <<hart_started, hart, fw, rpc>>
  /\ UNCHANGED <<why, ret, recovering, use_ipi, hook, ipi_active, poll_running, last_r2l_seen,
                 inVars, vdevUp, shmVars, r2l, l2r, irqVars, kickVars, ripi>>

\* readx_poll_timeout on REMOTE_READY, then the copy of the resource table.
\* A timeout, a failed kzalloc or a table the core rejects ends the boot with
\* the hart left running and hart_started left set.
ParseWait ==
  /\ core = "wait" /\ ThreadRuns
  /\ \/ remote_ready /\ Goto("snap") /\ UNCHANGED carveouts
     \/ remote_ready /\ "table" \in Faults /\ BootFails
     \/ ~remote_ready /\ Slow /\ BootFails
  /\ UNCHANGED <<why, ret, recovering, use_ipi, hook, privVars, inVars, vdevUp, shmVars,
                 r2l, l2r, irqVars, kickVars, remVars>>

\* Mutant of InboundSnapshot: the counter is not re-read when a session starts.
InboundNoSnapshot ==
  /\ core = "snap" /\ ThreadRuns /\ Goto("act")
  /\ last_r2l_seen' = last_r2l_seen
  /\ UNCHANGED <<why, ret, recovering, use_ipi, hook, ipi_active, poll_running, hart_started,
                 inVars, carveouts, vdevUp, shmVars, r2l, l2r, irqVars, kickVars, remVars>>

\* efinix_rproc_inbound_start, in two steps: the snapshot of the counter ...
InboundSnapshot ==
  /\ core = "snap" /\ ThreadRuns /\ Goto("act")
  /\ last_r2l_seen' = kick_r2l
  /\ UNCHANGED <<why, ret, recovering, use_ipi, hook, ipi_active, poll_running, hart_started,
                 inVars, carveouts, vdevUp, shmVars, r2l, l2r, irqVars, kickVars, remVars>>

\* ... and the switch: ipi_active, or the timer unless it already runs.
InboundActivate ==
  /\ core = "act" /\ ThreadRuns
  /\ Goto(IF hart_started THEN "subdev" ELSE "hart2")
  /\ IF use_ipi
       THEN ipi_active' = TRUE /\ UNCHANGED <<timer, poll_running>>
       ELSE /\ timer' = (timer \/ ~poll_running) /\ poll_running' = TRUE
            /\ UNCHANGED ipi_active
  /\ UNCHANGED <<why, ret, recovering, use_ipi, hook, hart_started, last_r2l_seen, wpend, wrun,
                 carveouts, vdevUp, shmVars, r2l, l2r, irqVars, kickVars, remVars>>

\* efinix_rproc_start for a hart that is not started (only after recovery).
StartHart ==
  /\ core = "hart2" /\ ThreadRuns
  /\ \/ Goto("subdev") /\ HartStarts /\ hart_started' = TRUE /\ UNCHANGED why
     \/ /\ "hart" \in Faults /\ hart = "STOPPED"
        /\ Goto("ib_off") /\ why' = "startfail"
        /\ UNCHANGED <<hart_started, hart, fw, rpc>>
  /\ UNCHANGED <<ret, recovering, use_ipi, hook, ipi_active, poll_running, last_r2l_seen, inVars,
                 carveouts, vdevUp, shmVars, r2l, l2r, irqVars, kickVars, ripi>>

\* rproc_start_subdevices: the vrings are set up afresh and DRIVER_OK is
\* written into the shared resource table; on failure the core calls ops->stop.
StartSubdevs ==
  /\ core = "subdev" /\ ThreadRuns
  /\ \/ /\ Goto("running") /\ vdevUp' = TRUE /\ driverOk' = TRUE
        /\ r2l' = 0 /\ l2r' = 0 /\ recovering' = FALSE /\ UNCHANGED why
     \/ /\ "subdev" \in Faults /\ Goto("stopsend") /\ why' = "bootfail"
        /\ UNCHANGED <<vdevUp, driverOk, r2l, l2r, recovering>>
  /\ UNCHANGED <<ret, use_ipi, hook, privVars, inVars, carveouts, kick_r2l, kick_l2r,
                 remote_ready, ctrl, irqVars, kickVars, remVars>>

-----------------------------------------------------------------------------
(* Stopping: efinix_rproc_stop and efinix_rproc_inbound_stop.               *)

\* `echo stop', or a crash reported by debugfs: subdevices go first.
Shutdown ==
  /\ core = "running" /\ ThreadRuns /\ Goto("stopsend") /\ StopVdev
  /\ \/ why' = "shutdown" /\ UNCHANGED recovering
     \/ Recovery /\ why' = "recover" /\ recovering' = TRUE
  /\ UNCHANGED <<ret, use_ipi, hook, privVars, inVars, carveouts, kick_r2l, kick_l2r,
                 remote_ready, ctrl, r2l, l2r, irqVars, kickVars, remVars>>

\* Mutant of StopSend: the IPI is sent without the stop message.
StopSendNoCtrl ==
  /\ core = "stopsend" /\ ThreadRuns /\ Goto("stoppoll")
  /\ ctrl' = ctrl /\ ripi' = TRUE
  /\ UNCHANGED <<why, ret, recovering, use_ipi, hook, privVars, inVars, carveouts, vdevUp,
                 kick_r2l, kick_l2r, remote_ready, driverOk, r2l, l2r, irqVars, kickVars,
                 hart, fw, rpc>>

StopSend ==
  /\ core = "stopsend" /\ ThreadRuns /\ Goto("stoppoll")
  /\ ctrl' = "STOP" /\ ripi' = TRUE
  /\ UNCHANGED <<why, ret, recovering, use_ipi, hook, privVars, inVars, carveouts, vdevUp,
                 kick_r2l, kick_l2r, remote_ready, driverOk, r2l, l2r, irqVars, kickVars,
                 hart, fw, rpc>>

\* One turn of the 200-turn loop: STOPPED seen; the IPI sent again every
\* 20th turn; or the loop runs out (only a slow remote lets it).
StopPoll ==
  /\ core = "stoppoll" /\ ThreadRuns
  /\ \/ hart = "STOPPED" /\ Goto("ib_off") /\ ret' = "ok" /\ UNCHANGED ripi
     \/ hart = "STARTED" /\ ripi' = TRUE /\ UNCHANGED <<core, ret>>
     \/ hart = "STARTED" /\ Slow /\ Goto("ib_off") /\ ret' = "fail" /\ UNCHANGED ripi
  /\ UNCHANGED <<why, recovering, use_ipi, hook, privVars, inVars, carveouts, vdevUp, shmVars,
                 r2l, l2r, irqVars, kickVars, hart, fw, rpc>>

\* efinix_rproc_inbound_stop returns to its caller.
AfterInbound ==
  CASE why = "final" -> "rmhook" [] why = "startfail" -> "stuck" [] OTHER -> "stopfin"

\* inbound_stop, first half: ipi_active or hrtimer_cancel, whichever the
\* parameter names now; nothing more if the timer is not running.
InboundOff ==
  /\ core = "ib_off" /\ ThreadRuns
  /\ \/ use_ipi /\ ipi_active' = FALSE /\ Goto("ib_cancel_ipi") /\ UNCHANGED timer
     \/ /\ ~use_ipi /\ poll_running /\ timer' = FALSE /\ Goto("ib_cancel_poll")
        /\ UNCHANGED ipi_active
     \/ ~use_ipi /\ ~poll_running /\ Goto(AfterInbound) /\ UNCHANGED <<timer, ipi_active>>
  /\ UNCHANGED <<why, ret, recovering, use_ipi, hook, poll_running, hart_started, last_r2l_seen,
                 wpend, wrun, carveouts, vdevUp, shmVars, r2l, l2r, irqVars, kickVars, remVars>>

\* Mutant of InboundCancel: the queued work is not cancelled.
InboundCancelNoSync ==
  /\ core \in {"ib_cancel_ipi", "ib_cancel_poll"} /\ ThreadRuns /\ wrun = "idle"
  /\ Goto(AfterInbound)
  /\ wpend' = wpend
  /\ poll_running' = (poll_running /\ core = "ib_cancel_ipi")
  /\ UNCHANGED <<why, ret, recovering, use_ipi, hook, ipi_active, hart_started, last_r2l_seen,
                 timer, wrun, carveouts, vdevUp, shmVars, r2l, l2r, irqVars, kickVars, remVars>>

\* Mutant of InboundCancel: poll_running is not reset.
InboundCancelKeepsPoll ==
  /\ core \in {"ib_cancel_ipi", "ib_cancel_poll"} /\ ThreadRuns /\ wrun = "idle"
  /\ Goto(AfterInbound)
  /\ wpend' = FALSE
  /\ poll_running' = poll_running
  /\ UNCHANGED <<why, ret, recovering, use_ipi, hook, ipi_active, hart_started, last_r2l_seen,
                 timer, wrun, carveouts, vdevUp, shmVars, r2l, l2r, irqVars, kickVars, remVars>>

\* Second half: cancel_work_sync waits for a running instance and clears
\* PENDING; the poll path then resets poll_running.
InboundCancel ==
  /\ core \in {"ib_cancel_ipi", "ib_cancel_poll"} /\ ThreadRuns /\ wrun = "idle"
  /\ Goto(AfterInbound)
  /\ wpend' = FALSE
  /\ poll_running' = (poll_running /\ core = "ib_cancel_ipi")
  /\ UNCHANGED <<why, ret, recovering, use_ipi, hook, ipi_active, hart_started, last_r2l_seen,
                 timer, wrun, carveouts, vdevUp, shmVars, r2l, l2r, irqVars, kickVars, remVars>>

\* The tail of efinix_rproc_stop, and what the core does with its result.  A
\* failed shutdown leaves the processor RUNNING without its subdevices; a
\* failed recovery leaves it powered but neither startable nor stoppable.
\* (Locals that are dead from here on are reset, here and in the handlers.)
StopFinish ==
  /\ core = "stopfin" /\ ThreadRuns
  /\ hart_started' = FALSE /\ ctrl' = "NONE" /\ ret' = "ok"
  /\ why' = IF why = "remove" THEN "final" ELSE "none"
  /\ \/ why = "remove" /\ Goto("ib_off") /\ UNCHANGED carveouts
     \/ why = "shutdown" /\ ret = "fail" /\ Goto("running") /\ UNCHANGED carveouts
     \/ why = "recover" /\ Goto(IF ret = "ok" THEN "snap" ELSE "stuck") /\ UNCHANGED carveouts
     \/ why = "bootfail" /\ recovering /\ Goto("stuck") /\ UNCHANGED carveouts
     \/ /\ (why = "shutdown" /\ ret = "ok") \/ (why = "bootfail" /\ ~recovering)
        /\ BootFails
  /\ UNCHANGED <<recovering, use_ipi, hook, ipi_active, poll_running, last_r2l_seen, inVars,
                 vdevUp, kick_r2l, kick_l2r, remote_ready, driverOk, r2l, l2r, irqVars,
                 kickVars, remVars>>

\* A write to /sys/module/.../parameters/rproc_use_ipi.
SetUseIpi ==
  /\ ParamWrites /\ ThreadRuns /\ use_ipi' = ~use_ipi
  /\ UNCHANGED <<coreVars, hook, privVars, inVars, carveouts, vdevUp, shmVars, r2l, l2r,
                 irqVars, kickVars, remVars>>

-----------------------------------------------------------------------------
(* Inbound kicks: the doorbell hook, the poll timer and the notify work.    *)

doorbellUnchanged == <<why, ret, recovering, use_ipi, hook, ipi_active, poll_running,
  hart_started, timer, wrun, carveouts, vdevUp, shmVars, r2l, l2r, kickVars, remVars>>

\* riscv_intc_irq with cause RV_IRQ_SOFT: riscv_amp_ipi_notify reads the hook.
\* Calling a hook left behind by a removed driver leaves the modelled world.
IrqEnter(h) ==
  /\ irq[h] = "idle" /\ ssip[h]
  /\ irq' = [irq EXCEPT ![h] = IF hook = "live" THEN "active" ELSE "ack"]
  /\ core' = IF hook = "dangling" THEN "corrupted" ELSE core
  /\ UNCHANGED <<doorbellUnchanged, last_r2l_seen, wpend, ssip, now>>

\* efinix_rproc_ipi_doorbell, one action per shared access.
DoorbellActive(h) ==
  /\ irq[h] = "active"
  /\ irq' = [irq EXCEPT ![h] = IF ipi_active THEN "read" ELSE "ack"]
  /\ UNCHANGED <<doorbellUnchanged, core, last_r2l_seen, wpend, ssip, now>>

DoorbellRead(h) ==
  /\ irq[h] = "read"
  /\ now' = [now EXCEPT ![h] = kick_r2l]
  /\ irq' = [irq EXCEPT ![h] = "cmp"]
  /\ UNCHANGED <<doorbellUnchanged, core, last_r2l_seen, wpend, ssip>>

DoorbellCompare(h) ==
  /\ irq[h] = "cmp"
  /\ irq' = [irq EXCEPT ![h] = IF now[h] # last_r2l_seen THEN "write" ELSE "ack"]
  /\ UNCHANGED <<doorbellUnchanged, core, last_r2l_seen, wpend, ssip, now>>

DoorbellWrite(h) ==
  /\ irq[h] = "write"
  /\ last_r2l_seen' = now[h]
  /\ irq' = [irq EXCEPT ![h] = "sched"]
  /\ UNCHANGED <<doorbellUnchanged, core, wpend, ssip, now>>

DoorbellSchedule(h) ==
  /\ irq[h] = "sched"
  /\ wpend' = TRUE
  /\ irq' = [irq EXCEPT ![h] = "ack"]
  /\ UNCHANGED <<doorbellUnchanged, core, last_r2l_seen, ssip, now>>

\* generic_handle_domain_irq: the IPI chip clears SSIP after the hook has run.
IrqAck(h) ==
  /\ irq[h] = "ack"
  /\ ssip' = [ssip EXCEPT ![h] = FALSE]
  /\ irq' = [irq EXCEPT ![h] = "idle"]
  /\ now' = [now EXCEPT ![h] = 0]
  /\ UNCHANGED <<doorbellUnchanged, core, last_r2l_seen, wpend>>

\* Linux's own IPIs (reschedule, function call) enter through the same hook.
LinuxIpi(h) ==
  /\ Cardinality(Harts) > 1 /\ ssip' = [ssip EXCEPT ![h] = TRUE]
  /\ UNCHANGED <<doorbellUnchanged, core, last_r2l_seen, wpend, irq, now>>

\* efinix_rproc_poll_fn; the timer re-arms itself.
PollTick ==
  /\ timer /\ kick_r2l # last_r2l_seen
  /\ last_r2l_seen' = kick_r2l /\ wpend' = TRUE
  /\ UNCHANGED <<doorbellUnchanged, core, irqVars>>

workUnchanged == <<coreVars, use_ipi, hook, privVars, timer, carveouts, vdevUp, shmVars,
  l2r, irqVars, kickVars, remVars>>

\* The workqueue starts notify_work; it never runs one work item twice at once.
WorkStart ==
  /\ wpend /\ wrun = "idle" /\ ThreadRuns /\ wpend' = FALSE /\ wrun' = "vq0"
  /\ UNCHANGED <<workUnchanged, r2l>>

\* Mutant of NotifyWork: the notified queue ids start at one.
NotifyWorkWrongVq ==
  /\ wrun # "idle" /\ ThreadRuns
  /\ wrun' = IF wrun = "vq0" THEN "vq1" ELSE "idle"
  /\ r2l' = IF wrun = "vq2" /\ vdevUp THEN 0 ELSE r2l
  /\ UNCHANGED <<workUnchanged, wpend>>

\* rproc_vq_interrupt(0) consumes the inbound vring while a virtqueue is bound;
\* rproc_vq_interrupt(1) finds no callback on the outbound one.
NotifyWork ==
  /\ wrun # "idle" /\ ThreadRuns
  /\ wrun' = IF wrun = "vq0" THEN "vq1" ELSE "idle"
  /\ r2l' = IF wrun = "vq0" /\ vdevUp THEN 0 ELSE r2l
  /\ UNCHANGED <<workUnchanged, wpend>>

-----------------------------------------------------------------------------
(* Outbound kicks: efinix_rproc_kick by the contexts that send.             *)

kickUnchanged == <<coreVars, use_ipi, hook, privVars, inVars, carveouts, vdevUp, kick_r2l,
  remote_ready, ctrl, driverOk, r2l, irqVars, hart, fw, rpc>>

\* A buffer is added to the outbound vring before the core calls ops->kick.
LinuxSend(k) ==
  /\ vdevUp /\ lk[k] = "idle" /\ l2r < Depth /\ ThreadRuns /\ l2r' = l2r + 1
  /\ lk' = [lk EXCEPT ![k] = "read"]
  /\ UNCHANGED <<kickUnchanged, kick_l2r, lnext, ripi>>

KickRead(k) ==
  /\ lk[k] = "read" /\ ThreadRuns
  /\ lnext' = [lnext EXCEPT ![k] = Inc(kick_l2r)] /\ lk' = [lk EXCEPT ![k] = "write"]
  /\ UNCHANGED <<kickUnchanged, kick_l2r, l2r, ripi>>

KickWrite(k) ==
  /\ lk[k] = "write" /\ ThreadRuns
  /\ kick_l2r' = lnext[k] /\ lk' = [lk EXCEPT ![k] = "ipi"]
  /\ lnext' = [lnext EXCEPT ![k] = 0]
  /\ UNCHANGED <<kickUnchanged, l2r, ripi>>

\* Mutant of KickIpi: the counter is bumped and no IPI is sent.
KickIpiSkipped(k) ==
  /\ lk[k] = "ipi" /\ ThreadRuns /\ ripi' = ripi /\ lk' = [lk EXCEPT ![k] = "idle"]
  /\ UNCHANGED <<kickUnchanged, kick_l2r, lnext, l2r>>

KickIpi(k) ==
  /\ lk[k] = "ipi" /\ ThreadRuns /\ ripi' = TRUE /\ lk' = [lk EXCEPT ![k] = "idle"]
  /\ UNCHANGED <<kickUnchanged, kick_l2r, lnext, l2r>>

-----------------------------------------------------------------------------
(* The remote hart and its firmware (external).                             *)

remoteUnchanged == <<coreVars, use_ipi, hook, privVars, inVars, carveouts, vdevUp, kick_l2r,
  ctrl, irq, now, kickVars>>

\* The firmware publishes its resource table, whose vdev status is zero, and
\* then REMOTE_READY_MAGIC.
RemotePublish ==
  /\ fw = "boot" /\ fw' = "ready" /\ remote_ready' = TRUE /\ driverOk' = FALSE
  /\ UNCHANGED <<remoteUnchanged, kick_r2l, r2l, l2r, ssip, hart, rpc, ripi>>

\* It waits for DRIVER_OK before it uses the vrings.
RemoteGo ==
  /\ fw = "ready" /\ driverOk /\ fw' = "run"
  /\ UNCHANGED <<remoteUnchanged, kick_r2l, remote_ready, driverOk, r2l, l2r, ssip, hart, rpc, ripi>>

\* One message to Linux: buffer, counter, IPI to hart 0.
RemotePut ==
  /\ fw = "run" /\ rpc = "idle" /\ r2l < Depth
  /\ MayWrap \/ kick_r2l + 1 < KickMod
  /\ r2l' = r2l + 1 /\ rpc' = "kick"
  /\ UNCHANGED <<remoteUnchanged, kick_r2l, remote_ready, driverOk, l2r, ssip, hart, fw, ripi>>

RemoteKick ==
  /\ fw = "run" /\ rpc = "kick" /\ (MayWrap \/ kick_r2l + 1 < KickMod)
  /\ kick_r2l' = Inc(kick_r2l) /\ rpc' = "ring"
  /\ UNCHANGED <<remoteUnchanged, remote_ready, driverOk, r2l, l2r, ssip, hart, fw, ripi>>

RemoteRing ==
  /\ fw = "run" /\ rpc = "ring" /\ rpc' = "idle"
  /\ ssip' = [ssip EXCEPT ![Hart0] = TRUE]
  /\ UNCHANGED <<remoteUnchanged, kick_r2l, remote_ready, driverOk, r2l, l2r, hart, fw, ripi>>

\* An IPI at the remote: obey a stop message, else consume the vring.
RemoteIpi ==
  /\ ripi /\ ripi' = FALSE
  /\ \/ fw \in {"ready", "run"} /\ ctrl = "STOP" /\ fw' = "halting" /\ UNCHANGED l2r
     \/ fw = "run" /\ ctrl = "NONE" /\ l2r' = 0 /\ UNCHANGED fw
  /\ UNCHANGED <<remoteUnchanged, kick_r2l, remote_ready, driverOk, r2l, ssip, hart, rpc>>

\* sbi_hsm_hart_stop.
RemoteHalt ==
  /\ fw = "halting" /\ fw' = "off" /\ hart' = "STOPPED" /\ rpc' = "idle"
  /\ UNCHANGED <<remoteUnchanged, kick_r2l, remote_ready, driverOk, r2l, l2r, ssip, ripi>>

-----------------------------------------------------------------------------
Boot  == LoadSegments \/ ClearShm \/ ParseHartStart \/ ParseWait \/ InboundSnapshot
           \/ InboundActivate \/ StartHart \/ StartSubdevs
Stop  == StopSend \/ StopPoll \/ InboundOff \/ InboundCancel \/ StopFinish
CoreStep == ProbeAdd \/ Boot \/ Stop \/ RemoveHook \/ RemoveFree
User  == Probe \/ Prepare \/ Shutdown \/ Remove \/ SetUseIpi
Irq(h) == IrqEnter(h) \/ DoorbellActive(h) \/ DoorbellRead(h) \/ DoorbellCompare(h)
           \/ DoorbellWrite(h) \/ DoorbellSchedule(h) \/ IrqAck(h)
Work  == WorkStart \/ NotifyWork
KickStep(k) == KickRead(k) \/ KickWrite(k) \/ KickIpi(k)
RemoteStep == RemotePublish \/ RemoteGo \/ RemoteKick \/ RemoteRing \/ RemoteHalt

Next ==
  \/ CoreStep \/ User \/ PollTick \/ Work \/ RemotePut \/ RemoteStep \/ RemoteIpi
  \/ \E h \in Harts : Irq(h) \/ LinuxIpi(h)
  \/ \E k \in Kickers : LinuxSend(k) \/ KickStep(k)

Spec == Init /\ [][Next]_vars

\* Interrupts, the timer and the firmware make progress, and so do a driver
\* operation once entered, the worker and a kick caller: the scheduler runs a
\* thread that becomes runnable again and again between interrupts.  Users,
\* Linux's own IPIs and senders need not act.
Fairness ==
  /\ SF_vars(CoreStep) /\ SF_vars(Work) /\ \A k \in Kickers : SF_vars(KickStep(k))
  /\ WF_vars(PollTick) /\ \A h \in Harts : WF_vars(Irq(h))
  /\ WF_vars(RemoteStep) /\ WF_vars(RemoteIpi)

FairSpec == Spec /\ Fairness

-----------------------------------------------------------------------------
(* Properties.                                                              *)

\* A kick is never marked as seen without its messages being delivered: if the
\* counter equals last_r2l_seen while messages wait, then the notify work is
\* queued or has not drained the vring yet, or a doorbell is about to queue it,
\* or the remote has not counted its newest message yet.
KickNotLost ==
  vdevUp /\ r2l > 0 /\ kick_r2l = last_r2l_seen =>
    \/ wpend \/ wrun = "vq0" \/ rpc = "kick"
    \/ \E h \in Harts : irq[h] \in {"write", "sched"}

\* The driver's view of the hart is true when it acts on it: the image is only
\* (re)loaded and the shared words only cleared while the hart is stopped, and
\* a processor reported running has a started hart.
HartMatchesCore ==
  /\ core \in {"offline", "load", "clear"} => hart = "STOPPED"
  /\ core = "running" => hart = "STARTED"

\* parse_fw accepts only a READY flag published by the boot it started, so the
\* resource table it copies is the one this firmware instance published.
ReadyIsFresh ==
  core \in {"snap", "act", "subdev"} /\ ~recovering => fw \in {"ready", "run"}

\* The firmware's late table publication never erases DRIVER_OK, so a firmware
\* that waits for it cannot be stranded.
DriverOkSticks == vdevUp => driverOk

\* The boot handshake over shared memory and SBI that survive a restart.
BootHandshake == HartMatchesCore /\ ReadyIsFresh /\ DriverOkSticks

\* Nothing that dereferences the private data outlives efinix_rproc_remove.
NoUseAfterFree == core # "corrupted"

\* Between a stop (or failed boot) and the next start no doorbell, timer or
\* notify work of the previous session is left.
InboundQuiet ==
  core \in {"unbound", "offline", "load", "clear", "hartstart", "wait", "snap"} =>
    ~ipi_active /\ ~timer /\ ~poll_running /\ ~wpend /\ wrun = "idle"

\* Whenever the rpmsg device is up both vrings lie in the shared-memory
\* carveouts that prepare registered, never in memory the core allocated.
VringsInCarveouts == vdevUp => carveouts = {"vdev0vring0", "vdev0vring1"}

\* A message the remote put in the vring is consumed, unless the device goes.
KickDrained == (vdevUp /\ r2l > 0) ~> (r2l = 0 \/ ~vdevUp)

\* A message Linux sent reaches the firmware, however kick callers interleave
\* on the unlocked counter, unless the device goes.
SendReceived == (vdevUp /\ l2r > 0) ~> (l2r = 0 \/ ~vdevUp)

\* A stop request ends with the hart stopped and the processor offline, or
\* restarted by the recovery that asked for it.
StopCompletes == core = "stopsend" ~> core \in {"offline", "unbound", "running"}

-----------------------------------------------------------------------------
(* The inductive strengthening of KickNotLost and VringsInCarveouts.        *)

\* Core states in which a boot has prepared the carveouts and not undone it.
InBoot == {"load", "clear", "hartstart", "wait", "snap"}
\* Core states after inbound_start took its snapshot; a teardown that may
\* still return to "running" or "snap" counts, the final one of remove does not.
InSession ==
  \/ core \in {"act", "hart2", "subdev", "running", "stopsend", "stoppoll"}
  \/ core \in {"ib_off", "ib_cancel_ipi", "ib_cancel_poll", "stopfin"} /\ why # "final"

\* Why efinix_rproc_stop was called.
StopCaller == {"shutdown", "recover", "bootfail", "remove"}

VdevNeedsRunning == vdevUp => core \in {"running", "corrupted"}
CarveoutsHeld    == core \in InBoot \/ InSession \/ vdevUp =>
                      carveouts = {"vdev0vring0", "vdev0vring1"}
SeenBehind       == InSession \/ vdevUp => last_r2l_seen <= kick_r2l
NowBehind        == \A h \in Harts : irq[h] \in {"cmp", "write"} => now[h] <= kick_r2l
StopNeedsDown    ==
  /\ ctrl = "STOP" => /\ ~vdevUp
                      /\ \/ core \in {"stoppoll", "ib_off", "ib_cancel_ipi",
                                      "ib_cancel_poll", "stopfin"} /\ why \in StopCaller
                         \/ core = "corrupted"
  /\ core \in {"stopsend", "stoppoll"} => why \in StopCaller
HaltingIdle      == vdevUp /\ fw = "halting" => r2l = 0
UnboundSettled   == core = "unbound" => DoorbellsSettled /\ hook # "live"

\* The state KickNotLost rests on: a session's snapshot and every value a
\* doorbell holds never run ahead of the remote's counter, and only a running
\* processor has its virtio device.
KickInv ==
  /\ TypeOK /\ VdevNeedsRunning /\ CarveoutsHeld /\ SeenBehind /\ NowBehind
  /\ StopNeedsDown /\ HaltingIdle /\ UnboundSettled /\ KickNotLost
=============================================================================
