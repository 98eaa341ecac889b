-------------------------------- MODULE TseTx -------------------------------
(***************************************************************************)
(* The transmit ring of the Efinix TSEMAC Ethernet driver (Linux patch     *)
(* 0006: efinix_tse.c and efinix_tse_dma.c): start_xmit filling buffer     *)
(* descriptors, the scatter-gather DMA walking them, the completion        *)
(* interrupt and the NAPI poll that reclaims them, and open / stop.        *)
(*                                                                         *)
(* The network stack calls start_xmit for one packet at a time and only    *)
(* while the queue is not stopped.  The DMA engine is external: it walks   *)
(* the linked list, marks each descriptor COMPLETED and ends at one that   *)
(* already is.                                                             *)
(***************************************************************************)
EXTENDS Naturals, FiniteSets

CONSTANTS
  N,            \* lp->tx_bd_num
  MaxFrags,     \* MAX_SKB_FRAGS
  FragSizes,    \* byte counts of fragments
  Budget,       \* NAPI budget
  Smp,          \* FALSE: one CPU, so start_xmit and the poll exclude each other
  SlowEnd,      \* TRUE: the DMA reads BUSY for a while after it met the end of the list
  MapFaults,    \* TRUE: dma_map_single may fail
  Reopen        \* TRUE: the interface may be taken down and up again

ASSUME TseTxAssumption ==
  /\ MaxFrags \in Nat /\ N \in Nat /\ N >= MaxFrags + 1   \* TX_BD_NUM_MIN
  /\ N >= 2 /\ Budget \in Nat \ {0}
  /\ FragSizes \subseteq Nat \ {0}
  /\ Smp \in BOOLEAN /\ SlowEnd \in BOOLEAN /\ MapFaults \in BOOLEAN /\ Reopen \in BOOLEAN

VARIABLES
  bytes, eop,     \* per descriptor: control, split into byte count - 1 and END_OF_PACKET
  done,           \* per descriptor: status has COMPLETED
  skb,            \* per descriptor: cur_p->skb # NULL
  tx_bd_ci, tx_bd_tail,
  xpc, nf, orig, newt, head,    \* start_xmit: pc and locals
  busy,           \* the last start_xmit returned NETDEV_TX_BUSY
  stopped,        \* __QUEUE_STATE_DRV_XOFF
  dma, dpos, mid, \* DMA channel state, its descriptor, and whether it is inside a packet
  pending, enabled,             \* DMA_CH_INTERRUPT_PENDING / _ENABLE
  napi, pidx, packets,          \* tsemac_tx_poll: pc and locals of tsemac_free_tx_chain
  up              \* netif_running

ringVars == <<bytes, eop, done, skb>>
idxVars  == <<tx_bd_ci, tx_bd_tail>>
xmitVars == <<xpc, nf, orig, newt, head, busy>>
dmaVars  == <<dma, dpos, mid>>
irqVars  == <<pending, enabled>>
pollVars == <<napi, pidx, packets>>
vars == <<ringVars, idxVars, xmitVars, stopped, dmaVars, irqVars, pollVars, up>>

BD == 0 .. N - 1
Plus(i, n) == (i + n) % N

InUse(i) == bytes[i] # 0 \/ eop[i]                 \* cur_p->control != 0
Completed(i) == done[i] /\ InUse(i)

TypeOK ==
  /\ bytes \in [BD -> Nat] /\ eop \in [BD -> BOOLEAN]
  /\ done \in [BD -> BOOLEAN] /\ skb \in [BD -> BOOLEAN]
  /\ tx_bd_ci \in BD /\ tx_bd_tail \in BD
  /\ xpc \in {"idle", "check", "full", "frag", "head", "undo", "publish", "tail", "scan",
              "kick", "space", "stop", "recheck"}
  /\ nf \in 0 .. MaxFrags /\ orig \in BD /\ newt \in BD /\ head \in BD
  /\ stopped \in BOOLEAN /\ busy \in BOOLEAN
  /\ dma \in {"idle", "xfer", "ending"} /\ dpos \in BD /\ mid \in BOOLEAN
  /\ pending \in BOOLEAN /\ enabled \in BOOLEAN
  /\ napi \in {"idle", "sched", "free", "look", "wake", "complete"} /\ pidx \in BD
  /\ packets \in 0 .. Budget
  /\ up \in BOOLEAN

\* tsemac_dma_bd_init and tsemac_dma_start.
FreshRing ==
  [bytes |-> [i \in BD |-> 0], eop |-> [i \in BD |-> FALSE],
   done |-> [i \in BD |-> TRUE], skb |-> [i \in BD |-> FALSE],
   tx_bd_ci |-> 0, tx_bd_tail |-> 0,
   dma |-> "idle", dpos |-> 0, mid |-> FALSE, pending |-> FALSE, enabled |-> TRUE]

Init ==
  /\ bytes = FreshRing.bytes /\ eop = FreshRing.eop
  /\ done = FreshRing.done /\ skb = FreshRing.skb
  /\ tx_bd_ci = FreshRing.tx_bd_ci /\ tx_bd_tail = FreshRing.tx_bd_tail
  /\ dma = FreshRing.dma /\ dpos = FreshRing.dpos /\ mid = FreshRing.mid
  /\ pending = FreshRing.pending /\ enabled = FreshRing.enabled
  /\ xpc = "idle" /\ nf = 0 /\ orig = 0 /\ newt = 0 /\ head = 0 /\ busy = FALSE
  /\ stopped = FALSE
  /\ napi = "idle" /\ pidx = 0 /\ packets = 0
  /\ up = TRUE

\* start_xmit runs with bottom halves disabled and the poll is a bottom half:
\* on one CPU neither runs inside the other.
XmitRuns == Smp \/ napi \in {"idle", "sched"}
PollRuns == Smp \/ xpc = "idle"

\* Mutant of TxBdSpace: only the descriptor at the tail is looked at.
TxBdSpaceTailOnly(tail, num_frag) == ~InUse(tail)

\* tsemac_check_tx_bd_space: only the descriptor num_frag + 1 ahead is looked at.
TxBdSpace(tail, num_frag) == ~InUse(Plus(tail, num_frag + 1))

-----------------------------------------------------------------------------
(* tsemac_start_xmit.                                                       *)

\* The stack hands over a packet with k fragments.
XmitEnter ==
  /\ up /\ ~stopped /\ xpc = "idle" /\ XmitRuns
  /\ nf' \in 0 .. MaxFrags
  /\ orig' = tx_bd_tail /\ newt' = tx_bd_tail /\ xpc' = "check" /\ busy' = FALSE
  /\ UNCHANGED <<ringVars, idxVars, head, stopped, dmaVars, irqVars, pollVars, up>>

\* The check that should not fail.
XmitCheck ==
  /\ xpc = "check" /\ XmitRuns
  /\ xpc' = IF ~TxBdSpace(tx_bd_tail, nf + 1) THEN "full"
            ELSE IF nf = 0 THEN "head" ELSE "frag"
  /\ UNCHANGED <<ringVars, idxVars, nf, orig, newt, head, busy, stopped, dmaVars, irqVars, pollVars, up>>

\* "TX ring unexpectedly full": stop the queue, NETDEV_TX_BUSY.
XmitFull ==
  /\ xpc = "full" /\ XmitRuns /\ stopped' = TRUE /\ xpc' = "idle" /\ busy' = TRUE
  /\ UNCHANGED <<ringVars, idxVars, nf, orig, newt, head, dmaVars, irqVars, pollVars, up>>

\* One fragment: the next descriptor gets its size - 1 and status 0.
XmitFrag ==
  /\ xpc = "frag" /\ XmitRuns
  /\ \/ LET t == Plus(newt, 1) IN
        /\ newt' = t
        /\ \E s \in FragSizes : bytes' = [bytes EXCEPT ![t] = s - 1]
        /\ eop' = [eop EXCEPT ![t] = FALSE]
        /\ done' = [done EXCEPT ![t] = FALSE]
        /\ xpc' = IF t = Plus(orig, nf) THEN "head" ELSE "frag"
        /\ UNCHANGED <<skb, head>>
     \/ MapFaults /\ xpc' = "undo" /\ head' = orig /\ UNCHANGED <<ringVars, newt>>
  /\ UNCHANGED <<idxVars, nf, orig, busy, stopped, dmaVars, irqVars, pollVars, up>>

\* The linear part is mapped and the skb hung on the last descriptor.
XmitHead ==
  /\ xpc = "head" /\ XmitRuns
  /\ \/ /\ skb' = [skb EXCEPT ![newt] = TRUE] /\ xpc' = "publish"
        /\ UNCHANGED <<newt, head>>
     \/ MapFaults /\ xpc' = "undo" /\ head' = orig /\ newt' = orig /\ UNCHANGED skb
  /\ UNCHANGED <<bytes, eop, done, idxVars, nf, orig, busy, stopped, dmaVars, irqVars, pollVars, up>>

\* A mapping failed: one turn of tsemac_free_tx_chain with force, which resets the descriptors
\* from orig to newt and moves tx_bd_ci by as many, wherever it stands.
XmitUndo ==
  /\ MapFaults /\ xpc = "undo" /\ XmitRuns
  /\ bytes' = [bytes EXCEPT ![head] = 0] /\ eop' = [eop EXCEPT ![head] = FALSE]
  /\ done' = [done EXCEPT ![head] = TRUE] /\ skb' = [skb EXCEPT ![head] = FALSE]
  /\ tx_bd_ci' = Plus(tx_bd_ci, 1)
  /\ IF head = newt THEN xpc' = "idle" /\ UNCHANGED head
                    ELSE head' = Plus(head, 1) /\ UNCHANGED xpc
  /\ UNCHANGED <<tx_bd_tail, nf, orig, newt, busy, stopped, dmaVars, irqVars, pollVars, up>>

\* Mutant of XmitPublish: END_OF_PACKET is not set.
XmitPublishNoEop ==
  /\ xpc = "publish" /\ XmitRuns
  /\ eop' = [eop EXCEPT ![orig] = FALSE, ![newt] = FALSE]
  /\ bytes' = [bytes EXCEPT ![orig] = 1]
  /\ done' = [done EXCEPT ![orig] = FALSE]
  /\ xpc' = "tail"
  /\ UNCHANGED <<skb, idxVars, nf, orig, newt, head, busy, stopped, dmaVars, irqVars, pollVars, up>>

\* Under lp->lock: END_OF_PACKET on the last descriptor, then the head
\* descriptor becomes visible (a frame's linear part is never one byte).
XmitPublish ==
  /\ xpc = "publish" /\ XmitRuns
  /\ eop' = [eop EXCEPT ![orig] = FALSE, ![newt] = TRUE]
  /\ bytes' = [bytes EXCEPT ![orig] = 1]
  /\ done' = [done EXCEPT ![orig] = FALSE]
  /\ xpc' = "tail"
  /\ UNCHANGED <<skb, idxVars, nf, orig, newt, head, busy, stopped, dmaVars, irqVars, pollVars, up>>

\* Mutant of XmitTail: the new tail is not marked COMPLETED.
XmitTailUnmarked ==
  /\ xpc = "tail" /\ XmitRuns
  /\ tx_bd_tail' = Plus(newt, 1)
  /\ done' = done
  /\ head' = tx_bd_ci /\ xpc' = "scan"
  /\ UNCHANGED <<bytes, eop, skb, tx_bd_ci, nf, orig, newt, busy, stopped, dmaVars, irqVars, pollVars, up>>

\* tx_bd_tail moves to a descriptor marked COMPLETED, which ends the list; the
\* scan for the first unfinished descriptor starts at tx_bd_ci.
XmitTail ==
  /\ xpc = "tail" /\ XmitRuns
  /\ tx_bd_tail' = Plus(newt, 1)
  /\ done' = [done EXCEPT ![Plus(newt, 1)] = TRUE]
  /\ head' = tx_bd_ci /\ xpc' = "scan"
  /\ UNCHANGED <<bytes, eop, skb, tx_bd_ci, nf, orig, newt, busy, stopped, dmaVars, irqVars, pollVars, up>>

\* Mutant of XmitScan: the transfer is started at tx_bd_ci itself.
XmitNoScan ==
  /\ xpc = "scan" /\ XmitRuns
  /\ IF FALSE
       THEN head' = Plus(head, 1) /\ UNCHANGED xpc
       ELSE xpc' = "kick" /\ UNCHANGED head
  /\ UNCHANGED <<ringVars, idxVars, nf, orig, newt, busy, stopped, dmaVars, irqVars, pollVars, up>>

\* tsemac_check_tx_bd_head, one descriptor per step, without lp->lock.
XmitScan ==
  /\ xpc = "scan" /\ XmitRuns
  /\ IF head # orig /\ Completed(head)
       THEN head' = Plus(head, 1) /\ UNCHANGED xpc
       ELSE xpc' = "kick" /\ UNCHANGED head
  /\ UNCHANGED <<ringVars, idxVars, nf, orig, newt, busy, stopped, dmaVars, irqVars, pollVars, up>>

\* External: the DMA channel fetches descriptor i.  One that is not COMPLETED
\* is transferred; a COMPLETED one ends the list and raises the completion
\* interrupt, at once or (SlowEnd) after a while in which it still reads BUSY.
DmaArrive(i, isDone) ==
  /\ dpos' = i
  /\ dma' = CASE ~isDone -> "xfer" [] isDone /\ SlowEnd -> "ending" [] OTHER -> "idle"
  /\ pending' = (pending \/ (isDone /\ ~SlowEnd))

\* Start the transfer unless the channel reads BUSY.
XmitKick ==
  /\ xpc = "kick" /\ XmitRuns /\ xpc' = "space"
  /\ IF dma = "idle" THEN DmaArrive(head, done[head]) ELSE UNCHANGED <<dma, dpos, pending>>
  /\ UNCHANGED <<ringVars, idxVars, nf, orig, newt, head, busy, stopped, mid, enabled, pollVars, up>>

\* Mutant of XmitSpace: room for one fragment less than the largest packet.
XmitSpaceShort ==
  /\ xpc = "space" /\ XmitRuns
  /\ xpc' = IF TxBdSpace(tx_bd_tail, MaxFrags) THEN "idle" ELSE "stop"
  /\ UNCHANGED <<ringVars, idxVars, nf, orig, newt, head, busy, stopped, dmaVars, irqVars, pollVars, up>>

\* If the next packet may not fit ...
XmitSpace ==
  /\ xpc = "space" /\ XmitRuns
  /\ xpc' = IF TxBdSpace(tx_bd_tail, MaxFrags + 1) THEN "idle" ELSE "stop"
  /\ UNCHANGED <<ringVars, idxVars, nf, orig, newt, head, busy, stopped, dmaVars, irqVars, pollVars, up>>

\* ... stop the queue ...
XmitStop ==
  /\ xpc = "stop" /\ XmitRuns /\ xpc' = "recheck" /\ stopped' = TRUE
  /\ UNCHANGED <<ringVars, idxVars, nf, orig, newt, head, busy, dmaVars, irqVars, pollVars, up>>

\* Mutant of XmitRecheck: the room is not looked at again.
XmitNoRecheck ==
  /\ xpc = "recheck" /\ XmitRuns /\ xpc' = "idle"
  /\ stopped' = stopped
  /\ UNCHANGED <<ringVars, idxVars, nf, orig, newt, head, busy, dmaVars, irqVars, pollVars, up>>

\* ... and look again after the barrier: with room the queue is woken, without it is left as
\* the poll may have made it meanwhile.
XmitRecheck ==
  /\ xpc = "recheck" /\ XmitRuns /\ xpc' = "idle"
  /\ stopped' = (stopped /\ ~TxBdSpace(tx_bd_tail, MaxFrags + 1))
  /\ UNCHANGED <<ringVars, idxVars, nf, orig, newt, head, busy, dmaVars, irqVars, pollVars, up>>

-----------------------------------------------------------------------------
(* The DMA channel (external) and the completion interrupt.                 *)

\* The bytes of one descriptor go out, it becomes COMPLETED, and the channel
\* goes on to the next.
DmaXfer ==
  /\ dma = "xfer"
  /\ done' = [done EXCEPT ![dpos] = TRUE] /\ mid' = ~eop[dpos]
  /\ LET next == Plus(dpos, 1) IN DmaArrive(next, done[next])
  /\ UNCHANGED <<bytes, eop, skb, idxVars, xmitVars, stopped, enabled, pollVars, up>>

DmaEnd ==
  /\ dma = "ending" /\ dma' = "idle" /\ pending' = TRUE
  /\ UNCHANGED <<ringVars, idxVars, xmitVars, stopped, dpos, mid, enabled, pollVars, up>>

\* tsemac_tx_irq: mask, acknowledge, napi_schedule.
TxIrq ==
  /\ pending /\ enabled
  /\ enabled' = FALSE /\ pending' = FALSE
  /\ napi' = IF napi = "idle" THEN "sched" ELSE napi
  /\ UNCHANGED <<ringVars, idxVars, xmitVars, stopped, dmaVars, pidx, packets, up>>

-----------------------------------------------------------------------------
(* tsemac_tx_poll.                                                          *)

PollStart ==
  /\ napi = "sched" /\ PollRuns
  /\ napi' = "free" /\ pidx' = tx_bd_ci /\ packets' = 0
  /\ UNCHANGED <<ringVars, idxVars, xmitVars, stopped, dmaVars, irqVars, up>>

\* Mutant of PollFree: tx_bd_ci is not advanced.
PollFreeNoAdvance ==
  /\ napi = "free" /\ PollRuns
  /\ IF packets < Budget /\ Completed(pidx)
       THEN /\ bytes' = [bytes EXCEPT ![pidx] = 0] /\ eop' = [eop EXCEPT ![pidx] = FALSE]
            /\ done' = [done EXCEPT ![pidx] = TRUE] /\ skb' = [skb EXCEPT ![pidx] = FALSE]
            /\ tx_bd_ci' = tx_bd_ci
            /\ pidx' = Plus(pidx, 1) /\ packets' = packets + 1
            /\ UNCHANGED napi
       ELSE /\ napi' = IF packets > 0 THEN "look" ELSE "complete"
            /\ UNCHANGED <<ringVars, tx_bd_ci, pidx, packets>>
  /\ UNCHANGED <<tx_bd_tail, xmitVars, stopped, dmaVars, irqVars, up>>

\* One turn of tsemac_free_tx_chain without force.
PollFree ==
  /\ napi = "free" /\ PollRuns
  /\ IF packets < Budget /\ Completed(pidx)
       THEN /\ bytes' = [bytes EXCEPT ![pidx] = 0] /\ eop' = [eop EXCEPT ![pidx] = FALSE]
            /\ done' = [done EXCEPT ![pidx] = TRUE] /\ skb' = [skb EXCEPT ![pidx] = FALSE]
            /\ tx_bd_ci' = Plus(tx_bd_ci, 1)
            /\ pidx' = Plus(pidx, 1) /\ packets' = packets + 1
            /\ UNCHANGED napi
       ELSE /\ napi' = IF packets > 0 THEN "look" ELSE "complete"
            /\ UNCHANGED <<ringVars, tx_bd_ci, pidx, packets>>
  /\ UNCHANGED <<tx_bd_tail, xmitVars, stopped, dmaVars, irqVars, up>>

\* If a packet of any size fits ...
PollLook ==
  /\ napi = "look" /\ PollRuns
  /\ napi' = IF TxBdSpace(tx_bd_tail, MaxFrags + 1) THEN "wake" ELSE "complete"
  /\ UNCHANGED <<ringVars, idxVars, xmitVars, stopped, dmaVars, irqVars, pidx, packets, up>>

\* ... wake the queue, whatever start_xmit has done meanwhile.
PollWake ==
  /\ napi = "wake" /\ PollRuns /\ napi' = "complete" /\ stopped' = FALSE
  /\ UNCHANGED <<ringVars, idxVars, xmitVars, dmaVars, irqVars, pidx, packets, up>>

\* Mutant of PollComplete: the interrupt is not unmasked.
PollCompleteMasked ==
  /\ napi = "complete" /\ PollRuns
  /\ IF packets < Budget THEN napi' = "idle" /\ enabled' = enabled
     ELSE napi' = "sched" /\ UNCHANGED enabled
  /\ UNCHANGED <<ringVars, idxVars, xmitVars, stopped, dmaVars, pidx, packets, pending, up>>

\* Below budget: napi_complete_done and unmask; at budget: polled again.
PollComplete ==
  /\ napi = "complete" /\ PollRuns
  /\ IF packets < Budget THEN napi' = "idle" /\ enabled' = TRUE
     ELSE napi' = "sched" /\ UNCHANGED enabled
  /\ UNCHANGED <<ringVars, idxVars, xmitVars, stopped, dmaVars, pidx, packets, pending, up>>

-----------------------------------------------------------------------------
(* tsemac_stop and tsemac_open.                                             *)

\* napi_disable has waited for the poll; tsemac_dma_stop halts the channel and
\* masks its interrupt.  The driver does not touch the queue state.
TseStop ==
  /\ Reopen /\ up /\ xpc = "idle" /\ napi = "idle" /\ up' = FALSE
  /\ dma' = "idle" /\ mid' = FALSE /\ enabled' = FALSE
  /\ UNCHANGED <<ringVars, idxVars, xmitVars, stopped, dpos, pending, pollVars>>

TseOpen ==
  /\ ~up /\ up' = TRUE
  /\ bytes' = FreshRing.bytes /\ eop' = FreshRing.eop
  /\ done' = FreshRing.done /\ skb' = FreshRing.skb
  /\ tx_bd_ci' = FreshRing.tx_bd_ci /\ tx_bd_tail' = FreshRing.tx_bd_tail
  /\ dma' = FreshRing.dma /\ dpos' = FreshRing.dpos /\ mid' = FreshRing.mid
  /\ pending' = FreshRing.pending /\ enabled' = FreshRing.enabled
  /\ UNCHANGED <<xmitVars, stopped, pollVars>>

-----------------------------------------------------------------------------
Xmit == XmitCheck \/ XmitFull \/ XmitFrag \/ XmitHead \/ XmitUndo \/ XmitPublish
          \/ XmitTail \/ XmitScan \/ XmitKick \/ XmitSpace \/ XmitStop \/ XmitRecheck
Dma  == DmaXfer \/ DmaEnd
Poll == PollStart \/ PollFree \/ PollLook \/ PollWake \/ PollComplete

Next == XmitEnter \/ Xmit \/ Dma \/ TxIrq \/ Poll \/ TseStop \/ TseOpen

Spec == Init /\ [][Next]_vars

\* A call of start_xmit, the DMA, the interrupt and the softirq each progress;
\* the stack need not send another packet.
FairSpec == Spec /\ WF_vars(Xmit) /\ WF_vars(Dma) /\ WF_vars(TxIrq) /\ WF_vars(Poll)

-----------------------------------------------------------------------------
(* Properties.                                                              *)

\* "Should not happen": a packet the stack may send always finds room, because
\* the queue is stopped while the largest packet might not fit.
NeverUnexpectedlyFull == xpc # "full"

\* start_xmit never writes over a descriptor that still carries a packet.
NoOverwrite ==
  /\ xpc = "frag" => ~InUse(Plus(newt, 1))
  /\ xpc \in {"check", "frag", "head", "publish"} => ~InUse(orig)
  /\ xpc = "tail" => ~InUse(Plus(newt, 1))

\* The list the DMA walks always ends at tx_bd_tail: that descriptor is COMPLETED
\* except between a packet's publication and the advance of the tail.
TailTerminates == xpc # "tail" => done[tx_bd_tail]

\* The DMA never stops inside a packet and never sends a released descriptor.
PacketsWhole ==
  /\ dma = "idle" => ~mid
  /\ dma = "xfer" => InUse(dpos)

\* The queue is not left stopped when nothing can wake it: if no call, poll or
\* interrupt is under way and the DMA is idle, then a stopped queue has no room.
\* (The stop before NETDEV_TX_BUSY has no second look and is left out.)
StoppedNeedsReason ==
  up /\ stopped /\ ~busy /\ xpc = "idle" /\ napi = "idle" /\ ~pending /\ dma = "idle" =>
    ~TxBdSpace(tx_bd_tail, MaxFrags + 1)

\* A packet handed to the ring is sent without waiting for a later packet.
QueuedIsSent == \A i \in BD : (up /\ InUse(i) /\ ~done[i] /\ xpc = "space") ~> (done[i] \/ ~up)

\* A stopped queue is woken.
QueueWakes == stopped ~> (~stopped \/ ~up)

\* Every buffer is given back: a filled descriptor is reclaimed.
Reclaimed == \A i \in BD : skb[i] ~> ~skb[i]
=============================================================================
