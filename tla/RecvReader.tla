---------------------------- MODULE RecvReader ----------------------------
(* The receive path of a scan.  One reader thread (recv_reader_thread_func) *)
(* keeps a recvmsg request armed in every slot of its io_uring, copies each *)
(* packet that completes into the queue of the target it comes from, and    *)
(* wakes the target's worker through the worker's own ring (MSG_RING).      *)
(* Slots of the four sockets differ only in that a TCP slot also reports    *)
(* that the network is down.                                                *)
EXTENDS Integers, Sequences, FiniteSets

CONSTANTS
  TcpSlots, Tcp6Slots, IcmpSlots, Icmp6Slots,
                \* slots of the four sockets: numbers in the order of arming
  HasV6,        \* has_v6_targets
  Targets,      \* addresses with a queue in target_queues, target_queues6
  SqSize,       \* entries of the reader's submission queue
  MaxBatch,     \* MAX_BATCH: completions taken in one pass
  MaxPackets,   \* bound: packets that arrive
  CqMayOverflow \* the kernel may drop completions

VARIABLES
  open,         \* sockets that could be created
  sqpoll,       \* ctx->sqpoll_active: the kernel takes entries by itself
  pc,           \* the reader: "create", "start", "rearm", "wait", "batch",
                \* "wake", "overflow", "exited"; "failed" without a context
  place,        \* of the request of a slot: "none", "prep", "sq", "kernel", "done"
  armed,        \* slot_armed, slot6_armed, icmp_armed, icmpv6_armed
  pending,      \* pending_rearm (and pending_rearm_set)
  batch,        \* slots of the completions copied out and not yet handled
  woken,        \* woken_ips, woken_ips6
  wakes,        \* targets with a MSG_RING entry in the submission queue
  locked,       \* the reader holds idle_ring_mu
  idle_rings,   \* keys of idle_ring_fds, idle_ring_fds6
  inbox,        \* packets in the queue of a target
  worker,       \* the worker of a target: "off", "run", "wait", "leave"
  signals,      \* wake-up completions in the worker's ring
  skipped,      \* targets whose wake-up found the submission queue full
  arrived,      \* packets received (bounded by MaxPackets)
  koverflow,    \* completions the kernel dropped
  lost,         \* history: the slots they were of
  seen_overflow,\* dbg_cq_overflow_last
  stop          \* terminate_flag or reader_stop

slotVars == <<place, armed, pending, batch>>
wakeVars == <<woken, wakes, locked, signals, skipped>>
workerVars == <<idle_rings, inbox, worker>>
overflowVars == <<koverflow, seen_overflow, lost>>
ctxVars == <<open, sqpoll>>
vars == <<ctxVars, pc, slotVars, wakeVars, workerVars, arrived, overflowVars, stop>>

Slots == TcpSlots \union Tcp6Slots \union IcmpSlots \union Icmp6Slots
SlotsOf == [tcp |-> TcpSlots, tcp6 |-> Tcp6Slots, icmp |-> IcmpSlots, icmpv6 |-> Icmp6Slots]
\* Slots of the sockets that exist.
Live == UNION {SlotsOf[k] : k \in open}
Setup == {"create", "icmp", "ring", "failed"}

\* Entries of the submission queue in use, and the room left in it.
InSq(pl, w) == Cardinality({s \in Slots : pl[s] \in {"prep", "sq"}}) + Cardinality(w)
Room == SqSize - InSq(place, wakes)

\* The k smallest slots of a set: the order of the arming loops.
Lowest(S, k) == {s \in S : Cardinality({r \in S : r < s}) < k}
\* Slots the arming loops find no entry for.
Spare == Live \ Lowest(Live, SqSize)

Init ==
  /\ open = {} /\ sqpoll = FALSE /\ pc = "create"
  /\ place = [s \in Slots |-> "none"] /\ armed = [s \in Slots |-> FALSE]
  /\ pending = {} /\ batch = {} /\ woken = {} /\ wakes = {} /\ locked = FALSE
  /\ idle_rings = {} /\ inbox = [t \in Targets |-> 0]
  /\ worker = [t \in Targets |-> "off"] /\ signals = [t \in Targets |-> 0]
  /\ skipped = {} /\ arrived = 0 /\ koverflow = 0 /\ seen_overflow = 0 /\ lost = {}
  /\ stop = FALSE

\* init_global_recv_ctx: the TCP sockets.  Without the IPv4 socket there is no
\* context; the one of IPv6 is created for IPv6 targets and may be missing.
\* Filters and buffer sizes are data.
CreateTcpSockets ==
  /\ pc = "create"
  /\ \/ /\ open' \in {{"tcp"}} \union IF HasV6 THEN {{"tcp", "tcp6"}} ELSE {}
        /\ pc' = "icmp"
     \/ pc' = "failed" /\ UNCHANGED open
  /\ UNCHANGED <<sqpoll, slotVars, wakeVars, workerVars, arrived, overflowVars, stop>>

\* The ICMP sockets: each may be missing.
CreateIcmpSockets ==
  /\ pc = "icmp"
  /\ \E o \in SUBSET ({"icmp"} \union IF HasV6 THEN {"icmpv6"} ELSE {}) :
       open' = open \union o
  /\ pc' = "ring"
  /\ UNCHANGED <<sqpoll, slotVars, wakeVars, workerVars, arrived, overflowVars, stop>>

\* Then the ring, polled by a kernel thread if asked for and granted, and a
\* request in every slot while entries last.
CreateRing ==
  /\ pc = "ring"
  /\ \/ /\ sqpoll' \in BOOLEAN
        /\ LET first == Lowest(Live, SqSize) IN
             /\ armed' = [s \in Slots |-> s \in first]
             /\ place' = [s \in Slots |-> IF s \in first THEN "prep" ELSE "none"]
        /\ pc' = "start"
     \/ pc' = "failed" /\ UNCHANGED <<sqpoll, armed, place>>
  /\ UNCHANGED <<open, pending, batch, wakeVars, workerVars, arrived, overflowVars, stop>>

-----------------------------------------------------------------------------
(* The reader thread.                                                       *)

\* io_uring_submit: a plain ring hands everything to the kernel, a polled one
\* only makes it visible to the kernel's thread.
Submitted(pl) ==
  [s \in Slots |-> IF pl[s] = "prep" THEN (IF sqpoll THEN "sq" ELSE "kernel") ELSE pl[s]]
Deliver(w) == signals' = [t \in Targets |-> signals[t] + (IF t \in w THEN 1 ELSE 0)]

Start ==
  /\ pc = "start"
  /\ pc' = "rearm"
  /\ place' = Submitted(place)
  /\ UNCHANGED <<ctxVars, armed, pending, batch, wakeVars, workerVars, arrived, overflowVars, stop>>

\* The top of the loop: leave, or re-arm pending slots while entries last.
Rearm ==
  /\ pc = "rearm" /\ ~stop
  /\ \E now \in {r \in SUBSET pending :
                   Cardinality(r) = (IF Cardinality(pending) < Room
                                     THEN Cardinality(pending) ELSE Room)} :
       /\ place' = [s \in Slots |-> IF s \in now THEN "prep" ELSE place[s]]
       /\ armed' = [s \in Slots |-> armed[s] \/ s \in now]
       /\ pending' = pending \ now
  /\ pc' = "wait"
  /\ UNCHANGED <<ctxVars, batch, wakeVars, workerVars, arrived, overflowVars, stop>>

Exit ==
  /\ pc = "rearm" /\ stop
  /\ pc' = "exited"
  /\ UNCHANGED <<ctxVars, slotVars, wakeVars, workerVars, arrived, overflowVars, stop>>

\* io_uring_submit_and_wait_min_timeout: everything prepared is submitted
\* before the wait.
SubmitAndWait ==
  /\ pc = "wait" /\ \E s \in Slots : place[s] = "prep"
  /\ place' = Submitted(place)
  /\ UNCHANGED <<ctxVars, pc, armed, pending, batch, wakeVars, workerVars, arrived, overflowVars, stop>>

Prepared == \E s \in Slots : place[s] = "prep"
Done == {s \in Slots : place[s] = "done"}

\* Fault: the wait has no timeout.
WaitForever ==
  /\ pc = "wait" /\ ~Prepared /\ Done # {} /\ stop
  /\ pc' = "rearm"
  /\ UNCHANGED <<ctxVars, slotVars, wakeVars, workerVars, arrived, overflowVars, stop>>

\* No completion within 50 ms, or the call fails: the loop starts over.
WaitTimeout ==
  /\ pc = "wait" /\ ~Prepared /\ Done = {}
  /\ pc' = "rearm"
  /\ UNCHANGED <<ctxVars, slotVars, wakeVars, workerVars, arrived, overflowVars, stop>>

\* The completions that are there, up to MAX_BATCH, are copied out and
\* marked seen; the entries of acknowledged wake-ups are skipped.
TakeBatch ==
  /\ pc = "wait" /\ ~Prepared /\ Done # {}
  /\ \E b \in SUBSET Done :
       /\ Cardinality(b) = (IF Cardinality(Done) < MaxBatch THEN Cardinality(Done) ELSE MaxBatch)
       /\ batch' = b
       /\ place' = [s \in Slots |-> IF s \in b THEN "none" ELSE place[s]]
  /\ pc' = "batch"
  /\ UNCHANGED <<ctxVars, armed, pending, wakeVars, workerVars, arrived, overflowVars, stop>>

\* Fault: a slot that finds the submission queue full is forgotten.
RearmOrForget(s) ==
  LET fits == Room > 0 IN
  /\ place' = [place EXCEPT ![s] = IF fits THEN "prep" ELSE "none"]
  /\ armed' = [armed EXCEPT ![s] = fits]
  /\ UNCHANGED pending

\* The slot is armed again at once, or put on pending_rearm if no entry is
\* free.
RearmOrDefer(s) ==
  LET fits == Room > 0 IN
  /\ place' = [place EXCEPT ![s] = IF fits THEN "prep" ELSE "none"]
  /\ armed' = [armed EXCEPT ![s] = fits]
  /\ pending' = IF fits THEN pending ELSE pending \union {s}

\* Fault: the packet is queued but the target is not noted for a wake-up.
DispatchQuietly(s, t) ==
  /\ pc = "batch" /\ s \in batch
  /\ batch' = batch \ {s}
  /\ RearmOrDefer(s)
  /\ inbox' = [inbox EXCEPT ![t] = @ + 1]
  /\ UNCHANGED <<ctxVars, pc, wakeVars, idle_rings, worker, arrived, overflowVars, stop>>

\* A completion with a packet for target t, the source of a TCP segment or
\* the destination quoted in an ICMP error.
Dispatch(s, t) ==
  /\ pc = "batch" /\ s \in batch
  /\ batch' = batch \ {s}
  /\ RearmOrDefer(s)
  /\ inbox' = [inbox EXCEPT ![t] = @ + 1]
  /\ woken' = woken \union {t}
  /\ UNCHANGED <<ctxVars, pc, wakes, locked, signals, skipped, idle_rings, worker, arrived, overflowVars, stop>>

\* A packet of a stranger, too short, or an error result: nothing is queued.
DispatchNothing(s) ==
  /\ pc = "batch" /\ s \in batch
  /\ batch' = batch \ {s}
  /\ RearmOrDefer(s)
  /\ UNCHANGED <<ctxVars, pc, wakeVars, workerVars, arrived, overflowVars, stop>>

\* A TCP slot says that the network is down: the scan is terminated and the
\* rest of the batch is not handled.
DispatchNetworkDown(s) ==
  /\ pc = "batch" /\ s \in batch \cap (TcpSlots \union Tcp6Slots)
  /\ armed' = [armed EXCEPT ![s] = FALSE]
  /\ batch' = {}
  /\ stop' = TRUE
  /\ pc' = "wake"
  /\ UNCHANGED <<ctxVars, place, pending, wakeVars, workerVars, arrived, overflowVars>>

BatchEnds ==
  /\ pc = "batch" /\ batch = {}
  /\ pc' = "wake"
  /\ UNCHANGED <<ctxVars, slotVars, wakeVars, workerVars, arrived, overflowVars, stop>>

\* Under the shared lock of idle_ring_mu: a MSG_RING entry for every woken
\* target that has a ring, as long as entries last.
QueueWakes ==
  /\ pc = "wake" /\ ~locked /\ woken # {}
  /\ locked' = TRUE
  /\ \E w \in SUBSET (woken \cap idle_rings) :
       /\ Cardinality(w) = (IF Cardinality(woken \cap idle_rings) < Room
                            THEN Cardinality(woken \cap idle_rings) ELSE Room)
       /\ wakes' = wakes \union w
       /\ skipped' = skipped \union ((woken \cap idle_rings) \ w)
  /\ UNCHANGED <<ctxVars, pc, slotVars, woken, signals, workerVars, arrived, overflowVars, stop>>

\* Still under the lock: submit (which also submits re-armed slots), unlock.
SubmitWakes ==
  /\ pc = "wake" /\ locked
  /\ place' = IF wakes = {} THEN place ELSE Submitted(place)
  /\ IF sqpoll THEN UNCHANGED <<signals, wakes>> ELSE Deliver(wakes) /\ wakes' = {}
  /\ woken' = {} /\ locked' = FALSE
  /\ pc' = "overflow"
  /\ UNCHANGED <<ctxVars, armed, pending, batch, skipped, workerVars, arrived, overflowVars, stop>>

NothingToWake ==
  /\ pc = "wake" /\ ~locked /\ woken = {}
  /\ pc' = "overflow"
  /\ UNCHANGED <<ctxVars, slotVars, wakeVars, workerVars, arrived, overflowVars, stop>>

\* A rise of the overflow counter: slots that are not armed, those of missing
\* sockets included, are put on pending_rearm.  One whose completion was dropped
\* is still marked armed and is passed over.
CheckOverflow ==
  /\ pc = "overflow"
  /\ pending' = IF koverflow = seen_overflow THEN pending
                ELSE pending \union {s \in Slots : ~armed[s]}
  /\ seen_overflow' = koverflow
  /\ pc' = "rearm"
  /\ UNCHANGED <<ctxVars, place, armed, batch, wakeVars, workerVars, arrived, koverflow, lost,
                 stop>>

Reader == \/ CreateTcpSockets \/ CreateIcmpSockets \/ CreateRing \/ Start \/ Rearm \/ Exit \/ SubmitAndWait \/ WaitTimeout \/ TakeBatch
          \/ \E s \in Slots : \/ \E t \in Targets : Dispatch(s, t)
                              \/ DispatchNothing(s) \/ DispatchNetworkDown(s)
          \/ BatchEnds \/ QueueWakes \/ SubmitWakes \/ NothingToWake \/ CheckOverflow

-----------------------------------------------------------------------------
(* The kernel.                                                              *)

\* The polling thread takes an entry; a wake-up to a ring that is gone fails.
KernelTakes ==
  /\ sqpoll
  /\ \/ \E s \in Slots : /\ place[s] = "sq"
                         /\ place' = [place EXCEPT ![s] = "kernel"]
                         /\ UNCHANGED <<wakes, signals>>
     \/ \E t \in wakes : /\ pc # "wake" /\ wakes' = wakes \ {t}
                         /\ Deliver(IF worker[t] = "off" THEN {} ELSE {t})
                         /\ UNCHANGED place
  /\ UNCHANGED <<pc, armed, pending, batch, woken, locked, skipped, workerVars, arrived, overflowVars, stop, ctxVars>>

\* A request completes: a packet, or an error.
Arrival ==
  /\ arrived < MaxPackets
  /\ arrived' = arrived + 1
  /\ \E s \in Slots :
       /\ place[s] = "kernel"
       /\ \/ place' = [place EXCEPT ![s] = "done"] /\ UNCHANGED <<koverflow, lost>>
          \/ /\ CqMayOverflow
             /\ place' = [place EXCEPT ![s] = "none"]
             /\ koverflow' = koverflow + 1 /\ lost' = lost \union {s}
  /\ UNCHANGED <<ctxVars, pc, armed, pending, batch, wakeVars, workerVars, seen_overflow, stop>>

-----------------------------------------------------------------------------
(* The workers of the targets (worker_thread, receive_response).            *)

\* worker_thread creates its ring and registers it.
Register(t) ==
  /\ worker[t] = "off" /\ ~stop /\ ~locked /\ pc \notin Setup
  /\ worker' = [worker EXCEPT ![t] = "run"]
  /\ idle_rings' = idle_rings \union {t}
  /\ signals' = [signals EXCEPT ![t] = 0]
  /\ UNCHANGED <<ctxVars, pc, slotVars, woken, wakes, locked, skipped, inbox, arrived, overflowVars, stop>>

\* receive_response takes what is in its queue ...
Dequeue(t) ==
  /\ worker[t] = "run" /\ inbox[t] > 0
  /\ inbox' = [inbox EXCEPT ![t] = 0]
  /\ skipped' = skipped \ {t}
  /\ UNCHANGED <<ctxVars, pc, slotVars, woken, wakes, locked, signals, idle_rings, worker, arrived, overflowVars, stop>>

\* ... and waits on its ring when there is nothing,
Sleep(t) ==
  /\ worker[t] = "run" /\ inbox[t] = 0
  /\ worker' = [worker EXCEPT ![t] = "wait"]
  /\ UNCHANGED <<ctxVars, pc, slotVars, wakeVars, idle_rings, inbox, arrived, overflowVars, stop>>

\* until a wake-up, which it consumes, or its own deadline.
Woken(t) ==
  /\ worker[t] = "wait" /\ signals[t] > 0
  /\ worker' = [worker EXCEPT ![t] = "run"]
  /\ signals' = [signals EXCEPT ![t] = @ - 1]
  /\ UNCHANGED <<ctxVars, pc, slotVars, woken, wakes, locked, skipped, idle_rings, inbox, arrived, overflowVars, stop>>

Deadline(t) ==
  /\ worker[t] = "wait" /\ signals[t] = 0
  /\ worker' = [worker EXCEPT ![t] = "run"]
  /\ UNCHANGED <<ctxVars, pc, slotVars, wakeVars, idle_rings, inbox, arrived, overflowVars, stop>>

\* Fault: the ring is unregistered without taking idle_ring_mu.
UnregisterUnlocked(t) ==
  /\ worker[t] = "run"
  /\ worker' = [worker EXCEPT ![t] = "leave"]
  /\ idle_rings' = idle_rings \ {t}
  /\ UNCHANGED <<ctxVars, pc, slotVars, wakeVars, inbox, arrived, overflowVars, stop>>

\* ~IcmpIdleRingGuard: unregister under the lock, then destroy the ring.
Unregister(t) ==
  /\ worker[t] = "run" /\ ~locked
  /\ worker' = [worker EXCEPT ![t] = "leave"]
  /\ idle_rings' = idle_rings \ {t}
  /\ UNCHANGED <<ctxVars, pc, slotVars, wakeVars, inbox, arrived, overflowVars, stop>>

CloseRing(t) ==
  /\ worker[t] = "leave"
  /\ worker' = [worker EXCEPT ![t] = "off"]
  /\ UNCHANGED <<ctxVars, pc, slotVars, wakeVars, idle_rings, inbox, arrived, overflowVars, stop>>

\* ~GlobalRecvCtx after the workers are gone, or a signal at any time.
StopReader ==
  /\ ~stop
  /\ stop' = TRUE
  /\ UNCHANGED <<ctxVars, pc, slotVars, wakeVars, workerVars, arrived, overflowVars>>

Worker(t) == \/ Register(t) \/ Dequeue(t) \/ Sleep(t) \/ Woken(t) \/ Deadline(t)
             \/ Unregister(t) \/ CloseRing(t)

Next == \/ Reader \/ KernelTakes \/ Arrival \/ StopReader
        \/ \E t \in Targets : Worker(t)

Spec == Init /\ [][Next]_vars
FairSpec == Spec /\ WF_vars(Reader)

-----------------------------------------------------------------------------
(* Properties.                                                              *)

TypeOK ==
  /\ sqpoll \in BOOLEAN /\ stop \in BOOLEAN /\ locked \in BOOLEAN
  /\ place \in [Slots -> {"none", "prep", "sq", "kernel", "done"}]
  /\ armed \in [Slots -> BOOLEAN]
  /\ pending \subseteq Slots /\ batch \subseteq Slots
  /\ woken \subseteq Targets /\ wakes \subseteq Targets /\ idle_rings \subseteq Targets
  /\ worker \in [Targets -> {"off", "run", "wait", "leave"}]
  /\ inbox \in [Targets -> 0 .. MaxPackets] /\ skipped \subseteq Targets
  /\ InSq(place, wakes) <= SqSize

\* No slot is lost and none is armed twice: until the network is down, a slot
\* has a request in the ring, or is in the batch being handled, or waits on
\* pending_rearm, and only one of these; the armed flags say which.  The one
\* exception that lasts is a completion the kernel dropped: its slot is idle for
\* the rest of the scan, marked as armed; a slot for which the ring had no entry
\* at the start is idle until the first overflow is seen.
SlotsKept ==
  pc \notin Setup => \A s \in Live :
    \/ place[s] # "none" /\ armed[s] /\ s \notin pending /\ s \notin batch
    \/ place[s] = "none" /\ armed[s] /\ s \notin pending /\ s \in batch
    \/ place[s] = "none" /\ ~armed[s] /\ s \in pending /\ s \notin batch
    \/ place[s] = "none" /\ s \notin pending /\ stop
    \/ place[s] = "none" /\ armed[s] /\ s \notin pending /\ s \notin batch /\ s \in lost
    \/ place[s] = "none" /\ ~armed[s] /\ s \notin pending /\ s \in Spare /\ seen_overflow = 0

\* A worker that sleeps while its queue holds a packet has its wake-up coming
\* (the reader checks the queue and the registration after the worker checked
\* its queue), unless the submission queue had no entry for it.
NoMissedWake ==
  \A t \in Targets :
    worker[t] = "wait" /\ inbox[t] > 0 =>
      signals[t] > 0 \/ t \in woken \/ t \in wakes \/ t \in skipped

\* The reader never sends a wake-up to a ring that is gone: the entry leaves
\* the ring before the lock that unregister_idle_ring needs is released.
WakeHasRing ==
  ~sqpoll => \A t \in wakes : locked /\ worker[t] # "off"

=============================================================================
