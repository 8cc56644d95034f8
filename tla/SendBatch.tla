---------------------------- MODULE SendBatch ----------------------------
(* send_tcp_packets: one call turns a batch of tasks into raw packets,      *)
(* queues them on the io_uring of the sender thread and reaps the           *)
(* completions.  Every packet, and every fragment of one, lives in a buffer *)
(* of the thread-local PacketBufferPool, which is drawn at the beginning    *)
(* and must be back when the call returns.  Buffers are interchangeable, so *)
(* the model counts them by the place they are in.                          *)
EXTENDS Integers, Sequences, FiniteSets

CONSTANTS
  PoolSize,      \* buffers of the pool (max_buffers)
  Batches,       \* the batches a caller may pass: sequences of tasks
  MaxCalls,      \* bound: calls of send_tcp_packets
  Window,        \* WINDOW: requests in flight at most
  RingCap,       \* entries of the submission queue
  PeekMax        \* completions taken by one io_uring_peek_batch_cqe

VARIABLES
  ring,          \* the send context: "unset", "none", "plain" or "sqpoll"
  pc,            \* where the call is; "idle" between two calls
  tasks,         \* the batch of the call
  packets,       \* indices whose packets[i] still holds a buffer
  frags,         \* all_batch_frags: original index of each buffered fragment
  off,           \* fragments already cut from the packet being fragmented
  next,          \* next_pkt, or frag_next in the fragment pipeline
  in_flight,     \* requests queued and not reaped, as the call counts them
  pool,          \* buffers in the pool
  sq, kernel, cq,\* buffers owned by prepared, submitted, completed requests
  dropped,       \* buffers of completions consumed without being read
  tally,         \* total_sent and TxLossCounters over all calls, with the
                 \* tasks handed in and the completions no counter gets
  calls,         \* calls made (bounded by MaxCalls)
  terminate,     \* terminate_flag
  disconnect     \* network_disconnect_flag

ioVars == <<sq, kernel, cq, dropped>>
workVars == <<tasks, packets, frags, off, next>>
flagVars == <<terminate, disconnect>>
vars == <<ring, pc, workVars, in_flight, pool, ioVars, tally, calls, flagVars>>

\* A task: IPv6 or not, and the number of fragments its packet is cut into
\* (0: frag_step is 0 and the packet is sent whole).
Task == [v6 : BOOLEAN, pieces : Nat]
Counters == {"total_sent", "buffer_pool", "build_fail", "kernel_reject",
             "drain_timeout", "no_socket", "aborted",
             "handed", "drained", "down"}

Count(c, n) == tally' = [tally EXCEPT ![c] = @ + n]

\* The sockets: the scan has an IPv6 raw socket or not (sock6 < 0).
CONSTANT HasSock6

Phase == IF pc \in {"fill6", "submit6", "reap6", "drain6", "end6"}
         THEN "frags" ELSE "packets"
At(p) == IF Phase = "frags"
         THEN [fill |-> "fill6", submit |-> "submit6", reap |-> "reap6",
               drain |-> "drain6", end |-> "end6"][p]
         ELSE p

Init ==
  /\ ring = "unset" /\ pc = "idle" /\ tasks = <<>> /\ packets = {}
  /\ frags = <<>> /\ off = 0 /\ next = 1 /\ in_flight = 0 /\ pool = PoolSize
  /\ sq = 0 /\ kernel = 0 /\ cq = 0 /\ dropped = 0
  /\ tally = [c \in Counters |-> 0] /\ calls = 0 /\ terminate = FALSE /\ disconnect = FALSE

\* init_global_send_ctx: a ring polled by a kernel thread when that is
\* granted, else a plain one; without either the context is a null pointer.
init_global_send_ctx ==
  /\ ring = "unset"
  /\ ring' \in {"sqpoll", "plain", "none"}
  /\ UNCHANGED <<pc, workVars, in_flight, pool, ioVars, tally, calls, flagVars>>

-----------------------------------------------------------------------------
(* Building the packets.                                                    *)

Call ==
  /\ ring # "unset" /\ pc = "idle" /\ calls < MaxCalls
  /\ \E b \in Batches : tasks' = b
  /\ pc' = IF tasks' = <<>> THEN "idle" ELSE "build"
  /\ calls' = calls + 1
  /\ Count("handed", Len(tasks'))
  /\ packets' = {} /\ frags' = <<>> /\ off' = 0 /\ next' = 1 /\ in_flight' = 0
  /\ UNCHANGED <<ring, pool, ioVars, flagVars>>

\* One packet: acquire a buffer, build the packet in it.
Build ==
  /\ pc = "build" /\ next <= Len(tasks) /\ pool > 0
  /\ pool' = pool - 1
  /\ packets' = packets \union {next}
  /\ next' = next + 1
  /\ UNCHANGED <<ring, pc, tasks, frags, off, in_flight, ioVars, tally, calls, flagVars>>

\* Fault: with an empty pool the caller waits for a buffer.
BuildFailsOrWaits ==
  /\ pc = "build" /\ next <= Len(tasks) /\ pool > 0
  /\ Count("build_fail", Len(tasks))
  /\ pool' = pool + Cardinality(packets)
  /\ packets' = {}
  /\ pc' = "idle"
  /\ UNCHANGED <<ring, tasks, frags, off, next, in_flight, ioVars, calls, flagVars>>

\* The pool is empty, or build_packet rejects the task: what was built so far
\* is released and the whole batch is lost.
BuildFails ==
  /\ pc = "build" /\ next <= Len(tasks)
  /\ Count(IF pool = 0 THEN "buffer_pool" ELSE "build_fail", Len(tasks))
  /\ pool' = pool + Cardinality(packets)
  /\ packets' = {}
  /\ pc' = "idle"
  /\ UNCHANGED <<ring, tasks, frags, off, next, in_flight, ioVars, calls, flagVars>>

AllBuilt ==
  /\ pc = "build" /\ next > Len(tasks)
  /\ pc' = "cut" /\ next' = 1
  /\ UNCHANGED <<ring, tasks, packets, frags, off, in_flight, pool, ioVars, tally, calls, flagVars>>

-----------------------------------------------------------------------------
(* Cutting packets into fragments, one fragment at a time.                  *)

Cutting == pc = "cut" /\ next <= Len(tasks) /\ tasks[next].pieces > 0

SkipWhole ==
  /\ pc = "cut" /\ next <= Len(tasks) /\ tasks[next].pieces = 0
  /\ next' = next + 1
  /\ UNCHANGED <<ring, pc, tasks, packets, frags, off, in_flight, pool, ioVars, tally, calls, flagVars>>

Cut ==
  /\ Cutting /\ off < tasks[next].pieces /\ ~terminate /\ pool > 0
  /\ frags' = Append(frags, next)
  /\ pool' = pool - 1
  /\ off' = off + 1
  /\ UNCHANGED <<ring, pc, tasks, packets, next, in_flight, ioVars, tally, calls, flagVars>>

\* The packet is cut, or the scan is being terminated: the original buffer
\* is released.
CutDone ==
  /\ Cutting /\ (off = tasks[next].pieces \/ terminate)
  /\ pool' = pool + 1
  /\ packets' = packets \ {next}
  /\ next' = next + 1 /\ off' = 0
  /\ UNCHANGED <<ring, pc, tasks, frags, in_flight, ioVars, tally, calls, flagVars>>

\* Fault: the fragments already cut from the packet are not released.
CutFailsLeaks ==
  /\ Cutting /\ off < tasks[next].pieces /\ ~terminate /\ pool = 0
  /\ frags' = SubSeq(frags, 1, Len(frags) - off)
  /\ pool' = pool + 1
  /\ packets' = packets \ {next}
  /\ Count("buffer_pool", 1)
  /\ next' = next + 1 /\ off' = 0
  /\ UNCHANGED <<ring, pc, tasks, in_flight, ioVars, calls, flagVars>>

\* The pool runs dry: the fragments of this packet are released with it.
CutFails ==
  /\ Cutting /\ off < tasks[next].pieces /\ ~terminate /\ pool = 0
  /\ frags' = SubSeq(frags, 1, Len(frags) - off)
  /\ pool' = pool + 1 + off
  /\ packets' = packets \ {next}
  /\ Count("buffer_pool", 1)
  /\ next' = next + 1 /\ off' = 0
  /\ UNCHANGED <<ring, pc, tasks, in_flight, ioVars, calls, flagVars>>

AllCut ==
  /\ pc = "cut" /\ next > Len(tasks)
  /\ pc' = CASE ring = "none" -> "noring"
             [] terminate     -> "drain"
             [] OTHER         -> "fill"
  /\ next' = 1
  /\ UNCHANGED <<ring, tasks, packets, frags, off, in_flight, pool, ioVars, tally, calls, flagVars>>

\* Without a ring every buffer is released and every packet aborted.
NoRing ==
  /\ pc = "noring"
  /\ Count("aborted", Cardinality(packets) + Len(frags))
  /\ pool' = pool + Cardinality(packets) + Len(frags)
  /\ packets' = {} /\ frags' = <<>>
  /\ pc' = "idle"
  /\ UNCHANGED <<ring, tasks, off, next, in_flight, ioVars, calls, flagVars>>

-----------------------------------------------------------------------------
(* The pipeline: fill the submission queue, submit, reap; once for whole    *)
(* packets and once for fragments (pc ending in 6).                         *)

WorkLen == IF Phase = "frags" THEN Len(frags) ELSE Len(tasks)
Filling == /\ pc = At("fill") /\ ~terminate
           /\ next <= WorkLen /\ in_flight < Window
\* The task that the entry `next` of the work list belongs to.
Origin == IF Phase = "frags" THEN frags[next] ELSE next
NoSocket == tasks[Origin].v6 /\ ~HasSock6
Present == Phase = "frags" \/ next \in packets
\* The entry's buffer leaves packets[] or the fragment list.
TakeEntry == /\ packets' = packets \ (IF Phase = "frags" THEN {} ELSE {next})
             /\ next' = next + 1

FillSkip ==
  /\ Filling /\ ~Present
  /\ next' = next + 1
  /\ UNCHANGED <<ring, pc, tasks, packets, frags, off, in_flight, pool, ioVars, tally, calls, flagVars>>

FillNoSocket ==
  /\ Filling /\ Present /\ NoSocket
  /\ TakeEntry
  /\ pool' = pool + 1
  /\ Count("no_socket", 1)
  /\ UNCHANGED <<ring, pc, tasks, frags, off, in_flight, ioVars, calls, flagVars>>

Queue ==
  /\ Filling /\ Present /\ ~NoSocket /\ sq < RingCap
  /\ TakeEntry
  /\ sq' = sq + 1 /\ in_flight' = in_flight + 1
  /\ UNCHANGED <<ring, pc, tasks, frags, off, pool, kernel, cq, dropped, tally, calls, flagVars>>

\* The fill loop ends: nothing left, window full, submission queue full, or
\* the scan is terminated.
FillEnds ==
  /\ pc = At("fill")
  /\ \/ terminate \/ next > WorkLen \/ in_flight >= Window
     \/ Filling /\ Present /\ ~NoSocket /\ sq >= RingCap
  /\ pc' = At("submit")
  /\ UNCHANGED <<ring, workVars, in_flight, pool, ioVars, tally, calls, flagVars>>

\* io_uring_submit, or io_uring_submit_and_wait_timeout when the window is
\* full (its wait only passes time); nothing is called when nothing is ready.
Submit ==
  /\ pc = At("submit")
  /\ kernel' = kernel + sq /\ sq' = 0
  /\ pc' = At("reap")
  /\ UNCHANGED <<ring, workVars, in_flight, pool, cq, dropped, tally, calls, flagVars>>

\* A submission that fails ends the pipeline; the prepared requests stay.
SubmitFails ==
  /\ pc = At("submit") /\ (sq > 0 \/ in_flight >= Window)
  /\ pc' = At("drain")
  /\ UNCHANGED <<ring, workVars, in_flight, pool, ioVars, tally, calls, flagVars>>

Peeked == IF cq < PeekMax THEN cq ELSE PeekMax

\* Fault: a peeked batch counts as one completion.
ReapCountsOne ==
  /\ pc = At("reap") /\ in_flight > 0 /\ ~terminate /\ cq > 0
  /\ \E rejected \in 0 .. Peeked :
       tally' = [tally EXCEPT !.total_sent = @ + Peeked - rejected,
                              !.kernel_reject = @ + rejected]
  /\ cq' = cq - Peeked
  /\ pool' = pool + Peeked /\ in_flight' = in_flight - 1
  /\ UNCHANGED <<ring, pc, workVars, sq, kernel, dropped, calls, flagVars>>

\* reap_cqes: a peeked batch, every completion read and its buffer released.
Reap ==
  /\ pc = At("reap") /\ in_flight > 0 /\ ~terminate /\ cq > 0
  /\ \E rejected \in 0 .. Peeked :
       tally' = [tally EXCEPT !.total_sent = @ + Peeked - rejected,
                              !.kernel_reject = @ + rejected]
  /\ cq' = cq - Peeked
  /\ pool' = pool + Peeked /\ in_flight' = in_flight - Peeked
  /\ UNCHANGED <<ring, pc, workVars, sq, kernel, dropped, calls, flagVars>>

\* The same when completion k says that the network is down: the scan is
\* terminated, the rest of the peeked batch is consumed unread.
ReapNetworkDown ==
  /\ pc = At("reap") /\ in_flight > 0 /\ ~terminate /\ cq > 0
  /\ \E k \in 1 .. Peeked :
       /\ \E rejected \in 0 .. k - 1 :
            tally' = [tally EXCEPT !.total_sent = @ + k - 1 - rejected,
                                   !.kernel_reject = @ + rejected,
                                   !.down = @ + 1]
       /\ pool' = pool + k /\ in_flight' = in_flight - k
       /\ dropped' = dropped + Peeked - k
  /\ cq' = cq - Peeked
  /\ terminate' = TRUE /\ disconnect' = TRUE
  /\ UNCHANGED <<ring, pc, workVars, sq, kernel, calls>>

\* Nothing (more) to reap: the pipeline loop tests its condition again.
ReapEnds ==
  /\ pc = At("reap") /\ (in_flight <= 0 \/ terminate \/ cq = 0)
  /\ pc' = IF (next <= WorkLen \/ in_flight > 0) /\ ~terminate
           THEN At("fill") ELSE At("drain")
  /\ UNCHANGED <<ring, workVars, in_flight, pool, ioVars, tally, calls, flagVars>>

-----------------------------------------------------------------------------
(* The hard drain and the end of a pipeline.                                *)

\* One completion is waited for and its buffer released; its result is not
\* read ("drained").
Drain ==
  /\ pc = At("drain") /\ in_flight > 0 /\ cq > 0
  /\ cq' = cq - 1 /\ pool' = pool + 1 /\ in_flight' = in_flight - 1
  /\ Count("drained", 1)
  /\ UNCHANGED <<ring, pc, workVars, sq, kernel, dropped, calls, flagVars>>

\* Fault: a timeout does not end the drain.
DrainTimeoutGoesOn ==
  /\ pc = At("drain") /\ in_flight > 0 /\ cq = 0
  /\ Count("drain_timeout", 0)
  /\ UNCHANGED <<ring, pc, workVars, in_flight, pool, ioVars, calls, flagVars>>

\* No completion within 200 ms: what is in flight is counted as lost and the
\* drain stops, in_flight keeping its value.
DrainTimeout ==
  /\ pc = At("drain") /\ in_flight > 0 /\ cq = 0
  /\ Count("drain_timeout", in_flight)
  /\ pc' = At("end")
  /\ UNCHANGED <<ring, workVars, in_flight, pool, ioVars, calls, flagVars>>

DrainEnds ==
  /\ pc = At("drain") /\ in_flight <= 0
  /\ pc' = At("end")
  /\ UNCHANGED <<ring, workVars, in_flight, pool, ioVars, tally, calls, flagVars>>

\* After the packets: those never queued are released; then the fragments.
PacketsEnd ==
  /\ pc = "end"
  /\ Count("aborted", Cardinality(packets))
  /\ pool' = pool + Cardinality(packets)
  /\ packets' = {}
  /\ next' = 1
  /\ pc' = IF frags = <<>> THEN "idle"
           ELSE IF terminate THEN "drain6" ELSE "fill6"
  /\ UNCHANGED <<ring, tasks, frags, off, in_flight, ioVars, calls, flagVars>>

FragsEnd ==
  /\ pc = "end6"
  /\ Count("aborted", Len(frags) - (next - 1))
  /\ pool' = pool + Len(frags) - (next - 1)
  /\ frags' = <<>>
  /\ pc' = "idle"
  /\ UNCHANGED <<ring, tasks, packets, off, next, in_flight, ioVars, calls, flagVars>>

-----------------------------------------------------------------------------
(* The kernel and the user.                                                 *)

\* The kernel completes a request.
Kernel ==
  /\ kernel > 0
  /\ kernel' = kernel - 1 /\ cq' = cq + 1
  /\ UNCHANGED <<ring, pc, workVars, in_flight, pool, sq, dropped, tally, calls, flagVars>>

\* terminate_flag is raised from outside (signal_handler, another thread).
Terminate ==
  /\ pc # "idle" /\ ~terminate
  /\ terminate' = TRUE
  /\ UNCHANGED <<ring, pc, workVars, in_flight, pool, ioVars, tally, calls, disconnect>>

Caller == \/ Build \/ BuildFails \/ AllBuilt
          \/ SkipWhole \/ Cut \/ CutDone \/ CutFails \/ AllCut \/ NoRing
          \/ FillSkip \/ FillNoSocket \/ Queue \/ FillEnds
          \/ Submit \/ SubmitFails \/ Reap \/ ReapNetworkDown \/ ReapEnds
          \/ Drain \/ DrainTimeout \/ DrainEnds \/ PacketsEnd \/ FragsEnd

Next == init_global_send_ctx \/ Call \/ Caller \/ Kernel \/ Terminate

Spec == Init /\ [][Next]_vars
FairSpec == Spec /\ WF_vars(Caller) /\ WF_vars(Kernel)

-----------------------------------------------------------------------------
(* Properties.                                                              *)

FragsHeld == IF Phase = "frags" THEN Len(frags) - (next - 1) ELSE Len(frags)
Outstanding == sq + kernel + cq

TypeOK ==
  /\ ring \in {"unset", "none", "plain", "sqpoll"}
  /\ tasks \in Seq(Task) /\ packets \subseteq 1 .. Len(tasks)
  /\ \A i \in 1 .. Len(frags) : frags[i] \in 1 .. Len(tasks)
  /\ in_flight \in Int
  /\ {pool, sq, kernel, cq, dropped} \subseteq 0 .. PoolSize
  /\ tally \in [Counters -> Nat] /\ calls \in 0 .. MaxCalls
  /\ {terminate, disconnect} \subseteq BOOLEAN

\* Every buffer of the pool is in exactly one place, on every path through
\* the call: none is released twice and none is forgotten.  Only completions
\* consumed unread when the network goes down lose theirs, and as long as no
\* drain timed out and the network stayed up a call gives all of them back.
BuffersAccounted ==
  /\ pool + Cardinality(packets) + FragsHeld + Outstanding + dropped = PoolSize
  /\ dropped > 0 => disconnect
  /\ pc = "idle" /\ tally.drain_timeout = 0 /\ ~disconnect => pool = PoolSize

\* Until a drain has timed out, the count of requests in flight is what the
\* ring really holds (a request that a late completion of another call hides
\* would overwrite its message), so the ring never holds more than WINDOW.
InFlightExact ==
  tally.drain_timeout = 0 /\ pc # "idle" =>
    /\ in_flight = Outstanding + dropped
    /\ Outstanding <= Window

\* scan.hpp: "Every path in send_tcp_packets() that destroys a packet
\* increments exactly one of these."  For batches of whole packets: what was
\* handed in is sent, reaped by the hard drain, or in one loss counter.
LossCountedOnce ==
  pc = "idle" =>
    tally.handed = tally.total_sent + tally.drained
                   + tally.buffer_pool + tally.build_fail + tally.kernel_reject
                   + tally.drain_timeout + tally.no_socket + tally.aborted
=============================================================================
