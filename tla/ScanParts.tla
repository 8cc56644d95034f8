------------------------------ MODULE ScanParts ------------------------------
(***************************************************************************)
(* The threads of a port scan: the thread of main and thread_worker()      *)
(* (ScanRun), the sender of a batch (SendBatch), and the reader that feeds *)
(* the workers (RecvReader).  They meet in queues that PortScan models as  *)
(* lossy; apart from these they share only the stop flags, which any part  *)
(* may find raised at any moment.  A behaviour therefore follows one part  *)
(* while the others stay where they are.                                   *)
(***************************************************************************)
EXTENDS Integers, Sequences

CONSTANTS
    Ips, Lan, Self, V6, TargetsPerQueue, ArpBatchSize, MaxProbes, MaxOpen,
    PoolSize, Batches, MaxCalls, Window, RingCap, PeekMax, HasSock6,
    TcpSlots, Tcp6Slots, IcmpSlots, Icmp6Slots, HasV6, Targets, SqSize, MaxBatch,
    MaxPackets, CqMayOverflow

VARIABLES
    part,       \* the part that is followed
    phase, opts, ips, batch, cur, arpTodo, subnet, mac, down, downCount, answered,
    pinned, allResults, found, probing, fds, tracked, ctx, terminate,
    ring, sendPc, tasks, packets, frags, off, next, in_flight, pool, sq, kernel, cq,
    dropped, tally, calls, sendStop, disconnect,
    open, sqpoll, readPc, place, armed, pending, taken, woken, wakes, locked,
    idle_rings, inbox, worker, signals, skipped, arrived, koverflow, lost, seen_overflow,
    stop

runVars == <<phase, opts, ips, batch, cur, arpTodo, subnet, mac, down, downCount,
             answered, pinned, allResults, found, probing, fds, tracked, ctx,
             terminate>>
sendVars == <<ring, sendPc, tasks, packets, frags, off, next, in_flight, pool, sq,
              kernel, cq, dropped, tally, calls, sendStop, disconnect>>
recvVars == <<open, sqpoll, readPc, place, armed, pending, taken, woken, wakes,
              locked, idle_rings, inbox, worker, signals, skipped, arrived, koverflow,
              lost, seen_overflow, stop>>
vars == <<part, runVars, sendVars, recvVars>>

Run == INSTANCE ScanRun
Snd == INSTANCE SendBatch WITH pc <- sendPc, terminate <- sendStop
Rcv == INSTANCE RecvReader WITH pc <- readPc, batch <- taken

\* Sizes are numbers; the targets are without duplicates (add_unique_ip); slots are
\* numbered in the order in which they are armed.
ASSUME ScanPartsAssumption ==
    /\ Ips \in Seq(Run!Range(Ips)) /\ "none" \notin Run!Range(Ips)
    /\ \A i, j \in 1 .. Len(Ips) : Ips[i] = Ips[j] => i = j
    /\ TargetsPerQueue \in Nat \ {0} /\ ArpBatchSize \in Nat \ {0}
    /\ MaxProbes \in Nat \ {0} /\ MaxOpen \in Nat
    /\ PoolSize \in Nat /\ Window \in Nat /\ RingCap \in Nat /\ PeekMax \in Nat
    /\ Batches \subseteq Seq(Snd!Task)
    /\ Rcv!Slots \subseteq Nat /\ SqSize \in Nat
    /\ CqMayOverflow \in BOOLEAN /\ HasV6 \in BOOLEAN

Init ==
    /\ part \in {"run", "send", "receive"}
    /\ Run!Init /\ Snd!Init /\ Rcv!Init
    /\ part # "run" => opts = [f \in DOMAIN opts |-> f = "scan"]

OnlyRun == part = "run" /\ UNCHANGED <<part, sendVars, recvVars>>
OnlySend == part = "send" /\ UNCHANGED <<part, runVars, recvVars>>
OnlyReceive == part = "receive" /\ UNCHANGED <<part, runVars, sendVars>>

Next ==
    \/ OnlyRun /\ Run!Next
    \/ OnlySend /\ Snd!Next
    \/ OnlyReceive /\ Rcv!Next

\* The threads that are followed keep running, the kernel takes what the
\* sender submits, and a probe, bounded by its timeouts, ends.
Fairness ==
    /\ WF_vars(\/ OnlyRun /\ Run!Main
               \/ OnlySend /\ Snd!Caller
               \/ OnlyReceive /\ Rcv!Reader)
    /\ WF_vars(\/ OnlyRun /\ Run!ProbeEnds
               \/ OnlySend /\ Snd!Kernel)

Spec == Init /\ [][Next]_vars
FairSpec == Spec /\ Fairness

----------------------------------------------------------------------------
\* The buffers of send_tcp_packets' pool are each in one place, on every path.
BuffersAccounted == Snd!BuffersAccounted

\* Its count of requests in flight is what the ring holds, at most WINDOW.
InFlightExact == Snd!InFlightExact

\* The reader loses no receive slot but those whose completions the kernel dropped,
\* and arms none twice (recv_reader_thread_func).
SlotsKept == Rcv!SlotsKept

\* A worker that sleeps on a packet has a wake-up coming, and a wake-up is only
\* sent to a ring that is there (unregister_idle_ring).
WakeUpsReach == Rcv!NoMissedWake /\ Rcv!WakeHasRing

\* The hosts reported as down are counted once each and not scanned,
\* (thread_worker, counted_down_ips).
DownCountExact == Run!DownCountExact

\* all_results[k] holds the result of ips[k].
ResultsInPlace == Run!ResultsInPlace

\* No version probe outlives thread_worker's stay at its target, and never more
\* than kMaxConcurrentProbes run.
ProbesCollected == Run!ProbesCollected

\* No descriptor is closed twice, and none, no context and no pinned ARP entry
\* is left when the run is over.
NothingLeftBehind == Run!NothingLeftBehind

\* "Drain any ARP replies that arrived for real IPs in this batch"
\* (thread_worker): a host whose reply arrived is not reported as down.
AnsweredIsUp == Run!AnsweredIsUp

\* main, a call of send_tcp_packets, a reader that was told to stop (by its owner,
\* a signal or a dead network: the join in ~GlobalRecvCtx waits for it).
Ending ==
    \/ part = "run" /\ phase # "exited"
    \/ part = "send" /\ sendPc # "idle"
    \/ part = "receive" /\ stop /\ readPc \notin {"exited", "failed"}

\* Each of them comes to its end, whatever fails or is lost on the way.
PartsEnd == Ending ~> ~Ending
=============================================================================
