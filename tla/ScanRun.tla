------------------------------ MODULE ScanRun ------------------------------
(***************************************************************************)
(* A scan as main() runs it once it has targets and ports: the raw send    *)
(* sockets, host discovery, the ping filter, the batches of targets with   *)
(* the shared receive and send contexts, thread_worker() on a batch (ARP   *)
(* or a pinned MAC, the targets one by one, the version probes of a        *)
(* target), and emergency_cleanup().  SIGINT may arrive at any moment.     *)
(* What the ports of a target do is the business of TargetScan.            *)
(***************************************************************************)
EXTENDS Integers, Sequences, FiniteSets, SequencesExt

CONSTANTS
    Ips,              \* the targets, a sequence without duplicates
    Lan, Self, V6,    \* same subnet (v4), this machine's own address, IPv6
    TargetsPerQueue,  \* TARGETS_PER_QUEUE (1000 in the code)
    ArpBatchSize,     \* ARP_BATCH_SIZE (63 in the code)
    MaxProbes,        \* kMaxConcurrentProbes (16 in the code)
    MaxOpen           \* bound: open ports of a target

VARIABLES
    phase,      \* where main or thread_worker is
    opts,       \* the flags that steer the run
    ips,        \* targets still to be scanned
    batch,      \* number of targets in the batches that are over
    cur,        \* index of the target thread_worker is at, within the batch
    arpTodo,    \* same_subnet_target_ips not asked for yet
    subnet,     \* same_subnet_ip_ints
    mac,        \* hosts with a MAC address in their result or the -sn cache
    down,       \* hosts counted as down, by the ping or by ARP
    downCount,  \* total_down_hosts
    answered,   \* hosts whose ARP reply reached the socket
    pinned,     \* statically_arped_ips
    allResults, \* all_results: slot -> the host whose result it holds
    found,      \* the hosts of the batch whose result is filled in: slot -> host
    probing,    \* version probes of the target: ports left, futures held, alive
    fds,        \* raw sockets that are open
    tracked,    \* global_raw_sockets
    ctx,        \* contexts alive: a subset of {"recv", "send"}
    terminate   \* terminate_flag

vars == <<phase, opts, ips, batch, cur, arpTodo, subnet, mac, down, downCount,
          answered, pinned, allResults, found, probing, fds, tracked, ctx,
          terminate>>

Flags == [sn : BOOLEAN, scan : BOOLEAN, trace : BOOLEAN, pn : BOOLEAN,
          dstMac : BOOLEAN, sv : BOOLEAN]

\* Runs main accepts: -sn or --traceroute may come without a scan type (with
\* one, the traceroute is part of what Summary stands for).
Accepted(o) ==
    /\ o.scan => ~o.trace
    /\ ~o.scan => /\ o.trace \/ (o.sn /\ ~o.pn)
                 /\ ~o.dstMac /\ ~o.sv

\* The descriptors of the two send sockets.
Send == <<"send", 4>>
Send6 == <<"send", 6>>

Idle == [todo |-> 0, inflight |-> 0, running |-> 0]

Init ==
    /\ phase = "sockets" /\ ips = Ips /\ batch = 0 /\ cur = 1
    /\ opts \in {o \in Flags : Accepted(o)}
    /\ arpTodo = <<>> /\ subnet = {} /\ mac = {} /\ down = {} /\ downCount = 0
    /\ answered = {} /\ pinned = {} /\ allResults = <<>> /\ found = <<>>
    /\ probing = Idle /\ fds = {} /\ tracked = {} /\ ctx = {}
    /\ terminate = FALSE

\* Groups of variables: the plan of the run, what is known of the hosts,
\* thread_worker's own state, and descriptors.
plan == <<opts, ips, batch, allResults>>
hosts == <<mac, down, downCount, answered>>
worker == <<cur, arpTodo, subnet, pinned, found, probing>>
io == <<fds, tracked, ctx>>

\* What a filtering loop leaves of a sequence: the elements that are in S, in their
\* order, so that the one at place k is the k-th of them.
Only(s, S) ==
    LET I == {i \in DOMAIN s : s[i] \in S}
    IN  [k \in 1..Cardinality(I) |->
            s[CHOOSE i \in I : Cardinality({j \in I : j <= i}) = k]]

BatchEnd == IF batch + TargetsPerQueue <= Len(ips) THEN batch + TargetsPerQueue
            ELSE Len(ips)
BatchIps == SubSeq(ips, batch + 1, BatchEnd)

----------------------------------------------------------------------------
\* The sockets and the options that need them.

\* socket() or setsockopt() fails: the run ends before anything else is open.
NoSendSocket ==
    /\ phase = "sockets"
    /\ phase' = "exited"
    /\ UNCHANGED <<plan, hosts, worker, io, terminate>>

OpenSendSocket ==
    /\ phase = "sockets"
    /\ fds' = {Send} /\ tracked' = {Send}
    /\ phase' = "options"
    /\ UNCHANGED <<plan, hosts, worker, ctx, terminate>>

\* An option that does not fit the targets: close(send_sock), return 1.
RejectOptions ==
    /\ phase = "options"
    /\ fds' = fds \ {Send}
    /\ phase' = "exited"
    /\ UNCHANGED <<plan, hosts, worker, tracked, ctx, terminate>>

Has6 == \E k \in 1..Len(Ips) : Ips[k] \in V6

\* Fault: the IPv6 socket is tracked before its options are known to hold.
OpenSendSocket6TracksAll ==
    /\ phase = "options"
    /\ \E ok \in IF Has6 THEN BOOLEAN ELSE {FALSE} :
          fds' = IF ok THEN fds \cup {Send6} ELSE fds
    /\ tracked' = IF Has6 THEN tracked \cup {Send6} ELSE tracked
    /\ phase' = "discovery"
    /\ UNCHANGED <<plan, hosts, worker, ctx, terminate>>

\* The IPv6 socket is closed again when an option fails, and the run goes on
\* without it; only the one that works is tracked.
OpenSendSocket6 ==
    /\ phase = "options"
    /\ \E ok \in IF Has6 THEN BOOLEAN ELSE {FALSE} :
          /\ fds' = IF ok THEN fds \cup {Send6} ELSE fds
          /\ tracked' = IF ok THEN tracked \cup {Send6} ELSE tracked
    /\ phase' = "discovery"
    /\ UNCHANGED <<plan, hosts, worker, ctx, terminate>>

\* close_send_sockets and return.
CloseSendSockets ==
    /\ fds' = fds \ {Send, Send6} /\ tracked' = tracked \ {Send, Send6}
    /\ phase' = "exited"

----------------------------------------------------------------------------
\* Host discovery, traceroute on its own, and the ping filter.

\* -sn: only the hosts that answered are scanned, with the MACs it learned.
Discover ==
    /\ phase = "discovery" /\ opts.sn
    /\ \E alive \in SUBSET Range(ips) :
        \E macs \in SUBSET (alive \cap Lan) :
          /\ ips' = Only(ips, alive)
          /\ mac' = macs
          /\ IF opts.scan /\ alive # {}
             THEN phase' = "trace" /\ UNCHANGED <<fds, tracked>>
             ELSE CloseSendSockets
    /\ UNCHANGED <<worker, opts, batch, down, downCount, answered, allResults, ctx, terminate>>

NoDiscovery ==
    /\ phase = "discovery" /\ ~opts.sn
    /\ phase' = "trace"
    /\ UNCHANGED <<plan, hosts, worker, io, terminate>>

\* --traceroute without a scan type: trace (or refuse -Pn and -p) and leave.
TraceOnly ==
    /\ phase = "trace" /\ opts.trace /\ ~opts.scan
    /\ CloseSendSockets
    /\ UNCHANGED <<plan, hosts, worker, ctx, terminate>>

SkipPing ==
    /\ phase = "trace" /\ opts.scan /\ opts.pn
    /\ phase' = "batches"
    /\ allResults' = [k \in 1..Len(ips) |-> "none"]
    /\ UNCHANGED <<hosts, worker, io, opts, ips, batch, terminate>>

\* Every IPv4 target that is not on the local subnet is pinged; the ones that
\* do not answer, or are unreachable, are dropped.
Ping ==
    /\ phase = "trace" /\ opts.scan /\ ~opts.pn
    /\ \E sameNet \in BOOLEAN :
        LET external == {h \in Range(ips) : h \notin V6 /\ ~(sameNet /\ h \in Lan)} IN
        \E dead \in SUBSET external :
          /\ ips' = Only(ips, Range(ips) \ dead)
          /\ down' = down \cup dead
          /\ downCount' = downCount + Cardinality(dead)
    /\ IF ips' = <<>>
       THEN CloseSendSockets /\ UNCHANGED allResults
       ELSE /\ phase' = "batches"
            /\ allResults' = [k \in 1..Len(ips') |-> "none"]
            /\ UNCHANGED <<fds, tracked>>
    /\ UNCHANGED <<worker, opts, batch, mac, answered, ctx, terminate>>

----------------------------------------------------------------------------
\* The batches of targets.

RecvSocks == {<<"tcp", batch>>, <<"icmp", batch>>}

StartBatch ==
    /\ phase = "batches" /\ batch < Len(ips) /\ ~terminate
    /\ fds' = fds \cup RecvSocks /\ tracked' = tracked \cup RecvSocks
    /\ ctx' = {"recv", "send"}
    /\ found' = [k \in 1..Len(BatchIps) |-> "none"]
    /\ phase' = "arp" /\ cur' = 1
    /\ UNCHANGED <<plan, hosts, arpTodo, subnet, pinned, probing, terminate>>

\* A context cannot be made: the batch is skipped, its sockets stay tracked.
SkipBatch ==
    /\ phase = "batches" /\ batch < Len(ips) /\ ~terminate
    /\ \E s \in SUBSET RecvSocks : fds' = fds \cup s /\ tracked' = tracked \cup s
    /\ batch' = BatchEnd
    /\ UNCHANGED <<phase, hosts, worker, opts, ips, allResults, ctx, terminate>>

----------------------------------------------------------------------------
\* thread_worker.

\* The targets on the local subnet, unless -sn has already resolved them or
\* the interface is unknown (IPv6 first target, no route).
FindSubnet ==
    /\ phase = "arp"
    /\ \E init \in IF BatchIps[1] \in V6 THEN {FALSE} ELSE BOOLEAN :
        LET near == Only(BatchIps, IF init THEN Lan \ mac ELSE {}) IN
          /\ subnet' = Range(near)
          /\ IF opts.dstMac
             THEN /\ arpTodo' = <<>>
                  /\ mac' = mac \cup Range(near)
                  /\ pinned' \in SUBSET Range(near)
             ELSE arpTodo' = near /\ UNCHANGED <<mac, pinned>>
    /\ phase' = "resolve"
    /\ UNCHANGED <<plan, io, cur, down, downCount, answered, found, probing, terminate>>

ArpBatch == SubSeq(arpTodo, 1, IF Len(arpTodo) < ArpBatchSize THEN Len(arpTodo)
                               ELSE ArpBatchSize)

\* Fault: a host that is down is counted again by every batch.
ResolveRecounts ==
    /\ phase = "resolve" /\ arpTodo # <<>>
    /\ \E replied \in SUBSET (Range(ArpBatch) \ {Self}) :
        LET silent == Range(ArpBatch) \ replied IN
          /\ answered' = answered \cup replied
          /\ mac' = mac \cup replied
          /\ down' = down \cup silent
          /\ downCount' = downCount + Cardinality(down \cup silent)
    /\ arpTodo' = SubSeq(arpTodo, Len(ArpBatch) + 1, Len(arpTodo))
    /\ UNCHANGED <<phase, plan, io, cur, subnet, pinned, found, probing, terminate>>

\* One ARP batch.  When the machine's own address is in it the replies are not
\* read: only the own address is resolved, every other host counts as down.
Resolve ==
    /\ phase = "resolve" /\ arpTodo # <<>>
    /\ \E replied \in SUBSET (Range(ArpBatch) \ {Self}) :
        LET resolved == IF Self \in Range(ArpBatch) THEN {Self} ELSE replied
            silent   == Range(ArpBatch) \ resolved IN
          /\ answered' = answered \cup replied
          /\ mac' = mac \cup resolved
          /\ down' = down \cup silent
          /\ downCount' = downCount + Cardinality(silent)
    /\ arpTodo' = SubSeq(arpTodo, Len(ArpBatch) + 1, Len(arpTodo))
    /\ UNCHANGED <<phase, plan, io, cur, subnet, pinned, found, probing, terminate>>

\* The requests of the batch cannot be sent: its hosts stay without a MAC.
ResolveFails ==
    /\ phase = "resolve" /\ arpTodo # <<>>
    /\ arpTodo' = SubSeq(arpTodo, Len(ArpBatch) + 1, Len(arpTodo))
    /\ UNCHANGED <<phase, plan, hosts, io, cur, subnet, pinned, found, probing, terminate>>

Resolved ==
    /\ phase = "resolve" /\ arpTodo = <<>>
    /\ phase' = "target"
    /\ UNCHANGED <<plan, hosts, worker, io, terminate>>

AtTarget == phase = "target" /\ cur <= Len(BatchIps) /\ ~terminate

\* No route to the target, counted down, or on the subnet without a MAC.
SkipTarget ==
    /\ AtTarget
    /\ cur' = cur + 1
    /\ UNCHANGED <<phase, plan, hosts, io, arpTodo, subnet, pinned, found, probing, terminate>>

\* worker_thread: the ports of the target are scanned and the result filled in.
ScanTarget ==
    /\ AtTarget
    /\ BatchIps[cur] \notin down
    /\ BatchIps[cur] \in subnet => BatchIps[cur] \in mac
    /\ found' = [found EXCEPT ![cur] = BatchIps[cur]]
    /\ phase' = "report"
    /\ UNCHANGED <<plan, hosts, io, cur, arpTodo, subnet, pinned, probing, terminate>>

\* The result is printed; with -sV the open ports are probed.
Report ==
    /\ phase = "report"
    /\ \/ /\ opts.sv /\ ~terminate
          /\ \E open \in 1..MaxOpen :
                probing' = [Idle EXCEPT !.todo = open]
          /\ phase' = "probe" /\ cur' = cur
       \/ /\ phase' = "target" /\ cur' = cur + 1
          /\ UNCHANGED probing
    /\ UNCHANGED <<plan, hosts, io, arpTodo, subnet, pinned, found, terminate>>

LaunchProbe ==
    /\ phase = "probe" /\ probing.inflight < MaxProbes /\ ~terminate
    /\ probing.todo > 0
    /\ probing' = [probing EXCEPT !.todo = @ - 1, !.inflight = @ + 1,
                                  !.running = @ + 1]
    /\ UNCHANGED <<phase, plan, hosts, io, cur, arpTodo, subnet, pinned, found, terminate>>

\* A probe of the target, a thread of its own, finishes (or throws, or sees the
\* interrupt before it starts).
ProbeEnds ==
    /\ probing.running > 0
    /\ probing' = [probing EXCEPT !.running = @ - 1]
    /\ UNCHANGED <<phase, plan, hosts, io, cur, arpTodo, subnet, pinned, found, terminate>>

\* The loop over the ports is over.
ProbesOver == probing.todo = 0 \/ terminate

\* Fault: on an interrupt the futures are dropped without being waited for.
CollectProbesDrops ==
    /\ phase = "probe" /\ (probing.inflight >= MaxProbes \/ ProbesOver)
    /\ probing.running = 0 \/ terminate
    /\ probing' = [probing EXCEPT !.inflight = 0]
    /\ IF ProbesOver THEN phase' = "target" /\ cur' = cur + 1
       ELSE UNCHANGED <<phase, cur>>
    /\ UNCHANGED <<plan, hosts, io, arpTodo, subnet, pinned, found, terminate>>

\* f.get() on every future in flight, when there are kMaxConcurrentProbes of
\* them and when no more are started.
CollectProbes ==
    /\ phase = "probe" /\ (probing.inflight >= MaxProbes \/ ProbesOver)
    /\ probing.running = 0
    /\ probing' = [probing EXCEPT !.inflight = 0]
    /\ IF ProbesOver THEN phase' = "target" /\ cur' = cur + 1
       ELSE UNCHANGED <<phase, cur>>
    /\ UNCHANGED <<plan, hosts, io, arpTodo, subnet, pinned, found, terminate>>

\* Fault: the results land in the slots of the first batch.
EndBatchMisplaces ==
    /\ phase = "target" /\ (cur > Len(BatchIps) \/ terminate)
    /\ pinned' = {} /\ ctx' = {} /\ subnet' = {}
    /\ allResults' = [k \in 1..Len(ips) |->
                        IF k \in 1..Len(BatchIps) THEN found[k] ELSE allResults[k]]
    /\ found' = <<>> /\ batch' = BatchEnd /\ phase' = "batches"
    /\ UNCHANGED <<hosts, opts, ips, cur, arpTodo, probing, fds, tracked, terminate>>

\* The loop over the targets is over or interrupted: the pinned ARP entries are
\* deleted, the contexts destroyed (the reader thread joined), the results of
\* the batch copied to their slots.
EndBatch ==
    /\ phase = "target" /\ (cur > Len(BatchIps) \/ terminate)
    /\ pinned' = {} /\ ctx' = {} /\ subnet' = {}
    /\ allResults' = [k \in 1..Len(ips) |->
                        IF k \in batch + 1..BatchEnd THEN found[k - batch]
                        ELSE allResults[k]]
    /\ found' = <<>> /\ batch' = BatchEnd /\ phase' = "batches"
    /\ UNCHANGED <<hosts, opts, ips, cur, arpTodo, probing, fds, tracked, terminate>>

----------------------------------------------------------------------------
\* emergency_cleanup: every tracked socket is closed, at the end of every scan.
Cleanup ==
    /\ phase = "batches" /\ (batch >= Len(ips) \/ terminate)
    /\ fds' = fds \ tracked /\ tracked' = {}
    /\ phase' = "summary"
    /\ UNCHANGED <<plan, hosts, worker, ctx, terminate>>

\* The summary, the file of results, and what runs after a scan.
Summary ==
    /\ phase = "summary"
    /\ phase' = "exited"
    /\ UNCHANGED <<plan, hosts, worker, io, terminate>>

\* SIGINT or SIGTERM.
Interrupt ==
    /\ phase # "exited" /\ ~terminate
    /\ terminate' = TRUE
    /\ UNCHANGED <<phase, plan, hosts, worker, io>>

Main == \/ NoSendSocket \/ OpenSendSocket \/ RejectOptions \/ OpenSendSocket6
        \/ Discover \/ NoDiscovery \/ TraceOnly \/ SkipPing \/ Ping
        \/ StartBatch \/ SkipBatch
        \/ FindSubnet \/ Resolve \/ ResolveFails \/ Resolved
        \/ SkipTarget \/ ScanTarget \/ Report \/ LaunchProbe \/ CollectProbes
        \/ EndBatch \/ Cleanup \/ Summary

Next == Main \/ ProbeEnds \/ Interrupt

Spec == Init /\ [][Next]_vars

\* The main thread keeps running and a probe, bounded by its timeouts, ends.
FairSpec == Spec /\ WF_vars(Main) /\ WF_vars(ProbeEnds)

----------------------------------------------------------------------------
\* Types of the run's state.
TypeOK ==
    /\ phase \in {"sockets", "options", "discovery", "trace", "batches", "arp",
                  "resolve", "target", "report", "probe", "summary", "exited"}
    /\ opts \in Flags /\ batch \in 0..Len(ips) /\ cur \in 1..TargetsPerQueue + 1
    /\ mac \subseteq Lan /\ pinned \subseteq Lan /\ down \subseteq Range(Ips)
    /\ ctx \subseteq {"recv", "send"} /\ terminate \in BOOLEAN

\* "N hosts down" is exact across the ping filter and the ARP batches of every
\* batch of targets, and no host that was counted down is scanned.
DownCountExact ==
    /\ downCount = Cardinality(down)
    /\ \A k \in DOMAIN allResults : allResults[k] \notin down
    /\ \A k \in DOMAIN found : found[k] \notin down

\* all_results[k] is the result of ips[k], whatever was skipped before it: the
\* file of results names the right host.
ResultsInPlace == \A k \in DOMAIN allResults : allResults[k] \in {"none", ips[k]}

\* No version probe runs once thread_worker has left its target, interrupted or
\* not, and never more than kMaxConcurrentProbes at once.
ProbesCollected ==
    /\ phase # "probe" => probing.running = 0
    /\ probing.running <= MaxProbes

\* emergency_cleanup only closes descriptors nobody has closed before it, and a
\* run that comes to its end leaves no raw socket, no context and no pinned ARP
\* entry behind, also when it was interrupted.
NothingLeftBehind ==
    /\ phase # "exited" => tracked \subseteq fds
    /\ phase = "exited" => fds = {} /\ ctx = {} /\ pinned = {}

\* "Drain any ARP replies that arrived for real IPs in this batch": a host whose
\* ARP reply arrived is not reported as down.
AnsweredIsUp == answered \cap down = {}
=============================================================================
