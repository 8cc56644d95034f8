--------------------------- MODULE ScanPartsProofs ---------------------------
(***************************************************************************)
(* The threads of a port scan, for rings, pools, batches and numbers of    *)
(* targets of any size: what main() and thread_worker() leave behind, the  *)
(* hosts they count as down and the results they put in their places, the  *)
(* buffers and requests of send_tcp_packets, and the slots and wake-ups of *)
(* the receive path.  One part moves at a time, so each has an inductive   *)
(* invariant over its own variables.                                       *)
(***************************************************************************)
EXTENDS ScanParts, FiniteSetTheorems, SequenceTheorems, TLAPS

-----------------------------------------------------------------------------
(***************************************************************************)
(* main() and thread_worker().                                             *)
(***************************************************************************)

\* What is open is what emergency_cleanup will close; contexts and pinned ARP entries
\* belong to a batch, and probes to a target.
RunInv ==
    /\ phase \in {"sockets", "options", "discovery", "trace", "batches", "arp",
                  "resolve", "target", "report", "probe", "summary", "exited"}
    /\ phase \in {"sockets", "summary", "exited"} => fds = {}
    /\ phase = "options" => fds = {Run!Send}
    /\ phase \in {"discovery", "trace"} => fds \subseteq {Run!Send, Run!Send6}
    /\ phase # "exited" => tracked = fds
    /\ phase \notin {"arp", "resolve", "target", "report", "probe"} =>
         ctx = {} /\ pinned = {}
    /\ probing \in [todo : Nat, inflight : Nat, running : Nat]
    /\ probing.running <= probing.inflight /\ probing.inflight <= MaxProbes
    /\ phase # "probe" => probing.inflight = 0

LEMMA RunInit == Run!Init => RunInv
BY ScanPartsAssumption DEF Run!Init, Run!Idle, RunInv

LEMMA RunNext == RunInv /\ Run!Next => RunInv'
<1> SUFFICES ASSUME RunInv, Run!Next PROVE RunInv'
  OBVIOUS
<1> USE DEF RunInv
<1>1. CASE Run!NoSendSocket \/ Run!OpenSendSocket \/ Run!RejectOptions
  BY <1>1 DEF Run!NoSendSocket, Run!OpenSendSocket, Run!RejectOptions, Run!worker, Run!io
<1>2. CASE Run!OpenSendSocket6
  BY <1>2 DEF Run!OpenSendSocket6, Run!worker
<1>3. CASE Run!Discover
  BY <1>3 DEF Run!Discover, Run!CloseSendSockets, Run!worker
<1>4. CASE Run!NoDiscovery \/ Run!TraceOnly \/ Run!SkipPing
  BY <1>4 DEF Run!NoDiscovery, Run!TraceOnly, Run!SkipPing, Run!CloseSendSockets, Run!worker,
     Run!io
<1>5. CASE Run!Ping
  BY <1>5 DEF Run!Ping, Run!CloseSendSockets, Run!worker
<1>6. CASE Run!StartBatch \/ Run!SkipBatch
  BY <1>6 DEF Run!StartBatch, Run!SkipBatch, Run!worker
<1>7. CASE Run!FindSubnet
  BY <1>7 DEF Run!FindSubnet, Run!io
<1>8. CASE Run!Resolve \/ Run!ResolveFails \/ Run!Resolved
  BY <1>8 DEF Run!Resolve, Run!ResolveFails, Run!Resolved, Run!worker, Run!io
<1>9. CASE Run!SkipTarget \/ Run!ScanTarget
  BY <1>9 DEF Run!SkipTarget, Run!ScanTarget, Run!AtTarget, Run!io
<1>10. CASE Run!Report
  BY <1>10, ScanPartsAssumption DEF Run!Report, Run!Idle, Run!io
<1>11. CASE Run!LaunchProbe \/ Run!ProbeEnds \/ Run!CollectProbes
  <2>1. CASE Run!LaunchProbe
    <3>1. probing' = [probing EXCEPT !.todo = @ - 1, !.inflight = @ + 1, !.running = @ + 1]
          /\ probing.todo > 0 /\ probing.inflight < MaxProbes
      BY <2>1 DEF Run!LaunchProbe
    <3>2. /\ probing' \in [todo : Nat, inflight : Nat, running : Nat]
          /\ probing'.running = probing.running + 1
          /\ probing'.inflight = probing.inflight + 1
      <4> DEFINE a == probing.todo - 1
                 b == probing.inflight + 1
                 c == probing.running + 1
      <4>1. /\ probing \in [todo : Nat, inflight : Nat, running : Nat]
            /\ a \in Nat /\ b \in Nat /\ c \in Nat
        BY <3>1
      <4>2. probing' = [probing EXCEPT !.todo = a, !.inflight = b, !.running = c]
        BY <3>1
      <4> HIDE DEF a, b, c
      <4>3. /\ probing' \in [todo : Nat, inflight : Nat, running : Nat]
            /\ probing'.running = c /\ probing'.inflight = b
        BY <4>1, <4>2
      <4> QED BY <4>3 DEF b, c
    <3>3. phase = "probe" /\ UNCHANGED <<phase, fds, tracked, ctx, pinned>>
      BY <2>1 DEF Run!LaunchProbe, Run!io
    <3>4. probing'.running <= probing'.inflight /\ probing'.inflight <= MaxProbes
      <4>1. /\ probing.inflight \in Nat /\ probing.running \in Nat
            /\ probing.running <= probing.inflight
        OBVIOUS
      <4>2. MaxProbes \in Int /\ probing.inflight < MaxProbes
        BY <3>1, ScanPartsAssumption
      <4>3. /\ probing'.running = probing.running + 1
            /\ probing'.inflight = probing.inflight + 1
        BY <3>2
      <4> HIDE DEF RunInv
      <4> QED BY <4>1, <4>2, <4>3
    <3> QED BY <3>2, <3>3, <3>4
  <2>2. CASE Run!ProbeEnds
    <3>1. probing' = [probing EXCEPT !.running = @ - 1] /\ probing.running > 0
      BY <2>2 DEF Run!ProbeEnds
    <3>2. /\ probing' \in [todo : Nat, inflight : Nat, running : Nat]
          /\ probing'.running = probing.running - 1 /\ probing'.inflight = probing.inflight
      BY <3>1
    <3> QED BY <2>2, <3>2, ScanPartsAssumption DEF Run!ProbeEnds, Run!io
  <2>3. CASE Run!CollectProbes
    <3>1. probing' = [probing EXCEPT !.inflight = 0] /\ probing.running = 0
      BY <2>3 DEF Run!CollectProbes
    <3>2. /\ probing' \in [todo : Nat, inflight : Nat, running : Nat]
          /\ probing'.running = 0 /\ probing'.inflight = 0
      BY <3>1
    <3> QED BY <2>3, <3>2, ScanPartsAssumption DEF Run!CollectProbes, Run!io
  <2> QED BY <1>11, <2>1, <2>2, <2>3
<1>12. CASE Run!EndBatch
  BY <1>12 DEF Run!EndBatch
<1>13. CASE Run!Cleanup \/ Run!Summary \/ Run!Interrupt
  BY <1>13 DEF Run!Cleanup, Run!Summary, Run!Interrupt, Run!worker, Run!io
<1> QED
  BY <1>1, <1>2, <1>3, <1>4, <1>5, <1>6, <1>7, <1>8, <1>9, <1>10, <1>11, <1>12, <1>13
  DEF Run!Next, Run!Main

-----------------------------------------------------------------------------
(***************************************************************************)
(* main() and thread_worker(): the hosts that are down, and the results.   *)
(***************************************************************************)

LEMMA RunCardinals == \A S : Run!Cardinality(S) = Cardinality(S)
BY DEF Run!Cardinality, Cardinality

\* The k-th element of a finite set of numbers exists.
LEMMA Ranks ==
    ASSUME NEW n \in Nat, NEW I, I \subseteq 1 .. n
    PROVE  /\ Cardinality(I) \in Nat
           /\ \A k \in 1 .. Cardinality(I) :
                \E i \in I : Cardinality({j \in I : j <= i}) = k
<1> DEFINE upTo(i) == {j \in I : j <= i}
           rank == [i \in I |-> Cardinality(upTo(i))]
<1>1. IsFiniteSet(I) /\ Cardinality(I) \in Nat
  <2>1. IsFiniteSet(1 .. n)
    BY FS_Interval
  <2> QED BY <2>1, FS_Subset, FS_CardinalityType
<1>2. \A i \in I : IsFiniteSet(upTo(i)) /\ Cardinality(upTo(i)) \in 1 .. Cardinality(I)
  <2> SUFFICES ASSUME NEW i \in I
               PROVE  IsFiniteSet(upTo(i)) /\ Cardinality(upTo(i)) \in 1 .. Cardinality(I)
    OBVIOUS
  <2>1. upTo(i) \subseteq I /\ i \in upTo(i)
    OBVIOUS
  <2>2. IsFiniteSet(upTo(i)) /\ Cardinality(upTo(i)) <= Cardinality(I)
    BY <1>1, <2>1, FS_Subset
  <2>3. Cardinality(upTo(i)) \in Nat /\ Cardinality(upTo(i)) # 0
    BY <2>1, <2>2, FS_CardinalityType, FS_EmptySet
  <2> QED BY <1>1, <2>2, <2>3
<1>3. \A i, j \in I : i < j => Cardinality(upTo(i)) < Cardinality(upTo(j))
  <2> SUFFICES ASSUME NEW i \in I, NEW j \in I, i < j
               PROVE  Cardinality(upTo(i)) < Cardinality(upTo(j))
    OBVIOUS
  <2>1. j \in upTo(j) /\ upTo(i) \subseteq upTo(j) \ {j}
    <3>1. i \in Nat /\ j \in Nat /\ \A k \in I : k \in Nat
      OBVIOUS
    <3>2. \A k \in I : k <= i => k <= j /\ k # j
      BY <3>1
    <3>3. j <= j
      BY <3>1
    <3>4. j \in upTo(j)
      BY <3>3
    <3>5. \A k \in upTo(i) : k \in upTo(j) /\ k # j
      BY <3>2, Zenon
    <3> HIDE DEF upTo
    <3> QED BY <3>4, <3>5
  <2>2. IsFiniteSet(upTo(j) \ {j})
        /\ Cardinality(upTo(j) \ {j}) = Cardinality(upTo(j)) - 1
    BY <1>2, <2>1, FS_RemoveElement
  <2>3. Cardinality(upTo(i)) <= Cardinality(upTo(j) \ {j})
    BY <2>1, <2>2, FS_Subset
  <2>4. Cardinality(upTo(i)) \in Nat /\ Cardinality(upTo(j)) \in Nat
    BY <1>1, <1>2
  <2> HIDE DEF upTo
  <2> QED BY <2>2, <2>3, <2>4
<1>4. rank \in Injection(I, 1 .. Cardinality(I))
  <2>1. rank \in [I -> 1 .. Cardinality(I)]
    BY <1>2
  <2>2. \A i, j \in I : rank[i] = rank[j] => i = j
    <3> SUFFICES ASSUME NEW i \in I, NEW j \in I, i # j PROVE rank[i] # rank[j]
      OBVIOUS
    <3>1. i < j \/ j < i
      OBVIOUS
    <3> QED BY <1>1, <1>2, <1>3, <3>1
  <2> QED BY <2>1, <2>2 DEF Injection, IsInjective
<1>5. rank \in Surjection(I, 1 .. Cardinality(I))
  <2>1. IsFiniteSet(1 .. Cardinality(I))
        /\ Cardinality(1 .. Cardinality(I)) = Cardinality(I)
    BY <1>1, FS_Interval
  <2> QED BY <1>4, <2>1, FS_Injection
<1>6. \A k \in 1 .. Cardinality(I) : \E i \in I : rank[i] = k
  BY <1>5 DEF Surjection
<1> QED BY <1>1, <1>6


\* A filtering loop yields elements that pass, each from the sequence, and none twice
\* when the sequence has none twice.
LEMMA OnlyFilters ==
    ASSUME NEW S, NEW s \in Seq(S), NEW T
    PROVE  /\ Run!Only(s, T) \in Seq(S) /\ Len(Run!Only(s, T)) \in Nat
           /\ \A k \in 1 .. Len(Run!Only(s, T)) :
                Run!Only(s, T)[k] \in T /\ \E i \in 1 .. Len(s) : Run!Only(s, T)[k] = s[i]
           /\ (\A i, j \in 1 .. Len(s) : s[i] = s[j] => i = j) =>
                \A k, l \in 1 .. Len(Run!Only(s, T)) : Run!Only(s, T)[k] = Run!Only(s, T)[l] => k = l
<1> DEFINE I == {i \in DOMAIN s : s[i] \in T}
           n == Cardinality(I)
           at(k) == CHOOSE i \in I : Cardinality({j \in I : j <= i}) = k
           r == Run!Only(s, T)
<1>1. DOMAIN s = 1 .. Len(s) /\ Len(s) \in Nat /\ \A i \in 1 .. Len(s) : s[i] \in S
  OBVIOUS
<1>2. n \in Nat /\ \A k \in 1 .. n : \E i \in I : Cardinality({j \in I : j <= i}) = k
  <2>1. I \subseteq 1 .. Len(s)
    BY <1>1
  <2> HIDE DEF I
  <2> QED BY <1>1, <2>1, Ranks
<1>3. \A k \in 1 .. n : at(k) \in I /\ Cardinality({j \in I : j <= at(k)}) = k
  BY <1>2
<1>4. r = [k \in 1 .. n |-> s[at(k)]]
  <2>1. r = [k \in 1 .. Run!Cardinality(I) |->
              s[CHOOSE i \in I : Run!Cardinality({j \in I : j <= i}) = k]]
    BY DEF Run!Only
  <2> QED BY <2>1, RunCardinals
<1> HIDE DEF r, at, n
<1>5. r \in Seq(S) /\ Len(r) = n /\ \A k \in 1 .. n : r[k] = s[at(k)]
  <2>1. \A k \in 1 .. n : s[at(k)] \in S
    BY <1>1, <1>3
  <2> QED BY <1>2, <1>4, <2>1
<1>6. \A k \in 1 .. n : r[k] \in T /\ at(k) \in 1 .. Len(s) /\ r[k] = s[at(k)]
  BY <1>1, <1>3, <1>5
<1>7. ASSUME \A i, j \in 1 .. Len(s) : s[i] = s[j] => i = j,
             NEW k \in 1 .. n, NEW l \in 1 .. n, r[k] = r[l]
      PROVE  k = l
  <2>1. at(k) = at(l)
    BY <1>6, <1>7
  <2> QED BY <1>3, <2>1
<1> QED BY <1>2, <1>5, <1>6, <1>7 DEF r

Hosts == Run!Range(Ips)

LEMMA HostsFinite == IsFiniteSet(Hosts)
<1>1. Ips \in Seq(Hosts) /\ Len(Ips) \in Nat
  BY ScanPartsAssumption DEF Hosts
<1>2. Hosts = {Ips[i] : i \in 1 .. Len(Ips)}
  BY <1>1 DEF Hosts, Run!Range
<1>3. [i \in 1 .. Len(Ips) |-> Ips[i]] \in Surjection(1 .. Len(Ips), Hosts)
  BY <1>2 DEF Surjection
<1>4. IsFiniteSet(1 .. Len(Ips))
  BY <1>1, FS_Interval
<1> QED BY <1>3, <1>4, FS_Surjection

Phases == {"sockets", "options", "discovery", "trace", "batches", "arp", "resolve",
           "target", "report", "probe", "summary", "exited"}
Early == {"sockets", "options", "discovery", "trace"}
InBatch == {"arp", "resolve", "target", "report", "probe"}

\* The targets up to which hosts may have been found down.
Reached == IF phase \in InBatch \ {"arp"} THEN Run!BatchEnd ELSE batch

\* The plan of the run, and what was counted so far.
PlanInv ==
    /\ phase \in Phases
    /\ ips \in Seq(Hosts) /\ \A i, j \in 1 .. Len(ips) : ips[i] = ips[j] => i = j
    /\ batch \in Nat /\ batch <= Len(ips) /\ (phase \in InBatch => batch < Len(ips))
    /\ cur \in Nat \ {0}
    /\ down \subseteq Hosts /\ downCount = Cardinality(down)
    /\ phase \in Early => down = {} /\ batch = 0 /\ allResults = <<>> /\ found = <<>>

\* Only hosts of the batches that were reached are down, the ones still to be asked
\* are not.
DownInv ==
    /\ phase \in {"batches"} \cup InBatch =>
         \A k \in 1 .. Len(ips) : ips[k] \in down => k <= Reached
    /\ phase = "resolve" =>
         /\ arpTodo \in Seq(Hosts)
         /\ \A i, j \in 1 .. Len(arpTodo) : arpTodo[i] = arpTodo[j] => i = j
         /\ \A i \in 1 .. Len(arpTodo) :
              /\ arpTodo[i] \notin down
              /\ \E k \in batch + 1 .. Run!BatchEnd : arpTodo[i] = ips[k]

\* A result is in its place: a slot of all_results is filled when its batch is over,
\* a slot of the batch when its target was scanned.
ResultsInv ==
    /\ phase \in {"batches"} \cup InBatch => DOMAIN allResults = 1 .. Len(ips)
    /\ \A k \in DOMAIN allResults :
         /\ k \in 1 .. Len(ips) /\ allResults[k] \in {"none", ips[k]}
         /\ k > batch => allResults[k] = "none"
         /\ allResults[k] \notin down
    /\ phase \in InBatch =>
         /\ found \in [1 .. Run!BatchEnd - batch -> Hosts \cup {"none"}]
         /\ \A k \in 1 .. Run!BatchEnd - batch :
              /\ found[k] \in {"none", ips[batch + k]} /\ found[k] \notin down
              /\ phase \in {"arp", "resolve"} => found[k] = "none"
    /\ phase \notin InBatch => found = <<>>

HostInv == PlanInv /\ DownInv /\ ResultsInv

\* The batch is a part of the targets.
LEMMA BatchFacts ==
    ASSUME PlanInv
    PROVE  /\ Len(ips) \in Nat /\ Run!BatchEnd \in Nat
           /\ batch <= Run!BatchEnd /\ Run!BatchEnd <= Len(ips)
           /\ batch < Len(ips) => batch < Run!BatchEnd
           /\ \A k \in 1 .. Len(ips) : ips[k] \in Hosts
           /\ Run!BatchIps \in Seq(Hosts) /\ Len(Run!BatchIps) = Run!BatchEnd - batch
           /\ \A k \in 1 .. Run!BatchEnd - batch : Run!BatchIps[k] = ips[batch + k]
           /\ "none" \notin Hosts /\ "none" \notin down /\ IsFiniteSet(down)
<1>1. /\ Len(ips) \in Nat /\ Run!BatchEnd \in Nat
      /\ batch <= Run!BatchEnd /\ Run!BatchEnd <= Len(ips)
      /\ batch < Len(ips) => batch < Run!BatchEnd
  BY ScanPartsAssumption DEF PlanInv, Run!BatchEnd
<1>2. batch \in Nat /\ \A k \in 1 .. Len(ips) : ips[k] \in Hosts
  BY DEF PlanInv
<1>3. \A k \in batch + 1 .. Run!BatchEnd : ips[k] \in Hosts
  BY <1>1, <1>2
<1>4. /\ SubSeq(ips, batch + 1, Run!BatchEnd) \in Seq(Hosts)
      /\ Len(SubSeq(ips, batch + 1, Run!BatchEnd)) = Run!BatchEnd - batch
      /\ \A k \in 1 .. Run!BatchEnd - batch :
           SubSeq(ips, batch + 1, Run!BatchEnd)[k] = ips[batch + k]
  <2>1. batch + 1 \in Int /\ Run!BatchEnd \in Int
    BY <1>1, <1>2
  <2>2. /\ SubSeq(ips, batch + 1, Run!BatchEnd) \in Seq(Hosts)
        /\ Len(SubSeq(ips, batch + 1, Run!BatchEnd)) =
             IF batch + 1 <= Run!BatchEnd THEN Run!BatchEnd - (batch + 1) + 1 ELSE 0
        /\ \A k \in 1 .. Run!BatchEnd - (batch + 1) + 1 :
             SubSeq(ips, batch + 1, Run!BatchEnd)[k] = ips[batch + 1 + k - 1]
    BY <1>3, <2>1, SubSeqProperties
  <2>3. Run!BatchEnd - (batch + 1) + 1 = Run!BatchEnd - batch
        /\ (~(batch + 1 <= Run!BatchEnd) => Run!BatchEnd - batch = 0)
    BY <1>1, <1>2
  <2>4. \A k \in 1 .. Run!BatchEnd - batch : batch + 1 + k - 1 = batch + k
    BY <1>1, <1>2
  <2> QED BY <2>2, <2>3, <2>4
<1>5. "none" \notin Hosts /\ "none" \notin down /\ IsFiniteSet(down)
  BY ScanPartsAssumption, HostsFinite, FS_Subset DEF Hosts, PlanInv
<1> QED BY <1>1, <1>2, <1>4, <1>5 DEF Run!BatchIps

\* Steps that count nothing and fill in nothing.
LEMMA HostSame ==
    ASSUME HostInv,
           UNCHANGED <<ips, batch, down, downCount, allResults, found, arpTodo>>,
           cur' \in Nat \ {0},
           \/ phase' = phase
           \/ phase \in Early /\ phase' \in Early
           \/ phase \in Early \cup {"batches", "summary"} /\ phase' \in {"summary", "exited"}
           \/ phase \in {"target", "report", "probe"} /\ phase' \in {"target", "report", "probe"}
           \/ phase = "resolve" /\ phase' = "target"
    PROVE  HostInv'
<1>1. Run!BatchEnd' = Run!BatchEnd
  BY DEF Run!BatchEnd
<1>2. /\ phase' \in Phases
      /\ phase' \in Early => phase \in Early
      /\ phase' \in InBatch <=> phase \in InBatch
      /\ phase' \in {"batches"} \cup InBatch => phase \in {"batches"} \cup InBatch
      /\ phase' = "resolve" => phase = "resolve"
      /\ phase' \in {"arp", "resolve"} => phase \in {"arp", "resolve"}
      /\ phase' \in {"batches"} \cup InBatch => Reached' = Reached
  BY <1>1 DEF HostInv, PlanInv, Phases, Early, InBatch, Reached
<1>3. PlanInv'
  BY <1>2 DEF HostInv, PlanInv
<1>4. DownInv'
  BY <1>1, <1>2 DEF HostInv, DownInv
<1>5. ResultsInv'
  BY <1>1, <1>2 DEF HostInv, ResultsInv
<1> QED BY <1>3, <1>4, <1>5 DEF HostInv

LEMMA HostInit == Run!Init => HostInv
<1> SUFFICES ASSUME Run!Init PROVE HostInv
  OBVIOUS
<1>1. /\ phase = "sockets" /\ ips = Ips /\ batch = 0 /\ cur = 1 /\ down = {} /\ downCount = 0
      /\ allResults = <<>> /\ found = <<>>
  BY DEF Run!Init
<1>2. Cardinality({}) = 0
  BY FS_EmptySet
<1>3. Len(Ips) \in Nat /\ DOMAIN <<>> = {}
  BY ScanPartsAssumption
<1>4. PlanInv
  BY <1>1, <1>2, <1>3, ScanPartsAssumption DEF PlanInv, Phases, Early, InBatch, Hosts
<1>5. DownInv
  BY <1>1 DEF DownInv, InBatch
<1>6. ResultsInv
  BY <1>1, <1>3 DEF ResultsInv, InBatch
<1> QED BY <1>4, <1>5, <1>6 DEF HostInv

LEMMA HostQuiet ==
    ASSUME HostInv,
           \/ Run!NoSendSocket \/ Run!OpenSendSocket \/ Run!RejectOptions
           \/ Run!OpenSendSocket6 \/ Run!NoDiscovery \/ Run!TraceOnly \/ Run!Resolved
           \/ Run!SkipTarget \/ Run!Report \/ Run!LaunchProbe \/ Run!CollectProbes
           \/ Run!Cleanup \/ Run!Summary \/ Run!Interrupt \/ Run!ProbeEnds
    PROVE  HostInv'
<1> USE DEF Run!plan, Run!hosts, Run!worker
<1>1. cur \in Nat \ {0} /\ cur + 1 \in Nat \ {0}
  BY DEF HostInv, PlanInv
<1>2. UNCHANGED <<ips, batch, down, downCount, allResults, found, arpTodo>>
  BY DEF Run!NoSendSocket, Run!OpenSendSocket, Run!RejectOptions, Run!OpenSendSocket6,
         Run!NoDiscovery, Run!TraceOnly, Run!Resolved, Run!SkipTarget, Run!Report,
         Run!LaunchProbe, Run!CollectProbes, Run!Cleanup, Run!Summary, Run!Interrupt,
         Run!ProbeEnds
<1>3. cur' \in Nat \ {0}
  BY <1>1
  DEF Run!NoSendSocket, Run!OpenSendSocket, Run!RejectOptions, Run!OpenSendSocket6,
      Run!NoDiscovery, Run!TraceOnly, Run!Resolved, Run!SkipTarget, Run!Report,
      Run!LaunchProbe, Run!CollectProbes, Run!Cleanup, Run!Summary, Run!Interrupt,
      Run!ProbeEnds
<1>4. \/ phase' = phase
      \/ phase \in Early /\ phase' \in Early
      \/ phase \in Early \cup {"batches", "summary"} /\ phase' \in {"summary", "exited"}
      \/ phase \in {"target", "report", "probe"} /\ phase' \in {"target", "report", "probe"}
      \/ phase = "resolve" /\ phase' = "target"
  BY DEF Run!NoSendSocket, Run!OpenSendSocket, Run!RejectOptions, Run!OpenSendSocket6,
         Run!NoDiscovery, Run!TraceOnly, Run!CloseSendSockets, Run!Resolved, Run!SkipTarget,
         Run!AtTarget, Run!Report, Run!LaunchProbe, Run!CollectProbes, Run!Cleanup,
         Run!Summary, Run!Interrupt, Run!ProbeEnds, Early
<1> QED BY <1>2, <1>3, <1>4, HostSame

\* Before the batches: what host discovery and the ping filter leave of the targets.
LEMMA HostFilters ==
    ASSUME HostInv, Run!Discover \/ Run!SkipPing \/ Run!Ping
    PROVE  HostInv'
<1> USE DEF Run!plan, Run!hosts, Run!worker
<1>1. PlanInv /\ DownInv /\ ResultsInv
  BY DEF HostInv
<1>2. /\ phase \in Early /\ down = {} /\ batch = 0 /\ allResults = <<>> /\ found = <<>>
      /\ downCount = 0
  <2>1. phase \in Early
    BY DEF Run!Discover, Run!SkipPing, Run!Ping, Early
  <2>2. Cardinality({}) = 0
    BY FS_EmptySet
  <2> QED BY <1>1, <2>1, <2>2 DEF PlanInv
<1>3. UNCHANGED <<batch, found, cur>>
  BY DEF Run!Discover, Run!SkipPing, Run!Ping
<1>4. \A T : /\ Run!Only(ips, T) \in Seq(Hosts) /\ Len(Run!Only(ips, T)) \in Nat
             /\ \A k \in 1 .. Len(Run!Only(ips, T)) : Run!Only(ips, T)[k] \in T
             /\ \A k, l \in 1 .. Len(Run!Only(ips, T)) :
                  Run!Only(ips, T)[k] = Run!Only(ips, T)[l] => k = l
  <2>1. /\ ips \in Seq(Hosts) /\ \A i, j \in 1 .. Len(ips) : ips[i] = ips[j] => i = j
    BY <1>1 DEF PlanInv
  <2> QED BY <2>1, OnlyFilters
\* When only the targets, and what is down among the others, change.
<1>5. ASSUME phase' \in Early \cup {"batches", "exited"},
             ips' \in Seq(Hosts), Len(ips') \in Nat,
             \A i, j \in 1 .. Len(ips') : ips'[i] = ips'[j] => i = j,
             down' \subseteq Hosts, downCount' = Cardinality(down'),
             phase' \in Early => down' = {} /\ allResults' = <<>>,
             \A k \in 1 .. Len(ips') : ips'[k] \notin down',
             \/ phase' # "batches" /\ allResults' = <<>>
             \/ allResults' = [k \in 1 .. Len(ips') |-> "none"]
      PROVE  HostInv'
  <2>1. PlanInv'
    BY <1>1, <1>2, <1>3, <1>5 DEF PlanInv, Phases, Early, InBatch
  <2>2. DownInv'
    BY <1>5 DEF DownInv, Early, InBatch
  <2>3. "none" \notin down'
    BY <1>5, ScanPartsAssumption DEF Hosts
  <2>4. ResultsInv'
    <3>1. /\ phase' \notin InBatch /\ found' = <<>>
      BY <1>2, <1>3, <1>5 DEF Early, InBatch
    <3>2. /\ phase' = "batches" => DOMAIN allResults' = 1 .. Len(ips')
          /\ \A k \in DOMAIN allResults' : k \in 1 .. Len(ips') /\ allResults'[k] = "none"
      <4>1. CASE phase' # "batches" /\ allResults' = <<>>
        BY <4>1
      <4>2. CASE allResults' = [k \in 1 .. Len(ips') |-> "none"]
        BY <4>2
      <4> QED BY <1>5, <4>1, <4>2
    <3> QED BY <2>3, <3>1, <3>2 DEF ResultsInv
  <2> QED BY <2>1, <2>2, <2>4 DEF HostInv
<1>6. CASE Run!Discover
  <2>1. PICK alive : ips' = Run!Only(ips, alive)
    BY <1>6 DEF Run!Discover
  <2>2. /\ phase' \in {"trace", "exited"} /\ UNCHANGED <<down, downCount, allResults>>
    BY <1>6 DEF Run!Discover, Run!CloseSendSockets
  <2> HIDE DEF Run!plan, Run!hosts, Run!worker
  <2>3. /\ ips' \in Seq(Hosts) /\ Len(ips') \in Nat
        /\ \A i, j \in 1 .. Len(ips') : ips'[i] = ips'[j] => i = j
    BY <1>4, <2>1
  <2>4. /\ down' = {} /\ allResults' = <<>> /\ downCount' = Cardinality(down')
    BY <1>1, <1>2, <2>2 DEF PlanInv
  <2> QED BY <1>5, <2>2, <2>3, <2>4 DEF Early
<1>7. CASE Run!SkipPing
  <2>1. /\ phase' = "batches" /\ allResults' = [k \in 1 .. Len(ips) |-> "none"]
        /\ UNCHANGED <<ips, down, downCount>>
    BY <1>7 DEF Run!SkipPing
  <2>2. /\ ips' \in Seq(Hosts) /\ Len(ips') \in Nat
        /\ \A i, j \in 1 .. Len(ips') : ips'[i] = ips'[j] => i = j
        /\ downCount' = Cardinality(down') /\ down' = {}
    BY <1>1, <1>2, <2>1 DEF PlanInv
  <2> QED BY <1>5, <2>1, <2>2 DEF Early
<1>8. CASE Run!Ping
  <2>1. PICK dead \in SUBSET Run!Range(ips) :
          /\ ips' = Run!Only(ips, Run!Range(ips) \ dead)
          /\ down' = down \cup dead
          /\ downCount' = downCount + Run!Cardinality(dead)
    BY <1>8 DEF Run!Ping
  <2>2. \/ phase' = "exited" /\ allResults' = allResults
        \/ phase' = "batches" /\ allResults' = [k \in 1 .. Len(ips') |-> "none"]
    BY <1>8 DEF Run!Ping, Run!CloseSendSockets
  <2>3. /\ ips' \in Seq(Hosts) /\ Len(ips') \in Nat
        /\ \A i, j \in 1 .. Len(ips') : ips'[i] = ips'[j] => i = j
        /\ \A k \in 1 .. Len(ips') : ips'[k] \notin dead
    BY <1>4, <2>1
  <2>4. down' = dead /\ dead \subseteq Hosts
    <3>1. Run!Range(ips) \subseteq Hosts
      BY <1>1 DEF PlanInv, Run!Range
    <3> QED BY <1>2, <2>1, <3>1
  <2>5. downCount' = Cardinality(down')
    <3>1. IsFiniteSet(dead)
      BY <2>4, HostsFinite, FS_Subset
    <3>2. Cardinality(dead) \in Nat
      BY <3>1, FS_CardinalityType
    <3> QED BY <1>2, <2>1, <2>4, <3>2, RunCardinals
  <2> QED BY <1>2, <1>5, <2>2, <2>3, <2>4, <2>5 DEF Early
<1> QED BY <1>6, <1>7, <1>8

\* A batch begins, is skipped, or ends with its results copied to their slots.
LEMMA HostBatches ==
    ASSUME HostInv, Run!StartBatch \/ Run!SkipBatch \/ Run!EndBatch
    PROVE  HostInv'
<1> USE DEF Run!plan, Run!hosts, Run!worker
<1>1. PlanInv /\ DownInv /\ ResultsInv
  BY DEF HostInv
<1>2. /\ Len(ips) \in Nat /\ Run!BatchEnd \in Nat /\ batch \in Nat
      /\ batch <= Run!BatchEnd /\ Run!BatchEnd <= Len(ips)
      /\ batch < Len(ips) => batch < Run!BatchEnd
      /\ Len(Run!BatchIps) = Run!BatchEnd - batch
      /\ "none" \notin down
  BY <1>1, BatchFacts DEF PlanInv
<1>3. /\ ips \in Seq(Hosts) /\ \A i, j \in 1 .. Len(ips) : ips[i] = ips[j] => i = j
      /\ down \subseteq Hosts /\ downCount = Cardinality(down) /\ cur \in Nat \ {0}
  BY <1>1 DEF PlanInv
<1>4. CASE Run!StartBatch
  <2>1. /\ phase = "batches" /\ phase' = "arp" /\ cur' = 1 /\ batch < Len(ips)
        /\ UNCHANGED <<ips, batch, down, downCount, allResults>>
        /\ found' = [k \in 1 .. Len(Run!BatchIps) |-> "none"]
    BY <1>4 DEF Run!StartBatch
  <2>2. Run!BatchEnd' = Run!BatchEnd
    BY <2>1 DEF Run!BatchEnd
  <2>3. PlanInv'
    BY <1>2, <1>3, <2>1 DEF PlanInv, Phases, Early, InBatch
  <2>4. DownInv'
    <3>1. Reached = batch /\ Reached' = batch
      BY <2>1 DEF Reached, InBatch
    <3> QED BY <1>1, <2>1, <3>1 DEF DownInv
  <2>5. ResultsInv'
    <3>1. /\ DOMAIN allResults' = 1 .. Len(ips')
          /\ \A k \in DOMAIN allResults' :
              /\ k \in 1 .. Len(ips') /\ allResults'[k] \in {"none", ips'[k]}
              /\ k > batch' => allResults'[k] = "none"
              /\ allResults'[k] \notin down'
      BY <1>1, <2>1 DEF ResultsInv
    <3>2. found' = [k \in 1 .. Run!BatchEnd - batch |-> "none"]
      BY <1>2, <2>1
    <3> QED BY <1>2, <2>1, <2>2, <3>1, <3>2 DEF ResultsInv, InBatch
  <2> QED BY <2>3, <2>4, <2>5 DEF HostInv
<1>5. CASE Run!SkipBatch
  <2>1. /\ phase = "batches" /\ phase' = phase /\ batch' = Run!BatchEnd
        /\ UNCHANGED <<ips, down, downCount, allResults, found, cur>>
    BY <1>5 DEF Run!SkipBatch
  <2>2. PlanInv'
    BY <1>2, <1>3, <2>1 DEF PlanInv, Phases, Early, InBatch
  <2>3. DownInv'
    <3>1. Reached = batch /\ Reached' = Run!BatchEnd
      BY <2>1 DEF Reached, InBatch
    <3>2. \A k \in 1 .. Len(ips) : ips[k] \in down => k <= batch
      BY <1>1, <2>1, <3>1 DEF DownInv
    <3>3. \A k \in 1 .. Len(ips) : ips[k] \in down => k <= Run!BatchEnd
      BY <1>2, <3>2
    <3> QED BY <2>1, <3>1, <3>3 DEF DownInv
  <2>4. ResultsInv'
    <3>1. \A k \in DOMAIN allResults : k \in 1 .. Len(ips)
                                       /\ (k > Run!BatchEnd => k > batch)
      BY <1>1, <1>2 DEF ResultsInv
    <3> QED BY <1>1, <2>1, <3>1 DEF ResultsInv, InBatch
  <2> QED BY <2>2, <2>3, <2>4 DEF HostInv
<1>6. CASE Run!EndBatch
  <2>1. /\ phase = "target" /\ phase' = "batches" /\ batch' = Run!BatchEnd /\ found' = <<>>
        /\ UNCHANGED <<ips, down, downCount, cur>>
        /\ allResults' = [k \in 1 .. Len(ips) |->
                            IF k \in batch + 1 .. Run!BatchEnd THEN found[k - batch]
                            ELSE allResults[k]]
    BY <1>6 DEF Run!EndBatch
  <2>2. PlanInv'
    BY <1>2, <1>3, <2>1 DEF PlanInv, Phases, Early, InBatch
  <2>3. DownInv'
    <3>1. Reached = Run!BatchEnd /\ Reached' = Run!BatchEnd
      BY <2>1 DEF Reached, InBatch
    <3> QED BY <1>1, <2>1, <3>1 DEF DownInv, InBatch
  <2>4. ResultsInv'
    <3>1. \A k \in 1 .. Len(ips) :
            /\ allResults'[k] \in {"none", ips[k]} /\ allResults'[k] \notin down
            /\ k > Run!BatchEnd => allResults'[k] = "none"
      <4> SUFFICES ASSUME NEW k \in 1 .. Len(ips)
                   PROVE  /\ allResults'[k] \in {"none", ips[k]} /\ allResults'[k] \notin down
                          /\ k > Run!BatchEnd => allResults'[k] = "none"
        OBVIOUS
      <4>1. CASE k \in batch + 1 .. Run!BatchEnd
        <5>1. k - batch \in 1 .. Run!BatchEnd - batch /\ batch + (k - batch) = k
              /\ ~(k > Run!BatchEnd)
          BY <1>2, <4>1
        <5>2. /\ found[k - batch] \in {"none", ips[batch + (k - batch)]}
              /\ found[k - batch] \notin down
          BY <1>1, <2>1, <5>1 DEF ResultsInv, InBatch
        <5>3. allResults'[k] = found[k - batch]
          BY <2>1, <4>1
        <5> QED BY <5>1, <5>2, <5>3
      <4>2. CASE k \notin batch + 1 .. Run!BatchEnd
        <5>1. allResults'[k] = allResults[k] /\ (k > Run!BatchEnd => k > batch)
          BY <1>2, <2>1, <4>2
        <5>2. k \in DOMAIN allResults
          BY <1>1, <2>1 DEF ResultsInv, InBatch
        <5> QED BY <1>1, <5>1, <5>2 DEF ResultsInv
      <4> QED BY <4>1, <4>2
    <3>2. DOMAIN allResults' = 1 .. Len(ips)
      BY <2>1
    <3> QED BY <2>1, <3>1, <3>2 DEF ResultsInv, InBatch
  <2> QED BY <2>2, <2>3, <2>4 DEF HostInv
<1> QED BY <1>4, <1>5, <1>6

\* Within a batch: the hosts of the local subnet, and a target that is scanned.
LEMMA HostTargets ==
    ASSUME HostInv, Run!FindSubnet \/ Run!ScanTarget
    PROVE  HostInv'
<1> USE DEF Run!plan, Run!hosts, Run!worker
<1>1. PlanInv /\ DownInv /\ ResultsInv
  BY DEF HostInv
<1>2. /\ Len(ips) \in Nat /\ Run!BatchEnd \in Nat /\ batch \in Nat
      /\ batch <= Run!BatchEnd /\ Run!BatchEnd <= Len(ips)
      /\ Run!BatchIps \in Seq(Hosts) /\ Len(Run!BatchIps) = Run!BatchEnd - batch
      /\ \A k \in 1 .. Run!BatchEnd - batch : Run!BatchIps[k] = ips[batch + k]
      /\ \A k \in 1 .. Len(ips) : ips[k] \in Hosts
      /\ "none" \notin down
  BY <1>1, BatchFacts DEF PlanInv
<1>3. CASE Run!FindSubnet
  <2>1. /\ phase = "arp" /\ phase' = "resolve"
        /\ UNCHANGED <<ips, batch, cur, down, downCount, allResults, found>>
        /\ arpTodo' = <<>> \/ \E T : arpTodo' = Run!Only(Run!BatchIps, T)
    BY <1>3 DEF Run!FindSubnet
  <2>2. Run!BatchEnd' = Run!BatchEnd
    BY <2>1 DEF Run!BatchEnd
  <2>3. PlanInv'
    BY <1>1, <2>1 DEF PlanInv, Phases, Early, InBatch
  <2>4. \A k \in 1 .. Len(ips) : ips[k] \in down => k <= batch
    <3>1. Reached = batch
      BY <2>1 DEF Reached, InBatch
    <3> QED BY <1>1, <2>1, <3>1 DEF DownInv, InBatch
  <2>5. \A i, j \in 1 .. Len(Run!BatchIps) : Run!BatchIps[i] = Run!BatchIps[j] => i = j
    <3> SUFFICES ASSUME NEW i \in 1 .. Run!BatchEnd - batch,
                        NEW j \in 1 .. Run!BatchEnd - batch, Run!BatchIps[i] = Run!BatchIps[j]
                 PROVE  i = j
      BY <1>2
    <3>1. batch + i \in 1 .. Len(ips) /\ batch + j \in 1 .. Len(ips)
      BY <1>2
    <3>2. ips[batch + i] = ips[batch + j]
      BY <1>2
    <3>3. batch + i = batch + j
      BY <1>1, <3>1, <3>2 DEF PlanInv
    <3> QED BY <1>2, <3>3
  <2>6. /\ arpTodo' \in Seq(Hosts)
        /\ \A i, j \in 1 .. Len(arpTodo') : arpTodo'[i] = arpTodo'[j] => i = j
        /\ \A i \in 1 .. Len(arpTodo') :
             \E k \in 1 .. Run!BatchEnd - batch : arpTodo'[i] = Run!BatchIps[k]
    <3>1. CASE arpTodo' = <<>>
      BY <3>1
    <3>2. CASE \E T : arpTodo' = Run!Only(Run!BatchIps, T)
      <4>1. PICK T : arpTodo' = Run!Only(Run!BatchIps, T)
        BY <3>2
      <4>2. /\ Run!Only(Run!BatchIps, T) \in Seq(Hosts)
            /\ \A k \in 1 .. Len(Run!Only(Run!BatchIps, T)) :
                 \E i \in 1 .. Len(Run!BatchIps) :
                   Run!Only(Run!BatchIps, T)[k] = Run!BatchIps[i]
            /\ \A k, l \in 1 .. Len(Run!Only(Run!BatchIps, T)) :
                 Run!Only(Run!BatchIps, T)[k] = Run!Only(Run!BatchIps, T)[l] => k = l
        <5>1. Run!BatchIps \in Seq(Hosts)
          BY <1>2
        <5>2. \A i, j \in 1 .. Len(Run!BatchIps) : Run!BatchIps[i] = Run!BatchIps[j] => i = j
          BY <2>5
        <5> DEFINE s == Run!BatchIps
                   D == Hosts
        <5> HIDE DEF s, D
        <5>3. s \in Seq(D) /\ \A i, j \in 1 .. Len(s) : s[i] = s[j] => i = j
          BY <5>1, <5>2 DEF s, D
        <5>4. /\ Run!Only(s, T) \in Seq(D)
              /\ \A k \in 1 .. Len(Run!Only(s, T)) :
                   \E i \in 1 .. Len(s) : Run!Only(s, T)[k] = s[i]
              /\ \A k, l \in 1 .. Len(Run!Only(s, T)) :
                   Run!Only(s, T)[k] = Run!Only(s, T)[l] => k = l
          BY <5>3, OnlyFilters
        <5> QED BY <5>4 DEF s, D
      <4> QED BY <1>2, <4>1, <4>2
    <3> QED BY <2>1, <3>1, <3>2
  <2>7. \A i \in 1 .. Len(arpTodo') :
          /\ arpTodo'[i] \notin down
          /\ \E k \in batch + 1 .. Run!BatchEnd : arpTodo'[i] = ips[k]
    <3> SUFFICES ASSUME NEW i \in 1 .. Len(arpTodo')
                 PROVE  /\ arpTodo'[i] \notin down
                        /\ \E k \in batch + 1 .. Run!BatchEnd : arpTodo'[i] = ips[k]
      OBVIOUS
    <3>1. PICK k \in 1 .. Run!BatchEnd - batch : arpTodo'[i] = Run!BatchIps[k]
      BY <2>6
    <3>2. /\ batch + k \in batch + 1 .. Run!BatchEnd /\ arpTodo'[i] = ips[batch + k]
          /\ batch + k \in 1 .. Len(ips) /\ ~(batch + k <= batch)
      BY <1>2, <3>1
    <3> QED BY <2>4, <3>2
  <2>8. DownInv'
    <3>1. Reached' = Run!BatchEnd
      BY <2>1, <2>2 DEF Reached, InBatch
    <3>2. \A k \in 1 .. Len(ips) : ips[k] \in down => k <= Run!BatchEnd
      BY <1>2, <2>4
    <3> QED BY <2>1, <2>2, <2>6, <2>7, <3>1, <3>2 DEF DownInv
  <2>9. ResultsInv'
    BY <1>1, <2>1, <2>2 DEF ResultsInv, InBatch
  <2> QED BY <2>3, <2>8, <2>9 DEF HostInv
<1>4. CASE Run!ScanTarget
  <2>1. /\ phase = "target" /\ phase' = "report" /\ cur <= Len(Run!BatchIps)
        /\ Run!BatchIps[cur] \notin down
        /\ found' = [found EXCEPT ![cur] = Run!BatchIps[cur]]
        /\ UNCHANGED <<ips, batch, cur, down, downCount, allResults>>
    BY <1>4 DEF Run!ScanTarget, Run!AtTarget
  <2>2. Run!BatchEnd' = Run!BatchEnd
    BY <2>1 DEF Run!BatchEnd
  <2>3. PlanInv'
    BY <1>1, <2>1 DEF PlanInv, Phases, Early, InBatch
  <2>4. DownInv'
    <3>1. Reached' = Reached
      BY <2>1, <2>2 DEF Reached, InBatch
    <3> QED BY <1>1, <2>1, <3>1 DEF DownInv, InBatch
  <2>5. cur \in 1 .. Run!BatchEnd - batch /\ batch + cur \in 1 .. Len(ips)
        /\ Run!BatchIps[cur] = ips[batch + cur]
    BY <1>1, <1>2, <2>1 DEF PlanInv
  <2>6. /\ found \in [1 .. Run!BatchEnd - batch -> Hosts \cup {"none"}]
        /\ \A k \in 1 .. Run!BatchEnd - batch :
             found[k] \in {"none", ips[batch + k]} /\ found[k] \notin down
    BY <1>1, <2>1 DEF ResultsInv, InBatch
  <2>7. /\ found' \in [1 .. Run!BatchEnd - batch -> Hosts \cup {"none"}]
        /\ \A k \in 1 .. Run!BatchEnd - batch :
             found'[k] = IF k = cur THEN ips[batch + cur] ELSE found[k]
    BY <1>2, <2>1, <2>5, <2>6
  <2>8. \A k \in 1 .. Run!BatchEnd - batch :
             found'[k] \in {"none", ips[batch + k]} /\ found'[k] \notin down
    BY <2>1, <2>5, <2>6, <2>7
  <2>9. ResultsInv'
    BY <1>1, <2>1, <2>2, <2>7, <2>8 DEF ResultsInv, InBatch
  <2> QED BY <2>3, <2>4, <2>9 DEF HostInv
<1> QED BY <1>3, <1>4

\* One ARP batch: its silent hosts are down from now on, each for the first time.
LEMMA HostResolve ==
    ASSUME HostInv, Run!Resolve \/ Run!ResolveFails
    PROVE  HostInv'
<1> USE DEF Run!plan, Run!hosts
<1>1. PlanInv /\ DownInv /\ ResultsInv
  BY DEF HostInv
<1>2. /\ Len(ips) \in Nat /\ Run!BatchEnd \in Nat /\ batch \in Nat
      /\ batch <= Run!BatchEnd /\ Run!BatchEnd <= Len(ips)
      /\ \A k \in 1 .. Len(ips) : ips[k] \in Hosts
      /\ "none" \notin Hosts /\ IsFiniteSet(down)
  BY <1>1, BatchFacts DEF PlanInv
<1> DEFINE n == IF Len(arpTodo) < ArpBatchSize THEN Len(arpTodo) ELSE ArpBatchSize
           Asked == {arpTodo[i] : i \in 1 .. n}
<1>3. /\ phase = "resolve" /\ phase' = phase
      /\ UNCHANGED <<ips, batch, cur, allResults, found>>
      /\ arpTodo' = SubSeq(arpTodo, Len(Run!ArpBatch) + 1, Len(arpTodo))
  BY DEF Run!Resolve, Run!ResolveFails
<1>4. /\ arpTodo \in Seq(Hosts) /\ Len(arpTodo) \in Nat
      /\ \A i, j \in 1 .. Len(arpTodo) : arpTodo[i] = arpTodo[j] => i = j
      /\ \A i \in 1 .. Len(arpTodo) :
           /\ arpTodo[i] \in Hosts /\ arpTodo[i] \notin down
           /\ \E k \in batch + 1 .. Run!BatchEnd : arpTodo[i] = ips[k]
  BY <1>1, <1>3 DEF DownInv
<1>5. n \in Nat /\ n <= Len(arpTodo)
  BY <1>4, ScanPartsAssumption
<1>6. Len(Run!ArpBatch) = n /\ Run!Range(Run!ArpBatch) = Asked
  <2>1. Run!ArpBatch = SubSeq(arpTodo, 1, n)
    BY DEF Run!ArpBatch
  <2>2. \A i \in 1 .. n : arpTodo[i] \in Hosts
    BY <1>4, <1>5
  <2> HIDE DEF n
  <2>3. /\ Run!ArpBatch \in Seq(Hosts)
        /\ Len(Run!ArpBatch) = IF 1 <= n THEN n - 1 + 1 ELSE 0
        /\ \A i \in 1 .. n - 1 + 1 : Run!ArpBatch[i] = arpTodo[1 + i - 1]
    <3>1. 1 \in Int /\ n \in Int
      BY <1>5
    <3> QED BY <2>1, <2>2, <3>1, SubSeqProperties
  <2>4. Len(Run!ArpBatch) = n /\ \A i \in 1 .. n : Run!ArpBatch[i] = arpTodo[i]
    BY <1>5, <2>3
  <2>5. DOMAIN Run!ArpBatch = 1 .. n
    BY <2>3, <2>4
  <2> QED BY <2>4, <2>5 DEF Run!Range
<1> HIDE DEF n
<1>7. /\ arpTodo' \in Seq(Hosts) /\ Len(arpTodo') = Len(arpTodo) - n
      /\ \A i \in 1 .. Len(arpTodo) - n : arpTodo'[i] = arpTodo[n + i]
  <2>1. \A i \in n + 1 .. Len(arpTodo) : arpTodo[i] \in Hosts
    BY <1>4, <1>5
  <2>2. n + 1 \in Int /\ Len(arpTodo) \in Int
    BY <1>4, <1>5
  <2>3. arpTodo' = SubSeq(arpTodo, n + 1, Len(arpTodo))
    BY <1>3, <1>6
  <2>4. /\ arpTodo' \in Seq(Hosts)
        /\ Len(arpTodo') = IF n + 1 <= Len(arpTodo) THEN Len(arpTodo) - (n + 1) + 1 ELSE 0
        /\ \A i \in 1 .. Len(arpTodo) - (n + 1) + 1 : arpTodo'[i] = arpTodo[n + 1 + i - 1]
    BY <2>1, <2>2, <2>3, SubSeqProperties
  <2>5. Len(arpTodo) - (n + 1) + 1 = Len(arpTodo) - n
        /\ (~(n + 1 <= Len(arpTodo)) => Len(arpTodo) - n = 0)
        /\ \A i \in 1 .. Len(arpTodo) - n : n + 1 + i - 1 = n + i
    BY <1>4, <1>5
  <2> QED BY <2>4, <2>5
\* The hosts that are found down: among those that were asked.
<1>8. \E silent \in SUBSET Asked :
        down' = down \cup silent /\ downCount' = downCount + Cardinality(silent)
  <2>1. CASE Run!Resolve
    <3>1. PICK replied \in SUBSET (Run!Range(Run!ArpBatch) \ {Self}) :
            LET resolved == IF Self \in Run!Range(Run!ArpBatch) THEN {Self} ELSE replied
                silent   == Run!Range(Run!ArpBatch) \ resolved
            IN  down' = down \cup silent /\ downCount' = downCount + Run!Cardinality(silent)
      BY <2>1 DEF Run!Resolve
    <3> DEFINE silent == Run!Range(Run!ArpBatch)
                           \ (IF Self \in Run!Range(Run!ArpBatch) THEN {Self} ELSE replied)
    <3>2. down' = down \cup silent /\ downCount' = downCount + Run!Cardinality(silent)
      BY <3>1
    <3>3. silent \in SUBSET Asked
      BY <1>6
    <3>4. Run!Cardinality(silent) = Cardinality(silent)
      BY RunCardinals
    <3> HIDE DEF silent
    <3> QED BY <3>2, <3>3, <3>4
  <2>2. CASE Run!ResolveFails
    <3>1. down' = down /\ downCount' = downCount
      BY <2>2 DEF Run!ResolveFails
    <3>2. Cardinality({}) = 0 /\ downCount + 0 = downCount
      <4>1. Cardinality(down) \in Nat
        BY <1>2, FS_CardinalityType
      <4> QED BY <1>1, <4>1, FS_EmptySet DEF PlanInv
    <3> QED BY <3>1, <3>2
  <2> QED BY <2>1, <2>2
<1>9. PICK silent \in SUBSET Asked :
        down' = down \cup silent /\ downCount' = downCount + Cardinality(silent)
  BY <1>8
\* Where they are among the targets.
<1>10. ASSUME NEW h \in silent
       PROVE  /\ h \in Hosts /\ h \notin down
              /\ \E i \in 1 .. n : h = arpTodo[i]
              /\ \E k \in batch + 1 .. Run!BatchEnd : h = ips[k]
  <2>1. PICK i \in 1 .. n : h = arpTodo[i]
    BY <1>9
  <2>2. i \in 1 .. Len(arpTodo)
    BY <1>4, <1>5
  <2> QED BY <1>4, <2>1, <2>2
<1>11. ASSUME NEW k \in 1 .. Len(ips), ips[k] \in silent
       PROVE  k \in batch + 1 .. Run!BatchEnd
  <2>1. PICK l \in batch + 1 .. Run!BatchEnd : ips[k] = ips[l]
    BY <1>10, <1>11
  <2>2. l \in 1 .. Len(ips)
    BY <1>2
  <2> QED BY <1>1, <2>1, <2>2 DEF PlanInv
<1>12. PlanInv'
  <2>1. down' \subseteq Hosts
    BY <1>1, <1>9, <1>10 DEF PlanInv
  <2>2. downCount' = Cardinality(down')
    <3>1. IsFiniteSet(silent) /\ down \cap silent = {}
      <4>1. silent \subseteq Hosts /\ down \cap silent = {}
        BY <1>10
      <4> QED BY <4>1, HostsFinite, FS_Subset
    <3>2. Cardinality(down \cup silent) =
            Cardinality(down) + Cardinality(silent) - Cardinality(down \cap silent)
      BY <1>2, <3>1, FS_Union
    <3>3. Cardinality(down) \in Nat /\ Cardinality(silent) \in Nat /\ Cardinality({}) = 0
      <4>1. Cardinality({}) = 0
        BY FS_EmptySet
      <4>2. Cardinality(down) \in Nat
        BY <1>2, FS_CardinalityType
      <4>3. Cardinality(silent) \in Nat
        BY <3>1, FS_CardinalityType
      <4> QED BY <4>1, <4>2, <4>3
    <3>4. Cardinality(down \cup silent) = Cardinality(down) + Cardinality(silent)
      <4>1. Cardinality(down \cap silent) = 0
        BY <3>1, <3>3, Zenon
      <4> QED BY <3>2, <3>3, <4>1
    <3> QED BY <1>1, <1>9, <3>4 DEF PlanInv
  <2> QED BY <1>1, <1>3, <2>1, <2>2 DEF PlanInv, Early
<1>13. Run!BatchEnd' = Run!BatchEnd /\ Reached = Run!BatchEnd /\ Reached' = Run!BatchEnd
  BY <1>3 DEF Run!BatchEnd, Reached, InBatch
<1>14. DownInv'
  <2>1. \A k \in 1 .. Len(ips) : ips[k] \in down' => k <= Run!BatchEnd
    <3> SUFFICES ASSUME NEW k \in 1 .. Len(ips), ips[k] \in down'
                 PROVE  k <= Run!BatchEnd
      OBVIOUS
    <3>1. CASE ips[k] \in down
      BY <1>1, <1>3, <1>13, <3>1 DEF DownInv, InBatch
    <3>2. CASE ips[k] \in silent
      BY <1>2, <1>11, <3>2
    <3> QED BY <1>9, <3>1, <3>2
  <2>2. \A i \in 1 .. Len(arpTodo') : i \in 1 .. Len(arpTodo) - n /\ n + i \in 1 .. Len(arpTodo)
                                      /\ arpTodo'[i] = arpTodo[n + i]
    BY <1>4, <1>5, <1>7
  <2>3. \A i, j \in 1 .. Len(arpTodo') : arpTodo'[i] = arpTodo'[j] => i = j
    <3> SUFFICES ASSUME NEW i \in 1 .. Len(arpTodo'), NEW j \in 1 .. Len(arpTodo'),
                        arpTodo'[i] = arpTodo'[j]
                 PROVE  i = j
      OBVIOUS
    <3>1. n + i = n + j
      BY <1>4, <2>2
    <3>2. i \in Int /\ j \in Int
      BY <1>4, <1>5, <1>7
    <3> QED BY <1>5, <3>1, <3>2
  <2>4. ASSUME NEW i \in 1 .. Len(arpTodo')
        PROVE  /\ arpTodo'[i] \notin down'
               /\ \E k \in batch + 1 .. Run!BatchEnd : arpTodo'[i] = ips[k]
    <3>1. /\ arpTodo'[i] = arpTodo[n + i] /\ n + i \in 1 .. Len(arpTodo) /\ i \in Nat \ {0}
      BY <1>4, <1>5, <1>7, <2>2
    <3>2. arpTodo[n + i] \notin silent
      <4> SUFFICES ASSUME arpTodo[n + i] \in silent PROVE FALSE
        OBVIOUS
      <4>1. PICK j \in 1 .. n : arpTodo[n + i] = arpTodo[j]
        BY <1>10
      <4>2. j \in 1 .. Len(arpTodo) /\ j # n + i
        BY <1>4, <1>5, <3>1
      <4> QED BY <1>4, <3>1, <4>1, <4>2
    <3> QED BY <1>4, <1>9, <3>1, <3>2
  <2> QED BY <1>3, <1>7, <1>13, <2>1, <2>3, <2>4 DEF DownInv
<1>15. ResultsInv'
  <2>1. "none" \notin silent
    BY <1>2, <1>10
  <2>2. \A k \in DOMAIN allResults : allResults[k] \notin down'
    <3> SUFFICES ASSUME NEW k \in DOMAIN allResults PROVE allResults[k] \notin down'
      OBVIOUS
    <3>1. /\ k \in 1 .. Len(ips) /\ allResults[k] \in {"none", ips[k]}
          /\ (k > batch => allResults[k] = "none") /\ allResults[k] \notin down
      BY <1>1 DEF ResultsInv
    <3>2. allResults[k] \notin silent
      <4>1. CASE allResults[k] = "none"
        BY <2>1, <4>1
      <4>2. CASE allResults[k] # "none"
        <5>1. allResults[k] = ips[k] /\ k \notin batch + 1 .. Run!BatchEnd
          BY <1>2, <3>1, <4>2
        <5> QED BY <1>11, <3>1, <5>1
      <4> QED BY <4>1, <4>2
    <3> QED BY <1>9, <3>1, <3>2
  <2>3. \A k \in 1 .. Run!BatchEnd - batch : found[k] = "none" /\ found[k] \notin down'
    BY <1>1, <1>3, <1>9, <2>1 DEF ResultsInv, InBatch
  <2> QED BY <1>1, <1>3, <1>13, <2>2, <2>3 DEF ResultsInv, InBatch
<1> QED BY <1>12, <1>14, <1>15 DEF HostInv

LEMMA HostNext == HostInv /\ Run!Next => HostInv'
BY HostQuiet, HostFilters, HostBatches, HostTargets, HostResolve DEF Run!Next, Run!Main

LEMMA HostProperties == HostInv => DownCountExact /\ ResultsInPlace
<1> SUFFICES ASSUME HostInv PROVE DownCountExact /\ ResultsInPlace
  OBVIOUS
<1>1. PlanInv /\ ResultsInv
  BY DEF HostInv
<1>2. ResultsInPlace
  BY <1>1 DEF ResultsInv, ResultsInPlace, Run!ResultsInPlace
<1>3. downCount = Run!Cardinality(down)
  BY <1>1, RunCardinals DEF PlanInv
<1>4. \A k \in DOMAIN allResults : allResults[k] \notin down
  BY <1>1 DEF ResultsInv
<1>5. \A k \in DOMAIN found : found[k] \notin down
  <2>1. CASE phase \in InBatch
    BY <1>1, <2>1 DEF ResultsInv
  <2>2. CASE phase \notin InBatch
    BY <1>1, <2>2 DEF ResultsInv
  <2> QED BY <2>1, <2>2
<1> QED BY <1>2, <1>3, <1>4, <1>5 DEF DownCountExact, Run!DownCountExact

-----------------------------------------------------------------------------
(***************************************************************************)
(* send_tcp_packets.                                                       *)
(***************************************************************************)
SendPhases == {"idle", "build", "cut", "noring", "fill", "submit", "reap", "drain", "end"}
FragPhases == {"fill6", "submit6", "reap6", "drain6", "end6"}

\* The types of the call's state.
SendTypes ==
    /\ sendPc \in SendPhases \cup FragPhases
    /\ tasks \in Seq(Snd!Task) /\ packets \subseteq 1 .. Len(tasks)
    /\ frags \in Seq(Nat) /\ off \in Nat /\ next \in Nat \ {0}
    /\ in_flight \in Int
    /\ pool \in Nat /\ sq \in Nat /\ kernel \in Nat /\ cq \in Nat /\ dropped \in Nat
    /\ tally \in [Snd!Counters -> Int] /\ tally.drain_timeout >= 0
    /\ sendStop \in BOOLEAN /\ disconnect \in BOOLEAN

\* Where the packets and fragments of the call are: while packets are built and cut, the
\* ones before next are done and the others still to come.
WorkInv ==
    /\ sendPc = "idle" => packets = {} /\ frags = <<>>
    /\ sendPc = "build" => packets = 1 .. next - 1 /\ frags = <<>> /\ off = 0
                           /\ next <= Len(tasks) + 1
    /\ sendPc = "cut" => next .. Len(tasks) \subseteq packets /\ off <= Len(frags)
    /\ sendPc \in FragPhases => packets = {} /\ next <= Len(frags) + 1

\* Every buffer is in one place.
PoolInv ==
    /\ pool + Cardinality(packets) + Snd!FragsHeld + Snd!Outstanding + dropped = PoolSize
    /\ dropped > 0 => disconnect

\* Until a drain has timed out, in_flight is exact, and a call begins and ends with
\* nothing in the ring.
FlightInv ==
    tally.drain_timeout = 0 =>
      /\ sendPc # "idle" => in_flight = Snd!Outstanding + dropped
      /\ sendPc \in {"idle", "build", "cut", "noring", "end", "end6"} =>
           Snd!Outstanding + dropped = 0
      /\ Snd!Outstanding <= Window

SendInv == SendTypes /\ WorkInv /\ PoolInv /\ FlightInv

\* SendBatch counts with the Cardinality of its own instance of FiniteSets.
LEMMA Cardinals == \A S : Snd!Cardinality(S) = Cardinality(S)
BY DEF Snd!Cardinality, Cardinality

LEMMA SendInit == Snd!Init => SendInv
<1> SUFFICES ASSUME Snd!Init PROVE SendInv
  OBVIOUS
<1>1. Cardinality({}) = 0
  BY FS_EmptySet
<1>2. tally \in [Snd!Counters -> Int] /\ tally.drain_timeout = 0
  BY DEF Snd!Init, Snd!Counters
<1>3. Snd!FragsHeld = 0 /\ Snd!Outstanding = 0
  BY DEF Snd!Init, Snd!FragsHeld, Snd!Phase, Snd!Outstanding
<1>4. SendTypes
  <2>1. tasks = <<>> /\ frags = <<>> /\ packets = {} /\ sendPc = "idle" /\ next = 1
    BY DEF Snd!Init
  <2>2. tasks \in Seq(Snd!Task) /\ frags \in Seq(Nat) /\ packets \subseteq 1 .. Len(tasks)
    BY <2>1
  <2>3. /\ off \in Nat /\ in_flight \in Int /\ pool \in Nat /\ sq \in Nat /\ kernel \in Nat
        /\ cq \in Nat /\ dropped \in Nat
    <3>1. /\ off = 0 /\ in_flight = 0 /\ pool = PoolSize /\ sq = 0 /\ kernel = 0 /\ cq = 0
          /\ dropped = 0
      BY DEF Snd!Init
    <3>2. PoolSize \in Nat
      BY ScanPartsAssumption
    <3> QED BY <3>1, <3>2
  <2>5. sendStop \in BOOLEAN /\ disconnect \in BOOLEAN
    BY Zenon DEF Snd!Init
  <2>4. sendPc \in SendPhases \cup FragPhases
    BY <2>1 DEF SendPhases
  <2> QED BY <1>2, <2>1, <2>2, <2>3, <2>4, <2>5 DEF SendTypes
<1>5. WorkInv
  BY DEF Snd!Init, WorkInv, FragPhases
<1>6. PoolInv /\ FlightInv
  BY <1>1, <1>3, ScanPartsAssumption DEF Snd!Init, PoolInv, FlightInv
<1> QED BY <1>4, <1>5, <1>6 DEF SendInv

\* The sizes of the set of packets.
LEMMA PacketSizes ==
    ASSUME SendTypes
    PROVE  /\ Len(tasks) \in Nat /\ Cardinality(packets) \in Nat
           /\ Cardinality({}) = 0 /\ Len(frags) \in Nat
           /\ \A k \in packets : Cardinality(packets \ {k}) = Cardinality(packets) - 1
           /\ \A k \in Nat : k \notin packets =>
                Cardinality(packets \cup {k}) = Cardinality(packets) + 1
<1>1. Len(tasks) \in Nat /\ Len(frags) \in Nat
  BY DEF SendTypes
<1>2. IsFiniteSet(packets)
  <2>1. IsFiniteSet(1 .. Len(tasks))
    BY <1>1, FS_Interval
  <2> QED BY <2>1, FS_Subset DEF SendTypes
<1>3. \A k \in packets : Cardinality(packets \ {k}) = Cardinality(packets) - 1
  BY <1>2, FS_RemoveElement
<1>4. \A k \in Nat : k \notin packets =>
        Cardinality(packets \cup {k}) = Cardinality(packets) + 1
  BY <1>2, FS_AddElement
<1> QED BY <1>1, <1>2, <1>3, <1>4, FS_EmptySet, FS_CardinalityType

\* A loss counter goes up.
LEMMA TallyStep ==
    ASSUME SendTypes, NEW c \in Snd!Counters, NEW n \in Int
    PROVE  tally' = [tally EXCEPT ![c] = @ + n] =>
             /\ tally' \in [Snd!Counters -> Int]
             /\ tally'.drain_timeout = IF c = "drain_timeout" THEN tally.drain_timeout + n
                                                              ELSE tally.drain_timeout
<1>1. tally \in [Snd!Counters -> Int] /\ tally[c] + n \in Int
  BY DEF SendTypes
<1>2. "drain_timeout" \in Snd!Counters
  BY DEF Snd!Counters
<1> QED BY <1>1, <1>2

\* What a step of the call does when its buffers stay accounted for: the proofs below
\* give the new types and places, the sums follow by arithmetic.
LEMMA SendBuild ==
    ASSUME SendInv, Snd!init_global_send_ctx \/ Snd!Call \/ Snd!Build \/ Snd!BuildFails
                    \/ Snd!AllBuilt
    PROVE  SendInv'
<1>1. SendTypes /\ WorkInv /\ PoolInv /\ FlightInv
  BY DEF SendInv
<1>2. /\ Len(tasks) \in Nat /\ Cardinality(packets) \in Nat /\ Cardinality({}) = 0
      /\ Len(frags) \in Nat
      /\ \A k \in Nat : k \notin packets =>
           Cardinality(packets \cup {k}) = Cardinality(packets) + 1
  BY <1>1, PacketSizes
<1> USE DEF Snd!workVars, Snd!ioVars, Snd!flagVars, SendPhases, FragPhases
<1>3. CASE Snd!init_global_send_ctx
  BY <1>1, <1>3
  DEF Snd!init_global_send_ctx, SendInv, SendTypes, WorkInv, PoolInv, FlightInv,
      Snd!FragsHeld, Snd!Phase, Snd!Outstanding
<1>4. CASE Snd!Call
  <2>1. /\ sendPc = "idle" /\ sendPc' \in {"idle", "build"} /\ tasks' \in Batches
        /\ packets' = {} /\ frags' = <<>> /\ off' = 0 /\ next' = 1 /\ in_flight' = 0
        /\ UNCHANGED <<pool, sq, kernel, cq, dropped, sendStop, disconnect>>
        /\ tally' = [tally EXCEPT !["handed"] = @ + Len(tasks')]
    BY <1>4 DEF Snd!Call, Snd!Count
  <2>2. tasks' \in Seq(Snd!Task) /\ Len(tasks') \in Nat
    BY <2>1, ScanPartsAssumption
  <2>3. tally' \in [Snd!Counters -> Int] /\ tally'.drain_timeout = tally.drain_timeout
    BY <1>1, <2>1, <2>2 DEF SendTypes, Snd!Counters
  <2>4. Snd!FragsHeld = 0 /\ Snd!FragsHeld' = 0 /\ packets = {}
    BY <1>1, <2>1 DEF WorkInv, Snd!FragsHeld, Snd!Phase
  <2>5. Snd!Outstanding' = Snd!Outstanding
    BY <2>1 DEF Snd!Outstanding
  <2>6. SendTypes'
    BY <1>1, <2>1, <2>2, <2>3 DEF SendTypes
  <2>7. WorkInv'
    BY <2>1, <2>2 DEF WorkInv
  <2>8. PoolInv' /\ FlightInv'
    BY <1>1, <1>2, <2>1, <2>3, <2>4, <2>5 DEF PoolInv, FlightInv, SendTypes, Snd!Outstanding
  <2> QED BY <2>6, <2>7, <2>8 DEF SendInv
<1>5. CASE Snd!Build
  <2>1. /\ sendPc = "build" /\ next <= Len(tasks) /\ pool > 0
        /\ packets' = packets \cup {next} /\ pool' = pool - 1 /\ next' = next + 1
        /\ UNCHANGED <<sendPc, tasks, frags, off, in_flight, sq, kernel, cq, dropped, tally,
                       sendStop, disconnect>>
    BY <1>5 DEF Snd!Build
  <2>2. next \in Nat /\ next > 0 /\ packets = 1 .. next - 1 /\ next \notin packets
    BY <1>1, <2>1 DEF SendTypes, WorkInv
  <2>3. Cardinality(packets') = Cardinality(packets) + 1
    BY <1>2, <2>1, <2>2
  <2>4. packets' = 1 .. next' - 1 /\ packets' \subseteq 1 .. Len(tasks)
    BY <1>2, <2>1, <2>2
  <2>5. Snd!FragsHeld = Len(frags) /\ Snd!FragsHeld' = Len(frags)
        /\ Snd!Outstanding' = Snd!Outstanding
    BY <2>1 DEF Snd!FragsHeld, Snd!Phase, Snd!Outstanding
  <2>6. SendTypes'
    BY <1>1, <2>1, <2>2, <2>4 DEF SendTypes
  <2>7. WorkInv'
    BY <1>1, <1>2, <2>1, <2>2, <2>4 DEF WorkInv
  <2>8. PoolInv' /\ FlightInv'
    BY <1>1, <1>2, <2>1, <2>3, <2>5 DEF PoolInv, FlightInv, SendTypes, Snd!Outstanding
  <2> QED BY <2>6, <2>7, <2>8 DEF SendInv
<1>6. CASE Snd!BuildFails
  <2>1. /\ sendPc = "build" /\ sendPc' = "idle" /\ packets' = {}
        /\ pool' = pool + Cardinality(packets)
        /\ UNCHANGED <<tasks, frags, off, next, in_flight, sq, kernel, cq, dropped,
                       sendStop, disconnect>>
    BY <1>6, Cardinals DEF Snd!BuildFails
  <2>2. tally' \in [Snd!Counters -> Int] /\ tally'.drain_timeout = tally.drain_timeout
    <3> DEFINE c == IF pool = 0 THEN "buffer_pool" ELSE "build_fail"
    <3>1. tally' = [tally EXCEPT ![c] = @ + Len(tasks)]
      BY <1>6, Zenon DEF Snd!BuildFails, Snd!Count
    <3>2. c \in Snd!Counters /\ c # "drain_timeout" /\ Len(tasks) \in Int
      BY <1>2 DEF Snd!Counters
    <3> HIDE DEF c
    <3>3. tally' = [tally EXCEPT ![c] = @ + Len(tasks)] =>
            /\ tally' \in [Snd!Counters -> Int]
            /\ tally'.drain_timeout = IF c = "drain_timeout"
                 THEN tally.drain_timeout + Len(tasks) ELSE tally.drain_timeout
      BY <1>1, <3>2, TallyStep, Zenon
    <3> QED BY <3>1, <3>2, <3>3
  <2>3. frags = <<>>
    BY <1>1, <2>1 DEF WorkInv
  <2>4. Snd!FragsHeld = Len(frags) /\ Snd!FragsHeld' = Len(frags)
        /\ Snd!Outstanding' = Snd!Outstanding
    BY <2>1 DEF Snd!FragsHeld, Snd!Phase, Snd!Outstanding
  <2>5. SendTypes'
    BY <1>1, <1>2, <2>1, <2>2 DEF SendTypes
  <2>6. WorkInv'
    BY <2>1, <2>3 DEF WorkInv
  <2>7. PoolInv' /\ FlightInv'
    BY <1>1, <1>2, <2>1, <2>2, <2>4 DEF PoolInv, FlightInv, SendTypes, Snd!Outstanding
  <2> QED BY <2>5, <2>6, <2>7 DEF SendInv
<1>7. CASE Snd!AllBuilt
  <2>1. /\ sendPc = "build" /\ sendPc' = "cut" /\ next > Len(tasks) /\ next' = 1
        /\ UNCHANGED <<tasks, packets, frags, off, in_flight, pool, sq, kernel, cq, dropped,
                       tally, sendStop, disconnect>>
    BY <1>7 DEF Snd!AllBuilt
  <2>2. next = Len(tasks) + 1 /\ packets = 1 .. next - 1 /\ off = 0
    BY <1>1, <1>2, <2>1 DEF SendTypes, WorkInv
  <2>3. Snd!FragsHeld = Len(frags) /\ Snd!FragsHeld' = Len(frags)
        /\ Snd!Outstanding' = Snd!Outstanding
    BY <2>1 DEF Snd!FragsHeld, Snd!Phase, Snd!Outstanding
  <2>4. SendTypes'
    BY <1>1, <2>1 DEF SendTypes
  <2>5. WorkInv'
    BY <1>2, <2>1, <2>2 DEF WorkInv
  <2>6. PoolInv' /\ FlightInv'
    BY <1>1, <2>1, <2>3 DEF PoolInv, FlightInv
  <2> QED BY <2>4, <2>5, <2>6 DEF SendInv
<1> QED BY <1>3, <1>4, <1>5, <1>6, <1>7

LEMMA SendCut ==
    ASSUME SendInv,
           Snd!SkipWhole \/ Snd!Cut \/ Snd!CutDone \/ Snd!CutFails \/ Snd!AllCut \/ Snd!NoRing
    PROVE  SendInv'
<1>1. SendTypes /\ WorkInv /\ PoolInv /\ FlightInv
  BY DEF SendInv
<1>2. /\ Len(tasks) \in Nat /\ Cardinality(packets) \in Nat /\ Cardinality({}) = 0
      /\ Len(frags) \in Nat
      /\ \A k \in packets : Cardinality(packets \ {k}) = Cardinality(packets) - 1
  BY <1>1, PacketSizes
<1> USE DEF Snd!workVars, Snd!ioVars, Snd!flagVars, SendPhases, FragPhases
<1>3. ASSUME sendPc = "cut", next <= Len(tasks)
      PROVE  /\ next \in packets /\ next \in 1 .. Len(tasks) /\ next \in Nat \ {0}
             /\ next + 1 .. Len(tasks) \subseteq packets \ {next}
             /\ off <= Len(frags) /\ Snd!FragsHeld = Len(frags)
  <2>1. next .. Len(tasks) \subseteq packets /\ next \in Nat \ {0} /\ off <= Len(frags)
    BY <1>1, <1>3 DEF SendTypes, WorkInv
  <2>2. next \in next .. Len(tasks) /\ next \in 1 .. Len(tasks)
        /\ next + 1 .. Len(tasks) \subseteq (next .. Len(tasks)) \ {next}
    BY <1>2, <1>3, <2>1
  <2> QED BY <1>3, <2>1, <2>2 DEF Snd!FragsHeld, Snd!Phase
<1>4. CASE Snd!SkipWhole
  <2>1. /\ sendPc = "cut" /\ next <= Len(tasks) /\ next' = next + 1
        /\ UNCHANGED <<sendPc, tasks, packets, frags, off, in_flight, pool, sq, kernel, cq,
                       dropped, tally, sendStop, disconnect>>
    BY <1>4 DEF Snd!SkipWhole
  <2>2. Snd!FragsHeld' = Len(frags) /\ Snd!Outstanding' = Snd!Outstanding
    BY <2>1 DEF Snd!FragsHeld, Snd!Phase, Snd!Outstanding
  <2>3. SendTypes'
    BY <1>1, <1>3, <2>1 DEF SendTypes
  <2>4. WorkInv'
    BY <1>3, <2>1 DEF WorkInv
  <2>5. PoolInv' /\ FlightInv'
    BY <1>1, <1>3, <2>1, <2>2 DEF PoolInv, FlightInv
  <2> QED BY <2>3, <2>4, <2>5 DEF SendInv
<1>5. CASE Snd!Cut
  <2>1. /\ sendPc = "cut" /\ next <= Len(tasks) /\ pool > 0
        /\ frags' = Append(frags, next) /\ pool' = pool - 1 /\ off' = off + 1
        /\ UNCHANGED <<sendPc, tasks, packets, next, in_flight, sq, kernel, cq,
                       dropped, tally, sendStop, disconnect>>
    BY <1>5 DEF Snd!Cut, Snd!Cutting
  <2>2. frags' \in Seq(Nat) /\ Len(frags') = Len(frags) + 1
    BY <1>1, <1>3, <2>1 DEF SendTypes
  <2>3. /\ Snd!FragsHeld' = Len(frags) + 1 /\ Snd!Outstanding' = Snd!Outstanding
        /\ Snd!FragsHeld = Len(frags) /\ off \in Nat /\ off <= Len(frags)
    BY <1>1, <2>1, <2>2 DEF Snd!FragsHeld, Snd!Phase, Snd!Outstanding, SendTypes, WorkInv
  <2>4. SendTypes'
    BY <1>1, <2>1, <2>2 DEF SendTypes
  <2>5. WorkInv'
    BY <1>1, <1>2, <1>3, <2>1, <2>2 DEF WorkInv, SendTypes
  <2>6. PoolInv' /\ FlightInv'
    BY <1>1, <1>2, <2>1, <2>3 DEF PoolInv, FlightInv, SendTypes, Snd!Outstanding
  <2> QED BY <2>4, <2>5, <2>6 DEF SendInv
<1>6. CASE Snd!CutDone
  <2>1. /\ sendPc = "cut" /\ next <= Len(tasks)
        /\ packets' = packets \ {next} /\ pool' = pool + 1 /\ next' = next + 1 /\ off' = 0
        /\ UNCHANGED <<sendPc, tasks, frags, in_flight, sq, kernel, cq,
                       dropped, tally, sendStop, disconnect>>
    BY <1>6 DEF Snd!CutDone, Snd!Cutting
  <2>2. Cardinality(packets') = Cardinality(packets) - 1
    BY <1>2, <1>3, <2>1
  <2>3. Snd!FragsHeld' = Len(frags) /\ Snd!Outstanding' = Snd!Outstanding
    BY <2>1 DEF Snd!FragsHeld, Snd!Phase, Snd!Outstanding
  <2>4. SendTypes'
    BY <1>1, <1>3, <2>1 DEF SendTypes
  <2>5. WorkInv'
    BY <1>2, <1>3, <2>1 DEF WorkInv
  <2>6. PoolInv' /\ FlightInv'
    BY <1>1, <1>2, <1>3, <2>1, <2>2, <2>3 DEF PoolInv, FlightInv, SendTypes, Snd!Outstanding
  <2> QED BY <2>4, <2>5, <2>6 DEF SendInv
<1>7. CASE Snd!CutFails
  <2>1. /\ sendPc = "cut" /\ next <= Len(tasks)
        /\ frags' = SubSeq(frags, 1, Len(frags) - off) /\ pool' = pool + 1 + off
        /\ packets' = packets \ {next} /\ next' = next + 1 /\ off' = 0
        /\ UNCHANGED <<sendPc, tasks, in_flight, sq, kernel, cq, dropped, sendStop, disconnect>>
        /\ tally' = [tally EXCEPT !["buffer_pool"] = @ + 1]
    BY <1>7 DEF Snd!CutFails, Snd!Cutting, Snd!Count
  <2>2. tally' \in [Snd!Counters -> Int] /\ tally'.drain_timeout = tally.drain_timeout
    <3>1. "buffer_pool" \in Snd!Counters /\ "buffer_pool" # "drain_timeout" /\ 1 \in Int
      BY DEF Snd!Counters
    <3>2. tally' = [tally EXCEPT !["buffer_pool"] = @ + 1] =>
            /\ tally' \in [Snd!Counters -> Int]
            /\ tally'.drain_timeout = IF "buffer_pool" = "drain_timeout"
                 THEN tally.drain_timeout + 1 ELSE tally.drain_timeout
      BY <1>1, <3>1, TallyStep, Zenon
    <3> QED BY <2>1, <3>1, <3>2
  <2>3. Cardinality(packets') = Cardinality(packets) - 1
    BY <1>2, <1>3, <2>1
  <2>4. frags' \in Seq(Nat) /\ Len(frags') = Len(frags) - off
    <3>1. off \in Nat /\ off <= Len(frags) /\ frags \in Seq(Nat)
      BY <1>1, <1>3, <2>1 DEF SendTypes
    <3>2. Len(frags) - off \in 0 .. Len(frags)
      BY <1>2, <3>1
    <3> QED BY <2>1, <3>1, <3>2, SubSeqProperties
  <2>5. /\ Snd!FragsHeld' = Len(frags) - off /\ Snd!Outstanding' = Snd!Outstanding
        /\ Snd!FragsHeld = Len(frags) /\ off \in Nat /\ off <= Len(frags)
    BY <1>1, <2>1, <2>4 DEF Snd!FragsHeld, Snd!Phase, Snd!Outstanding, SendTypes, WorkInv
  <2>6. SendTypes'
    BY <1>1, <1>2, <1>3, <2>1, <2>2, <2>4 DEF SendTypes
  <2>7. WorkInv'
    <3>1. Len(frags') \in Nat
      BY <1>2, <2>4, <2>5
    <3>2. sendPc' = "cut" /\ next' = next + 1 /\ tasks' = tasks
          /\ packets' = packets \ {next} /\ off' = 0
      BY <2>1
    <3>3. next + 1 .. Len(tasks) \subseteq packets \ {next}
      <4>1. sendPc = "cut" /\ next <= Len(tasks)
        BY <2>1
      <4> QED BY <1>3, <4>1
    <3>4. next' .. Len(tasks') \subseteq packets'
      BY <3>2, <3>3
    <3>5. off' <= Len(frags')
      BY <3>1, <3>2
    <3>6. sendPc' # "idle" /\ sendPc' # "build" /\ sendPc' \notin FragPhases
      BY <3>2
    <3> QED BY <3>4, <3>5, <3>6, Zenon DEF WorkInv
  <2>8. /\ pool' = pool + 1 + off /\ sendPc' = sendPc /\ sendPc = "cut"
        /\ UNCHANGED <<in_flight, sq, kernel, cq, dropped, disconnect>>
    BY <2>1
  <2>9. /\ pool \in Nat /\ dropped \in Nat /\ in_flight \in Int
        /\ Snd!Outstanding \in Nat /\ Snd!Outstanding' = Snd!Outstanding
    BY <1>1, <2>5 DEF SendTypes, Snd!Outstanding
  <2>10. PoolInv'
    BY <1>1, <1>2, <2>3, <2>5, <2>8, <2>9 DEF PoolInv
  <2>11. FlightInv'
    BY <1>1, <2>2, <2>8, <2>9 DEF FlightInv
  <2> QED BY <2>6, <2>7, <2>10, <2>11 DEF SendInv
<1>8. CASE Snd!AllCut
  <2>1. /\ sendPc = "cut" /\ sendPc' \in {"noring", "drain", "fill"} /\ next' = 1
        /\ UNCHANGED <<tasks, packets, frags, off, in_flight, pool, sq, kernel, cq,
                       dropped, tally, sendStop, disconnect>>
    BY <1>8 DEF Snd!AllCut
  <2>2. Snd!FragsHeld = Len(frags) /\ Snd!FragsHeld' = Len(frags)
        /\ Snd!Outstanding' = Snd!Outstanding
    BY <2>1 DEF Snd!FragsHeld, Snd!Phase, Snd!Outstanding
  <2>3. SendTypes'
    BY <1>1, <2>1 DEF SendTypes
  <2>4. WorkInv'
    BY <2>1 DEF WorkInv
  <2>5. PoolInv' /\ FlightInv'
    BY <1>1, <2>1, <2>2 DEF PoolInv, FlightInv
  <2> QED BY <2>3, <2>4, <2>5 DEF SendInv
<1>9. CASE Snd!NoRing
  <2>1. /\ sendPc = "noring" /\ sendPc' = "idle"
        /\ pool' = pool + Cardinality(packets) + Len(frags) /\ packets' = {} /\ frags' = <<>>
        /\ UNCHANGED <<tasks, off, next, in_flight, sq, kernel, cq, dropped, sendStop,
                       disconnect>>
    BY <1>9, Cardinals DEF Snd!NoRing
  <2>2. tally' \in [Snd!Counters -> Int] /\ tally'.drain_timeout = tally.drain_timeout
    <3>1. tally' = [tally EXCEPT !["aborted"] = @ + (Cardinality(packets) + Len(frags))]
      <4>1. tally' = [tally EXCEPT !["aborted"] = @ + (Snd!Cardinality(packets) + Len(frags))]
        BY <1>9, Zenon DEF Snd!NoRing, Snd!Count
      <4> QED BY <4>1, Cardinals
    <3>2. /\ "aborted" \in Snd!Counters /\ "aborted" # "drain_timeout"
          /\ Cardinality(packets) + Len(frags) \in Int
      BY <1>2 DEF Snd!Counters
    <3>3. tally' = [tally EXCEPT !["aborted"] = @ + (Cardinality(packets) + Len(frags))] =>
            /\ tally' \in [Snd!Counters -> Int]
            /\ tally'.drain_timeout = IF "aborted" = "drain_timeout"
                 THEN tally.drain_timeout + (Cardinality(packets) + Len(frags))
                 ELSE tally.drain_timeout
      BY <1>1, <3>2, TallyStep, Zenon
    <3> QED BY <3>1, <3>2, <3>3
  <2>3. Snd!FragsHeld = Len(frags) /\ Snd!FragsHeld' = 0 /\ Snd!Outstanding' = Snd!Outstanding
    BY <2>1 DEF Snd!FragsHeld, Snd!Phase, Snd!Outstanding
  <2>4. SendTypes'
    BY <1>1, <1>2, <2>1, <2>2 DEF SendTypes
  <2>5. WorkInv'
    BY <2>1 DEF WorkInv
  <2>6. PoolInv' /\ FlightInv'
    BY <1>1, <1>2, <2>1, <2>2, <2>3 DEF PoolInv, FlightInv, SendTypes, Snd!Outstanding
  <2> QED BY <2>4, <2>5, <2>6 DEF SendInv
<1> QED BY <1>4, <1>5, <1>6, <1>7, <1>8, <1>9

\* Where the pipelines stand: PC(p) says that the call is at step p of one of them.
PC(p) == sendPc = Snd!At(p)

LEMMA Pipelines ==
    /\ PC("fill") <=> sendPc \in {"fill", "fill6"}
    /\ PC("submit") <=> sendPc \in {"submit", "submit6"}
    /\ PC("reap") <=> sendPc \in {"reap", "reap6"}
    /\ PC("drain") <=> sendPc \in {"drain", "drain6"}
BY DEF PC, Snd!At, Snd!Phase

\* A step of a pipeline to step p of the same one.
LEMMA SamePipeline ==
    /\ PC("fill") \/ PC("submit") \/ PC("reap") \/ PC("drain") =>
         /\ Snd!At("fill") = IF sendPc \in FragPhases THEN "fill6" ELSE "fill"
         /\ Snd!At("submit") = IF sendPc \in FragPhases THEN "submit6" ELSE "submit"
         /\ Snd!At("reap") = IF sendPc \in FragPhases THEN "reap6" ELSE "reap"
         /\ Snd!At("drain") = IF sendPc \in FragPhases THEN "drain6" ELSE "drain"
         /\ Snd!At("end") = IF sendPc \in FragPhases THEN "end6" ELSE "end"
    /\ Snd!Phase = "frags" <=> sendPc \in FragPhases
BY DEF PC, Snd!At, Snd!Phase, FragPhases

\* A step that leaves packets, fragments and buffers where they are.
LEMMA SendMoves ==
    ASSUME SendInv,
           \/ Snd!FillEnds \/ Snd!Submit \/ Snd!SubmitFails \/ Snd!ReapEnds
           \/ Snd!DrainEnds \/ Snd!DrainTimeout \/ Snd!Kernel \/ Snd!Terminate
    PROVE  SendInv'
<1>1. SendTypes /\ WorkInv /\ PoolInv /\ FlightInv
  BY DEF SendInv
<1>2. /\ Len(tasks) \in Nat /\ Cardinality(packets) \in Nat /\ Len(frags) \in Nat
  BY <1>1, PacketSizes
<1>3. /\ UNCHANGED <<tasks, packets, frags, off, next, in_flight, pool, dropped, disconnect>>
      /\ sq' \in Nat /\ kernel' \in Nat /\ cq' \in Nat
      /\ sq' + kernel' + cq' = sq + kernel + cq
      /\ sendStop' \in BOOLEAN
  <2>1. sendStop \in BOOLEAN
    BY <1>1, Zenon DEF SendTypes
  <2>2. sq \in Nat /\ kernel \in Nat /\ cq \in Nat
    BY <1>1 DEF SendTypes
  <2>3. CASE Snd!FillEnds \/ Snd!SubmitFails \/ Snd!ReapEnds \/ Snd!DrainEnds
             \/ Snd!DrainTimeout
    BY <2>1, <2>2, <2>3 DEF Snd!FillEnds, Snd!SubmitFails, Snd!ReapEnds, Snd!DrainEnds,
       Snd!DrainTimeout, Snd!workVars, Snd!ioVars, Snd!flagVars
  <2>4. CASE Snd!Submit
    BY <2>1, <2>2, <2>4 DEF Snd!Submit, Snd!workVars, Snd!flagVars
  <2>5. CASE Snd!Kernel
    BY <2>1, <2>2, <2>5 DEF Snd!Kernel, Snd!workVars, Snd!flagVars
  <2>6. CASE Snd!Terminate
    BY <2>2, <2>6 DEF Snd!Terminate, Snd!workVars, Snd!ioVars
  <2> QED BY <2>3, <2>4, <2>5, <2>6
<1>4. /\ tally' \in [Snd!Counters -> Int] /\ tally'.drain_timeout >= 0
      /\ tally'.drain_timeout = 0 => ~Snd!DrainTimeout /\ tally.drain_timeout = 0
  <2>1. CASE Snd!DrainTimeout
    <3>1. in_flight > 0 /\ in_flight \in Int /\ tally.drain_timeout >= 0
      BY <1>1, <2>1 DEF Snd!DrainTimeout, SendTypes
    <3>2. tally' = [tally EXCEPT !["drain_timeout"] = @ + in_flight]
      BY <2>1 DEF Snd!DrainTimeout, Snd!Count
    <3>3. "drain_timeout" \in Snd!Counters
      BY DEF Snd!Counters
    <3>4. tally \in [Snd!Counters -> Int]
      BY <1>1 DEF SendTypes
    <3>5. tally.drain_timeout \in Int /\ tally.drain_timeout + in_flight \in Int
      BY <3>1, <3>3, <3>4
    <3>6. tally' \in [Snd!Counters -> Int]
          /\ tally'.drain_timeout = tally.drain_timeout + in_flight
      BY <3>2, <3>3, <3>4, <3>5
    <3> QED BY <3>1, <3>5, <3>6
  <2>2. CASE ~Snd!DrainTimeout
    <3>1. tally' = tally
      BY <2>2 DEF Snd!FillEnds, Snd!Submit, Snd!SubmitFails, Snd!ReapEnds, Snd!DrainEnds,
         Snd!Kernel, Snd!Terminate
    <3> QED BY <1>1, <2>2, <3>1 DEF SendTypes
  <2> QED BY <2>1, <2>2
<1>5. /\ sendPc' \in SendPhases \cup FragPhases
      /\ sendPc' # sendPc =>
           /\ sendPc \in {"fill", "submit", "reap", "drain",
                          "fill6", "submit6", "reap6", "drain6"}
           /\ sendPc' \in {"fill", "submit", "reap", "drain", "end",
                           "fill6", "submit6", "reap6", "drain6", "end6"}
           /\ sendPc' \in FragPhases <=> sendPc \in FragPhases
           /\ sendPc' \in {"end", "end6"} => Snd!DrainTimeout \/ in_flight <= 0
  <2>1. CASE Snd!FillEnds
    BY <2>1, Pipelines, SamePipeline DEF Snd!FillEnds, Snd!Filling, PC, SendPhases, FragPhases
  <2>2. CASE Snd!Submit \/ Snd!SubmitFails
    BY <2>2, Pipelines, SamePipeline
    DEF Snd!Submit, Snd!SubmitFails, PC, SendPhases, FragPhases
  <2>3. CASE Snd!ReapEnds
    BY <2>3, Pipelines, SamePipeline DEF Snd!ReapEnds, PC, SendPhases, FragPhases
  <2>4. CASE Snd!DrainEnds \/ Snd!DrainTimeout
    BY <2>4, Pipelines, SamePipeline
    DEF Snd!DrainEnds, Snd!DrainTimeout, PC, SendPhases, FragPhases
  <2>5. CASE Snd!Kernel \/ Snd!Terminate
    BY <1>1, <2>5 DEF Snd!Kernel, Snd!Terminate, SendTypes
  <2> QED BY <2>1, <2>2, <2>3, <2>4, <2>5
<1>6. Snd!Outstanding' = Snd!Outstanding /\ Snd!Outstanding \in Nat
  <2>1. sq \in Nat /\ kernel \in Nat /\ cq \in Nat
    BY <1>1 DEF SendTypes
  <2>2. Snd!Outstanding' = Snd!Outstanding
    BY <1>3, Zenon DEF Snd!Outstanding
  <2>3. Snd!Outstanding \in Nat
    BY <2>1 DEF Snd!Outstanding
  <2> QED BY <2>2, <2>3
<1>7. Snd!FragsHeld' = Snd!FragsHeld
  <2>1. Snd!Phase' = Snd!Phase
    BY <1>5 DEF Snd!Phase, FragPhases
  <2> QED BY <1>3, <2>1 DEF Snd!FragsHeld
<1>8. SendTypes'
  BY <1>1, <1>3, <1>4, <1>5 DEF SendTypes
<1>9. WorkInv'
  BY <1>1, <1>3, <1>5 DEF WorkInv, FragPhases
<1>10. PoolInv'
  BY <1>1, <1>3, <1>6, <1>7 DEF PoolInv
<1>11. FlightInv'
  <2> SUFFICES ASSUME tally'.drain_timeout = 0
               PROVE  /\ sendPc' # "idle" => in_flight' = Snd!Outstanding' + dropped'
                      /\ sendPc' \in {"idle", "build", "cut", "noring", "end", "end6"} =>
                           Snd!Outstanding' + dropped' = 0
                      /\ Snd!Outstanding' <= Window
    BY DEF FlightInv
  <2>1. ~Snd!DrainTimeout /\ tally.drain_timeout = 0
    BY <1>4
  <2>2. /\ sendPc # "idle" => in_flight = Snd!Outstanding + dropped
        /\ sendPc \in {"idle", "build", "cut", "noring", "end", "end6"} =>
             Snd!Outstanding + dropped = 0
        /\ Snd!Outstanding <= Window
    BY <1>1, <2>1 DEF FlightInv
  <2>3. dropped \in Nat /\ in_flight \in Int
    BY <1>1 DEF SendTypes
  <2> QED BY <1>3, <1>5, <1>6, <2>1, <2>2, <2>3
<1> QED BY <1>8, <1>9, <1>10, <1>11 DEF SendInv

\* The next entry of the work list is skipped, given back or queued.
LEMMA SendFill ==
    ASSUME SendInv, Snd!FillSkip \/ Snd!FillNoSocket \/ Snd!Queue
    PROVE  SendInv'
<1>1. SendTypes /\ WorkInv /\ PoolInv /\ FlightInv
  BY DEF SendInv
<1>2. /\ Len(tasks) \in Nat /\ Cardinality(packets) \in Nat /\ Len(frags) \in Nat
      /\ \A k \in packets : Cardinality(packets \ {k}) = Cardinality(packets) - 1
  BY <1>1, PacketSizes
<1> DEFINE OfFrags == sendPc = "fill6"
<1>3. /\ sendPc \in {"fill", "fill6"} /\ sendPc' = sendPc /\ next' = next + 1
      /\ OfFrags => next <= Len(frags)
      /\ in_flight < Window
      /\ UNCHANGED <<tasks, frags, off, kernel, cq, dropped, sendStop, disconnect>>
  <2>1. Snd!Filling /\ sendPc' = sendPc /\ next' = next + 1
        /\ UNCHANGED <<tasks, frags, off, kernel, cq, dropped, sendStop, disconnect>>
    BY DEF Snd!FillSkip, Snd!FillNoSocket, Snd!Queue, Snd!TakeEntry, Snd!workVars,
       Snd!ioVars, Snd!flagVars
  <2>2. sendPc \in {"fill", "fill6"}
    BY <2>1, Pipelines DEF Snd!Filling, PC
  <2> QED BY <2>1, <2>2 DEF Snd!Filling, Snd!WorkLen, Snd!Phase
\* Of this entry's buffer: none, back in the pool, or in the submission queue.
<1>4. \E held, queued \in {0, 1} :
        /\ queued <= held
        /\ IF OfFrags THEN packets' = packets /\ held = 1
           ELSE IF held = 1 THEN next \in packets /\ packets' = packets \ {next}
                            ELSE packets' = packets
        /\ sq' = sq + queued /\ in_flight' = in_flight + queued
        /\ pool' = pool + (held - queued)
        /\ tally' \in [Snd!Counters -> Int] /\ tally'.drain_timeout = tally.drain_timeout
  <2>0. /\ sq \in Nat /\ in_flight \in Int /\ pool \in Nat
        /\ tally \in [Snd!Counters -> Int]
    BY <1>1 DEF SendTypes
  <2>1. CASE Snd!FillSkip
    <3>1. ~OfFrags /\ UNCHANGED <<packets, sq, in_flight, pool, tally>>
      BY <2>1, <1>3 DEF Snd!FillSkip, Snd!Present, Snd!Phase, Snd!ioVars
    <3> QED BY <2>0, <3>1
  <2>2. CASE Snd!FillNoSocket
    <3>1. /\ OfFrags \/ next \in packets
          /\ packets' = packets \ (IF OfFrags THEN {} ELSE {next})
          /\ UNCHANGED <<sq, in_flight>> /\ pool' = pool + 1
      BY <2>2, <1>3 DEF Snd!FillNoSocket, Snd!Present, Snd!TakeEntry, Snd!Phase, Snd!ioVars
    <3>2. tally' \in [Snd!Counters -> Int] /\ tally'.drain_timeout = tally.drain_timeout
      <4>1. tally' = [tally EXCEPT !["no_socket"] = @ + 1]
        BY <2>2 DEF Snd!FillNoSocket, Snd!Count
      <4>2. {"no_socket", "drain_timeout"} \subseteq Snd!Counters
        BY DEF Snd!Counters
      <4> QED BY <2>0, <4>1, <4>2
    <3>3. packets' = IF OfFrags THEN packets ELSE packets \ {next}
      BY <3>1
    <3> QED BY <2>0, <3>1, <3>2, <3>3
  <2>3. CASE Snd!Queue
    <3>1. /\ OfFrags \/ next \in packets
          /\ packets' = packets \ (IF OfFrags THEN {} ELSE {next})
          /\ UNCHANGED <<pool, tally>> /\ sq' = sq + 1 /\ in_flight' = in_flight + 1
      BY <2>3, <1>3 DEF Snd!Queue, Snd!Present, Snd!TakeEntry, Snd!Phase
    <3>2. packets' = IF OfFrags THEN packets ELSE packets \ {next}
      BY <3>1
    <3> QED BY <2>0, <3>1, <3>2
  <2> QED BY <2>1, <2>2, <2>3
<1>5. PICK held, queued \in {0, 1} :
        /\ queued <= held
        /\ IF OfFrags THEN packets' = packets /\ held = 1
           ELSE IF held = 1 THEN next \in packets /\ packets' = packets \ {next}
                            ELSE packets' = packets
        /\ sq' = sq + queued /\ in_flight' = in_flight + queued
        /\ pool' = pool + (held - queued)
        /\ tally' \in [Snd!Counters -> Int] /\ tally'.drain_timeout = tally.drain_timeout
  BY <1>4
<1>6. /\ sq \in Nat /\ kernel \in Nat /\ cq \in Nat /\ in_flight \in Int /\ pool \in Nat
      /\ dropped \in Nat /\ next \in Nat \ {0}
  BY <1>1 DEF SendTypes
<1>7. Snd!Outstanding' = Snd!Outstanding + queued /\ Snd!Outstanding \in Nat
  BY <1>3, <1>5, <1>6 DEF Snd!Outstanding
<1>8. /\ Cardinality(packets') = Cardinality(packets) - (IF OfFrags THEN 0 ELSE held)
      /\ packets' \subseteq packets
  BY <1>2, <1>5
<1>9. /\ Snd!FragsHeld = IF OfFrags THEN Len(frags) - (next - 1) ELSE Len(frags)
      /\ Snd!FragsHeld' = IF OfFrags THEN Len(frags) - next ELSE Len(frags)
  BY <1>2, <1>3, <1>6 DEF Snd!FragsHeld, Snd!Phase
<1>10. SendTypes'
  BY <1>1, <1>3, <1>5, <1>6, <1>8 DEF SendTypes
<1>11. WorkInv'
  <2>1. OfFrags => packets = {} /\ next' <= Len(frags') + 1
    BY <1>1, <1>3, <1>2, <1>6 DEF WorkInv, FragPhases
  <2> QED BY <1>3, <1>8, <2>1 DEF WorkInv, FragPhases
<1>12. PoolInv'
  <2>1. pool + Cardinality(packets) + Snd!FragsHeld + Snd!Outstanding + dropped = PoolSize
        /\ (dropped > 0 => disconnect)
    BY <1>1 DEF PoolInv
  <2>2. pool' + Cardinality(packets') + Snd!FragsHeld' + Snd!Outstanding' + dropped'
          = PoolSize
    <3>1. /\ pool' = pool + (held - queued) /\ dropped' = dropped
          /\ held \in Int /\ queued \in Int /\ OfFrags => held = 1
      BY <1>3, <1>5
    <3>2. Cardinality(packets') + Snd!FragsHeld' = Cardinality(packets) + Snd!FragsHeld - held
          /\ Snd!FragsHeld \in Int /\ Snd!FragsHeld' \in Int /\ Cardinality(packets') \in Int
      BY <1>2, <1>6, <1>8, <1>9, <3>1
    <3>3. /\ pool \in Int /\ dropped \in Int /\ Cardinality(packets) \in Int
          /\ Snd!Outstanding \in Int /\ Snd!Outstanding' = Snd!Outstanding + queued
      BY <1>2, <1>6, <1>7
    <3>4. pool' + (Cardinality(packets') + Snd!FragsHeld') + Snd!Outstanding' + dropped'
            = pool + (Cardinality(packets) + Snd!FragsHeld) + Snd!Outstanding + dropped
      BY <3>1, <3>2, <3>3
    <3> QED BY <2>1, <3>1, <3>2, <3>3, <3>4
  <2>3. dropped' > 0 => disconnect'
    BY <1>3, <2>1, Zenon
  <2> QED BY <2>2, <2>3, Zenon DEF PoolInv
<1>13. FlightInv'
  BY <1>1, <1>3, <1>5, <1>6, <1>7, ScanPartsAssumption DEF FlightInv
<1> QED BY <1>10, <1>11, <1>12, <1>13 DEF SendInv

\* Completions are reaped: their buffers go back to the pool, or with the network down
\* are consumed unread.
LEMMA SendReap ==
    ASSUME SendInv, Snd!Reap \/ Snd!ReapNetworkDown \/ Snd!Drain
    PROVE  SendInv'
<1>1. SendTypes /\ WorkInv /\ PoolInv /\ FlightInv
  BY DEF SendInv
<1>2. /\ Len(tasks) \in Nat /\ Cardinality(packets) \in Nat /\ Len(frags) \in Nat
  BY <1>1, PacketSizes
<1>3. /\ sendPc \in {"reap", "reap6", "drain", "drain6"}
      /\ UNCHANGED <<sendPc, tasks, packets, frags, off, next, sq, kernel>>
  BY Pipelines DEF Snd!Reap, Snd!ReapNetworkDown, Snd!Drain, Snd!workVars, PC
<1>4. /\ sq \in Nat /\ kernel \in Nat /\ cq \in Nat /\ in_flight \in Int /\ pool \in Nat
      /\ dropped \in Nat /\ tally \in [Snd!Counters -> Int] /\ tally.drain_timeout \in Int
  BY <1>1 DEF SendTypes, Snd!Counters
<1>5. Snd!Peeked \in Nat /\ Snd!Peeked <= cq
  BY <1>4, ScanPartsAssumption DEF Snd!Peeked
\* The completions read, and those consumed without being read.
<1>6. \E read, gone \in Nat :
        /\ read + gone <= cq /\ cq' = cq - (read + gone)
        /\ pool' = pool + read /\ in_flight' = in_flight - read
        /\ dropped' = dropped + gone
        /\ gone > 0 => disconnect'
        /\ disconnect => disconnect'
        /\ sendStop' \in BOOLEAN /\ disconnect' \in BOOLEAN
  <2>1. sendStop \in BOOLEAN /\ disconnect \in BOOLEAN
    BY <1>1, Zenon DEF SendTypes
  <2>2. CASE Snd!Reap
    <3>1. /\ cq' = cq - Snd!Peeked /\ pool' = pool + Snd!Peeked
          /\ in_flight' = in_flight - Snd!Peeked
          /\ UNCHANGED <<dropped, sendStop, disconnect>>
      BY <2>2 DEF Snd!Reap, Snd!flagVars
    <3>2. sendStop' \in BOOLEAN /\ disconnect' \in BOOLEAN /\ (disconnect => disconnect')
      BY <2>1, <3>1, Zenon
    <3>3. /\ Snd!Peeked + 0 <= cq /\ cq' = cq - (Snd!Peeked + 0) /\ dropped' = dropped + 0
          /\ ~(0 > 0) /\ 0 \in Nat
      BY <1>4, <1>5, <3>1
    <3> QED BY <1>5, <3>1, <3>2, <3>3, Zenon
  <2>3. CASE Snd!ReapNetworkDown
    <3>1. PICK k \in 1 .. Snd!Peeked :
            pool' = pool + k /\ in_flight' = in_flight - k
            /\ dropped' = dropped + Snd!Peeked - k
      BY <2>3 DEF Snd!ReapNetworkDown
    <3>2. /\ cq' = cq - Snd!Peeked
          /\ sendStop' = TRUE /\ disconnect' = TRUE
      BY <2>3 DEF Snd!ReapNetworkDown
    <3>3. k \in Nat /\ k <= Snd!Peeked
      BY <1>5
    <3>4. sendStop' \in BOOLEAN /\ disconnect' \in BOOLEAN /\ disconnect'
      BY <3>2, Zenon
    <3>5. /\ Snd!Peeked - k \in Nat /\ k + (Snd!Peeked - k) <= cq
          /\ cq' = cq - (k + (Snd!Peeked - k)) /\ dropped' = dropped + (Snd!Peeked - k)
      BY <1>4, <1>5, <3>1, <3>2, <3>3
    <3> QED BY <3>1, <3>3, <3>4, <3>5, Zenon
  <2>4. CASE Snd!Drain
    <3>1. /\ cq' = cq - 1 /\ pool' = pool + 1 /\ in_flight' = in_flight - 1 /\ cq > 0
          /\ UNCHANGED <<dropped, sendStop, disconnect>>
      BY <2>4 DEF Snd!Drain, Snd!flagVars
    <3>2. sendStop' \in BOOLEAN /\ disconnect' \in BOOLEAN /\ (disconnect => disconnect')
      BY <2>1, <3>1, Zenon
    <3>3. /\ 1 + 0 <= cq /\ cq' = cq - (1 + 0) /\ dropped' = dropped + 0
          /\ ~(0 > 0) /\ 0 \in Nat /\ 1 \in Nat
      BY <1>4, <3>1
    <3> QED BY <3>1, <3>2, <3>3, Zenon
  <2> QED BY <2>2, <2>3, <2>4
<1>7. PICK read \in Nat, gone \in Nat :
        /\ read + gone <= cq /\ cq' = cq - (read + gone)
        /\ pool' = pool + read /\ in_flight' = in_flight - read
        /\ dropped' = dropped + gone
        /\ gone > 0 => disconnect'
        /\ disconnect => disconnect'
        /\ sendStop' \in BOOLEAN /\ disconnect' \in BOOLEAN
  BY <1>6
<1>8. tally' \in [Snd!Counters -> Int] /\ tally'.drain_timeout = tally.drain_timeout
  <2>1. /\ {"drain_timeout", "total_sent", "kernel_reject", "down", "drained"}
             \subseteq Snd!Counters
        /\ tally["total_sent"] \in Int /\ tally["kernel_reject"] \in Int
        /\ tally["down"] \in Int /\ tally["drained"] \in Int
    BY <1>4 DEF Snd!Counters
  <2>3. CASE Snd!Reap
    <3>1. PICK rejected \in 0 .. Snd!Peeked :
            tally' = [tally EXCEPT !.total_sent = @ + Snd!Peeked - rejected,
                                   !.kernel_reject = @ + rejected]
      BY <2>3 DEF Snd!Reap
    <3>2. /\ tally.total_sent + Snd!Peeked - rejected \in Int
          /\ tally.kernel_reject + rejected \in Int
      BY <1>5, <2>1
    <3> QED BY <1>4, <2>1, <3>1, <3>2
  <2>4. CASE Snd!ReapNetworkDown
    <3>1. PICK k \in 1 .. Snd!Peeked : \E rejected \in 0 .. k - 1 :
            tally' = [tally EXCEPT !.total_sent = @ + k - 1 - rejected,
                                   !.kernel_reject = @ + rejected,
                                   !.down = @ + 1]
      BY <2>4 DEF Snd!ReapNetworkDown
    <3>2. PICK rejected \in 0 .. k - 1 :
            tally' = [tally EXCEPT !.total_sent = @ + k - 1 - rejected,
                                   !.kernel_reject = @ + rejected,
                                   !.down = @ + 1]
      BY <3>1
    <3>3. /\ tally.total_sent + k - 1 - rejected \in Int
          /\ tally.kernel_reject + rejected \in Int /\ tally.down + 1 \in Int
      BY <1>5, <2>1
    <3> QED BY <1>4, <2>1, <3>2, <3>3
  <2>5. CASE Snd!Drain
    BY <1>4, <2>1, <2>5 DEF Snd!Drain, Snd!Count
  <2> QED BY <2>3, <2>4, <2>5
<1>9. /\ Snd!Outstanding \in Nat /\ Snd!Outstanding' = Snd!Outstanding - (read + gone)
      /\ cq' \in Nat /\ pool' \in Nat /\ dropped' \in Nat /\ in_flight' \in Int
  BY <1>3, <1>4, <1>7 DEF Snd!Outstanding
<1>10. Snd!FragsHeld' = Snd!FragsHeld
  BY <1>3, Zenon DEF Snd!FragsHeld, Snd!Phase
<1>11. SendTypes'
  <2>1. sendStop' \in BOOLEAN /\ disconnect' \in BOOLEAN
    BY <1>7, Zenon
  <2>2. /\ sendPc' \in SendPhases \cup FragPhases
        /\ tasks' \in Seq(Snd!Task) /\ packets' \subseteq 1 .. Len(tasks')
        /\ frags' \in Seq(Nat) /\ off' \in Nat /\ next' \in Nat \ {0}
        /\ sq' \in Nat /\ kernel' \in Nat
    BY <1>1, <1>3 DEF SendTypes
  <2>3. tally'.drain_timeout >= 0
    BY <1>1, <1>8 DEF SendTypes
  <2> QED BY <1>8, <1>9, <2>1, <2>2, <2>3 DEF SendTypes
<1>12. WorkInv'
  BY <1>1, <1>3 DEF WorkInv, FragPhases
<1>13. PoolInv'
  <2>1. pool + Cardinality(packets) + Snd!FragsHeld + Snd!Outstanding + dropped = PoolSize
    BY <1>1 DEF PoolInv
  <2>2. dropped' > 0 => disconnect'
    <3>1. dropped' > 0 => dropped > 0 \/ gone > 0
      BY <1>4, <1>7
    <3>2. dropped > 0 => disconnect
      BY <1>1 DEF PoolInv
    <3> QED BY <1>7, <3>1, <3>2, Zenon
  <2>3. pool' + Cardinality(packets') + Snd!FragsHeld' + Snd!Outstanding' + dropped'
          = PoolSize
    <3>1. Snd!FragsHeld \in Int
      BY <1>1, <1>2 DEF Snd!FragsHeld, SendTypes
    <3>2. /\ pool' = pool + read /\ dropped' = dropped + gone /\ packets' = packets
      BY <1>3, <1>7
    <3>3. /\ pool \in Int /\ dropped \in Int /\ Cardinality(packets) \in Int
          /\ Snd!Outstanding \in Int
      BY <1>2, <1>4, <1>9
    <3>4. (pool + read) + Cardinality(packets) + Snd!FragsHeld
            + (Snd!Outstanding - (read + gone)) + (dropped + gone) = PoolSize
      BY <2>1, <3>1, <3>3
    <3> QED BY <1>9, <1>10, <3>2, <3>4, Zenon
  <2> QED BY <2>2, <2>3, Zenon DEF PoolInv
<1>14. FlightInv'
  <2>1. in_flight' = in_flight - read /\ dropped' = dropped + gone
    BY <1>7
  <2> QED BY <1>1, <1>3, <1>4, <1>8, <1>9, <2>1, ScanPartsAssumption DEF FlightInv
<1> QED BY <1>11, <1>12, <1>13, <1>14 DEF SendInv

\* A pipeline is over: what it did not queue goes back to the pool.
LEMMA SendEnd ==
    ASSUME SendInv, Snd!PacketsEnd \/ Snd!FragsEnd
    PROVE  SendInv'
<1>1. SendTypes /\ WorkInv /\ PoolInv /\ FlightInv
  BY DEF SendInv
<1>2. /\ Len(tasks) \in Nat /\ Cardinality(packets) \in Nat /\ Len(frags) \in Nat
      /\ Cardinality({}) = 0
  BY <1>1, PacketSizes
<1>3. /\ sq \in Nat /\ kernel \in Nat /\ cq \in Nat /\ in_flight \in Int /\ pool \in Nat
      /\ dropped \in Nat /\ tally \in [Snd!Counters -> Int] /\ next \in Nat \ {0}
      /\ next - 1 \in Int
  BY <1>1 DEF SendTypes
<1> DEFINE c == "aborted"
<1>4. c \in Snd!Counters /\ c # "drain_timeout"
  BY DEF Snd!Counters
<1>5. UNCHANGED <<tasks, off, in_flight, sq, kernel, cq, dropped, sendStop, disconnect>>
  BY DEF Snd!PacketsEnd, Snd!FragsEnd, Snd!ioVars, Snd!flagVars
<1>6. Snd!Outstanding' = Snd!Outstanding /\ Snd!Outstanding \in Nat
  <2>1. Snd!Outstanding' = Snd!Outstanding
    BY <1>5, Zenon DEF Snd!Outstanding
  <2>2. Snd!Outstanding \in Nat
    BY <1>3 DEF Snd!Outstanding
  <2> QED BY <2>1, <2>2
<1>7. CASE Snd!PacketsEnd
  <2>1. /\ sendPc = "end" /\ sendPc' \in {"idle", "fill6", "drain6"}
        /\ sendPc' = "idle" <=> frags = <<>>
        /\ pool' = pool + Cardinality(packets) /\ packets' = {} /\ next' = 1
        /\ frags' = frags
    BY <1>7, Cardinals DEF Snd!PacketsEnd
  <2>2. tally' \in [Snd!Counters -> Int] /\ tally'.drain_timeout = tally.drain_timeout
    <3>1. tally' = [tally EXCEPT ![c] = @ + Cardinality(packets)]
      <4>1. tally' = [tally EXCEPT ![c] = @ + Snd!Cardinality(packets)]
        BY <1>7, Zenon DEF Snd!PacketsEnd, Snd!Count
      <4> QED BY <4>1, Cardinals
    <3>2. tally' = [tally EXCEPT ![c] = @ + Cardinality(packets)] =>
            /\ tally' \in [Snd!Counters -> Int]
            /\ tally'.drain_timeout = IF c = "drain_timeout"
                 THEN tally.drain_timeout + Cardinality(packets) ELSE tally.drain_timeout
      <4>1. Cardinality(packets) \in Int
        BY <1>2
      <4> QED BY <1>1, <1>4, <4>1, TallyStep, Zenon
    <3> QED BY <1>4, <3>1, <3>2
  <2>3. Snd!FragsHeld = Len(frags) /\ Snd!FragsHeld' = Len(frags)
    <3>1. Snd!FragsHeld = Len(frags)
      BY <2>1 DEF Snd!FragsHeld, Snd!Phase
    <3>2. Snd!FragsHeld' = IF sendPc' \in {"fill6", "drain6"} THEN Len(frags) - (1 - 1)
                                                              ELSE Len(frags)
      BY <2>1 DEF Snd!FragsHeld, Snd!Phase
    <3> QED BY <1>2, <3>1, <3>2
  <2>4. SendTypes'
    BY <1>1, <1>2, <1>3, <1>5, <2>1, <2>2 DEF SendTypes, SendPhases, FragPhases
  <2>5. WorkInv'
    BY <1>2, <2>1 DEF WorkInv, FragPhases
  <2>6. PoolInv'
    <3>1. pool + Cardinality(packets) + Snd!FragsHeld + Snd!Outstanding + dropped = PoolSize
      BY <1>1 DEF PoolInv
    <3>2. pool' + Cardinality(packets') + Snd!FragsHeld' + Snd!Outstanding' + dropped'
            = PoolSize
      BY <1>2, <1>3, <1>5, <1>6, <2>1, <2>3, <3>1
    <3>3. dropped' > 0 => disconnect'
      BY <1>1, <1>5, Zenon DEF PoolInv
    <3> QED BY <3>2, <3>3, Zenon DEF PoolInv
  <2>7. FlightInv'
    BY <1>1, <1>3, <1>5, <1>6, <2>1, <2>2 DEF FlightInv
  <2> QED BY <2>4, <2>5, <2>6, <2>7 DEF SendInv
<1>8. CASE Snd!FragsEnd
  <2>1. /\ sendPc = "end6" /\ sendPc' = "idle"
        /\ pool' = pool + Len(frags) - (next - 1) /\ frags' = <<>>
        /\ packets' = packets /\ next' = next
    BY <1>8 DEF Snd!FragsEnd
  <2>2. tally' \in [Snd!Counters -> Int] /\ tally'.drain_timeout = tally.drain_timeout
    <3> DEFINE n == Len(frags) - (next - 1)
    <3>1. tally' = [tally EXCEPT ![c] = @ + n]
      BY <1>8, Zenon DEF Snd!FragsEnd, Snd!Count
    <3>2. n \in Int
      BY <1>2, <1>3
    <3> HIDE DEF n
    <3>3. tally' = [tally EXCEPT ![c] = @ + n] =>
            /\ tally' \in [Snd!Counters -> Int]
            /\ tally'.drain_timeout = IF c = "drain_timeout"
                 THEN tally.drain_timeout + n ELSE tally.drain_timeout
      BY <1>1, <1>4, <3>2, TallyStep, Zenon
    <3> QED BY <1>4, <3>1, <3>3
  <2>3. /\ Snd!FragsHeld = Len(frags) - (next - 1) /\ Snd!FragsHeld' = 0
        /\ packets = {} /\ next <= Len(frags) + 1
    BY <1>1, <2>1 DEF Snd!FragsHeld, Snd!Phase, WorkInv, FragPhases
  <2>4. SendTypes'
    BY <1>1, <1>2, <1>3, <1>5, <2>1, <2>2, <2>3 DEF SendTypes, SendPhases, FragPhases
  <2>5. WorkInv'
    BY <2>1, <2>3 DEF WorkInv, FragPhases
  <2>6. PoolInv'
    <3>1. pool + Cardinality(packets) + Snd!FragsHeld + Snd!Outstanding + dropped = PoolSize
      BY <1>1 DEF PoolInv
    <3>2. pool' + Cardinality(packets') + Snd!FragsHeld' + Snd!Outstanding' + dropped'
            = PoolSize
      BY <1>2, <1>3, <1>5, <1>6, <2>1, <2>3, <3>1
    <3>3. dropped' > 0 => disconnect'
      BY <1>1, <1>5, Zenon DEF PoolInv
    <3> QED BY <3>2, <3>3, Zenon DEF PoolInv
  <2>7. FlightInv'
    BY <1>1, <1>3, <1>5, <1>6, <2>1, <2>2 DEF FlightInv
  <2> QED BY <2>4, <2>5, <2>6, <2>7 DEF SendInv
<1> QED BY <1>7, <1>8

LEMMA SendNext == SendInv /\ Snd!Next => SendInv'
BY SendBuild, SendCut, SendMoves, SendFill, SendReap, SendEnd DEF Snd!Next, Snd!Caller

\* What the runs check follows from the invariant.
LEMMA SendProperties == SendInv => BuffersAccounted /\ InFlightExact
<1> SUFFICES ASSUME SendInv PROVE BuffersAccounted /\ InFlightExact
  OBVIOUS
<1>1. SendTypes /\ WorkInv /\ PoolInv /\ FlightInv
  BY DEF SendInv
<1>2. InFlightExact
  BY <1>1 DEF InFlightExact, Snd!InFlightExact, FlightInv
<1>3. sendPc = "idle" /\ tally.drain_timeout = 0 => pool = PoolSize
  <2> SUFFICES ASSUME sendPc = "idle", tally.drain_timeout = 0 PROVE pool = PoolSize
    OBVIOUS
  <2>1. packets = {} /\ frags = <<>> /\ Snd!FragsHeld = 0
    BY <1>1 DEF WorkInv, Snd!FragsHeld, Snd!Phase
  <2>2. Snd!Outstanding + dropped = 0 /\ Snd!Outstanding \in Nat /\ dropped \in Nat
        /\ pool \in Nat
    BY <1>1 DEF FlightInv, SendTypes, Snd!Outstanding
  <2>3. Cardinality(packets) = 0
    BY <2>1, FS_EmptySet
  <2> QED BY <1>1, <2>1, <2>2, <2>3 DEF PoolInv
<1>4. BuffersAccounted
  <2>1. pool + Snd!Cardinality(packets) + Snd!FragsHeld + Snd!Outstanding + dropped = PoolSize
        /\ (dropped > 0 => disconnect)
    BY <1>1, Cardinals DEF PoolInv
  <2> QED BY <1>3, <2>1, Zenon DEF BuffersAccounted, Snd!BuffersAccounted
<1> QED BY <1>2, <1>4

-----------------------------------------------------------------------------
(***************************************************************************)
(* The receive path: the wake-ups of the workers.                          *)
(***************************************************************************)

\* A ring is registered while its worker runs or sleeps.  A plain ring holds wake-ups
\* only under the lock, and to registered rings; then every woken worker either has
\* its wake-up prepared, found no entry for it, or has looked into its queue since.
WakeInv ==
    /\ worker \in [Targets -> {"off", "run", "wait", "leave"}]
    /\ inbox \in [Targets -> Nat] /\ signals \in [Targets -> Nat]
    /\ idle_rings = {t \in Targets : worker[t] \in {"run", "wait"}}
    /\ readPc \in Rcv!Setup => wakes = {}
    /\ locked => readPc = "wake"
    /\ ~sqpoll => \A t \in wakes : locked /\ t \in idle_rings
    /\ locked => \A t \in woken \cap idle_rings :
                   t \in wakes \/ t \in skipped \/ inbox[t] = 0
    /\ Rcv!NoMissedWake

LEMMA WakeInit == Rcv!Init => WakeInv
<1> SUFFICES ASSUME Rcv!Init PROVE WakeInv
  OBVIOUS
<1>1. /\ worker = [t \in Targets |-> "off"] /\ inbox = [t \in Targets |-> 0]
      /\ signals = [t \in Targets |-> 0] /\ idle_rings = {} /\ wakes = {} /\ ~locked
  BY DEF Rcv!Init
<1>2. \A t \in Targets : worker[t] = "off"
  BY <1>1
<1> QED BY <1>1, <1>2 DEF WakeInv, Rcv!NoMissedWake

\* Steps that concern slots only.
LEMMA WakeKept ==
    ASSUME WakeInv,
           UNCHANGED <<woken, wakes, locked, signals, skipped, idle_rings, inbox, worker>>,
           sqpoll' = sqpoll \/ wakes = {},
           readPc' \in Rcv!Setup => readPc \in Rcv!Setup,
           locked => readPc' = readPc
    PROVE  WakeInv'
BY DEF WakeInv, Rcv!NoMissedWake, Rcv!Setup

LEMMA WakeReader ==
    ASSUME WakeInv,
           \/ Rcv!CreateTcpSockets \/ Rcv!CreateIcmpSockets \/ Rcv!CreateRing \/ Rcv!Start
           \/ Rcv!Rearm \/ Rcv!Exit \/ Rcv!SubmitAndWait \/ Rcv!WaitTimeout \/ Rcv!TakeBatch
           \/ Rcv!BatchEnds \/ Rcv!NothingToWake \/ Rcv!CheckOverflow \/ Rcv!Arrival
           \/ Rcv!StopReader
           \/ \E s \in Rcv!Slots : Rcv!DispatchNothing(s) \/ Rcv!DispatchNetworkDown(s)
    PROVE  WakeInv'
<1> USE DEF Rcv!ctxVars, Rcv!slotVars, Rcv!wakeVars, Rcv!workerVars, Rcv!overflowVars
<1>1. UNCHANGED <<woken, wakes, locked, signals, skipped, idle_rings, inbox, worker>>
  BY DEF Rcv!CreateTcpSockets, Rcv!CreateIcmpSockets, Rcv!CreateRing, Rcv!Start, Rcv!Rearm,
         Rcv!Exit, Rcv!SubmitAndWait, Rcv!WaitTimeout, Rcv!TakeBatch, Rcv!BatchEnds,
         Rcv!NothingToWake, Rcv!CheckOverflow, Rcv!Arrival, Rcv!StopReader,
         Rcv!DispatchNothing, Rcv!DispatchNetworkDown
<1>2. sqpoll' = sqpoll \/ wakes = {}
  <2>1. CASE Rcv!CreateRing
    BY <2>1 DEF Rcv!CreateRing, WakeInv, Rcv!Setup
  <2>2. CASE ~Rcv!CreateRing
    BY <2>2, Zenon
    DEF Rcv!CreateTcpSockets, Rcv!CreateIcmpSockets, Rcv!Start, Rcv!Rearm,
        Rcv!Exit, Rcv!SubmitAndWait, Rcv!WaitTimeout, Rcv!TakeBatch, Rcv!BatchEnds,
        Rcv!NothingToWake, Rcv!CheckOverflow, Rcv!Arrival, Rcv!StopReader,
        Rcv!DispatchNothing, Rcv!DispatchNetworkDown
  <2> QED BY <2>1, <2>2
<1>3. /\ readPc' \in Rcv!Setup => readPc \in Rcv!Setup
      /\ readPc = "wake" => readPc' = readPc \/ ~locked
  BY DEF Rcv!CreateTcpSockets, Rcv!CreateIcmpSockets, Rcv!CreateRing, Rcv!Start, Rcv!Rearm,
         Rcv!Exit, Rcv!SubmitAndWait, Rcv!WaitTimeout, Rcv!TakeBatch, Rcv!BatchEnds,
         Rcv!NothingToWake, Rcv!CheckOverflow, Rcv!Arrival, Rcv!StopReader,
         Rcv!DispatchNothing, Rcv!DispatchNetworkDown, Rcv!Setup
<1>4. locked => readPc' = readPc
  BY <1>3 DEF WakeInv
<1> QED BY <1>1, <1>2, <1>3, <1>4, WakeKept

\* Wake-ups are noted, queued and delivered.
LEMMA WakeDelivers ==
    ASSUME WakeInv,
           \/ \E s \in Rcv!Slots, t \in Targets : Rcv!Dispatch(s, t)
           \/ Rcv!QueueWakes \/ Rcv!SubmitWakes \/ Rcv!KernelTakes
    PROVE  WakeInv'
<1> USE DEF Rcv!ctxVars, Rcv!slotVars, Rcv!wakeVars, Rcv!workerVars, Rcv!overflowVars
<1>0. ASSUME NEW W, Rcv!Deliver(W)
      PROVE  /\ signals' \in [Targets -> Nat]
             /\ \A t \in Targets : signals'[t] >= signals[t] /\ (t \in W => signals'[t] > 0)
  <2>1. signals \in [Targets -> Nat]
    BY DEF WakeInv
  <2>2. \A t \in Targets : signals[t] + (IF t \in W THEN 1 ELSE 0) \in Nat
    BY <2>1
  <2>3. signals' = [t \in Targets |-> signals[t] + (IF t \in W THEN 1 ELSE 0)]
    BY <1>0 DEF Rcv!Deliver
  <2> QED BY <2>1, <2>2, <2>3
<1>1. CASE \E s \in Rcv!Slots, t \in Targets : Rcv!Dispatch(s, t)
  <2>1. PICK t \in Targets : \E s \in Rcv!Slots : Rcv!Dispatch(s, t)
    BY <1>1
  <2>2. /\ readPc = "batch" /\ inbox' = [inbox EXCEPT ![t] = @ + 1]
        /\ woken' = woken \cup {t}
        /\ UNCHANGED <<readPc, sqpoll, wakes, locked, signals, skipped, idle_rings, worker>>
    BY <2>1 DEF Rcv!Dispatch
  <2>3. ~locked
    BY <2>2 DEF WakeInv
  <2>4. /\ inbox' \in [Targets -> Nat]
        /\ \A r \in Targets : r # t => inbox'[r] = inbox[r]
    BY <2>2 DEF WakeInv
  <2>5. Rcv!NoMissedWake'
    BY <2>2, <2>4 DEF WakeInv, Rcv!NoMissedWake
  <2> QED BY <2>2, <2>3, <2>4, <2>5 DEF WakeInv
<1>2. CASE Rcv!QueueWakes
  <2>1. PICK w \in SUBSET (woken \cap idle_rings) :
          /\ wakes' = wakes \cup w
          /\ skipped' = skipped \cup ((woken \cap idle_rings) \ w)
    BY <1>2 DEF Rcv!QueueWakes
  <2>2. /\ readPc = "wake" /\ ~locked /\ locked' = TRUE
        /\ UNCHANGED <<readPc, sqpoll, woken, signals, idle_rings, inbox, worker>>
    BY <1>2 DEF Rcv!QueueWakes
  <2>3. ~sqpoll => wakes = {}
    BY <2>2 DEF WakeInv
  <2>4. Rcv!NoMissedWake'
    BY <2>1, <2>2 DEF WakeInv, Rcv!NoMissedWake
  <2>5. readPc \notin Rcv!Setup
    BY <2>2 DEF Rcv!Setup
  <2> QED BY <2>1, <2>2, <2>3, <2>4, <2>5 DEF WakeInv
<1>3. CASE Rcv!SubmitWakes
  <2>1. /\ readPc = "wake" /\ locked /\ woken' = {} /\ locked' = FALSE
        /\ readPc' = "overflow"
        /\ UNCHANGED <<sqpoll, skipped, idle_rings, inbox, worker>>
    BY <1>3 DEF Rcv!SubmitWakes
  <2>2. IF sqpoll THEN UNCHANGED <<signals, wakes>> ELSE Rcv!Deliver(wakes) /\ wakes' = {}
    BY <1>3 DEF Rcv!SubmitWakes
  <2>3. /\ signals' \in [Targets -> Nat]
        /\ \A t \in Targets : signals[t] > 0 => signals'[t] > 0
        /\ \A t \in Targets : t \in wakes => signals'[t] > 0 \/ t \in wakes'
        /\ ~sqpoll => wakes' = {}
    <3>1. signals \in [Targets -> Nat]
      BY DEF WakeInv
    <3>2. CASE sqpoll
      BY <2>2, <3>1, <3>2
    <3>3. CASE ~sqpoll
      <4>1. Rcv!Deliver(wakes) /\ wakes' = {}
        BY <2>2, <3>3
      <4>2. /\ signals' \in [Targets -> Nat]
            /\ \A t \in Targets : signals'[t] >= signals[t] /\ (t \in wakes => signals'[t] > 0)
        BY <1>0, <4>1, Zenon
      <4>3. \A t \in Targets : signals[t] > 0 => signals'[t] > 0
        BY <3>1, <4>2
      <4> QED BY <4>1, <4>2, <4>3, Zenon
    <3> QED BY <3>2, <3>3
  <2>4. Rcv!NoMissedWake'
    <3> SUFFICES ASSUME NEW t \in Targets, worker[t] = "wait", inbox[t] > 0,
                        ~(signals'[t] > 0)
                 PROVE  t \in wakes' \/ t \in skipped
      BY <2>1 DEF Rcv!NoMissedWake
    <3>1. t \in idle_rings /\ inbox[t] # 0
      BY DEF WakeInv
    <3>2. signals[t] > 0 \/ t \in woken \/ t \in wakes \/ t \in skipped
      BY DEF WakeInv, Rcv!NoMissedWake
    <3>3. t \in woken => t \in wakes \/ t \in skipped
      BY <2>1, <3>1 DEF WakeInv
    <3> QED BY <2>3, <3>2, <3>3
  <2>5. readPc' \notin Rcv!Setup
    BY <2>1 DEF Rcv!Setup
  <2> QED BY <2>1, <2>3, <2>4, <2>5 DEF WakeInv
<1>4. CASE Rcv!KernelTakes
  <2>1. /\ sqpoll
        /\ UNCHANGED <<readPc, sqpoll, woken, locked, skipped, idle_rings, inbox, worker>>
    BY <1>4 DEF Rcv!KernelTakes
  <2>2. CASE UNCHANGED <<wakes, signals>>
    BY <2>1, <2>2, WakeKept
  <2>3. CASE \E t \in wakes : /\ readPc # "wake" /\ wakes' = wakes \ {t}
                              /\ Rcv!Deliver(IF worker[t] = "off" THEN {} ELSE {t})
    <3>1. PICK t \in wakes : /\ readPc # "wake" /\ wakes' = wakes \ {t}
                             /\ Rcv!Deliver(IF worker[t] = "off" THEN {} ELSE {t})
      BY <2>3
    <3> DEFINE W == IF worker[t] = "off" THEN {} ELSE {t}
    <3>2. Rcv!Deliver(W)
      BY <3>1
    <3>3. worker[t] = "wait" => t \in W
      OBVIOUS
    <3> HIDE DEF W
    <3>4. /\ signals' \in [Targets -> Nat]
          /\ \A r \in Targets : signals'[r] >= signals[r] /\ (r \in W => signals'[r] > 0)
      BY <1>0, <3>2, Zenon
    <3>5. ~locked
      BY <3>1 DEF WakeInv
    <3>6. Rcv!NoMissedWake'
      <4> SUFFICES ASSUME NEW r \in Targets, worker[r] = "wait", inbox[r] > 0
                   PROVE  signals'[r] > 0 \/ r \in woken \/ r \in wakes' \/ r \in skipped
        BY <2>1 DEF Rcv!NoMissedWake
      <4>1. signals[r] > 0 \/ r \in woken \/ r \in wakes \/ r \in skipped
        BY DEF WakeInv, Rcv!NoMissedWake
      <4>2. signals[r] > 0 => signals'[r] > 0
        BY <3>4 DEF WakeInv
      <4> QED BY <3>1, <3>3, <3>4, <4>1, <4>2
    <3> QED BY <2>1, <3>1, <3>4, <3>5, <3>6 DEF WakeInv
  <2> QED BY <1>4, <2>2, <2>3 DEF Rcv!KernelTakes
<1> QED BY <1>1, <1>2, <1>3, <1>4

\* The worker of a target comes, looks into its queue, sleeps, wakes and goes.
LEMMA WakeWorker ==
    ASSUME WakeInv, NEW t \in Targets, Rcv!Worker(t)
    PROVE  WakeInv'
<1> USE DEF Rcv!ctxVars, Rcv!slotVars, Rcv!wakeVars, Rcv!workerVars, Rcv!overflowVars
<1>1. /\ UNCHANGED <<readPc, sqpoll, woken, wakes, locked>>
      /\ worker \in [Targets -> {"off", "run", "wait", "leave"}]
      /\ inbox \in [Targets -> Nat] /\ signals \in [Targets -> Nat]
  BY DEF Rcv!Worker, Rcv!Register, Rcv!Dequeue, Rcv!Sleep, Rcv!Woken, Rcv!Deadline,
         Rcv!Unregister, Rcv!CloseRing, WakeInv
<1>2. CASE Rcv!Register(t)
  <2>1. /\ worker[t] = "off" /\ ~locked /\ readPc \notin Rcv!Setup
        /\ worker' = [worker EXCEPT ![t] = "run"] /\ idle_rings' = idle_rings \cup {t}
        /\ signals' = [signals EXCEPT ![t] = 0] /\ UNCHANGED <<inbox, skipped>>
    BY <1>2 DEF Rcv!Register
  <2>2. /\ worker' \in [Targets -> {"off", "run", "wait", "leave"}]
        /\ signals' \in [Targets -> Nat]
        /\ \A r \in Targets : /\ worker'[r] = IF r = t THEN "run" ELSE worker[r]
                              /\ r # t => signals'[r] = signals[r]
    BY <1>1, <2>1
  <2>3. idle_rings' = {r \in Targets : worker'[r] \in {"run", "wait"}}
    BY <2>1, <2>2 DEF WakeInv
  <2>4. Rcv!NoMissedWake'
    BY <1>1, <2>1, <2>2 DEF WakeInv, Rcv!NoMissedWake
  <2> QED BY <1>1, <2>1, <2>2, <2>3, <2>4 DEF WakeInv
<1>3. CASE Rcv!Dequeue(t)
  <2>1. /\ worker[t] = "run" /\ inbox' = [inbox EXCEPT ![t] = 0]
        /\ skipped' = skipped \ {t} /\ UNCHANGED <<worker, idle_rings, signals>>
    BY <1>3 DEF Rcv!Dequeue
  <2>2. /\ inbox' \in [Targets -> Nat]
        /\ \A r \in Targets : inbox'[r] = IF r = t THEN 0 ELSE inbox[r]
    BY <1>1, <2>1
  <2>3. Rcv!NoMissedWake'
    BY <1>1, <2>1, <2>2 DEF WakeInv, Rcv!NoMissedWake
  <2> QED BY <1>1, <2>1, <2>2, <2>3 DEF WakeInv
<1>4. CASE Rcv!Sleep(t)
  <2>1. /\ worker[t] = "run" /\ inbox[t] = 0 /\ worker' = [worker EXCEPT ![t] = "wait"]
        /\ UNCHANGED <<inbox, skipped, idle_rings, signals>>
    BY <1>4 DEF Rcv!Sleep
  <2>2. /\ worker' \in [Targets -> {"off", "run", "wait", "leave"}]
        /\ \A r \in Targets : worker'[r] = IF r = t THEN "wait" ELSE worker[r]
    BY <1>1, <2>1
  <2>3. idle_rings' = {r \in Targets : worker'[r] \in {"run", "wait"}}
    BY <2>1, <2>2 DEF WakeInv
  <2>4. Rcv!NoMissedWake'
    BY <1>1, <2>1, <2>2 DEF WakeInv, Rcv!NoMissedWake
  <2> QED BY <1>1, <2>1, <2>2, <2>3, <2>4 DEF WakeInv
<1>5. CASE Rcv!Woken(t) \/ Rcv!Deadline(t)
  <2>1. /\ worker[t] = "wait" /\ worker' = [worker EXCEPT ![t] = "run"]
        /\ UNCHANGED <<inbox, skipped, idle_rings>>
    BY <1>5 DEF Rcv!Woken, Rcv!Deadline
  <2>2. /\ signals' \in [Targets -> Nat]
        /\ \A r \in Targets : r # t => signals'[r] = signals[r]
    <3>1. CASE Rcv!Woken(t)
      <4>1. signals[t] > 0 /\ signals' = [signals EXCEPT ![t] = @ - 1]
        BY <3>1 DEF Rcv!Woken
      <4> QED BY <1>1, <4>1
    <3>2. CASE Rcv!Deadline(t)
      BY <1>1, <3>2 DEF Rcv!Deadline
    <3> QED BY <1>5, <3>1, <3>2
  <2>3. /\ worker' \in [Targets -> {"off", "run", "wait", "leave"}]
        /\ \A r \in Targets : worker'[r] = IF r = t THEN "run" ELSE worker[r]
    BY <1>1, <2>1
  <2>4. idle_rings' = {r \in Targets : worker'[r] \in {"run", "wait"}}
    BY <2>1, <2>3 DEF WakeInv
  <2>5. Rcv!NoMissedWake'
    BY <1>1, <2>1, <2>2, <2>3 DEF WakeInv, Rcv!NoMissedWake
  <2> QED BY <1>1, <2>1, <2>2, <2>3, <2>4, <2>5 DEF WakeInv
<1>6. CASE Rcv!Unregister(t)
  <2>1. /\ worker[t] = "run" /\ ~locked /\ worker' = [worker EXCEPT ![t] = "leave"]
        /\ idle_rings' = idle_rings \ {t} /\ UNCHANGED <<inbox, skipped, signals>>
    BY <1>6 DEF Rcv!Unregister
  <2>2. /\ worker' \in [Targets -> {"off", "run", "wait", "leave"}]
        /\ \A r \in Targets : worker'[r] = IF r = t THEN "leave" ELSE worker[r]
    BY <1>1, <2>1
  <2>3. idle_rings' = {r \in Targets : worker'[r] \in {"run", "wait"}}
    BY <2>1, <2>2 DEF WakeInv
  <2>4. Rcv!NoMissedWake'
    BY <1>1, <2>1, <2>2 DEF WakeInv, Rcv!NoMissedWake
  <2> QED BY <1>1, <2>1, <2>2, <2>3, <2>4 DEF WakeInv
<1>7. CASE Rcv!CloseRing(t)
  <2>1. /\ worker[t] = "leave" /\ worker' = [worker EXCEPT ![t] = "off"]
        /\ UNCHANGED <<inbox, skipped, idle_rings, signals>>
    BY <1>7 DEF Rcv!CloseRing
  <2>2. /\ worker' \in [Targets -> {"off", "run", "wait", "leave"}]
        /\ \A r \in Targets : worker'[r] = IF r = t THEN "off" ELSE worker[r]
    BY <1>1, <2>1
  <2>3. idle_rings' = {r \in Targets : worker'[r] \in {"run", "wait"}}
    BY <2>1, <2>2 DEF WakeInv
  <2>4. Rcv!NoMissedWake'
    BY <1>1, <2>1, <2>2 DEF WakeInv, Rcv!NoMissedWake
  <2> QED BY <1>1, <2>1, <2>2, <2>3, <2>4 DEF WakeInv
<1> QED BY <1>2, <1>3, <1>4, <1>5, <1>6, <1>7 DEF Rcv!Worker

LEMMA WakeNext == WakeInv /\ Rcv!Next => WakeInv'
BY WakeReader, WakeDelivers, WakeWorker DEF Rcv!Next, Rcv!Reader

LEMMA WakeProperties == WakeInv => WakeUpsReach
<1> SUFFICES ASSUME WakeInv PROVE WakeUpsReach
  OBVIOUS
<1>1. ~sqpoll => \A t \in wakes : locked /\ worker[t] # "off"
  BY DEF WakeInv
<1> QED BY <1>1 DEF WakeInv, WakeUpsReach, Rcv!WakeHasRing

-----------------------------------------------------------------------------
(***************************************************************************)
(* The receive path: its slots.                                            *)
(***************************************************************************)

\* Where a slot is: in the ring, in the batch, waiting to be armed, lost with the network
\* or with a completion the kernel dropped, or never armed and no overflow seen yet.
Kept(s) ==
    \/ place[s] # "none" /\ armed[s] /\ s \notin pending /\ s \notin taken
    \/ place[s] = "none" /\ armed[s] /\ s \notin pending /\ s \in taken
    \/ place[s] = "none" /\ ~armed[s] /\ s \in pending /\ s \notin taken
    \/ place[s] = "none" /\ s \notin pending /\ stop
    \/ place[s] = "none" /\ armed[s] /\ s \notin pending /\ s \notin taken /\ s \in lost
    \/ place[s] = "none" /\ ~armed[s] /\ s \notin pending /\ s \in Rcv!Spare /\ seen_overflow = 0

\* Nothing is pending, taken or lost before the ring is set up, and a batch is handled
\* before the next one is taken.
SlotInv ==
    /\ place \in [Rcv!Slots -> {"none", "prep", "sq", "kernel", "done"}]
    /\ armed \in [Rcv!Slots -> BOOLEAN]
    /\ open \subseteq {"tcp", "tcp6", "icmp", "icmpv6"}
    /\ readPc \in Rcv!Setup => /\ pending = {} /\ taken = {} /\ seen_overflow = 0
                               /\ \A s \in Rcv!Slots : place[s] = "none"
    /\ taken # {} => readPc = "batch"
    /\ readPc \notin Rcv!Setup => \A s \in Rcv!Live : Kept(s)

\* The sockets stay as they were created, and so do the slots without an entry.
LEMMA SpareSame == open' = open => Rcv!Live' = Rcv!Live /\ Rcv!Spare' = Rcv!Spare
BY DEF Rcv!Live, Rcv!Spare, Rcv!SlotsOf, Rcv!Lowest

LEMMA LiveSlots == SlotInv => Rcv!Live \subseteq Rcv!Slots
<1> SUFFICES ASSUME SlotInv, NEW s \in Rcv!Live PROVE s \in Rcv!Slots
  OBVIOUS
<1>1. PICK k \in open : s \in Rcv!SlotsOf[k]
  BY DEF Rcv!Live
<1>2. k \in {"tcp", "tcp6", "icmp", "icmpv6"}
  BY DEF SlotInv
<1> QED BY <1>1, <1>2 DEF Rcv!SlotsOf, Rcv!Slots

LEMMA SlotInit == Rcv!Init => SlotInv
<1> SUFFICES ASSUME Rcv!Init PROVE SlotInv
  OBVIOUS
<1> QED BY DEF Rcv!Init, SlotInv, Rcv!Setup

\* The context is set up.
LEMMA SlotSetup ==
    ASSUME SlotInv, Rcv!CreateTcpSockets \/ Rcv!CreateIcmpSockets \/ Rcv!CreateRing
    PROVE  SlotInv'
<1> USE DEF Rcv!ctxVars, Rcv!slotVars, Rcv!overflowVars, Rcv!Setup
<1>1. CASE Rcv!CreateTcpSockets
  <2>1. /\ readPc = "create" /\ readPc' \in {"icmp", "failed"}
        /\ open' \subseteq {"tcp", "tcp6"} \/ open' = open
        /\ UNCHANGED <<place, armed, pending, taken, lost, seen_overflow>>
    <3>1. readPc = "create" /\ UNCHANGED <<place, armed, pending, taken, lost, seen_overflow>>
      BY <1>1 DEF Rcv!CreateTcpSockets
    <3>2. CASE open' \in {{"tcp"}} \cup (IF HasV6 THEN {{"tcp", "tcp6"}} ELSE {})
               /\ readPc' = "icmp"
      <4>1. open' = {"tcp"} \/ open' = {"tcp", "tcp6"}
        BY <3>2
      <4> QED BY <3>1, <3>2, <4>1
    <3>3. CASE readPc' = "failed" /\ open' = open
      BY <3>1, <3>3
    <3> QED BY <1>1, <3>2, <3>3 DEF Rcv!CreateTcpSockets
  <2> QED BY <2>1 DEF SlotInv
<1>2. CASE Rcv!CreateIcmpSockets
  <2>1. /\ readPc = "icmp" /\ readPc' = "ring"
        /\ UNCHANGED <<place, armed, pending, taken, lost, seen_overflow>>
        /\ \E o \in SUBSET ({"icmp"} \cup (IF HasV6 THEN {"icmpv6"} ELSE {})) :
             open' = open \cup o
    BY <1>2 DEF Rcv!CreateIcmpSockets
  <2>2. open' \subseteq {"tcp", "tcp6", "icmp", "icmpv6"}
    BY <2>1 DEF SlotInv
  <2> QED BY <2>1, <2>2 DEF SlotInv
<1>3. CASE Rcv!CreateRing
  <2>1. /\ readPc = "ring"
        /\ UNCHANGED <<open, pending, taken, lost, seen_overflow>>
        /\ readPc' \in {"start", "failed"}
    BY <1>3 DEF Rcv!CreateRing
  <2>2. pending = {} /\ taken = {} /\ seen_overflow = 0
    BY <2>1 DEF SlotInv
  <2>3. CASE readPc' = "failed" /\ UNCHANGED <<armed, place>>
    BY <2>1, <2>2, <2>3 DEF SlotInv
  <2>4. CASE readPc' = "start"
    <3>1. /\ armed' = [s \in Rcv!Slots |-> s \in Rcv!Lowest(Rcv!Live, SqSize)]
          /\ place' = [s \in Rcv!Slots |-> IF s \in Rcv!Lowest(Rcv!Live, SqSize)
                                             THEN "prep" ELSE "none"]
      BY <1>3, <2>4 DEF Rcv!CreateRing
    <3>2. Rcv!Live' = Rcv!Live /\ Rcv!Spare' = Rcv!Spare
      BY <2>1, SpareSame
    <3>3. /\ place' \in [Rcv!Slots -> {"none", "prep", "sq", "kernel", "done"}]
          /\ armed' \in [Rcv!Slots -> BOOLEAN]
      BY <3>1
    <3>4. ASSUME NEW s \in Rcv!Live PROVE Kept(s)'
      <4>1. s \in Rcv!Slots /\ pending' = {} /\ taken' = {} /\ seen_overflow' = 0
        BY <2>1, <2>2, LiveSlots
      <4>2. CASE s \in Rcv!Lowest(Rcv!Live, SqSize)
        BY <3>1, <4>1, <4>2 DEF Kept
      <4>3. CASE s \notin Rcv!Lowest(Rcv!Live, SqSize)
        <5>1. s \in Rcv!Spare'
          BY <3>2, <4>3 DEF Rcv!Spare
        <5> QED BY <3>1, <4>1, <4>3, <5>1 DEF Kept
      <4> QED BY <4>2, <4>3
    <3> QED BY <2>1, <2>2, <2>4, <3>2, <3>3, <3>4 DEF SlotInv
  <2> QED BY <1>3, <2>1, <2>3, <2>4 DEF Rcv!CreateRing
<1> QED BY <1>1, <1>2, <1>3

\* After that it is enough that a step keeps the slots it touches.
LEMMA SlotStep ==
    ASSUME SlotInv, readPc \notin Rcv!Setup, readPc' \notin Rcv!Setup, open' = open,
           place' \in [Rcv!Slots -> {"none", "prep", "sq", "kernel", "done"}],
           armed' \in [Rcv!Slots -> BOOLEAN],
           taken' # {} => readPc' = "batch",
           \A s \in Rcv!Slots : Kept(s) => Kept(s)'
    PROVE  SlotInv'
<1>1. Rcv!Live' = Rcv!Live
  BY DEF Rcv!Live, Rcv!SlotsOf
<1>2. \A s \in Rcv!Live : Kept(s)'
  BY LiveSlots DEF SlotInv
<1> QED BY <1>1, <1>2 DEF SlotInv

\* Steps that move no slot: the stop flag may only be raised.
LEMMA SlotSame ==
    ASSUME SlotInv, UNCHANGED <<place, armed, pending, taken, open, lost, seen_overflow>>,
           stop' = stop \/ stop' = TRUE,
           readPc' \in Rcv!Setup <=> readPc \in Rcv!Setup,
           taken # {} => readPc' = "batch"
    PROVE  SlotInv'
<1>1. Rcv!Live' = Rcv!Live /\ Rcv!Spare' = Rcv!Spare
  BY SpareSame
<1>2. \A s : Kept(s) => Kept(s)'
  BY <1>1 DEF Kept
<1> QED BY <1>1, <1>2 DEF SlotInv

LEMMA SlotQuiet ==
    ASSUME SlotInv,
           \/ Rcv!Exit \/ Rcv!WaitTimeout \/ Rcv!BatchEnds \/ Rcv!QueueWakes
           \/ Rcv!NothingToWake \/ Rcv!StopReader \/ Rcv!CheckOverflow
           \/ \E t \in Targets : Rcv!Worker(t)
    PROVE  SlotInv'
<1> USE DEF Rcv!ctxVars, Rcv!slotVars, Rcv!wakeVars, Rcv!workerVars, Rcv!overflowVars,
            Rcv!Setup
<1>0. taken # {} => readPc = "batch"
  BY DEF SlotInv
<1>1. CASE Rcv!Exit \/ Rcv!WaitTimeout \/ Rcv!BatchEnds \/ Rcv!QueueWakes
           \/ Rcv!NothingToWake
  <2>1. /\ UNCHANGED <<place, armed, pending, taken, open, lost, seen_overflow, stop>>
        /\ readPc' = readPc \/ readPc # "batch" \/ taken = {}
        /\ readPc \notin Rcv!Setup /\ readPc' \notin Rcv!Setup
    BY <1>1 DEF Rcv!Exit, Rcv!WaitTimeout, Rcv!BatchEnds, Rcv!QueueWakes, Rcv!NothingToWake
  <2> QED BY <1>0, <2>1, SlotSame
<1>2. CASE Rcv!StopReader
  <2>1. /\ UNCHANGED <<place, armed, pending, taken, open, lost, seen_overflow, readPc>>
        /\ stop' = TRUE
    BY <1>2 DEF Rcv!StopReader
  <2> QED BY <1>0, <2>1, SlotSame
<1>3. CASE Rcv!CheckOverflow
  <2>1. /\ UNCHANGED <<place, armed, taken, open, lost, stop>>
        /\ readPc = "overflow" /\ readPc' = "rearm" /\ taken = {}
        /\ \/ pending' = pending /\ seen_overflow' = seen_overflow
           \/ pending' = pending \cup {s \in Rcv!Slots : ~armed[s]}
    BY <1>0, <1>3 DEF Rcv!CheckOverflow
  <2>2. CASE pending' = pending /\ seen_overflow' = seen_overflow
    BY <2>1, <2>2, SlotSame
  <2>3. CASE pending' = pending \cup {s \in Rcv!Slots : ~armed[s]}
    <3>1. ASSUME NEW s \in Rcv!Slots, Kept(s) PROVE Kept(s)'
      BY <2>1, <2>3, <3>1, SpareSame DEF Kept
    <3> QED BY <2>1, <3>1, SlotStep DEF SlotInv
  <2> QED BY <2>1, <2>2, <2>3
<1>4. CASE \E t \in Targets : Rcv!Worker(t)
  <2>1. UNCHANGED <<place, armed, pending, taken, open, lost, seen_overflow, readPc, stop>>
    BY <1>4 DEF Rcv!Worker, Rcv!Register, Rcv!Dequeue, Rcv!Sleep, Rcv!Woken, Rcv!Deadline,
       Rcv!Unregister, Rcv!CloseRing
  <2> QED BY <1>0, <2>1, SlotSame
<1> QED BY <1>1, <1>2, <1>3, <1>4

\* Entries are submitted, by the reader or by the kernel's thread.
LEMMA SlotSubmit ==
    ASSUME SlotInv,
           Rcv!Start \/ Rcv!SubmitAndWait \/ Rcv!SubmitWakes \/ Rcv!KernelTakes
    PROVE  SlotInv'
<1> USE DEF Rcv!ctxVars, Rcv!slotVars, Rcv!overflowVars, Rcv!Setup
<1>0. /\ taken # {} => readPc = "batch"
      /\ place \in [Rcv!Slots -> {"none", "prep", "sq", "kernel", "done"}]
      /\ armed \in [Rcv!Slots -> BOOLEAN]
  BY DEF SlotInv
<1>1. UNCHANGED <<armed, pending, taken, open, lost, seen_overflow, stop>>
  BY DEF Rcv!Start, Rcv!SubmitAndWait, Rcv!SubmitWakes, Rcv!KernelTakes
<1>2. CASE place' = place
  <2>1. /\ readPc' \in Rcv!Setup <=> readPc \in Rcv!Setup
        /\ readPc' = readPc \/ readPc # "batch"
    BY DEF Rcv!Start, Rcv!SubmitAndWait, Rcv!SubmitWakes, Rcv!KernelTakes
  <2> QED BY <1>0, <1>1, <1>2, <2>1, SlotSame
<1>3. CASE /\ place' \in [Rcv!Slots -> {"none", "prep", "sq", "kernel", "done"}]
           /\ \A s \in Rcv!Slots : place'[s] = "none" <=> place[s] = "none"
           /\ readPc \notin Rcv!Setup /\ readPc' \notin Rcv!Setup
           /\ readPc' = readPc \/ readPc # "batch"
  <2>1. \A s \in Rcv!Slots : Kept(s) => Kept(s)'
    BY <1>1, <1>3, SpareSame DEF Kept
  <2> QED BY <1>0, <1>1, <1>3, <2>1, SlotStep
<1>4. /\ Rcv!Submitted(place) \in [Rcv!Slots -> {"none", "prep", "sq", "kernel", "done"}]
      /\ \A s \in Rcv!Slots : Rcv!Submitted(place)[s] = "none" <=> place[s] = "none"
  BY <1>0 DEF Rcv!Submitted
<1>5. CASE Rcv!Start \/ Rcv!SubmitAndWait \/ Rcv!SubmitWakes
  <2>1. /\ place' = place \/ place' = Rcv!Submitted(place)
        /\ readPc \notin Rcv!Setup /\ readPc' \notin Rcv!Setup
        /\ readPc' = readPc \/ readPc # "batch"
    BY <1>5 DEF Rcv!Start, Rcv!SubmitAndWait, Rcv!SubmitWakes
  <2> QED BY <1>2, <1>3, <1>4, <2>1
<1>6. CASE Rcv!KernelTakes
  <2>1. ASSUME NEW s \in Rcv!Slots, place[s] = "sq",
               place' = [place EXCEPT ![s] = "kernel"], readPc' = readPc
        PROVE  SlotInv'
    <3>1. /\ place' \in [Rcv!Slots -> {"none", "prep", "sq", "kernel", "done"}]
          /\ \A r \in Rcv!Slots : place'[r] = "none" <=> place[r] = "none"
      BY <1>0, <2>1
    <3>2. readPc \notin Rcv!Setup
      BY <2>1 DEF SlotInv
    <3> QED BY <1>3, <2>1, <3>1, <3>2
  <2> QED BY <1>2, <1>6, <2>1 DEF Rcv!KernelTakes
<1> QED BY <1>5, <1>6

\* Requests complete, their completions are taken, and the slots are armed again.
LEMMA SlotTurns ==
    ASSUME SlotInv,
           \/ Rcv!Rearm \/ Rcv!TakeBatch \/ Rcv!Arrival
           \/ \E s \in Rcv!Slots : \/ \E t \in Targets : Rcv!Dispatch(s, t)
                                   \/ Rcv!DispatchNothing(s) \/ Rcv!DispatchNetworkDown(s)
    PROVE  SlotInv'
<1> USE DEF Rcv!ctxVars, Rcv!slotVars, Rcv!overflowVars, Rcv!Setup
<1>0. /\ taken # {} => readPc = "batch"
      /\ place \in [Rcv!Slots -> {"none", "prep", "sq", "kernel", "done"}]
      /\ armed \in [Rcv!Slots -> BOOLEAN]
  BY DEF SlotInv
<1>1. CASE Rcv!Rearm
  <2>1. PICK now \in SUBSET pending :
          /\ place' = [s \in Rcv!Slots |-> IF s \in now THEN "prep" ELSE place[s]]
          /\ armed' = [s \in Rcv!Slots |-> armed[s] \/ s \in now]
          /\ pending' = pending \ now
    BY <1>1 DEF Rcv!Rearm
  <2>2. /\ readPc = "rearm" /\ readPc' = "wait"
        /\ UNCHANGED <<open, taken, lost, seen_overflow, stop>>
    BY <1>1 DEF Rcv!Rearm
  <2>3. /\ place' \in [Rcv!Slots -> {"none", "prep", "sq", "kernel", "done"}]
        /\ armed' \in [Rcv!Slots -> BOOLEAN]
    BY <1>0, <2>1
  <2>4. taken = {}
    BY <1>0, <2>2
  <2>5. ASSUME NEW s \in Rcv!Slots, Kept(s) PROVE Kept(s)'
    BY <2>1, <2>2, <2>4, <2>5, SpareSame DEF Kept
  <2> QED BY <2>2, <2>3, <2>4, <2>5, SlotStep
<1>2. CASE Rcv!TakeBatch
  <2>1. PICK b \in SUBSET Rcv!Done :
          /\ taken' = b
          /\ place' = [s \in Rcv!Slots |-> IF s \in b THEN "none" ELSE place[s]]
    BY <1>2 DEF Rcv!TakeBatch
  <2>2. /\ readPc = "wait" /\ readPc' = "batch"
        /\ UNCHANGED <<open, armed, pending, lost, seen_overflow, stop>>
    BY <1>2 DEF Rcv!TakeBatch
  <2>3. place' \in [Rcv!Slots -> {"none", "prep", "sq", "kernel", "done"}]
    BY <1>0, <2>1
  <2>4. taken = {}
    BY <1>0, <2>2
  <2>5. ASSUME NEW s \in Rcv!Slots, Kept(s) PROVE Kept(s)'
    <3>1. s \in b => place[s] = "done"
      BY DEF Rcv!Done
    <3> QED BY <2>1, <2>2, <2>4, <2>5, <3>1, SpareSame DEF Kept
  <2> QED BY <1>0, <2>2, <2>3, <2>5, SlotStep
<1>3. CASE Rcv!Arrival
  <2>1. PICK s \in Rcv!Slots :
          /\ place[s] = "kernel"
          /\ \/ place' = [place EXCEPT ![s] = "done"] /\ lost' = lost
             \/ place' = [place EXCEPT ![s] = "none"] /\ lost' = lost \cup {s}
    BY <1>3 DEF Rcv!Arrival
  <2>2. UNCHANGED <<readPc, open, armed, pending, taken, seen_overflow, stop>>
    BY <1>3 DEF Rcv!Arrival
  <2>3. /\ place' \in [Rcv!Slots -> {"none", "prep", "sq", "kernel", "done"}]
        /\ \A r \in Rcv!Slots : r # s => place'[r] = place[r]
        /\ place'[s] # "none" \/ s \in lost'
    BY <1>0, <2>1
  <2>4. readPc \notin Rcv!Setup
    BY <2>1 DEF SlotInv
  <2>5. ASSUME NEW r \in Rcv!Slots, Kept(r) PROVE Kept(r)'
    <3>1. CASE r = s
      <4>1. armed[s] /\ s \notin pending /\ s \notin taken
        BY <2>1, <2>5, <3>1 DEF Kept
      <4> QED BY <2>2, <2>3, <3>1, <4>1 DEF Kept
    <3>2. CASE r # s
      <4>1. lost \subseteq lost'
        BY <2>1
      <4> QED BY <2>2, <2>3, <2>5, <3>2, <4>1, SpareSame DEF Kept
    <3> QED BY <3>1, <3>2
  <2> QED BY <1>0, <2>2, <2>3, <2>4, <2>5, SlotStep
<1>4. ASSUME NEW s \in Rcv!Slots,
             Rcv!DispatchNothing(s) \/ \E t \in Targets : Rcv!Dispatch(s, t)
      PROVE  SlotInv'
  <2>1. /\ readPc = "batch" /\ taken' = taken \ {s} /\ Rcv!RearmOrDefer(s)
        /\ UNCHANGED <<readPc, open, lost, seen_overflow, stop>>
    BY <1>4 DEF Rcv!DispatchNothing, Rcv!Dispatch
  <2>2. PICK fits \in BOOLEAN :
          /\ place' = [place EXCEPT ![s] = IF fits THEN "prep" ELSE "none"]
          /\ armed' = [armed EXCEPT ![s] = fits]
          /\ pending' = IF fits THEN pending ELSE pending \cup {s}
    <3> DEFINE room == Rcv!Room > 0
    <3>1. /\ place' = [place EXCEPT ![s] = IF room THEN "prep" ELSE "none"]
          /\ armed' = [armed EXCEPT ![s] = room]
          /\ pending' = IF room THEN pending ELSE pending \cup {s}
      BY <2>1, Zenon DEF Rcv!RearmOrDefer
    <3>2. room \in BOOLEAN
      OBVIOUS
    <3> HIDE DEF room
    <3> QED BY <3>1, <3>2, Zenon
  <2>3. /\ place' \in [Rcv!Slots -> {"none", "prep", "sq", "kernel", "done"}]
        /\ armed' \in [Rcv!Slots -> BOOLEAN]
        /\ \A r \in Rcv!Slots : r # s => place'[r] = place[r] /\ armed'[r] = armed[r]
    BY <1>0, <2>2
  <2>4. /\ place'[s] = IF fits THEN "prep" ELSE "none"
        /\ armed'[s] = fits
    BY <1>0, <2>2
  <2>5. s \in taken
    BY <1>4 DEF Rcv!DispatchNothing, Rcv!Dispatch
  <2>6. ASSUME NEW r \in Rcv!Slots, Kept(r) PROVE Kept(r)'
    <3>1. CASE r # s
      BY <2>1, <2>2, <2>3, <2>6, <3>1, SpareSame DEF Kept
    <3>2. CASE r = s
      <4>1. s \notin pending
        BY <2>5, <2>6, <3>2 DEF Kept
      <4> QED BY <2>1, <2>2, <2>4, <3>2, <4>1 DEF Kept
    <3> QED BY <3>1, <3>2
  <2> QED BY <2>1, <2>3, <2>6, SlotStep
<1>5. ASSUME NEW s \in Rcv!Slots, Rcv!DispatchNetworkDown(s)
      PROVE  SlotInv'
  <2>1. /\ readPc = "batch" /\ readPc' = "wake" /\ s \in taken /\ taken' = {} /\ stop' = TRUE
        /\ armed' = [armed EXCEPT ![s] = FALSE]
        /\ UNCHANGED <<place, pending, open, lost, seen_overflow>>
    BY <1>5 DEF Rcv!DispatchNetworkDown
  <2>2. /\ armed' \in [Rcv!Slots -> BOOLEAN]
        /\ \A r \in Rcv!Slots : r # s => armed'[r] = armed[r]
    BY <1>0, <2>1
  <2>3. ASSUME NEW r \in Rcv!Slots, Kept(r) PROVE Kept(r)'
    BY <2>1, <2>2, <2>3, SpareSame DEF Kept
  <2> QED BY <1>0, <2>1, <2>2, <2>3, SlotStep
<1> QED BY <1>1, <1>2, <1>3, <1>4, <1>5

LEMMA SlotNext == SlotInv /\ Rcv!Next => SlotInv'
BY SlotSetup, SlotQuiet, SlotSubmit, SlotTurns DEF Rcv!Next, Rcv!Reader

LEMMA SlotProperties == SlotInv => SlotsKept
BY DEF SlotInv, Kept, SlotsKept, Rcv!SlotsKept

-----------------------------------------------------------------------------
(***************************************************************************)
(* The threads together: one of them moves, the others stay.               *)
(***************************************************************************)

LEMMA Stays ==
    /\ RunInv /\ UNCHANGED runVars => RunInv'
    /\ HostInv /\ UNCHANGED runVars => HostInv'
    /\ SendInv /\ UNCHANGED sendVars => SendInv'
    /\ WakeInv /\ UNCHANGED recvVars => WakeInv'
    /\ SlotInv /\ UNCHANGED recvVars => SlotInv'
<1>1. RunInv /\ UNCHANGED runVars => RunInv'
  BY DEF RunInv, runVars
<1>2. SendInv /\ UNCHANGED sendVars => SendInv'
  <2> SUFFICES ASSUME SendInv, UNCHANGED sendVars PROVE SendInv'
    OBVIOUS
  <2>1. Snd!FragsHeld' = Snd!FragsHeld /\ Snd!Outstanding' = Snd!Outstanding
    BY DEF sendVars, Snd!FragsHeld, Snd!Phase, Snd!Outstanding
  <2>2. SendTypes'
    BY Zenon DEF SendInv, SendTypes, sendVars
  <2>3. WorkInv'
    BY Zenon DEF SendInv, WorkInv, sendVars
  <2>4. PoolInv' /\ FlightInv'
    BY <2>1, Zenon DEF SendInv, PoolInv, FlightInv, sendVars
  <2> QED BY <2>2, <2>3, <2>4 DEF SendInv
<1>3. WakeInv /\ UNCHANGED recvVars => WakeInv'
  BY WakeKept DEF recvVars
<1>4. SlotInv /\ UNCHANGED recvVars => SlotInv'
  BY SlotSame DEF SlotInv, recvVars
<1>5. HostInv /\ UNCHANGED runVars => HostInv'
  <2> SUFFICES ASSUME HostInv, UNCHANGED runVars PROVE HostInv'
    OBVIOUS
  <2>1. UNCHANGED <<phase, ips, batch, down, downCount, allResults, found, arpTodo, cur>>
    BY DEF runVars
  <2>2. cur' \in Nat \ {0}
    BY <2>1 DEF HostInv, PlanInv
  <2> QED BY <2>1, <2>2, HostSame
<1> QED BY <1>1, <1>2, <1>3, <1>4, <1>5

LEMMA PartsStep ==
    ASSUME [Next]_vars
    PROVE  /\ RunInv => RunInv'
           /\ HostInv => HostInv'
           /\ SendInv => SendInv'
           /\ WakeInv => WakeInv'
           /\ SlotInv => SlotInv'
<1>1. CASE UNCHANGED vars
  BY <1>1, Stays DEF vars
<1>2. CASE OnlyRun /\ Run!Next
  BY <1>2, Stays, RunNext, HostNext DEF OnlyRun
<1>3. CASE OnlySend /\ Snd!Next
  BY <1>3, Stays, SendNext DEF OnlySend
<1>4. CASE OnlyReceive /\ Rcv!Next
  BY <1>4, Stays, WakeNext, SlotNext DEF OnlyReceive
<1> QED BY <1>1, <1>2, <1>3, <1>4 DEF Next

LEMMA RunProperties == RunInv => ProbesCollected /\ NothingLeftBehind
<1> SUFFICES ASSUME RunInv PROVE ProbesCollected /\ NothingLeftBehind
  OBVIOUS
<1>1. /\ probing.running \in Nat /\ probing.inflight \in Nat
      /\ probing.running <= probing.inflight /\ probing.inflight <= MaxProbes
      /\ phase # "probe" => probing.inflight = 0
  BY DEF RunInv
<1>2. ProbesCollected
  BY <1>1, ScanPartsAssumption DEF ProbesCollected, Run!ProbesCollected
<1>3. NothingLeftBehind
  BY DEF RunInv, NothingLeftBehind, Run!NothingLeftBehind
<1> QED BY <1>2, <1>3

\* At every moment each buffer of send_tcp_packets' pool is in the pool, in packets[], in
\* the fragment list, in the ring, or was consumed unread when the network went down, and
\* a call that met neither a drain timeout nor a dead network gives all of them back,
\* whatever the batch, the pool, the window and the ring.
THEOREM PoolCorrect == Spec => []BuffersAccounted
<1>1. Init => SendInv
  BY SendInit DEF Init
<1>2. SendInv /\ [Next]_vars => SendInv'
  BY PartsStep
<1>3. SendInv => BuffersAccounted
  BY SendProperties
<1> QED BY <1>1, <1>2, <1>3, PTL DEF Spec

\* Until a hard drain has timed out, in_flight of send_tcp_packets is the number of
\* requests the ring holds or lost with the network, and never exceeds WINDOW.
THEOREM FlightCorrect == Spec => []InFlightExact
<1>1. Init => SendInv
  BY SendInit DEF Init
<1>2. SendInv /\ [Next]_vars => SendInv'
  BY PartsStep
<1>3. SendInv => InFlightExact
  BY SendProperties
<1> QED BY <1>1, <1>2, <1>3, PTL DEF Spec

\* When thread_worker leaves a target it has collected every version probe it launched
\* there, and never more than kMaxConcurrentProbes of them run at once.
THEOREM ProbesBounded == Spec => []ProbesCollected
<1>1. Init => RunInv
  BY RunInit DEF Init
<1>2. RunInv /\ [Next]_vars => RunInv'
  BY PartsStep
<1>3. RunInv => ProbesCollected
  BY RunProperties
<1> QED BY <1>1, <1>2, <1>3, PTL DEF Spec

\* Whichever way main() ends, no raw socket, no context and no pinned ARP entry is left,
\* and none is closed twice.
THEOREM CleanupCorrect == Spec => []NothingLeftBehind
<1>1. Init => RunInv
  BY RunInit DEF Init
<1>2. RunInv /\ [Next]_vars => RunInv'
  BY PartsStep
<1>3. RunInv => NothingLeftBehind
  BY RunProperties
<1> QED BY <1>1, <1>2, <1>3, PTL DEF Spec

\* However the targets are cut into batches and the batches into ARP requests, no host is
\* counted as down twice (down_hosts_count against counted_down_ips), and none that is
\* counted is scanned or reported.
THEOREM DownCountCorrect == Spec => []DownCountExact
<1>1. Init => HostInv
  BY HostInit DEF Init
<1>2. HostInv /\ [Next]_vars => HostInv'
  BY PartsStep
<1>3. HostInv => DownCountExact
  BY HostProperties
<1> QED BY <1>1, <1>2, <1>3, PTL DEF Spec

\* A batch copies its results into all_results at the places of its targets: the result
\* of another target is never overwritten, nor the result of a target to come.
THEOREM ResultsCorrect == Spec => []ResultsInPlace
<1>1. Init => HostInv
  BY HostInit DEF Init
<1>2. HostInv /\ [Next]_vars => HostInv'
  BY PartsStep
<1>3. HostInv => ResultsInPlace
  BY HostProperties
<1> QED BY <1>1, <1>2, <1>3, PTL DEF Spec

\* A worker of any number of targets that sleeps on a packet has a wake-up coming, unless
\* the reader's submission queue had no entry for it, and a plain ring never holds a
\* wake-up for a ring that unregister_idle_ring has removed.
THEOREM WakeUpsCorrect == Spec => []WakeUpsReach
<1>1. Init => WakeInv
  BY WakeInit DEF Init
<1>2. WakeInv /\ [Next]_vars => WakeInv'
  BY PartsStep
<1>3. WakeInv => WakeUpsReach
  BY WakeProperties
<1> QED BY <1>1, <1>2, <1>3, PTL DEF Spec

\* Whatever the sizes of the ring and of the sockets' slots and whatever the kernel drops,
\* the reader arms no slot twice and loses none until the network is down, but the slots
\* of the completions that were dropped and, until the first overflow is seen, those for
\* which the ring had no entry at the start (recv_reader_thread_func).
THEOREM SlotsCorrect == Spec => []SlotsKept
<1>1. Init => SlotInv
  BY SlotInit DEF Init
<1>2. SlotInv /\ [Next]_vars => SlotInv'
  BY PartsStep
<1>3. SlotInv => SlotsKept
  BY SlotProperties
<1> QED BY <1>1, <1>2, <1>3, PTL DEF Spec
=============================================================================
