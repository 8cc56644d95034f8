--------------------------- MODULE CommandsProofs ---------------------------
(***************************************************************************)
(* The commands, for any number of hosts, connections, hops, links,        *)
(* descriptors, sources, ranges and runs: what is counted is counted once, *)
(* what is reported rests on an answer, and what a part holds of the       *)
(* machine belongs to it alone.  A behaviour follows one part (Commands),  *)
(* so each part has an inductive invariant over its own variables.         *)
(***************************************************************************)
EXTENDS Commands, FiniteSetTheorems, SequenceTheorems, WellFoundedInduction, TLAPS

-----------------------------------------------------------------------------
(***************************************************************************)
(* Numbers.                                                                *)
(***************************************************************************)

\* A set of natural numbers that is not empty has a least element.
LEMMA LeastNat ==
    ASSUME NEW S, S \subseteq Nat, S # {}
    PROVE  \E s \in S : \A t \in S : s <= t
<1> DEFINE R == {ss \in Nat \X Nat : ss[1] < ss[2]}
<1>1. IsWellFoundedOn(R, Nat)
  BY NatLessThanWellFounded DEF OpToRel
<1>2. PICK s \in S : \A t \in S : ~ (<<t, s>> \in R)
  <2> HIDE DEF R
  <2> QED BY <1>1, WFMin
<1>3. \A t \in S : s <= t
  <2> SUFFICES ASSUME NEW t \in S PROVE s <= t
    OBVIOUS
  <2>1. s \in Nat /\ t \in Nat /\ ~ (<<t, s>> \in R)
    BY <1>2
  <2> QED BY <2>1
<1> QED BY <1>2, <1>3

-----------------------------------------------------------------------------
(***************************************************************************)
(* Loops.                                                                  *)
(***************************************************************************)
\* What holds at the start and is handed on holds up to the end: the steps of a loop.
LEMMA UpTo ==
    ASSUME NEW n \in Nat, NEW T, 0 \in T, \A i \in 1 .. n : i - 1 \in T => i \in T
    PROVE  0 .. n \subseteq T
<1> DEFINE Out == {i \in 0 .. n : i \notin T}
<1> SUFFICES ASSUME Out # {} PROVE FALSE
  OBVIOUS
<1>1. PICK i \in Out : \A j \in Out : i <= j
  <2>1. Out \subseteq Nat
    OBVIOUS
  <2> HIDE DEF Out
  <2> QED BY <2>1, LeastNat
<1>2. i \in 1 .. n /\ i - 1 \in 0 .. n /\ i - 1 \notin Out
  BY <1>1
<1> QED BY <1>1, <1>2

\* f has the values of a loop of n turns.
LoopOf(f, n, X, first, step) ==
    f \in [0 .. n -> X] /\ f[0] = first /\ \A i \in 1 .. n : f[i] = step[i][f[i - 1]]

\* A loop computes something: a function that is defined from its value before exists.
LEMMA LoopExists ==
    ASSUME NEW n \in Nat, NEW X, NEW first \in X, NEW step \in [1 .. n -> [X -> X]]
    PROVE  \E f : LoopOf(f, n, X, first, step)
<1> DEFINE Runs(m) == \E f : LoopOf(f, m, X, first, step)
           T == {m \in 0 .. n : Runs(m)}
<1>1. Runs(0)
  <2> DEFINE g0 == [i \in 0 .. 0 |-> first]
  <2>1. g0 \in [0 .. 0 -> X] /\ g0[0] = first
    OBVIOUS
  <2>2. \A i \in 1 .. 0 : g0[i] = step[i][g0[i - 1]]
    OBVIOUS
  <2> HIDE DEF g0
  <2> QED BY <2>1, <2>2 DEF LoopOf
<1>2. ASSUME NEW m \in 1 .. n, Runs(m - 1) PROVE Runs(m)
  <2>1. PICK f : /\ f \in [0 .. m - 1 -> X]
                 /\ f[0] = first /\ \A i \in 1 .. m - 1 : f[i] = step[i][f[i - 1]]
    BY <1>2 DEF LoopOf
  <2> DEFINE g == [i \in 0 .. m |-> IF i = m THEN step[m][f[m - 1]] ELSE f[i]]
  <2>2. /\ g[0] = first /\ \A i \in 0 .. m - 1 : g[i] = f[i]
        /\ g[m] = step[m][f[m - 1]] /\ step[m][f[m - 1]] \in X
    <3>1. m - 1 \in 0 .. m - 1 /\ 0 \in 0 .. m - 1 /\ m \in 1 .. n
      OBVIOUS
    <3>2. f[m - 1] \in X
      BY <2>1, <3>1
    <3> QED BY <2>1, <3>1, <3>2
  <2>3. g \in [0 .. m -> X]
    BY <2>2, <2>1
  <2>4. \A i \in 1 .. m : g[i] = step[i][g[i - 1]]
    <3> HIDE DEF g
    <3> SUFFICES ASSUME NEW i \in 1 .. m PROVE g[i] = step[i][g[i - 1]]
      OBVIOUS
    <3>1. i - 1 \in 0 .. m - 1 /\ (i = m \/ i \in 1 .. m - 1) /\ (i # m => i \in 0 .. m - 1)
      OBVIOUS
    <3>2. g[i - 1] = f[i - 1]
      BY <2>2, <3>1
    <3>3. CASE i = m
      BY <2>2, <3>2, <3>3
    <3>4. CASE i # m
      BY <2>1, <2>2, <3>2, <3>4
    <3> QED BY <3>1, <3>3, <3>4
  <2> HIDE DEF g
  <2> QED BY <2>2, <2>3, <2>4 DEF LoopOf
<1>3. Runs(n)
  <2> HIDE DEF Runs
  <2>1. 0 \in T /\ \A i \in 1 .. n : i - 1 \in T => i \in T
    BY <1>1, <1>2
  <2> HIDE DEF T
  <2>2. 0 .. n \subseteq T
    BY <2>1, UpTo
  <2> QED BY <2>2 DEF T
<1> QED BY <1>3

-----------------------------------------------------------------------------
(***************************************************************************)
(* Powers of two.                                                          *)
(***************************************************************************)
Doubles(f) == /\ f \in [0 .. Bits -> Nat \ {0}] /\ f[0] = 1
              /\ \A k \in 1 .. Bits : f[k] = 2 * f[k - 1]

\* The powers of two exist, and are what their definition says.
LEMMA PowersDouble == Doubles(Db!Power) /\ Doubles(Tg!Power)
<1> DEFINE X == Nat \ {0}
           step == [i \in 1 .. Bits |-> [x \in X |-> 2 * x]]
           Solves(f) == f = [k \in 0 .. Bits |-> IF k = 0 THEN 1 ELSE 2 * f[k - 1]]
<1>0. Bits \in Nat
  BY CommandsAssumption
<1>1. /\ step \in [1 .. Bits -> [X -> X]] /\ 1 \in X
      /\ \A i \in 1 .. Bits, x \in X : step[i][x] = 2 * x
  OBVIOUS
<1> HIDE DEF step
<1>2. PICK f : LoopOf(f, Bits, X, 1, step)
  BY <1>0, <1>1, LoopExists
<1>3. f \in [0 .. Bits -> X] /\ f[0] = 1 /\ \A i \in 1 .. Bits : f[i] = step[i][f[i - 1]]
  BY <1>2 DEF LoopOf
<1>4. Solves(f)
  <2>1. ASSUME NEW k \in 0 .. Bits PROVE f[k] = IF k = 0 THEN 1 ELSE 2 * f[k - 1]
    <3>1. CASE k = 0
      BY <1>3, <3>1
    <3>2. CASE k # 0
      <4>1. k \in 1 .. Bits /\ k - 1 \in 0 .. Bits
        BY <1>0, <3>2
      <4>2. f[k - 1] \in X
        BY <1>3, <4>1
      <4> QED BY <1>1, <1>3, <3>2, <4>1, <4>2
    <3> QED BY <3>1, <3>2
  <2>2. f = [k \in 0 .. Bits |-> f[k]]
    BY <1>3
  <2> QED BY <2>1, <2>2
<1>5. ASSUME NEW g, Solves(g) PROVE g = f
  <2> DEFINE T == {k \in 0 .. Bits : g[k] = f[k]}
  <2>1. /\ g = [k \in 0 .. Bits |-> g[k]] /\ f = [k \in 0 .. Bits |-> f[k]]
        /\ \A k \in 0 .. Bits : g[k] = IF k = 0 THEN 1 ELSE 2 * g[k - 1]
        /\ \A k \in 0 .. Bits : f[k] = IF k = 0 THEN 1 ELSE 2 * f[k - 1]
    BY <1>4, <1>5
  <2>2. 0 \in 0 .. Bits /\ \A k \in 1 .. Bits : k \in 0 .. Bits /\ k - 1 \in 0 .. Bits /\ k # 0
    BY <1>0
  <2>3. g[0] = f[0]
    <3>1. g[0] = 1 /\ f[0] = 1
      BY <2>1, <2>2, Zenon
    <3> QED BY <3>1
  <2>5. ASSUME NEW k \in 1 .. Bits, g[k - 1] = f[k - 1] PROVE g[k] = f[k]
    <3>1. g[k] = 2 * g[k - 1] /\ f[k] = 2 * f[k - 1]
      BY <2>1, <2>2, Zenon
    <3> QED BY <2>5, <3>1
  <2> HIDE DEF T
  <2>4. 0 .. Bits \subseteq T
    <3>1. 0 \in T /\ \A i \in 1 .. Bits : i - 1 \in T => i \in T
      BY <2>2, <2>3, <2>5 DEF T
    <3> QED BY <1>0, <3>1, UpTo
  <2> QED BY <2>1, <2>4 DEF T
<1>6. Doubles(f)
  <2>1. \A k \in 1 .. Bits : f[k] = 2 * f[k - 1]
    BY <1>0, <1>4
  <2> QED BY <1>3, <2>1 DEF Doubles
<1>7. Db!Power = (CHOOSE g : Solves(g)) /\ Tg!Power = (CHOOSE g : Solves(g))
  BY DEF Db!Power, Tg!Power
<1> HIDE DEF Solves
<1>8. Db!Power = f /\ Tg!Power = f
  BY <1>4, <1>5, <1>7
<1> QED BY <1>6, <1>8

-----------------------------------------------------------------------------
(***************************************************************************)
(* perform_sn_discovery: the verdicts of a sweep.                          *)
(***************************************************************************)
Verdicts == {"NoResponse", "Alive", "Prohibited", "Unreachable", "PathIssue"}

\* The hosts of the sweep that have a verdict.
Judged == {h \in asked : state[h] # "NoResponse"}

\* A sweep starts with nobody judged: before the first one, as between two of them.
SweepInv ==
    /\ asked \subseteq Sn!Hosts /\ state \in [Sn!Hosts -> Verdicts]
    /\ classified \in Nat /\ classified = Cardinality(Judged)
    /\ pass \in {"start", "arp"} => state = Sn!Silent /\ classified = 0

\* The instance counts sets as the module does.
LEMMA SnCardinality == \A S : Sn!Cardinality(S) = Cardinality(S)
BY DEF Sn!Cardinality, Cardinality

LEMMA HostsFinite == IsFiniteSet(Sn!Hosts)
<1>1. IsFiniteSet({Self}) /\ IsFiniteSet(Lan4 \cup Far4 \cup Lan6 \cup Far6)
  BY CommandsAssumption, FS_Singleton
<1>2. Sn!Hosts = {Self} \cup (Lan4 \cup Far4 \cup Lan6 \cup Far6)
  BY DEF Sn!Hosts
<1> QED BY <1>1, <1>2, FS_Union

LEMMA NobodyJudged == ASSUME state = Sn!Silent, asked \subseteq Sn!Hosts PROVE Judged = {}
BY DEF Judged, Sn!Silent

LEMMA SweepStarts == Init => SweepInv
<1> SUFFICES ASSUME Init PROVE SweepInv
  OBVIOUS
<1>1. asked = {} /\ state = Sn!Silent /\ classified = 0
  BY DEF Init, Sn!Init
<1>2. Judged = {}
  BY <1>1 DEF Judged
<1>3. Sn!Silent \in [Sn!Hosts -> Verdicts]
  BY DEF Sn!Silent, Verdicts
<1> QED BY <1>1, <1>2, <1>3, FS_EmptySet DEF SweepInv

\* The two kinds of step that change a sweep: an answer, and the start of the next one.
LEMMA ReplyCounted ==
    ASSUME SweepInv, NEW name, NEW answers \in SUBSET Verdicts, "NoResponse" \notin answers,
           name \notin {"start", "arp"}, Sn!Reply(name, answers)
    PROVE  SweepInv'
<1>1. PICK h \in asked, v \in answers :
        state[h] = "NoResponse" /\ state' = [state EXCEPT ![h] = v]
  BY DEF Sn!Reply
<1>2. UNCHANGED <<pass, asked>> /\ classified' = classified + 1 /\ pass = name
  BY DEF Sn!Reply
<1>3. asked \subseteq Sn!Hosts /\ state \in [Sn!Hosts -> Verdicts] /\ h \in Sn!Hosts
      /\ v \in Verdicts /\ v # "NoResponse" /\ classified \in Nat
  BY <1>1 DEF SweepInv
<1>4. state' \in [Sn!Hosts -> Verdicts]
  BY <1>1, <1>3
<1>5. Judged' = Judged \cup {h} /\ h \notin Judged
  BY <1>1, <1>2, <1>3 DEF Judged
<1>6. IsFiniteSet(Judged)
  BY <1>3, HostsFinite, FS_Subset DEF Judged
<1>7. Cardinality(Judged') = Cardinality(Judged) + 1
  BY <1>5, <1>6, FS_AddElement
<1> QED BY <1>2, <1>3, <1>4, <1>7 DEF SweepInv

LEMMA NextSweep ==
    ASSUME NEW from, NEW to, to \notin {"start", "arp"}, NEW next \in SUBSET Sn!Hosts,
           Sn!EndSweep(from, to, next)
    PROVE  SweepInv'
<1>1. pass' = to /\ asked' = next /\ state' = Sn!Silent /\ classified' = 0
  BY DEF Sn!EndSweep
<1>2. Judged' = {}
  BY <1>1 DEF Judged, Sn!Silent
<1>3. Sn!Silent \in [Sn!Hosts -> Verdicts]
  BY DEF Sn!Silent, Verdicts
<1> QED BY <1>1, <1>2, <1>3, FS_EmptySet DEF SweepInv

LEMMA SweepUntouched == SweepInv /\ UNCHANGED <<pass, asked, state, classified>> => SweepInv'
BY DEF SweepInv, Judged

LEMMA SweepStep == SweepInv /\ Sn!Next => SweepInv'
<1> SUFFICES ASSUME SweepInv, Sn!Next PROVE SweepInv'
  OBVIOUS
<1>1. CASE Sn!Classify
  <2>1. pass = "start" /\ pass' = "arp" /\ UNCHANGED <<asked, state, classified>>
    BY <1>1 DEF Sn!Classify, Sn!sweep
  <2> QED BY <2>1 DEF SweepInv, Judged
<1>2. CASE Sn!ArpPass
  <2>1. pass = "arp" /\ pass' = "icmp" /\ asked' = Sn!IcmpAsks /\ UNCHANGED <<state, classified>>
    BY <1>2 DEF Sn!ArpPass
  <2>2. state' = Sn!Silent /\ classified' = 0 /\ state' \in [Sn!Hosts -> Verdicts]
    BY <2>1 DEF SweepInv
  <2>3. Sn!IcmpAsks \subseteq Sn!Hosts
    BY DEF Sn!IcmpAsks, Sn!OnLink4, Sn!Hosts
  <2>4. Judged' = {}
    BY <2>1, <2>2, <2>3 DEF Judged, Sn!Silent
  <2> QED BY <2>1, <2>2, <2>3, <2>4, FS_EmptySet DEF SweepInv
<1>3. CASE Sn!IcmpReply \/ Sn!SynReply \/ Sn!NdpReply \/ Sn!Icmp6Reply
  BY <1>3, ReplyCounted
     DEF Sn!IcmpReply, Sn!SynReply, Sn!NdpReply, Sn!Icmp6Reply, Sn!IcmpVerdicts,
         Sn!SynVerdicts, Sn!NdpVerdicts, Sn!Icmp6Verdicts, Verdicts
<1>4. CASE Sn!IcmpEnds
  <2>1. Sn!SynAsks \subseteq Sn!Hosts
    BY DEF Sn!SynAsks, Sn!Hosts
  <2> QED BY <1>4, <2>1, NextSweep DEF Sn!IcmpEnds
<1>5. CASE Sn!SynEnds
  <2>1. Sn!NdpAsks \subseteq Sn!Hosts
    BY DEF Sn!NdpAsks, Sn!Hosts
  <2> QED BY <1>5, <2>1, NextSweep DEF Sn!SynEnds
<1>6. CASE Sn!NdpEnds
  <2>1. Sn!Icmp6Asks \subseteq Sn!Hosts
    BY DEF Sn!Icmp6Asks, Sn!Hosts
  <2> QED BY <1>6, <2>1, NextSweep DEF Sn!NdpEnds
<1>7. CASE Sn!Icmp6Ends
  BY <1>7, NextSweep DEF Sn!Icmp6Ends
<1>8. CASE Sn!Reconcile \/ Sn!RecheckArp \/ Sn!PrintHosts
  <2>1. pass \notin {"start", "arp"} /\ pass' \notin {"start", "arp"}
        /\ UNCHANGED <<asked, state, classified>>
    BY <1>8 DEF Sn!Reconcile, Sn!RecheckArp, Sn!PrintHosts, Sn!sweep
  <2> QED BY <2>1 DEF SweepInv, Judged
<1> QED BY <1>1, <1>2, <1>3, <1>4, <1>5, <1>6, <1>7, <1>8 DEF Sn!Next

\* The verdicts are counted: a sweep that stops has one for each answer it took.
LEMMA SweepExactly == SweepInv => Sn!SweepExact
BY SnCardinality DEF SweepInv, Judged, Sn!SweepExact

-----------------------------------------------------------------------------
(***************************************************************************)
(* run_traceroute: the hops.                                               *)
(***************************************************************************)
Hop == [ttl : Nat, from : Nat, slots : SUBSET Trace!Rounds]

\* An answer may be of an earlier round, never of one to come.
TraceInv ==
    /\ trPc \in {"send", "wait", "name", "done"} /\ ttl \in Nat \ {0} /\ hopFrom \in Nat
    /\ responded \subseteq Trace!Rounds /\ counted \in Nat
    /\ hops \in Seq(Hop) /\ ttl = Len(hops) + 1
    /\ \A w \in probesOut : w.ttl \in Nat /\ w.ttl <= ttl /\ w.p \in Trace!Rounds
    /\ trPc \in {"wait", "name"} => hopFrom <= ttl /\ counted = Cardinality(responded)
    /\ \A i \in 1 .. Len(hops) : hops[i].ttl = i /\ hops[i].from <= i

LEMMA TraceCardinality == \A S : Trace!Cardinality(S) = Cardinality(S)
BY DEF Trace!Cardinality, Cardinality

LEMMA RoundsFinite == IsFiniteSet(Trace!Rounds) /\ Trace!Rounds \subseteq Nat
BY CommandsAssumption, FS_Interval DEF Trace!Rounds

LEMMA TraceStarts == Init => TraceInv
BY FS_EmptySet DEF Init, Trace!TraceInit, TraceInv

LEMMA TraceUntouched == TraceInv /\ UNCHANGED traceVars => TraceInv'
BY DEF TraceInv, traceVars

LEMMA TraceStep == TraceInv /\ Trace!TraceNext => TraceInv'
<1> SUFFICES ASSUME TraceInv, Trace!TraceNext PROVE TraceInv'
  OBVIOUS
<1> USE DEF TraceInv
<1>1. CASE Trace!TraceEnds
  BY <1>1 DEF Trace!TraceEnds
<1>2. CASE Trace!SendRound
  <2>1. PICK arriving \in SUBSET Trace!Rounds :
          probesOut' = probesOut \cup {[ttl |-> ttl, p |-> p] : p \in arriving}
    BY <1>2 DEF Trace!SendRound
  <2>2. trPc' = "wait" /\ responded' = {} /\ counted' = 0 /\ hopFrom' = 0
        /\ UNCHANGED <<ttl, reached, hops, stopTrace>>
    BY <1>2 DEF Trace!SendRound
  <2>3. \A w \in probesOut' : w.ttl \in Nat /\ w.ttl <= ttl' /\ w.p \in Trace!Rounds
    BY <2>1, <2>2
  <2> QED BY <2>2, <2>3, FS_EmptySet
<1>3. CASE Trace!HopOver
  <2>1. trPc = "name" /\ trPc' = "send" /\ ttl' = ttl + 1
        /\ hops' = Append(hops, [ttl |-> ttl, from |-> hopFrom, slots |-> responded])
        /\ UNCHANGED <<probesOut, responded, counted, hopFrom>>
    BY <1>3 DEF Trace!HopOver
  <2>2. [ttl |-> ttl, from |-> hopFrom, slots |-> responded] \in Hop
    BY DEF Hop
  <2>3. hops' \in Seq(Hop) /\ Len(hops') = Len(hops) + 1
    BY <2>1, <2>2
  <2>4. \A i \in 1 .. Len(hops') : hops'[i].ttl = i /\ hops'[i].from <= i
    BY <2>1, <2>2
  <2>5. \A w \in probesOut' : w.ttl \in Nat /\ w.ttl <= ttl' /\ w.p \in Trace!Rounds
    BY <2>1
  <2> QED BY <2>1, <2>3, <2>4, <2>5
<1>4. CASE Trace!AnswerArrives
  <2>1. PICK w \in probesOut, again \in BOOLEAN : Trace!Answer(w, again)
    BY <1>4 DEF Trace!AnswerArrives
  <2>2. trPc = "wait" /\ probesOut' \subseteq probesOut /\ UNCHANGED <<trPc, ttl, hops>>
    BY <2>1 DEF Trace!Answer, Trace!Waiting
  <2>3. w.ttl \in Nat /\ w.ttl <= ttl /\ w.p \in Trace!Rounds /\ Distance \in Nat
    BY CommandsAssumption
  <2>4. CASE w.p \in responded
    <3>1. UNCHANGED <<responded, counted, hopFrom>>
      BY <2>1, <2>4 DEF Trace!Answer
    <3> QED BY <2>2, <3>1
  <2>5. CASE w.p \notin responded
    <3>1. responded' = responded \cup {w.p} /\ counted' = counted + 1
          /\ hopFrom' = IF hopFrom # 0 THEN hopFrom
                        ELSE IF w.ttl >= Distance THEN Distance ELSE w.ttl
      BY <2>1, <2>5 DEF Trace!Answer
    <3>2. IsFiniteSet(responded)
      BY RoundsFinite, FS_Subset
    <3>3. Cardinality(responded') = Cardinality(responded) + 1
      BY <2>5, <3>1, <3>2, FS_AddElement
    <3>4. hopFrom' \in Nat /\ hopFrom' <= ttl
      BY <2>2, <2>3, <3>1
    <3> QED BY <2>2, <2>3, <3>1, <3>3, <3>4
  <2> QED BY <2>4, <2>5
<1>5. CASE Trace!ForeignUnreachable
  BY <1>5 DEF Trace!ForeignUnreachable
<1>6. CASE Trace!StopTrace
  BY <1>6 DEF Trace!StopTrace
<1>7. CASE Trace!RoundOver
  BY <1>7 DEF Trace!RoundOver
<1> QED BY <1>1, <1>2, <1>3, <1>4, <1>5, <1>6, <1>7 DEF Trace!TraceNext, Trace!TraceStep

LEMMA TraceExactly == TraceInv => Trace!TraceExact
BY TraceCardinality DEF TraceInv, Trace!TraceExact

-----------------------------------------------------------------------------
(***************************************************************************)
(* The Capture class: connections that are tracked.                        *)
(***************************************************************************)
Entries == [seq : {0, 1}, age : Nat]

\* The connections of a protocol that wait for an answer.
Pending(p) == {k \in Radar!Keys : k[1] = p /\ waiting[k] # Radar!NoEntry}

RadarInv ==
    /\ waiting \in [Radar!Keys -> Entries \cup {Radar!NoEntry}]
    /\ tracked \in [Radar!Protos -> Nat] /\ matched \in [Radar!Protos -> Nat]
    /\ expired \in [Radar!Protos -> Nat]
    /\ \A p \in Radar!Protos :
         tracked[p] = matched[p] + expired[p] + Cardinality(Pending(p))

LEMMA RadarCardinality == \A S : Radar!Cardinality(S) = Cardinality(S)
BY DEF Radar!Cardinality, Cardinality

LEMMA PendingFinite ==
    /\ \A p : IsFiniteSet(Pending(p)) /\ Cardinality(Pending(p)) \in Nat
    /\ IsFiniteSet(Radar!Keys)
<1>1. IsFiniteSet({"tcp", "quic", "dns"})
  <2>1. IsFiniteSet({"tcp"} \cup {"quic"} \cup {"dns"})
    BY FS_Singleton, FS_Union
  <2>2. {"tcp"} \cup {"quic"} \cup {"dns"} = {"tcp", "quic", "dns"}
    OBVIOUS
  <2> QED BY <2>1, <2>2
<1>2. IsFiniteSet(Radar!Keys)
  BY <1>1, CommandsAssumption, FS_Product DEF Radar!Keys, Radar!Protos
<1>3. \A p : Pending(p) \subseteq Radar!Keys
  BY DEF Pending
<1> QED BY <1>2, <1>3, FS_Subset, FS_CardinalityType

LEMMA RadarStarts == Init => RadarInv
<1> SUFFICES ASSUME Init PROVE RadarInv
  OBVIOUS
<1>1. /\ waiting = [k \in Radar!Keys |-> Radar!NoEntry]
      /\ tracked = [p \in Radar!Protos |-> 0] /\ matched = tracked /\ expired = tracked
  BY DEF Init, Radar!RadarInit
<1>2. \A p : Pending(p) = {}
  BY <1>1 DEF Pending
<1> QED BY <1>1, <1>2, FS_EmptySet DEF RadarInv

LEMMA RadarUntouched ==
    RadarInv /\ UNCHANGED <<waiting, tracked, matched, expired>> => RadarInv'
BY DEF RadarInv, Pending

LEMMA FirstTracked == RadarInv /\ Radar!FirstPacket => RadarInv'
<1> SUFFICES ASSUME RadarInv, Radar!FirstPacket PROVE RadarInv'
  OBVIOUS
<1>1. PICK k \in Radar!Keys, s \in {0, 1} :
        /\ waiting' = [waiting EXCEPT ![k] = [seq |-> s, age |-> 0]]
        /\ tracked' = IF waiting[k] = Radar!NoEntry THEN [tracked EXCEPT ![k[1]] = @ + 1]
                                                     ELSE tracked
  BY DEF Radar!FirstPacket
<1>2. UNCHANGED <<matched, expired>>
  BY DEF Radar!FirstPacket, Radar!Receive
<1>3. k[1] \in Radar!Protos
  BY DEF Radar!Keys
<1>4. [seq |-> s, age |-> 0] \in Entries /\ [seq |-> s, age |-> 0] # Radar!NoEntry
  BY DEF Entries, Radar!NoEntry
<1>5. waiting' \in [Radar!Keys -> Entries \cup {Radar!NoEntry}]
  BY <1>1, <1>4 DEF RadarInv
<1>6. \A j \in Radar!Keys : waiting'[j] # Radar!NoEntry <=> j = k \/ waiting[j] # Radar!NoEntry
  BY <1>1, <1>4 DEF RadarInv
<1>7. \A p : Pending(p)' = IF p = k[1] THEN Pending(p) \cup {k} ELSE Pending(p)
  BY <1>6 DEF Pending
<1>8. CASE waiting[k] = Radar!NoEntry
  <2>1. k \notin Pending(k[1])
    BY <1>8 DEF Pending
  <2>2. Cardinality(Pending(k[1]) \cup {k}) = Cardinality(Pending(k[1])) + 1
    BY <2>1, PendingFinite, FS_AddElement
  <2>3. tracked' \in [Radar!Protos -> Nat]
        /\ \A p \in Radar!Protos : tracked'[p] = IF p = k[1] THEN tracked[p] + 1 ELSE tracked[p]
    BY <1>1, <1>3, <1>8 DEF RadarInv
  <2>4. \A p \in Radar!Protos : /\ Cardinality(Pending(p)) \in Nat
                                /\ tracked[p] \in Nat /\ matched[p] \in Nat /\ expired[p] \in Nat
    BY PendingFinite DEF RadarInv
  <2>5. \A p \in Radar!Protos :
          Cardinality(Pending(p)') = Cardinality(Pending(p)) + (IF p = k[1] THEN 1 ELSE 0)
    <3> SUFFICES ASSUME NEW p \in Radar!Protos
                 PROVE  Cardinality(Pending(p)') = Cardinality(Pending(p)) + (IF p = k[1] THEN 1 ELSE 0)
      OBVIOUS
    <3>1. CASE p = k[1]
      BY <3>1, <1>7, <2>2
    <3>2. CASE p # k[1]
      <4>1. Cardinality(Pending(p)') = Cardinality(Pending(p)) /\ Cardinality(Pending(p)) \in Nat
        BY <3>2, <1>7, <2>4
      <4> QED BY <4>1, <3>2
    <3> QED BY <3>1, <3>2
  <2> QED BY <1>2, <1>5, <2>3, <2>4, <2>5 DEF RadarInv
<1>9. CASE waiting[k] # Radar!NoEntry
  <2>1. tracked' = tracked /\ k \in Pending(k[1])
    BY <1>1, <1>9 DEF Pending
  <2>2. \A p : Pending(p)' = Pending(p)
    BY <1>7, <2>1
  <2> QED BY <1>2, <1>5, <2>1, <2>2 DEF RadarInv
<1> QED BY <1>8, <1>9

LEMMA AnswerMatched == RadarInv /\ Radar!Answer => RadarInv'
<1> SUFFICES ASSUME RadarInv, Radar!Answer PROVE RadarInv'
  OBVIOUS
<1>1. PICK k \in Radar!Keys :
        /\ waiting[k] # Radar!NoEntry
        /\ waiting' = [waiting EXCEPT ![k] = Radar!NoEntry]
        /\ matched' = [matched EXCEPT ![k[1]] = @ + 1]
  BY DEF Radar!Answer
<1>2. UNCHANGED <<tracked, expired>>
  BY DEF Radar!Answer, Radar!Receive
<1>3. k[1] \in Radar!Protos
  BY DEF Radar!Keys
<1>4. waiting' \in [Radar!Keys -> Entries \cup {Radar!NoEntry}]
  BY <1>1 DEF RadarInv
<1>5. \A j \in Radar!Keys : waiting'[j] # Radar!NoEntry <=> j # k /\ waiting[j] # Radar!NoEntry
  BY <1>1 DEF RadarInv
<1>6. \A p : Pending(p)' = IF p = k[1] THEN Pending(p) \ {k} ELSE Pending(p)
  BY <1>5 DEF Pending
<1>7. Cardinality(Pending(k[1]) \ {k}) = Cardinality(Pending(k[1])) - 1
  <2>1. k \in Pending(k[1])
    BY <1>1 DEF Pending
  <2> QED BY <2>1, PendingFinite, FS_RemoveElement
<1>8. \A p \in Radar!Protos : /\ Cardinality(Pending(p)) \in Nat
                              /\ tracked[p] \in Nat /\ matched[p] \in Nat /\ expired[p] \in Nat
  BY PendingFinite DEF RadarInv
<1>9. \A p \in Radar!Protos :
        Cardinality(Pending(p)') = Cardinality(Pending(p)) - (IF p = k[1] THEN 1 ELSE 0)
  <2> SUFFICES ASSUME NEW p \in Radar!Protos
               PROVE  Cardinality(Pending(p)') = Cardinality(Pending(p)) - (IF p = k[1] THEN 1 ELSE 0)
    OBVIOUS
  <2>1. CASE p = k[1]
    BY <2>1, <1>6, <1>7
  <2>2. CASE p # k[1]
    <3>1. Cardinality(Pending(p)') = Cardinality(Pending(p)) /\ Cardinality(Pending(p)) \in Nat
      BY <2>2, <1>6, <1>8
    <3> QED BY <3>1, <2>2
  <2> QED BY <2>1, <2>2
<1>10. /\ matched' \in [Radar!Protos -> Nat]
       /\ \A p \in Radar!Protos : matched'[p] = matched[p] + (IF p = k[1] THEN 1 ELSE 0)
  BY <1>1, <1>3, <1>8 DEF RadarInv
<1> QED BY <1>2, <1>4, <1>8, <1>9, <1>10 DEF RadarInv

\* An entry grows older and stays an entry.
LEMMA TickKeeps == RadarInv /\ Radar!Tick => RadarInv'
<1> SUFFICES ASSUME RadarInv, Radar!Tick PROVE RadarInv'
  OBVIOUS
<1>1. waiting' = [k \in Radar!Keys |->
                    IF waiting[k] = Radar!NoEntry THEN Radar!NoEntry
                    ELSE [waiting[k] EXCEPT !.age = Radar!Older(@)]]
      /\ UNCHANGED <<tracked, matched, expired>>
  BY DEF Radar!Tick, Radar!counts
<1>2. Radar!Old \in Nat
  BY CommandsAssumption DEF Radar!Old
<1>3. \A a \in Nat : Radar!Older(a) \in Nat
  BY <1>2 DEF Radar!Older
<1>4. \A e \in Entries : [e EXCEPT !.age = Radar!Older(@)] \in Entries
  BY <1>3 DEF Entries
<1>5. Radar!NoEntry \notin Entries
  BY DEF Radar!NoEntry, Entries
<1>6. \A k \in Radar!Keys :
        /\ waiting'[k] \in Entries \cup {Radar!NoEntry}
        /\ waiting'[k] = Radar!NoEntry <=> waiting[k] = Radar!NoEntry
  <2> SUFFICES ASSUME NEW k \in Radar!Keys
               PROVE  /\ waiting'[k] \in Entries \cup {Radar!NoEntry}
                      /\ waiting'[k] = Radar!NoEntry <=> waiting[k] = Radar!NoEntry
    OBVIOUS
  <2>1. waiting[k] \in Entries \cup {Radar!NoEntry}
    BY DEF RadarInv
  <2>2. CASE waiting[k] = Radar!NoEntry
    BY <1>1, <2>2
  <2>3. CASE waiting[k] \in Entries
    <3>1. waiting[k] # Radar!NoEntry
      BY <2>3, <1>5
    <3>2. waiting'[k] = [waiting[k] EXCEPT !.age = Radar!Older(@)]
      BY <1>1, <3>1
    <3> QED BY <2>3, <3>1, <3>2, <1>4, <1>5
  <2> QED BY <2>1, <2>2, <2>3
<1>7. waiting' \in [Radar!Keys -> Entries \cup {Radar!NoEntry}]
  BY <1>1, <1>6
<1>8. \A p : Pending(p)' = Pending(p)
  BY <1>6 DEF Pending
<1> QED BY <1>1, <1>7, <1>8 DEF RadarInv

LEMMA SweepExpires == RadarInv /\ Radar!Sweep => RadarInv'
<1> SUFFICES ASSUME RadarInv, Radar!Sweep PROVE RadarInv'
  OBVIOUS
<1> DEFINE late == {k \in Radar!Keys : waiting[k] # Radar!NoEntry /\ waiting[k].age > PendingTicks}
           lateOf(p) == {k \in late : k[1] = p}
<1>1. /\ waiting' = [k \in Radar!Keys |-> IF k \in late THEN Radar!NoEntry ELSE waiting[k]]
      /\ expired' = [p \in Radar!Protos |-> expired[p] + Cardinality(lateOf(p))]
      /\ UNCHANGED <<tracked, matched>>
  BY RadarCardinality DEF Radar!Sweep
<1>2. \A k \in late : k \in Radar!Keys /\ waiting[k] # Radar!NoEntry
  OBVIOUS
<1> HIDE DEF late
<1>3. waiting' \in [Radar!Keys -> Entries \cup {Radar!NoEntry}]
  BY <1>1 DEF RadarInv
<1>4. \A p : Pending(p)' = Pending(p) \ lateOf(p) /\ lateOf(p) \subseteq Pending(p)
  BY <1>1, <1>2 DEF Pending
<1> HIDE DEF lateOf
<1>5. \A p : /\ IsFiniteSet(lateOf(p)) /\ Cardinality(lateOf(p)) \in Nat
             /\ Cardinality(Pending(p)) \in Nat
             /\ Cardinality(Pending(p)') = Cardinality(Pending(p)) - Cardinality(lateOf(p))
  <2> SUFFICES ASSUME NEW p
               PROVE  /\ IsFiniteSet(lateOf(p)) /\ Cardinality(lateOf(p)) \in Nat
                      /\ Cardinality(Pending(p)) \in Nat
                      /\ Cardinality(Pending(p)') = Cardinality(Pending(p)) - Cardinality(lateOf(p))
    OBVIOUS
  <2>1. IsFiniteSet(Pending(p)) /\ Cardinality(Pending(p)) \in Nat
    BY PendingFinite
  <2>2. IsFiniteSet(lateOf(p)) /\ Cardinality(lateOf(p)) \in Nat
    BY <1>4, <2>1, FS_Subset, FS_CardinalityType
  <2>3. Cardinality(Pending(p) \ lateOf(p))
          = Cardinality(Pending(p)) - Cardinality(Pending(p) \cap lateOf(p))
    BY <2>1, FS_Difference
  <2>4. Pending(p) \cap lateOf(p) = lateOf(p) /\ Pending(p)' = Pending(p) \ lateOf(p)
    BY <1>4
  <2> QED BY <2>1, <2>2, <2>3, <2>4
<1>6. \A p \in Radar!Protos : tracked[p] \in Nat /\ matched[p] \in Nat /\ expired[p] \in Nat
  BY DEF RadarInv
<1>7. expired' \in [Radar!Protos -> Nat]
      /\ \A p \in Radar!Protos : expired'[p] = expired[p] + Cardinality(lateOf(p))
  BY <1>1, <1>5, <1>6
<1> QED BY <1>1, <1>3, <1>5, <1>6, <1>7 DEF RadarInv

LEMMA RadarStep == RadarInv /\ Radar!RadarNext => RadarInv'
<1> SUFFICES ASSUME RadarInv, Radar!RadarNext PROVE RadarInv'
  OBVIOUS
<1>1. CASE Radar!Established \/ Radar!OtherPacket
  <2>1. UNCHANGED <<waiting, tracked, matched, expired>>
    BY <1>1 DEF Radar!Established, Radar!OtherPacket, Radar!Receive
  <2> QED BY <2>1, RadarUntouched
<1>2. CASE \/ Radar!CtrlC \/ Radar!StartResolve \/ Radar!PtrPass \/ Radar!PtrOverTls
           \/ Radar!RadarEnds
  <2>1. UNCHANGED <<waiting, tracked, matched, expired>>
    BY <1>2 DEF Radar!CtrlC, Radar!StartResolve, Radar!PtrPass, Radar!PtrOverTls,
         Radar!RadarEnds, Radar!capture, Radar!counts
  <2> QED BY <2>1, RadarUntouched
<1> QED BY <1>1, <1>2, FirstTracked, AnswerMatched, TickKeeps, SweepExpires DEF Radar!RadarNext

LEMMA RadarExactly == RadarInv => Radar!RadarAccounts
BY RadarCardinality DEF RadarInv, Pending, Radar!RadarAccounts

-----------------------------------------------------------------------------
(***************************************************************************)
(* receive_arp_reply: the hosts resolved.                                  *)
(***************************************************************************)
ResolvedInv == resolved \subseteq ArpHosts /\ totalResolved = Cardinality(resolved)

LEMMA ArpCardinality == \A S : Arp!Cardinality(S) = Cardinality(S)
BY DEF Arp!Cardinality, Cardinality

LEMMA ArpStarts == Init => ResolvedInv
BY FS_EmptySet DEF Init, Arp!ArpInit, ResolvedInv

LEMMA ArpUntouched == ResolvedInv /\ UNCHANGED <<resolved, totalResolved>> => ResolvedInv'
BY DEF ResolvedInv

\* Of the frame that is read, only a host that has not answered yet is counted.
LEMMA ArpStep == ResolvedInv /\ Arp!ArpNext => ResolvedInv'
<1> SUFFICES ASSUME ResolvedInv, Arp!ArpNext PROVE ResolvedInv'
  OBVIOUS
<1>1. CASE Arp!ReapFrame
  <2> DEFINE new == {slotBuf[Head(cq)[1]]} \cap (ArpHosts \ resolved)
  <2>1. resolved' = resolved \cup new /\ totalResolved' = totalResolved + Arp!Cardinality(new)
    BY <1>1 DEF Arp!ReapFrame
  <2>2. new \subseteq ArpHosts /\ new \cap resolved = {} /\ resolved \subseteq ArpHosts
    BY DEF ResolvedInv
  <2> HIDE DEF new
  <2>3. IsFiniteSet(new) /\ IsFiniteSet(resolved)
    BY <2>2, CommandsAssumption, FS_Subset
  <2>4. /\ Cardinality(resolved \cap new) = 0
        /\ Cardinality(resolved) \in Nat /\ Cardinality(new) \in Nat
    <3>1. resolved \cap new = {}
      BY <2>2
    <3> QED BY <3>1, <2>3, FS_EmptySet, FS_CardinalityType
  <2>5. Cardinality(resolved \cup new)
          = Cardinality(resolved) + Cardinality(new) - Cardinality(resolved \cap new)
    BY <2>3, FS_Union
  <2>6. Arp!Cardinality(new) = Cardinality(new)
    BY ArpCardinality
  <2> QED BY <2>1, <2>2, <2>4, <2>5, <2>6 DEF ResolvedInv
<1>2. CASE Arp!Listen
  BY <1>2, FS_EmptySet DEF Arp!Listen, ResolvedInv
<1>3. CASE ~ Arp!ReapFrame /\ ~ Arp!Listen
  <2>1. UNCHANGED <<resolved, totalResolved>>
    BY <1>3 DEF Arp!ArpNext, Arp!ArpStep, Arp!SendRequests, Arp!ReapSends, Arp!ReapSendsFails,
         Arp!Retransmit, Arp!RetransmitImpossible, Arp!Peek, Arp!ReapSend, Arp!StopListening,
         Arp!Cleanup, Arp!DrainSend, Arp!Return, Arp!SendCompletes, Arp!FrameArrives
  <2> QED BY <2>1, ArpUntouched
<1> QED BY <1>1, <1>2, <1>3

LEMMA ArpExactly == ResolvedInv => Arp!ResolvedExact
BY ArpCardinality DEF ResolvedInv, Arp!ResolvedExact

-----------------------------------------------------------------------------
(***************************************************************************)
(* enter_split_namespace: the link of a run.                               *)
(***************************************************************************)

\* An index is in one place: with one run, or in the root namespace, or gone for good;
\* and a run has what the steps behind it gave it.
SplitInv ==
    /\ rootLink \in LinkIds \cup {Split!NoLink} /\ usedIds \subseteq LinkIds
    /\ rootLink # Split!NoLink => rootLink \in usedIds
    /\ nsPc \in [SplitRuns -> {"validate", "delete", "create", "index", "unshare", "move",
                               "configure", "routes", "entered", "failed", "gone"}]
    /\ nsLink \in [SplitRuns -> LinkIds \cup {Split!NoLink}]
    /\ mvIdx \in [SplitRuns -> LinkIds \cup {Split!NoLink}]
    /\ want \in [SplitRuns -> SUBSET {"v4", "v6"}]
    /\ addresses \in [SplitRuns -> SUBSET {"v4", "v6"}]
    /\ routes \in [SplitRuns -> SUBSET {"v4", "v6"}]
    /\ inSplitNs \subseteq SplitRuns
    /\ \A r \in SplitRuns :
         /\ nsLink[r] # Split!NoLink =>
              /\ nsLink[r] \in usedIds /\ nsLink[r] # rootLink
              /\ nsPc[r] \in {"configure", "routes", "entered", "failed"}
         /\ nsPc[r] \in {"unshare", "move"} => mvIdx[r] # Split!NoLink
         /\ nsPc[r] \in {"configure", "routes", "entered"} => nsLink[r] # Split!NoLink
         /\ nsPc[r] \in {"routes", "entered"} => r \in linkUp /\ addresses[r] = want[r]
         /\ r \in inSplitNs => nsPc[r] = "entered" /\ routes[r] = want[r]
    /\ \A r, q \in SplitRuns : r # q /\ nsLink[r] # Split!NoLink => nsLink[r] # nsLink[q]

LEMMA SplitStarts == Init => SplitInv
BY CommandsAssumption DEF Init, Split!SplitInit, SplitInv, Split!NoLink

LEMMA SplitUntouched == SplitInv /\ UNCHANGED splitVars => SplitInv'
BY DEF SplitInv, splitVars

LEMMA SplitRunStep ==
    ASSUME SplitInv, NEW r \in SplitRuns, Split!SplitStep(r) \/ Split!StepFails(r)
    PROVE  SplitInv'
<1> USE DEF SplitInv, Split!Goto, Split!config
<1>1. CASE Split!Validate(r)
  BY <1>1 DEF Split!Validate
<1>2. CASE Split!DeleteLeftover(r)
  BY <1>2 DEF Split!DeleteLeftover
<1>3. CASE Split!CreateLink(r)
  <2>1. nsPc[r] = "create" /\ UNCHANGED <<want, nsLink, mvIdx, addresses, routes, linkUp, inSplitNs>>
    BY <1>3 DEF Split!CreateLink
  <2>2. CASE rootLink # Split!NoLink
    <3>1. nsPc' = [nsPc EXCEPT ![r] = "failed"] /\ UNCHANGED <<rootLink, usedIds>>
      BY <1>3, <2>2 DEF Split!CreateLink
    <3> QED BY <2>1, <3>1
  <2>3. CASE rootLink = Split!NoLink
    <3>1. PICK i \in LinkIds \ usedIds : rootLink' = i /\ usedIds' = usedIds \cup {i}
      BY <1>3, <2>3 DEF Split!CreateLink
    <3>2. nsPc' = [nsPc EXCEPT ![r] = "index"]
      BY <1>3, <2>3 DEF Split!CreateLink
    <3> QED BY <2>1, <3>1, <3>2
  <2> QED BY <2>2, <2>3
<1>4. CASE Split!FindIndex(r)
  BY <1>4 DEF Split!FindIndex
<1>5. CASE Split!Unshare(r)
  BY <1>5 DEF Split!Unshare
<1>6. CASE Split!MoveLink(r)
  <2>1. nsPc[r] = "move" /\ mvIdx[r] # Split!NoLink /\ nsLink[r] = Split!NoLink
        /\ UNCHANGED <<want, mvIdx, usedIds, addresses, routes, linkUp, inSplitNs>>
    BY <1>6 DEF Split!MoveLink
  <2>2. CASE rootLink # mvIdx[r]
    <3>1. nsPc' = [nsPc EXCEPT ![r] = "failed"] /\ UNCHANGED <<rootLink, nsLink>>
      BY <1>6, <2>2 DEF Split!MoveLink
    <3> QED BY <2>1, <3>1
  <2>3. CASE rootLink = mvIdx[r]
    <3>1. rootLink' = Split!NoLink /\ nsLink' = [nsLink EXCEPT ![r] = rootLink]
          /\ nsPc' = [nsPc EXCEPT ![r] = "configure"]
      BY <1>6, <2>3 DEF Split!MoveLink
    <3>2. rootLink # Split!NoLink /\ rootLink \in usedIds
      BY <2>1, <2>3
    <3> QED BY <2>1, <3>1, <3>2
  <2> QED BY <2>2, <2>3
<1>7. CASE Split!Configure(r)
  <2>1. nsPc[r] = "configure" /\ nsLink[r] # Split!NoLink /\ r \notin inSplitNs
        /\ UNCHANGED <<want, rootLink, nsLink, mvIdx, usedIds, routes, inSplitNs>>
    BY <1>7 DEF Split!Configure
  <2>2. CASE nsPc' = [nsPc EXCEPT ![r] = "routes"] /\ linkUp' = linkUp \cup {r}
             /\ addresses' = [addresses EXCEPT ![r] = want[r]]
    BY <2>1, <2>2
  <2>3. CASE nsPc' = [nsPc EXCEPT ![r] = "failed"] /\ linkUp' = linkUp
             /\ \E done \in SUBSET want[r] : addresses' = [addresses EXCEPT ![r] = done]
    BY <2>1, <2>3
  <2> QED BY <1>7, <2>2, <2>3 DEF Split!Configure
<1>8. CASE Split!AddRoutes(r)
  BY <1>8 DEF Split!AddRoutes
<1>9. CASE Split!StepFails(r)
  BY <1>9 DEF Split!StepFails
<1>10. CASE Split!Exit(r)
  BY <1>10 DEF Split!Exit
<1> QED BY <1>1, <1>2, <1>3, <1>4, <1>5, <1>6, <1>7, <1>8, <1>9, <1>10 DEF Split!SplitStep

LEMMA SplitStep == SplitInv /\ Split!SplitNext => SplitInv'
BY SplitRunStep DEF Split!SplitNext

LEMMA SplitCompletely == SplitInv => Split!SplitComplete
BY DEF SplitInv, Split!SplitComplete

-----------------------------------------------------------------------------
(***************************************************************************)
(* server::run: descriptors, scans and links.                              *)
(***************************************************************************)
ClientRec == [kind : {"client"}, link : Links, state : {"reading", "streaming"},
              out : BOOLEAN, pid : Pids \cup {0}, pipe : SrvFds \cup {0}]
PipeRec == [kind : {"pipe"}, of : SrvFds]

\* A client with a scan.
Scanning(f) == Srv!ClientAt(f) /\ table[f].pid # 0

\* What the server knows of connections and scans.
TableTypes ==
    /\ scanBusy \subseteq Links /\ running \in [Links -> Pids \cup {0}]
    /\ table \in [SrvFds -> {Srv!None} \cup ClientRec \cup PipeRec]
    /\ child \in [Pids -> {"none", "alive", "exiting", "zombie"}]

LoopTypes ==
    /\ srvPc \in {"reserve", "listen", "stunnel", "serve", "down"}
    /\ locks \subseteq Links /\ listeners \subseteq Links /\ stunnels \subseteq Links
    /\ \A e \in batch : /\ "fd" \in DOMAIN e => e.fd \in SrvFds
                        /\ "link" \in DOMAIN e => e.link \in Links

\* A scan has its own process, which is not collected, its own pipe and its own link.
ScansOwn ==
    /\ \A f \in SrvFds : Scanning(f) =>
         /\ table[f].pipe \in SrvFds
         /\ table[table[f].pipe] = [kind |-> "pipe", of |-> f]
         /\ child[table[f].pid] # "none"
         /\ table[f].link \in scanBusy /\ running[table[f].link] = table[f].pid
    /\ \A f, g \in SrvFds :
         Scanning(f) /\ Scanning(g)
           /\ (table[f].link = table[g].link \/ table[f].pid = table[g].pid) => f = g

\* Nothing is busy, alive or open without a scan.
NothingStray ==
    /\ \A s \in scanBusy : \E f \in SrvFds : Scanning(f) /\ table[f].link = s
    /\ \A s \in Links \ scanBusy : running[s] = 0
    /\ \A p \in Pids : child[p] = "alive" => \E f \in SrvFds : Scanning(f) /\ table[f].pid = p
    /\ \A g \in SrvFds : table[g].kind = "pipe" =>
         Scanning(table[g].of) /\ table[table[g].of].pipe = g

\* Until the server is down, when its table no longer matters.
ServerInv ==
    /\ TableTypes /\ LoopTypes
    /\ srvPc # "down" => ScansOwn /\ NothingStray
    /\ Srv!ServerStopsClean

LEMMA SrvCardinality == \A S : Srv!Cardinality(S) = Cardinality(S)
BY DEF Srv!Cardinality, Cardinality

LEMMA FirstIn ==
    ASSUME NEW S \in SUBSET Nat, S # {}
    PROVE  Srv!FirstOf(S) \in S
<1>1. \E s \in S : \A t \in S : s <= t
  BY LeastNat
<1> QED BY <1>1 DEF Srv!FirstOf

\* What an entry of the table is shows in its kind.
LEMMA TableKinds ==
    ASSUME TableTypes, NEW f \in SrvFds
    PROVE  /\ table[f].kind = "client" => table[f] \in ClientRec
           /\ table[f].kind = "pipe" => table[f] \in PipeRec
           /\ table[f].kind = "none" <=> table[f] = Srv!None
           /\ table[f].kind \in {"none", "client", "pipe"}
<1>1. table[f] \in {Srv!None} \cup ClientRec \cup PipeRec
  BY DEF TableTypes
<1> QED BY <1>1 DEF Srv!None, ClientRec, PipeRec

\* A client with a scan has a link, a process and a pipe of its own.
LEMMA ScanHas ==
    ASSUME TableTypes, ScansOwn, NEW f \in SrvFds, Scanning(f)
    PROVE  /\ table[f].kind = "client" /\ table[f].link \in Links /\ table[f].pid \in Pids
           /\ table[f].pipe \in SrvFds /\ table[table[f].pipe].kind = "pipe"
           /\ table[table[f].pipe].of = f
<1>1. table[f].kind = "client" /\ table[f].pid # 0 /\ table[f] \in ClientRec
  BY TableKinds DEF Scanning, Srv!ClientAt
<1>2. table[f].link \in Links /\ table[f].pid \in Pids
  BY <1>1 DEF ClientRec
<1>3. table[f].pipe \in SrvFds /\ table[table[f].pipe] = [kind |-> "pipe", of |-> f]
  BY DEF ScansOwn
<1>4. \A e : e = [kind |-> "pipe", of |-> f] => e.kind = "pipe" /\ e.of = f
  OBVIOUS
<1> QED BY <1>1, <1>2, <1>3, <1>4

\* A step that ends no scan and starts none.
LEMMA ScansStay ==
    ASSUME TableTypes, ScansOwn, NothingStray,
           \A h \in SrvFds :
             /\ Scanning(h)' <=> Scanning(h)
             /\ Scanning(h) => /\ table'[h].link = table[h].link /\ table'[h].pid = table[h].pid
                               /\ table'[h].pipe = table[h].pipe
             /\ table'[h].kind = "pipe" <=> table[h].kind = "pipe"
             /\ table[h].kind = "pipe" => table'[h] = table[h],
           \A p \in Pids : /\ child'[p] = "alive" => child[p] = "alive"
                           /\ child[p] # "none" => child'[p] # "none",
           UNCHANGED <<running, scanBusy>>
    PROVE  ScansOwn' /\ NothingStray'
<1>1. \A f \in SrvFds : Scanning(f) =>
        /\ table[f].pipe \in SrvFds /\ table[f].pid \in Pids
        /\ table[table[f].pipe].kind = "pipe"
  BY ScanHas
<1>2. \A g \in SrvFds : table[g].kind = "pipe" => table[g].of \in SrvFds
  BY TableKinds DEF PipeRec
<1>3. ScansOwn'
  BY <1>1 DEF ScansOwn
<1>4. NothingStray'
  BY <1>2 DEF NothingStray
<1> QED BY <1>3, <1>4

\* The scan of a client ends: its pipe, its process and its link are let go together.
LEMMA ScanGone ==
    ASSUME TableTypes, ScansOwn, NothingStray, NEW f \in SrvFds, Scanning(f),
           \A h \in SrvFds \ {f, table[f].pipe} : table'[h] = table[h],
           table'[table[f].pipe] = Srv!None, ~ Scanning(f)', table'[f].kind # "pipe",
           \A p \in Pids \ {table[f].pid} : child'[p] = child[p],
           child'[table[f].pid] # "alive",
           running' = [running EXCEPT ![table[f].link] = 0],
           scanBusy' = scanBusy \ {table[f].link}
    PROVE  ScansOwn' /\ NothingStray'
<1> DEFINE g == table[f].pipe
           p == table[f].pid
           s == table[f].link
<1>1. /\ g \in SrvFds /\ table[g].kind = "pipe" /\ table[g].of = f /\ p \in Pids /\ s \in Links
      /\ table[f].kind = "client" /\ running \in [Links -> Pids \cup {0}]
  BY ScanHas DEF TableTypes
<1>2. table'[g].kind = "none"
  BY DEF Srv!None
<1>3. \A h \in SrvFds : Scanning(h)' <=> h # f /\ Scanning(h)
  BY <1>1, <1>2 DEF Scanning, Srv!ClientAt
<1>4. \A h \in SrvFds : Scanning(h) /\ h # f =>
        /\ table'[h] = table[h] /\ table[h].pipe \in SrvFds \ {f, g}
        /\ table[h].pid \in Pids \ {p} /\ table[h].link \in Links \ {s}
  <2> SUFFICES ASSUME NEW h \in SrvFds, Scanning(h), h # f
               PROVE  /\ table'[h] = table[h] /\ table[h].pipe \in SrvFds \ {f, g}
                      /\ table[h].pid \in Pids \ {p} /\ table[h].link \in Links \ {s}
    OBVIOUS
  <2>1. table[h].kind = "client" /\ table[h].pid \in Pids /\ table[h].link \in Links
    BY TableKinds DEF Scanning, Srv!ClientAt, ClientRec
  <2>2. table[h].pipe \in SrvFds /\ table[table[h].pipe].kind = "pipe"
        /\ table[table[h].pipe].of = h
    BY ScanHas
  <2>3. table[h].pid # p /\ table[h].link # s
    BY DEF ScansOwn
  <2>4. h # g /\ table[h].pipe # f /\ table[h].pipe # g
    BY <1>1, <2>1, <2>2
  <2> QED BY <2>1, <2>2, <2>3, <2>4
<1>5. ScansOwn'
  <2>1. ASSUME NEW h \in SrvFds, Scanning(h)'
        PROVE  /\ table'[h].pipe \in SrvFds
               /\ table'[table'[h].pipe] = [kind |-> "pipe", of |-> h]
               /\ child'[table'[h].pid] # "none"
               /\ table'[h].link \in scanBusy' /\ running'[table'[h].link] = table'[h].pid
    <3>1. Scanning(h) /\ h # f
      BY <2>1, <1>3
    <3>2. /\ table[h].pipe \in SrvFds /\ table[table[h].pipe] = [kind |-> "pipe", of |-> h]
          /\ child[table[h].pid] # "none"
          /\ table[h].link \in scanBusy /\ running[table[h].link] = table[h].pid
      BY <3>1 DEF ScansOwn
    <3> QED BY <1>1, <1>4, <3>1, <3>2
  <2>2. ASSUME NEW h \in SrvFds, NEW k \in SrvFds, Scanning(h)', Scanning(k)',
               table'[h].link = table'[k].link \/ table'[h].pid = table'[k].pid
        PROVE  h = k
    BY <2>2, <1>3, <1>4 DEF ScansOwn
  <2> QED BY <2>1, <2>2 DEF ScansOwn
<1>6. NothingStray'
  <2>1. ASSUME NEW t \in scanBusy' PROVE \E h \in SrvFds : Scanning(h)' /\ table'[h].link = t
    <3>1. PICK h \in SrvFds : Scanning(h) /\ table[h].link = t
      BY DEF NothingStray
    <3>2. h # f
      BY <2>1, <3>1
    <3> QED BY <1>3, <1>4, <3>1, <3>2
  <2>2. ASSUME NEW t \in Links \ scanBusy' PROVE running'[t] = 0
    BY <1>1 DEF NothingStray
  <2>3. ASSUME NEW q \in Pids, child'[q] = "alive"
        PROVE  \E h \in SrvFds : Scanning(h)' /\ table'[h].pid = q
    <3>1. q # p /\ child[q] = "alive"
      BY <2>3
    <3>2. PICK h \in SrvFds : Scanning(h) /\ table[h].pid = q
      BY <3>1 DEF NothingStray
    <3> QED BY <1>3, <1>4, <3>1, <3>2
  <2>4. ASSUME NEW k \in SrvFds, table'[k].kind = "pipe"
        PROVE  Scanning(table[k].of)' /\ table'[table'[k].of].pipe = k
    <3>1. k \notin {f, g} /\ table'[k] = table[k] /\ table[k].kind = "pipe"
      BY <2>4, <1>2
    <3>2. table[k].of \in SrvFds
      BY <3>1, TableKinds DEF PipeRec
    <3>3. Scanning(table[k].of) /\ table[table[k].of].pipe = k
      BY <3>1 DEF NothingStray
    <3>4. table[k].of # f
      BY <3>1, <3>3
    <3>5. PICK o \in SrvFds : o # f /\ Scanning(o) /\ table[o].pipe = k /\ table'[k].of = o
      BY <3>1, <3>2, <3>3, <3>4
    <3>6. Scanning(o)' /\ table'[o].pipe = k
      BY <1>3, <1>4, <3>5
    <3> QED BY <3>5, <3>6 DEF Scanning, Srv!ClientAt
  <2> QED BY <2>1, <2>2, <2>3, <2>4 DEF NothingStray
<1> QED BY <1>5, <1>6

\* A scan starts: its link was free, its process new, its pipe a descriptor nobody had.
LEMMA ScanStarts ==
    ASSUME TableTypes, ScansOwn, NothingStray, NEW f \in SrvFds, Srv!ClientAt(f),
           NEW g \in SrvFds, table[g] = Srv!None, NEW p \in Pids, child[p] = "none",
           table[f].link \notin scanBusy,
           table' = [table EXCEPT ![f].state = "streaming", ![f].pid = p, ![f].pipe = g,
                                  ![g] = [kind |-> "pipe", of |-> f]],
           child' = [child EXCEPT ![p] = "alive"],
           running' = [running EXCEPT ![table[f].link] = p],
           scanBusy' = scanBusy \cup {table[f].link}
    PROVE  TableTypes' /\ ScansOwn' /\ NothingStray'
<1> DEFINE s == table[f].link
<1>1. table[f] \in ClientRec /\ table[f].kind = "client" /\ s \in Links /\ p # 0
  BY TableKinds, CommandsAssumption DEF Srv!ClientAt, ClientRec
<1>2. table[g].kind = "none" /\ g # f
  BY <1>1 DEF Srv!None
<1>3. /\ table \in [SrvFds -> {Srv!None} \cup ClientRec \cup PipeRec]
      /\ child \in [Pids -> {"none", "alive", "exiting", "zombie"}]
      /\ running \in [Links -> Pids \cup {0}] /\ scanBusy \subseteq Links
  BY DEF TableTypes
<1>4. /\ table'[f] \in ClientRec /\ table'[f].kind = "client" /\ table'[f].link = s
      /\ table'[f].pid = p /\ table'[f].pipe = g
  <2>1. table'[f] = [[[table[f] EXCEPT !.state = "streaming"] EXCEPT !.pid = p] EXCEPT !.pipe = g]
    BY <1>2, <1>3
  <2>2. \A c \in ClientRec : LET d == [c EXCEPT !.state = "streaming"]
                            IN  d \in ClientRec /\ d.link = c.link
    BY DEF ClientRec
  <2>3. \A c \in ClientRec : LET d == [c EXCEPT !.pid = p]
                            IN  d \in ClientRec /\ d.link = c.link /\ d.pid = p
    BY DEF ClientRec
  <2>4. \A c \in ClientRec : LET d == [c EXCEPT !.pipe = g]
                            IN  d \in ClientRec /\ d.link = c.link /\ d.pid = c.pid /\ d.pipe = g
    BY DEF ClientRec
  <2>5. PICK c \in ClientRec : c = [table[f] EXCEPT !.state = "streaming"] /\ c.link = s
    BY <1>1, <2>2
  <2>6. PICK d \in ClientRec : d = [c EXCEPT !.pid = p] /\ d.link = s /\ d.pid = p
    BY <2>3, <2>5
  <2>7. PICK e \in ClientRec : /\ e = [d EXCEPT !.pipe = g]
                              /\ e.link = s /\ e.pid = p /\ e.pipe = g
    BY <2>4, <2>6
  <2>8. table'[f] = e
    <3>1. table'[f] = [[c EXCEPT !.pid = p] EXCEPT !.pipe = g]
      BY <2>1, <2>5
    <3>2. table'[f] = [d EXCEPT !.pipe = g]
      BY <2>6, <3>1
    <3> QED BY <2>7, <3>2
  <2> QED BY <2>7, <2>8 DEF ClientRec
<1>5. table'[g] = [kind |-> "pipe", of |-> f]
  BY <1>2, <1>3
<1>6. table'[g] \in PipeRec /\ table'[g].kind = "pipe" /\ table'[g].of = f
  BY <1>5 DEF PipeRec
<1>7. \A h \in SrvFds \ {f, g} : table'[h] = table[h]
  BY <1>3
<1>8. table' \in [SrvFds -> {Srv!None} \cup ClientRec \cup PipeRec]
  <2>1. \A h \in SrvFds : table'[h] \in {Srv!None} \cup ClientRec \cup PipeRec
    BY <1>3, <1>4, <1>6, <1>7
  <2>2. table' = [h \in SrvFds |-> table'[h]]
    BY <1>3
  <2> QED BY <2>1, <2>2
<1>9. TableTypes'
  BY <1>1, <1>3, <1>8 DEF TableTypes
<1>10. ~ Scanning(f) /\ ~ Scanning(g) /\ \A h \in SrvFds : Scanning(h) => h \notin {f, g}
  BY <1>2 DEF ScansOwn, Scanning, Srv!ClientAt
<1>11. \A h \in SrvFds : Scanning(h)' <=> h = f \/ Scanning(h)
  BY <1>1, <1>4, <1>6, <1>7, <1>10 DEF Scanning, Srv!ClientAt
<1>12. \A h \in SrvFds : Scanning(h) =>
         /\ table'[h] = table[h] /\ table[h].link \in Links \ {s} /\ table[h].pid \in Pids \ {p}
         /\ table[h].pipe \in SrvFds \ {f, g}
  <2> SUFFICES ASSUME NEW h \in SrvFds, Scanning(h)
               PROVE  /\ table'[h] = table[h] /\ table[h].link \in Links \ {s}
                      /\ table[h].pid \in Pids \ {p} /\ table[h].pipe \in SrvFds \ {f, g}
    OBVIOUS
  <2>1. table[h].link # s /\ table[h].pid # p
    BY DEF ScansOwn
  <2>2. table[h].pipe # f /\ table[h].pipe # g
    BY ScanHas, <1>1, <1>2
  <2> QED BY <1>7, <1>10, <2>1, <2>2, ScanHas
<1>13. ScansOwn'
  <2>1. ASSUME NEW h \in SrvFds, Scanning(h)'
        PROVE  /\ table'[h].pipe \in SrvFds
               /\ table'[table'[h].pipe] = [kind |-> "pipe", of |-> h]
               /\ child'[table'[h].pid] # "none"
               /\ table'[h].link \in scanBusy' /\ running'[table'[h].link] = table'[h].pid
    <3>1. CASE h = f
      BY <3>1, <1>1, <1>3, <1>4, <1>5
    <3>2. CASE h # f
      <4>1. Scanning(h)
        BY <2>1, <3>2, <1>11
      <4>2. /\ table[h].pipe \in SrvFds /\ table[table[h].pipe] = [kind |-> "pipe", of |-> h]
            /\ child[table[h].pid] # "none"
            /\ table[h].link \in scanBusy /\ running[table[h].link] = table[h].pid
        BY <4>1 DEF ScansOwn
      <4> QED BY <4>1, <4>2, <1>3, <1>7, <1>12
    <3> QED BY <3>1, <3>2
  <2>2. ASSUME NEW h \in SrvFds, NEW k \in SrvFds, Scanning(h)', Scanning(k)',
               table'[h].link = table'[k].link \/ table'[h].pid = table'[k].pid
        PROVE  h = k
    <3>1. CASE h = f \/ k = f
      <4>1. ASSUME NEW j \in SrvFds, j # f, Scanning(j)'
            PROVE  table'[j].link # s /\ table'[j].pid # p
        BY <4>1, <1>11, <1>12
      <4>2. h # f => table'[h].link # s /\ table'[h].pid # p
        BY <2>2, <4>1
      <4>3. k # f => table'[k].link # s /\ table'[k].pid # p
        BY <2>2, <4>1
      <4>4. CASE h = f /\ k # f
        BY <2>2, <4>3, <4>4, <1>4
      <4>5. CASE k = f /\ h # f
        BY <2>2, <4>2, <4>5, <1>4
      <4> QED BY <3>1, <4>4, <4>5
    <3>2. CASE h # f /\ k # f
      <4>1. /\ Scanning(h) /\ Scanning(k)
            /\ table[h].link = table[k].link \/ table[h].pid = table[k].pid
        BY <2>2, <3>2, <1>11, <1>12
      <4> QED BY <4>1 DEF ScansOwn
    <3> QED BY <3>1, <3>2
  <2> QED BY <2>1, <2>2 DEF ScansOwn
<1>14. NothingStray'
  <2>1. ASSUME NEW t \in scanBusy' PROVE \E h \in SrvFds : Scanning(h)' /\ table'[h].link = t
    <3>1. CASE t = s
      BY <3>1, <1>4, <1>11
    <3>2. CASE t # s
      <4>1. PICK h \in SrvFds : Scanning(h) /\ table[h].link = t
        BY <2>1, <3>2 DEF NothingStray
      <4> QED BY <4>1, <1>11, <1>12
    <3> QED BY <3>1, <3>2
  <2>2. ASSUME NEW t \in Links \ scanBusy' PROVE running'[t] = 0
    <3>1. t \in Links \ scanBusy /\ t # s
      BY <2>2
    <3>2. running[t] = 0
      BY <3>1 DEF NothingStray
    <3>3. running'[t] = running[t]
      BY <1>3, <3>1
    <3> QED BY <3>2, <3>3
  <2>3. ASSUME NEW q \in Pids, child'[q] = "alive"
        PROVE  \E h \in SrvFds : Scanning(h)' /\ table'[h].pid = q
    <3>1. CASE q = p
      BY <3>1, <1>4, <1>11
    <3>2. CASE q # p
      <4>1. child[q] = "alive"
        BY <2>3, <3>2, <1>3
      <4>2. PICK h \in SrvFds : Scanning(h) /\ table[h].pid = q
        BY <4>1 DEF NothingStray
      <4> QED BY <4>2, <1>11, <1>12
    <3> QED BY <3>1, <3>2
  <2>4. ASSUME NEW k \in SrvFds, table'[k].kind = "pipe"
        PROVE  Scanning(table[k].of)' /\ table'[table'[k].of].pipe = k
    <3>1. CASE k = g
      <4>1. Scanning(f)' /\ table'[f].pipe = k /\ table'[k].of = f
        BY <3>1, <1>4, <1>6, <1>11
      <4> QED BY <4>1 DEF Scanning, Srv!ClientAt
    <3>2. CASE k # g
      <4>1. k # f /\ table'[k] = table[k] /\ table[k].kind = "pipe"
        BY <2>4, <3>2, <1>4, <1>7
      <4>2. table[k].of \in SrvFds
        BY <4>1, TableKinds DEF PipeRec
      <4>3. Scanning(table[k].of) /\ table[table[k].of].pipe = k
        BY <4>1 DEF NothingStray
      <4>4. PICK o \in SrvFds : Scanning(o) /\ table[o].pipe = k /\ table'[k].of = o
        BY <4>1, <4>2, <4>3
      <4>5. Scanning(o)' /\ table'[o].pipe = k
        BY <4>4, <1>11, <1>12
      <4> QED BY <4>4, <4>5 DEF Scanning, Srv!ClientAt
    <3> QED BY <3>1, <3>2
  <2> QED BY <2>1, <2>2, <2>3, <2>4 DEF NothingStray
<1> QED BY <1>9, <1>13, <1>14

ConnInv == TableTypes /\ ScansOwn /\ NothingStray

LEMMA ConnSame == ConnInv /\ UNCHANGED <<table, child, running, scanBusy>> => ConnInv'
BY DEF ConnInv, TableTypes, ScansOwn, NothingStray, Scanning, Srv!ClientAt

\* close_connection lets a client's scan go with it.
LEMMA Closes ==
    ASSUME ConnInv, NEW f \in SrvFds, Srv!ClientAt(f), Srv!CloseConnection(f)
    PROVE  ConnInv'
<1> USE DEF ConnInv
<1>1. /\ table \in [SrvFds -> {Srv!None} \cup ClientRec \cup PipeRec]
      /\ child \in [Pids -> {"none", "alive", "exiting", "zombie"}]
      /\ running \in [Links -> Pids \cup {0}] /\ scanBusy \subseteq Links
      /\ table[f].kind = "client" /\ Srv!None.kind = "none"
  BY DEF TableTypes, Srv!ClientAt, Srv!None
<1>2. CASE table[f].pid = 0
  <2>1. table' = [table EXCEPT ![f] = Srv!None] /\ UNCHANGED <<child, running, scanBusy>>
    BY <1>2 DEF Srv!CloseConnection
  <2>2. TableTypes'
    BY <1>1, <2>1 DEF TableTypes
  <2>3. table'[f] = Srv!None /\ (\A h \in SrvFds \ {f} : table'[h] = table[h]) /\ ~ Scanning(f)
    BY <1>1, <1>2, <2>1 DEF Scanning
  <2>4. \A h \in SrvFds :
          /\ Scanning(h)' <=> Scanning(h)
          /\ Scanning(h) => /\ table'[h].link = table[h].link /\ table'[h].pid = table[h].pid
                            /\ table'[h].pipe = table[h].pipe
          /\ table'[h].kind = "pipe" <=> table[h].kind = "pipe"
          /\ table[h].kind = "pipe" => table'[h] = table[h]
    BY <1>1, <2>3 DEF Scanning, Srv!ClientAt
  <2> QED BY <2>1, <2>2, <2>4, ScansStay
<1>3. CASE table[f].pid # 0
  <2> DEFINE g == table[f].pipe
             p == table[f].pid
             s == table[f].link
  <2>1. /\ child' \in {[child EXCEPT ![p] = "none"]} \cup
                     (IF child[p] = "zombie" THEN {} ELSE {[child EXCEPT ![p] = "exiting"]})
        /\ running' = IF running[s] = p THEN [running EXCEPT ![s] = 0] ELSE running
        /\ table' = [table EXCEPT ![f] = Srv!None, ![g] = Srv!None]
        /\ scanBusy' = scanBusy \ {s}
    BY <1>3 DEF Srv!CloseConnection
  <2>2. Scanning(f)
    BY <1>3 DEF Scanning
  <2>3. g \in SrvFds /\ p \in Pids /\ s \in Links /\ running[s] = p
    BY <2>2, ScanHas DEF ScansOwn
  <2>4. running' = [running EXCEPT ![s] = 0]
    BY <2>1, <2>3
  <2>5. /\ child' \in [Pids -> {"none", "alive", "exiting", "zombie"}] /\ child'[p] # "alive"
        /\ \A q \in Pids \ {p} : child'[q] = child[q]
    BY <1>1, <2>1, <2>3
  <2>6. /\ table' \in [SrvFds -> {Srv!None} \cup ClientRec \cup PipeRec]
        /\ table'[f] = Srv!None /\ table'[g] = Srv!None
        /\ \A h \in SrvFds \ {f, g} : table'[h] = table[h]
    BY <1>1, <2>1, <2>3
  <2>7. TableTypes'
    BY <1>1, <2>1, <2>4, <2>5, <2>6 DEF TableTypes
  <2>8. ~ Scanning(f)' /\ table'[f].kind # "pipe"
    BY <1>1, <2>6 DEF Scanning, Srv!ClientAt
  <2> QED BY <2>1, <2>2, <2>4, <2>5, <2>6, <2>7, <2>8, ScanGone
<1> QED BY <1>2, <1>3

\* An answer is kept until it can be written, or has been written.
LEMMA Flagged ==
    ASSUME ConnInv, NEW f \in SrvFds, Srv!ClientAt(f), NEW b \in BOOLEAN,
           table' = [table EXCEPT ![f].out = b], Srv!Keep
    PROVE  ConnInv'
<1> USE DEF ConnInv
<1>1. table[f] \in ClientRec /\ table \in [SrvFds -> {Srv!None} \cup ClientRec \cup PipeRec]
  BY TableKinds DEF TableTypes, Srv!ClientAt
<1>2. table'[f] = [table[f] EXCEPT !.out = b] /\ \A h \in SrvFds \ {f} : table'[h] = table[h]
  BY <1>1
<1>3. \A c \in ClientRec : LET d == [c EXCEPT !.out = b]
                         IN  /\ d \in ClientRec /\ d.kind = c.kind
                             /\ d.link = c.link /\ d.pid = c.pid /\ d.pipe = c.pipe
  BY DEF ClientRec
<1>4. PICK d \in ClientRec : /\ table'[f] = d /\ d.kind = table[f].kind /\ d.link = table[f].link
                            /\ d.pid = table[f].pid /\ d.pipe = table[f].pipe
  BY <1>1, <1>2, <1>3
<1>5. UNCHANGED <<child, running, scanBusy>>
  BY DEF Srv!Keep
<1>6. TableTypes'
  <2>1. \A h \in SrvFds : table'[h] \in {Srv!None} \cup ClientRec \cup PipeRec
    BY <1>1, <1>2, <1>4
  <2>2. table' = [h \in SrvFds |-> table'[h]]
    BY <1>1
  <2>3. table' \in [SrvFds -> {Srv!None} \cup ClientRec \cup PipeRec]
    BY <2>1, <2>2
  <2> QED BY <1>5, <2>3 DEF TableTypes
<1>7. table[f].kind = "client"
  BY DEF Srv!ClientAt
<1>8. \A h \in SrvFds :
        /\ Scanning(h)' <=> Scanning(h)
        /\ Scanning(h) => /\ table'[h].link = table[h].link /\ table'[h].pid = table[h].pid
                          /\ table'[h].pipe = table[h].pipe
        /\ table'[h].kind = "pipe" <=> table[h].kind = "pipe"
        /\ table[h].kind = "pipe" => table'[h] = table[h]
  BY <1>2, <1>4, <1>7 DEF Scanning, Srv!ClientAt
<1> QED BY <1>5, <1>6, <1>8, ScansStay

LEMMA Responds ==
    ASSUME ConnInv, NEW f \in SrvFds, Srv!ClientAt(f), Srv!Respond(f)
    PROVE  ConnInv'
BY Closes, Flagged DEF Srv!Respond

\* start_run: refused, started, or the client gone before the head was written.
LEMMA StartRuns ==
    ASSUME ConnInv, NEW f \in SrvFds, Srv!ClientAt(f), Srv!StartRun(f)
    PROVE  ConnInv'
<1> USE DEF ConnInv
<1>1. CASE Srv!Respond(f)
  BY <1>1, Responds
<1>2. CASE ~ Srv!Respond(f)
  <2> DEFINE s == table[f].link
             g == Srv!FirstOf(Srv!Free)
  <2>1. s \notin scanBusy /\ Srv!Free # {}
    BY <1>2 DEF Srv!StartRun
  <2>2. PICK p \in Pids :
          /\ child[p] = "none"
          /\ \/ /\ table' = [table EXCEPT ![f].state = "streaming", ![f].pid = p, ![f].pipe = g,
                                         ![g] = [kind |-> "pipe", of |-> f]]
                /\ child' = [child EXCEPT ![p] = "alive"]
                /\ running' = [running EXCEPT ![s] = p]
                /\ scanBusy' = scanBusy \cup {s}
             \/ /\ table' = [table EXCEPT ![f] = Srv!None]
                /\ child' = [child EXCEPT ![p] = "exiting"]
                /\ UNCHANGED <<running, scanBusy>>
    BY <1>2 DEF Srv!StartRun
  <2>3. g \in SrvFds /\ table[g] = Srv!None
    <3>1. Srv!Free \subseteq SrvFds /\ SrvFds \subseteq Nat
      BY CommandsAssumption DEF Srv!Free
    <3>2. g \in Srv!Free
      BY <2>1, <3>1, FirstIn
    <3> QED BY <3>2 DEF Srv!Free
  <2> HIDE DEF g
  <2>4. CASE table' = [table EXCEPT ![f] = Srv!None]
             /\ child' = [child EXCEPT ![p] = "exiting"] /\ UNCHANGED <<running, scanBusy>>
    <3>1. /\ table \in [SrvFds -> {Srv!None} \cup ClientRec \cup PipeRec]
          /\ child \in [Pids -> {"none", "alive", "exiting", "zombie"}]
          /\ table[f].kind = "client" /\ Srv!None.kind = "none"
      BY DEF TableTypes, Srv!ClientAt, Srv!None
    <3>2. ~ Scanning(f)
      BY <2>1 DEF ScansOwn
    <3>3. table'[f] = Srv!None /\ \A h \in SrvFds \ {f} : table'[h] = table[h]
      BY <2>4, <3>1
    <3>4. TableTypes'
      BY <2>4, <3>1 DEF TableTypes
    <3>5. \A h \in SrvFds :
            /\ Scanning(h)' <=> Scanning(h)
            /\ Scanning(h) => /\ table'[h].link = table[h].link /\ table'[h].pid = table[h].pid
                              /\ table'[h].pipe = table[h].pipe
            /\ table'[h].kind = "pipe" <=> table[h].kind = "pipe"
            /\ table[h].kind = "pipe" => table'[h] = table[h]
      BY <3>1, <3>2, <3>3 DEF Scanning, Srv!ClientAt
    <3>6. \A q \in Pids : /\ child'[q] = "alive" => child[q] = "alive"
                          /\ child[q] # "none" => child'[q] # "none"
      BY <2>4, <3>1
    <3> QED BY <2>4, <3>4, <3>5, <3>6, ScansStay
  <2>5. CASE ~ (table' = [table EXCEPT ![f] = Srv!None]
             /\ child' = [child EXCEPT ![p] = "exiting"] /\ UNCHANGED <<running, scanBusy>>)
    BY <2>1, <2>2, <2>3, <2>5, ScanStarts
  <2> QED BY <2>4, <2>5
<1> QED BY <1>1, <1>2

\* on_child_pipe_readable: the pipe names the client whose scan it carries.
LEMMA PipeReads ==
    ASSUME ConnInv, NEW g \in SrvFds, table[g].kind = "pipe", Srv!PipeReadable(g)
    PROVE  ConnInv'
<1> USE DEF ConnInv
<1>1. PICK f \in SrvFds : f = table[g].of /\ Scanning(f) /\ table[f].pipe = g
  BY TableKinds DEF NothingStray, PipeRec
<1>2. /\ Srv!ClientAt(f) /\ table[f].pid \in Pids /\ table[f].link \in Links
      /\ table[f] \in ClientRec /\ f # g
  BY <1>1, ScanHas, TableKinds DEF Scanning, Srv!ClientAt
<1>3. CASE table' \in {table, [table EXCEPT ![f].out = TRUE]} /\ Srv!Keep
  BY <1>2, <1>3, ConnSame, Flagged DEF Srv!Keep
<1>4. CASE Srv!CloseConnection(f)
  BY <1>2, <1>4, Closes
<1>5. CASE /\ child[table[f].pid] \in {"exiting", "zombie"}
           /\ child' = Srv!Waited(child, table[f].pid)
           /\ running' = [running EXCEPT ![table[f].link] = 0]
           /\ scanBusy' = scanBusy \ {table[f].link}
           /\ table' \in {[table EXCEPT ![f] = Srv!None, ![g] = Srv!None],
                          [table EXCEPT ![f].pid = 0, ![f].pipe = 0, ![f].out = TRUE,
                                        ![g] = Srv!None]}
  <2> DEFINE p == table[f].pid
             s == table[f].link
  <2>1. /\ table \in [SrvFds -> {Srv!None} \cup ClientRec \cup PipeRec]
        /\ child \in [Pids -> {"none", "alive", "exiting", "zombie"}]
        /\ running \in [Links -> Pids \cup {0}] /\ scanBusy \subseteq Links
        /\ Srv!None.kind = "none"
    BY DEF TableTypes, Srv!None
  <2>2. child' = [child EXCEPT ![p] = IF @ = "zombie" THEN "none" ELSE @]
    BY <1>5 DEF Srv!Waited
  <2>3. /\ child' \in [Pids -> {"none", "alive", "exiting", "zombie"}] /\ child'[p] # "alive"
        /\ \A q \in Pids \ {p} : child'[q] = child[q]
    BY <1>2, <1>5, <2>1, <2>2
  <2>4. table'[g] = Srv!None /\ \A h \in SrvFds \ {f, g} : table'[h] = table[h]
    BY <1>2, <1>5, <2>1
  <2>5. /\ table'[f] \in {Srv!None} \cup ClientRec /\ ~ Scanning(f)' /\ table'[f].kind # "pipe"
    <3>1. CASE table' = [table EXCEPT ![f] = Srv!None, ![g] = Srv!None]
      BY <1>2, <2>1, <3>1 DEF Scanning, Srv!ClientAt
    <3>2. CASE table' = [table EXCEPT ![f].pid = 0, ![f].pipe = 0, ![f].out = TRUE,
                                      ![g] = Srv!None]
      <4>1. table'[f] = [[[table[f] EXCEPT !.pid = 0] EXCEPT !.pipe = 0] EXCEPT !.out = TRUE]
        BY <1>2, <2>1, <3>2
      <4>2. \A c \in ClientRec : LET d == [c EXCEPT !.pid = 0] IN d \in ClientRec /\ d.pid = 0
        BY DEF ClientRec
      <4>3. \A c \in ClientRec : LET d == [c EXCEPT !.pipe = 0] IN d \in ClientRec /\ d.pid = c.pid
        BY DEF ClientRec
      <4>4. \A c \in ClientRec : LET d == [c EXCEPT !.out = TRUE] IN d \in ClientRec /\ d.pid = c.pid
        BY DEF ClientRec
      <4>5. PICK c \in ClientRec : c = [table[f] EXCEPT !.pid = 0] /\ c.pid = 0
        BY <1>2, <4>2
      <4>6. PICK d \in ClientRec : d = [c EXCEPT !.pipe = 0] /\ d.pid = 0
        BY <4>3, <4>5
      <4>7. PICK e \in ClientRec : e = [d EXCEPT !.out = TRUE] /\ e.pid = 0
        BY <4>4, <4>6
      <4>8. table'[f] = e
        <5>1. table'[f] = [[c EXCEPT !.pipe = 0] EXCEPT !.out = TRUE]
          BY <4>1, <4>5
        <5>2. table'[f] = [d EXCEPT !.out = TRUE]
          BY <4>6, <5>1
        <5> QED BY <4>7, <5>2
      <4>9. e.kind = "client"
        BY DEF ClientRec
      <4> QED BY <4>7, <4>8, <4>9 DEF Scanning
    <3> QED BY <1>5, <3>1, <3>2
  <2>6. TableTypes'
    <3>1. \A h \in SrvFds : table'[h] \in {Srv!None} \cup ClientRec \cup PipeRec
      BY <2>1, <2>4, <2>5
    <3>2. table' = [h \in SrvFds |-> table'[h]]
      BY <1>5, <2>1
    <3>3. table' \in [SrvFds -> {Srv!None} \cup ClientRec \cup PipeRec]
      BY <3>1, <3>2
    <3> QED BY <1>2, <1>5, <2>1, <2>3, <3>3 DEF TableTypes
  <2> QED BY <1>1, <1>5, <2>3, <2>4, <2>5, <2>6, ScanGone
<1> QED BY <1>1, <1>3, <1>4, <1>5 DEF Srv!PipeReadable

\* An event finds at its descriptor what is there now.
LEMMA EventHandled ==
    ASSUME ConnInv, LoopTypes, Srv!HandleEvent
    PROVE  ConnInv'
<1>1. PICK e \in batch :
        /\ "fd" \in DOMAIN e
        /\ CASE table[e.fd] = Srv!None -> UNCHANGED table /\ Srv!Keep
             [] table[e.fd].kind = "pipe" -> Srv!PipeReadable(e.fd)
             [] Srv!ClientAt(e.fd) /\ e.ev = "hup" -> Srv!CloseConnection(e.fd)
             [] Srv!ClientAt(e.fd) /\ e.ev = "out" -> Srv!ClientWritable(e.fd)
             [] OTHER -> Srv!ClientReadable(e.fd)
  BY DEF Srv!HandleEvent
<1>2. PICK f \in SrvFds : f = e.fd
  BY <1>1 DEF LoopTypes
<1>3. TableTypes
  BY DEF ConnInv
<1>4. CASE table[f] = Srv!None
  <2>1. UNCHANGED table /\ Srv!Keep
    <3>1. table[f].kind # "pipe" /\ ~ Srv!ClientAt(f)
      BY <1>4 DEF Srv!None, Srv!ClientAt
    <3> QED BY <1>1, <1>2, <1>4, <3>1
  <2> QED BY <2>1, ConnSame DEF Srv!Keep
<1>5. CASE table[f].kind = "pipe"
  <2>1. table[f] # Srv!None /\ ~ Srv!ClientAt(f)
    BY <1>5 DEF Srv!None, Srv!ClientAt
  <2>2. Srv!PipeReadable(f)
    BY <1>1, <1>2, <1>5, <2>1
  <2> QED BY <1>5, <2>2, PipeReads
<1>6. CASE table[f].kind = "client"
  <2>1. table[f] # Srv!None /\ Srv!ClientAt(f)
    BY <1>6 DEF Srv!None, Srv!ClientAt
  <2>2. \/ Srv!CloseConnection(f) \/ Srv!ClientWritable(f) \/ Srv!ClientReadable(f)
    BY <1>1, <1>2, <1>6, <2>1
  <2>3. CASE Srv!CloseConnection(f)
    BY <2>1, <2>3, Closes
  <2>4. CASE Srv!ClientWritable(f)
    BY <2>1, <2>4, Closes, Flagged DEF Srv!ClientWritable
  <2>5. CASE Srv!ClientReadable(f)
    BY <2>1, <2>5, Closes, ConnSame, Responds, StartRuns
       DEF Srv!ClientReadable, Srv!Keep, Srv!Dispatch
  <2> QED BY <2>2, <2>3, <2>4, <2>5
<1> QED BY <1>3, <1>4, <1>5, <1>6, TableKinds

\* accept4 takes a descriptor that is free.
LEMMA Accepts ==
    ASSUME ConnInv, LoopTypes, Srv!Accept
    PROVE  ConnInv'
<1> USE DEF ConnInv
<1>1. PICK e \in batch :
        /\ "link" \in DOMAIN e
        /\ table' = IF Srv!Free = {} THEN table
                    ELSE [table EXCEPT ![Srv!FirstOf(Srv!Free)] =
                            [kind |-> "client", link |-> e.link, state |-> "reading",
                             out |-> FALSE, pid |-> 0, pipe |-> 0]]
  BY DEF Srv!Accept
<1>2. UNCHANGED <<scanBusy, running, child>>
  BY DEF Srv!Accept
<1>3. CASE Srv!Free = {}
  BY <1>1, <1>2, <1>3, ConnSame
<1>4. CASE Srv!Free # {}
  <2>1. PICK g \in SrvFds : g = Srv!FirstOf(Srv!Free) /\ table[g] = Srv!None
    <3>1. Srv!Free \subseteq SrvFds /\ SrvFds \subseteq Nat
      BY CommandsAssumption DEF Srv!Free
    <3>2. Srv!FirstOf(Srv!Free) \in Srv!Free
      BY <1>4, <3>1, FirstIn
    <3> QED BY <3>2 DEF Srv!Free
  <2>2. PICK s \in Links : s = e.link
    BY <1>1 DEF LoopTypes
  <2> DEFINE c == [kind |-> "client", link |-> s, state |-> "reading",
                   out |-> FALSE, pid |-> 0, pipe |-> 0]
  <2>3. c \in ClientRec /\ c.kind = "client" /\ c.pid = 0
    BY DEF ClientRec
  <2>4. table' = [table EXCEPT ![g] = c]
    BY <1>1, <1>4, <2>1, <2>2
  <2> HIDE DEF c
  <2>5. table \in [SrvFds -> {Srv!None} \cup ClientRec \cup PipeRec] /\ Srv!None.kind = "none"
    BY DEF TableTypes, Srv!None
  <2>6. TableTypes'
    BY <1>2, <2>3, <2>4, <2>5 DEF TableTypes
  <2>7. table'[g] = c /\ \A h \in SrvFds \ {g} : table'[h] = table[h]
    BY <2>4, <2>5
  <2>8. \A h \in SrvFds :
          /\ Scanning(h)' <=> Scanning(h)
          /\ Scanning(h) => /\ table'[h].link = table[h].link /\ table'[h].pid = table[h].pid
                            /\ table'[h].pipe = table[h].pipe
          /\ table'[h].kind = "pipe" <=> table[h].kind = "pipe"
          /\ table[h].kind = "pipe" => table'[h] = table[h]
    BY <2>1, <2>3, <2>5, <2>7 DEF Scanning, Srv!ClientAt
  <2> QED BY <1>2, <2>6, <2>8, ScansStay
<1> QED BY <1>3, <1>4

LEMMA ServerStarts == Init => ServerInv
<1> SUFFICES ASSUME Init PROVE ServerInv
  OBVIOUS
<1>1. /\ srvPc = "reserve" /\ locks = {} /\ listeners = {} /\ stunnels = {} /\ scanBusy = {}
      /\ running = [s \in Links |-> 0] /\ table = [f \in SrvFds |-> Srv!None]
      /\ child = [p \in Pids |-> "none"] /\ batch = {}
  BY DEF Init, Srv!ServerInit
<1>2. \A f \in SrvFds : table[f].kind = "none"
  BY <1>1 DEF Srv!None
<1>3. TableTypes /\ LoopTypes
  BY <1>1 DEF TableTypes, LoopTypes
<1>4. ScansOwn /\ NothingStray
  BY <1>1, <1>2 DEF ScansOwn, NothingStray, Scanning, Srv!ClientAt
<1> QED BY <1>1, <1>3, <1>4 DEF ServerInv, Srv!ServerStopsClean

LEMMA ServerUntouched == ServerInv /\ UNCHANGED serverVars => ServerInv'
<1> SUFFICES ASSUME ServerInv, UNCHANGED serverVars PROVE ServerInv'
  OBVIOUS
<1> USE DEF ServerInv, serverVars
<1>1. TableTypes' /\ LoopTypes' /\ Srv!ServerStopsClean'
  BY DEF TableTypes, LoopTypes, Srv!ServerStopsClean
<1>2. srvPc' # "down" => ScansOwn' /\ NothingStray'
  BY DEF ScansOwn, NothingStray, Scanning, Srv!ClientAt
<1> QED BY <1>1, <1>2

\* Link by link: locks, listeners, stunnels.
LEMMA ServerSetUp ==
    ASSUME ServerInv, Srv!Starting
    PROVE  ServerInv'
<1> USE DEF ServerInv
<1>1. /\ srvPc # "down" /\ srvPc' \in {"reserve", "listen", "stunnel", "serve"}
      /\ UNCHANGED <<scanBusy, running, table, child, batch>>
  BY DEF Srv!Starting, Srv!Reserve, Srv!Reserved, Srv!CreateListener, Srv!Listening,
         Srv!StartStunnel, Srv!Started, Srv!serving
<1>2. locks' \subseteq Links /\ listeners' \subseteq Links /\ stunnels' \subseteq Links
  <2>1. \A S \in SUBSET Links : S # Links => Srv!FirstOf(Links \ S) \in Links
    <3> SUFFICES ASSUME NEW S \in SUBSET Links, S # Links PROVE Srv!FirstOf(Links \ S) \in Links
      OBVIOUS
    <3>1. Links \ S # {} /\ Links \ S \subseteq Nat
      BY CommandsAssumption
    <3> QED BY <3>1, FirstIn
  <2> QED BY <2>1
      DEF LoopTypes, Srv!Starting, Srv!Reserve, Srv!Reserved, Srv!CreateListener,
          Srv!Listening, Srv!StartStunnel, Srv!Started, Srv!startup
<1>3. LoopTypes'
  BY <1>1, <1>2 DEF LoopTypes
<1>4. ConnInv'
  BY <1>1, ConnSame DEF ConnInv
<1> QED BY <1>1, <1>3, <1>4 DEF ConnInv, Srv!ServerStopsClean

\* Every scan that is alive has a client, so shutdown_all reaches it.
LEMMA ServerGoesDown ==
    ASSUME ServerInv, srvPc # "down", Srv!ShutdownAll
    PROVE  ServerInv'
<1> USE DEF ServerInv
<1>1. /\ srvPc' = "down" /\ locks' = {} /\ listeners' = {} /\ stunnels' = {}
      /\ UNCHANGED <<scanBusy, running, table, batch>>
      /\ child' = [p \in Pids |->
            IF \E f \in SrvFds : table[f].kind = "client" /\ table[f].pid = p
              THEN "none" ELSE child[p]]
  BY DEF Srv!ShutdownAll
<1>2. LoopTypes'
  BY <1>1 DEF LoopTypes
<1>3. TableTypes'
  BY <1>1 DEF TableTypes
<1>4. \A p \in Pids : child'[p] # "alive"
  <2> SUFFICES ASSUME NEW p \in Pids, child'[p] = "alive" PROVE FALSE
    OBVIOUS
  <2>1. child[p] = "alive" /\ ~ \E f \in SrvFds : table[f].kind = "client" /\ table[f].pid = p
    BY <1>1
  <2>2. \E f \in SrvFds : Scanning(f) /\ table[f].pid = p
    BY <2>1 DEF NothingStray
  <2> QED BY <2>1, <2>2 DEF Scanning, Srv!ClientAt
<1> QED BY <1>1, <1>2, <1>3, <1>4 DEF Srv!ServerStopsClean

LEMMA ServerWaits ==
    ASSUME ServerInv, Srv!EpollWait
    PROVE  ServerInv'
<1> USE DEF ServerInv
<1>1. srvPc = "serve" /\ UNCHANGED <<srvPc, locks, listeners, stunnels, scanBusy, running, table, child>>
  BY DEF Srv!EpollWait, Srv!startup, Srv!serving
<1>2. batch' \subseteq Srv!Events \cup [link : listeners]
  BY DEF Srv!EpollWait, Srv!kSubset
<1>3. \A e \in batch' : /\ "fd" \in DOMAIN e => e.fd \in SrvFds
                        /\ "link" \in DOMAIN e => e.link \in Links
  <2> SUFFICES ASSUME NEW e \in batch'
               PROVE  /\ "fd" \in DOMAIN e => e.fd \in SrvFds
                      /\ "link" \in DOMAIN e => e.link \in Links
    OBVIOUS
  <2>1. CASE e \in [link : listeners]
    <3>1. DOMAIN e = {"link"} /\ e.link \in listeners
      BY <2>1
    <3> QED BY <3>1 DEF LoopTypes
  <2>2. CASE e \in Srv!Events
    <3>1. e \in [fd : SrvFds, ev : {"in", "hup", "out"}]
      BY <2>2 DEF Srv!Events, Srv!Clients
    <3>2. DOMAIN e = {"fd", "ev"} /\ e.fd \in SrvFds
      BY <3>1
    <3> QED BY <3>2
  <2> QED BY <1>2, <2>1, <2>2
<1>4. LoopTypes'
  BY <1>1, <1>3 DEF LoopTypes
<1>5. ConnInv'
  BY <1>1, ConnSame DEF ConnInv
<1> QED BY <1>1, <1>4, <1>5 DEF ConnInv, Srv!ServerStopsClean

LEMMA ServerServes ==
    ASSUME ServerInv, Srv!Accept \/ Srv!HandleEvent \/ Srv!SweepIdle
    PROVE  ServerInv'
<1> USE DEF ServerInv
<1>1. /\ srvPc = "serve" /\ batch' \subseteq batch /\ UNCHANGED <<srvPc, locks, listeners, stunnels>>
  BY DEF Srv!Accept, Srv!HandleEvent, Srv!SweepIdle, Srv!startup
<1>2. LoopTypes'
  BY <1>1 DEF LoopTypes
<1>3. ConnInv
  BY <1>1 DEF ConnInv
<1>4. ConnInv'
  <2>1. CASE Srv!SweepIdle
    <3>1. PICK f \in SrvFds : Srv!ClientAt(f) /\ Srv!CloseConnection(f)
      BY <2>1 DEF Srv!SweepIdle, Srv!Clients
    <3> QED BY <1>3, <3>1, Closes
  <2>2. CASE Srv!Accept \/ Srv!HandleEvent
    BY <1>3, <2>2, Accepts, EventHandled
  <2> QED BY <2>1, <2>2
<1> QED BY <1>1, <1>2, <1>4 DEF ConnInv, Srv!ServerStopsClean

LEMMA ChildLeaves ==
    ASSUME ServerInv, NEW p \in Pids, Srv!ChildExits(p)
    PROVE  ServerInv'
<1> USE DEF ServerInv
<1>1. /\ UNCHANGED <<srvPc, locks, listeners, stunnels, scanBusy, running, table, batch>>
      /\ child[p] \in {"alive", "exiting"}
      /\ child' = [child EXCEPT ![p] = IF @ = "alive" THEN "exiting" ELSE "zombie"]
  BY DEF Srv!ChildExits, Srv!startup
<1>2. LoopTypes' /\ TableTypes'
  BY <1>1 DEF LoopTypes, TableTypes
<1>3. \A q \in Pids : /\ child'[q] = "alive" => child[q] = "alive"
                      /\ child[q] # "none" => child'[q] # "none"
  BY <1>1 DEF TableTypes
<1>4. srvPc' # "down" => ScansOwn' /\ NothingStray'
  <2> SUFFICES ASSUME srvPc # "down" PROVE ScansOwn' /\ NothingStray'
    BY <1>1
  <2>1. \A h \in SrvFds : Scanning(h)' <=> Scanning(h)
    BY <1>1 DEF Scanning, Srv!ClientAt
  <2> QED BY <1>1, <1>3, <2>1, ScansStay
<1>5. Srv!ServerStopsClean'
  BY <1>1, <1>3 DEF Srv!ServerStopsClean
<1> QED BY <1>2, <1>4, <1>5

LEMMA ServerStep == ServerInv /\ Srv!ServerNext => ServerInv'
<1> SUFFICES ASSUME ServerInv, Srv!ServerNext PROVE ServerInv'
  OBVIOUS
<1>1. CASE Srv!StartupFails \/ Srv!Shutdown
  <2>1. srvPc # "down" /\ Srv!ShutdownAll
    BY <1>1 DEF Srv!StartupFails, Srv!Shutdown
  <2> QED BY <2>1, ServerGoesDown
<1> QED BY <1>1, ServerSetUp, ServerWaits, ServerServes, ChildLeaves
       DEF Srv!ServerNext, Srv!Serving

\* A link has at most one scan, and is busy while it has one.
LEMMA ServerHolds == ServerInv => Srv!LinkScans /\ Srv!ServerStopsClean
<1> SUFFICES ASSUME ServerInv, srvPc = "serve" PROVE Srv!LinkScans
  BY DEF ServerInv, Srv!LinkScans
<1>1. TableTypes /\ ScansOwn /\ NothingStray
  BY DEF ServerInv
<1>2. ASSUME NEW s \in Links
      PROVE  LET mine == {f \in Srv!Clients : table[f].link = s /\ table[f].pid # 0}
             IN  /\ Srv!Cardinality(mine) <= 1
                 /\ (s \in scanBusy) <=> (mine # {})
                 /\ \A f \in mine : running[s] = table[f].pid
                 /\ mine = {} => running[s] = 0
  <2> DEFINE mine == {f \in Srv!Clients : table[f].link = s /\ table[f].pid # 0}
  <2>1. \A f : f \in mine <=> f \in SrvFds /\ Scanning(f) /\ table[f].link = s
    BY DEF Scanning, Srv!Clients
  <2> HIDE DEF mine
  <2>2. \A f, g \in mine : f = g
    BY <1>1, <2>1 DEF ScansOwn
  <2>3. Cardinality(mine) <= 1
    <3>1. CASE mine = {}
      BY <3>1, FS_EmptySet
    <3>2. CASE mine # {}
      <4>1. PICK f \in mine : mine = {f}
        BY <2>2, <3>2
      <4>2. Cardinality({f}) = 1
        BY FS_Singleton
      <4> QED BY <4>1, <4>2
    <3> QED BY <3>1, <3>2
  <2>4. s \in scanBusy => mine # {}
    BY <1>1, <2>1 DEF NothingStray
  <2>5. \A f \in mine : s \in scanBusy /\ running[s] = table[f].pid
    <3> SUFFICES ASSUME NEW f \in mine PROVE s \in scanBusy /\ running[s] = table[f].pid
      OBVIOUS
    <3>1. f \in SrvFds /\ Scanning(f) /\ table[f].link = s
      BY <2>1
    <3>2. table[f].link \in scanBusy /\ running[table[f].link] = table[f].pid
      BY <1>1, <3>1 DEF ScansOwn
    <3> QED BY <3>1, <3>2
  <2>6. mine = {} => running[s] = 0
    <3>1. mine = {} => s \in Links \ scanBusy
      BY <2>4
    <3>2. \A t \in Links \ scanBusy : running[t] = 0
      BY <1>1 DEF NothingStray
    <3> QED BY <3>1, <3>2
  <2> QED BY <2>3, <2>4, <2>5, <2>6, SrvCardinality DEF mine
<1>3. \A f \in Srv!Clients : table[f].pid # 0 =>
        table[table[f].pipe] = [kind |-> "pipe", of |-> f]
  BY <1>1 DEF ScansOwn, Scanning, Srv!Clients
<1>4. \A p \in Pids : child[p] = "alive" => \E f \in Srv!Clients : table[f].pid = p
  BY <1>1 DEF NothingStray, Scanning, Srv!Clients
<1> QED BY <1>2, <1>3, <1>4 DEF Srv!LinkScans

-----------------------------------------------------------------------------
(***************************************************************************)
(* run_dns_enum: the names of a domain and the sources that are asked.     *)
(***************************************************************************)
BeforeFetch == {"apex", "axfr", "brute", "collect", "passive"}
AfterFetch == {"resolve", "mutate", "stage2", "stage2dns", "report", "done"}

\* A look-up adds and drops only among the hosts: the passive names are hosts, and so are
\* those of the second stage from the step that merges them.
NamesInv ==
    /\ addrs \subseteq hosts
    /\ \A h \in dropped : kindOf[h] # "plain"
    /\ dePc = "stage2dns" /\ ~deStop => stage2Names \subseteq hosts

\* A source waits, runs or is done, and none waits when none runs: the last one that ends
\* leaves nothing behind.
FetchInv ==
    /\ dePc \in BeforeFetch \cup {"fetch"} \cup AfterFetch
    /\ dePc \in BeforeFetch => toFetch = Sources /\ fetching = {} /\ arrived = {}
    /\ dePc = "fetch" => /\ toFetch \cup fetching \cup arrived = Sources
                         /\ fetching = {} => toFetch = {}
    /\ dePc \in AfterFetch /\ ~deStop => reportedOn = Sources /\ arrived = Sources

LEMMA EnumStarts == Init => NamesInv /\ FetchInv
BY DEF Init, Enum!EnumInit, NamesInv, FetchInv, BeforeFetch, AfterFetch

LEMMA EnumUntouched == (NamesInv /\ FetchInv) /\ UNCHANGED enumVars => (NamesInv /\ FetchInv)'
BY DEF NamesInv, FetchInv, BeforeFetch, AfterFetch, enumVars

\* A name of its own that is answered for is found, so a look-up among the hosts keeps it.
LEMMA LookUpKeeps ==
    ASSUME NEW S, S \subseteq hosts, Enum!LookUp(S), UNCHANGED kindOf,
           addrs \subseteq hosts, \A h \in dropped : kindOf[h] # "plain"
    PROVE  addrs' \subseteq hosts' /\ \A h \in dropped' : kindOf'[h] # "plain"
<1>1. PICK w \in Enum!Wave(S) :
        /\ addrs' = addrs \cup w.found
        /\ hosts' = hosts \ (w.answered \ (w.found \cup addrs))
        /\ dropped' = dropped \cup (w.answered \ (w.found \cup addrs))
  BY DEF Enum!LookUp
<1>2. /\ w.found \subseteq S /\ w.answered \subseteq S
      /\ \A h \in S : kindOf[h] = "plain" => (h \in w.answered <=> h \in w.found)
  BY <1>1 DEF Enum!Wave
<1> QED BY <1>1, <1>2

LEMMA NamesStep == ASSUME NamesInv, Enum!EnumNext PROVE NamesInv'
<1> USE DEF NamesInv
<1>1. CASE Enum!Apex \/ Enum!Collect \/ Enum!BeginFetch \/ Enum!FetchEnds \/ Enum!Report
           \/ Enum!InterruptEnum
  BY <1>1 DEF Enum!Apex, Enum!Collect, Enum!BeginFetch, Enum!FetchEnds, Enum!Report,
              Enum!InterruptEnum, Enum!Skip
<1>2. CASE Enum!ZoneTransfer
  BY <1>2 DEF Enum!ZoneTransfer, Enum!Transfers, Enum!Skip
<1>3. CASE Enum!BruteForce \/ Enum!Mutate
  <2>1. \/ hosts' = hosts /\ addrs' = addrs
        \/ \E S : Enum!AddFound(S)
    BY <1>3 DEF Enum!BruteForce, Enum!Mutate, Enum!Skip
  <2>2. addrs' \subseteq hosts'
    BY <2>1 DEF Enum!AddFound
  <2> QED BY <1>3, <2>2 DEF Enum!BruteForce, Enum!Mutate
<1>4. CASE Enum!ParseSources
  BY <1>4 DEF Enum!ParseSources
<1>5. CASE Enum!ResolvePassive
  <2>1. CASE deStop
    BY <1>5, <2>1 DEF Enum!ResolvePassive, Enum!Skip
  <2>2. CASE ~deStop
    <3>1. Enum!LookUp(hosts \ addrs) /\ UNCHANGED kindOf
      BY <1>5, <2>2 DEF Enum!ResolvePassive
    <3>2. addrs' \subseteq hosts' /\ \A h \in dropped' : kindOf'[h] # "plain"
      BY <3>1, LookUpKeeps
    <3> QED BY <1>5, <3>2 DEF Enum!ResolvePassive
  <2> QED BY <2>1, <2>2
<1>6. CASE Enum!Stage2Fetch
  BY <1>6 DEF Enum!Stage2Fetch
<1>7. CASE Enum!Stage2Resolve
  <2>1. CASE deStop
    BY <1>7, <2>1 DEF Enum!Stage2Resolve, Enum!Skip
  <2>2. CASE ~deStop
    <3>1. Enum!LookUp(stage2Names) /\ UNCHANGED kindOf /\ stage2Names \subseteq hosts
      BY <1>7, <2>2 DEF Enum!Stage2Resolve
    <3>2. addrs' \subseteq hosts' /\ \A h \in dropped' : kindOf'[h] # "plain"
      BY <3>1, LookUpKeeps
    <3> QED BY <1>7, <3>2 DEF Enum!Stage2Resolve
  <2> QED BY <2>1, <2>2
<1> QED BY <1>1, <1>2, <1>3, <1>4, <1>5, <1>6, <1>7 DEF Enum!EnumNext, Enum!EnumWave, Enum!EnumStep

LEMMA FetchStep == ASSUME FetchInv, Enum!EnumNext PROVE FetchInv'
<1> USE DEF FetchInv, BeforeFetch, AfterFetch
<1>1. CASE Enum!Apex \/ Enum!ZoneTransfer \/ Enum!BruteForce \/ Enum!Collect
  BY <1>1 DEF Enum!Apex, Enum!ZoneTransfer, Enum!BruteForce, Enum!Collect, Enum!web
<1>2. CASE Enum!BeginFetch
  <2>1. CASE deStop
    BY <1>2, <2>1 DEF Enum!BeginFetch
  <2>2. CASE ~deStop
    <3>1. PICK S \in SUBSET toFetch :
            /\ Enum!Cardinality(S) = WebConcurrency \/ S = toFetch
            /\ fetching' = S /\ toFetch' = toFetch \ S /\ dePc' = "fetch"
      BY <1>2, <2>2 DEF Enum!BeginFetch
    <3>2. S = {} => toFetch = {}
      <4>1. Enum!Cardinality({}) = 0
        BY FS_EmptySet DEF Enum!Cardinality, Cardinality
      <4> QED BY <3>1, <4>1, CommandsAssumption
    <3> QED BY <1>2, <3>1, <3>2 DEF Enum!BeginFetch
  <2> QED BY <2>1, <2>2
<1>3. CASE Enum!FetchEnds
  <2>1. PICK s \in fetching :
          /\ arrived' = arrived \cup {s}
          /\ \/ toFetch = {} /\ fetching' = fetching \ {s} /\ toFetch' = toFetch
             \/ \E n \in toFetch : /\ fetching' = (fetching \ {s}) \cup {n}
                                   /\ toFetch' = toFetch \ {n}
    BY <1>3 DEF Enum!FetchEnds
  <2> QED BY <1>3, <2>1 DEF Enum!FetchEnds
<1>4. CASE Enum!ParseSources
  BY <1>4 DEF Enum!ParseSources
<1>5. CASE Enum!ResolvePassive \/ Enum!Mutate \/ Enum!Stage2Fetch \/ Enum!Stage2Resolve
           \/ Enum!Report
  BY <1>5 DEF Enum!ResolvePassive, Enum!Mutate, Enum!Stage2Fetch, Enum!Stage2Resolve,
              Enum!Report, Enum!web
<1>6. CASE Enum!InterruptEnum
  BY <1>6 DEF Enum!InterruptEnum, Enum!web
<1> QED BY <1>1, <1>2, <1>3, <1>4, <1>5, <1>6 DEF Enum!EnumNext, Enum!EnumWave, Enum!EnumStep

-----------------------------------------------------------------------------
(***************************************************************************)
(* perform_sn_discovery and the PTR look-ups: what is reported rests on an *)
(* answer.                                                                 *)
(***************************************************************************)
\* A signal is empty until the sweep that sets it, so that what is alive keeps its
\* evidence; MAC addresses come from ARP and go to IPv4 hosts, and noMac before the
\* recheck holds IPv6 hosts alone.
EvidenceInv ==
    /\ pass \in {"start", "arp", "icmp", "syn", "ndp", "icmp6", "reconcile", "recheck",
                 "print", "done"}
    /\ alive \subseteq {Self} \cup arpAlive \cup icmpAlive \cup synAlive \cup ndpAlive
    /\ pass = "start" => alive = {}
    /\ pass \in {"start", "arp"} => arpAlive = {} /\ mac = alive
    /\ pass \in {"start", "arp", "icmp"} => icmpAlive = {}
    /\ pass \in {"start", "arp", "icmp", "syn"} => synAlive = {}
    /\ pass \in {"start", "arp", "icmp", "syn", "ndp"} => ndpAlive = {} /\ noMac = {}
    /\ arpAlive \subseteq Sn!OnLink4 /\ mac \subseteq Sn!OnLink4 \cup {Self}
    /\ pass \notin {"print", "done"} =>
          /\ mac \subseteq arpAlive \cup (IF subnetOk THEN {Self} ELSE {})
          /\ noMac \subseteq Lan6
    /\ mac \subseteq alive \cup arpAlive
    /\ pass \in {"recheck", "print", "done"} => mac \subseteq alive
    /\ mac \cap noMac = {}

LEMMA EvidenceStarts == Sn!Init => EvidenceInv
BY DEF Sn!Init, EvidenceInv

LEMMA EvidenceStep == ASSUME EvidenceInv, Sn!Next PROVE EvidenceInv'
<1> USE CommandsAssumption DEF EvidenceInv
<1>1. CASE Sn!Classify
  BY <1>1 DEF Sn!Classify, Sn!sweep, Sn!signals, Sn!OnLink4, Sn!Recheck
<1>2. CASE Sn!ArpPass
  <2>1. PICK replied \in IF subnetOk THEN SUBSET Sn!OnLink4 ELSE {{}} :
          arpAlive' = replied /\ mac' = mac \cup replied
    BY <1>2 DEF Sn!ArpPass
  <2>2. /\ pass = "arp" /\ pass' = "icmp" /\ replied \subseteq Sn!OnLink4
        /\ UNCHANGED <<subnetOk, icmpAlive, synAlive, ndpAlive, alive, noMac>>
    BY <1>2, <2>1 DEF Sn!ArpPass
  <2>3. Sn!OnLink4' = Sn!OnLink4
    BY <2>2 DEF Sn!OnLink4
  <2>4. mac \subseteq {Self}
    BY <2>2
  <2> QED BY <2>1, <2>2, <2>3, <2>4 DEF Sn!Classify
<1>3. CASE Sn!IcmpReply \/ Sn!SynReply \/ Sn!NdpReply \/ Sn!Icmp6Reply
  BY <1>3 DEF Sn!IcmpReply, Sn!SynReply, Sn!NdpReply, Sn!Icmp6Reply, Sn!Reply, Sn!signals,
              Sn!slots, Sn!OnLink4, Sn!Recheck
<1>4. CASE Sn!IcmpEnds
  BY <1>4 DEF Sn!IcmpEnds, Sn!EndSweep, Sn!OnLink4, Sn!Recheck
<1>5. CASE Sn!SynEnds
  BY <1>5 DEF Sn!SynEnds, Sn!EndSweep, Sn!OnLink4, Sn!Recheck
<1>6. CASE Sn!NdpEnds
  BY <1>6 DEF Sn!NdpEnds, Sn!EndSweep, Sn!slots, Sn!OnLink4, Sn!Recheck
<1>7. CASE Sn!Icmp6Ends
  <2>1. /\ pass = "icmp6" /\ pass' = "reconcile"
        /\ icmpAlive' = icmpAlive \cup Sn!Seen
        /\ alive' = alive \cup Sn!Seen \cup ndpAlive
        /\ noMac' \subseteq Lan6
        /\ UNCHANGED <<subnetOk, arpAlive, synAlive, ndpAlive, mac>>
    BY <1>7 DEF Sn!Icmp6Ends, Sn!EndSweep
  <2>2. Sn!OnLink4' = Sn!OnLink4 /\ (Sn!OnLink4 \cup {Self}) \cap Lan6 = {}
    BY <2>1 DEF Sn!OnLink4
  <2> QED BY <2>1, <2>2
<1>8. CASE Sn!Reconcile
  <2>1. /\ pass = "reconcile" /\ pass' = IF Sn!Recheck = {} THEN "print" ELSE "recheck"
        /\ alive' = alive \cup arpAlive
        /\ UNCHANGED <<subnetOk, arpAlive, icmpAlive, synAlive, ndpAlive, noMac, mac>>
    BY <1>8 DEF Sn!Reconcile, Sn!signals
  <2>2. Sn!OnLink4' = Sn!OnLink4 /\ Sn!Recheck' = Sn!Recheck
    BY <2>1 DEF Sn!OnLink4, Sn!Recheck
  <2> QED BY <2>1, <2>2
<1>9. CASE Sn!RecheckArp
  <2>1. /\ pass = "recheck" /\ pass' = "print"
        /\ UNCHANGED <<subnetOk, arpAlive, icmpAlive, synAlive, ndpAlive>>
        /\ UNCHANGED <<alive, mac, noMac>>
           \/ \E replied \in SUBSET Sn!Recheck :
                 /\ alive' = alive \cup Sn!Recheck
                 /\ mac' = mac \cup replied
                 /\ noMac' = noMac \cup (Sn!Recheck \ replied)
    BY <1>9 DEF Sn!RecheckArp, Sn!signals, Sn!slots
  <2>2. /\ Sn!OnLink4' = Sn!OnLink4 /\ Sn!Recheck \subseteq Sn!OnLink4 \cap icmpAlive
        /\ Sn!OnLink4 \cap Lan6 = {} /\ mac \cap Sn!Recheck = {}
    BY <2>1 DEF Sn!OnLink4, Sn!Recheck
  <2> QED BY <2>1, <2>2
<1>10. CASE Sn!PrintHosts
  BY <1>10 DEF Sn!PrintHosts, Sn!signals, Sn!slots, Sn!OnLink4, Sn!Recheck
<1> QED BY <1>1, <1>2, <1>3, <1>4, <1>5, <1>6, <1>7, <1>8, <1>9, <1>10 DEF Sn!Next

LEMMA EvidenceUntouched == EvidenceInv /\ UNCHANGED discoveryVars => EvidenceInv'
BY DEF EvidenceInv, discoveryVars, Sn!OnLink4, Sn!Recheck

LEMMA AliveRests == EvidenceInv => Sn!AliveOnEvidence
BY DEF EvidenceInv, Sn!AliveOnEvidence

\* The cache agrees with what the last look-up of each responder came to, and a responder
\* is on the list while the cache has nothing of it: one whose UDP queries were lost stays
\* on, one whose look-up over TLS failed is taken off like one that was denied a name.
LookupInv ==
    /\ missing \subseteq {f \in Flows : ptrCache[f] = "unknown"}
    /\ ptrCache \in [Flows -> {"unknown", "name", "noname"}]
    /\ outcome \in [Flows -> Radar!Outcomes \cup {"none"}]
    /\ Radar!PtrCacheDefinitive

lookupVars == <<missing, ptrCache, outcome, overTls>>

LEMMA LookupStarts == Radar!RadarInit => LookupInv
BY DEF Radar!RadarInit, LookupInv, Radar!Outcomes, Radar!PtrCacheDefinitive

LEMMA LookupSame == LookupInv /\ UNCHANGED lookupVars => LookupInv'
BY DEF LookupInv, lookupVars, Radar!PtrCacheDefinitive

LEMMA LookupStep == ASSUME LookupInv, Radar!RadarNext PROVE LookupInv'
<1>1. CASE Radar!FirstPacket \/ Radar!Answer \/ Radar!Established \/ Radar!OtherPacket
  BY <1>1, LookupSame DEF Radar!FirstPacket, Radar!Answer, Radar!Established,
       Radar!OtherPacket, Radar!Receive, Radar!lookup, lookupVars
<1>2. CASE Radar!Tick \/ Radar!Sweep \/ Radar!CtrlC \/ Radar!RadarEnds
  BY <1>2, LookupSame DEF Radar!Tick, Radar!Sweep, Radar!CtrlC, Radar!RadarEnds,
       Radar!lookup, lookupVars
<1>3. CASE Radar!StartResolve
  BY <1>3 DEF Radar!StartResolve, LookupInv, Radar!PtrCacheDefinitive
<1>4. CASE Radar!PtrPass
  <2>1. PICK reply \in [missing -> Radar!Outcomes] :
          /\ ptrCache' = [f \in Flows |->
                IF f \in missing /\ reply[f] # "lost" THEN Radar!Cached(reply[f])
                ELSE ptrCache[f]]
          /\ missing' = {f \in missing : reply[f] = "lost"}
          /\ outcome' = [f \in Flows |-> IF f \in missing THEN reply[f] ELSE outcome[f]]
    BY <1>4 DEF Radar!PtrPass
  <2>2. ~overTls /\ overTls' = overTls
    BY <1>4 DEF Radar!PtrPass
  <2>3. \A f \in Flows : f \notin missing =>
          ptrCache'[f] = ptrCache[f] /\ outcome'[f] = outcome[f]
    BY <2>1
  <2>4. \A f \in missing :
          /\ f \in Flows /\ outcome'[f] = reply[f] /\ reply[f] \in Radar!Outcomes
          /\ ptrCache'[f] = IF reply[f] = "lost" THEN "unknown" ELSE Radar!Cached(reply[f])
    BY <2>1 DEF LookupInv
  <2>5. /\ missing' \subseteq {f \in Flows : ptrCache'[f] = "unknown"}
        /\ ptrCache' \in [Flows -> {"unknown", "name", "noname"}]
        /\ outcome' \in [Flows -> Radar!Outcomes \cup {"none"}]
    BY <2>1, <2>3, <2>4 DEF LookupInv, Radar!Cached
  <2>6. Radar!PtrCacheDefinitive'
    BY <2>2, <2>3, <2>4 DEF LookupInv, Radar!PtrCacheDefinitive, Radar!Cached, Radar!Outcomes
  <2> QED BY <2>5, <2>6 DEF LookupInv
<1>5. CASE Radar!PtrOverTls
  <2>1. PICK g \in missing, o \in Radar!Outcomes :
          /\ ptrCache' = [ptrCache EXCEPT ![g] = Radar!Cached(o)]
          /\ outcome' = [outcome EXCEPT ![g] = o]
          /\ missing' = missing \ {g}
    BY <1>5 DEF Radar!PtrOverTls
  <2>2. overTls /\ overTls' = overTls
    BY <1>5 DEF Radar!PtrOverTls
  <2>3. g \in Flows /\ ptrCache'[g] = Radar!Cached(o) /\ outcome'[g] = o
        /\ \A f \in Flows : f # g => ptrCache'[f] = ptrCache[f] /\ outcome'[f] = outcome[f]
    BY <2>1 DEF LookupInv
  <2>4. /\ missing' \subseteq {f \in Flows : ptrCache'[f] = "unknown"}
        /\ ptrCache' \in [Flows -> {"unknown", "name", "noname"}]
        /\ outcome' \in [Flows -> Radar!Outcomes \cup {"none"}]
    BY <2>1, <2>3 DEF LookupInv, Radar!Cached
  <2>5. Radar!PtrCacheDefinitive'
    BY <2>2, <2>3 DEF LookupInv, Radar!PtrCacheDefinitive, Radar!Cached, Radar!Outcomes
  <2> QED BY <2>4, <2>5 DEF LookupInv
<1> QED BY <1>1, <1>2, <1>3, <1>4, <1>5 DEF Radar!RadarNext

LEMMA LookupUntouched == LookupInv /\ UNCHANGED radarVars => LookupInv'
BY LookupSame DEF lookupVars, radarVars

LEMMA PtrCacheRests == LookupInv => Radar!PtrCacheDefinitive
BY DEF LookupInv

-----------------------------------------------------------------------------
(***************************************************************************)
(* lookup_ip_provider: the table of address ranges and the binary search in*)
(* it.  The search is a recursive function: that it is defined, and what it*)
(* returns, is shown for the shortest span that would be wrong (LeastNat). *)
(***************************************************************************)
\* One round of the search: what it returns, given what it returns for shorter spans.
Round(addr, f, s) ==
    LET half == s[2] \div 2
    IN  IF s[2] = 0 THEN s[1]
        ELSE IF addr < ranges[s[1] + half + 1].start THEN f[<<s[1], half>>]
        ELSE f[<<s[1] + half + 1, s[2] - half - 1>>]

SpansUpTo(n, m) == {s \in (0 .. n) \X (0 .. n) : s[1] + s[2] <= n /\ s[2] <= m}

\* Both halves of a span are shorter spans.
LEMMA Halves ==
    ASSUME NEW n \in Nat, NEW m \in Nat, NEW s \in SpansUpTo(n, m + 1), s[2] # 0
    PROVE  /\ <<s[1], s[2] \div 2>> \in SpansUpTo(n, m)
           /\ <<s[1] + (s[2] \div 2) + 1, s[2] - (s[2] \div 2) - 1>> \in SpansUpTo(n, m)
           /\ s[1] + (s[2] \div 2) + 1 \in 1 .. n
<1>1. s[1] \in Nat /\ s[2] \in Nat /\ s[1] + s[2] <= n /\ s[2] <= m + 1
  BY DEF SpansUpTo
<1>2. s[2] \div 2 \in Nat /\ s[2] \div 2 < s[2]
  BY <1>1, SMT
<1> DEFINE h == s[2] \div 2
<1>3. h \in Nat /\ h < s[2]
  BY <1>2
<1> HIDE DEF h
<1>4. /\ <<s[1], h>> \in SpansUpTo(n, m)
      /\ <<s[1] + h + 1, s[2] - h - 1>> \in SpansUpTo(n, m)
      /\ s[1] + h + 1 \in 1 .. n
  BY <1>1, <1>3 DEF SpansUpTo
<1> QED BY <1>4 DEF h

LEMMA SearchUpTo ==
    ASSUME NEW addr, NEW n \in Nat, NEW m \in Nat
    PROVE  \E f : f = [s \in SpansUpTo(n, m) |-> Round(addr, f, s)]
<1> DEFINE Solved(k) == \E f : f = [s \in SpansUpTo(n, k) |-> Round(addr, f, s)]
           Open == {k \in Nat : ~ Solved(k)}
<1>1. Solved(0)
  <2> DEFINE f == [s \in SpansUpTo(n, 0) |-> s[1]]
  <2>1. \A s \in SpansUpTo(n, 0) : Round(addr, f, s) = s[1]
    BY DEF Round, SpansUpTo
  <2>2. f = [s \in SpansUpTo(n, 0) |-> Round(addr, f, s)]
    <3> HIDE DEF Round
    <3> QED BY <2>1
  <2> QED BY <2>2
<1>2. ASSUME NEW k \in Nat, Solved(k) PROVE Solved(k + 1)
  <2>1. PICK f : f = [s \in SpansUpTo(n, k) |-> Round(addr, f, s)]
    BY <1>2
  <2> DEFINE g == [s \in SpansUpTo(n, k + 1) |-> Round(addr, f, s)]
  <2>2. SpansUpTo(n, k) \subseteq SpansUpTo(n, k + 1)
    BY DEF SpansUpTo
  <2>3. \A s \in SpansUpTo(n, k) : g[s] = f[s]
    BY <2>1, <2>2
  <2>4. \A s \in SpansUpTo(n, k + 1) : Round(addr, g, s) = Round(addr, f, s)
    <3> SUFFICES ASSUME NEW s \in SpansUpTo(n, k + 1) PROVE Round(addr, g, s) = Round(addr, f, s)
      OBVIOUS
    <3> HIDE DEF g
    <3> QED BY <2>3, Halves DEF Round
  <2>5. g = [s \in SpansUpTo(n, k + 1) |-> Round(addr, g, s)]
    BY <2>4
  <2> QED BY <2>5
<1>3. Open = {}
  <2> SUFFICES ASSUME Open # {} PROVE FALSE
    OBVIOUS
  <2> HIDE DEF Solved
  <2>1. PICK k \in Open : \A j \in Open : k <= j
    BY LeastNat
  <2>2. k \in Nat /\ k # 0 /\ k - 1 \in Nat /\ k - 1 \notin Open
    BY <2>1, <1>1
  <2>3. Solved(k - 1)
    BY <2>2
  <2>4. Solved(k - 1 + 1)
    BY <2>2, <2>3, <1>2
  <2> QED BY <2>1, <2>2, <2>4
<1>4. Solved(m)
  <2> HIDE DEF Solved
  <2> QED BY <1>3
<1> QED BY <1>4

\* In a table sorted by start, the search finds how many of the ranges start at or before
\* the address.
LEMMA SearchFinds ==
    ASSUME NEW addr \in Int, \A i \in 1 .. Len(ranges) : ranges[i].start \in Int,
           Len(ranges) \in Nat,
           \A i, j \in 1 .. Len(ranges) : i < j => ranges[i].start <= ranges[j].start
    PROVE  /\ Db!UpperBound(addr) \in 0 .. Len(ranges)
           /\ \A i \in 1 .. Len(ranges) : i <= Db!UpperBound(addr) <=> ranges[i].start <= addr
<1> DEFINE n == Len(ranges)
           Spans == {s \in (0 .. n) \X (0 .. n) : s[1] + s[2] <= n}
           search[s \in Spans] ==
             LET half == s[2] \div 2
             IN  IF s[2] = 0 THEN s[1]
                 ELSE IF addr < ranges[s[1] + half + 1].start THEN search[<<s[1], half>>]
                 ELSE search[<<s[1] + half + 1, s[2] - half - 1>>]
<1>1. Db!UpperBound(addr) = search[<<0, n>>]
  BY DEF Db!UpperBound
<1>2. Spans = SpansUpTo(n, n)
  BY DEF SpansUpTo
<1>3. \E f : f = [s \in Spans |-> Round(addr, f, s)]
  <2> HIDE DEF Spans, search
  <2>1. \E f : f = [s \in SpansUpTo(n, n) |-> Round(addr, f, s)]
    BY SearchUpTo
  <2> QED BY <2>1, <1>2
<1>4. search = [s \in Spans |-> Round(addr, search, s)]
  <2> DEFINE Solves(f) == f = [s \in Spans |-> Round(addr, f, s)]
  <2>1. search = CHOOSE f : Solves(f)
    BY DEF Round
  <2>2. \E f : Solves(f)
    BY <1>3
  <2> HIDE DEF Solves, search
  <2>3. Solves(search)
    BY <2>1, <2>2
  <2> QED BY <2>3 DEF Solves
<1> HIDE DEF search
<1> DEFINE Found(s) ==
        /\ search[s] \in s[1] .. s[1] + s[2]
        /\ \A i \in s[1] + 1 .. s[1] + s[2] : i <= search[s] <=> ranges[i].start <= addr
    Bad == {k \in Nat : \E s \in SpansUpTo(n, n) : s[2] = k /\ ~ Found(s)}
<1>5. Bad = {}
  <2> SUFFICES ASSUME Bad # {} PROVE FALSE
    OBVIOUS
  <2>1. PICK k \in Bad : \A j \in Bad : k <= j
    BY LeastNat
  <2>2. PICK s \in SpansUpTo(n, n) : s[2] = k /\ ~ Found(s)
    BY <2>1
  <2>3. \A t \in SpansUpTo(n, n) : t[2] < k => Found(t)
    <3> HIDE DEF Found
    <3> QED BY <2>1 DEF SpansUpTo
  <2>4. search[s] = Round(addr, search, s)
    BY <1>4, <1>2, <2>2
  <2>5. CASE k = 0
    BY <2>2, <2>4, <2>5 DEF Round, SpansUpTo
  <2>6. CASE k # 0
    <3> DEFINE h == s[2] \div 2
               below == <<s[1], h>>
               above == <<s[1] + h + 1, s[2] - h - 1>>
    <3>1. /\ s[1] \in Nat /\ s[2] \in Nat /\ s[1] + s[2] <= n /\ s[2] = k
          /\ k - 1 \in Nat /\ s \in SpansUpTo(n, k - 1 + 1)
      BY <2>1, <2>2, <2>6 DEF SpansUpTo
    <3>2. below \in SpansUpTo(n, k - 1) /\ above \in SpansUpTo(n, k - 1) /\ s[1] + h + 1 \in 1 .. n
      BY <3>1, <2>6, Halves
    <3>3. h \in Nat /\ h < k
      BY <3>2, <3>1 DEF SpansUpTo
    <3> HIDE DEF h
    <3>4. Found(below) /\ Found(above)
      <4>1. below \in SpansUpTo(n, n) /\ above \in SpansUpTo(n, n) /\ below[2] < k /\ above[2] < k
        BY <3>1, <3>2, <3>3 DEF SpansUpTo
      <4> HIDE DEF Found, below, above
      <4> QED BY <4>1, <2>3
    <3>5. search[s] = IF addr < ranges[s[1] + h + 1].start THEN search[below] ELSE search[above]
      BY <2>4, <2>2, <2>6 DEF Round, h
    <3> DEFINE mid == s[1] + h + 1
    <3>6. mid \in 1 .. n /\ mid = s[1] + h + 1
      BY <3>2
    <3> HIDE DEF mid
    <3>7. CASE addr < ranges[mid].start
      <4>1. search[s] = search[below] /\ search[below] \in s[1] .. s[1] + h
        BY <3>4, <3>5, <3>6, <3>7
      <4>2. ASSUME NEW i \in s[1] + 1 .. s[1] + s[2]
            PROVE  i <= search[s] <=> ranges[i].start <= addr
        <5>1. CASE i <= s[1] + h
          <6>1. i \in below[1] + 1 .. below[1] + below[2]
            BY <5>1, <3>1, <3>3
          <6> QED BY <6>1, <4>1, <3>4
        <5>2. CASE i > s[1] + h
          <6>1. i \in 1 .. n /\ mid <= i
            BY <5>2, <3>1, <3>3, <3>6
          <6>2. ranges[mid].start <= ranges[i].start
            BY <6>1, <3>6
          <6>3. ranges[i].start > addr
            BY <6>1, <6>2, <3>6, <3>7
          <6>4. search[s] < i
            BY <4>1, <5>2, <3>1, <3>3, <6>1
          <6> QED BY <6>1, <6>3, <6>4, <4>1, <3>1, <3>3
        <5> QED BY <5>1, <5>2, <3>1, <3>3
      <4>3. search[s] \in s[1] .. s[1] + s[2]
        BY <4>1, <3>1, <3>3
      <4> QED BY <4>2, <4>3, <2>2
    <3>8. CASE ~ (addr < ranges[mid].start)
      <4>1. search[s] = search[above] /\ search[above] \in mid .. s[1] + s[2]
        BY <3>4, <3>5, <3>6, <3>8, <3>1, <3>3
      <4>2. ASSUME NEW i \in s[1] + 1 .. s[1] + s[2]
            PROVE  i <= search[s] <=> ranges[i].start <= addr
        <5>1. CASE i > mid
          <6>1. i \in above[1] + 1 .. above[1] + above[2]
            BY <5>1, <3>1, <3>3, <3>6
          <6> QED BY <6>1, <4>1, <3>4
        <5>2. CASE i <= mid
          <6>1. i \in 1 .. n
            BY <3>1
          <6>2. ranges[i].start <= ranges[mid].start
            BY <6>1, <5>2, <3>6
          <6>3. ranges[i].start <= addr
            BY <6>1, <6>2, <3>6, <3>8
          <6> QED BY <6>1, <6>3, <5>2, <4>1, <3>1, <3>6
        <5> QED BY <5>1, <5>2, <3>1, <3>6
      <4>3. search[s] \in s[1] .. s[1] + s[2]
        BY <4>1, <3>1, <3>3, <3>6
      <4> QED BY <4>2, <4>3, <2>2
    <3> QED BY <3>7, <3>8
  <2> QED BY <2>5, <2>6
<1>6. Found(<<0, n>>)
  <2>1. <<0, n>> \in SpansUpTo(n, n) /\ <<0, n>>[2] = n /\ n \in Nat
    BY DEF SpansUpTo
  <2> HIDE DEF Found
  <2> QED BY <2>1, <1>5
<1> QED BY <1>1, <1>6

\* The table holds the ranges of the lines that were well-formed, and no other.
RangesInv ==
    /\ rtPc \in {"load", "ready"}
    /\ given \subseteq {l \in RangeLines : Db!Prefix(l) \in 0 .. Bits}
    /\ Len(ranges) \in Nat /\ DOMAIN ranges = 1 .. Len(ranges)
    /\ ranges \in Seq({Db!AsRange(l) : l \in given})
    /\ \A l \in given : \E i \in 1 .. Len(ranges) : ranges[i] = Db!AsRange(l)
    /\ rtPc = "ready" =>
          \A i, j \in 1 .. Len(ranges) : i < j => ranges[i].start <= ranges[j].start

LEMMA QuotientIs ==
    ASSUME NEW h \in Nat \ {0}, NEW q \in Int, NEW a \in Int, h * q <= a, a <= h * q + h - 1
    PROVE  a \div h = q
OBVIOUS

\* The range of a line is the addresses that agree with it in its prefix.
LEMMA RangeOfLine ==
    ASSUME NEW l \in RangeLines, Db!Prefix(l) \in 0 .. Bits
    PROVE  /\ Db!AsRange(l).start \in Nat /\ Db!AsRange(l).end \in Int
           /\ Db!AsRange(l).start \in Db!Covered(l)
           /\ \A a \in 0 .. Db!Power[Bits] - 1 :
                a \in Db!Covered(l) <=> Db!AsRange(l).start <= a /\ a <= Db!AsRange(l).end
<1> DEFINE h == Db!HostPart(l)
           b == l.base
<1>1. h \in Nat \ {0} /\ b \in Nat /\ b \in 0 .. Db!Power[Bits] - 1 /\ Db!Power[Bits] \in Nat
  <2>1. Bits - Db!Prefix(l) \in 0 .. Bits /\ Bits \in 0 .. Bits
    BY CommandsAssumption
  <2>2. \A k \in 0 .. Bits : Db!Power[k] \in Nat \ {0}
    BY PowersDouble DEF Doubles
  <2>3. h \in Nat \ {0} /\ Db!Power[Bits] \in Nat
    BY <2>1, <2>2 DEF Db!HostPart
  <2>4. b \in 0 .. Db!Power[Bits] - 1
    BY WordsAssumption
  <2> HIDE DEF h, b
  <2> QED BY <2>3, <2>4
<1>2. /\ Db!AsRange(l).start = b - (b % h) /\ Db!AsRange(l).end = b - (b % h) + h - 1
      /\ Db!Covered(l) = {a \in 0 .. Db!Power[Bits] - 1 : a \div h = b \div h}
  BY DEF Db!AsRange, Db!Covered
<1> HIDE DEF h, b
<1>3. /\ b \div h \in Int /\ b % h \in 0 .. h - 1 /\ b - (b % h) = h * (b \div h)
      /\ b - (b % h) \in 0 .. b
  <2>1. b \div h \in Int /\ b % h \in 0 .. h - 1 /\ b = h * (b \div h) + (b % h) /\ b \div h >= 0
    BY <1>1
  <2>2. h * (b \div h) \in Nat
    BY <1>1, <2>1
  <2> QED BY <1>1, <2>1, <2>2
<1>4. ASSUME NEW a \in 0 .. Db!Power[Bits] - 1
      PROVE  a \div h = b \div h <=> h * (b \div h) <= a /\ a <= h * (b \div h) + h - 1
  <2>1. a \in Int /\ a \div h \in Int /\ a % h \in 0 .. h - 1 /\ a = h * (a \div h) + (a % h)
    BY <1>1
  <2>2. CASE a \div h = b \div h
    BY <1>1, <2>1, <2>2
  <2>3. CASE h * (b \div h) <= a /\ a <= h * (b \div h) + h - 1
    BY <1>1, <1>3, <2>1, <2>3, QuotientIs
  <2> QED BY <2>2, <2>3
<1>5. b - (b % h) \in 0 .. Db!Power[Bits] - 1
  BY <1>1, <1>3
<1>6. b - (b % h) \in Db!Covered(l)
  BY <1>1, <1>2, <1>3, <1>4, <1>5
<1> QED BY <1>1, <1>2, <1>3, <1>4, <1>5, <1>6

LEMMA RangesStart == Db!RangesInit => RangesInv
<1> SUFFICES ASSUME Db!RangesInit PROVE RangesInv
  OBVIOUS
<1>1. ranges = <<>> /\ given = {} /\ rtPc = "load"
  BY DEF Db!RangesInit
<1> QED BY <1>1 DEF RangesInv

LEMMA RangesStep == ASSUME RangesInv, Db!RangesNext PROVE RangesInv'
<1> DEFINE Table(g) == {Db!AsRange(l) : l \in g}
<1>1. CASE Db!AddLine
  <2>1. PICK line \in RangeLines :
          IF Db!Prefix(line) \in 0 .. Bits
            THEN ranges' = Append(ranges, Db!AsRange(line)) /\ given' = given \cup {line}
            ELSE UNCHANGED <<ranges, given>>
    BY <1>1 DEF Db!AddLine, Db!Lines
  <2>2. rtPc = "load" /\ rtPc' = "load"
    BY <1>1 DEF Db!AddLine
  <2>3. CASE Db!Prefix(line) \notin 0 .. Bits
    BY <2>1, <2>2, <2>3 DEF RangesInv
  <2>4. CASE Db!Prefix(line) \in 0 .. Bits
    <3>1. ranges' = Append(ranges, Db!AsRange(line)) /\ given' = given \cup {line}
      BY <2>1, <2>4
    <3>2. ranges \in Seq(Table(given')) /\ Db!AsRange(line) \in Table(given')
      <4>1. Table(given) \subseteq Table(given')
        BY <3>1
      <4>2. ranges \in Seq(Table(given))
        BY DEF RangesInv
      <4>3. Db!AsRange(line) \in Table(given')
        BY <3>1
      <4> HIDE DEF Table
      <4> QED BY <4>1, <4>2, <4>3
    <3>3. /\ ranges' \in Seq(Table(given')) /\ Len(ranges') = Len(ranges) + 1
          /\ ranges'[Len(ranges) + 1] = Db!AsRange(line)
          /\ \A i \in 1 .. Len(ranges) : ranges'[i] = ranges[i]
      <4> HIDE DEF Table
      <4> QED BY <3>1, <3>2 DEF RangesInv
    <3>4. DOMAIN ranges' = 1 .. Len(ranges') /\ Len(ranges') \in Nat
      BY <3>3 DEF RangesInv
    <3>5. \A l \in given' : \E i \in 1 .. Len(ranges') : ranges'[i] = Db!AsRange(l)
      <4> SUFFICES ASSUME NEW l \in given'
                   PROVE  \E i \in 1 .. Len(ranges') : ranges'[i] = Db!AsRange(l)
        OBVIOUS
      <4>1. CASE l = line
        BY <4>1, <3>3 DEF RangesInv
      <4>2. CASE l \in given
        <5>1. PICK i \in 1 .. Len(ranges) : ranges[i] = Db!AsRange(l)
          BY <4>2 DEF RangesInv
        <5>2. i \in 1 .. Len(ranges') /\ ranges'[i] = Db!AsRange(l)
          BY <5>1, <3>3 DEF RangesInv
        <5> QED BY <5>2
      <4> QED BY <4>1, <4>2, <3>1
    <3>6. given' \subseteq {l \in RangeLines : Db!Prefix(l) \in 0 .. Bits}
      BY <3>1, <2>4 DEF RangesInv
    <3> QED BY <3>3, <3>4, <3>5, <3>6, <2>2 DEF RangesInv
  <2> QED BY <2>3, <2>4
<1>2. CASE Db!Finalize
  <2> DEFINE n == Len(ranges)
  <2>0. n \in Nat /\ DOMAIN ranges = 1 .. n /\ ranges \in Seq(Table(given))
    BY DEF RangesInv
  <2>1. PICK p \in Db!Bijection(1 .. n, 1 .. n) :
          /\ ranges' = [i \in 1 .. n |-> ranges[p[i]]]
          /\ \A i, j \in 1 .. n : i < j => ranges'[i].start <= ranges'[j].start
    BY <1>2, <2>0 DEF Db!Finalize
  <2>2. p \in [1 .. n -> 1 .. n] /\ \A j \in 1 .. n : \E i \in 1 .. n : p[i] = j
    BY DEF Db!Bijection, Db!Injection, Db!Surjection
  <2>3. rtPc' = "ready" /\ given' = given
    BY <1>2 DEF Db!Finalize
  <2>4. /\ ranges' \in Seq(Table(given')) /\ Len(ranges') = n /\ DOMAIN ranges' = 1 .. n
        /\ \A i \in 1 .. n : ranges'[i] = ranges[p[i]]
    <3>1. \A i \in 1 .. n : ranges[p[i]] \in Table(given)
      <4> HIDE DEF Table
      <4> QED BY <2>0, <2>2
    <3> HIDE DEF Table, n
    <3> QED BY <3>1, <2>0, <2>1, <2>3
  <2>5. ASSUME NEW l \in given' PROVE \E i \in 1 .. n : ranges'[i] = Db!AsRange(l)
    <3>1. PICK j \in 1 .. n : ranges[j] = Db!AsRange(l)
      BY <2>3 DEF RangesInv
    <3>2. PICK i \in 1 .. n : p[i] = j
      BY <2>2
    <3> QED BY <3>1, <3>2, <2>4
  <2> HIDE DEF n
  <2> QED BY <2>0, <2>1, <2>3, <2>4, <2>5 DEF RangesInv
<1> QED BY <1>1, <1>2 DEF Db!RangesNext

LEMMA RangesUntouched == RangesInv /\ UNCHANGED rangeVars => RangesInv'
BY DEF RangesInv, rangeVars, Db!Prefix, Db!AsRange, Db!HostPart

LEMMA ProviderExactly == RangesInv => Db!ProviderExact
<1> SUFFICES ASSUME RangesInv, rtPc = "ready", NEW a \in 0 .. Db!Power[Bits] - 1
             PROVE  LET holding == {l \in given : a \in Db!Covered(l)}
                    IN  /\ Db!Provider(a) \subseteq {l.label : l \in holding}
                        /\ Db!Provider(a) = {} => \A l \in holding : \E m \in given :
                              /\ Db!Covered(m) \cap Db!Covered(l) # {}
                              /\ \A b \in Db!Covered(m) : b < a
  BY DEF Db!ProviderExact
<1> DEFINE n == Len(ranges)
           u == Db!UpperBound(a)
<1>1. n \in Nat /\ Db!Power[Bits] \in Nat /\ a \in Int /\ a \in 0 .. Db!Power[Bits] - 1
  <2>1. Db!Power[Bits] \in Nat
    BY CommandsAssumption, PowersDouble DEF Doubles
  <2> QED BY <2>1 DEF RangesInv
<1>2. \A i \in 1 .. n : \E l \in given : ranges[i] = Db!AsRange(l)
  BY <1>1 DEF RangesInv
<1>3. \A l \in given : l \in RangeLines /\ Db!Prefix(l) \in 0 .. Bits
  BY DEF RangesInv
<1>4. \A i \in 1 .. n : ranges[i].start \in Int
  BY <1>2, <1>3, RangeOfLine
<1>5. /\ u \in 0 .. n
      /\ \A i \in 1 .. n : i <= u <=> ranges[i].start <= a
  BY <1>1, <1>4, SearchFinds DEF RangesInv
<1>6. Db!Provider(a) = IF u > 0 /\ ranges[u].start <= a /\ a <= ranges[u].end
                         THEN {ranges[u].label} ELSE {}
  BY DEF Db!Provider
<1> HIDE DEF u, n
<1>7. ASSUME u > 0
      PROVE  \E l \in given : ranges[u] = Db!AsRange(l) /\ ranges[u].label = l.label
                              /\ (a \in Db!Covered(l) <=> a <= ranges[u].end)
                              /\ ranges[u].start <= a
  <2>1. u \in 1 .. n /\ ranges[u].start <= a
    BY <1>1, <1>5, <1>7
  <2>2. PICK l \in given : ranges[u] = Db!AsRange(l)
    BY <1>2, <2>1
  <2>3. ranges[u].label = l.label
    BY <2>2 DEF Db!AsRange
  <2>4. a \in Db!Covered(l) <=> Db!AsRange(l).start <= a /\ a <= Db!AsRange(l).end
    BY <1>1, <1>3, RangeOfLine
  <2> QED BY <2>1, <2>2, <2>3, <2>4
<1>8. Db!Provider(a) \subseteq {l.label : l \in {l \in given : a \in Db!Covered(l)}}
  BY <1>6, <1>7
<1>9. ASSUME Db!Provider(a) = {}, NEW l \in given, a \in Db!Covered(l)
      PROVE  \E m \in given : /\ Db!Covered(m) \cap Db!Covered(l) # {}
                              /\ \A b \in Db!Covered(m) : b < a
  <2>1. PICK k \in 1 .. n : ranges[k] = Db!AsRange(l)
    BY DEF RangesInv, n
  <2>2. Db!AsRange(l).start <= a /\ a <= Db!AsRange(l).end
    BY <1>1, <1>3, <1>9, RangeOfLine
  <2>3. k <= u /\ u > 0 /\ u \in 1 .. n
    BY <1>1, <1>5, <2>1, <2>2
  <2>4. PICK m \in given : /\ ranges[u] = Db!AsRange(m)
                           /\ (a \in Db!Covered(m) <=> a <= ranges[u].end)
                           /\ ranges[u].start <= a
    BY <1>7, <2>3
  <2>5. Db!AsRange(l).start <= Db!AsRange(m).start
    <3>1. CASE k = u
      BY <3>1, <2>1, <2>4, <1>3, RangeOfLine
    <3>2. CASE k < u
      BY <3>2, <2>1, <2>3, <2>4 DEF RangesInv, n
    <3> QED BY <3>1, <3>2, <2>3, <1>1
  <2>6. Db!AsRange(m).start \in Db!Covered(l)
    <3>1. Db!AsRange(m).start \in Nat /\ Db!AsRange(l).start \in Nat /\ Db!AsRange(l).end \in Int
      BY <1>3, RangeOfLine
    <3>2. Db!AsRange(m).start \in 0 .. Db!Power[Bits] - 1
      BY <3>1, <2>4, <1>1
    <3>3. Db!AsRange(m).start <= Db!AsRange(l).end
      BY <3>1, <2>2, <2>4, <1>1
    <3> QED BY <3>2, <3>3, <2>5, <1>3, RangeOfLine
  <2>7. Db!AsRange(m).start \in Db!Covered(m)
    BY <1>3, RangeOfLine
  <2>8. ~(a <= ranges[u].end)
    BY <1>6, <1>9, <2>3, <2>4
  <2>9. ASSUME NEW b \in Db!Covered(m) PROVE b < a
    <3>1. b \in 0 .. Db!Power[Bits] - 1
      BY <2>9 DEF Db!Covered
    <3>2. b <= Db!AsRange(m).end /\ Db!AsRange(m).end \in Int
      BY <3>1, <2>9, <1>3, RangeOfLine
    <3> QED BY <3>1, <3>2, <2>4, <2>8, <1>1
  <2> QED BY <2>6, <2>7, <2>9
<1> QED BY <1>8, <1>9

-----------------------------------------------------------------------------
(***************************************************************************)
(* One part at a time.                                                     *)
(***************************************************************************)

\* A step of the program is a step of the part of its command, or moves none.
LEMMA StepOfPart ==
    ASSUME [Next]_vars
    PROVE  \/ UNCHANGED parts
           \/ Only("-sn") /\ Sn!Next
           \/ Only("--traceroute") /\ Trace!TraceNext
           \/ Only("--netradar") /\ Radar!RadarNext
           \/ Only("arp") /\ Arp!ArpNext
           \/ Only("--split") /\ Split!SplitNext
           \/ Only("--server") /\ Srv!ServerNext
           \/ Only("--enum dns") /\ Enum!EnumNext
           \/ Only("providers") /\ Db!RangesNext
           \/ Only("dns query") /\ Dns!DnsNext
           \/ Only("--enum ssl") /\ Ssl!SslNext
           \/ Only("-sV") /\ Sv!VersionNext
           \/ Only("targets") /\ Tg!TargetsNext
           \/ Only("ports") /\ Ports!PortsNext
<1>1. UNCHANGED vars => UNCHANGED parts
  BY DEF vars, parts
<1>2. Setup \/ Refuse \/ RefuseTargets \/ Dispatch \/ Return => UNCHANGED parts
  BY DEF Setup, Refuse, RefuseTargets, Dispatch, Return
<1> QED BY <1>1, <1>2 DEF Next

\* A step of the program is a step of a part, or leaves its variables alone.
LEMMA OnePartMoves ==
    ASSUME [Next]_vars
    PROVE  /\ Sn!Next \/ UNCHANGED discoveryVars
           /\ Trace!TraceNext \/ UNCHANGED traceVars
           /\ Radar!RadarNext \/ UNCHANGED radarVars
           /\ Arp!ArpNext \/ UNCHANGED arpVars
           /\ Split!SplitNext \/ UNCHANGED splitVars
           /\ Srv!ServerNext \/ UNCHANGED serverVars
           /\ Enum!EnumNext \/ UNCHANGED enumVars
           /\ Db!RangesNext \/ UNCHANGED rangeVars
           /\ Dns!DnsNext \/ UNCHANGED dnsVars
           /\ Ssl!SslNext \/ UNCHANGED sslVars
           /\ Sv!VersionNext \/ UNCHANGED versionVars
           /\ Tg!TargetsNext \/ UNCHANGED targetVars
           /\ Ports!PortsNext \/ UNCHANGED portVars
<1>1. Sn!Next \/ UNCHANGED discoveryVars
  <2>1. ASSUME NEW c, c # "-sn", Only(c) PROVE UNCHANGED discoveryVars
    BY <2>1 DEF Only
  <2>2. UNCHANGED parts => UNCHANGED discoveryVars
    BY DEF parts
  <2> QED BY <2>1, <2>2, StepOfPart
<1>2. Trace!TraceNext \/ UNCHANGED traceVars
  <2>1. ASSUME NEW c, c # "--traceroute", Only(c) PROVE UNCHANGED traceVars
    BY <2>1 DEF Only
  <2>2. UNCHANGED parts => UNCHANGED traceVars
    BY DEF parts
  <2> QED BY <2>1, <2>2, StepOfPart
<1>3. Radar!RadarNext \/ UNCHANGED radarVars
  <2>1. ASSUME NEW c, c # "--netradar", Only(c) PROVE UNCHANGED radarVars
    BY <2>1 DEF Only
  <2>2. UNCHANGED parts => UNCHANGED radarVars
    BY DEF parts
  <2> QED BY <2>1, <2>2, StepOfPart
<1>4. Arp!ArpNext \/ UNCHANGED arpVars
  <2>1. ASSUME NEW c, c # "arp", Only(c) PROVE UNCHANGED arpVars
    BY <2>1 DEF Only
  <2>2. UNCHANGED parts => UNCHANGED arpVars
    BY DEF parts
  <2> QED BY <2>1, <2>2, StepOfPart
<1>5. Split!SplitNext \/ UNCHANGED splitVars
  <2>1. ASSUME NEW c, c # "--split", Only(c) PROVE UNCHANGED splitVars
    BY <2>1 DEF Only
  <2>2. UNCHANGED parts => UNCHANGED splitVars
    BY DEF parts
  <2> QED BY <2>1, <2>2, StepOfPart
<1>6. Srv!ServerNext \/ UNCHANGED serverVars
  <2>1. ASSUME NEW c, c # "--server", Only(c) PROVE UNCHANGED serverVars
    BY <2>1 DEF Only
  <2>2. UNCHANGED parts => UNCHANGED serverVars
    BY DEF parts
  <2> QED BY <2>1, <2>2, StepOfPart
<1>7. Enum!EnumNext \/ UNCHANGED enumVars
  <2>1. ASSUME NEW c, c # "--enum dns", Only(c) PROVE UNCHANGED enumVars
    BY <2>1 DEF Only
  <2>2. UNCHANGED parts => UNCHANGED enumVars
    BY DEF parts
  <2> QED BY <2>1, <2>2, StepOfPart
<1>8. Db!RangesNext \/ UNCHANGED rangeVars
  <2>1. ASSUME NEW c, c # "providers", Only(c) PROVE UNCHANGED rangeVars
    BY <2>1 DEF Only
  <2>2. UNCHANGED parts => UNCHANGED rangeVars
    BY DEF parts
  <2> QED BY <2>1, <2>2, StepOfPart
<1>9. Dns!DnsNext \/ UNCHANGED dnsVars
  <2>1. ASSUME NEW c, c # "dns query", Only(c) PROVE UNCHANGED dnsVars
    BY <2>1 DEF Only
  <2>2. UNCHANGED parts => UNCHANGED dnsVars
    BY DEF parts
  <2> QED BY <2>1, <2>2, StepOfPart
<1>10. Ssl!SslNext \/ UNCHANGED sslVars
  <2>1. ASSUME NEW c, c # "--enum ssl", Only(c) PROVE UNCHANGED sslVars
    BY <2>1 DEF Only
  <2>2. UNCHANGED parts => UNCHANGED sslVars
    BY DEF parts
  <2> QED BY <2>1, <2>2, StepOfPart
<1>11. Sv!VersionNext \/ UNCHANGED versionVars
  <2>1. ASSUME NEW c, c # "-sV", Only(c) PROVE UNCHANGED versionVars
    BY <2>1 DEF Only
  <2>2. UNCHANGED parts => UNCHANGED versionVars
    BY DEF parts
  <2> QED BY <2>1, <2>2, StepOfPart
<1>12. Tg!TargetsNext \/ UNCHANGED targetVars
  <2>1. ASSUME NEW c, c # "targets", Only(c) PROVE UNCHANGED targetVars
    BY <2>1 DEF Only
  <2>2. UNCHANGED parts => UNCHANGED targetVars
    BY DEF parts
  <2> QED BY <2>1, <2>2, StepOfPart
<1>13. Ports!PortsNext \/ UNCHANGED portVars
  <2>1. ASSUME NEW c, c # "ports", Only(c) PROVE UNCHANGED portVars
    BY <2>1 DEF Only
  <2>2. UNCHANGED parts => UNCHANGED portVars
    BY DEF parts
  <2> QED BY <2>1, <2>2, StepOfPart
<1> QED BY <1>1, <1>2, <1>3, <1>4, <1>5, <1>6, <1>7,
           <1>8, <1>9, <1>10, <1>11, <1>12, <1>13

-----------------------------------------------------------------------------
(***************************************************************************)
(* The theorems.                                                           *)
(***************************************************************************)
CountedInv == SweepInv /\ TraceInv /\ RadarInv /\ ResolvedInv

\* Whatever repeats, is late or lost: a discovery sweep has one verdict for each answer it
\* counted, a hop of a traceroute counts each of its probes once and the hops are the TTLs
\* in order, a connection the radar tracked is answered, expired or waiting and never two
\* of these, and the ARP listener counts each host once (perform_sn_discovery,
\* run_traceroute, Capture, receive_arp_reply).
THEOREM CountedOnceCorrect == Spec => []CountedOnce
<1>1. Init => CountedInv
  BY SweepStarts, TraceStarts, RadarStarts, ArpStarts DEF CountedInv
<1>2. CountedInv /\ [Next]_vars => CountedInv'
  <2> SUFFICES ASSUME CountedInv, [Next]_vars PROVE CountedInv'
    OBVIOUS
  <2>1. SweepInv'
    <3>1. Sn!Next \/ UNCHANGED discoveryVars
      BY OnePartMoves
    <3> QED BY <3>1, SweepStep, SweepUntouched DEF CountedInv, discoveryVars
  <2>2. TraceInv'
    <3>1. Trace!TraceNext \/ UNCHANGED traceVars
      BY OnePartMoves
    <3> QED BY <3>1, TraceStep, TraceUntouched DEF CountedInv
  <2>3. RadarInv'
    <3>1. Radar!RadarNext \/ UNCHANGED radarVars
      BY OnePartMoves
    <3> QED BY <3>1, RadarStep, RadarUntouched DEF CountedInv, radarVars
  <2>4. ResolvedInv'
    <3>1. Arp!ArpNext \/ UNCHANGED arpVars
      BY OnePartMoves
    <3> QED BY <3>1, ArpStep, ArpUntouched DEF CountedInv, arpVars
  <2> QED BY <2>1, <2>2, <2>3, <2>4 DEF CountedInv
<1>3. CountedInv => CountedOnce
  BY SweepExactly, TraceExactly, RadarExactly, ArpExactly DEF CountedInv, CountedOnce
<1> QED BY <1>1, <1>2, <1>3, PTL DEF Spec

\* What a part holds belongs to it alone and is given back: a link of the server has at most
\* one scan, whose process and pipe are its client's own, and a server that stops leaves no
\* lock, listener, stunnel or scan behind; a run in its split namespace has a link there
\* that no other run has (server::run, shutdown_all, enter_split_namespace).
THEOREM HeldAloneCorrect == Spec => []HeldAlone
<1> DEFINE HeldInv == ServerInv /\ SplitInv
<1>1. Init => HeldInv
  BY ServerStarts, SplitStarts
<1>2. HeldInv /\ [Next]_vars => HeldInv'
  <2> SUFFICES ASSUME ServerInv, SplitInv, [Next]_vars PROVE ServerInv' /\ SplitInv'
    OBVIOUS
  <2>1. ServerInv'
    <3>1. Srv!ServerNext \/ UNCHANGED serverVars
      BY OnePartMoves
    <3> QED BY <3>1, ServerStep, ServerUntouched
  <2>2. SplitInv'
    <3>1. Split!SplitNext \/ UNCHANGED splitVars
      BY OnePartMoves
    <3> QED BY <3>1, SplitStep, SplitUntouched
  <2> QED BY <2>1, <2>2
<1>3. HeldInv => HeldAlone
  BY ServerHolds, SplitCompletely DEF HeldAlone
<1> HIDE DEF HeldInv
<1> QED BY <1>1, <1>2, <1>3, PTL DEF Spec

\* A name with an address of its own is never dropped because a reply was lost, no look-up
\* drops a name another source gave an address to, and an enumeration that is not
\* interrupted has asked every passive source (run_dns_enum, parallel_http_get).
THEOREM EnumerationCorrect == Spec => []EnumerationSound
<1> DEFINE EnumInv == NamesInv /\ FetchInv
<1>1. Init => EnumInv
  BY EnumStarts
<1>2. EnumInv /\ [Next]_vars => EnumInv'
  <2> SUFFICES ASSUME NamesInv, FetchInv, [Next]_vars PROVE EnumInv'
    OBVIOUS
  <2>1. Enum!EnumNext \/ UNCHANGED enumVars
    BY OnePartMoves
  <2> QED BY <2>1, NamesStep, FetchStep, EnumUntouched
<1>3. EnumInv => EnumerationSound
  BY DEF NamesInv, FetchInv, AfterFetch, EnumerationSound, Enum!EnumSound
<1> HIDE DEF EnumInv
<1> QED BY <1>1, <1>2, <1>3, PTL DEF Spec

\* A host is reported alive only when a sweep had an answer of it, and its MAC only comes
\* from ARP; an address is said to have no name when a server denied it one or its look-up
\* over TLS failed, and never because its UDP queries were lost; and the provider of an
\* address is that of a range it lies in, found whenever ranges do not nest, for tables of
\* any length (perform_sn_discovery, reverse_dns_lookup_batch, lookup_ip_provider).
THEOREM ReportedCorrect == Spec => []ReportedOnEvidence
<1> DEFINE ReportInv == EvidenceInv /\ LookupInv /\ RangesInv
<1>1. Init => ReportInv
  BY EvidenceStarts, LookupStarts, RangesStart DEF Init
<1>2. ReportInv /\ [Next]_vars => ReportInv'
  <2> SUFFICES ASSUME EvidenceInv, LookupInv, RangesInv, [Next]_vars
               PROVE  EvidenceInv' /\ LookupInv' /\ RangesInv'
    OBVIOUS
  <2>1. EvidenceInv'
    <3>1. Sn!Next \/ UNCHANGED discoveryVars
      BY OnePartMoves
    <3> QED BY <3>1, EvidenceStep, EvidenceUntouched
  <2>2. LookupInv'
    <3>1. Radar!RadarNext \/ UNCHANGED radarVars
      BY OnePartMoves
    <3> QED BY <3>1, LookupStep, LookupUntouched
  <2>3. RangesInv'
    <3>1. Db!RangesNext \/ UNCHANGED rangeVars
      BY OnePartMoves
    <3> QED BY <3>1, RangesStep, RangesUntouched
  <2> QED BY <2>1, <2>2, <2>3
<1>3. ReportInv => ReportedOnEvidence
  BY AliveRests, PtrCacheRests, ProviderExactly DEF ReportedOnEvidence
<1> HIDE DEF ReportInv
<1> QED BY <1>1, <1>2, <1>3, PTL DEF Spec
=============================================================================
