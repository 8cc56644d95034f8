---------------------------- MODULE Traceroute ----------------------------
(***************************************************************************)
(* run_traceroute() and run_traceroute6(): hop by hop, a round of probes   *)
(* with a growing TTL and a wait for their answers.  An answer names its   *)
(* probe only by the position in the round (sequence % 100), so one that   *)
(* comes late is taken for the round then under way.                       *)
(***************************************************************************)
EXTENDS Integers, FiniteSets, Sequences

CONSTANTS
    MaxHops,        \* opts.max_hops
    ProbesPerHop,   \* opts.probes_per_hop
    Distance        \* hops to the destination

Rounds == 0 .. ProbesPerHop - 1

VARIABLES
    trPc,           \* "send", "wait", "done"
    ttl,
    probesOut,      \* answers that may still come: [ttl, p]
    responded,      \* probes[p].responded of this hop
    counted,        \* answered: how many answers this hop has
    hopFrom,        \* hop.ip: distance of the node that answered, 0 for none
    reached,        \* done
    hops,           \* hops pushed so far
    stopTrace       \* terminate_flag

traceVars == <<trPc, ttl, probesOut, responded, counted, hopFrom, reached, hops, stopTrace>>

TraceInit ==
    /\ trPc = "send" /\ ttl = 1
    /\ probesOut = {} /\ responded = {} /\ counted = 0 /\ hopFrom = 0
    /\ reached = FALSE /\ hops = <<>> /\ stopTrace = FALSE

----------------------------------------------------------------------------
Over == ttl > MaxHops \/ reached \/ stopTrace

\* The end of the loop; no socket, or the TTL cannot be set.
TraceEnds ==
    /\ trPc = "send"
    /\ trPc' = "done"
    /\ UNCHANGED <<ttl, probesOut, responded, counted, hopFrom, reached, hops, stopTrace>>

\* The round of a hop; a probe may be lost on the way, or its answer.
SendRound ==
    /\ trPc = "send" /\ ~Over
    /\ \E arriving \in SUBSET Rounds :
          probesOut' = probesOut \cup {[ttl |-> ttl, p |-> p] : p \in arriving}
    /\ responded' = {} /\ counted' = 0 /\ hopFrom' = 0
    /\ trPc' = "wait"
    /\ UNCHANGED <<ttl, reached, hops, stopTrace>>

Waiting == trPc = "wait" /\ counted < ProbesPerHop /\ ~stopTrace

\* Fault: a duplicate is logged again.
AnswerTwice(w, again) ==
    /\ Waiting /\ w \in probesOut
    /\ probesOut' = IF again THEN probesOut ELSE probesOut \ {w}
    /\ reached' = (reached \/ w.ttl >= Distance)
    /\ responded' = responded \cup {w.p} /\ counted' = counted + 1
    /\ hopFrom' = IF hopFrom # 0 THEN hopFrom
                  ELSE IF w.ttl >= Distance THEN Distance ELSE w.ttl
    /\ UNCHANGED <<trPc, ttl, hops, stopTrace>>

\* Time exceeded, an echo reply or "unreachable", from the node the probe got
\* to; the network may deliver it again.
Answer(w, again) ==
    /\ Waiting /\ w \in probesOut
    /\ probesOut' = IF again THEN probesOut ELSE probesOut \ {w}
    /\ reached' = (reached \/ w.ttl >= Distance)
    /\ IF w.p \in responded
         THEN UNCHANGED <<responded, counted, hopFrom>>     \* already logged
         ELSE /\ responded' = responded \cup {w.p} /\ counted' = counted + 1
              /\ hopFrom' = IF hopFrom # 0 THEN hopFrom
                            ELSE IF w.ttl >= Distance THEN Distance ELSE w.ttl
    /\ UNCHANGED <<trPc, ttl, hops, stopTrace>>

AnswerArrives == \E w \in probesOut, again \in BOOLEAN : Answer(w, again)

\* A raw socket sees every ICMP message: "unreachable" sets done before it is
\* known whether the message is an answer to one of our probes.
ForeignUnreachable ==
    /\ Waiting /\ ~reached
    /\ reached' = TRUE
    /\ UNCHANGED <<trPc, ttl, probesOut, responded, counted, hopFrom, hops, stopTrace>>

\* Every probe answered, the deadline, or an interrupt.
RoundOver ==
    /\ trPc = "wait"
    /\ trPc' = "name"
    /\ UNCHANGED <<ttl, probesOut, responded, counted, hopFrom, reached, hops, stopTrace>>

\* enrich_hop looks up the name of a node that answered, in a batch of one
\* query, which may never return (DnsBatch!TopUp).
Naming == trPc = "name" /\ hopFrom # 0

HopOver ==
    /\ trPc = "name"
    /\ hops' = Append(hops, [ttl |-> ttl, from |-> hopFrom, slots |-> responded])
    /\ reached' = (reached \/ hopFrom = Distance)
    /\ ttl' = ttl + 1
    /\ trPc' = "send"
    /\ UNCHANGED <<probesOut, responded, counted, hopFrom, stopTrace>>

StopTrace ==
    /\ trPc # "done" /\ ~stopTrace
    /\ stopTrace' = TRUE
    /\ UNCHANGED <<trPc, ttl, probesOut, responded, counted, hopFrom, reached, hops>>

TraceStep == TraceEnds \/ SendRound \/ RoundOver \/ HopOver
TraceNext == TraceStep \/ AnswerArrives \/ ForeignUnreachable \/ StopTrace
TraceOver == trPc = "done"

----------------------------------------------------------------------------
\* The hops are the TTLs in order, none missing; each answer counted is a
\* probe of the round that was not answered before, so a duplicate cannot end
\* a round whose other probes are unanswered; a hop is never named after a
\* node beyond the TTL it was probed with.
TraceExact ==
    /\ \A i \in 1 .. Len(hops) : hops[i].ttl = i /\ hops[i].from <= i
    /\ trPc \in {"wait", "name"} => counted = Cardinality(responded) /\ ttl = Len(hops) + 1
=============================================================================
