----------------------------- MODULE ArpResolve -----------------------------
(***************************************************************************)
(* Resolving the hosts of a subnet with ARP: batches of requests go out    *)
(* through one io_uring (send_arp_request), and each batch is followed by  *)
(* a call of receive_arp_reply that listens in rounds and sends again to   *)
(* the hosts still silent.  The ring outlives the calls, their buffers do  *)
(* not.                                                                    *)
(***************************************************************************)
EXTENDS Integers, FiniteSets, Sequences

CONSTANTS
    ArpHosts,    \* the targets of a batch
    Slots,       \* receive slots of a call (pool)
    ArpBatches,  \* how many batches the caller sends
    MaxRetries   \* max_retries

Calls == 1 .. ArpBatches
NoPacket == "none"
Stray == "stray"          \* a frame that is not a reply of a target
SendTag == 0              \* user_data of a send; a receive carries its slot

VARIABLES
    arpPc,       \* where the caller is
    call,        \* number of the batch
    ring,        \* call -> tag -> requests the kernel holds
    cq,          \* completion queue: <<tag, call of the request>>
    toReap,      \* total_submitted - processed
    pendingSends,    \* pending_retransmit_sends
    slotBuf,     \* contents of the receive buffers of this call
    inFlight,    \* slots whose in_flight is set
    resolved, totalResolved,
    attempts,    \* attempts_used
    peeked       \* completions the reaping loop has still to look at

arpVars == <<arpPc, call, ring, cq, toReap, pendingSends, slotBuf, inFlight,
             resolved, totalResolved, attempts, peeked>>

NoRequests == [c \in Calls |-> [t \in {SendTag} \cup Slots |-> 0]]

ArpInit ==
    /\ arpPc = "idle" /\ call = 0
    /\ ring = NoRequests /\ cq = <<>> /\ toReap = 0 /\ pendingSends = 0
    /\ slotBuf = [s \in Slots |-> NoPacket] /\ inFlight = {}
    /\ resolved = {} /\ totalResolved = 0 /\ attempts = 0 /\ peeked = 0

----------------------------------------------------------------------------
\* The kernel: a send completes; a frame completes a receive, and lands in
\* the buffer of the call that armed it.
SendCompletes ==
    \E c \in Calls :
        /\ ring[c][SendTag] > 0
        /\ ring' = [ring EXCEPT ![c][SendTag] = @ - 1]
        /\ cq' = Append(cq, <<SendTag, c>>)
        /\ UNCHANGED <<arpPc, call, toReap, pendingSends, slotBuf, inFlight,
                       resolved, totalResolved, attempts, peeked>>

FrameArrives ==
    \E c \in Calls, s \in Slots, f \in ArpHosts \cup {Stray} :
        /\ ring[c][s] > 0
        /\ ring' = [ring EXCEPT ![c][s] = @ - 1]
        /\ cq' = Append(cq, <<s, c>>)
        /\ slotBuf' = IF c = call /\ arpPc # "idle" THEN [slotBuf EXCEPT ![s] = f]
                                                    ELSE slotBuf
        /\ UNCHANGED <<arpPc, call, toReap, pendingSends, inFlight,
                       resolved, totalResolved, attempts, peeked>>

----------------------------------------------------------------------------
\* send_arp_request: the whole batch is queued, then reaped.

SendRequests ==
    /\ arpPc = "idle" /\ call < ArpBatches
    /\ call' = call + 1
    /\ ring' = [ring EXCEPT ![call + 1][SendTag] = Cardinality(ArpHosts)]
    /\ toReap' = Cardinality(ArpHosts)
    /\ arpPc' = "sent"
    /\ UNCHANGED <<cq, pendingSends, slotBuf, inFlight, resolved, totalResolved,
                   attempts, peeked>>

\* Whatever has completed is counted, whichever request it was.
ReapSends ==
    /\ arpPc = "sent" /\ toReap > 0 /\ cq # <<>>
    /\ toReap' = toReap - Len(cq)
    /\ cq' = <<>>
    /\ UNCHANGED <<arpPc, call, ring, pendingSends, slotBuf, inFlight, resolved,
                   totalResolved, attempts, peeked>>

\* The waits gave up: a signal interrupts the forced drain.
ReapSendsFails ==
    /\ arpPc = "sent" /\ toReap > 0
    /\ toReap' = 0
    /\ UNCHANGED <<arpPc, call, ring, cq, pendingSends, slotBuf, inFlight, resolved,
                   totalResolved, attempts, peeked>>

----------------------------------------------------------------------------
\* receive_arp_reply.

Listen ==
    /\ arpPc = "sent" /\ toReap <= 0
    /\ arpPc' = "listen"
    /\ resolved' = {} /\ totalResolved' = 0 /\ attempts' = 0 /\ toReap' = 0
    /\ slotBuf' = [s \in Slots |-> NoPacket]
    /\ inFlight' = Slots
    /\ ring' = [ring EXCEPT ![call] = [t \in {SendTag} \cup Slots |->
                                         IF t = SendTag THEN @[t] ELSE 1]]
    /\ UNCHANGED <<call, cq, pendingSends, peeked>>

Waiting == arpPc = "listen" /\ peeked = 0 /\ totalResolved < Cardinality(ArpHosts)

\* A round is over: the hosts still silent are asked again.
Retransmit ==
    /\ Waiting /\ attempts < MaxRetries
    /\ LET silent == Cardinality(ArpHosts \ resolved)
       IN  /\ ring' = [ring EXCEPT ![call][SendTag] = @ + silent]
           /\ pendingSends' = pendingSends + silent
    /\ attempts' = attempts + 1
    /\ UNCHANGED <<arpPc, call, cq, toReap, slotBuf, inFlight, resolved,
                   totalResolved, peeked>>

RetransmitImpossible ==
    /\ Waiting /\ attempts < MaxRetries
    /\ attempts' = attempts + 1
    /\ UNCHANGED <<arpPc, call, ring, cq, toReap, pendingSends, slotBuf, inFlight,
                   resolved, totalResolved, peeked>>

Peek ==
    /\ Waiting /\ cq # <<>>
    /\ peeked' = Len(cq)
    /\ UNCHANGED <<arpPc, call, ring, cq, toReap, pendingSends, slotBuf, inFlight,
                   resolved, totalResolved, attempts>>

\* The tag of a completion is all the loop looks at.
ReapSend ==
    /\ peeked > 0 /\ Head(cq)[1] = SendTag
    /\ cq' = Tail(cq) /\ peeked' = peeked - 1
    /\ pendingSends' = IF pendingSends > 0 THEN pendingSends - 1 ELSE 0
    /\ UNCHANGED <<arpPc, call, ring, toReap, slotBuf, inFlight, resolved,
                   totalResolved, attempts>>

Rearm(s) ==
    IF totalResolved' < Cardinality(ArpHosts)
      THEN inFlight' = inFlight \cup {s} /\ ring' = [ring EXCEPT ![call][s] = @ + 1]
      ELSE inFlight' = inFlight \ {s} /\ UNCHANGED ring

\* Fault: a second reply of a host is counted.
ReapFrameTwice ==
    /\ peeked > 0 /\ Head(cq)[1] # SendTag
    /\ cq' = Tail(cq) /\ peeked' = peeked - 1
    /\ LET s == Head(cq)[1]
       IN  /\ resolved' = resolved \cup ({slotBuf[s]} \cap ArpHosts)
           /\ totalResolved' = totalResolved + Cardinality({slotBuf[s]} \cap ArpHosts)
           /\ Rearm(s)
    /\ UNCHANGED <<arpPc, call, toReap, pendingSends, slotBuf, attempts>>

\* The slot's buffer is read: the first reply of a target resolves it.
ReapFrame ==
    /\ peeked > 0 /\ Head(cq)[1] # SendTag
    /\ cq' = Tail(cq) /\ peeked' = peeked - 1
    /\ LET s == Head(cq)[1]
           new == {slotBuf[s]} \cap (ArpHosts \ resolved)
       IN  /\ resolved' = resolved \cup new
           /\ totalResolved' = totalResolved + Cardinality(new)
           /\ Rearm(s)
    /\ UNCHANGED <<arpPc, call, toReap, pendingSends, slotBuf, attempts>>

\* All resolved, the retries spent, an error of the wait, or a signal.
StopListening ==
    /\ arpPc = "listen" /\ peeked = 0
    /\ arpPc' = "cleanup" /\ peeked' = 0
    /\ UNCHANGED <<call, ring, cq, toReap, pendingSends, slotBuf, inFlight, resolved,
                   totalResolved, attempts>>

\* One completion is thrown away per slot in flight, without waiting for it.
Cleanup ==
    /\ arpPc = "cleanup"
    /\ LET n == Cardinality(inFlight)
       IN  cq' = IF n >= Len(cq) THEN <<>> ELSE SubSeq(cq, n + 1, Len(cq))
    /\ arpPc' = "sends"
    /\ UNCHANGED <<call, ring, toReap, pendingSends, slotBuf, inFlight, resolved,
                   totalResolved, attempts, peeked>>

DrainSend ==
    /\ arpPc = "sends" /\ pendingSends > 0 /\ cq # <<>>
    /\ cq' = Tail(cq)
    /\ pendingSends' = IF Head(cq)[1] = SendTag THEN pendingSends - 1 ELSE pendingSends
    /\ UNCHANGED <<arpPc, call, ring, toReap, slotBuf, inFlight, resolved,
                   totalResolved, attempts, peeked>>

\* The call returns, after 30 ms without a completion at the latest; its
\* buffers go out of scope.
Return ==
    /\ arpPc = "sends" /\ (pendingSends = 0 \/ cq = <<>>)
    /\ arpPc' = "idle"
    /\ pendingSends' = 0 /\ inFlight' = {}
    /\ slotBuf' = [s \in Slots |-> NoPacket]
    /\ UNCHANGED <<call, ring, cq, toReap, resolved, totalResolved, attempts, peeked>>

ArpStep == \/ SendRequests \/ ReapSends \/ ReapSendsFails \/ Listen
           \/ Retransmit \/ RetransmitImpossible \/ Peek \/ ReapSend \/ ReapFrame
           \/ StopListening \/ Cleanup \/ DrainSend \/ Return

ArpNext == ArpStep \/ SendCompletes \/ FrameArrives

ArpOver == arpPc = "idle" /\ call = ArpBatches

----------------------------------------------------------------------------
\* The loop ends when the counter says that all targets are resolved: it counts
\* each host once, and only hosts that were asked, with the frames of earlier
\* calls still coming in.
ResolvedExact ==
    arpPc # "idle" => totalResolved = Cardinality(resolved)

\* While hosts are missing the call keeps listening: each slot has a request
\* of this call with the kernel, or a completion waiting.
ListenerArmed ==
    arpPc = "listen" /\ totalResolved < Cardinality(ArpHosts) =>
        \A s \in Slots :
            \/ ring[call][s] > 0
            \/ \E i \in 1 .. Len(cq) : cq[i][1] = s
=============================================================================
