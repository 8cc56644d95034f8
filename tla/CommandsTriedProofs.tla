------------------------- MODULE CommandsTriedProofs -------------------------
(***************************************************************************)
(* Nothing that was to be tried is passed over: the queries of the DNS     *)
(* engine, the handshakes of a TLS enumeration, the probes of a service    *)
(* scan and the receives of the ARP listener, for lists of any length.     *)
(***************************************************************************)
EXTENDS CommandsProofs

-----------------------------------------------------------------------------
(***************************************************************************)
(* receive_arp_reply: a receive is armed on every slot while it listens.   *)
(***************************************************************************)
\* The tags of the completions, and the receives of the call while it listens.
Tags == {0} \cup Slots
ListenInv ==
    /\ arpPc \in {"idle", "sent", "listen", "cleanup", "sends"}
    /\ call \in Nat /\ call <= ArpBatches /\ (arpPc # "idle" => call # 0)
    /\ ring \in [Arp!Calls -> [Tags -> Nat]]
    /\ cq \in Seq(Tags \X Arp!Calls)
    /\ peeked \in Nat /\ peeked <= Len(cq) /\ (peeked > 0 => arpPc = "listen")
    /\ inFlight \subseteq Slots
    /\ Arp!ListenerArmed

LEMMA ListenStarts == Arp!ArpInit => ListenInv
BY CommandsAssumption, SlotsAssumption DEF Arp!ArpInit, ListenInv, Arp!NoRequests, Arp!SendTag, Tags, Arp!ListenerArmed

LEMMA ListenUntouched == ListenInv /\ UNCHANGED arpVars => ListenInv'
BY DEF ListenInv, arpVars, Arp!ListenerArmed

\* What the kernel completes is taken out of the ring and put into the queue.
LEMMA CompletionQueued ==
    ASSUME ListenInv, NEW c \in Arp!Calls, NEW t \in Tags, ring[c][t] > 0,
           ring' = [ring EXCEPT ![c][t] = @ - 1], cq' = Append(cq, <<t, c>>),
           UNCHANGED <<arpPc, call, peeked, inFlight, totalResolved>>
    PROVE  ListenInv'
<1>1. /\ ring \in [Arp!Calls -> [Tags -> Nat]] /\ cq \in Seq(Tags \X Arp!Calls)
      /\ Len(cq) \in Nat
  <2>1. ring \in [Arp!Calls -> [Tags -> Nat]] /\ cq \in Seq(Tags \X Arp!Calls)
    BY DEF ListenInv
  <2> QED BY <2>1, LenProperties
<1>2. ring' \in [Arp!Calls -> [Tags -> Nat]]
  <2>1. ring[c] \in [Tags -> Nat] /\ ring[c][t] - 1 \in Nat
    BY <1>1
  <2> QED BY <1>1, <2>1
<1>3. /\ cq' \in Seq(Tags \X Arp!Calls) /\ Len(cq') = Len(cq) + 1
      /\ \A i \in 1 .. Len(cq) : cq'[i] = cq[i]
      /\ cq'[Len(cq) + 1] = <<t, c>>
  <2>1. <<t, c>> \in Tags \X Arp!Calls
    OBVIOUS
  <2> QED BY <1>1, <2>1, AppendProperties
<1>4. ASSUME arpPc = "listen", totalResolved < Arp!Cardinality(ArpHosts), NEW s \in Slots
      PROVE  ring'[call][s] > 0 \/ \E i \in 1 .. Len(cq') : cq'[i][1] = s
  <2>1. call \in Arp!Calls /\ s \in Tags
    BY <1>4, CommandsAssumption, SlotsAssumption DEF ListenInv, Arp!Calls, Tags
  <2>2. CASE c = call /\ t = s
    <3>1. Len(cq) + 1 \in 1 .. Len(cq') /\ cq'[Len(cq) + 1][1] = s
      BY <1>1, <1>3, <2>2
    <3> QED BY <3>1
  <2>3. CASE ~ (c = call /\ t = s)
    <3>1. ring'[call][s] = ring[call][s]
      BY <1>1, <2>1, <2>3
    <3>2. ring[call][s] > 0 \/ \E i \in 1 .. Len(cq) : cq[i][1] = s
      BY <1>4 DEF ListenInv, Arp!ListenerArmed
    <3>3. ASSUME NEW i \in 1 .. Len(cq), cq[i][1] = s PROVE \E k \in 1 .. Len(cq') : cq'[k][1] = s
      <4>1. i \in 1 .. Len(cq') /\ cq'[i][1] = s
        BY <1>1, <1>3, <3>3
      <4> QED BY <4>1
    <3> QED BY <3>1, <3>2, <3>3
  <2> QED BY <2>2, <2>3
<1>5. Arp!ListenerArmed'
  BY <1>4 DEF Arp!ListenerArmed
<1>6. peeked <= Len(cq')
  BY <1>1, <1>3 DEF ListenInv
<1> QED BY <1>2, <1>3, <1>5, <1>6 DEF ListenInv

\* A completion is taken from the front of the queue; its slot, if it has one, is armed.
LEMMA CompletionReaped ==
    ASSUME ListenInv, peeked > 0, cq' = Tail(cq), peeked' = peeked - 1,
           UNCHANGED <<arpPc, call>>, totalResolved' >= totalResolved,
           totalResolved \in Int, totalResolved' \in Int,
           inFlight' \subseteq Slots,
           ring' \in [Arp!Calls -> [Tags -> Nat]],
           \A s \in Tags : ring'[call][s] >= ring[call][s],
           totalResolved' < Arp!Cardinality(ArpHosts) /\ Head(cq)[1] # 0
              => ring'[call][Head(cq)[1]] > 0
    PROVE  ListenInv'
<1>1. /\ cq \in Seq(Tags \X Arp!Calls) /\ Len(cq) \in Nat /\ cq # <<>>
      /\ arpPc = "listen" /\ call \in Arp!Calls /\ peeked \in Nat /\ peeked <= Len(cq)
      /\ ring \in [Arp!Calls -> [Tags -> Nat]]
  <2>1. /\ cq \in Seq(Tags \X Arp!Calls) /\ ring \in [Arp!Calls -> [Tags -> Nat]]
        /\ peeked \in Nat /\ peeked <= Len(cq) /\ arpPc = "listen"
    BY DEF ListenInv
  <2>2. Len(cq) \in Nat /\ (cq = <<>> => Len(cq) = 0)
    BY <2>1, LenProperties
  <2>3. call \in Arp!Calls
    BY <2>1, CommandsAssumption, SlotsAssumption DEF ListenInv, Arp!Calls
  <2> QED BY <2>1, <2>2, <2>3
<1>2. /\ cq' \in Seq(Tags \X Arp!Calls) /\ Len(cq') = Len(cq) - 1 /\ Len(cq') \in Nat
      /\ \A i \in 1 .. Len(cq) - 1 : cq'[i] = cq[i + 1]
  BY <1>1, HeadTailProperties
<1>3. ASSUME totalResolved' < Arp!Cardinality(ArpHosts), NEW s \in Slots
      PROVE  ring'[call][s] > 0 \/ \E i \in 1 .. Len(cq') : cq'[i][1] = s
  <2>1. s \in Tags /\ s # 0 /\ ring[call][s] \in Nat /\ ring'[call][s] \in Nat
    BY <1>1, CommandsAssumption, SlotsAssumption DEF Tags
  <2>2. totalResolved < Arp!Cardinality(ArpHosts)
    BY <1>3, CommandsAssumption, SlotsAssumption, FS_CardinalityType, ArpCardinality
  <2>3. ring[call][s] > 0 \/ \E i \in 1 .. Len(cq) : cq[i][1] = s
    BY <1>1, <2>2 DEF ListenInv, Arp!ListenerArmed
  <2>4. CASE ring[call][s] > 0
    BY <2>1, <2>4
  <2>5. ASSUME NEW i \in 1 .. Len(cq), cq[i][1] = s
        PROVE  ring'[call][s] > 0 \/ \E k \in 1 .. Len(cq') : cq'[k][1] = s
    <3>1. CASE i = 1
      <4>1. Head(cq) = cq[1]
        BY <1>1
      <4>2. Head(cq)[1] = s
        BY <2>5, <3>1, <4>1
      <4> QED BY <1>3, <2>1, <4>2
    <3>2. CASE i # 1
      <4>1. i - 1 \in 1 .. Len(cq') /\ i - 1 \in 1 .. Len(cq) - 1 /\ i - 1 + 1 = i
        BY <1>1, <1>2, <3>2
      <4>2. cq'[i - 1] = cq[i]
        BY <1>2, <4>1
      <4> QED BY <2>5, <4>1, <4>2
    <3> QED BY <3>1, <3>2
  <2> QED BY <2>3, <2>4, <2>5
<1>4. Arp!ListenerArmed'
  BY <1>1, <1>3 DEF Arp!ListenerArmed
<1> QED BY <1>1, <1>2, <1>4 DEF ListenInv

LEMMA ListenStep == ASSUME ListenInv, ResolvedInv, ResolvedInv', Arp!ArpNext PROVE ListenInv'
<1>1. /\ ring \in [Arp!Calls -> [Tags -> Nat]] /\ cq \in Seq(Tags \X Arp!Calls)
      /\ Len(cq) \in Nat /\ call \in Nat /\ call <= ArpBatches /\ ArpBatches \in Nat
      /\ 0 \in Tags /\ Slots \subseteq Tags /\ 0 \notin Slots
      /\ arpPc # "idle" => call \in Arp!Calls
      /\ peeked \in Nat /\ inFlight \subseteq Slots
  <2>1. /\ ring \in [Arp!Calls -> [Tags -> Nat]] /\ cq \in Seq(Tags \X Arp!Calls)
        /\ call \in Nat /\ call <= ArpBatches /\ (arpPc # "idle" => call # 0)
        /\ peeked \in Nat /\ inFlight \subseteq Slots
    BY DEF ListenInv
  <2>2. ArpBatches \in Nat /\ 0 \notin Slots
    BY CommandsAssumption, SlotsAssumption
  <2>3. Len(cq) \in Nat
    BY <2>1, LenProperties
  <2>4. arpPc # "idle" => call \in Arp!Calls
    BY <2>1, <2>2 DEF Arp!Calls
  <2> QED BY <2>1, <2>2, <2>3, <2>4 DEF Tags
<1>2. \A S : S \subseteq ArpHosts => Arp!Cardinality(S) \in Nat
  BY CommandsAssumption, SlotsAssumption, FS_Subset, FS_CardinalityType, ArpCardinality
<1>3. totalResolved \in Nat /\ totalResolved' \in Nat
  BY <1>2, ArpCardinality DEF ResolvedInv
<1>4. CASE Arp!SendCompletes
  <2>1. PICK c \in Arp!Calls :
          /\ ring[c][0] > 0 /\ ring' = [ring EXCEPT ![c][0] = @ - 1]
          /\ cq' = Append(cq, <<0, c>>)
    BY <1>4 DEF Arp!SendCompletes, Arp!SendTag
  <2>2. UNCHANGED <<arpPc, call, peeked, inFlight, totalResolved>>
    BY <1>4 DEF Arp!SendCompletes
  <2> QED BY <1>1, <2>1, <2>2, CompletionQueued
<1>5. CASE Arp!FrameArrives
  <2>1. PICK c \in Arp!Calls, s \in Slots :
          /\ ring[c][s] > 0 /\ ring' = [ring EXCEPT ![c][s] = @ - 1]
          /\ cq' = Append(cq, <<s, c>>)
    BY <1>5 DEF Arp!FrameArrives
  <2>2. UNCHANGED <<arpPc, call, peeked, inFlight, totalResolved>>
    BY <1>5 DEF Arp!FrameArrives
  <2> QED BY <1>1, <2>1, <2>2, CompletionQueued
<1>6. CASE Arp!ReapSend
  <2>1. /\ peeked > 0 /\ Head(cq)[1] = 0 /\ cq' = Tail(cq) /\ peeked' = peeked - 1
        /\ UNCHANGED <<arpPc, call, ring, inFlight, totalResolved>>
    BY <1>6 DEF Arp!ReapSend, Arp!SendTag
  <2>2. \A s \in Tags : ring'[call][s] >= ring[call][s]
    <3>1. call \in Arp!Calls
      BY <1>1, <2>1 DEF ListenInv
    <3> QED BY <1>1, <2>1, <3>1
  <2> QED BY <1>1, <1>3, <2>1, <2>2, CompletionReaped
<1>7. CASE Arp!ReapFrame
  <2> DEFINE s == Head(cq)[1]
             new == {slotBuf[s]} \cap (ArpHosts \ resolved)
  <2>1. /\ peeked > 0 /\ s # 0 /\ cq' = Tail(cq) /\ peeked' = peeked - 1
        /\ totalResolved' = totalResolved + Arp!Cardinality(new)
        /\ Arp!Rearm(s) /\ UNCHANGED <<arpPc, call>>
    BY <1>7 DEF Arp!ReapFrame, Arp!SendTag
  <2>2. call \in Arp!Calls /\ s \in Slots
    <3>1. arpPc = "listen" /\ cq # <<>>
      <4>1. cq = <<>> => Len(cq) = 0
        OBVIOUS
      <4> QED BY <2>1, <4>1 DEF ListenInv
    <3>2. Head(cq) \in Tags \X Arp!Calls
      BY <1>1, <3>1, HeadTailProperties
    <3> QED BY <1>1, <2>1, <3>1, <3>2 DEF Tags
  <2>3. totalResolved' >= totalResolved
    <3>1. Arp!Cardinality(new) \in Nat
      BY <1>2
    <3> QED BY <1>3, <2>1, <3>1
  <2> HIDE DEF new, s
  <2>4. CASE totalResolved' < Arp!Cardinality(ArpHosts)
    <3>1. inFlight' = inFlight \cup {s} /\ ring' = [ring EXCEPT ![call][s] = @ + 1]
      BY <2>1, <2>4 DEF Arp!Rearm
    <3>2. ring[call] \in [Tags -> Nat] /\ ring[call][s] + 1 \in Nat /\ s \in Tags
      BY <1>1, <2>2
    <3>3. /\ ring' \in [Arp!Calls -> [Tags -> Nat]] /\ ring'[call][s] > 0
          /\ \A t \in Tags : ring'[call][t] >= ring[call][t]
      BY <1>1, <2>2, <3>1, <3>2
    <3>4. inFlight' \subseteq Slots
      BY <1>1, <2>2, <3>1
    <3> QED BY <1>3, <2>1, <2>3, <3>3, <3>4, CompletionReaped DEF s
  <2>5. CASE ~ (totalResolved' < Arp!Cardinality(ArpHosts))
    <3>1. inFlight' = inFlight \ {s} /\ ring' = ring
      BY <2>1, <2>5 DEF Arp!Rearm
    <3>2. inFlight' \subseteq Slots /\ \A t \in Tags : ring'[call][t] >= ring[call][t]
      BY <1>1, <2>2, <3>1
    <3> QED BY <1>1, <1>3, <2>1, <2>3, <2>5, <3>1, <3>2, CompletionReaped DEF s
  <2> QED BY <2>4, <2>5
<1>8. CASE Arp!SendRequests
  <2>1. /\ arpPc = "idle" /\ call < ArpBatches /\ call' = call + 1 /\ arpPc' = "sent"
        /\ ring' = [ring EXCEPT ![call + 1][0] = Arp!Cardinality(ArpHosts)]
        /\ UNCHANGED <<cq, inFlight, peeked>>
    BY <1>8 DEF Arp!SendRequests, Arp!SendTag
  <2>2. ring' \in [Arp!Calls -> [Tags -> Nat]]
    <3>1. call + 1 \in Arp!Calls /\ Arp!Cardinality(ArpHosts) \in Nat
      BY <1>1, <1>2, <2>1 DEF Arp!Calls
    <3> QED BY <1>1, <2>1, <3>1
  <2> QED BY <1>1, <2>1, <2>2 DEF ListenInv, Arp!ListenerArmed
<1>9. CASE Arp!ReapSends
  <2>1. /\ arpPc = "sent" /\ cq' = <<>> /\ UNCHANGED <<arpPc, call, ring, inFlight, peeked>>
    BY <1>9 DEF Arp!ReapSends
  <2>2. peeked = 0 /\ cq' \in Seq(Tags \X Arp!Calls) /\ Len(cq') = 0
    BY <1>1, <2>1 DEF ListenInv
  <2> QED BY <1>1, <2>1, <2>2 DEF ListenInv, Arp!ListenerArmed
<1>10. CASE Arp!Listen
  <2>1. /\ arpPc = "sent" /\ arpPc' = "listen" /\ inFlight' = Slots
        /\ ring' = [ring EXCEPT ![call] = [t \in {0} \cup Slots |-> IF t = 0 THEN @[t] ELSE 1]]
        /\ UNCHANGED <<call, cq, peeked>>
    BY <1>10 DEF Arp!Listen, Arp!SendTag
  <2>2. call \in Arp!Calls
    BY <1>1, <2>1
  <2>3. /\ ring' \in [Arp!Calls -> [Tags -> Nat]]
        /\ \A s \in Slots : ring'[call][s] = 1
    BY <1>1, <2>1, <2>2 DEF Tags
  <2> QED BY <1>1, <2>1, <2>3 DEF ListenInv, Arp!ListenerArmed
<1>11. CASE Arp!Retransmit
  <2>1. PICK k : /\ k = Arp!Cardinality(ArpHosts \ resolved)
                 /\ ring' = [ring EXCEPT ![call][0] = @ + k]
    BY <1>11 DEF Arp!Retransmit, Arp!SendTag
  <2>2. arpPc = "listen" /\ UNCHANGED <<arpPc, call, cq, inFlight, peeked, totalResolved>>
    BY <1>11 DEF Arp!Retransmit, Arp!Waiting
  <2>3. call \in Arp!Calls /\ k \in Nat
    BY <1>1, <1>2, <2>1, <2>2
  <2>4. /\ ring' \in [Arp!Calls -> [Tags -> Nat]]
        /\ \A s \in Slots : ring'[call][s] = ring[call][s]
    <3>1. ring[call] \in [Tags -> Nat] /\ ring[call][0] + k \in Nat
      BY <1>1, <2>3
    <3> QED BY <1>1, <2>1, <2>3, <3>1
  <2> QED BY <1>1, <2>2, <2>4 DEF ListenInv, Arp!ListenerArmed
<1>12. CASE Arp!Peek
  <2>1. /\ arpPc = "listen" /\ peeked' = Len(cq)
        /\ UNCHANGED <<arpPc, call, ring, cq, inFlight, totalResolved>>
    BY <1>12 DEF Arp!Peek, Arp!Waiting
  <2> QED BY <1>1, <2>1 DEF ListenInv, Arp!ListenerArmed
<1>13. CASE Arp!Cleanup
  <2>1. PICK k : /\ k = Arp!Cardinality(inFlight)
                 /\ cq' = IF k >= Len(cq) THEN <<>> ELSE SubSeq(cq, k + 1, Len(cq))
    BY <1>13 DEF Arp!Cleanup
  <2>2. /\ arpPc = "cleanup" /\ arpPc' = "sends" /\ UNCHANGED <<call, ring, inFlight, peeked>>
    BY <1>13 DEF Arp!Cleanup
  <2>3. k \in Nat
    BY <1>1, <2>1, CommandsAssumption, SlotsAssumption, FS_Subset, FS_CardinalityType, ArpCardinality
  <2>4. cq' \in Seq(Tags \X Arp!Calls)
    <3>2. CASE k >= Len(cq)
      BY <2>1, <3>2
    <3>3. CASE ~ (k >= Len(cq))
      <4>1. k + 1 \in 1 .. Len(cq) + 1 /\ Len(cq) \in k .. Len(cq)
        BY <1>1, <2>3, <3>3
      <4>2. SubSeq(cq, k + 1, Len(cq)) \in Seq(Tags \X Arp!Calls)
        BY <1>1, <2>3, <4>1, SubSeqProperties
      <4> QED BY <2>1, <3>3, <4>2
    <3> QED BY <3>2, <3>3
  <2>5. peeked = 0 /\ Len(cq') \in Nat
    BY <1>1, <2>2, <2>4, LenProperties DEF ListenInv
  <2> QED BY <1>1, <2>2, <2>4, <2>5 DEF ListenInv, Arp!ListenerArmed
<1>14. CASE Arp!DrainSend
  <2>1. /\ arpPc = "sends" /\ cq # <<>> /\ cq' = Tail(cq)
        /\ UNCHANGED <<arpPc, call, ring, inFlight, peeked>>
    BY <1>14 DEF Arp!DrainSend
  <2>2. cq' \in Seq(Tags \X Arp!Calls)
    BY <1>1, <2>1, HeadTailProperties
  <2>3. peeked = 0 /\ Len(cq') \in Nat
    BY <1>1, <2>1, <2>2, LenProperties DEF ListenInv
  <2> QED BY <1>1, <2>1, <2>2, <2>3 DEF ListenInv, Arp!ListenerArmed
<1>15. CASE Arp!StopListening
  <2>1. /\ arpPc = "listen" /\ arpPc' = "cleanup" /\ peeked' = 0
        /\ call' = call /\ ring' = ring /\ cq' = cq /\ inFlight' = inFlight
    BY <1>15 DEF Arp!StopListening
  <2>2. Arp!ListenerArmed'
    BY <2>1 DEF Arp!ListenerArmed
  <2>3. 0 <= Len(cq') /\ call' # 0
    BY <1>1, <2>1 DEF ListenInv
  <2> QED BY <1>1, <2>1, <2>2, <2>3 DEF ListenInv
<1>16. CASE Arp!Return
  <2>1. arpPc = "sends" /\ arpPc' = "idle" /\ inFlight' = {} /\ UNCHANGED <<call, ring, cq, peeked>>
    BY <1>16 DEF Arp!Return
  <2> QED BY <1>1, <2>1 DEF ListenInv, Arp!ListenerArmed
<1>17. CASE Arp!ReapSendsFails \/ Arp!RetransmitImpossible
  <2>1. UNCHANGED <<arpPc, call, ring, cq, inFlight, totalResolved, peeked>>
    BY <1>17 DEF Arp!ReapSendsFails, Arp!RetransmitImpossible
  <2> QED BY <2>1 DEF ListenInv, Arp!ListenerArmed
<1> QED BY <1>4, <1>5, <1>6, <1>7, <1>8, <1>9, <1>10, <1>11, <1>12, <1>13, <1>14, <1>15,
           <1>16, <1>17 DEF Arp!ArpNext, Arp!ArpStep

-----------------------------------------------------------------------------
(***************************************************************************)
(* run_ssl_enum_batch: the list of handshakes, and a verdict for each.     *)
(***************************************************************************)
LEMMA SslCardinality == \A S : Ssl!Cardinality(S) = Cardinality(S)
BY DEF Ssl!Cardinality, Cardinality

\* A list of lists, one after the other, has all entries of each.
LEMMA FlatListed ==
    ASSUME NEW E, NEW seqs \in Seq(Seq(E))
    PROVE  /\ Ssl!FlattenSeq(seqs) \in Seq(E)
           /\ \A i \in 1 .. Len(seqs) : \A k \in 1 .. Len(seqs[i]) :
                 \E j \in 1 .. Len(Ssl!FlattenSeq(seqs)) : Ssl!FlattenSeq(seqs)[j] = seqs[i][k]
<1>n. PICK n \in Nat : n = Len(seqs)
  OBVIOUS
<1> DEFINE flatten[i \in 1 .. n] == IF i = 1 THEN seqs[i] ELSE flatten[i - 1] \o seqs[i]
<1>1. /\ \A i \in 1 .. n : seqs[i] \in Seq(E)
      /\ n = 0 => seqs = <<>>
  BY <1>n
<1>2. CASE n = 0
  BY <1>n, <1>1, <1>2 DEF Ssl!FlattenSeq
<1>3. CASE n # 0
  <2>1. Ssl!FlattenSeq(seqs) = flatten[n]
    BY <1>n, <1>3 DEF Ssl!FlattenSeq
  <2> DEFINE Solves(f) == f = [i \in 1 .. n |-> IF i = 1 THEN seqs[i] ELSE f[i - 1] \o seqs[i]]
  <2>2. \E f : Solves(f)
    <3>m. PICK m \in Nat : m = n - 1
      BY <1>3
    <3> DEFINE X == Seq(E)
               step == [i \in 1 .. m |-> [x \in X |-> x \o seqs[i + 1]]]
    <3>1. seqs[1] \in X /\ \A i \in 1 .. m : seqs[i + 1] \in X
      BY <1>1, <1>3, <3>m
    <3>2. step \in [1 .. m -> [X -> X]]
      <4> SUFFICES ASSUME NEW i \in 1 .. m, NEW x \in X PROVE x \o seqs[i + 1] \in X
        OBVIOUS
      <4> QED BY <3>1, ConcatProperties
    <3>3. \A i \in 1 .. m, x \in X : step[i][x] = x \o seqs[i + 1]
      OBVIOUS
    <3>a. seqs[1] \in X
      BY <3>1
    <3> HIDE DEF step, X
    <3>b. PICK g : LoopOf(g, m, X, seqs[1], step)
      BY <3>a, <3>2, LoopExists
    <3>4. g \in [0 .. m -> X] /\ g[0] = seqs[1] /\ \A i \in 1 .. m : g[i] = step[i][g[i - 1]]
      BY <3>b DEF LoopOf
    <3>5. \A i \in 1 .. m : g[i] = g[i - 1] \o seqs[i + 1]
      <4> SUFFICES ASSUME NEW i \in 1 .. m PROVE g[i] = g[i - 1] \o seqs[i + 1]
        OBVIOUS
      <4>1. i - 1 \in 0 .. m
        BY <3>1
      <4>2. g[i - 1] \in X
        BY <3>4, <4>1
      <4> QED BY <3>3, <3>4, <4>2
    <3> DEFINE f == [i \in 1 .. n |-> g[i - 1]]
    <3>6. \A i \in 1 .. n : f[i] = IF i = 1 THEN seqs[i] ELSE f[i - 1] \o seqs[i]
      <4> SUFFICES ASSUME NEW i \in 1 .. n
                   PROVE  f[i] = IF i = 1 THEN seqs[i] ELSE f[i - 1] \o seqs[i]
        OBVIOUS
      <4>1. CASE i = 1
        BY <3>4, <4>1
      <4>2. CASE i # 1
        <5>1. i - 1 \in 1 .. m /\ i - 1 \in 1 .. n /\ i - 1 + 1 = i
          BY <3>m, <4>2
        <5> QED BY <3>5, <4>2, <5>1
      <4> QED BY <4>1, <4>2
    <3>7. Solves(f)
      <4>1. f = [i \in 1 .. n |-> f[i]]
        OBVIOUS
      <4> HIDE DEF f
      <4> QED BY <3>6, <4>1
    <3> QED BY <3>7
  <2>3. flatten = CHOOSE f : Solves(f)
    OBVIOUS
  <2> HIDE DEF Solves, flatten
  <2>4. Solves(flatten)
    BY <2>2, <2>3
  <2>5. /\ flatten[1] = seqs[1]
        /\ \A i \in 1 .. n : i # 1 => flatten[i] = flatten[i - 1] \o seqs[i]
    <3>1. flatten = [i \in 1 .. n |-> IF i = 1 THEN seqs[i] ELSE flatten[i - 1] \o seqs[i]]
      BY <2>4 DEF Solves
    <3>2. 1 \in 1 .. n
      BY <1>1, <1>3
    <3> QED BY <3>1, <3>2
  <2> DEFINE Good(i) ==
          /\ flatten[i] \in Seq(E)
          /\ \A a \in 1 .. i : \A k \in 1 .. Len(seqs[a]) :
                \E j \in 1 .. Len(flatten[i]) : flatten[i][j] = seqs[a][k]
             T == {i \in 0 .. n : i # 0 => Good(i)}
  <2>6. ASSUME NEW i \in 1 .. n, i - 1 \in T PROVE Good(i)
    <3>1. CASE i = 1
      <4>1. flatten[i] = seqs[i] /\ seqs[i] \in Seq(E) /\ \A a \in 1 .. i : a = i
        BY <1>1, <2>5, <3>1
      <4> QED BY <4>1
    <3>2. CASE i # 1
      <4>1. Good(i - 1) /\ i - 1 \in 1 .. n
        BY <1>1, <2>6, <3>2
      <4> DEFINE x == flatten[i - 1]
                 y == seqs[i]
      <4>2. /\ x \in Seq(E) /\ y \in Seq(E) /\ Len(x) \in Nat /\ Len(y) \in Nat
            /\ flatten[i] = x \o y
        <5>1. x \in Seq(E) /\ y \in Seq(E) /\ flatten[i] = x \o y
          BY <1>1, <2>5, <3>2, <4>1
        <5> HIDE DEF x, y
        <5> QED BY <5>1, LenProperties
      <4> HIDE DEF x, y
      <4>3. /\ flatten[i] \in Seq(E) /\ Len(flatten[i]) = Len(x) + Len(y)
            /\ \A j \in 1 .. Len(x) : flatten[i][j] = x[j]
            /\ \A k \in 1 .. Len(y) : flatten[i][Len(x) + k] = y[k]
        BY <4>2, ConcatProperties
      <4>4. ASSUME NEW a \in 1 .. i, NEW k \in 1 .. Len(seqs[a])
            PROVE  \E j \in 1 .. Len(flatten[i]) : flatten[i][j] = seqs[a][k]
        <5>1. CASE a = i
          <6>1. k \in 1 .. Len(y) /\ Len(x) + k \in 1 .. Len(flatten[i])
            BY <4>2, <4>3, <5>1 DEF y
          <6> QED BY <4>3, <5>1, <6>1 DEF y
        <5>2. CASE a # i
          <6>1. a \in 1 .. i - 1
            BY <5>2
          <6>2. PICK j \in 1 .. Len(x) : x[j] = seqs[a][k]
            BY <4>1, <6>1 DEF x
          <6>3. j \in 1 .. Len(flatten[i]) /\ flatten[i][j] = x[j]
            BY <4>2, <4>3
          <6> QED BY <6>2, <6>3
        <5> QED BY <5>1, <5>2
      <4> QED BY <4>3, <4>4
    <3> QED BY <3>1, <3>2
  <2>7. Good(n)
    <3> HIDE DEF Good
    <3>1. 0 \in T /\ \A i \in 1 .. n : i - 1 \in T => i \in T
      BY <1>1, <2>6
    <3> HIDE DEF T
    <3>2. 0 .. n \subseteq T
      BY <3>1, UpTo
    <3>3. n \in 0 .. n
      OBVIOUS
    <3> QED BY <1>3, <3>2, <3>3 DEF T
  <2> QED BY <1>n, <2>1, <2>7
<1> QED BY <1>2, <1>3

LEMMA SslLists ==
    /\ Len(SslTargets) \in Nat
    /\ Len(SslPorts) \in Nat /\ 1 \in 1 .. Len(SslPorts) /\ DOMAIN SslPorts = 1 .. Len(SslPorts)
    /\ \A q \in 1 .. Len(SslPorts) : SslPorts[q] \in Nat
    /\ Len(SslVersions) \in Nat /\ \A v \in 1 .. Len(SslVersions) : SslVersions[v] \in Nat
<1>1. Len(SslTargets) \in Nat
  BY ListsAssumption, LenProperties
<1>2. SslPorts \in Seq(Nat) /\ SslPorts # <<>> /\ SslVersions \in Seq(Nat)
  BY ListsAssumption
<1>3. Len(SslPorts) \in Nat \ {0}
  BY <1>2, EmptySeq
<1>4. DOMAIN SslPorts = 1 .. Len(SslPorts)
  BY <1>2, LenProperties
<1>5. \A q \in 1 .. Len(SslPorts) : SslPorts[q] \in Nat
  BY <1>2
<1>6. Len(SslVersions) \in Nat /\ \A v \in 1 .. Len(SslVersions) : SslVersions[v] \in Nat
  BY <1>2
<1> QED BY <1>1, <1>3, <1>4, <1>5, <1>6

\* The entries of the list.
SslJob == [target : Ssl!TargetIds, port : Nat, kind : {"primary", "version", "variance"},
           version : Nat]

LEMMA JobsOfPortListed ==
    ASSUME NEW t \in Ssl!TargetIds, NEW p \in Nat
    PROVE  /\ Ssl!JobsOfPort(t, p) \in Seq(SslJob) /\ 1 \in 1 .. Len(Ssl!JobsOfPort(t, p))
           /\ Ssl!JobsOfPort(t, p)[1] = [target |-> t, port |-> p, kind |-> "primary", version |-> 0]
<1> DEFINE primary == <<[target |-> t, port |-> p, kind |-> "primary", version |-> 0]>>
           forced == [v \in 1 .. Len(SslVersions) |->
                        [target |-> t, port |-> p, kind |-> "version", version |-> SslVersions[v]]]
<1>1. primary \in Seq(SslJob) /\ Len(primary) = 1
      /\ primary[1] = [target |-> t, port |-> p, kind |-> "primary", version |-> 0]
  BY DEF SslJob
<1>2. forced \in Seq(SslJob)
  <2>1. Len(SslVersions) \in Nat /\ \A v \in 1 .. Len(SslVersions) : SslVersions[v] \in Nat
    BY SslLists
  <2>2. \A v \in 1 .. Len(SslVersions) :
          [target |-> t, port |-> p, kind |-> "version", version |-> SslVersions[v]] \in SslJob
    BY <2>1 DEF SslJob
  <2> QED BY <2>1, <2>2
<1>3. Ssl!JobsOfPort(t, p) = primary \o forced
  BY DEF Ssl!JobsOfPort
<1> HIDE DEF primary, forced
<1>4. /\ primary \o forced \in Seq(SslJob) /\ Len(primary \o forced) = 1 + Len(forced)
      /\ Len(forced) \in Nat /\ \A i \in 1 .. Len(primary) : (primary \o forced)[i] = primary[i]
  <2>1. /\ primary \o forced \in Seq(SslJob) /\ Len(primary \o forced) = Len(primary) + Len(forced)
        /\ \A i \in 1 .. Len(primary) + Len(forced) : (primary \o forced)[i] =
              IF i <= Len(primary) THEN primary[i] ELSE forced[i - Len(primary)]
    BY <1>1, <1>2, ConcatProperties
  <2>2. Len(forced) \in Nat
    BY <1>2, LenProperties
  <2> QED BY <1>1, <2>1, <2>2
<1>5. 1 \in 1 .. Len(primary) /\ 1 \in 1 .. Len(primary \o forced)
  BY <1>1, <1>4
<1> QED BY <1>1, <1>3, <1>4, <1>5

\* Every port of a target has its primary handshake.
LEMMA JobsOfTargetListed ==
    ASSUME NEW t \in Ssl!TargetIds
    PROVE  /\ Ssl!JobsOfTarget(t) \in Seq(SslJob)
           /\ \A q \in 1 .. Len(SslPorts) : \E j \in 1 .. Len(Ssl!JobsOfTarget(t)) :
                Ssl!JobsOfTarget(t)[j]
                  = [target |-> t, port |-> SslPorts[q], kind |-> "primary", version |-> 0]
<1> DEFINE ofPorts == [p \in 1 .. Len(SslPorts) |-> Ssl!JobsOfPort(t, SslPorts[p])]
           variance == IF SslTargets[t].name = "" THEN <<>>
                       ELSE <<[target |-> t, port |-> SslPorts[1], kind |-> "variance",
                               version |-> 0]>>
           x == Ssl!FlattenSeq(ofPorts)
<1>1. Ssl!JobsOfTarget(t) = x \o variance
  BY DEF Ssl!JobsOfTarget
<1>2. /\ Len(SslPorts) \in Nat /\ \A q \in 1 .. Len(SslPorts) : SslPorts[q] \in Nat
      /\ 1 \in 1 .. Len(SslPorts) /\ SslPorts[1] \in Nat
  BY SslLists
<1>3. /\ ofPorts \in Seq(Seq(SslJob)) /\ Len(ofPorts) = Len(SslPorts)
      /\ \A q \in 1 .. Len(SslPorts) : ofPorts[q] = Ssl!JobsOfPort(t, SslPorts[q])
  <2>1. \A q \in 1 .. Len(SslPorts) : Ssl!JobsOfPort(t, SslPorts[q]) \in Seq(SslJob)
    BY <1>2, JobsOfPortListed
  <2> QED BY <1>2, <2>1
<1>4. variance \in Seq(SslJob)
  <2>1. [target |-> t, port |-> SslPorts[1], kind |-> "variance", version |-> 0] \in SslJob
    BY <1>2 DEF SslJob
  <2>2. <<[target |-> t, port |-> SslPorts[1], kind |-> "variance", version |-> 0]>> \in Seq(SslJob)
    BY <2>1
  <2>3. <<>> \in Seq(SslJob)
    OBVIOUS
  <2> QED BY <2>2, <2>3
<1> HIDE DEF ofPorts, variance
<1>5. /\ x \in Seq(SslJob)
      /\ \A i \in 1 .. Len(ofPorts) : \A k \in 1 .. Len(ofPorts[i]) :
           \E j \in 1 .. Len(x) : x[j] = ofPorts[i][k]
  BY <1>3, FlatListed
<1> HIDE DEF x
<1>6. /\ x \o variance \in Seq(SslJob) /\ Len(x \o variance) = Len(x) + Len(variance)
      /\ Len(x) \in Nat /\ Len(variance) \in Nat
      /\ \A i \in 1 .. Len(x) : (x \o variance)[i] = x[i]
  <2>1. /\ x \o variance \in Seq(SslJob) /\ Len(x \o variance) = Len(x) + Len(variance)
        /\ \A i \in 1 .. Len(x) + Len(variance) : (x \o variance)[i] =
              IF i <= Len(x) THEN x[i] ELSE variance[i - Len(x)]
    BY <1>4, <1>5, ConcatProperties
  <2>2. Len(x) \in Nat /\ Len(variance) \in Nat
    BY <1>4, <1>5, LenProperties
  <2> QED BY <2>1, <2>2
<1>7. ASSUME NEW q \in 1 .. Len(SslPorts)
      PROVE  \E j \in 1 .. Len(x \o variance) :
               (x \o variance)[j]
                 = [target |-> t, port |-> SslPorts[q], kind |-> "primary", version |-> 0]
  <2>1. /\ 1 \in 1 .. Len(ofPorts[q]) /\ q \in 1 .. Len(ofPorts)
        /\ ofPorts[q][1] = [target |-> t, port |-> SslPorts[q], kind |-> "primary", version |-> 0]
    BY <1>2, <1>3, JobsOfPortListed
  <2>2. PICK j \in 1 .. Len(x) : x[j] = ofPorts[q][1]
    BY <1>5, <2>1
  <2>3. j \in 1 .. Len(x \o variance)
    BY <1>6
  <2> QED BY <1>6, <2>1, <2>2, <2>3
<1> QED BY <1>1, <1>6, <1>7

LEMMA JobListed ==
    /\ Ssl!JobList \in Seq(SslJob)
    /\ \A t \in Ssl!TargetIds : \A p \in Ssl!PortSet : Ssl!Good(t) =>
         \E j \in Ssl!JobIds :
            Ssl!JobList[j] = [target |-> t, port |-> p, kind |-> "primary", version |-> 0]
<1> DEFINE ofTargets == [t \in 1 .. Len(SslTargets) |->
                           IF SslTargets[t].family = "bad" THEN <<>> ELSE Ssl!JobsOfTarget(t)]
<1>1. Ssl!JobList = Ssl!FlattenSeq(ofTargets)
  BY DEF Ssl!JobList
<1>2. /\ ofTargets \in Seq(Seq(SslJob)) /\ Len(ofTargets) = Len(SslTargets)
      /\ \A t \in Ssl!TargetIds : Ssl!Good(t) => ofTargets[t] = Ssl!JobsOfTarget(t)
  <2>1. Len(SslTargets) \in Nat
    BY SslLists
  <2>2. \A t \in 1 .. Len(SslTargets) : Ssl!JobsOfTarget(t) \in Seq(SslJob)
    BY JobsOfTargetListed DEF Ssl!TargetIds
  <2> QED BY <2>1, <2>2 DEF Ssl!TargetIds, Ssl!Good
<1> HIDE DEF ofTargets
<1>3. /\ Ssl!JobList \in Seq(SslJob)
      /\ \A i \in 1 .. Len(ofTargets) : \A k \in 1 .. Len(ofTargets[i]) :
           \E j \in 1 .. Len(Ssl!JobList) : Ssl!JobList[j] = ofTargets[i][k]
  <2> DEFINE x == Ssl!FlattenSeq(ofTargets)
  <2>1. /\ x \in Seq(SslJob)
        /\ \A i \in 1 .. Len(ofTargets) : \A k \in 1 .. Len(ofTargets[i]) :
             \E j \in 1 .. Len(x) : x[j] = ofTargets[i][k]
    BY <1>2, FlatListed
  <2>2. x = Ssl!JobList
    BY <1>1
  <2> HIDE DEF x
  <2> QED BY <2>1, <2>2
<1>4. ASSUME NEW t \in Ssl!TargetIds, NEW p \in Ssl!PortSet, Ssl!Good(t)
      PROVE  \E j \in Ssl!JobIds :
               Ssl!JobList[j] = [target |-> t, port |-> p, kind |-> "primary", version |-> 0]
  <2>1. PICK q \in 1 .. Len(SslPorts) : SslPorts[q] = p
    BY SslLists DEF Ssl!PortSet, Ssl!ToSet
  <2>2. PICK k \in 1 .. Len(Ssl!JobsOfTarget(t)) :
          Ssl!JobsOfTarget(t)[k]
            = [target |-> t, port |-> p, kind |-> "primary", version |-> 0]
    BY <2>1, JobsOfTargetListed
  <2>3. t \in 1 .. Len(ofTargets) /\ ofTargets[t] = Ssl!JobsOfTarget(t)
    BY <1>2, <1>4 DEF Ssl!TargetIds
  <2> QED BY <1>3, <2>2, <2>3 DEF Ssl!JobIds
<1> QED BY <1>3, <1>4

\* The jobs before the next one are under way or have their verdict, and the engine does
\* not wait with nothing under way while there are jobs.
SslInv ==
    /\ sslPc \in {"launch", "run", "done"} /\ sslNext \in Nat \ {0}
    /\ DOMAIN flat = Ssl!JobIds /\ Ssl!Busy \subseteq Ssl!JobIds
    /\ \A j \in Ssl!JobIds : j < sslNext => j \in Ssl!Busy \/ flat[j] # Ssl!Unattempted
    /\ sslPc = "run" => sslNext > Len(Ssl!JobList) \/ Ssl!Busy # {}
    /\ Ssl!EveryHandshakeTried

LEMMA SslStarts == Ssl!SslInit => SslInv
BY DEF Ssl!SslInit, SslInv, Ssl!Busy, Ssl!EveryHandshakeTried, Ssl!SslOver, Ssl!JobIds

LEMMA SslUntouched == SslInv /\ UNCHANGED sslVars => SslInv'
BY DEF SslInv, sslVars, Ssl!Busy, Ssl!EveryHandshakeTried, Ssl!SslOver

LEMMA SslStep == ASSUME SslInv, Ssl!SslNext PROVE SslInv'
<1>1. /\ sslNext \in Nat \ {0} /\ DOMAIN flat = Ssl!JobIds /\ Ssl!Busy \subseteq Ssl!JobIds
      /\ Len(Ssl!JobList) \in Nat /\ Ssl!JobIds = 1 .. Len(Ssl!JobList)
  BY JobListed, LenProperties DEF SslInv, Ssl!JobIds
<1>2. Ssl!Unattempted # Ssl!Failed /\ Ssl!Unattempted \notin Certs
  BY ListsAssumption DEF Ssl!Unattempted, Ssl!Failed
<1>3. ASSUME sslPc = "run", NEW j \in Ssl!Busy, NEW ended, ended # Ssl!Unattempted,
             Ssl!SslFinish(j, ended)
      PROVE  SslInv'
  <2>1. /\ flat' = [flat EXCEPT ![j] = ended] /\ Ssl!Busy' = Ssl!Busy \ {j}
        /\ sslPc' = "launch" /\ sslNext' = sslNext
    BY <1>3 DEF Ssl!SslFinish, Ssl!Busy
  <2>2. \A k \in Ssl!JobIds : k < sslNext' => k \in Ssl!Busy' \/ flat'[k] # Ssl!Unattempted
    BY <1>1, <1>3, <2>1 DEF SslInv
  <2> QED BY <1>1, <2>1, <2>2 DEF SslInv, Ssl!EveryHandshakeTried, Ssl!SslOver
<1>4. CASE Ssl!SslLaunch
  <2>1. /\ sslPc = "launch" /\ sslNext <= Len(Ssl!JobList) /\ sslPc' = sslPc
        /\ Ssl!Busy' = Ssl!Busy \cup {sslNext} /\ sslNext' = sslNext + 1 /\ flat' = flat
    BY <1>4 DEF Ssl!SslLaunch, Ssl!CanLaunch, Ssl!Busy
  <2>2. \A k \in Ssl!JobIds : k < sslNext' => k \in Ssl!Busy' \/ flat'[k] # Ssl!Unattempted
    BY <1>1, <2>1 DEF SslInv
  <2> QED BY <1>1, <2>1, <2>2 DEF SslInv, Ssl!EveryHandshakeTried, Ssl!SslOver
<1>5. CASE Ssl!SslLaunchFails
  <2>1. /\ sslPc = "launch" /\ sslNext <= Len(Ssl!JobList) /\ sslPc' = sslPc
        /\ Ssl!Busy' = Ssl!Busy /\ sslNext' = sslNext + 1
        /\ flat' = [flat EXCEPT ![sslNext] = Ssl!Failed]
    BY <1>5 DEF Ssl!SslLaunchFails, Ssl!CanLaunch, Ssl!Busy
  <2>2. \A k \in Ssl!JobIds : k < sslNext' => k \in Ssl!Busy' \/ flat'[k] # Ssl!Unattempted
    BY <1>1, <1>2, <2>1 DEF SslInv
  <2> QED BY <1>1, <2>1, <2>2 DEF SslInv, Ssl!EveryHandshakeTried, Ssl!SslOver
<1>6. CASE Ssl!SslFull
  <2>1. /\ sslPc = "launch" /\ sslPc' = "run" /\ Ssl!Busy' = Ssl!Busy
        /\ sslNext' = sslNext /\ flat' = flat /\ ~ Ssl!CanLaunch
    BY <1>6 DEF Ssl!SslFull, Ssl!Busy
  <2>2. sslNext > Len(Ssl!JobList) \/ Ssl!Busy # {}
    <3>1. Ssl!Cardinality({}) = 0 /\ SslConcurrency \in Nat \ {0}
      BY FS_EmptySet, ListsAssumption, SslCardinality
    <3>2. sslNext > Len(Ssl!JobList) \/ ~ (Ssl!Cardinality(Ssl!Busy) < SslConcurrency)
      BY <1>1, <2>1 DEF Ssl!CanLaunch
    <3> QED BY <3>1, <3>2
  <2> QED BY <1>1, <2>1, <2>2 DEF SslInv, Ssl!EveryHandshakeTried, Ssl!SslOver
<1>7. CASE Ssl!SslProgress
  <2>1. /\ sslPc = "run" /\ sslPc' = sslPc /\ Ssl!Busy' = Ssl!Busy
        /\ sslNext' = sslNext /\ flat' = flat
    BY <1>7 DEF Ssl!SslProgress, Ssl!Busy
  <2> QED BY <2>1 DEF SslInv, Ssl!EveryHandshakeTried, Ssl!SslOver
<1>8. CASE Ssl!SslSuccess
  <2>1. PICK j \in Ssl!Busy, c \in Certs : Ssl!SslFinish(j, c) /\ sslPc = "run"
    BY <1>8 DEF Ssl!SslSuccess
  <2> QED BY <1>2, <1>3, <2>1
<1>9. CASE Ssl!SslError
  <2>1. PICK j \in Ssl!Busy : Ssl!SslFinish(j, Ssl!Failed) /\ sslPc = "run"
    BY <1>9 DEF Ssl!SslError
  <2> QED BY <1>2, <1>3, <2>1
<1>10. CASE Ssl!SslMerge
  <2>1. /\ sslPc = "run" /\ Ssl!Busy = {} /\ sslPc' = "done" /\ Ssl!Busy' = {}
        /\ sslNext' = sslNext /\ flat' = flat
    BY <1>10 DEF Ssl!SslMerge, Ssl!Busy
  <2>2. \A j \in Ssl!JobIds : flat[j] # Ssl!Unattempted
    BY <1>1, <2>1 DEF SslInv
  <2>3. ASSUME NEW t \in Ssl!TargetIds, NEW p \in Ssl!PortSet
        PROVE  handshakes'[t][p].cert # Ssl!Unattempted
    <3>1. handshakes'[t][p].cert
            = IF Ssl!Good(t) THEN Ssl!Result(t, p, "primary", 0) ELSE Ssl!Failed
      BY <1>10 DEF Ssl!SslMerge
    <3>2. CASE Ssl!Good(t)
      <4>1. \E j \in Ssl!JobIds :
              Ssl!JobList[j] = [target |-> t, port |-> p, kind |-> "primary", version |-> 0]
        BY <3>2, JobListed
      <4> QED BY <2>2, <3>1, <3>2, <4>1 DEF Ssl!Result
    <3>3. CASE ~ Ssl!Good(t)
      BY <1>2, <3>1, <3>3
    <3> QED BY <3>2, <3>3
  <2>4. Ssl!EveryHandshakeTried'
    BY <2>1, <2>2, <2>3 DEF Ssl!EveryHandshakeTried
  <2> QED BY <1>1, <2>1, <2>2, <2>4 DEF SslInv
<1> QED BY <1>4, <1>5, <1>6, <1>7, <1>8, <1>9, <1>10 DEF Ssl!SslNext

-----------------------------------------------------------------------------
(***************************************************************************)
(* run_version_probe: the probes, and when the port had no answer.         *)
(***************************************************************************)
ProbeKind == [name : STRING, null : BOOLEAN, http : BOOLEAN, explicit : BOOLEAN]

\* The probes of a kind are a list.
LEMMA ThoseListed == \A S : Sv!Those(S) \in Seq(ProbeKind)
<1> SUFFICES ASSUME NEW S PROVE Sv!Those(S) \in Seq(ProbeKind)
  OBVIOUS
<1>n. PICK n \in Nat : n = Len(ProbeList)
  BY ListsAssumption, LenProperties
<1> DEFINE X == Seq(ProbeKind)
           pick[i \in 0 .. n] ==
             IF i = 0 THEN <<>>
             ELSE IF ProbeList[i] \in S THEN Append(pick[i - 1], ProbeList[i])
             ELSE pick[i - 1]
           step == [i \in 1 .. n |-> [x \in X |-> IF ProbeList[i] \in S
                                                    THEN Append(x, ProbeList[i]) ELSE x]]
           Solves(f) == f = [i \in 0 .. n |->
                               IF i = 0 THEN <<>>
                               ELSE IF ProbeList[i] \in S THEN Append(f[i - 1], ProbeList[i])
                               ELSE f[i - 1]]
<1>1. Sv!Those(S) = pick[n]
  BY <1>n DEF Sv!Those
<1>2. \A i \in 1 .. n : ProbeList[i] \in ProbeKind
  BY <1>n, ListsAssumption, LenProperties DEF ProbeKind
<1>3. step \in [1 .. n -> [X -> X]] /\ <<>> \in X
  <2>1. ASSUME NEW i \in 1 .. n, NEW x \in X
        PROVE  (IF ProbeList[i] \in S THEN Append(x, ProbeList[i]) ELSE x) \in X
    BY <1>2, AppendProperties
  <2> QED BY <2>1
<1>4. \A i \in 1 .. n, x \in X :
        step[i][x] = IF ProbeList[i] \in S THEN Append(x, ProbeList[i]) ELSE x
  OBVIOUS
<1> HIDE DEF step, X
<1>5. PICK f : LoopOf(f, n, X, <<>>, step)
  <2>1. step \in [1 .. n -> [X -> X]]
    BY <1>3
  <2>2. <<>> \in X
    BY <1>3
  <2> QED BY <2>1, <2>2, LoopExists
<1>6. f \in [0 .. n -> X] /\ f[0] = <<>> /\ \A i \in 1 .. n : f[i] = step[i][f[i - 1]]
  BY <1>5 DEF LoopOf
<1>7. ASSUME NEW i \in 0 .. n
      PROVE  f[i] = IF i = 0 THEN <<>>
                    ELSE IF ProbeList[i] \in S THEN Append(f[i - 1], ProbeList[i])
                    ELSE f[i - 1]
  <2>1. CASE i = 0
    BY <1>6, <2>1
  <2>2. CASE i # 0
    <3>1. i \in 1 .. n /\ i - 1 \in 0 .. n
      BY <2>2
    <3>2. f[i - 1] \in X
      BY <1>6, <3>1
    <3> QED BY <1>4, <1>6, <2>2, <3>1, <3>2
  <2> QED BY <2>1, <2>2
<1>8. Solves(f)
  <2>1. f = [i \in 0 .. n |-> f[i]]
    BY <1>6
  <2> QED BY <1>7, <2>1
<1>9. pick = CHOOSE g : Solves(g)
  OBVIOUS
<1> HIDE DEF Solves, pick
<1>10. Solves(pick)
  BY <1>8, <1>9
<1>11. /\ pick[0] = <<>>
       /\ \A i \in 1 .. n : pick[i] = IF ProbeList[i] \in S THEN Append(pick[i - 1], ProbeList[i])
                                      ELSE pick[i - 1]
  <2>1. pick = [i \in 0 .. n |->
                  IF i = 0 THEN <<>>
                  ELSE IF ProbeList[i] \in S THEN Append(pick[i - 1], ProbeList[i])
                  ELSE pick[i - 1]]
    BY <1>10 DEF Solves
  <2>2. ASSUME NEW i \in 0 .. n
        PROVE  pick[i] = IF i = 0 THEN <<>>
                         ELSE IF ProbeList[i] \in S THEN Append(pick[i - 1], ProbeList[i])
                         ELSE pick[i - 1]
    BY <2>1, Zenon
  <2>3. 0 \in 0 .. n /\ \A i \in 1 .. n : i \in 0 .. n /\ i # 0
    OBVIOUS
  <2> QED BY <2>2, <2>3, Zenon
<1> DEFINE T == {i \in 0 .. n : pick[i] \in X}
<1>12. 0 \in T /\ \A i \in 1 .. n : i - 1 \in T => i \in T
  <2>1. ASSUME NEW i \in 1 .. n, pick[i - 1] \in X PROVE pick[i] \in X
    <3>1. CASE ProbeList[i] \in S
      <4>1. pick[i] = Append(pick[i - 1], ProbeList[i])
        BY <1>11, <3>1
      <4>2. pick[i - 1] \in Seq(ProbeKind) /\ ProbeList[i] \in ProbeKind
        BY <1>2, <2>1 DEF X
      <4>3. Append(pick[i - 1], ProbeList[i]) \in Seq(ProbeKind)
        BY <4>2, AppendProperties
      <4> QED BY <4>1, <4>3 DEF X
    <3>2. CASE ProbeList[i] \notin S
      BY <1>11, <2>1, <3>2
    <3> QED BY <3>1, <3>2
  <2> QED BY <1>3, <1>11, <2>1
<1> HIDE DEF T
<1>13. 0 .. n \subseteq T
  BY <1>12, UpTo
<1>14. n \in 0 .. n
  OBVIOUS
<1> QED BY <1>1, <1>13, <1>14 DEF T, X

LEMMA PlanListed == Sv!Plan \in Seq(ProbeKind) /\ Len(Sv!Plan) \in Nat
<1> DEFINE all == Sv!ToSet(ProbeList)
           a == Sv!Those({p \in all : p.null})
           b == Sv!Those({p \in all : ~p.null /\ p.explicit})
           c == Sv!Those({p \in all : ~p.null /\ ~p.explicit})
<1>1. Sv!Plan = a \o b \o c
  BY DEF Sv!Plan
<1>2. a \in Seq(ProbeKind) /\ b \in Seq(ProbeKind) /\ c \in Seq(ProbeKind)
  BY ThoseListed
<1> HIDE DEF a, b, c
<1>3. a \o b \in Seq(ProbeKind)
  BY <1>2, ConcatProperties
<1>4. a \o b \o c \in Seq(ProbeKind)
  BY <1>2, <1>3, ConcatProperties
<1> QED BY <1>1, <1>4, LenProperties

PlanNames == [i \in 1 .. Len(Sv!Plan) |-> Sv!Plan[i].name]
ProbeNames == {Sv!Plan[i].name : i \in 1 .. Len(Sv!Plan)}
Planned == {"auto", "sslports"}
NoService == {"no response", "tcpwrapped"}

\* Every probe was sent and had no answer, and the fallbacks had none.
AllTried == Len(sent) = Len(Sv!Plan) /\ label = "none"

\* The probes sent are the first ones of the plan, up to the one in hand.
SentInOrder ==
    /\ probeIdx \in Nat \ {0} /\ sent \in Seq(ProbeNames) /\ Len(sent) \in 0 .. Len(Sv!Plan)
    /\ \A i \in 1 .. Len(sent) : sent[i] = PlanNames[i]
    /\ vpPc = "start" => sent = <<>> /\ probeIdx = 1
    /\ vpPc = "probe" => Len(sent) = probeIdx - 1
    /\ vpPc \in {"next", "judge"} => Len(sent) = probeIdx
    /\ vpPc \in {"fallbackTls", "fallback443"} => Len(sent) = Len(Sv!Plan)

\* An answer under consideration is one, and an empty response means that everything was
\* tried.
AnswersKept ==
    /\ vpPc \in {"judge", "hostretry", "follow", "twin"} => cur.kind # "none"
    /\ vpPc = "captured" /\ mode \in Planned /\ resp.kind = "none" => stopProbe \/ AllTried
    /\ vpPc # "done" => verdict = ""
    /\ verdict \in NoService /\ mode \in Planned => stopProbe \/ AllTried

ProbeInv == SentInOrder /\ AnswersKept /\ stopProbe \in BOOLEAN

LEMMA PlanSame ==
    Sv!Plan' = Sv!Plan /\ PlanNames' = PlanNames /\ ProbeNames' = ProbeNames
BY DEF PlanNames, ProbeNames

LEMMA ProbeStarts == Sv!VersionInit => ProbeInv
<1> SUFFICES ASSUME Sv!VersionInit PROVE ProbeInv
  OBVIOUS
<1>1. Len(Sv!Plan) \in Nat
  BY PlanListed
<1>2. SentInOrder
  <2>1. sent = <<>> /\ probeIdx = 1 /\ vpPc = "start"
    BY DEF Sv!VersionInit
  <2>2. sent \in Seq(ProbeNames) /\ Len(sent) = 0
    BY <2>1
  <2> QED BY <1>1, <2>1, <2>2 DEF SentInOrder
<1>3. AnswersKept /\ stopProbe \in BOOLEAN
  BY DEF Sv!VersionInit, AnswersKept, NoService
<1> QED BY <1>2, <1>3 DEF ProbeInv

LEMMA ProbeUntouched == ASSUME ProbeInv, UNCHANGED versionVars PROVE ProbeInv'
<1>1. SentInOrder'
  BY PlanSame DEF ProbeInv, SentInOrder, versionVars
<1>2. AnswersKept' /\ stopProbe' \in BOOLEAN
  BY PlanSame DEF ProbeInv, AnswersKept, AllTried, versionVars
<1> QED BY <1>1, <1>2 DEF ProbeInv

\* A capture is taken, followed or tried over TLS; nothing of the plan changes.
LEMMA CaptureJudged ==
    ASSUME ProbeInv, vpPc \notin {"done", "captured"},
           UNCHANGED <<mode, probeIdx, sent, verdict, stopProbe>>,
           \/ vpPc' \in {"follow", "twin", "hostretry"} /\ cur'.kind # "none"
           \/ vpPc' = "captured" /\ (mode \in Planned /\ resp'.kind = "none" =>
                                       stopProbe \/ (Len(sent) = Len(Sv!Plan) /\ label' = "none"))
           \/ vpPc' \in {"next", "judge"} /\ vpPc \in {"next", "judge"}
                /\ (vpPc' = "judge" => cur'.kind # "none")
           \/ vpPc' \in {"fallbackTls", "fallback443"} /\ Len(sent) = Len(Sv!Plan)
           \/ vpPc' = "thrown"
    PROVE  ProbeInv'
<1>1. Sv!Plan' = Sv!Plan /\ PlanNames' = PlanNames
  BY PlanSame
<1>2. verdict = "" /\ verdict' = ""
  BY DEF ProbeInv, AnswersKept
<1>3. SentInOrder'
  BY <1>1, PlanSame DEF ProbeInv, SentInOrder
<1>4. AnswersKept' /\ stopProbe' \in BOOLEAN
  BY <1>1, <1>2 DEF ProbeInv, AnswersKept, NoService, AllTried
<1> QED BY <1>3, <1>4 DEF ProbeInv

LEMMA ProbeStep == ASSUME ProbeInv, Sv!VersionNext PROVE ProbeInv'
<1> USE DEF Sv!probing, Sv!Done, Sv!idle
<1>0. Len(Sv!Plan) \in Nat /\ Len(sent) \in Nat /\ probeIdx \in Nat \ {0}
  BY PlanListed DEF ProbeInv, SentInOrder
<1>1. \A via : \A r \in Sv!CaptureOver(via) : r.kind \in Sv!Plain
  BY DEF Sv!CaptureOver, Sv!Tls
<1>2. CASE Sv!CaptureDirect \/ Sv!CaptureMqtt
  <2>1. /\ vpPc = "start" /\ mode \notin Planned /\ vpPc' \in {"captured", "thrown"}
        /\ UNCHANGED <<mode, probeIdx, sent, verdict, stopProbe>>
    BY <1>2 DEF Sv!CaptureDirect, Sv!CaptureMqtt, Sv!Take, Planned
  <2> QED BY <2>1, CaptureJudged
<1>3. CASE Sv!CaptureHttp \/ Sv!CaptureHttps
  <2>1. /\ vpPc = "start" /\ mode \notin Planned
        /\ UNCHANGED <<mode, probeIdx, sent, verdict, stopProbe>>
        /\ \/ vpPc' \in {"follow", "twin"} /\ cur'.kind # "none"
           \/ vpPc' = "captured"
    BY <1>3 DEF Sv!CaptureHttp, Sv!CaptureHttps, Sv!Take, Sv!Twin, Sv!Follow, Planned,
         Sv!Client4xx
  <2> QED BY <2>1, CaptureJudged
<1>4. CASE Sv!PlanProbes
  <2>1. /\ vpPc = "start" /\ vpPc' = "probe"
        /\ UNCHANGED <<mode, probeIdx, sent, verdict, stopProbe>>
    BY <1>4 DEF Sv!PlanProbes
  <2>2. SentInOrder'
    BY <1>0, <2>1, PlanSame DEF ProbeInv, SentInOrder
  <2>3. AnswersKept' /\ stopProbe' \in BOOLEAN
    BY <2>1 DEF ProbeInv, AnswersKept, NoService
  <2> QED BY <2>2, <2>3 DEF ProbeInv
<1>5. CASE Sv!SendProbe
  <2>1. /\ vpPc = "probe" /\ probeIdx <= Len(Sv!Plan) /\ sent' = Append(sent, Sv!Plan[probeIdx].name)
        /\ vpPc' \in {"next", "judge"} /\ (vpPc' = "judge" => cur'.kind # "none")
        /\ UNCHANGED <<mode, probeIdx, verdict, stopProbe, label>>
    BY <1>5 DEF Sv!SendProbe, Sv!Sending, Sv!Probe, Sv!Empty
  <2>2. /\ Len(sent) = probeIdx - 1 /\ sent \in Seq(ProbeNames)
        /\ \A i \in 1 .. Len(sent) : sent[i] = PlanNames[i]
    BY <2>1 DEF ProbeInv, SentInOrder
  <2>3. probeIdx \in 1 .. Len(Sv!Plan)
    BY <1>0, <2>1
  <2>4. Sv!Plan[probeIdx].name \in ProbeNames /\ PlanNames[probeIdx] = Sv!Plan[probeIdx].name
    BY <2>3 DEF ProbeNames, PlanNames
  <2>5. /\ sent' \in Seq(ProbeNames) /\ Len(sent') = Len(sent) + 1
        /\ \A i \in 1 .. Len(sent) : sent'[i] = sent[i]
        /\ sent'[Len(sent) + 1] = Sv!Plan[probeIdx].name
    BY <2>1, <2>2, <2>4, AppendProperties
  <2>6. Len(sent') = probeIdx
    BY <1>0, <2>2, <2>5
  <2>7. \A i \in 1 .. Len(sent') : sent'[i] = PlanNames[i]
    <3> SUFFICES ASSUME NEW i \in 1 .. probeIdx PROVE sent'[i] = PlanNames[i]
      BY <2>6
    <3>1. i \in 1 .. Len(sent) \/ i = Len(sent) + 1
      BY <1>0, <2>2
    <3> QED BY <1>0, <2>2, <2>4, <2>5, <3>1
  <2>8. SentInOrder'
    BY <1>0, <2>1, <2>3, <2>5, <2>6, <2>7, PlanSame DEF SentInOrder
  <2>9. AnswersKept' /\ stopProbe' \in BOOLEAN
    BY <2>1 DEF ProbeInv, AnswersKept, NoService
  <2> QED BY <2>8, <2>9 DEF ProbeInv
<1>6. CASE Sv!NextProbe
  <2>1. /\ vpPc = "next" /\ vpPc' = "probe" /\ probeIdx' = probeIdx + 1
        /\ UNCHANGED <<mode, sent, verdict, stopProbe, label>>
    BY <1>6 DEF Sv!NextProbe
  <2>2. SentInOrder'
    BY <1>0, <2>1, PlanSame DEF ProbeInv, SentInOrder
  <2>3. AnswersKept' /\ stopProbe' \in BOOLEAN
    BY <2>1 DEF ProbeInv, AnswersKept, NoService
  <2> QED BY <2>2, <2>3 DEF ProbeInv
<1>7. CASE Sv!SwitchToSsl
  <2>1. /\ vpPc = "judge" /\ vpPc' \in {"next", "judge"} /\ (vpPc' = "judge" => cur'.kind # "none")
        /\ UNCHANGED <<mode, probeIdx, sent, verdict, stopProbe>>
    BY <1>7 DEF Sv!SwitchToSsl, Sv!Empty
  <2> QED BY <2>1, CaptureJudged
<1>8. CASE Sv!JudgeNull
  <2>1. /\ vpPc = "judge" /\ vpPc' = "next" /\ UNCHANGED <<mode, probeIdx, sent, verdict, stopProbe>>
    BY <1>8 DEF Sv!JudgeNull, Sv!Judged
  <2> QED BY <2>1, CaptureJudged
<1>9. CASE \/ Sv!JudgePrinter \/ Sv!JudgeGetInstead \/ Sv!JudgeTwin \/ Sv!HostRetryPlain \/ Sv!HostRetrySsl
           \/ Sv!JudgeRedirect \/ Sv!AcceptAnswer
  <2>1. vpPc \in {"judge", "hostretry"} /\ UNCHANGED <<mode, probeIdx, sent, verdict, stopProbe>>
    BY <1>9 DEF Sv!JudgePrinter, Sv!JudgeGetInstead, Sv!JudgeTwin, Sv!HostRetryPlain, Sv!HostRetrySsl,
         Sv!JudgeRedirect, Sv!AcceptAnswer, Sv!Judged
  <2>2. cur.kind # "none"
    BY <2>1 DEF ProbeInv, AnswersKept
  <2>3. \/ vpPc' \in {"follow", "twin"} /\ cur'.kind # "none"
        \/ vpPc' = "captured" /\ resp'.kind # "none"
    BY <1>9, <2>2 DEF Sv!JudgePrinter, Sv!JudgeGetInstead, Sv!JudgeTwin, Sv!HostRetryPlain, Sv!HostRetrySsl,
         Sv!JudgeRedirect, Sv!AcceptAnswer, Sv!Take, Sv!Twin, Sv!Follow, Sv!Empty
  <2> QED BY <2>1, <2>3, CaptureJudged
<1>10. CASE Sv!FollowHop \/ Sv!FollowEnds \/ Sv!TwinAnswers \/ Sv!TwinFails
  <2>1. vpPc \in {"follow", "twin"} /\ UNCHANGED <<mode, probeIdx, sent, verdict, stopProbe>>
    BY <1>10 DEF Sv!FollowHop, Sv!FollowEnds, Sv!TwinAnswers, Sv!TwinFails
  <2>2. cur.kind # "none"
    BY <2>1 DEF ProbeInv, AnswersKept
  <2>3. \/ vpPc' \in {"follow", "hostretry"} /\ cur'.kind # "none"
        \/ vpPc' = "captured" /\ resp'.kind # "none"
    BY <1>10, <2>2 DEF Sv!FollowHop, Sv!FollowEnds, Sv!TwinAnswers, Sv!TwinFails, Sv!Empty
  <2> QED BY <2>1, <2>3, CaptureJudged
<1>11. CASE Sv!FallbackHttp \/ Sv!FallbackTls
  <2>1. /\ vpPc \in {"probe", "fallbackTls", "fallback443"}
        /\ vpPc = "probe" => probeIdx > Len(Sv!Plan)
        /\ UNCHANGED <<mode, probeIdx, sent, verdict, stopProbe>>
    BY <1>11 DEF Sv!FallbackHttp, Sv!FallbackTls, Sv!Exhausted
  <2>2. Len(sent) = Len(Sv!Plan)
    BY <1>0, <2>1 DEF ProbeInv, SentInOrder
  <2>3. \/ vpPc' \in {"follow", "twin"} /\ cur'.kind # "none"
        \/ vpPc' = "captured" /\ (resp'.kind # "none" \/ label' = "none")
        \/ vpPc' \in {"fallbackTls", "fallback443"}
    BY <1>11 DEF Sv!FallbackHttp, Sv!FallbackTls, Sv!Take, Sv!Twin, Sv!Follow, Sv!Empty,
         Sv!Client4xx
  <2> QED BY <2>1, <2>2, <2>3, CaptureJudged
<1>12. CASE Sv!Interrupted
  <2>1. /\ vpPc = "probe" /\ stopProbe /\ vpPc' = "captured"
        /\ UNCHANGED <<mode, probeIdx, sent, verdict, stopProbe>>
    BY <1>12 DEF Sv!Interrupted
  <2>2. SentInOrder'
    BY <1>0, <2>1, PlanSame DEF ProbeInv, SentInOrder
  <2>3. stopProbe' /\ stopProbe' \in BOOLEAN
    BY <2>1 DEF ProbeInv
  <2>4. AnswersKept'
    BY <2>1, <2>3 DEF ProbeInv, AnswersKept, NoService
  <2> QED BY <2>2, <2>3, <2>4 DEF ProbeInv
<1>13. CASE Sv!PrintVerdict
  <2>1. /\ vpPc = "captured" /\ vpPc' = "done"
        /\ UNCHANGED <<mode, probeIdx, sent, stopProbe, label>>
        /\ verdict' \in NoService => resp.kind = "none"
    BY <1>13 DEF Sv!PrintVerdict, Sv!Empty, NoService
  <2>2. SentInOrder'
    BY <1>0, <2>1, PlanSame DEF ProbeInv, SentInOrder
  <2>3. AnswersKept' /\ stopProbe' \in BOOLEAN
    BY <2>1, PlanSame DEF ProbeInv, AnswersKept, AllTried
  <2> QED BY <2>2, <2>3 DEF ProbeInv
<1>14. CASE Sv!StopProbe
  <2>1. /\ stopProbe' = TRUE
        /\ UNCHANGED <<vpPc, mode, probeIdx, sent, cur, resp, label, verdict>>
    BY <1>14 DEF Sv!StopProbe
  <2>2. SentInOrder'
    BY <1>0, <2>1, PlanSame DEF ProbeInv, SentInOrder
  <2>3. AnswersKept' /\ stopProbe' \in BOOLEAN
    BY <2>1, PlanSame DEF ProbeInv, AnswersKept, AllTried
  <2> QED BY <2>2, <2>3 DEF ProbeInv
<1> QED BY <1>2, <1>3, <1>4, <1>5, <1>6, <1>7, <1>8, <1>9, <1>10, <1>11, <1>12, <1>13, <1>14
        DEF Sv!VersionNext, Sv!VersionStep

LEMMA ProbesExhaustively == ProbeInv => Sv!ProbesExhausted
<1> SUFFICES ASSUME ProbeInv PROVE Sv!ProbesExhausted
  OBVIOUS
<1>1. /\ sent \in Seq(ProbeNames) /\ Len(sent) \in 0 .. Len(Sv!Plan)
      /\ \A i \in 1 .. Len(sent) : sent[i] = PlanNames[i]
  BY DEF ProbeInv, SentInOrder
<1>2. PICK n \in Nat : n = Len(sent)
  BY <1>1, PlanListed
<1>3. PICK m \in Nat : m = Len(Sv!Plan)
  BY PlanListed
<1>4. n <= m /\ PlanNames = [i \in 1 .. m |-> Sv!Plan[i].name] /\ Len(PlanNames) = m
  BY <1>1, <1>2, <1>3 DEF PlanNames
<1>5. /\ SubSeq(sent, 1, n) = [i \in 1 .. n |-> sent[i]]
      /\ SubSeq(PlanNames, 1, n) = [i \in 1 .. n |-> PlanNames[i]]
  BY <1>2, <1>4
<1>6. SubSeq(sent, 1, n) = SubSeq(PlanNames, 1, n)
  BY <1>1, <1>2, <1>5
<1>7. Sv!IsPrefix(sent, PlanNames)
  BY <1>2, <1>4, <1>6 DEF Sv!IsPrefix
<1>8. verdict \in NoService /\ mode \in Planned => stopProbe \/ AllTried
  BY DEF ProbeInv, AnswersKept
<1> QED BY <1>7, <1>8 DEF Sv!ProbesExhausted, PlanNames, Planned, NoService, AllTried

-----------------------------------------------------------------------------
(***************************************************************************)
(* dns_query_batch: the pool of sockets, and when every query is sent.     *)
(***************************************************************************)
\* A query taken out of flight leaves the others in their order.
LEMMA WithoutProperties ==
    ASSUME NEW S, NEW s \in Seq(S), NEW i \in 1 .. Len(s)
    PROVE  /\ Dns!Without(s, i) \in Seq(S) /\ Len(Dns!Without(s, i)) = Len(s) - 1
           /\ \A k \in 1 .. Len(s) - 1 : Dns!Without(s, i)[k] = s[IF k < i THEN k ELSE k + 1]
<1>n. PICK n \in Nat : n = Len(s)
  BY LenProperties
<1> DEFINE a == SubSeq(s, 1, i - 1)
           b == SubSeq(s, i + 1, n)
<1>1. i \in Nat /\ 1 <= i /\ i <= n
  BY <1>n
<1>2. /\ a = [k \in 1 .. i - 1 |-> s[k]]
      /\ b = [k \in 1 .. n - i |-> s[k + i]]
  BY <1>1
<1>3. \A k \in 1 .. n : s[k] \in S
  BY <1>n
<1>4. a \in Seq(S) /\ Len(a) = i - 1 /\ b \in Seq(S) /\ Len(b) = n - i
  BY <1>1, <1>2, <1>3
<1>5. Dns!Without(s, i) = a \o b
  BY <1>n DEF Dns!Without
<1> HIDE DEF a, b
<1>6. /\ a \o b \in Seq(S) /\ Len(a \o b) = (i - 1) + (n - i)
      /\ \A k \in 1 .. (i - 1) + (n - i) :
            (a \o b)[k] = IF k <= i - 1 THEN a[k] ELSE b[k - (i - 1)]
  <2>1. /\ a \o b \in Seq(S) /\ Len(a \o b) = Len(a) + Len(b)
        /\ \A k \in 1 .. Len(a) + Len(b) :
              (a \o b)[k] = IF k <= Len(a) THEN a[k] ELSE b[k - Len(a)]
    BY <1>4, ConcatProperties
  <2> QED BY <1>4, <2>1, Zenon
<1>7. ASSUME NEW k \in 1 .. n - 1
      PROVE  (a \o b)[k] = s[IF k < i THEN k ELSE k + 1]
  <2>1. CASE k < i
    <3>1. k \in 1 .. i - 1 /\ k \in 1 .. (i - 1) + (n - i) /\ k <= i - 1
      BY <1>1, <2>1
    <3> QED BY <1>2, <1>6, <2>1, <3>1
  <2>2. CASE ~(k < i)
    <3>1. /\ k - (i - 1) \in 1 .. n - i /\ k \in 1 .. (i - 1) + (n - i) /\ ~(k <= i - 1)
          /\ (k - (i - 1)) + i = k + 1
      BY <1>1, <2>2
    <3>2. (a \o b)[k] = b[k - (i - 1)]
      BY <1>6, <3>1
    <3> QED BY <1>2, <2>2, <3>1, <3>2
  <2> QED BY <2>1, <2>2
<1>8. (i - 1) + (n - i) = n - 1
  BY <1>1
<1> QED BY <1>n, <1>5, <1>6, <1>7, <1>8

Different(s) == \A i, k \in 1 .. Len(s) : i # k => s[i] # s[k]

\* The jobs of the next pass are jobs of this one, each once.
LEMMA UnansweredListed ==
    ASSUME queue \in Seq(Nat), Different(queue)
    PROVE  /\ Dns!Unanswered \in Seq(Nat) /\ Len(Dns!Unanswered) <= Len(queue)
           /\ Different(Dns!Unanswered)
<1>n. PICK n \in Nat : n = Len(queue)
  BY LenProperties
<1> DEFINE X == Seq(Nat)
           pick[i \in 0 .. n] ==
             IF i = 0 THEN <<>>
             ELSE IF queue[i] \in answered THEN pick[i - 1]
             ELSE Append(pick[i - 1], queue[i])
           step == [i \in 1 .. n |-> [x \in X |-> IF queue[i] \in answered
                                                    THEN x ELSE Append(x, queue[i])]]
           Solves(f) == f = [i \in 0 .. n |->
                               IF i = 0 THEN <<>>
                               ELSE IF queue[i] \in answered THEN f[i - 1]
                               ELSE Append(f[i - 1], queue[i])]
<1>1. Dns!Unanswered = pick[n]
  BY <1>n DEF Dns!Unanswered
<1>2. \A i \in 1 .. n : queue[i] \in Nat
  BY <1>n, LenProperties
<1>3. step \in [1 .. n -> [X -> X]] /\ <<>> \in X
  <2>1. ASSUME NEW i \in 1 .. n, NEW x \in X
        PROVE  (IF queue[i] \in answered THEN x ELSE Append(x, queue[i])) \in X
    BY <1>2, AppendProperties
  <2> QED BY <2>1
<1>4. \A i \in 1 .. n, x \in X :
        step[i][x] = IF queue[i] \in answered THEN x ELSE Append(x, queue[i])
  OBVIOUS
<1> HIDE DEF step, X
<1>5. PICK f : LoopOf(f, n, X, <<>>, step)
  <2>1. step \in [1 .. n -> [X -> X]]
    BY <1>3
  <2>2. <<>> \in X
    BY <1>3
  <2> QED BY <2>1, <2>2, LoopExists
<1>6. f \in [0 .. n -> X] /\ f[0] = <<>> /\ \A i \in 1 .. n : f[i] = step[i][f[i - 1]]
  BY <1>5 DEF LoopOf
<1>7. ASSUME NEW i \in 0 .. n
      PROVE  f[i] = IF i = 0 THEN <<>>
                    ELSE IF queue[i] \in answered THEN f[i - 1]
                    ELSE Append(f[i - 1], queue[i])
  <2>1. CASE i = 0
    BY <1>6, <2>1
  <2>2. CASE i # 0
    <3>1. i \in 1 .. n /\ i - 1 \in 0 .. n
      BY <2>2
    <3>2. f[i - 1] \in X
      BY <1>6, <3>1
    <3> QED BY <1>4, <1>6, <2>2, <3>1, <3>2
  <2> QED BY <2>1, <2>2
<1>8. Solves(f)
  <2>1. f = [i \in 0 .. n |-> f[i]]
    BY <1>6
  <2> QED BY <1>7, <2>1
<1>9. pick = CHOOSE g : Solves(g)
  OBVIOUS
<1> HIDE DEF Solves, pick
<1>10. Solves(pick)
  BY <1>8, <1>9
<1>11. /\ pick[0] = <<>>
       /\ \A i \in 1 .. n : pick[i] = IF queue[i] \in answered THEN pick[i - 1]
                                      ELSE Append(pick[i - 1], queue[i])
  <2>1. pick = [i \in 0 .. n |->
                  IF i = 0 THEN <<>>
                  ELSE IF queue[i] \in answered THEN pick[i - 1]
                  ELSE Append(pick[i - 1], queue[i])]
    BY <1>10 DEF Solves
  <2>2. ASSUME NEW i \in 0 .. n
        PROVE  pick[i] = IF i = 0 THEN <<>>
                         ELSE IF queue[i] \in answered THEN pick[i - 1]
                         ELSE Append(pick[i - 1], queue[i])
    BY <2>1, Zenon
  <2>3. 0 \in 0 .. n /\ \A i \in 1 .. n : i \in 0 .. n /\ i # 0
    OBVIOUS
  <2> QED BY <2>2, <2>3
<1> DEFINE Copied(s, i) ==
             /\ s \in Seq(Nat) /\ Len(s) <= i /\ Different(s)
             /\ \A k \in 1 .. Len(s) : \E m \in 1 .. i : s[k] = queue[m]
           T == {i \in 0 .. n : Copied(pick[i], i)}
<1>12. 0 \in T
  <2>1. /\ <<>> \in Seq(Nat) /\ Len(<<>>) <= 0
        /\ \A k \in 1 .. Len(<<>>) : \E m \in 1 .. 0 : <<>>[k] = queue[m]
    OBVIOUS
  <2>2. Different(<<>>)
    BY DEF Different
  <2>3. Copied(pick[0], 0)
    BY <1>11, <2>1, <2>2
  <2> QED BY <2>3
<1>13. ASSUME NEW i \in 1 .. n, NEW s, Copied(s, i - 1)
       PROVE  Copied(s, i) /\ Copied(Append(s, queue[i]), i)
  <2>0. i - 1 \in 0 .. n /\ i \in Nat
    OBVIOUS
  <2>1. PICK m \in Nat : m = Len(s)
    BY <1>13, LenProperties
  <2>2. /\ s \in Seq(Nat) /\ m <= i - 1
        /\ \A k \in 1 .. m : \E j \in 1 .. i - 1 : s[k] = queue[j]
        /\ \A j, k \in 1 .. m : j # k => s[j] # s[k]
    BY <1>13, <2>1 DEF Different
  <2>3. \A j \in 1 .. i - 1 : j \in 1 .. i
    BY <2>0
  <2>4. Copied(s, i)
    BY <1>13, <2>0, <2>1, <2>2, <2>3
  <2> DEFINE t == Append(s, queue[i])
  <2>5. queue[i] \in Nat
    BY <1>2
  <2>6. t \in Seq(Nat) /\ Len(t) = m + 1 /\ (\A k \in 1 .. m : t[k] = s[k]) /\ t[m + 1] = queue[i]
    BY <2>1, <2>2, <2>5, AppendProperties
  <2>7. \A k \in 1 .. m : t[k] # queue[i]
    <3> SUFFICES ASSUME NEW k \in 1 .. m PROVE s[k] # queue[i]
      BY <2>6
    <3>1. PICK j \in 1 .. i - 1 : s[k] = queue[j]
      BY <2>2
    <3>2. j \in 1 .. n /\ j # i
      BY <2>0
    <3> QED BY <1>n, <3>1, <3>2 DEF Different
  <2> HIDE DEF t
  <2>8. \A k \in 1 .. m + 1 : k \in 1 .. m \/ k = m + 1
    BY <2>1
  <2>9. Different(t)
    BY <2>2, <2>6, <2>7, <2>8 DEF Different
  <2>10. \A k \in 1 .. Len(t) : \E j \in 1 .. i : t[k] = queue[j]
    <3> SUFFICES ASSUME NEW k \in 1 .. m + 1 PROVE \E j \in 1 .. i : t[k] = queue[j]
      BY <2>6
    <3>1. CASE k = m + 1
      BY <2>0, <2>6, <3>1
    <3>2. CASE k \in 1 .. m
      <4>1. PICK j \in 1 .. i - 1 : s[k] = queue[j]
        BY <2>2, <3>2
      <4> QED BY <2>3, <2>6, <3>2, <4>1
    <3> QED BY <2>8, <3>1, <3>2
  <2>11. Len(t) <= i
    BY <2>0, <2>1, <2>2, <2>6
  <2>12. Copied(t, i)
    BY <2>6, <2>9, <2>10, <2>11
  <2> QED BY <2>4, <2>12 DEF t
<1> HIDE DEF Copied
<1>14. \A i \in 1 .. n : i - 1 \in T => i \in T
  <2> SUFFICES ASSUME NEW i \in 1 .. n, i - 1 \in T PROVE i \in T
    OBVIOUS
  <2>1. Copied(pick[i - 1], i - 1)
    OBVIOUS
  <2>2. i \in 0 .. n
    OBVIOUS
  <2> QED BY <1>11, <1>13, <2>1, <2>2
<1> HIDE DEF T
<1>15. 0 .. n \subseteq T
  BY <1>12, <1>14, UpTo
<1>16. n \in 0 .. n
  OBVIOUS
<1>17. Copied(pick[n], n)
  BY <1>15, <1>16 DEF T
<1> QED BY <1>n, <1>1, <1>17 DEF Copied

Sock == {4, 6} \X Nat
Query == [job : Nat, sock : Sock]
Listed == {Families[k] : k \in 1 .. Len(Families)} \ {0}

\* The sockets of the pool: free, or carrying a query.
Carrying == {inflight[i].sock : i \in 1 .. Len(inflight)}
Pool == free \cup Carrying
Reachable == {s[1] : s \in Pool}
AllReachable == Listed \subseteq Reachable
ReachedTo(r) == \A k \in 1 .. r : Families[k] # 0 => Families[k] \in Reachable

PoolTypes ==
    /\ dnsPc \in {"launch", "poll", "tcp", "replace", "over"} /\ filling \in BOOLEAN
    /\ queue \in Seq(Nat) /\ Different(queue) /\ Len(queue) <= NJobs /\ nextJob \in Nat \ {0}
    /\ inflight \in Seq(Query) /\ free \in SUBSET Sock /\ IsFiniteSet(free)
    /\ opened \in Nat /\ rr \in 0 .. Len(Families) - 1
    /\ finished \subseteq 1 .. Len(inflight)

\* A launch fills the pool, or replaces a query whose socket has come back.
PoolOrder ==
    /\ filling => dnsPc = "launch" /\ finished = {}
    /\ dnsPc = "poll" => finished = {}
    /\ dnsPc = "tcp" => inflight # <<>>
    /\ dnsPc = "launch" /\ ~filling => free # {}

\* Sockets are numbered as they are opened; one is free or carries one query.
SocketsExact ==
    /\ dnsPc # "over" => opened = Cardinality(free) + Len(inflight)
    /\ dnsPc = "over" => opened = 0 /\ inflight = <<>> /\ free = {}
    /\ \A s \in Pool : s[2] <= opened
    /\ \A i, k \in 1 .. Len(inflight) : i # k => inflight[i].sock # inflight[k].sock
    /\ \A i \in 1 .. Len(inflight) : inflight[i].sock \notin free

\* A job in flight is in flight once, and does not wait any more.
JobsOnce ==
    /\ \A i, k \in 1 .. Len(inflight) : i # k => inflight[i].job # inflight[k].job
    /\ \A i \in 1 .. Len(inflight), k \in nextJob .. Len(queue) : inflight[i].job # queue[k]

\* The first launches open a socket for one server after the other; a pool that cannot grow
\* has a socket for each of them, unless nothing waits to be sent.
ServersReached ==
    /\ filling => /\ opened <= nextJob - 1
                  /\ \/ AllReachable
                     \/ rr = nextJob - 1 /\ ReachedTo(rr)
    /\ dnsPc # "over" /\ opened = Concurrency => AllReachable \/ nextJob > Len(queue)
    /\ dnsPc \in {"poll", "replace"} /\ inflight = <<>> /\ opened = Concurrency =>
          nextJob > Len(queue)

PoolInv == PoolTypes /\ PoolOrder /\ SocketsExact /\ JobsOnce /\ ServersReached

LEMMA DnsCardinality == \A S : Dns!Cardinality(S) = Cardinality(S)
BY DEF Dns!Cardinality, Cardinality

LEMMA ServersListed ==
    /\ Len(Families) \in Nat \ {0}
    /\ \A k \in 1 .. Len(Families) :
          Families[k] \in {4, 6, 0} /\ (Families[k] # 0 => Families[k] \in Listed)
    /\ Listed \subseteq {4, 6}
<1>1. Families \in Seq({4, 6, 0}) /\ Families # <<>>
  BY ServersAssumption
<1> QED BY <1>1, LenProperties DEF Listed

LEMMA ServerInTurn ==
    ASSUME rr \in 0 .. Len(Families) - 1
    PROVE  /\ Dns!Family = Families[rr + 1] /\ rr + 1 \in 1 .. Len(Families)
           /\ (rr + 1) % Len(Families) =
                IF rr + 1 < Len(Families) THEN rr + 1 ELSE 0
           /\ (rr + 1) % Len(Families) \in 0 .. Len(Families) - 1
<1>1. PICK m \in Nat \ {0} : m = Len(Families)
  BY ServersListed
<1>2. rr \in 0 .. m - 1 /\ rr % m = rr /\ rr + 1 \in 1 .. m
  BY <1>1
<1>3. (rr + 1) % m = IF rr + 1 < m THEN rr + 1 ELSE 0
  BY <1>2
<1>4. (rr + 1) % m \in 0 .. m - 1
  BY <1>2, <1>3
<1> QED BY <1>1, <1>2, <1>3, <1>4 DEF Dns!Family

LEMMA PoolSockets == PoolTypes => Pool \subseteq Sock
<1> SUFFICES ASSUME PoolTypes, NEW s \in Pool PROVE s \in Sock
  OBVIOUS
<1>1. CASE s \in free
  BY <1>1 DEF PoolTypes
<1>2. CASE s \in Carrying
  <2>1. PICK i \in 1 .. Len(inflight) : s = inflight[i].sock
    BY <1>2 DEF Carrying
  <2>2. inflight[i] \in Query
    BY LenProperties DEF PoolTypes
  <2> QED BY <2>1, <2>2 DEF Query
<1> QED BY <1>1, <1>2 DEF Pool

\* Without a socket to open there is nothing to send, or nowhere to send it.
LEMMA NoSocketsAtAll == Concurrency = 0 => NJobs = 0 \/ (Listed = {} /\ AllReachable)
<1> SUFFICES ASSUME Concurrency = 0, NJobs # 0 PROVE Listed = {}
  BY DEF AllReachable
<1>1. NJobs \in Nat /\ ~(NJobs <= Concurrency)
  BY ServersAssumption
<1>2. \A k \in 1 .. Len(Families) : Families[k] = 0
  <2> SUFFICES ASSUME NEW k \in 1 .. Len(Families), Families[k] # 0 PROVE FALSE
    OBVIOUS
  <2>1. PICK j \in 1 .. Len(Families) : j <= Concurrency
    BY <1>1, ServersAssumption
  <2> QED BY <2>1
<1> QED BY <1>2 DEF Listed

LEMMA PoolStarts == Dns!DnsInit => PoolInv
<1> SUFFICES ASSUME Dns!DnsInit PROVE PoolInv
  OBVIOUS
<1>0. PICK m \in Nat \ {0} : m = Len(Families)
  BY ServersListed
<1>1. /\ dnsPc = "launch" /\ filling = TRUE /\ queue = [i \in 1 .. NJobs |-> i] /\ nextJob = 1
      /\ inflight = <<>> /\ free = {} /\ opened = 0 /\ rr = 0 /\ finished = {}
  BY DEF Dns!DnsInit, Dns!Jobs
<1>2. NJobs \in Nat /\ Concurrency \in Nat
  BY ServersAssumption
<1>3. queue \in Seq(Nat) /\ Len(queue) = NJobs /\ Different(queue)
  BY <1>1, <1>2 DEF Different
<1>4. inflight \in Seq(Query) /\ Len(inflight) = 0 /\ Pool = {}
  BY <1>1 DEF Pool, Carrying
<1>5. IsFiniteSet({}) /\ Cardinality({}) = 0
  BY FS_EmptySet
<1>6. PoolTypes
  BY <1>0, <1>1, <1>2, <1>3, <1>4, <1>5 DEF PoolTypes
<1>7. PoolOrder
  BY <1>1 DEF PoolOrder
<1>8. SocketsExact /\ JobsOnce
  BY <1>1, <1>4, <1>5 DEF SocketsExact, JobsOnce
<1>9. ServersReached
  <2>1. Concurrency = 0 => NJobs = 0 \/ AllReachable
    BY NoSocketsAtAll
  <2>2. ReachedTo(0)
    BY DEF ReachedTo
  <2> QED BY <1>1, <1>2, <1>3, <2>1, <2>2 DEF ServersReached
<1> QED BY <1>6, <1>7, <1>8, <1>9 DEF PoolInv

LEMMA PoolUntouched == ASSUME PoolInv, UNCHANGED dnsVars PROVE PoolInv'
<1>1. /\ UNCHANGED <<dnsPc, filling, queue, nextJob, inflight, free, opened, rr, finished>>
      /\ Pool' = Pool
  BY DEF dnsVars, Pool, Carrying
<1>2. Reachable' = Reachable /\ (AllReachable' <=> AllReachable)
  BY <1>1 DEF Reachable, AllReachable, Listed
<1>3. PoolTypes'
  BY <1>1 DEF PoolInv, PoolTypes, Different
<1>4. PoolOrder'
  BY <1>1 DEF PoolInv, PoolOrder
<1>5. SocketsExact' /\ JobsOnce'
  BY <1>1 DEF PoolInv, SocketsExact, JobsOnce
<1>6. ServersReached'
  BY <1>1, <1>2 DEF PoolInv, ServersReached, ReachedTo
<1> QED BY <1>3, <1>4, <1>5, <1>6 DEF PoolInv

\* Nothing changes in the pool.
LEMMA PoolKept ==
    ASSUME PoolInv, UNCHANGED <<queue, nextJob, inflight, free, opened>>,
           dnsPc # "over", dnsPc' # "over"
    PROVE  /\ SocketsExact' /\ JobsOnce' /\ Pool' = Pool
           /\ Reachable' = Reachable /\ (AllReachable' <=> AllReachable)
<1>1. Pool' = Pool
  BY DEF Pool, Carrying
<1>2. Reachable' = Reachable /\ (AllReachable' <=> AllReachable)
  BY <1>1 DEF Reachable, AllReachable, Listed
<1>3. SocketsExact' /\ JobsOnce'
  BY <1>1 DEF PoolInv, SocketsExact, JobsOnce
<1> QED BY <1>1, <1>2, <1>3

\* An empty launch leaves queries unsent only while the pool may grow.
LEMMA LaunchFails ==
    ASSUME PoolInv, Dns!LaunchNothing \/ Dns!LaunchLater
    PROVE  PoolInv'
<1>1. /\ dnsPc = "launch" /\ UNCHANGED <<queue, nextJob, inflight, free, opened, finished>>
      /\ dnsPc' \in {"poll", "replace"} /\ filling' = FALSE
      /\ dnsPc' = "poll" => filling
  <2>1. filling \in BOOLEAN
    BY DEF PoolInv, PoolTypes
  <2> QED BY <2>1 DEF Dns!LaunchNothing, Dns!LaunchLater, Dns!Launched
<1>2. rr' = rr \/ rr' = (rr + 1) % Len(Families)
  BY DEF Dns!LaunchNothing, Dns!LaunchLater, Dns!NextServer
<1>3. rr' \in 0 .. Len(Families) - 1
  BY <1>2, ServerInTurn DEF PoolInv, PoolTypes
<1>4. /\ SocketsExact' /\ JobsOnce' /\ Pool' = Pool
      /\ Reachable' = Reachable /\ (AllReachable' <=> AllReachable)
  BY <1>1, PoolKept
<1>5. PoolTypes'
  BY <1>1, <1>3 DEF PoolInv, PoolTypes, Different
<1>6. PoolOrder'
  BY <1>1 DEF PoolInv, PoolOrder
<1>7. ASSUME inflight = <<>>, AllReachable PROVE nextJob > Len(queue)
  <2>1. CASE Dns!LaunchNothing
    BY <2>1 DEF Dns!LaunchNothing
  <2>2. CASE Dns!LaunchLater
    <3>1. Dns!Reusable = {}
      BY <2>2 DEF Dns!LaunchLater
    <3>2. Pool = free
      BY <1>7 DEF Pool, Carrying
    <3>3. Dns!Family \in Listed
      BY <2>2, ServersListed, ServerInTurn DEF PoolInv, PoolTypes, Dns!LaunchLater
    <3>4. PICK s \in free : s[1] = Dns!Family
      BY <1>7, <3>2, <3>3 DEF AllReachable, Reachable
    <3> QED BY <3>1, <3>4 DEF Dns!Reusable
  <2> QED BY <2>1, <2>2
<1>8. ServersReached'
  BY <1>1, <1>4, <1>7 DEF PoolInv, ServersReached
<1> QED BY <1>4, <1>5, <1>6, <1>8 DEF PoolInv

\* A job that is passed over leaves the pool as it is.
LEMMA JobSkipped == ASSUME PoolInv, Dns!LaunchSkips PROVE PoolInv'
<1>l. PICK l \in Nat : l = Len(queue)
  BY LenProperties DEF PoolInv, PoolTypes
<1>m. PICK m \in Nat \ {0} : m = Len(Families)
  BY ServersListed
<1>1. /\ UNCHANGED <<dnsPc, filling, queue, inflight, free, opened, finished>>
      /\ dnsPc = "launch" /\ nextJob <= l /\ Dns!Family = 0
      /\ nextJob' = nextJob + 1 /\ rr' = (rr + 1) % m
  BY <1>l, <1>m DEF Dns!LaunchSkips, Dns!NextServer
<1>2. nextJob \in Nat \ {0} /\ rr \in 0 .. m - 1 /\ opened \in Nat
  BY <1>m DEF PoolInv, PoolTypes
<1>3. /\ Families[rr + 1] = 0 /\ rr' = (IF rr + 1 < m THEN rr + 1 ELSE 0)
      /\ rr' \in 0 .. m - 1
  BY <1>1, <1>2, <1>m, ServerInTurn
<1>4. Pool' = Pool /\ Reachable' = Reachable /\ (AllReachable' <=> AllReachable)
  BY <1>1 DEF Pool, Carrying, Reachable, AllReachable, Listed
<1>5. PoolTypes'
  BY <1>1, <1>2, <1>3, <1>m DEF PoolInv, PoolTypes, Different
<1>6. PoolOrder'
  BY <1>1 DEF PoolInv, PoolOrder
<1>7. SocketsExact'
  BY <1>1, <1>4 DEF PoolInv, SocketsExact
<1>8. JobsOnce'
  <2>1. \A k \in nextJob' .. l : k \in nextJob .. l
    BY <1>1, <1>2
  <2> QED BY <1>l, <1>1, <2>1 DEF PoolInv, JobsOnce
<1>9. ASSUME filling PROVE AllReachable \/ (rr' = nextJob' - 1 /\ ReachedTo(rr'))
  <2>1. CASE rr = nextJob - 1 /\ ReachedTo(rr)
    <3>1. ReachedTo(rr + 1)
      <4>1. \A k \in 1 .. rr + 1 : k \in 1 .. rr \/ k = rr + 1
        BY <1>2
      <4> QED BY <1>3, <2>1, <4>1 DEF ReachedTo
    <3>2. CASE rr + 1 < m
      BY <1>1, <1>2, <1>3, <2>1, <3>1, <3>2
    <3>3. CASE rr + 1 = m
      BY <1>m, <3>1, <3>3 DEF ReachedTo, AllReachable, Listed
    <3> QED BY <1>2, <3>2, <3>3
  <2> QED BY <1>9, <2>1 DEF PoolInv, ServersReached
<1>10. ServersReached'
  <2>1. ReachedTo(rr') => ReachedTo(rr)'
    BY <1>4 DEF ReachedTo
  <2>2. filling' => opened' <= nextJob' - 1
    BY <1>1, <1>2 DEF PoolInv, ServersReached
  <2>3. opened' = Concurrency => AllReachable' \/ nextJob' > l
    BY <1>l, <1>1, <1>2, <1>4 DEF PoolInv, ServersReached
  <2> QED BY <1>l, <1>1, <1>4, <1>9, <2>1, <2>2, <2>3 DEF ServersReached
<1> QED BY <1>5, <1>6, <1>7, <1>8, <1>10 DEF PoolInv

LEMMA PoolWaits ==
    ASSUME PoolInv, Dns!Poll \/ Dns!TopUp \/ Dns!Extend \/ Dns!Interrupt
    PROVE  PoolInv'
<1>1. /\ UNCHANGED <<queue, nextJob, inflight, free, opened, filling, rr>>
      /\ dnsPc # "over" /\ dnsPc' # "over" /\ filling \in BOOLEAN
      /\ dnsPc \in {"launch", "poll", "tcp", "replace", "over"}
      /\ finished \subseteq 1 .. Len(inflight)
  BY DEF PoolInv, PoolTypes, Dns!Poll, Dns!TopUp, Dns!Extend, Dns!Interrupt
<1>2. \/ dnsPc \in {"poll", "tcp"} /\ dnsPc' \in {"tcp", "replace"} /\ inflight # <<>>
           /\ finished' \subseteq 1 .. Len(inflight)
      \/ dnsPc = "replace" /\ dnsPc' = "poll" /\ finished = {} /\ finished' = finished
      \/ dnsPc' = dnsPc /\ finished' = finished
  <2>1. CASE Dns!Poll
    <3>1. finished' \subseteq 1 .. Len(inflight)
      BY <2>1 DEF Dns!Poll, Dns!Positions
    <3> QED BY <2>1, <3>1 DEF Dns!Poll
  <2>t. CASE Dns!TopUp
    <3>1. dnsPc = "tcp" /\ inflight # <<>> /\ dnsPc' \in {"tcp", "replace"}
      BY <2>t DEF Dns!TopUp, PoolInv, PoolOrder
    <3>2. finished' \subseteq 1 .. Len(inflight)
      BY <1>1, <2>t DEF Dns!TopUp, Dns!Positions
    <3> QED BY <3>1, <3>2
  <2>2. CASE Dns!Extend
    BY <2>2 DEF Dns!Extend
  <2>3. CASE Dns!Interrupt
    BY <2>3 DEF Dns!Interrupt
  <2> QED BY <2>1, <2>t, <2>2, <2>3
<1>3. /\ SocketsExact' /\ JobsOnce' /\ Pool' = Pool
      /\ Reachable' = Reachable /\ (AllReachable' <=> AllReachable)
  BY <1>1, PoolKept
<1>4. PoolTypes'
  <2>1. finished' \subseteq 1 .. Len(inflight')
    BY <1>1, <1>2
  <2> QED BY <1>1, <1>2, <2>1 DEF PoolInv, PoolTypes, Different
<1>5. PoolOrder'
  BY <1>1, <1>2 DEF PoolInv, PoolOrder
<1>6. ServersReached'
  BY <1>1, <1>2, <1>3 DEF PoolInv, PoolOrder, ServersReached, ReachedTo
<1> QED BY <1>3, <1>4, <1>5, <1>6 DEF PoolInv

\* A finished query gives its socket back.
LEMMA ReplaceKeeps == ASSUME PoolInv, Dns!Replace PROVE PoolInv'
<1>0. PICK n \in Nat : n = Len(inflight)
  BY LenProperties DEF PoolInv, PoolTypes
<1>1. PICK i \in 1 .. n :
        /\ i \in finished /\ \A m \in finished : m <= i
        /\ free' = free \cup {inflight[i].sock} /\ inflight' = Dns!Without(inflight, i)
        /\ finished' = finished \ {i}
  <2> DEFINE top == CHOOSE k \in finished : \A m \in finished : m <= k
  <2>1. /\ free' = free \cup {inflight[top].sock} /\ inflight' = Dns!Without(inflight, top)
        /\ finished' = finished \ {top} /\ finished # {}
    BY DEF Dns!Replace
  <2>2. finished \subseteq 1 .. n
    BY <1>0 DEF PoolInv, PoolTypes
  <2>3. \E k \in finished : \A m \in finished : m <= k
    <3> DEFINE Gaps == {n - k : k \in finished}
    <3>1. Gaps \subseteq Nat /\ Gaps # {}
      <4>1. \A k \in finished : n - k \in Nat
        BY <1>0, <2>2
      <4> QED BY <2>1, <4>1
    <3> HIDE DEF Gaps
    <3>2. PICK g \in Gaps : \A h \in Gaps : g <= h
      BY <3>1, LeastNat
    <3>3. PICK k \in finished : g = n - k
      BY <3>2 DEF Gaps
    <3>4. ASSUME NEW m \in finished PROVE m <= k
      <4>1. n - m \in Gaps
        BY DEF Gaps
      <4>2. n - k <= n - m
        BY <3>2, <3>3, <4>1
      <4> QED BY <2>2, <3>3, <4>2
    <3> QED BY <3>4
  <2>4. top \in finished /\ \A m \in finished : m <= top
    BY <2>3, Zenon
  <2> HIDE DEF top
  <2> QED BY <2>1, <2>2, <2>4
<1>2. /\ dnsPc = "replace" /\ dnsPc' = "launch" /\ filling = FALSE /\ filling' = FALSE
      /\ UNCHANGED <<queue, nextJob, opened, rr>>
  BY DEF Dns!Replace, PoolInv, PoolTypes, PoolOrder
<1>3. /\ inflight \in Seq(Query) /\ free \in SUBSET Sock /\ IsFiniteSet(free)
      /\ finished \subseteq 1 .. n /\ opened = Cardinality(free) + n
      /\ \A s \in Pool : s[2] <= opened
      /\ \A j, k \in 1 .. n : j # k => inflight[j].sock # inflight[k].sock
      /\ \A j \in 1 .. n : inflight[j].sock \notin free
      /\ \A j, k \in 1 .. n : j # k => inflight[j].job # inflight[k].job
      /\ \A j \in 1 .. n, k \in nextJob .. Len(queue) : inflight[j].job # queue[k]
  BY <1>0, <1>2 DEF PoolInv, PoolTypes, SocketsExact, JobsOnce
<1> DEFINE at(k) == IF k < i THEN k ELSE k + 1
<1>4. /\ inflight' \in Seq(Query) /\ Len(inflight') = n - 1
      /\ \A k \in 1 .. n - 1 : inflight'[k] = inflight[at(k)]
  BY <1>0, <1>1, <1>3, WithoutProperties
<1>5. /\ \A k \in 1 .. n - 1 : at(k) \in 1 .. n /\ at(k) # i
      /\ \A j, k \in 1 .. n - 1 : j # k => at(j) # at(k)
      /\ \A j \in 1 .. n : j # i => \E k \in 1 .. n - 1 : at(k) = j
  <2>1. ASSUME NEW j \in 1 .. n, j # i PROVE \E k \in 1 .. n - 1 : at(k) = j
    <3>1. CASE j < i
      <4>1. j \in 1 .. n - 1 /\ at(j) = j
        BY <1>0, <3>1
      <4> QED BY <4>1
    <3>2. CASE j > i
      <4>1. j - 1 \in 1 .. n - 1 /\ at(j - 1) = j
        BY <1>0, <3>2
      <4> QED BY <4>1
    <3> QED BY <2>1, <3>1, <3>2
  <2> QED BY <1>0, <2>1
<1> HIDE DEF at
<1>6. inflight[i].sock \in Sock /\ inflight[i].sock \notin free
  <2>1. i \in 1 .. Len(inflight)
    BY <1>0
  <2>2. inflight[i] \in Query
    BY <1>3, <2>1, LenProperties
  <2> QED BY <1>0, <1>3, <2>2 DEF Query
<1>7. /\ free' \in SUBSET Sock /\ IsFiniteSet(free') /\ free' # {}
      /\ Cardinality(free') = Cardinality(free) + 1
  BY <1>1, <1>3, <1>6, FS_AddElement
<1>8. Pool' = Pool
  <2>1. Pool' = free' \cup {inflight[at(k)].sock : k \in 1 .. n - 1}
    BY <1>4 DEF Pool, Carrying
  <2>2. Pool = free \cup {inflight[j].sock : j \in 1 .. n}
    BY <1>0 DEF Pool, Carrying
  <2> QED BY <1>1, <1>5, <2>1, <2>2
<1>9. Reachable' = Reachable /\ (AllReachable' <=> AllReachable)
  BY <1>8 DEF Reachable, AllReachable, Listed
<1>10. PoolTypes'
  <2>1. finished' \subseteq 1 .. n - 1
    BY <1>1, <1>3
  <2> QED BY <1>2, <1>4, <1>7, <2>1 DEF PoolInv, PoolTypes, Different
<1>11. PoolOrder'
  BY <1>2, <1>7 DEF PoolOrder
<1>12. SocketsExact'
  <2>1. opened' = Cardinality(free') + Len(inflight')
    <3>1. Cardinality(free) \in Nat
      BY <1>3, FS_CardinalityType
    <3> QED BY <1>2, <1>3, <1>4, <1>7, <3>1
  <2>2. \A s \in Pool' : s[2] <= opened'
    BY <1>2, <1>3, <1>8
  <2>3. ASSUME NEW j \in 1 .. n - 1, NEW k \in 1 .. n - 1, j # k
        PROVE  inflight'[j].sock # inflight'[k].sock
    <3>1. at(j) \in 1 .. n /\ at(k) \in 1 .. n /\ at(j) # at(k)
      BY <1>5, <2>3
    <3>2. inflight[at(j)].sock # inflight[at(k)].sock
      BY <1>3, <3>1
    <3> QED BY <1>4, <3>2
  <2>4. \A k \in 1 .. n - 1 : inflight'[k].sock \notin free'
    <3> SUFFICES ASSUME NEW k \in 1 .. n - 1
                 PROVE  inflight[at(k)].sock \notin free \cup {inflight[i].sock}
      BY <1>1, <1>4
    <3> QED BY <1>3, <1>5
  <2> QED BY <1>2, <1>4, <2>1, <2>2, <2>3, <2>4 DEF SocketsExact
<1>13. JobsOnce'
  <2>1. ASSUME NEW j \in 1 .. n - 1, NEW k \in 1 .. n - 1, j # k
        PROVE  inflight'[j].job # inflight'[k].job
    <3>1. at(j) \in 1 .. n /\ at(k) \in 1 .. n /\ at(j) # at(k)
      BY <1>5, <2>1
    <3>2. inflight[at(j)].job # inflight[at(k)].job
      BY <1>3, <3>1
    <3> QED BY <1>4, <3>2
  <2>2. ASSUME NEW j \in 1 .. n - 1, NEW k \in nextJob .. Len(queue)
        PROVE  inflight'[j].job # queue[k]
    <3>1. at(j) \in 1 .. n /\ inflight'[j] = inflight[at(j)]
      BY <1>4, <1>5
    <3> QED BY <1>3, <3>1
  <2> QED BY <1>2, <1>4, <2>1, <2>2 DEF JobsOnce
<1>14. ServersReached'
  BY <1>2, <1>9 DEF PoolInv, ServersReached
<1> QED BY <1>10, <1>11, <1>12, <1>13, <1>14 DEF PoolInv

LEMMA PassEnds == ASSUME PoolInv, Dns!PassOver PROVE PoolInv'
<1>0. PICK m \in Nat \ {0} : m = Len(Families)
  BY ServersListed
<1>1. /\ inflight' = <<>> /\ free' = {} /\ rr' = 0 /\ finished' = finished /\ dnsPc = "poll"
      /\ opened' = IF dnsPc' = "over" THEN opened - Cardinality(free) - Len(inflight) ELSE 0
  BY DnsCardinality DEF Dns!PassOver
<1>2. \/ dnsPc' = "launch" /\ filling' = TRUE /\ nextJob' = 1 /\ queue' = Dns!Unanswered
      \/ dnsPc' = "over" /\ filling' = filling /\ nextJob' = nextJob /\ queue' = queue
  BY DEF Dns!PassOver
<1>3. filling = FALSE /\ finished = {}
  BY <1>1 DEF PoolInv, PoolTypes, PoolOrder
<1>4. opened' = 0
  <2>1. /\ opened = Cardinality(free) + Len(inflight) /\ Len(inflight) \in Nat
        /\ Cardinality(free) \in Nat
    BY <1>1, FS_CardinalityType, LenProperties DEF PoolInv, PoolTypes, SocketsExact
  <2> QED BY <1>1, <2>1
<1>5. /\ queue' \in Seq(Nat) /\ Different(queue)' /\ Len(queue') <= NJobs
      /\ Len(queue') \in Nat /\ nextJob' \in Nat \ {0}
  <2>1. queue \in Seq(Nat) /\ Different(queue) /\ Len(queue) <= NJobs /\ nextJob \in Nat \ {0}
    BY DEF PoolInv, PoolTypes
  <2>2. /\ Dns!Unanswered \in Seq(Nat) /\ Len(Dns!Unanswered) <= Len(queue)
        /\ Different(Dns!Unanswered)
    BY <2>1, UnansweredListed
  <2>3. NJobs \in Nat /\ Len(queue) \in Nat /\ Len(Dns!Unanswered) \in Nat
    BY <2>1, <2>2, ServersAssumption, LenProperties
  <2>4. CASE queue' = queue
    BY <1>2, <2>1, <2>3, <2>4 DEF Different
  <2>5. CASE queue' = Dns!Unanswered
    BY <1>2, <2>1, <2>2, <2>3, <2>5 DEF Different
  <2> QED BY <1>2, <2>4, <2>5
<1>6. inflight' \in Seq(Query) /\ Len(inflight') = 0 /\ Pool' = {}
  BY <1>1 DEF Pool, Carrying
<1>7. IsFiniteSet({}) /\ Cardinality({}) = 0
  BY FS_EmptySet
<1>8. PoolTypes'
  <2>1. filling' \in BOOLEAN /\ dnsPc' \in {"launch", "over"}
    BY <1>2, <1>3
  <2> QED BY <1>0, <1>1, <1>3, <1>4, <1>5, <1>6, <1>7, <2>1 DEF PoolTypes
<1>9. PoolOrder'
  BY <1>1, <1>2, <1>3 DEF PoolOrder
<1>10. SocketsExact' /\ JobsOnce'
  BY <1>1, <1>2, <1>4, <1>6, <1>7 DEF SocketsExact, JobsOnce
<1>11. ServersReached'
  <2>1. Concurrency = 0 => Len(queue') = 0 \/ AllReachable'
    <3>1. Listed = {} => AllReachable'
      BY DEF AllReachable, Listed
    <3>2. NJobs \in Nat
      BY ServersAssumption
    <3> QED BY <1>5, <3>1, <3>2, NoSocketsAtAll
  <2>2. ReachedTo(0)'
    BY DEF ReachedTo
  <2> QED BY <1>1, <1>2, <1>3, <1>4, <1>5, <2>1, <2>2 DEF ServersReached
<1> QED BY <1>8, <1>9, <1>10, <1>11 DEF PoolInv

\* A query goes out on a socket of the pool or on a new one; or its send fails.
LEMMA QuerySent ==
    ASSUME PoolInv, NEW s, dnsPc = "launch", nextJob <= Len(queue), Dns!SendOn(s),
           s \in Sock, s \notin Carrying, s[1] = Dns!Family,
           \/ s \in free /\ opened' = opened
           \/ /\ s \notin free /\ s[2] = opened + 1 /\ opened' = opened + 1
              /\ Dns!Reusable = {}
    PROVE  PoolInv'
<1> DEFINE q == [job |-> queue[nextJob], sock |-> s]
<1>0. PICK n \in Nat : n = Len(inflight)
  BY LenProperties DEF PoolInv, PoolTypes
<1>l. PICK l \in Nat : l = Len(queue)
  BY LenProperties DEF PoolInv, PoolTypes
<1>m. PICK m \in Nat \ {0} : m = Len(Families)
  BY ServersListed
<1>1. /\ \/ inflight' = Append(inflight, q) /\ free' = free \ {s} /\ Dns!Launched(TRUE)
         \/ inflight' = inflight /\ free' = free \cup {s} /\ dnsPc' = dnsPc /\ filling' = filling
      /\ nextJob' = nextJob + 1 /\ rr' = (rr + 1) % Len(Families)
      /\ queue' = queue /\ finished' = finished
  BY DEF Dns!SendOn, Dns!NextServer
<1>2. /\ inflight \in Seq(Query) /\ free \in SUBSET Sock /\ IsFiniteSet(free)
      /\ finished \subseteq 1 .. n /\ opened = Cardinality(free) + n /\ opened \in Nat
      /\ rr \in 0 .. m - 1 /\ filling \in BOOLEAN
      /\ queue \in Seq(Nat) /\ Different(queue) /\ l <= NJobs /\ nextJob \in 1 .. l
  BY <1>0, <1>l, <1>m DEF PoolInv, PoolTypes, SocketsExact
<1>3. /\ \A r \in Pool : r[2] <= opened
      /\ \A j, k \in 1 .. n : j # k => inflight[j].sock # inflight[k].sock
      /\ \A j \in 1 .. n : inflight[j].sock \notin free
      /\ \A j, k \in 1 .. n : j # k => inflight[j].job # inflight[k].job
      /\ \A j \in 1 .. n, k \in nextJob .. l : inflight[j].job # queue[k]
  BY <1>0, <1>l DEF PoolInv, SocketsExact, JobsOnce
<1>4. /\ Dns!Family = Families[rr + 1] /\ rr + 1 \in 1 .. m
      /\ rr' = (IF rr + 1 < m THEN rr + 1 ELSE 0) /\ rr' \in 0 .. m - 1
  BY <1>1, <1>2, <1>m, ServerInTurn
<1>5. /\ dnsPc' \in {"launch", "poll", "replace"} /\ filling' \in BOOLEAN
      /\ filling' => filling /\ dnsPc' = "launch"
      /\ dnsPc' = "poll" => filling
      /\ dnsPc' = "launch" /\ ~filling' => ~filling /\ inflight' = inflight /\ free' = free \cup {s}
  <2>1. CASE Dns!Launched(TRUE)
    BY <1>2, <2>1 DEF Dns!Launched
  <2>2. CASE inflight' = inflight /\ free' = free \cup {s} /\ dnsPc' = dnsPc /\ filling' = filling
    <3>1. filling => dnsPc = "launch"
      BY DEF PoolInv, PoolOrder
    <3> QED BY <1>2, <2>2, <3>1
  <2> QED BY <1>1, <2>1, <2>2
<1>6. q \in Query /\ queue[nextJob] \in Nat
  BY <1>2, <1>l DEF Query
<1>7. inflight' \in Seq(Query) /\ free' \in SUBSET Sock /\ IsFiniteSet(free')
  <2>1. Append(inflight, q) \in Seq(Query)
    BY <1>2, <1>6, AppendProperties
  <2>2. IsFiniteSet(free \ {s}) /\ IsFiniteSet(free \cup {s})
    BY <1>2, FS_AddElement, FS_RemoveElement
  <2> QED BY <1>1, <1>2, <2>1, <2>2
<1> HIDE DEF q
<1>8. ASSUME inflight' = Append(inflight, q), free' = free \ {s}
      PROVE  /\ Pool' = Pool \cup {s} /\ SocketsExact' /\ JobsOnce'
             /\ inflight' # <<>> /\ finished' \subseteq 1 .. Len(inflight')
  <2>1. /\ Len(inflight') = n + 1 /\ inflight'[n + 1] = q
        /\ \A k \in 1 .. n : inflight'[k] = inflight[k]
    BY <1>0, <1>2, <1>6, <1>8, AppendProperties
  <2>2. \A k \in 1 .. n + 1 : k \in 1 .. n \/ k = n + 1
    OBVIOUS
  <2>3. q.sock = s /\ q.job = queue[nextJob]
    BY DEF q
  <2>4. Carrying' = Carrying \cup {s}
    <3>1. Carrying' = {inflight'[k].sock : k \in 1 .. n + 1}
      BY <2>1 DEF Carrying
    <3>2. Carrying = {inflight[k].sock : k \in 1 .. n}
      BY <1>0 DEF Carrying
    <3>3. \A k \in 1 .. n : k \in 1 .. n + 1
      OBVIOUS
    <3>4. n + 1 \in 1 .. n + 1
      OBVIOUS
    <3> QED BY <2>1, <2>2, <2>3, <3>1, <3>2, <3>3, <3>4
  <2>5. Pool' = Pool \cup {s}
    BY <1>8, <2>4 DEF Pool
  <2>6. \A k \in 1 .. n : inflight[k].sock \in Carrying
    BY <1>0 DEF Carrying
  <2>7. SocketsExact'
    <3>1. opened' = Cardinality(free') + Len(inflight')
      <4>0. Cardinality(free) \in Nat
        BY <1>2, FS_CardinalityType
      <4>1. CASE s \in free
        <5>1. Cardinality(free \ {s}) = Cardinality(free) - 1
          BY <1>2, <4>1, FS_RemoveElement
        <5> QED BY <1>2, <1>8, <2>1, <4>0, <4>1, <5>1
      <4>2. CASE s \notin free
        <5>1. free' = free
          BY <1>8, <4>2
        <5> QED BY <1>2, <2>1, <4>0, <4>2, <5>1
      <4> QED BY <4>1, <4>2
    <3>2. \A r \in Pool' : r[2] <= opened'
      <4>1. s \in free => s[2] <= opened
        BY <1>3 DEF Pool
      <4>2. ASSUME NEW r \in Pool PROVE r[2] <= opened'
        <5>1. r \in Sock /\ r[2] <= opened
          BY <1>3, PoolSockets DEF PoolInv
        <5> QED BY <1>2, <5>1 DEF Sock
      <4>3. s[2] <= opened'
        BY <1>2, <4>1
      <4> QED BY <2>5, <4>2, <4>3
    <3>3. ASSUME NEW j \in 1 .. n + 1, NEW k \in 1 .. n + 1, j # k
          PROVE  inflight'[j].sock # inflight'[k].sock
      BY <1>3, <2>1, <2>2, <2>3, <2>6, <3>3
    <3>4. ASSUME NEW j \in 1 .. n + 1 PROVE inflight'[j].sock \notin free'
      BY <1>3, <1>8, <2>1, <2>2, <2>3
    <3> QED BY <1>5, <2>1, <3>1, <3>2, <3>3, <3>4 DEF SocketsExact
  <2>8. JobsOnce'
    <3>1. ASSUME NEW j \in 1 .. n + 1, NEW k \in 1 .. n + 1, j # k
          PROVE  inflight'[j].job # inflight'[k].job
      <4>1. nextJob \in nextJob .. l
        BY <1>2
      <4> QED BY <1>3, <2>1, <2>2, <2>3, <3>1, <4>1
    <3>2. ASSUME NEW j \in 1 .. n + 1, NEW k \in nextJob + 1 .. l
          PROVE  inflight'[j].job # queue[k]
      <4>1. k \in nextJob .. l /\ k # nextJob /\ k \in 1 .. l
        BY <1>2
      <4>2. nextJob \in 1 .. l /\ queue[k] # queue[nextJob]
        BY <1>l, <1>2, <4>1 DEF Different
      <4>3. CASE j \in 1 .. n
        <5>1. inflight[j].job # queue[k]
          BY <1>3, <4>1, <4>3
        <5> QED BY <2>1, <4>3, <5>1
      <4>4. CASE j = n + 1
        BY <2>1, <2>3, <4>2, <4>4
      <4> QED BY <2>2, <4>3, <4>4
    <3> QED BY <1>l, <1>1, <2>1, <3>1, <3>2 DEF JobsOnce
  <2>9. inflight' # <<>> /\ finished' \subseteq 1 .. Len(inflight')
    BY <1>1, <1>2, <2>1
  <2> QED BY <2>5, <2>7, <2>8, <2>9
<1>9. ASSUME inflight' = inflight, free' = free \cup {s}
      PROVE  /\ Pool' = Pool \cup {s} /\ SocketsExact' /\ JobsOnce'
             /\ finished' \subseteq 1 .. Len(inflight')
  <2>1. Carrying' = Carrying /\ Len(inflight') = n
    BY <1>0, <1>9 DEF Carrying
  <2>2. Pool' = Pool \cup {s}
    BY <1>9, <2>1 DEF Pool
  <2>3. \A k \in 1 .. n : inflight[k].sock \in Carrying
    BY <1>0 DEF Carrying
  <2>4. opened' = Cardinality(free') + n
    <3>0. Cardinality(free) \in Nat
      BY <1>2, FS_CardinalityType
    <3>1. CASE s \in free
      <4>1. free' = free
        BY <1>9, <3>1
      <4> QED BY <1>2, <3>1, <4>1
    <3>2. CASE s \notin free
      <4>1. Cardinality(free \cup {s}) = Cardinality(free) + 1
        BY <1>2, <3>2, FS_AddElement
      <4> QED BY <1>2, <1>9, <3>0, <3>2, <4>1
    <3> QED BY <3>1, <3>2
  <2>5. \A r \in Pool' : r[2] <= opened'
    <3>1. s \in free => s[2] <= opened
      BY <1>3 DEF Pool
    <3>2. ASSUME NEW r \in Pool PROVE r[2] <= opened'
      <4>1. r \in Sock /\ r[2] <= opened
        BY <1>3, PoolSockets DEF PoolInv
      <4> QED BY <1>2, <4>1 DEF Sock
    <3>3. s[2] <= opened'
      BY <1>2, <3>1
    <3> QED BY <2>2, <3>2, <3>3
  <2>6. ASSUME NEW j \in 1 .. n PROVE inflight[j].sock \notin free'
    BY <1>3, <1>9, <2>3
  <2>7. SocketsExact'
    BY <1>3, <1>5, <1>9, <2>1, <2>4, <2>5, <2>6 DEF SocketsExact
  <2>8. JobsOnce'
    <3>1. ASSUME NEW j \in 1 .. n, NEW k \in nextJob + 1 .. l
          PROVE  inflight[j].job # queue[k]
      <4>1. k \in nextJob .. l
        BY <1>2
      <4> QED BY <1>3, <4>1
    <3> QED BY <1>l, <1>1, <1>3, <1>9, <2>1, <3>1 DEF JobsOnce
  <2> QED BY <1>1, <1>2, <2>1, <2>2, <2>7, <2>8
<1>10. /\ Pool' = Pool \cup {s} /\ SocketsExact' /\ JobsOnce'
       /\ finished' \subseteq 1 .. Len(inflight')
       /\ dnsPc' = "launch" \/ inflight' # <<>>
  BY <1>1, <1>8, <1>9
<1>11. PoolTypes'
  <2>1. rr' \in 0 .. Len(Families) - 1 /\ nextJob' \in Nat \ {0}
    BY <1>1, <1>2, <1>4, <1>l, <1>m
  <2>2. queue' \in Seq(Nat) /\ Different(queue)' /\ Len(queue') <= NJobs
    BY <1>1, <1>2, <1>l DEF Different
  <2>3. opened' \in Nat
    BY <1>2
  <2>4. dnsPc' \in {"launch", "poll", "tcp", "replace", "over"}
    BY <1>5
  <2> QED BY <1>5, <1>7, <1>10, <2>1, <2>2, <2>3, <2>4 DEF PoolTypes
<1>12. PoolOrder'
  <2>1. filling => finished = {}
    BY DEF PoolInv, PoolOrder
  <2> QED BY <1>1, <1>5, <2>1 DEF PoolOrder
<1>13. /\ Reachable \subseteq Reachable' /\ Families[rr + 1] \in Reachable'
       /\ AllReachable => AllReachable'
  <2>1. s \in Pool' /\ s[1] = Families[rr + 1]
    BY <1>4, <1>10
  <2> QED BY <1>10, <2>1 DEF Reachable, AllReachable, Listed
<1>14. Listed \subseteq {4, 6}
  BY ServersListed
<1>15. ReachedTo(rr) => \A k \in 1 .. rr + 1 : Families[k] # 0 => Families[k] \in Reachable'
  <2> SUFFICES ASSUME ReachedTo(rr), NEW k \in 1 .. rr + 1, Families[k] # 0
               PROVE  Families[k] \in Reachable'
    OBVIOUS
  <2>1. k \in 1 .. rr \/ k = rr + 1
    BY <1>2
  <2> QED BY <1>13, <2>1 DEF ReachedTo
<1>16. filling => /\ opened <= nextJob - 1
                  /\ \/ AllReachable
                     \/ rr = nextJob - 1 /\ ReachedTo(rr)
  BY DEF PoolInv, ServersReached
<1>17. ASSUME filling' PROVE
         /\ opened' <= nextJob' - 1
         /\ \/ AllReachable'
            \/ rr' = nextJob' - 1 /\ ReachedTo(rr)'
  <2>1. opened' <= nextJob' - 1
    BY <1>1, <1>2, <1>5, <1>16, <1>17
  <2>2. CASE AllReachable
    BY <1>13, <2>1, <2>2
  <2>3. CASE rr = nextJob - 1 /\ ReachedTo(rr)
    <3>1. CASE rr + 1 = m
      <4>1. AllReachable'
        BY <1>m, <1>15, <2>3, <3>1 DEF AllReachable, Listed
      <4> QED BY <2>1, <4>1
    <3>2. CASE rr + 1 < m
      <4>1. rr' = rr + 1 /\ rr' = nextJob' - 1
        BY <1>1, <1>2, <1>4, <2>3, <3>2
      <4>2. ReachedTo(rr)'
        BY <1>15, <2>3, <4>1 DEF ReachedTo
      <4> QED BY <2>1, <4>1, <4>2
    <3> QED BY <1>4, <1>2, <3>1, <3>2
  <2> QED BY <1>5, <1>16, <1>17, <2>2, <2>3
<1>18. ASSUME opened' = Concurrency PROVE AllReachable' \/ nextJob' > l
  <2>0. /\ Concurrency \in Nat /\ NJobs \in Nat
        /\ \/ NJobs <= Concurrency
           \/ \A k \in 1 .. m : Families[k] # 0 =>
                 \E j \in 1 .. m : j <= Concurrency /\ Families[j] = Families[k]
    BY <1>m, ServersAssumption
  <2>1. CASE opened' = opened
    <3>1. AllReachable \/ nextJob > l
      BY <1>18, <1>l, <2>1 DEF PoolInv, ServersReached
    <3> QED BY <1>2, <1>13, <3>1
  <2>2. CASE opened' = opened + 1 /\ filling
    <3>1. CASE AllReachable
      BY <1>13, <3>1
    <3>2. CASE rr = nextJob - 1 /\ ReachedTo(rr)
      <4>1. rr + 1 >= Concurrency /\ nextJob >= Concurrency
        BY <1>2, <1>16, <1>18, <2>0, <2>2, <3>2
      <4>2. CASE \A k \in 1 .. m : Families[k] # 0 =>
                    \E j \in 1 .. m : j <= Concurrency /\ Families[j] = Families[k]
        <5> SUFFICES ASSUME NEW k \in 1 .. m, Families[k] # 0 PROVE Families[k] \in Reachable'
          BY <1>m DEF AllReachable, Listed
        <5>1. PICK j \in 1 .. m : j <= Concurrency /\ Families[j] = Families[k]
          BY <4>2
        <5>2. j \in 1 .. rr + 1
          BY <1>2, <2>0, <4>1, <5>1
        <5> QED BY <1>15, <3>2, <5>1, <5>2
      <4>3. CASE NJobs <= Concurrency
        BY <1>1, <1>2, <2>0, <4>1, <4>3
      <4> QED BY <2>0, <4>2, <4>3
    <3> QED BY <1>16, <2>2, <3>1, <3>2
  <2>3. CASE opened' = opened + 1 /\ ~filling
    <3>1. Dns!Reusable = {}
      BY <1>2, <2>3
    <3>2. free # {}
      BY <2>3 DEF PoolInv, PoolOrder
    <3>3. PICK r \in free : r \in Sock /\ r[1] # Dns!Family
      BY <1>2, <3>1, <3>2 DEF Dns!Reusable
    <3>4. r \in Pool' /\ s \in Pool' /\ r[1] \in {4, 6} /\ s[1] \in {4, 6} /\ r[1] # s[1]
      BY <1>10, <3>3 DEF Pool, Sock
    <3>5. 4 \in Reachable' /\ 6 \in Reachable'
      BY <3>4 DEF Reachable
    <3> QED BY <1>14, <1>m, <3>5 DEF AllReachable, Listed
  <2> QED BY <1>2, <2>1, <2>2, <2>3
<1>19. ServersReached'
  BY <1>1, <1>5, <1>10, <1>17, <1>18, <1>l DEF ServersReached
<1> QED BY <1>10, <1>11, <1>12, <1>19 DEF PoolInv

LEMMA PoolStep == ASSUME PoolInv, Dns!DnsNext PROVE PoolInv'
<1>1. CASE Dns!LaunchReuse
  <2>1. PICK s \in Dns!Reusable : Dns!SendOn(s)
    BY <1>1 DEF Dns!LaunchReuse
  <2>2. s \in free /\ s[1] = Dns!Family
    BY <2>1 DEF Dns!Reusable
  <2>3. s \in Sock /\ s \notin Carrying
    BY <2>2 DEF PoolInv, PoolTypes, SocketsExact, Carrying
  <2>4. dnsPc = "launch" /\ nextJob <= Len(queue) /\ opened' = opened
    BY <1>1 DEF Dns!LaunchReuse
  <2> QED BY <2>1, <2>2, <2>3, <2>4, QuerySent
<1>2. CASE Dns!LaunchNew
  <2> DEFINE s == <<Dns!Family, opened + 1>>
  <2>1. /\ Dns!SendOn(s) /\ dnsPc = "launch" /\ nextJob <= Len(queue) /\ opened' = opened + 1
        /\ Dns!Reusable = {}
    BY <1>2 DEF Dns!LaunchNew
  <2>2. opened \in Nat /\ Dns!Family \in {4, 6}
    BY <1>2, ServersListed, ServerInTurn DEF PoolInv, PoolTypes, Dns!LaunchNew
  <2>3. s \in Sock /\ s[1] = Dns!Family /\ s[2] = opened + 1
    BY <2>2 DEF Sock
  <2>4. s \notin Pool
    <3>1. \A r \in Pool : r[2] <= opened
      BY DEF PoolInv, SocketsExact
    <3> QED BY <2>2, <2>3, <3>1
  <2> HIDE DEF s
  <2> QED BY <2>1, <2>3, <2>4, QuerySent DEF Pool
<1> QED BY <1>1, <1>2, LaunchFails, JobSkipped, PoolWaits, ReplaceKeeps, PassEnds
        DEF Dns!DnsNext, Dns!DnsStep

LEMMA PoolSound == PoolInv => Dns!PoolExact /\ Dns!EveryJobSent
BY DnsCardinality DEF PoolInv, SocketsExact, JobsOnce, ServersReached, Dns!PoolExact,
   Dns!EveryJobSent, Dns!Positions

-----------------------------------------------------------------------------
(***************************************************************************)
(* The theorem.                                                            *)
(***************************************************************************)
\* Nothing that was to be tried is passed over when something before it fails: a socket of the
\* DNS engine is free or carries one query, and when the engine stops with its pool full
\* every query was sent; every handshake of the list has a result once a run is over; the
\* probes go out in the order of the plan, and a port has no service only after all of them;
\* while the ARP listener listens it has a receive armed on every slot, and a poll
\* (dns_query_batch, run_ssl_jobs, run_version_probe, receive_arp_reply).
THEOREM NothingSkippedCorrect == Spec => []NothingSkipped
<1> DEFINE TriedInv == PoolInv /\ SslInv /\ ProbeInv /\ ResolvedInv /\ ListenInv
<1>1. Init => TriedInv
  BY PoolStarts, SslStarts, ProbeStarts, ArpStarts, ListenStarts DEF Init
<1>2. TriedInv /\ [Next]_vars => TriedInv'
  <2> SUFFICES ASSUME PoolInv, SslInv, ProbeInv, ResolvedInv, ListenInv, [Next]_vars
               PROVE  PoolInv' /\ SslInv' /\ ProbeInv' /\ ResolvedInv' /\ ListenInv'
    OBVIOUS
  <2>1. PoolInv'
    <3>1. Dns!DnsNext \/ UNCHANGED dnsVars
      BY OnePartMoves
    <3> QED BY <3>1, PoolStep, PoolUntouched
  <2>2. SslInv'
    <3>1. Ssl!SslNext \/ UNCHANGED sslVars
      BY OnePartMoves
    <3> QED BY <3>1, SslStep, SslUntouched
  <2>3. ProbeInv'
    <3>1. Sv!VersionNext \/ UNCHANGED versionVars
      BY OnePartMoves
    <3> QED BY <3>1, ProbeStep, ProbeUntouched
  <2>4. Arp!ArpNext \/ UNCHANGED arpVars
    BY OnePartMoves
  <2>5. ResolvedInv'
    BY <2>4, ArpStep, ArpUntouched DEF arpVars
  <2>6. ListenInv'
    BY <2>4, <2>5, ListenStep, ListenUntouched
  <2> QED BY <2>1, <2>2, <2>3, <2>5, <2>6
<1>3. TriedInv => NothingSkipped
  BY PoolSound, ProbesExhaustively DEF NothingSkipped, SslInv, ListenInv
<1> HIDE DEF TriedInv
<1> QED BY <1>1, <1>2, <1>3, PTL DEF Spec

=============================================================================
