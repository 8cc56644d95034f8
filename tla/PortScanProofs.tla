---------------------------- MODULE PortScanProofs ----------------------------
(***************************************************************************)
(* Proofs about receive_response for every set of ports, every retry bound *)
(* and every ring size.                                                    *)
(***************************************************************************)
EXTENDS PortScan, FiniteSetTheorems, SequenceTheorems, TLAPS

\* The poison pill is enqueued once, last of all, when the receiver has left its loop.
PillIsLast ==
    \A i \in 1 .. Len(packet_queue) :
      is_poison(packet_queue[i]) => i = Len(packet_queue) /\ pc # "scan"

\* port_generation counts the retries handed to the sender, so it trails retry_count
\* by the retry that is scheduled and not yet handed over.
GenerationTrails ==
    \A p \in Ports :
      tx[p].generation = ps[p].retry_count - (IF ps[p].retry_send_deferred THEN 1 ELSE 0)

\* While the sender stores what it knows of a packet, that packet heads its batch.
MarkedHasHead == sender.state = "marked" => sender.batch # <<>>

TypeInv == TypeOK /\ PillIsLast /\ GenerationTrails /\ MarkedHasHead

\* A sequence of n or more elements of S begins with a sequence of n elements of S.
LEMMA PrefixType ==
    ASSUME NEW S, NEW q \in Seq(S), NEW n \in Nat, n <= Len(q)
    PROVE  /\ SubSeq(q, 1, n) \in Seq(S)
           /\ Len(SubSeq(q, 1, n)) = n
           /\ \A i \in 1 .. n : SubSeq(q, 1, n)[i] = q[i]
           /\ SubSeq(q, n + 1, Len(q)) \in Seq(S)
           /\ Len(SubSeq(q, n + 1, Len(q))) = Len(q) - n
           /\ \A i \in 1 .. Len(q) - n : SubSeq(q, n + 1, Len(q))[i] = q[n + i]
<1>1. Len(q) \in Nat /\ \A i \in 1 .. Len(q) : q[i] \in S
  BY LenProperties, ElementOfSeq
<1>2. \A i \in 1 .. n : q[i] \in S
  BY <1>1
<1>3. \A i \in n + 1 .. Len(q) : q[i] \in S
  BY <1>1
<1>4. /\ SubSeq(q, 1, n) \in Seq(S)
      /\ Len(SubSeq(q, 1, n)) = IF 1 <= n THEN n - 1 + 1 ELSE 0
      /\ \A i \in 1 .. n - 1 + 1 : SubSeq(q, 1, n)[i] = q[1 + i - 1]
  BY <1>2, SubSeqProperties
<1>5. /\ SubSeq(q, n + 1, Len(q)) \in Seq(S)
      /\ Len(SubSeq(q, n + 1, Len(q))) = IF n + 1 <= Len(q) THEN Len(q) - (n + 1) + 1 ELSE 0
      /\ \A i \in 1 .. Len(q) - (n + 1) + 1 : SubSeq(q, n + 1, Len(q))[i] = q[(n + 1) + i - 1]
  BY <1>1, <1>3, SubSeqProperties
<1>6. \A i \in 1 .. n : SubSeq(q, 1, n)[i] = q[i]
  BY <1>4
<1>7. \A i \in 1 .. Len(q) - n : SubSeq(q, n + 1, Len(q))[i] = q[n + i]
  BY <1>1, <1>5
<1> QED BY <1>1, <1>4, <1>5, <1>6, <1>7

\* What process_response leaves alone, and what it does to the verdict.
LEMMA ResponseFacts ==
    ASSUME NEW s \in PortState, NEW seg \in Segments, scan_type \in ScanTypes,
           fast_scan \in BOOLEAN
    PROVE  LET t == process_response(s, seg)
           IN  /\ t \in PortState
               /\ t.retry_count = s.retry_count /\ t.retries_cap = s.retries_cap
               /\ t.initial_send_deferred = s.initial_send_deferred
               /\ t.retry_send_deferred = s.retry_send_deferred
               /\ t.counted_in_retry = s.counted_in_retry
               /\ t.reported = s.reported \/ s.reported = "None"
               /\ t.final /\ ~s.final /\ ~s.connection_established => t.reported # "None"
               /\ t.connection_established /\ ~s.connection_established => t.reported # "None"
               /\ s.connection_established => t.connection_established
               /\ t.reported # s.reported => t.final \/ t.connection_established
<1>1. ASSUME NEW v \in Verdicts
      PROVE  /\ Report(s, v) \in PortState
             /\ Resolve(s, v) \in PortState
             /\ Report(s, v) = [s EXCEPT !.reported = IF @ = "None" THEN v ELSE @]
  BY DEF Report, Resolve, PortState, Verdicts
<1>2. RstVerdict(seg) \in Verdicts
  BY PortScanAssumption DEF RstVerdict, Verdicts, Segments, SynLike, FinLike
<1>3. CASE process_response(s, seg) = s
  BY <1>3 DEF PortState
<1>4. CASE process_response(s, seg) = Handshake(s)
  <2>1. CASE fast_scan = TRUE
    BY <1>4, <2>1 DEF Handshake, Report, PortState, Verdicts
  <2>2. CASE fast_scan = FALSE
    BY <1>4, <2>2, PortScanAssumption DEF Handshake, Report, PortState, Verdicts
  <2> QED BY <2>1, <2>2, PortScanAssumption
<1>5. CASE process_response(s, seg) = Resolve(s, RstVerdict(seg))
  <2>1. PICK v \in Verdicts : process_response(s, seg) = Resolve(s, v)
    BY <1>2, <1>5
  <2>2. CASE s.reported = "None"
    <3>1. process_response(s, seg) = [s EXCEPT !.reported = v, !.final = TRUE]
      BY <2>1, <2>2 DEF Resolve, Report
    <3> QED BY <3>1, <2>2 DEF PortState, Verdicts
  <2>3. CASE s.reported # "None"
    <3>1. process_response(s, seg) = [s EXCEPT !.final = TRUE]
      BY <2>1, <2>3 DEF Resolve, Report
    <3> QED BY <3>1, <2>3 DEF PortState, Verdicts
  <2> QED BY <2>2, <2>3
<1>6. CASE process_response(s, seg) = Teardown(s, seg)
  BY <1>6 DEF Teardown, PortState
<1> QED BY <1>3, <1>4, <1>5, <1>6 DEF process_response

-----------------------------------------------------------------------------
(***************************************************************************)
(* Type correctness.                                                       *)
(***************************************************************************)
LEMMA TypeInit == Init => TypeInv
<1> SUFFICES ASSUME Init PROVE TypeInv
  OBVIOUS
<1> USE PortScanAssumption
<1>1. IsFiniteSet(Ports) /\ Cardinality(Ports) \in Nat
  BY FS_CardinalityType
<1>2. ps \in [Ports -> PortState]
  BY DEF Init, PortState, Attempts, Verdicts
<1>3. tx \in [Ports -> TxState]
  BY DEF Init, TxState, Attempts, NoStamp
<1>4. /\ result \in [open_ports : Seq(Ports), closed_ports : Nat, filtered_ports : Seq(Ports)]
      /\ packet_queue \in Seq(Tasks \cup {poison_pill})
      /\ sender \in [state : {"wait", "send", "marked", "exited"}, batch : Seq(Tasks),
                     filing : SUBSET Tasks, shutdown_requested : BOOLEAN]
  BY EmptySeq DEF Init
<1>5. PillIsLast /\ GenerationTrails /\ MarkedHasHead
  BY DEF Init, PillIsLast, GenerationTrails, MarkedHasHead
<1>6. /\ heap \in [Ports -> Nat] /\ gate \in [Ports -> Nat]
      /\ active_count \in Int /\ ports_in_retry \in Int
  BY <1>1 DEF Init
<1>7. TypeOK
  BY <1>2, <1>3, <1>4, <1>6 DEF Init, TypeOK
<1> QED BY <1>5, <1>7 DEF TypeInv

\* What the step of a port from s to t adds to result is well typed.
LEMMA ReportedType ==
    ASSUME TypeOK, NEW p \in Ports, NEW s \in PortState, NEW t \in PortState,
           t.reported = s.reported \/ s.reported = "None"
    PROVE  Reported(p, s, t) \in [open_ports : Seq(Ports), closed_ports : Nat,
                                  filtered_ports : Seq(Ports)]
<1>1. result \in [open_ports : Seq(Ports), closed_ports : Nat, filtered_ports : Seq(Ports)]
  BY DEF TypeOK
<1>2. /\ Append(result.open_ports, p) \in Seq(Ports)
      /\ Append(result.filtered_ports, p) \in Seq(Ports)
      /\ result.closed_ports + 1 \in Nat
  BY <1>1, AppendProperties
<1>3. CASE t.reported = s.reported
  BY <1>1, <1>3 DEF Reported
<1>4. CASE t.reported # s.reported
  <2>1. t.reported \in Verdicts
    BY <1>4 DEF PortState
  <2>2. CASE t.reported = "Open"
    BY <1>1, <1>2, <1>4, <2>2 DEF Reported
  <2>3. CASE t.reported = "Closed"
    BY <1>1, <1>2, <1>4, <2>3 DEF Reported
  <2>4. CASE t.reported = "Filtered"
    BY <1>1, <1>2, <1>4, <2>4 DEF Reported
  <2> QED BY <2>1, <2>2, <2>3, <2>4 DEF Verdicts
<1> QED BY <1>3, <1>4

\* The bookkeeping of Account touches the port it is about and no other.
LEMMA AccountFacts ==
    ASSUME TypeOK, NEW p \in Ports, NEW t \in PortState, Account(p, t)
    PROVE  /\ ps' \in [Ports -> PortState]
           /\ active_count' \in Int /\ ports_in_retry' \in Int
           /\ ps'[p] = IF t.final THEN [t EXCEPT !.counted_in_retry = FALSE] ELSE t
           /\ ps'[p].retry_count = t.retry_count
           /\ ps'[p].retry_send_deferred = t.retry_send_deferred
           /\ ps'[p].final = t.final /\ ps'[p].reported = t.reported
           /\ ps'[p].connection_established = t.connection_established
           /\ \A q \in Ports : q # p => ps'[q] = ps[q]
<1>1. CASE t.final
  <2>1. [t EXCEPT !.counted_in_retry = FALSE] \in PortState
    BY DEF PortState
  <2>2. ps' = [ps EXCEPT ![p] = [t EXCEPT !.counted_in_retry = FALSE]]
    BY <1>1 DEF Account
  <2>3. active_count' \in Int /\ ports_in_retry' \in Int
    BY <1>1 DEF Account, TypeOK
  <2> QED BY <1>1, <2>1, <2>2, <2>3 DEF TypeOK, PortState
<1>2. CASE ~t.final
  BY <1>2 DEF Account, TypeOK
<1> QED BY <1>1, <1>2

\* The packets that follow a reply are tasks, not pills.
LEMMA FollowUpsType ==
    ASSUME NEW p \in Ports, NEW s \in PortState, NEW t \in PortState
    PROVE  FollowUps(p, s, t) \in Seq(Tasks)
<1>1. \A kind \in {"ACK", "FINACK", "LASTACK"} : Task(p, kind, s.retry_count) \in Tasks
  BY DEF Task, Tasks, PortState
<1> DEFINE opening == IF t.fin_sent /\ ~s.fin_sent
                        THEN <<Task(p, "ACK", s.retry_count), Task(p, "FINACK", s.retry_count)>>
                        ELSE <<>>
           closing == IF t.fin_ack_received /\ ~s.fin_ack_received
                        THEN <<Task(p, "LASTACK", s.retry_count)>> ELSE <<>>
<1>2. opening \in Seq(Tasks) /\ closing \in Seq(Tasks)
  BY <1>1
<1>3. opening \o closing \in Seq(Tasks)
  BY <1>2, ConcatProperties
<1> QED BY <1>3 DEF FollowUps

\* Tasks added to the queue while the receiver is in its loop leave no pill in it.
LEMMA EnqueueTasks ==
    ASSUME TypeInv, pc = "scan", NEW q \in Seq(Tasks), packet_queue' = packet_queue \o q
    PROVE  /\ packet_queue' \in Seq(Tasks \cup {poison_pill})
           /\ \A i \in 1 .. Len(packet_queue') : ~is_poison(packet_queue'[i])
<1>1. packet_queue \in Seq(Tasks \cup {poison_pill}) /\ q \in Seq(Tasks \cup {poison_pill})
  <2>1. Seq(Tasks) \subseteq Seq(Tasks \cup {poison_pill})
    BY SeqMonotonic
  <2> QED BY <2>1 DEF TypeInv, TypeOK
<1>2. /\ packet_queue' \in Seq(Tasks \cup {poison_pill})
      /\ Len(packet_queue') = Len(packet_queue) + Len(q)
      /\ \A i \in 1 .. Len(packet_queue) + Len(q) :
           packet_queue'[i] = IF i <= Len(packet_queue) THEN packet_queue[i]
                              ELSE q[i - Len(packet_queue)]
  BY <1>1, ConcatProperties
<1>3. \A i \in 1 .. Len(q) : ~is_poison(q[i])
  BY ElementOfSeq DEF Tasks, is_poison, poison_pill
<1>4. \A i \in 1 .. Len(packet_queue) : ~is_poison(packet_queue[i])
  BY DEF TypeInv, PillIsLast
<1>5. Len(packet_queue) \in Nat /\ Len(q) \in Nat
  BY <1>1, LenProperties
<1>6. ASSUME NEW i \in 1 .. Len(packet_queue') PROVE ~is_poison(packet_queue'[i])
  <2>1. CASE i <= Len(packet_queue)
    BY <1>2, <1>4, <1>5, <2>1
  <2>2. CASE i > Len(packet_queue)
    BY <1>2, <1>3, <1>5, <2>2
  <2> QED BY <1>2, <1>5, <2>1, <2>2
<1> QED BY <1>2, <1>6

\* A decided port: the atomics Reply and IcmpProhibited reset stay in their types.
LEMMA TxReset ==
    ASSUME TypeOK, NEW p \in Ports
    PROVE  LET u == [tx EXCEPT ![p].tx_ts = NoStamp, ![p].probe_outstanding = FALSE]
           IN  /\ u \in [Ports -> TxState]
               /\ \A q \in Ports : u[q].generation = tx[q].generation
<1> DEFINE r == [tx[p] EXCEPT !.tx_ts = NoStamp, !.probe_outstanding = FALSE]
<1>1. tx \in [Ports -> TxState]
  BY DEF TypeOK
<1>2. tx[p] \in TxState
  BY <1>1
<1>3. r \in TxState /\ r.generation = tx[p].generation
  BY <1>2 DEF TxState
<1> HIDE DEF r
<1>4. /\ [tx EXCEPT ![p] = r] \in [Ports -> TxState]
      /\ \A q \in Ports : [tx EXCEPT ![p] = r][q].generation = tx[q].generation
  BY <1>1, <1>3
<1>5. [tx EXCEPT ![p].tx_ts = NoStamp, ![p].probe_outstanding = FALSE] = [tx EXCEPT ![p] = r]
  BY <1>1 DEF r
<1> QED BY <1>4, <1>5

LEMMA TypeReply ==
    ASSUME TypeInv, NEW p \in Ports, NEW seg \in Segments, NEW usable \in BOOLEAN,
           Reply(p, seg, usable)
    PROVE  TypeInv'
<1> DEFINE s == IF usable THEN [ps[p] EXCEPT !.rtt_measured = TRUE] ELSE ps[p]
           t == process_response(s, seg)
<1>1. TypeOK /\ scan_type \in ScanTypes /\ fast_scan \in BOOLEAN /\ pc = "scan"
  BY DEF TypeInv, TypeOK, Reply
<1>2. s \in PortState /\ s.retry_count = ps[p].retry_count
        /\ s.retry_send_deferred = ps[p].retry_send_deferred /\ s.reported = ps[p].reported
  <2>1. ps[p] \in PortState
    BY <1>1 DEF TypeOK
  <2>2. CASE usable
    BY <2>1, <2>2 DEF PortState
  <2>3. CASE ~usable
    BY <2>1, <2>3
  <2> QED BY <2>2, <2>3
<1>3. /\ Account(p, t)
      /\ result' = Reported(p, s, t)
      /\ packet_queue' = packet_queue \o FollowUps(p, s, t)
      /\ tx' = IF t.final THEN [tx EXCEPT ![p].tx_ts = NoStamp,
                                          ![p].probe_outstanding = FALSE]
                          ELSE tx
      /\ has_measurement' = (has_measurement \/ usable)
      /\ IF usable /\ ~has_measurement THEN ReleaseGate ELSE UNCHANGED <<heap, gate>>
      /\ UNCHANGED <<scan_type, fast_scan, sentinel, phase1_over, sender, stamps, pc, terminate_flag,
                     aborted, transmitted, overtaken>>
  BY DEF Reply, args, endVars, history
<1> HIDE DEF s
<1>4. /\ t \in PortState
      /\ t.retry_count = s.retry_count /\ t.retry_send_deferred = s.retry_send_deferred
      /\ t.reported = s.reported \/ s.reported = "None"
  BY <1>1, <1>2, ResponseFacts
<1> HIDE DEF t
<1>5. /\ ps' \in [Ports -> PortState]
      /\ active_count' \in Int /\ ports_in_retry' \in Int
      /\ ps'[p].retry_count = ps[p].retry_count
      /\ ps'[p].retry_send_deferred = ps[p].retry_send_deferred
      /\ \A q \in Ports : q # p => ps'[q] = ps[q]
  BY <1>1, <1>2, <1>3, <1>4, AccountFacts
<1>6. result' \in [open_ports : Seq(Ports), closed_ports : Nat, filtered_ports : Seq(Ports)]
  BY <1>1, <1>2, <1>3, <1>4, ReportedType
<1>7. /\ packet_queue' \in Seq(Tasks \cup {poison_pill})
      /\ \A i \in 1 .. Len(packet_queue') : ~is_poison(packet_queue'[i])
  BY <1>1, <1>2, <1>3, <1>4, FollowUpsType, EnqueueTasks
<1>8. /\ tx' \in [Ports -> TxState]
      /\ \A q \in Ports : tx'[q].generation = tx[q].generation
  BY <1>1, <1>3, TxReset DEF TypeOK
<1>9. heap' \in [Ports -> Nat] /\ gate' \in [Ports -> Nat] /\ has_measurement' \in BOOLEAN
  <2>1. has_measurement' \in BOOLEAN
    BY <1>3
  <2>2. CASE usable /\ ~has_measurement
    BY <1>1, <1>3, <2>2 DEF ReleaseGate, TypeOK
  <2>3. CASE ~(usable /\ ~has_measurement)
    BY <1>1, <1>3, <2>3 DEF TypeOK
  <2> QED BY <2>1, <2>2, <2>3
<1>10. TypeOK'
  BY <1>1, <1>3, <1>5, <1>6, <1>7, <1>8, <1>9 DEF TypeOK
<1>11. GenerationTrails'
  BY <1>5, <1>8 DEF GenerationTrails, TypeInv
<1> QED BY <1>3, <1>7, <1>10, <1>11 DEF TypeInv, PillIsLast, MarkedHasHead

LEMMA TypeIcmp ==
    ASSUME TypeInv, NEW p \in Ports, NEW sport \in Attempts, IcmpProhibited(p, sport)
    PROVE  TypeInv'
<1> DEFINE t == Resolve(ps[p], "Filtered")
<1>1. TypeOK /\ ps[p] \in PortState /\ ps[p].reported = "None"
  BY DEF TypeInv, TypeOK, IcmpProhibited
<1>2. /\ t \in PortState
      /\ t.retry_count = ps[p].retry_count /\ t.retry_send_deferred = ps[p].retry_send_deferred
  BY <1>1 DEF Resolve, Report, PortState, Verdicts
<1>3. /\ Account(p, t) /\ result' = Reported(p, ps[p], t)
      /\ tx' = [tx EXCEPT ![p].tx_ts = NoStamp, ![p].probe_outstanding = FALSE]
      /\ UNCHANGED <<scan_type, fast_scan, heap, gate, sentinel, phase1_over, has_measurement,
                     packet_queue, sender, stamps, transmitted, overtaken, pc, terminate_flag, aborted>>
  BY DEF IcmpProhibited, args, gateVars, senderVars, endVars, history
<1> HIDE DEF t
<1>4. /\ ps' \in [Ports -> PortState]
      /\ active_count' \in Int /\ ports_in_retry' \in Int
      /\ ps'[p].retry_count = ps[p].retry_count
      /\ ps'[p].retry_send_deferred = ps[p].retry_send_deferred
      /\ \A q \in Ports : q # p => ps'[q] = ps[q]
  BY <1>1, <1>2, <1>3, AccountFacts
<1>5. result' \in [open_ports : Seq(Ports), closed_ports : Nat, filtered_ports : Seq(Ports)]
  BY <1>1, <1>2, <1>3, ReportedType
<1>6. /\ tx' \in [Ports -> TxState]
      /\ \A q \in Ports : tx'[q].generation = tx[q].generation
  BY <1>1, <1>3, TxReset
<1>7. TypeOK'
  BY <1>1, <1>3, <1>4, <1>5, <1>6 DEF TypeOK
<1>8. GenerationTrails'
  BY <1>4, <1>6 DEF GenerationTrails, TypeInv
<1>9. PillIsLast'
  BY <1>3 DEF PillIsLast, TypeInv
<1> QED BY <1>3, <1>7, <1>8, <1>9 DEF TypeInv, MarkedHasHead

\* The steps that work through deadline_heap.
LEMMA TypeHeapStep ==
    ASSUME TypeInv, NEW p \in Ports, HeapStep(p)
    PROVE  TypeInv'
<1> USE PortScanAssumption DEF args, gateVars, senderVars, endVars, history
<1>1. TypeOK /\ ps[p] \in PortState /\ tx[p] \in TxState /\ heap[p] \in Nat
  BY DEF TypeInv, TypeOK
<1>2. Pop(p) = [heap EXCEPT ![p] = heap[p] - 1]
  BY DEF Pop
<1>3. CASE DropEntry(p)
  <2>1. heap' \in [Ports -> Nat]
    BY <1>1, <1>2, <1>3 DEF DropEntry, TypeOK
  <2> QED BY <1>3, <2>1 DEF DropEntry, TypeInv, TypeOK, PillIsLast, GenerationTrails, MarkedHasHead
<1>4. ASSUME heap' = [Pop(p) EXCEPT ![p] = @ + 1] PROVE heap' \in [Ports -> Nat]
  BY <1>1, <1>2, <1>4 DEF TypeOK
<1>5. ASSUME NEW a \in Attempts, pc = "scan",
             packet_queue' = Append(packet_queue, Task(p, "probe", a))
      PROVE  /\ packet_queue' \in Seq(Tasks \cup {poison_pill})
             /\ \A i \in 1 .. Len(packet_queue') : ~is_poison(packet_queue'[i])
  <2>1. Task(p, "probe", a) \in Tasks
    BY DEF Task, Tasks
  <2>2. <<Task(p, "probe", a)>> \in Seq(Tasks)
    BY <2>1
  <2>3. packet_queue' = packet_queue \o <<Task(p, "probe", a)>>
    BY <1>1, <1>5, <2>1, AppendIsConcat DEF TypeOK
  <2> QED BY <1>5, <2>2, <2>3, EnqueueTasks
<1>6. CASE InitialSend(p)
  <2>1. pc = "scan" /\ packet_queue' = Append(packet_queue, Task(p, "probe", 0))
    BY <1>6 DEF InitialSend, Due
  <2>2. 0 \in Attempts
    BY DEF Attempts
  <2>3. /\ packet_queue' \in Seq(Tasks \cup {poison_pill})
        /\ \A i \in 1 .. Len(packet_queue') : ~is_poison(packet_queue'[i])
    BY <1>5, <2>1, <2>2
  <2>4. /\ ps' \in [Ports -> PortState]
        /\ \A q \in Ports : /\ ps'[q].retry_count = ps[q].retry_count
                             /\ ps'[q].retry_send_deferred = ps[q].retry_send_deferred
    BY <1>1, <1>6 DEF InitialSend, TypeOK, PortState
  <2>5. heap' \in [Ports -> Nat]
    BY <1>4, <1>6 DEF InitialSend
  <2>6. UNCHANGED <<scan_type, fast_scan, tx, gate, sentinel, phase1_over, has_measurement, active_count,
                    ports_in_retry, result, sender, stamps, transmitted, overtaken, pc, terminate_flag,
                    aborted>>
    BY <1>6 DEF InitialSend
  <2>7. TypeOK'
    BY <1>1, <2>3, <2>4, <2>5, <2>6 DEF TypeOK
  <2>8. GenerationTrails'
    BY <2>4, <2>6 DEF GenerationTrails, TypeInv
  <2> QED BY <2>3, <2>6, <2>7, <2>8 DEF TypeInv, PillIsLast, MarkedHasHead
<1>7. CASE RetrySend(p)
  <2>1. /\ pc = "scan" /\ ps[p].retry_send_deferred = TRUE
        /\ packet_queue' = Append(packet_queue, Task(p, "probe", ps[p].retry_count))
        /\ ps' = [ps EXCEPT ![p].retry_send_deferred = FALSE]
        /\ tx' = [tx EXCEPT ![p] = [real_tx |-> FALSE, probe_outstanding |-> FALSE,
                                    generation |-> tx[p].generation + 1,
                                    tx_ts |-> NoStamp, tx_ts_precise |-> FALSE]]
    BY <1>1, <1>7 DEF RetrySend, Due, PortState
  <2>2. ps[p].retry_count \in Attempts
    BY <1>1 DEF PortState
  <2>3. /\ packet_queue' \in Seq(Tasks \cup {poison_pill})
        /\ \A i \in 1 .. Len(packet_queue') : ~is_poison(packet_queue'[i])
    BY <1>5, <2>1, <2>2
  <2>4. tx[p].generation + 1 = ps[p].retry_count
    BY <1>1, <2>1 DEF TypeInv, GenerationTrails, PortState, TxState, Attempts
  <2>5. tx' \in [Ports -> TxState]
    BY <1>1, <2>1, <2>2, <2>4 DEF TypeOK, TxState
  <2>6. ps' \in [Ports -> PortState]
    BY <1>1, <2>1 DEF TypeOK, PortState
  <2>7. GenerationTrails'
    <3>1. /\ ps'[p].retry_count = ps[p].retry_count /\ ps'[p].retry_send_deferred = FALSE
          /\ tx'[p].generation = ps[p].retry_count
      BY <1>1, <2>1, <2>4 DEF TypeOK, PortState
    <3>2. \A q \in Ports : q # p => ps'[q] = ps[q] /\ tx'[q] = tx[q]
      BY <1>1, <2>1 DEF TypeOK
    <3>3. ps[p].retry_count \in Int
      BY <2>2, PortScanAssumption DEF Attempts
    <3> QED BY <3>1, <3>2, <3>3 DEF GenerationTrails, TypeInv
  <2>8. heap' \in [Ports -> Nat]
    BY <1>4, <1>7 DEF RetrySend
  <2>9. /\ UNCHANGED <<scan_type, fast_scan, gate, sentinel, phase1_over, has_measurement,
                       active_count, ports_in_retry, result, sender, stamps, transmitted, pc,
                       terminate_flag, aborted>>
        /\ overtaken' \subseteq Tasks
    BY <1>1, <1>7 DEF RetrySend, TypeOK
  <2>10. TypeOK'
    BY <1>1, <2>3, <2>5, <2>6, <2>8, <2>9 DEF TypeOK
  <2>11. PillIsLast'
    BY <2>3 DEF PillIsLast
  <2> QED BY <2>7, <2>9, <2>10, <2>11 DEF TypeInv, MarkedHasHead
<1>8. CASE Park(p)
  <2>1. heap' \in [Ports -> Nat]
    BY <1>1, <1>2, <1>8 DEF Park, MayRetry, RetryDecision, Due, TypeOK
  <2>2. gate' \in [Ports -> Nat] /\ sentinel' \in {"unarmed", "in_heap", "fired"}
    BY <1>1, <1>8 DEF Park, TypeOK
  <2>3. UNCHANGED <<scan_type, fast_scan, ps, tx, phase1_over, has_measurement, active_count,
                    ports_in_retry, result, packet_queue, sender, stamps, transmitted, overtaken,
                    pc, terminate_flag, aborted>>
    BY <1>8 DEF Park
  <2>4. TypeOK'
    BY <1>1, <2>1, <2>2, <2>3 DEF TypeOK
  <2>5. PillIsLast'
    BY <2>3 DEF TypeInv, PillIsLast
  <2>6. GenerationTrails'
    BY <2>3 DEF TypeInv, GenerationTrails
  <2> QED BY <2>3, <2>4, <2>5, <2>6 DEF TypeInv, MarkedHasHead
<1>9. CASE GiveUp(p)
  <2> DEFINE t == Resolve(ps[p], "Filtered")
  <2>1. /\ t \in PortState
        /\ t.retry_count = ps[p].retry_count
        /\ t.retry_send_deferred = ps[p].retry_send_deferred
        /\ t.reported = ps[p].reported \/ ps[p].reported = "None"
    BY <1>1 DEF Resolve, Report, PortState, Verdicts
  <2>2. Account(p, t) /\ result' = Reported(p, ps[p], t)
    BY <1>9 DEF GiveUp
  <2> HIDE DEF t
  <2>3. /\ ps' \in [Ports -> PortState]
        /\ active_count' \in Int /\ ports_in_retry' \in Int
        /\ ps'[p].retry_count = ps[p].retry_count
        /\ ps'[p].retry_send_deferred = ps[p].retry_send_deferred
        /\ \A q \in Ports : q # p => ps'[q] = ps[q]
    BY <1>1, <2>1, <2>2, AccountFacts
  <2>4. result' \in [open_ports : Seq(Ports), closed_ports : Nat, filtered_ports : Seq(Ports)]
    BY <1>1, <2>1, <2>2, ReportedType
  <2>5. heap' \in [Ports -> Nat]
    BY <1>1, <1>2, <1>9 DEF GiveUp, Due, TypeOK
  <2>6. UNCHANGED <<scan_type, fast_scan, tx, gate, sentinel, phase1_over, has_measurement, packet_queue,
                    sender, stamps, transmitted, overtaken, pc, terminate_flag, aborted>>
    BY <1>9 DEF GiveUp
  <2>7. GenerationTrails'
    BY <2>3, <2>6 DEF GenerationTrails, TypeInv
  <2>8. TypeOK'
    BY <1>1, <2>3, <2>4, <2>5, <2>6 DEF TypeOK
  <2>9. PillIsLast'
    BY <2>6 DEF TypeInv, PillIsLast
  <2> QED BY <2>6, <2>7, <2>8, <2>9 DEF TypeInv, MarkedHasHead
<1>10. ASSUME NEW cap \in MinRetries .. MaxRetries, ScheduleRetry(p, cap) PROVE TypeInv'
  <2>1. /\ ps[p].retry_count < ps[p].retries_cap /\ ps[p].retry_send_deferred = FALSE
        /\ ps[p].retry_count \in Attempts /\ ps[p].retries_cap \in Attempts
    BY <1>1, <1>10 DEF ScheduleRetry, MayRetry, RetryDecision, PortState
  <2>2. ps[p].retry_count + 1 \in Attempts /\ cap \in Attempts
    BY <2>1 DEF Attempts
  <2>3. /\ ps' = [ps EXCEPT ![p].retry_count = ps[p].retry_count + 1,
                           ![p].retries_cap = IF ps[p].retry_count = 0 THEN cap ELSE @,
                           ![p].counted_in_retry = ps[p].retry_count = 0 \/ @,
                           ![p].retry_send_deferred = TRUE]
        /\ ports_in_retry' = ports_in_retry + (IF ps[p].retry_count = 0 THEN 1 ELSE 0)
        /\ heap' = [Pop(p) EXCEPT ![p] = @ + 1]
        /\ UNCHANGED <<scan_type, fast_scan, tx, gate, sentinel, phase1_over, has_measurement,
                       active_count, result, packet_queue, sender, stamps, transmitted, overtaken,
                       pc, terminate_flag, aborted>>
    BY <1>10 DEF ScheduleRetry
  <2>4. ps' \in [Ports -> PortState]
    BY <1>1, <2>2, <2>3 DEF TypeOK, PortState
  <2>5. GenerationTrails'
    <3>1. /\ ps'[p].retry_count = ps[p].retry_count + 1 /\ ps'[p].retry_send_deferred = TRUE
          /\ tx'[p].generation = ps[p].retry_count
      BY <1>1, <2>1, <2>3 DEF GenerationTrails, TypeInv, TypeOK, PortState, Attempts
    <3>2. \A q \in Ports : q # p => ps'[q] = ps[q] /\ tx'[q] = tx[q]
      BY <1>1, <2>3 DEF TypeOK
    <3>3. ps[p].retry_count \in Int
      BY <2>1, PortScanAssumption DEF Attempts
    <3> QED BY <3>1, <3>2, <3>3 DEF GenerationTrails, TypeInv
  <2>6. heap' \in [Ports -> Nat] /\ ports_in_retry' \in Int
    BY <1>1, <1>4, <2>3 DEF TypeOK
  <2>7. TypeOK'
    BY <1>1, <2>3, <2>4, <2>6 DEF TypeOK
  <2>8. PillIsLast'
    BY <2>3 DEF TypeInv, PillIsLast
  <2> QED BY <2>3, <2>5, <2>7, <2>8 DEF TypeInv, MarkedHasHead
<1> QED BY <1>3, <1>6, <1>7, <1>8, <1>9, <1>10 DEF HeapStep

\* The steps of the receiver that concern no port in particular.
LEMMA TypeReceiver ==
    ASSUME TypeInv,
           Phase1Deadline \/ Sentinel \/ LoopExit \/ IcmpFatal \/ Return \/ Terminate
    PROVE  TypeInv'
<1> USE DEF args, gateVars, senderVars, endVars, history
<1>1. CASE Phase1Deadline
  BY <1>1 DEF Phase1Deadline, TypeInv, TypeOK, PillIsLast, GenerationTrails, MarkedHasHead
<1>2. CASE Sentinel
  <2>1. heap' \in [Ports -> Nat] /\ gate' \in [Ports -> Nat] /\ sentinel' = "fired"
    BY <1>2 DEF Sentinel, ReleaseGate, TypeInv, TypeOK
  <2>2. UNCHANGED <<scan_type, fast_scan, ps, tx, phase1_over, has_measurement, active_count,
                    ports_in_retry, result, packet_queue, sender, stamps, transmitted, overtaken,
                    pc, terminate_flag, aborted>>
    BY <1>2 DEF Sentinel
  <2> QED BY <2>1, <2>2 DEF TypeInv, TypeOK, PillIsLast, GenerationTrails, MarkedHasHead
<1>3. ASSUME pc = "scan", Shutdown, terminate_flag' = terminate_flag, aborted' \in BOOLEAN
      PROVE  TypeInv'
  <2>1. packet_queue \in Seq(Tasks \cup {poison_pill}) /\ Len(packet_queue) \in Nat
    BY LenProperties DEF TypeInv, TypeOK
  <2>2. /\ packet_queue' \in Seq(Tasks \cup {poison_pill})
        /\ Len(packet_queue') = Len(packet_queue) + 1
        /\ \A i \in 1 .. Len(packet_queue) : packet_queue'[i] = packet_queue[i]
    BY <1>3, <2>1, AppendProperties DEF Shutdown
  <2>3. pc' = "join"
    BY <1>3 DEF Shutdown
  <2>4. PillIsLast'
    BY <1>3, <2>1, <2>2, <2>3 DEF TypeInv, PillIsLast
  <2>5. UNCHANGED <<scan_type, fast_scan, ps, tx, heap, gate, sentinel, phase1_over, has_measurement,
                    active_count, ports_in_retry, result, sender, stamps, transmitted, overtaken, overtaken>>
    BY <1>3 DEF Shutdown
  <2> QED BY <1>3, <2>2, <2>3, <2>4, <2>5 DEF TypeInv, TypeOK, GenerationTrails, MarkedHasHead
<1>4. CASE LoopExit
  BY <1>3, <1>4 DEF LoopExit, TypeInv, TypeOK
<1>5. CASE IcmpFatal
  BY <1>3, <1>5 DEF IcmpFatal
<1>6. CASE Return
  BY <1>6 DEF Return, TypeInv, TypeOK, PillIsLast, GenerationTrails, MarkedHasHead
<1>7. CASE Terminate
  BY <1>7 DEF Terminate, TypeInv, TypeOK, PillIsLast, GenerationTrails, MarkedHasHead
<1> QED BY <1>1, <1>2, <1>4, <1>5, <1>6, <1>7

LEMMA TypeTxTimestamp ==
    ASSUME TypeInv, NEW st \in stamps, TxTimestamp(st)
    PROVE  TypeInv'
<1> USE DEF args, gateVars, endVars
<1>1. TypeOK /\ st \in [port : Ports, attempt : Attempts, generation : Attempts]
  BY DEF TypeInv, TypeOK
<1>2. /\ tx' \in [Ports -> TxState]
      /\ \A q \in Ports : tx'[q].generation = tx[q].generation
  <2>1. CASE tx[st.port].generation = st.generation
    <3>1. tx' = [tx EXCEPT ![st.port].tx_ts = st.attempt, ![st.port].tx_ts_precise = TRUE]
      BY <2>1 DEF TxTimestamp
    <3>2. st.port \in Ports /\ st.attempt \in Attempts /\ tx[st.port] \in TxState
      BY <1>1 DEF TypeOK
    <3>3. tx'[st.port] = [tx[st.port] EXCEPT !.tx_ts = st.attempt, !.tx_ts_precise = TRUE]
      BY <1>1, <3>1, <3>2 DEF TypeOK
    <3>4. tx'[st.port] \in TxState /\ tx'[st.port].generation = tx[st.port].generation
      BY <3>2, <3>3 DEF TxState
    <3>5. \A q \in Ports : q # st.port => tx'[q] = tx[q]
      BY <1>1, <3>1, <3>2 DEF TypeOK
    <3>6. tx' = [q \in Ports |-> tx'[q]]
      BY <1>1, <3>1 DEF TypeOK
    <3> QED BY <1>1, <3>4, <3>5, <3>6 DEF TypeOK
  <2>2. CASE tx[st.port].generation # st.generation
    BY <1>1, <2>2 DEF TxTimestamp, TypeOK
  <2> QED BY <2>1, <2>2
<1>3. /\ stamps' \subseteq stamps
      /\ UNCHANGED <<scan_type, fast_scan, ps, heap, gate, sentinel, phase1_over, has_measurement,
                     active_count, ports_in_retry, result, packet_queue, sender, pc,
                     terminate_flag, aborted, transmitted, overtaken>>
  BY DEF TxTimestamp, history
<1> QED BY <1>1, <1>2, <1>3 DEF TypeInv, TypeOK, PillIsLast, GenerationTrails, MarkedHasHead

\* The head of the batch is a packet, and what is left of it is a batch again.
LEMMA HeadFacts ==
    ASSUME TypeOK, sender.batch # <<>>
    PROVE  /\ Head(sender.batch) \in Tasks /\ Head(sender.batch) = sender.batch[1]
           /\ Tail(sender.batch) \in Seq(Tasks)
           /\ Len(sender.batch) \in Nat \ {0}
           /\ Tail(sender.batch) = SubSeq(sender.batch, 2, Len(sender.batch))
<1>1. sender.batch \in Seq(Tasks)
  BY DEF TypeOK
<1> QED BY <1>1, HeadTailProperties, EmptySeq, LenProperties

LEMMA TypeSender ==
    ASSUME TypeInv, SenderStep
    PROVE  TypeInv'
<1> USE DEF args, gateVars, senderVars, endVars, history
<1>1. TypeOK
  BY DEF TypeInv
<1>2. ASSUME NEW k \in 1 .. Len(packet_queue), Dequeue(k) PROVE TypeInv'
  <2> DEFINE shut == is_poison(packet_queue[k])
             n == IF shut THEN k - 1 ELSE k
  <2>1. packet_queue \in Seq(Tasks \cup {poison_pill}) /\ Len(packet_queue) \in Nat
    BY <1>1, LenProperties DEF TypeOK
  <2>2. n \in Nat /\ n <= Len(packet_queue) /\ k \in Nat /\ k <= Len(packet_queue) /\ n <= k
    BY <2>1
  <2>3. \A i \in 1 .. n : packet_queue[i] \in Tasks
    <3>1. ASSUME NEW i \in 1 .. n PROVE ~is_poison(packet_queue[i])
      BY <2>1, <2>2 DEF TypeInv, PillIsLast
    <3> QED BY <2>1, <2>2, <3>1, ElementOfSeq DEF is_poison
  <2>4. /\ sender' = [state |-> IF SubSeq(packet_queue, 1, n) # <<>> THEN "send"
                                ELSE IF shut THEN "exited" ELSE "wait",
                      batch |-> SubSeq(packet_queue, 1, n), filing |-> {},
                      shutdown_requested |-> shut]
        /\ packet_queue' = SubSeq(packet_queue, k + 1, Len(packet_queue))
        /\ UNCHANGED <<scan_type, fast_scan, ps, tx, heap, gate, sentinel, phase1_over, has_measurement,
                       active_count, ports_in_retry, result, stamps, pc, terminate_flag,
                       aborted, transmitted, overtaken>>
    BY <1>2 DEF Dequeue
  <2>5. shut \in BOOLEAN
    BY DEF is_poison
  <2> HIDE DEF n, shut
  <2>6. SubSeq(packet_queue, 1, n) \in Seq(Tasks)
    BY <2>2, <2>3, SubSeqProperties
  <2>7. sender' \in [state : {"wait", "send", "marked", "exited"}, batch : Seq(Tasks),
                     filing : SUBSET Tasks, shutdown_requested : BOOLEAN]
    BY <2>4, <2>5, <2>6
  <2>8. /\ packet_queue' \in Seq(Tasks \cup {poison_pill})
        /\ Len(packet_queue') = Len(packet_queue) - k
        /\ \A i \in 1 .. Len(packet_queue) - k : packet_queue'[i] = packet_queue[k + i]
    BY <2>1, <2>2, <2>4, PrefixType
  <2>9. PillIsLast'
    <3> SUFFICES ASSUME NEW i \in 1 .. Len(packet_queue'), is_poison(packet_queue'[i])
                 PROVE  i = Len(packet_queue') /\ pc' # "scan"
      BY DEF PillIsLast
    <3>1. k + i \in 1 .. Len(packet_queue) /\ is_poison(packet_queue[k + i])
      BY <2>1, <2>2, <2>8
    <3>2. k + i = Len(packet_queue) /\ pc # "scan"
      BY <3>1 DEF TypeInv, PillIsLast
    <3> QED BY <2>1, <2>2, <2>4, <2>8, <3>2
  <2> QED BY <1>1, <2>4, <2>7, <2>8, <2>9 DEF TypeInv, TypeOK, GenerationTrails, MarkedHasHead
<1>3. CASE MarkOutstanding
  <2> DEFINE h == Head(sender.batch)
  <2>1. h \in Tasks /\ h.port \in Ports
    BY <1>1, <1>3, HeadFacts DEF MarkOutstanding, Tasks
  <2>2. /\ tx' = [tx EXCEPT ![h.port].probe_outstanding = TRUE]
        /\ transmitted' = transmitted \cup {h}
        /\ sender' = [sender EXCEPT !.state = "marked"]
        /\ UNCHANGED <<scan_type, fast_scan, ps, heap, gate, sentinel, phase1_over,
                       has_measurement, active_count, ports_in_retry, result, packet_queue,
                       stamps, pc, terminate_flag, aborted, overtaken>>
    BY <1>3 DEF MarkOutstanding
  <2> HIDE DEF h
  <2>3. [tx[h.port] EXCEPT !.probe_outstanding = TRUE] \in TxState
          /\ [tx[h.port] EXCEPT !.probe_outstanding = TRUE].generation = tx[h.port].generation
    <3>1. tx[h.port] \in TxState
      BY <1>1, <2>1 DEF TypeOK
    <3> QED BY <3>1 DEF TxState
  <2>4. tx' \in [Ports -> TxState] /\ \A q \in Ports : tx'[q].generation = tx[q].generation
    BY <1>1, <2>1, <2>2, <2>3 DEF TypeOK
  <2>5. /\ sender' \in [state : {"wait", "send", "marked", "exited"}, batch : Seq(Tasks),
                        filing : SUBSET Tasks, shutdown_requested : BOOLEAN]
        /\ sender'.batch = sender.batch /\ sender.batch # <<>>
    BY <1>1, <1>3, <2>2 DEF TypeOK, MarkOutstanding
  <2> QED BY <1>1, <2>1, <2>2, <2>4, <2>5 DEF TypeInv, TypeOK, PillIsLast, GenerationTrails, MarkedHasHead
<1>4. CASE StampTx
  <2> DEFINE h == Head(sender.batch)
  <2>1. h \in Tasks /\ h.port \in Ports /\ Tail(sender.batch) \in Seq(Tasks)
    BY <1>1, <1>4, HeadFacts DEF TypeInv, MarkedHasHead, StampTx, Tasks
  <2>2. /\ tx' = [tx EXCEPT ![h.port].real_tx = TRUE]
        /\ UNCHANGED <<scan_type, fast_scan, ps, heap, gate, sentinel, phase1_over,
                       has_measurement, active_count, ports_in_retry, result, packet_queue,
                       stamps, pc, terminate_flag, aborted, transmitted, overtaken>>
    BY <1>4 DEF StampTx
  <2>3. sender' \in [state : {"wait", "send", "marked", "exited"}, batch : Seq(Tasks),
                     filing : SUBSET Tasks, shutdown_requested : BOOLEAN]
          /\ sender'.state = "send"
    <3>1. {t \in {h} : PreciseTx} \in SUBSET Tasks
      BY <2>1
    <3> QED BY <1>1, <1>4, <2>1, <3>1 DEF StampTx, TypeOK
  <2> HIDE DEF h
  <2>4. [tx[h.port] EXCEPT !.real_tx = TRUE] \in TxState
          /\ [tx[h.port] EXCEPT !.real_tx = TRUE].generation = tx[h.port].generation
    <3>1. tx[h.port] \in TxState
      BY <1>1, <2>1 DEF TypeOK
    <3> QED BY <3>1 DEF TxState
  <2>5. tx' \in [Ports -> TxState] /\ \A q \in Ports : tx'[q].generation = tx[q].generation
    BY <1>1, <2>1, <2>2, <2>4 DEF TypeOK
  <2> QED BY <1>1, <2>2, <2>3, <2>5
          DEF TypeInv, TypeOK, PillIsLast, GenerationTrails, MarkedHasHead
<1>5. ASSUME NEW t \in sender.filing, FileStamp(t) PROVE TypeInv'
  <2>1. t \in Tasks
    BY <1>1 DEF TypeOK
  <2>2. [port |-> t.port, attempt |-> t.attempt, generation |-> tx[t.port].generation]
          \in [port : Ports, attempt : Attempts, generation : Attempts]
    BY <1>1, <2>1 DEF Tasks, TypeOK, TxState
  <2>3. stamps' \subseteq [port : Ports, attempt : Attempts, generation : Attempts]
    BY <1>1, <1>5, <2>2 DEF FileStamp, TypeOK
  <2>4. sender' = [sender EXCEPT !.filing = {}]
    BY <1>5 DEF FileStamp
  <2>5. /\ sender' \in [state : {"wait", "send", "marked", "exited"}, batch : Seq(Tasks),
                     filing : SUBSET Tasks, shutdown_requested : BOOLEAN]
        /\ sender'.state = sender.state /\ sender'.batch = sender.batch
    BY <1>1, <2>4 DEF TypeOK
  <2>6. UNCHANGED <<scan_type, fast_scan, ps, tx, heap, gate, sentinel, phase1_over,
                    has_measurement, active_count, ports_in_retry, result, packet_queue,
                    pc, terminate_flag, aborted, transmitted, overtaken>>
    BY <1>5 DEF FileStamp
  <2> QED BY <1>1, <2>3, <2>5, <2>6 DEF TypeInv, TypeOK, PillIsLast, GenerationTrails, MarkedHasHead
<1>6. CASE PacketDropped
  <2>1. /\ sender' = [sender EXCEPT !.batch = Tail(@)] /\ sender.state = "send"
        /\ Tail(sender.batch) \in Seq(Tasks)
    BY <1>1, <1>6, HeadFacts DEF PacketDropped, Sending
  <2>2. /\ sender' \in [state : {"wait", "send", "marked", "exited"}, batch : Seq(Tasks),
                     filing : SUBSET Tasks, shutdown_requested : BOOLEAN]
        /\ sender'.state = "send"
    BY <1>1, <2>1 DEF TypeOK
  <2> QED BY <1>1, <1>6, <2>2
          DEF PacketDropped, TypeInv, TypeOK, PillIsLast, GenerationTrails, MarkedHasHead
<1>7. CASE BatchDone
  <2>1. sender' \in [state : {"wait", "send", "marked", "exited"}, batch : Seq(Tasks),
                     filing : SUBSET Tasks, shutdown_requested : BOOLEAN]
          /\ sender'.state # "marked"
    BY <1>7, EmptySeq DEF BatchDone
  <2> QED BY <1>1, <1>7, <2>1
          DEF BatchDone, TypeInv, TypeOK, PillIsLast, GenerationTrails, MarkedHasHead
<1> QED BY <1>2, <1>3, <1>4, <1>5, <1>6, <1>7 DEF SenderStep

LEMMA TypeNext == TypeInv /\ [Next]_vars => TypeInv'
<1> SUFFICES ASSUME TypeInv, [Next]_vars PROVE TypeInv'
  OBVIOUS
<1>1. CASE UNCHANGED vars
  BY <1>1 DEF vars, TypeInv, TypeOK, PillIsLast, GenerationTrails, MarkedHasHead
<1>2. CASE Next
  <2>1. CASE \E p \in Ports, seg \in Segments, usable \in BOOLEAN : Reply(p, seg, usable)
    BY <2>1, TypeReply
  <2>2. CASE \E p \in Ports, sport \in Attempts : IcmpProhibited(p, sport)
    BY <2>2, TypeIcmp
  <2>3. CASE \E st \in stamps : TxTimestamp(st)
    BY <2>3, TypeTxTimestamp
  <2>4. CASE \E p \in Ports : HeapStep(p)
    BY <2>4, TypeHeapStep
  <2>5. CASE Phase1Deadline \/ Sentinel \/ LoopExit \/ IcmpFatal \/ Return \/ Terminate
    BY <2>5, TypeReceiver
  <2>6. CASE SenderStep
    BY <2>6, TypeSender
  <2>7. CASE Returned
    BY <1>1, <2>7 DEF Returned
  <2> QED BY <1>2, <2>1, <2>2, <2>3, <2>4, <2>5, <2>6, <2>7 DEF Next
<1> QED BY <1>1, <1>2

\* receive_response keeps every variable in its range: no counter of a port, no
\* generation and no heap count leaves its bounds, and the sender is never handed a
\* poison pill as a packet.
THEOREM TypeCorrect == Spec => [](TypeOK /\ PillIsLast)
<1>1. TypeInv => TypeOK /\ PillIsLast
  BY DEF TypeInv
<1> QED BY <1>1, TypeInit, TypeNext, PTL DEF Spec

-----------------------------------------------------------------------------
(***************************************************************************)
(* The counters.  CountersExact is inductive once it is known that only a  *)
(* port that was retried has a share in the retry budget.                  *)
(***************************************************************************)
CountedWereRetried ==
    \A p \in Ports : ps[p].counted_in_retry => ps[p].retry_count > 0

CounterInv == TypeInv /\ CountersExact /\ CountedWereRetried

LEMMA FiniteParts ==
    /\ IsFiniteSet(Live) /\ Cardinality(Live) \in Nat
    /\ IsFiniteSet(InRetry) /\ Cardinality(InRetry) \in Nat
<1>1. Live \in SUBSET Ports /\ InRetry \in SUBSET Ports
  BY DEF Live, InRetry
<1>2. IsFiniteSet(Live) /\ IsFiniteSet(InRetry)
  BY <1>1, PortScanAssumption, FS_Subset
<1> QED BY <1>2, FS_CardinalityType

\* Steps that leave the verdicts and the retry shares alone leave the counters exact.
LEMMA CountersUntouched ==
    ASSUME CounterInv, active_count' = active_count, ports_in_retry' = ports_in_retry,
           \A p \in Ports : /\ ps'[p].final = ps[p].final
                            /\ ps'[p].counted_in_retry = ps[p].counted_in_retry
                            /\ ps'[p].retry_count = ps[p].retry_count
    PROVE  CountersExact' /\ CountedWereRetried'
<1>1. Live' = Live /\ InRetry' = InRetry
  BY DEF Live, InRetry
<1> QED BY <1>1 DEF CounterInv, CountersExact, CountedWereRetried

\* Account keeps the counters exact, whether the port becomes final or not.
LEMMA CountersAccount ==
    ASSUME CounterInv, NEW p \in Ports, NEW t \in PortState, Account(p, t),
           ~ps[p].final, t.counted_in_retry = ps[p].counted_in_retry,
           t.retry_count = ps[p].retry_count
    PROVE  CountersExact' /\ CountedWereRetried'
<1>1. TypeOK /\ CountersExact /\ CountedWereRetried
  BY DEF CounterInv, TypeInv
<1>2. /\ ps'[p] = IF t.final THEN [t EXCEPT !.counted_in_retry = FALSE] ELSE t
      /\ ps'[p].final = t.final /\ ps'[p].retry_count = t.retry_count
      /\ \A q \in Ports : q # p => ps'[q] = ps[q]
  BY <1>1, AccountFacts
<1>3. CASE t.final
  <2>1. ps'[p].final /\ ~ps'[p].counted_in_retry
    BY <1>2, <1>3 DEF PortState
  <2>2. Live' = Live \ {p} /\ InRetry' = InRetry \ {p}
    BY <1>2, <2>1 DEF Live, InRetry
  <2>3. p \in Live
    BY DEF Live
  <2>4. Cardinality(Live \ {p}) = Cardinality(Live) - 1
    BY <2>3, FiniteParts, FS_RemoveElement
  <2>5. Cardinality(InRetry \ {p}) = Cardinality(InRetry) - (IF p \in InRetry THEN 1 ELSE 0)
    <3>1. Cardinality(InRetry \ {p}) = IF p \in InRetry THEN Cardinality(InRetry) - 1
                                                       ELSE Cardinality(InRetry)
      BY FiniteParts, FS_RemoveElement
    <3> QED BY <3>1, FiniteParts
  <2>6. p \in InRetry <=> t.counted_in_retry
    BY DEF InRetry
  <2>7. /\ active_count' = active_count - 1
        /\ ports_in_retry' = ports_in_retry - (IF t.counted_in_retry THEN 1 ELSE 0)
    BY <1>3 DEF Account
  <2>8. CountersExact'
    BY <1>1, <2>2, <2>4, <2>5, <2>6, <2>7 DEF CountersExact
  <2>9. CountedWereRetried'
    BY <1>1, <1>2, <2>1 DEF CountedWereRetried
  <2> QED BY <2>8, <2>9
<1>4. CASE ~t.final
  <2>1. active_count' = active_count /\ ports_in_retry' = ports_in_retry /\ ps'[p] = t
    BY <1>2, <1>4 DEF Account
  <2>2. \A q \in Ports : /\ ps'[q].final <=> ps[q].final
                         /\ ps'[q].counted_in_retry = ps[q].counted_in_retry
                         /\ ps'[q].retry_count = ps[q].retry_count
    BY <1>2, <1>4, <2>1
  <2>3. Live' = Live /\ InRetry' = InRetry
    BY <2>2 DEF Live, InRetry
  <2> QED BY <1>1, <2>1, <2>2, <2>3 DEF CountersExact, CountedWereRetried
<1> QED BY <1>3, <1>4

LEMMA CountersInit == Init => CounterInv
<1> SUFFICES ASSUME Init PROVE CountersExact /\ CountedWereRetried
  BY TypeInit DEF CounterInv
<1>1. Live = Ports /\ InRetry = {}
  BY DEF Init, Live, InRetry
<1> QED BY <1>1, FS_EmptySet DEF Init, CountersExact, CountedWereRetried

LEMMA CountersNext == CounterInv /\ [Next]_vars => CounterInv'
<1> SUFFICES ASSUME CounterInv, [Next]_vars PROVE CountersExact' /\ CountedWereRetried'
  BY TypeNext DEF CounterInv
<1> USE DEF args, gateVars, senderVars, endVars, history
<1>1. TypeOK /\ CountersExact /\ CountedWereRetried /\ scan_type \in ScanTypes /\ fast_scan \in BOOLEAN
  BY DEF CounterInv, TypeInv, TypeOK
<1>2. \A p \in Ports : ps[p] \in PortState
  BY <1>1 DEF TypeOK
<1>3. ASSUME UNCHANGED <<ps, active_count, ports_in_retry>>
      PROVE  CountersExact' /\ CountedWereRetried'
  BY <1>3, CountersUntouched
<1>4. ASSUME NEW p \in Ports, NEW seg \in Segments, NEW usable \in BOOLEAN,
             Reply(p, seg, usable)
      PROVE  CountersExact' /\ CountedWereRetried'
  <2> DEFINE s == IF usable THEN [ps[p] EXCEPT !.rtt_measured = TRUE] ELSE ps[p]
             t == process_response(s, seg)
  <2>1. s \in PortState /\ s.counted_in_retry = ps[p].counted_in_retry
          /\ s.retry_count = ps[p].retry_count
    <3>1. CASE usable
      BY <1>2, <3>1 DEF PortState
    <3>2. CASE ~usable
      BY <1>2, <3>2
    <3> QED BY <3>1, <3>2
  <2>2. Account(p, t) /\ ~ps[p].final
    BY <1>4 DEF Reply
  <2> HIDE DEF s
  <2>3. t \in PortState /\ t.counted_in_retry = s.counted_in_retry /\ t.retry_count = s.retry_count
    BY <1>1, <2>1, ResponseFacts
  <2> HIDE DEF t
  <2> QED BY <2>1, <2>2, <2>3, CountersAccount
<1>5. ASSUME NEW p \in Ports, Account(p, Resolve(ps[p], "Filtered")), ~ps[p].final
      PROVE  CountersExact' /\ CountedWereRetried'
  <2> DEFINE t == Resolve(ps[p], "Filtered")
  <2>1. t \in PortState /\ t.counted_in_retry = ps[p].counted_in_retry
          /\ t.retry_count = ps[p].retry_count
    BY <1>2 DEF Resolve, Report, PortState, Verdicts
  <2>2. Account(p, t)
    BY <1>5
  <2> HIDE DEF t
  <2> QED BY <1>5, <2>1, <2>2, CountersAccount
<1>6. ASSUME NEW p \in Ports, NEW cap \in MinRetries .. MaxRetries, ScheduleRetry(p, cap)
      PROVE  CountersExact' /\ CountedWereRetried'
  <2>1. /\ ps[p].retry_count \in Nat /\ ps[p].counted_in_retry \in BOOLEAN /\ ~ps[p].final
    BY <1>2, <1>6, PortScanAssumption
       DEF PortState, Attempts, ScheduleRetry, MayRetry, RetryDecision, Due
  <2>2. /\ ps'[p].retry_count = ps[p].retry_count + 1
        /\ ps'[p].final = ps[p].final
        /\ ps'[p].counted_in_retry = (ps[p].retry_count = 0 \/ ps[p].counted_in_retry)
        /\ \A q \in Ports : q # p => ps'[q] = ps[q]
        /\ ports_in_retry' = ports_in_retry + (IF ps[p].retry_count = 0 THEN 1 ELSE 0)
        /\ active_count' = active_count
    BY <1>1, <1>2, <1>6 DEF ScheduleRetry, TypeOK, PortState
  <2>3. Live' = Live
    BY <2>2 DEF Live
  <2>4. CountedWereRetried'
    BY <1>1, <2>1, <2>2 DEF CountedWereRetried
  <2>5. CASE ps[p].retry_count = 0
    <3>1. p \notin InRetry /\ p \in Live
      BY <1>1, <2>1, <2>5 DEF InRetry, CountedWereRetried, Live
    <3>2. InRetry' = InRetry \cup {p}
      BY <2>2, <2>5 DEF InRetry
    <3>3. Cardinality(InRetry \cup {p}) = Cardinality(InRetry) + 1
      BY <3>1, FiniteParts, FS_AddElement
    <3> QED BY <1>1, <2>2, <2>3, <2>4, <2>5, <3>1, <3>2, <3>3 DEF CountersExact
  <2>6. CASE ps[p].retry_count # 0
    <3>1. InRetry' = InRetry
      BY <2>1, <2>2, <2>6 DEF InRetry
    <3> QED BY <1>1, <2>2, <2>3, <2>4, <2>6, <3>1 DEF CountersExact, TypeOK
  <2> QED BY <2>5, <2>6
<1>7. ASSUME NEW p \in Ports, InitialSend(p) \/ RetrySend(p)
      PROVE  CountersExact' /\ CountedWereRetried'
  <2> DEFINE Kept(q) == /\ ps'[q].final = ps[q].final
                        /\ ps'[q].counted_in_retry = ps[q].counted_in_retry
                        /\ ps'[q].retry_count = ps[q].retry_count
  <2>1. UNCHANGED <<active_count, ports_in_retry>>
    BY <1>7 DEF InitialSend, RetrySend
  <2>2. \A q \in Ports : Kept(q)
    <3>1. ps \in [Ports -> PortState]
      BY <1>1 DEF TypeOK
    <3>2. /\ \A q \in Ports : q # p => ps'[q] = ps[q]
          /\ \/ ps'[p] = [ps[p] EXCEPT !.initial_send_deferred = FALSE]
             \/ ps'[p] = [ps[p] EXCEPT !.retry_send_deferred = FALSE]
      BY <1>7, <3>1 DEF InitialSend, RetrySend
    <3>3. Kept(p)
      BY <1>2, <3>2 DEF PortState
    <3> QED BY <3>2, <3>3
  <2> QED BY <2>1, <2>2, CountersUntouched
<1>8. ASSUME NEW p \in Ports, HeapStep(p) PROVE CountersExact' /\ CountedWereRetried'
  <2>1. CASE DropEntry(p) \/ Park(p)
    BY <1>3, <2>1 DEF DropEntry, Park
  <2>2. CASE GiveUp(p)
    BY <1>5, <2>2 DEF GiveUp, Due
  <2> QED BY <1>6, <1>7, <1>8, <2>1, <2>2 DEF HeapStep
<1>9. ASSUME NEW p \in Ports, NEW sport \in Attempts, IcmpProhibited(p, sport)
      PROVE  CountersExact' /\ CountedWereRetried'
  BY <1>5, <1>9 DEF IcmpProhibited
<1>10. CASE UNCHANGED vars
  BY <1>3, <1>10 DEF vars
<1>11. CASE \E st \in stamps : TxTimestamp(st)
  BY <1>3, <1>11 DEF TxTimestamp
<1>12. CASE Phase1Deadline \/ Sentinel \/ LoopExit \/ IcmpFatal \/ Return \/ Terminate
  BY <1>3, <1>12 DEF Phase1Deadline, Sentinel, LoopExit, IcmpFatal, Shutdown, Return, Terminate
<1>13. CASE SenderStep
  BY <1>3, <1>13 DEF SenderStep, Dequeue, MarkOutstanding, StampTx, FileStamp, PacketDropped, BatchDone
<1>14. CASE Returned
  BY <1>10, <1>14 DEF Returned
<1> QED BY <1>4, <1>8, <1>9, <1>10, <1>11, <1>12, <1>13, <1>14 DEF Next

\* active_count, the condition of the main loop, is at every moment the number of
\* undecided ports, and ports_in_retry the number of undecided ports that were retried,
\* for any number of ports and any interleaving of replies, ICMP errors and timeouts.
THEOREM CountersCorrect == Spec => []CountersExact
<1>1. CounterInv => CountersExact
  BY DEF CounterInv
<1> QED BY <1>1, CountersInit, CountersNext, PTL DEF Spec

-----------------------------------------------------------------------------
(***************************************************************************)
(* deadline_heap and the phase-1 gate of receive_response: no interleaving *)
(* of replies, first measurement, sentinel and timeouts strands a port or  *)
(* schedules it twice, for any number of ports.                            *)
(***************************************************************************)

\* The sentinel leaves the heap only when phase1_deadline has passed, after which no
\* port is parked any more.
SentinelAfterDeadline == sentinel = "fired" => phase1_over

GateInv == TypeInv /\ ScheduledOnce /\ GateWillOpen /\ SentinelAfterDeadline

\* A decision is never taken back: what leaves ScheduledOnce intact about ps.
Forward == \A p \in Ports : /\ ps[p].final => ps'[p].final
                            /\ ps[p].connection_established => ps'[p].connection_established

LEMMA GateInit == Init => GateInv
<1> SUFFICES ASSUME Init PROVE ScheduledOnce /\ GateWillOpen /\ SentinelAfterDeadline
  BY TypeInit DEF GateInv
<1> QED BY DEF Init, ScheduledOnce, GateWillOpen, SentinelAfterDeadline

\* Steps that leave the heap, the gate and the measurement alone.
LEMMA GateUntouched ==
    ASSUME GateInv, Forward, UNCHANGED <<heap, gate, sentinel, has_measurement>>,
           phase1_over => phase1_over'
    PROVE  ScheduledOnce' /\ GateWillOpen' /\ SentinelAfterDeadline'
BY DEF GateInv, Forward, ScheduledOnce, GateWillOpen, SentinelAfterDeadline

\* Releasing every parked port keeps the schedule.
LEMMA GateReleased ==
    ASSUME GateInv, Forward, ReleaseGate
    PROVE  ScheduledOnce' /\ GateWillOpen'
<1>1. \A p \in Ports : heap[p] \in Nat /\ gate[p] \in Nat
  BY DEF GateInv, TypeInv, TypeOK
<1>2. \A p \in Ports : heap'[p] = heap[p] + gate[p] /\ gate'[p] = 0
  BY DEF ReleaseGate
<1>3. \A p \in Ports : heap'[p] + gate'[p] = heap[p] + gate[p]
  BY <1>1, <1>2
<1>4. ScheduledOnce'
  BY <1>3 DEF GateInv, ScheduledOnce, Forward
<1> QED BY <1>2, <1>4 DEF GateWillOpen

\* Account never takes a decision back.
LEMMA AccountForward ==
    ASSUME TypeOK, NEW p \in Ports, NEW t \in PortState, Account(p, t), ~ps[p].final,
           ps[p].connection_established => t.connection_established
    PROVE  Forward
<1>1. /\ ps'[p].connection_established = t.connection_established
      /\ \A q \in Ports : q # p => ps'[q] = ps[q]
  BY AccountFacts
<1> QED BY <1>1 DEF Forward

LEMMA GateReply ==
    ASSUME GateInv, NEW p \in Ports, NEW seg \in Segments, NEW usable \in BOOLEAN,
           Reply(p, seg, usable)
    PROVE  ScheduledOnce' /\ GateWillOpen' /\ SentinelAfterDeadline'
<1> DEFINE s == IF usable THEN [ps[p] EXCEPT !.rtt_measured = TRUE] ELSE ps[p]
           t == process_response(s, seg)
<1>1. TypeOK /\ scan_type \in ScanTypes /\ fast_scan \in BOOLEAN /\ ps[p] \in PortState
  BY DEF GateInv, TypeInv, TypeOK
<1>2. s \in PortState /\ s.connection_established = ps[p].connection_established
  <2>1. CASE usable
    BY <1>1, <2>1 DEF PortState
  <2>2. CASE ~usable
    BY <1>1, <2>2
  <2> QED BY <2>1, <2>2
<1>3. Account(p, t) /\ ~ps[p].final
  BY DEF Reply
<1>4. /\ has_measurement' = (has_measurement \/ usable)
      /\ IF usable /\ ~has_measurement THEN ReleaseGate ELSE UNCHANGED <<heap, gate>>
      /\ UNCHANGED <<sentinel, phase1_over>>
  BY DEF Reply
<1> HIDE DEF s
<1>5. t \in PortState /\ (s.connection_established => t.connection_established)
  BY <1>1, <1>2, ResponseFacts
<1> HIDE DEF t
<1>6. Forward
  BY <1>1, <1>2, <1>3, <1>5, AccountForward
<1>7. CASE usable /\ ~has_measurement
  <2>1. ScheduledOnce' /\ GateWillOpen'
    BY <1>4, <1>6, <1>7, GateReleased
  <2> QED BY <1>4, <2>1 DEF GateInv, SentinelAfterDeadline
<1>8. CASE ~(usable /\ ~has_measurement)
  <2>1. UNCHANGED <<heap, gate, sentinel, phase1_over>> /\ has_measurement' = has_measurement
    BY <1>1, <1>4, <1>8 DEF TypeOK
  <2> QED BY <1>6, <2>1, GateUntouched
<1> QED BY <1>7, <1>8

\* The entry of p is popped; parked becomes what the step leaves in the gate.
LEMMA GateHeapStep ==
    ASSUME GateInv, NEW p \in Ports, HeapStep(p)
    PROVE  ScheduledOnce' /\ GateWillOpen' /\ SentinelAfterDeadline'
<1> USE DEF args, gateVars, senderVars, endVars, history
<1>1. TypeOK /\ ps \in [Ports -> PortState] /\ ps[p] \in PortState
        /\ heap \in [Ports -> Nat] /\ gate \in [Ports -> Nat]
        /\ heap[p] \in Nat /\ gate[p] \in Nat
  BY DEF GateInv, TypeInv, TypeOK
<1>2. ScheduledOnce /\ GateWillOpen /\ SentinelAfterDeadline
  BY DEF GateInv
<1>3. /\ Pop(p)[p] = heap[p] - 1 /\ Pop(p) \in [Ports -> Int]
      /\ \A q \in Ports : q # p => Pop(p)[q] = heap[q]
  BY <1>1 DEF Pop
<1>4. ASSUME heap' = [Pop(p) EXCEPT ![p] = @ + 1] PROVE heap' = heap
  <2>1. \A q \in Ports : heap'[q] = heap[q]
    BY <1>1, <1>3, <1>4
  <2>2. heap' \in [Ports -> Int] /\ heap \in [Ports -> Int]
    BY <1>1, <1>3, <1>4
  <2> QED BY <2>1, <2>2
\* An entry that is dropped belongs to a port that is decided or being torn down.
<1>d. ASSUME heap' = Pop(p), gate' = gate, heap[p] > 0,
             ps'[p].final \/ ps'[p].connection_established,
             \A q \in Ports : q # p => ps'[q] = ps[q]
      PROVE  ScheduledOnce'
  <2>1. heap'[p] + gate'[p] = heap[p] + gate[p] - 1
    BY <1>1, <1>3, <1>d
  <2>2. heap[p] + gate[p] <= 1
    BY <1>2 DEF ScheduledOnce
  <2>3. heap'[p] + gate'[p] <= 1
    BY <1>1, <2>1, <2>2
  <2>4. \A q \in Ports : q # p => heap'[q] + gate'[q] = heap[q] + gate[q]
    BY <1>3, <1>d
  <2> QED BY <1>2, <1>d, <2>3, <2>4 DEF ScheduledOnce
<1>5. CASE DropEntry(p)
  <2>1. /\ heap' = Pop(p) /\ UNCHANGED <<ps, gate, sentinel, phase1_over, has_measurement>>
        /\ heap[p] > 0 /\ (ps[p].final \/ ps[p].connection_established)
    BY <1>5 DEF DropEntry
  <2>2. ScheduledOnce'
    BY <1>d, <2>1
  <2> QED BY <1>2, <2>1, <2>2 DEF GateWillOpen, SentinelAfterDeadline
<1>6. CASE InitialSend(p) \/ RetrySend(p) \/ \E cap \in MinRetries .. MaxRetries : ScheduleRetry(p, cap)
  <2>1. UNCHANGED <<gate, sentinel, phase1_over, has_measurement>>
    BY <1>6 DEF InitialSend, RetrySend, ScheduleRetry
  <2>2. heap' = heap
    BY <1>4, <1>6 DEF InitialSend, RetrySend, ScheduleRetry
  <2>3. ~ps[p].final /\ ~ps[p].connection_established /\ \A q \in Ports : q # p => ps'[q] = ps[q]
    BY <1>1, <1>6
       DEF InitialSend, RetrySend, ScheduleRetry, MayRetry, RetryDecision, Due
  <2>4. Forward
    BY <2>3 DEF Forward
  <2> QED BY <2>1, <2>2, <2>4, GateUntouched
<1>7. CASE Park(p)
  <2>1. /\ heap' = Pop(p) /\ gate' = [gate EXCEPT ![p] = gate[p] + 1]
        /\ sentinel' = IF sentinel = "unarmed" THEN "in_heap" ELSE sentinel
        /\ UNCHANGED <<ps, phase1_over, has_measurement>>
        /\ ~has_measurement /\ ~phase1_over /\ heap[p] > 0
    BY <1>7 DEF Park, MayRetry, RetryDecision, Due, Gated
  <2>2. \A q \in Ports : heap'[q] + gate'[q] = heap[q] + gate[q]
    BY <1>1, <1>3, <2>1
  <2>3. ScheduledOnce'
    BY <1>2, <2>1, <2>2 DEF ScheduledOnce
  <2>4. sentinel # "fired" /\ sentinel' = "in_heap"
    BY <1>1, <1>2, <2>1 DEF SentinelAfterDeadline, TypeOK
  <2> QED BY <2>1, <2>3, <2>4 DEF GateWillOpen, SentinelAfterDeadline
<1>8. CASE GiveUp(p)
  <2> DEFINE t == Resolve(ps[p], "Filtered")
  <2>1. /\ heap' = Pop(p) /\ UNCHANGED <<gate, sentinel, phase1_over, has_measurement>>
        /\ Account(p, t) /\ heap[p] > 0 /\ ~ps[p].final
    BY <1>8 DEF GiveUp, Due
  <2>2. t \in PortState /\ t.final
    BY <1>1 DEF Resolve, Report, PortState, Verdicts
  <2> HIDE DEF t
  <2>3. ps'[p].final /\ \A q \in Ports : q # p => ps'[q] = ps[q]
    BY <1>1, <2>1, <2>2, AccountFacts
  <2>4. ScheduledOnce'
    BY <1>d, <2>1, <2>3
  <2> QED BY <1>2, <2>1, <2>4 DEF GateWillOpen, SentinelAfterDeadline
<1> QED BY <1>5, <1>6, <1>7, <1>8 DEF HeapStep

LEMMA GateNext == GateInv /\ [Next]_vars => GateInv'
<1> SUFFICES ASSUME GateInv, [Next]_vars
             PROVE  ScheduledOnce' /\ GateWillOpen' /\ SentinelAfterDeadline'
  BY TypeNext DEF GateInv
<1> USE DEF args, gateVars, senderVars, endVars, history
<1>1. TypeOK /\ \A p \in Ports : ps[p] \in PortState
  BY DEF GateInv, TypeInv, TypeOK
<1>2. ASSUME UNCHANGED <<ps, heap, gate, sentinel, phase1_over, has_measurement>>
      PROVE  ScheduledOnce' /\ GateWillOpen' /\ SentinelAfterDeadline'
  <2>1. Forward
    BY <1>2 DEF Forward
  <2> QED BY <1>2, <2>1, GateUntouched
<1>3. ASSUME NEW p \in Ports, NEW sport \in Attempts, IcmpProhibited(p, sport)
      PROVE  ScheduledOnce' /\ GateWillOpen' /\ SentinelAfterDeadline'
  <2> DEFINE t == Resolve(ps[p], "Filtered")
  <2>1. /\ UNCHANGED <<heap, gate, sentinel, phase1_over, has_measurement>>
        /\ Account(p, t) /\ ~ps[p].final
    BY <1>3 DEF IcmpProhibited
  <2>2. t \in PortState /\ t.connection_established = ps[p].connection_established
    BY <1>1 DEF Resolve, Report, PortState, Verdicts
  <2> HIDE DEF t
  <2>3. Forward
    BY <1>1, <2>1, <2>2, AccountForward
  <2> QED BY <2>1, <2>3, GateUntouched
<1>4. CASE Phase1Deadline
  <2>1. Forward
    BY <1>4 DEF Phase1Deadline, Forward
  <2> QED BY <1>4, <2>1, GateUntouched DEF Phase1Deadline
<1>5. CASE Sentinel
  <2>1. Forward /\ ReleaseGate /\ phase1_over'
    BY <1>5 DEF Sentinel, Forward
  <2> QED BY <2>1, GateReleased DEF SentinelAfterDeadline
<1>6. CASE LoopExit \/ IcmpFatal \/ Return \/ Terminate
  BY <1>2, <1>6 DEF LoopExit, IcmpFatal, Shutdown, Return, Terminate
<1>7. CASE \E st \in stamps : TxTimestamp(st)
  BY <1>2, <1>7 DEF TxTimestamp
<1>8. CASE SenderStep
  BY <1>2, <1>8 DEF SenderStep, Dequeue, MarkOutstanding, StampTx, FileStamp, PacketDropped, BatchDone
<1>9. CASE UNCHANGED vars
  BY <1>2, <1>9 DEF vars
<1> QED BY <1>3, <1>4, <1>5, <1>6, <1>7, <1>8, <1>9, GateReply, GateHeapStep DEF Next, Returned

\* No port is stranded and none runs twice: every undecided port has exactly one entry
\* in deadline_heap or is parked exactly once in gate_pending_ports, for any number of
\* ports.
THEOREM ScheduleCorrect == Spec => []ScheduledOnce
<1>1. GateInv => ScheduledOnce
  BY DEF GateInv
<1> QED BY <1>1, GateInit, GateNext, PTL DEF Spec

\* A port parked behind the phase-1 gate is let go: as long as gate_pending_ports is not
\* empty the sentinel is still in deadline_heap and no RTT was measured.
THEOREM GateCorrect == Spec => []GateWillOpen
<1>1. GateInv => GateWillOpen
  BY DEF GateInv
<1> QED BY <1>1, GateInit, GateNext, PTL DEF Spec

-----------------------------------------------------------------------------
(***************************************************************************)
(* receive_response implements PortVerdicts for any number of ports: every *)
(* step of PortScan is a step of PortVerdicts or changes nothing there.    *)
(***************************************************************************)
\* A port that is final, or open and being torn down, has been reported.
DecidedIsReported ==
    \A p \in Ports : ps[p].final \/ ps[p].connection_established => ps[p].reported # "None"

VerdictInv == CounterInv /\ DecidedIsReported

\* At most the port p is reported in a step.
ReportsAtMost(p) ==
    /\ ps'[p].reported = ps[p].reported
         \/ (ps[p].reported = "None" /\ ps'[p].reported \in Verdicts)
    /\ \A q \in Ports : q # p => ps'[q].reported = ps[q].reported

\* The effect of Account on the verdicts.
LEMMA AccountVerdict ==
    ASSUME VerdictInv, NEW p \in Ports, NEW t \in PortState, Account(p, t),
           t.reported = ps[p].reported \/ ps[p].reported = "None",
           t.final \/ t.connection_established => t.reported # "None"
    PROVE  DecidedIsReported' /\ ReportsAtMost(p)
<1>1. TypeOK
  BY DEF VerdictInv, CounterInv, TypeInv
<1>2. /\ ps'[p].final = t.final /\ ps'[p].reported = t.reported
      /\ ps'[p].connection_established = t.connection_established
      /\ \A q \in Ports : q # p => ps'[q] = ps[q]
  BY <1>1, AccountFacts
<1>3. t.reported \in Verdicts \cup {"None"}
  BY DEF PortState
<1>4. DecidedIsReported'
  BY <1>2 DEF VerdictInv, DecidedIsReported
<1>5. ReportsAtMost(p)
  BY <1>2, <1>3 DEF ReportsAtMost
<1> QED BY <1>4, <1>5

LEMMA VerdictReply ==
    ASSUME VerdictInv, NEW p \in Ports, NEW seg \in Segments, NEW usable \in BOOLEAN,
           Reply(p, seg, usable)
    PROVE  DecidedIsReported' /\ ReportsAtMost(p)
<1> DEFINE s == IF usable THEN [ps[p] EXCEPT !.rtt_measured = TRUE] ELSE ps[p]
           t == process_response(s, seg)
<1>1. TypeOK /\ scan_type \in ScanTypes /\ fast_scan \in BOOLEAN /\ ps[p] \in PortState /\ DecidedIsReported
  BY DEF VerdictInv, CounterInv, TypeInv, TypeOK
<1>2. s \in PortState /\ s.connection_established = ps[p].connection_established
        /\ s.reported = ps[p].reported /\ s.final = ps[p].final
  <2>1. CASE usable
    BY <1>1, <2>1 DEF PortState
  <2>2. CASE ~usable
    BY <1>1, <2>2
  <2> QED BY <2>1, <2>2
<1>3. Account(p, t) /\ ~ps[p].final
  BY DEF Reply
<1> HIDE DEF s
<1>4. /\ t \in PortState
      /\ t.reported = s.reported \/ s.reported = "None"
      /\ t.final /\ ~s.final /\ ~s.connection_established => t.reported # "None"
      /\ t.connection_established /\ ~s.connection_established => t.reported # "None"
  BY <1>1, <1>2, ResponseFacts
<1> HIDE DEF t
<1>5. ps[p].connection_established => ps[p].reported # "None"
  BY <1>1 DEF DecidedIsReported
<1>6. t.final \/ t.connection_established => t.reported # "None"
  BY <1>2, <1>3, <1>4, <1>5
<1> QED BY <1>2, <1>3, <1>4, <1>6, AccountVerdict

LEMMA VerdictFiltered ==
    ASSUME VerdictInv, NEW p \in Ports, Account(p, Resolve(ps[p], "Filtered"))
    PROVE  DecidedIsReported' /\ ReportsAtMost(p)
<1> DEFINE t == Resolve(ps[p], "Filtered")
<1>1. ps[p] \in PortState
  BY DEF VerdictInv, CounterInv, TypeInv, TypeOK
<1>2. /\ t \in PortState /\ t.reported # "None"
      /\ t.reported = ps[p].reported \/ ps[p].reported = "None"
  BY <1>1 DEF Resolve, Report, PortState, Verdicts
<1>3. Account(p, t)
  OBVIOUS
<1> HIDE DEF t
<1> QED BY <1>2, <1>3, AccountVerdict

\* Scheduling steps of the receiver change no verdict.
LEMMA VerdictScheduling ==
    ASSUME VerdictInv, NEW p \in Ports,
           \/ InitialSend(p) \/ RetrySend(p)
           \/ \E cap \in MinRetries .. MaxRetries : ScheduleRetry(p, cap)
    PROVE  DecidedIsReported' /\ ReportsAtMost(p)
<1>1. ps \in [Ports -> PortState] /\ ps[p] \in PortState
  BY DEF VerdictInv, CounterInv, TypeInv, TypeOK
<1>2. \A q \in Ports : q # p => ps'[q] = ps[q]
  BY <1>1 DEF InitialSend, RetrySend, ScheduleRetry
<1>3. /\ ps'[p].reported = ps[p].reported /\ ps'[p].final = ps[p].final
      /\ ps'[p].connection_established = ps[p].connection_established
  <2>1. CASE InitialSend(p)
    <3>1. ps'[p] = [ps[p] EXCEPT !.initial_send_deferred = FALSE]
      BY <1>1, <2>1 DEF InitialSend
    <3> QED BY <1>1, <3>1 DEF PortState
  <2>2. CASE RetrySend(p)
    <3>1. ps'[p] = [ps[p] EXCEPT !.retry_send_deferred = FALSE]
      BY <1>1, <2>2 DEF RetrySend
    <3> QED BY <1>1, <3>1 DEF PortState
  <2>3. ASSUME NEW cap \in MinRetries .. MaxRetries, ScheduleRetry(p, cap)
        PROVE  /\ ps'[p].reported = ps[p].reported /\ ps'[p].final = ps[p].final
               /\ ps'[p].connection_established = ps[p].connection_established
    BY <1>1, <2>3 DEF ScheduleRetry, PortState
  <2> QED BY <2>1, <2>2, <2>3
<1>4. DecidedIsReported'
  BY <1>2, <1>3 DEF VerdictInv, DecidedIsReported
<1> QED BY <1>2, <1>3, <1>4 DEF ReportsAtMost

-----------------------------------------------------------------------------
LEMMA VerdictInit == Init => VerdictInv
BY CountersInit DEF Init, VerdictInv, DecidedIsReported

\* A step of the receiver's loop that reports at most one port is a Decide step.
LEMMA DecideOrStutter ==
    ASSUME TypeOK, TypeOK', NEW p \in Ports, ReportsAtMost(p), pc = "scan", UNCHANGED endVars
    PROVE  [PV!Next]_(PV!vars)
<1> DEFINE verdict == [q \in Ports |-> ps[q].reported]
<1>1. UNCHANGED <<pc, terminate_flag, aborted>>
  BY DEF endVars
<1>2. CASE ps'[p].reported = ps[p].reported
  <2>1. verdict' = verdict
    BY <1>2 DEF ReportsAtMost
  <2> QED BY <1>1, <2>1 DEF PV!vars
<1>3. CASE ps[p].reported = "None" /\ ps'[p].reported \in Verdicts
  <2>1. PICK v \in {"Open", "Closed", "Filtered"} : ps'[p].reported = v
    BY <1>3 DEF Verdicts
  <2>2. verdict' = [verdict EXCEPT ![p] = v]
    BY <2>1 DEF ReportsAtMost
  <2>3. PV!Decide(p, v)
    BY <1>1, <1>3, <2>2 DEF PV!Decide
  <2> QED BY <2>3 DEF PV!Next
<1> QED BY <1>2, <1>3 DEF ReportsAtMost

\* Steps that change no port and leave the loop as it is are invisible.
LEMMA QuietStep ==
    ASSUME UNCHANGED <<ps, terminate_flag, aborted>>, (pc # "scan") = (pc' # "scan")
    PROVE  UNCHANGED PV!vars
BY DEF PV!vars

\* When the loop ends by itself every port has been reported.
LEMMA LoopEndReported ==
    ASSUME VerdictInv, active_count = 0
    PROVE  \A p \in Ports : ps[p].reported # "None"
<1>1. Cardinality(Live) = 0 /\ IsFiniteSet(Live)
  BY FiniteParts DEF VerdictInv, CounterInv, CountersExact
<1>2. Live = {}
  BY <1>1, FS_EmptySet
<1>3. \A p \in Ports : ps[p].final
  BY <1>2 DEF Live
<1> QED BY <1>3 DEF VerdictInv, DecidedIsReported

LEMMA EndSteps ==
    ASSUME VerdictInv, LoopExit \/ IcmpFatal \/ Return \/ Terminate
    PROVE  [PV!Next]_(PV!vars) /\ DecidedIsReported'
<1> USE DEF args, gateVars, senderVars, endVars, history
<1>0. ps' = ps
  BY DEF LoopExit, IcmpFatal, Shutdown, Return, Terminate
<1>1. DecidedIsReported'
  BY <1>0 DEF VerdictInv, DecidedIsReported
<1>t. terminate_flag \in BOOLEAN /\ aborted \in BOOLEAN
  BY DEF VerdictInv, CounterInv, TypeInv, TypeOK
<1>2. CASE LoopExit
  <2>1. pc = "scan" /\ pc' = "join" /\ UNCHANGED <<terminate_flag, aborted>>
          /\ (terminate_flag \/ active_count = 0)
    BY <1>2 DEF LoopExit, Shutdown
  <2>2. terminate_flag \/ \A p \in Ports : ps[p].reported # "None"
    BY <2>1, LoopEndReported
  <2>3. PV!End
    BY <1>0, <2>1, <2>2 DEF PV!End
  <2> QED BY <1>1, <2>3 DEF PV!Next
<1>3. CASE IcmpFatal
  <2>1. pc = "scan" /\ pc' = "join" /\ aborted'
    BY <1>3 DEF IcmpFatal, Shutdown
  <2>2. PV!InterruptAndEnd
    BY <1>0, <2>1 DEF PV!InterruptAndEnd
  <2> QED BY <1>1, <2>2 DEF PV!Next
<1>4. CASE Return
  <2>1. pc = "join" /\ pc' = "done" /\ UNCHANGED <<terminate_flag, aborted>>
    BY <1>4 DEF Return
  <2> QED BY <1>0, <1>1, <2>1, QuietStep
<1>5. CASE Terminate
  <2>1. terminate_flag' /\ ~terminate_flag /\ UNCHANGED <<pc, aborted>>
    BY <1>5 DEF Terminate
  <2>2. CASE aborted
    BY <1>0, <1>1, <2>1, <2>2 DEF PV!vars
  <2>3. CASE ~aborted
    <3>1. PV!Interrupt
      BY <1>0, <1>t, <2>1, <2>3 DEF PV!Interrupt
    <3> QED BY <1>1, <3>1 DEF PV!Next
  <2> QED BY <2>2, <2>3
<1> QED BY <1>2, <1>3, <1>4, <1>5

\* One step: the invariant is kept and the step is a step of PortVerdicts.
LEMMA StepRefines == VerdictInv /\ [Next]_vars => DecidedIsReported' /\ [PV!Next]_(PV!vars)
<1> SUFFICES ASSUME VerdictInv, [Next]_vars PROVE DecidedIsReported' /\ [PV!Next]_(PV!vars)
  OBVIOUS
<1> USE DEF args, gateVars, senderVars, endVars, history
<1>1. TypeOK /\ TypeOK'
  BY TypeNext DEF VerdictInv, CounterInv, TypeInv
<1>2. ASSUME NEW p \in Ports, DecidedIsReported' /\ ReportsAtMost(p), pc = "scan",
             UNCHANGED endVars
      PROVE  DecidedIsReported' /\ [PV!Next]_(PV!vars)
  BY <1>1, <1>2, DecideOrStutter
<1>3. ASSUME UNCHANGED <<ps, pc, terminate_flag, aborted>>
      PROVE  DecidedIsReported' /\ [PV!Next]_(PV!vars)
  <2>1. DecidedIsReported'
    BY <1>3 DEF VerdictInv, DecidedIsReported
  <2> QED BY <1>3, <2>1, QuietStep
<1>4. ASSUME NEW p \in Ports, NEW seg \in Segments, NEW usable \in BOOLEAN,
             Reply(p, seg, usable)
      PROVE  DecidedIsReported' /\ [PV!Next]_(PV!vars)
  <2>1. pc = "scan" /\ UNCHANGED endVars
    BY <1>4 DEF Reply
  <2> QED BY <1>2, <1>4, <2>1, VerdictReply
<1>5. ASSUME NEW p \in Ports, NEW sport \in Attempts, IcmpProhibited(p, sport)
      PROVE  DecidedIsReported' /\ [PV!Next]_(PV!vars)
  <2>1. pc = "scan" /\ UNCHANGED endVars /\ Account(p, Resolve(ps[p], "Filtered"))
    BY <1>5 DEF IcmpProhibited
  <2> QED BY <1>2, <2>1, VerdictFiltered
<1>6. ASSUME NEW p \in Ports, HeapStep(p) PROVE DecidedIsReported' /\ [PV!Next]_(PV!vars)
  <2>1. CASE DropEntry(p) \/ Park(p)
    BY <1>3, <2>1 DEF DropEntry, Park
  <2>2. CASE GiveUp(p)
    <3>1. pc = "scan" /\ UNCHANGED endVars /\ Account(p, Resolve(ps[p], "Filtered"))
      BY <2>2 DEF GiveUp, Due
    <3> QED BY <1>2, <3>1, VerdictFiltered
  <2>3. CASE \/ InitialSend(p) \/ RetrySend(p)
             \/ \E cap \in MinRetries .. MaxRetries : ScheduleRetry(p, cap)
    <3>1. pc = "scan" /\ UNCHANGED endVars
      BY <2>3 DEF InitialSend, RetrySend, ScheduleRetry, MayRetry, RetryDecision, Due
    <3> QED BY <1>2, <2>3, <3>1, VerdictScheduling
  <2> QED BY <1>6, <2>1, <2>2, <2>3 DEF HeapStep
<1>7. CASE LoopExit \/ IcmpFatal \/ Return \/ Terminate
  BY <1>7, EndSteps
<1>8. CASE Phase1Deadline \/ Sentinel \/ \E st \in stamps : TxTimestamp(st)
  BY <1>3, <1>8 DEF Phase1Deadline, Sentinel, TxTimestamp
<1>9. CASE SenderStep
  BY <1>3, <1>9 DEF SenderStep, Dequeue, MarkOutstanding, StampTx, FileStamp, PacketDropped, BatchDone
<1>10. CASE UNCHANGED vars
  BY <1>3, <1>10 DEF vars
<1> QED BY <1>4, <1>5, <1>6, <1>7, <1>8, <1>9, <1>10 DEF Next, Returned

LEMMA InitRefines == Init => PV!Init
BY DEF Init, PV!Init

\* One call of receive_response keeps the promise of PortVerdicts for every batch: a
\* port is reported at most once, its verdict is never revised or added after the loop,
\* and the loop ends by itself only when every port has been reported.
THEOREM Refinement == Spec => ImplementsVerdicts
<1>1. VerdictInv /\ [Next]_vars => VerdictInv'
  BY CountersNext, StepRefines DEF VerdictInv
<1> QED BY <1>1, VerdictInit, InitRefines, StepRefines, PTL DEF Spec, ImplementsVerdicts, PV!Spec

-----------------------------------------------------------------------------
(***************************************************************************)
(* The lists of results.                                                   *)
(***************************************************************************)
ListsInv == VerdictInv /\ ClassifiedOnce

\* A port added to a list that does not name it.
LEMMA AppendNew ==
    ASSUME NEW seq \in Seq(Ports), NEW S \in SUBSET Ports, NEW p \in Ports, p \notin S,
           Range1(seq) = S, Len(seq) = Cardinality(S)
    PROVE  /\ Range1(Append(seq, p)) = S \cup {p}
           /\ Len(Append(seq, p)) = Cardinality(S \cup {p})
<1>1. /\ Len(seq) \in Nat /\ Len(Append(seq, p)) = Len(seq) + 1
      /\ Append(seq, p)[Len(seq) + 1] = p
      /\ \A i \in 1 .. Len(seq) : Append(seq, p)[i] = seq[i]
  BY AppendProperties, LenProperties
<1>2. Range1(Append(seq, p)) = S \cup {p}
  <2>1. \A i \in 1 .. Len(seq) + 1 : i \in 1 .. Len(seq) \/ i = Len(seq) + 1
    BY <1>1
  <2>2. \A i \in 1 .. Len(seq) : i \in 1 .. Len(seq) + 1
    BY <1>1
  <2>3. Len(seq) + 1 \in 1 .. Len(seq) + 1
    BY <1>1
  <2> QED BY <1>1, <2>1, <2>2, <2>3 DEF Range1
<1>3. Cardinality(S \cup {p}) = Cardinality(S) + 1
  BY PortScanAssumption, FS_Subset, FS_AddElement
<1> QED BY <1>1, <1>2, <1>3

\* The step that decides port p enters it in the list of its verdict, once.
LEMMA ListsAccount ==
    ASSUME TypeOK, ClassifiedOnce, DecidedIsReported',
           NEW p \in Ports, NEW s \in PortState, NEW t \in PortState,
           Account(p, t), result' = Reported(p, s, t), s.reported = ps[p].reported,
           t.reported = s.reported \/ s.reported = "None"
    PROVE  ClassifiedOnce'
<1>1. ps'[p].reported = t.reported /\ \A q \in Ports : q # p => ps'[q] = ps[q]
  BY AccountFacts
<1>2. result \in [open_ports : Seq(Ports), closed_ports : Nat, filtered_ports : Seq(Ports)]
  BY DEF TypeOK
<1>3. \A v : With(v) \in SUBSET Ports
  BY DEF With
<1>4. \A q \in Ports : ps'[q].final => ps'[q].reported # "None"
  BY DEF DecidedIsReported
<1>5. CASE t.reported = s.reported
  <2>1. result' = result
    BY <1>5 DEF Reported
  <2>2. With("Open")' = With("Open") /\ With("Closed")' = With("Closed")
          /\ With("Filtered")' = With("Filtered")
    BY <1>1, <1>5 DEF With
  <2> QED BY <1>4, <2>1, <2>2 DEF ClassifiedOnce
<1>6. CASE t.reported # s.reported
  <2>1. t.reported \in {"Open", "Closed", "Filtered"} /\ ps[p].reported = "None"
    BY <1>6 DEF PortState, Verdicts
  <2>2. \A v \in {"Open", "Closed", "Filtered"} :
          p \notin With(v) /\ With(v)' = IF v = t.reported THEN With(v) \cup {p} ELSE With(v)
    BY <1>1, <2>1 DEF With
  <2>3. CASE t.reported = "Open"
    <3>1. result' = [result EXCEPT !.open_ports = Append(result.open_ports, p)]
      BY <1>6, <2>3 DEF Reported
    <3>2. /\ result'.open_ports = Append(result.open_ports, p)
          /\ result'.closed_ports = result.closed_ports
          /\ result'.filtered_ports = result.filtered_ports
      BY <1>2, <3>1
    <3>3. /\ With("Open")' = With("Open") \cup {p} /\ With("Closed")' = With("Closed")
          /\ With("Filtered")' = With("Filtered")
      BY <2>2, <2>3
    <3>4. /\ Range1(result'.open_ports) = With("Open") \cup {p}
          /\ Len(result'.open_ports) = Cardinality(With("Open") \cup {p})
      <4>1. /\ result.open_ports \in Seq(Ports) /\ With("Open") \in SUBSET Ports
            /\ p \notin With("Open") /\ Range1(result.open_ports) = With("Open")
            /\ Len(result.open_ports) = Cardinality(With("Open"))
        BY <1>2, <1>3, <2>2 DEF ClassifiedOnce
      <4>2. /\ Range1(Append(result.open_ports, p)) = With("Open") \cup {p}
            /\ Len(Append(result.open_ports, p)) = Cardinality(With("Open") \cup {p})
        BY <4>1, AppendNew
      <4> QED BY <3>2, <4>2
    <3> QED BY <1>4, <3>2, <3>3, <3>4 DEF ClassifiedOnce
  <2>4. CASE t.reported = "Closed"
    <3>1. result' = [result EXCEPT !.closed_ports = result.closed_ports + 1]
      BY <1>6, <2>4 DEF Reported
    <3>2. /\ result'.open_ports = result.open_ports
          /\ result'.closed_ports = result.closed_ports + 1
          /\ result'.filtered_ports = result.filtered_ports
      BY <1>2, <3>1
    <3>3. /\ With("Closed")' = With("Closed") \cup {p} /\ With("Open")' = With("Open")
          /\ With("Filtered")' = With("Filtered")
      BY <2>2, <2>4
    <3>4. Cardinality(With("Closed") \cup {p}) = Cardinality(With("Closed")) + 1
      BY <1>3, <2>2, PortScanAssumption, FS_Subset, FS_AddElement
    <3> QED BY <1>4, <3>2, <3>3, <3>4 DEF ClassifiedOnce
  <2>5. CASE t.reported = "Filtered"
    <3>1. result' = [result EXCEPT !.filtered_ports = Append(result.filtered_ports, p)]
      BY <1>6, <2>5 DEF Reported
    <3>2. /\ result'.open_ports = result.open_ports
          /\ result'.closed_ports = result.closed_ports
          /\ result'.filtered_ports = Append(result.filtered_ports, p)
      BY <1>2, <3>1
    <3>3. /\ With("Filtered")' = With("Filtered") \cup {p} /\ With("Open")' = With("Open")
          /\ With("Closed")' = With("Closed")
      BY <2>2, <2>5
    <3>4. /\ Range1(result'.filtered_ports) = With("Filtered") \cup {p}
          /\ Len(result'.filtered_ports) = Cardinality(With("Filtered") \cup {p})
      <4>1. /\ result.filtered_ports \in Seq(Ports) /\ With("Filtered") \in SUBSET Ports
            /\ p \notin With("Filtered") /\ Range1(result.filtered_ports) = With("Filtered")
            /\ Len(result.filtered_ports) = Cardinality(With("Filtered"))
        BY <1>2, <1>3, <2>2 DEF ClassifiedOnce
      <4>2. /\ Range1(Append(result.filtered_ports, p)) = With("Filtered") \cup {p}
            /\ Len(Append(result.filtered_ports, p)) = Cardinality(With("Filtered") \cup {p})
        BY <4>1, AppendNew
      <4> QED BY <3>2, <4>2
    <3> QED BY <1>4, <3>2, <3>3, <3>4 DEF ClassifiedOnce
  <2> QED BY <2>1, <2>3, <2>4, <2>5
<1> QED BY <1>5, <1>6

LEMMA ListsInit == Init => ListsInv
<1> SUFFICES ASSUME Init PROVE ClassifiedOnce
  BY VerdictInit DEF ListsInv
<1>1. With("Open") = {} /\ With("Closed") = {} /\ With("Filtered") = {}
  BY DEF Init, With
<1>2. /\ result = [open_ports |-> <<>>, closed_ports |-> 0, filtered_ports |-> <<>>]
      /\ \A p \in Ports : ~ps[p].final
  BY DEF Init
<1>3. Range1(<<>>) = {} /\ Len(<<>>) = 0
  BY DEF Range1
<1> QED BY <1>1, <1>2, <1>3, FS_EmptySet DEF ClassifiedOnce

LEMMA ListsNext == ListsInv /\ [Next]_vars => ListsInv'
<1> SUFFICES ASSUME ListsInv, [Next]_vars PROVE VerdictInv' /\ ClassifiedOnce'
  BY DEF ListsInv
<1> USE DEF args, gateVars, senderVars, endVars, history
<1>1. VerdictInv'
  BY CountersNext, StepRefines DEF ListsInv, VerdictInv
<1>2. /\ TypeOK /\ ClassifiedOnce /\ DecidedIsReported'
      /\ ps \in [Ports -> PortState] /\ \A p \in Ports : ps[p] \in PortState
      /\ scan_type \in ScanTypes /\ fast_scan \in BOOLEAN
  BY <1>1 DEF ListsInv, VerdictInv, CounterInv, TypeInv, TypeOK
<1>3. ASSUME UNCHANGED result, \A p \in Ports : ps'[p].reported = ps[p].reported
      PROVE  ClassifiedOnce'
  <2>1. \A v \in {"Open", "Closed", "Filtered"} : With(v)' = With(v)
    BY <1>3 DEF With
  <2>2. \A p \in Ports : ps'[p].final => ps'[p].reported # "None"
    BY <1>2 DEF DecidedIsReported
  <2> QED BY <1>2, <1>3, <2>1, <2>2 DEF ClassifiedOnce
<1>q. ASSUME UNCHANGED <<ps, result>> PROVE ClassifiedOnce'
  BY <1>3, <1>q
<1>4. ASSUME NEW p \in Ports, NEW seg \in Segments, NEW usable \in BOOLEAN,
             Reply(p, seg, usable)
      PROVE  ClassifiedOnce'
  <2> DEFINE s == IF usable THEN [ps[p] EXCEPT !.rtt_measured = TRUE] ELSE ps[p]
             t == process_response(s, seg)
  <2>1. s \in PortState /\ s.reported = ps[p].reported
    <3>1. CASE usable
      BY <1>2, <3>1 DEF PortState
    <3>2. CASE ~usable
      BY <1>2, <3>2
    <3> QED BY <3>1, <3>2
  <2>2. Account(p, t) /\ result' = Reported(p, s, t)
    BY <1>4 DEF Reply
  <2> HIDE DEF s
  <2>3. /\ t \in PortState
        /\ t.reported = s.reported \/ s.reported = "None"
    BY <1>2, <2>1, ResponseFacts
  <2> HIDE DEF t
  <2> QED BY <1>2, <2>1, <2>2, <2>3, ListsAccount
<1>5. ASSUME NEW p \in Ports, Account(p, Resolve(ps[p], "Filtered")),
             result' = Reported(p, ps[p], Resolve(ps[p], "Filtered"))
      PROVE  ClassifiedOnce'
  <2> DEFINE t == Resolve(ps[p], "Filtered")
  <2>1. /\ t \in PortState /\ ps[p] \in PortState
        /\ t.reported = ps[p].reported \/ ps[p].reported = "None"
    BY <1>2 DEF Resolve, Report, PortState, Verdicts
  <2>2. Account(p, t) /\ result' = Reported(p, ps[p], t)
    BY <1>5
  <2> HIDE DEF t
  <2> QED BY <1>2, <2>1, <2>2, ListsAccount
<1>6. ASSUME NEW p \in Ports, NEW sport \in Attempts, IcmpProhibited(p, sport)
      PROVE  ClassifiedOnce'
  BY <1>5, <1>6 DEF IcmpProhibited
<1>7. ASSUME NEW p \in Ports, HeapStep(p) PROVE ClassifiedOnce'
  <2>1. CASE DropEntry(p) \/ Park(p)
    BY <1>q, <2>1 DEF DropEntry, Park
  <2>2. CASE GiveUp(p)
    BY <1>5, <2>2 DEF GiveUp
  <2>3. CASE InitialSend(p)
    <3>1. ps' = [ps EXCEPT ![p] = [ps[p] EXCEPT !.initial_send_deferred = FALSE]]
            /\ result' = result
      BY <1>2, <2>3 DEF InitialSend
    <3>2. \A q \in Ports : ps'[q].reported = ps[q].reported
      BY <1>2, <3>1 DEF PortState
    <3> QED BY <1>3, <3>1, <3>2
  <2>4. CASE RetrySend(p)
    <3>1. ps' = [ps EXCEPT ![p] = [ps[p] EXCEPT !.retry_send_deferred = FALSE]]
            /\ result' = result
      BY <1>2, <2>4 DEF RetrySend
    <3>2. \A q \in Ports : ps'[q].reported = ps[q].reported
      BY <1>2, <3>1 DEF PortState
    <3> QED BY <1>3, <3>1, <3>2
  <2>5. ASSUME NEW cap \in MinRetries .. MaxRetries, ScheduleRetry(p, cap)
        PROVE  ClassifiedOnce'
    <3>1. /\ ps'[p].reported = ps[p].reported /\ result' = result
          /\ \A q \in Ports : q # p => ps'[q] = ps[q]
      BY <1>2, <2>5 DEF ScheduleRetry, PortState
    <3>2. \A q \in Ports : ps'[q].reported = ps[q].reported
      BY <3>1
    <3> QED BY <1>3, <3>1, <3>2
  <2> QED BY <1>7, <2>1, <2>2, <2>3, <2>4, <2>5 DEF HeapStep
<1>8. CASE \E st \in stamps : TxTimestamp(st)
  BY <1>1, <1>q, <1>8 DEF TxTimestamp
<1>9. CASE Phase1Deadline \/ Sentinel \/ LoopExit \/ IcmpFatal \/ Return \/ Terminate
  BY <1>1, <1>q, <1>9 DEF Phase1Deadline, Sentinel, LoopExit, IcmpFatal, Shutdown, Return, Terminate
<1>10. CASE SenderStep
  BY <1>1, <1>q, <1>10 DEF SenderStep, Dequeue, MarkOutstanding, StampTx, FileStamp, PacketDropped, BatchDone
<1>11. CASE UNCHANGED vars
  BY <1>1, <1>q, <1>11 DEF vars
<1> QED BY <1>1, <1>4, <1>6, <1>7, <1>8, <1>9, <1>10, <1>11 DEF Next, Returned

\* The result of a call names every port at most once, in the list of the state it was
\* reported in, and leaves out no port that is decided: open, closed and filtered are a
\* partition of the reported ports, for any number of ports.
THEOREM ListsCorrect == Spec => []ClassifiedOnce
<1>1. ListsInv => ClassifiedOnce
  BY DEF ListsInv
<1> QED BY <1>1, ListsInit, ListsNext, PTL DEF Spec
=============================================================================
