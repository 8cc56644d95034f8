------------------------------ MODULE PortScan ------------------------------
(***************************************************************************)
(* One call of receive_response (scan.cpp): the classification of a batch  *)
(* of TCP ports of one target.  Two threads share the state:               *)
(*                                                                         *)
(*   - the receiver runs the main loop: it demultiplexes replies, feeds    *)
(*     them to process_response, and works through deadline_heap (first    *)
(*     transmissions, retries, giving up);                                 *)
(*   - the sender takes PacketTasks from packet_queue, hands them to       *)
(*     send_tcp_packets, and stops at the poison pill.                     *)
(*                                                                         *)
(* Time is abstracted: an entry of deadline_heap may come due at any       *)
(* moment, so pushing an entry back with a later deadline (no transmission *)
(* confirmed yet, real deadline in the future, rate or bandwidth window    *)
(* full) is a stuttering step and appears only as a guard of the step that *)
(* does change state.  The network may lose, delay, repeat and reorder     *)
(* everything, and stray segments arrive too.                              *)
(***************************************************************************)
EXTENDS Integers, Sequences, FiniteSets

CONSTANTS
    Ports,        \* the ports of this call (parse_ports has removed duplicates)
    ScanTypes,    \* the scan types the run considers
    FastScanModes, \* values of fast_scan: FALSE under -G (complete the handshake)
    UseToken,     \* use_token: no sequence number was given on the command line
    MinRetries,   \* g_cong_tune.min_retries
    MaxRetries,   \* g_cong_tune.max_retries
    PreciseTx,    \* precise_eligible: does the kernel return TX timestamps?
    SendMayFail,  \* may send_tcp_packets drop a packet before on_pre_submit?
    MayInterrupt  \* may a signal or a fatal ICMP error end the call early?

SynLike == {"SYN", "RAM", "JATAYU", "GARUD", "GANESH",
            "CWR", "ECE", "URG", "PSH", "HANUMAN", "KAKABHUSUNDI"}
FinLike == {"FIN", "NULL_SCAN", "XMAS", "MAIMON"}
no_retry_scan_types == {"FIN", "NULL_SCAN", "XMAS", "CWR", "URG", "PSH", "HANUMAN"}

ASSUME PortScanAssumption ==
    /\ IsFiniteSet(Ports)
    /\ ScanTypes \subseteq SynLike \cup FinLike \cup {"ACK", "WINDOW"}
    /\ FastScanModes \subseteq BOOLEAN /\ UseToken \in BOOLEAN /\ SendMayFail \in BOOLEAN
    /\ PreciseTx \in BOOLEAN /\ MayInterrupt \in BOOLEAN
    /\ MinRetries \in Nat /\ MaxRetries \in Nat /\ MinRetries <= MaxRetries

VARIABLES
    scan_type, fast_scan,  \* arguments of the call
    ps,               \* port_states_arr (PortState), with port_final as field final
    tx,               \* the per-port atomics the sender and the receiver share
    heap,             \* deadline_heap: how many entries each port has in it
    gate,             \* gate_pending_ports: how often each port is parked
    sentinel,         \* the phase-1 marker: "unarmed", "in_heap" or "fired"
    phase1_over,      \* has a heap pass begun at or after phase1_deadline?
    has_measurement,  \* RTTTracker::has_measurement
    active_count, ports_in_retry,
    result,           \* RecPross: open_ports, closed_ports, filtered_ports
    packet_queue,
    sender,           \* the sender thread: state, what is left of its tasks_vec, the
                      \* packet whose generation it has yet to read, shutdown_requested
    stamps,           \* id_to_pidx: kernel TX timestamps still expected
    pc,               \* the receiver: "scan", "join" or "done"
    terminate_flag, aborted,
    transmitted,      \* history: the tasks that reached on_pre_submit
    overtaken         \* history: the tasks whose port was given its next attempt
                      \* while on_pre_submit was still at them

vars == <<scan_type, fast_scan, ps, tx, heap, gate, sentinel, phase1_over, has_measurement,
          active_count, ports_in_retry, result, packet_queue, sender, stamps,
          pc, terminate_flag, aborted, transmitted, overtaken>>
args == <<scan_type, fast_scan>>
history == <<transmitted, overtaken>>
senderVars == <<packet_queue, sender, stamps, transmitted, overtaken>>
gateVars == <<gate, sentinel, phase1_over, has_measurement>>
endVars == <<pc, terminate_flag, aborted>>

skip_retries == scan_type \in no_retry_scan_types

Attempts == 0 .. MaxRetries
Verdicts == {"Open", "Closed", "Filtered"}

PortState ==
    [reported : Verdicts \cup {"None"}, final : BOOLEAN,
     connection_established : BOOLEAN, fin_sent : BOOLEAN, fin_ack_received : BOOLEAN,
     retry_count : Attempts, retries_cap : Attempts,
     initial_send_deferred : BOOLEAN, retry_send_deferred : BOOLEAN,
     counted_in_retry : BOOLEAN, rtt_measured : BOOLEAN]

\* tx_ts_table holds the attempt its timestamp belongs to; NoStamp is the value 0.
NoStamp == -1
TxState == [real_tx : BOOLEAN, probe_outstanding : BOOLEAN, generation : Attempts,
            tx_ts : Attempts \cup {NoStamp}, tx_ts_precise : BOOLEAN]

Task(p, kind, a) == [port |-> p, kind |-> kind, attempt |-> a]
Tasks == [port : Ports, kind : {"probe", "ACK", "FINACK", "LASTACK"}, attempt : Attempts]
poison_pill == [kind |-> "poison"]
is_poison(t) == t = poison_pill

(***************************************************************************)
(* A TCP segment of the target.  sport tells which probe it answers by the *)
(* source port that probe used (Stray: a port no probe used), ack is the   *)
(* acknowledgement minus our sequence number (0: any other value).         *)
(***************************************************************************)
Stray == -1
Flags == {{"SYN", "ACK"}, {"RST", "ACK"}, {"RST"}, {"FIN", "ACK"}, {"ACK"}}
Segments ==
    {seg \in [flags : Flags, ack : 0 .. 2, win : 0 .. 1, sport : Attempts \cup {Stray}] :
       /\ "ACK" \notin seg.flags => seg.ack = 0     \* without ACK the field means nothing
       /\ "RST" \notin seg.flags => seg.win = 0}    \* the window is only looked at in a RST
SynAck(seg) == {"SYN", "ACK"} \subseteq seg.flags
-----------------------------------------------------------------------------
Init ==
    /\ scan_type \in ScanTypes
    /\ fast_scan \in FastScanModes
    /\ fast_scan \/ scan_type \in SynLike   \* -G changes nothing for the other families
    /\ ps = [p \in Ports |->
               [reported |-> "None", final |-> FALSE,
                connection_established |-> FALSE, fin_sent |-> FALSE,
                fin_ack_received |-> FALSE,
                retry_count |-> 0, retries_cap |-> MinRetries,
                initial_send_deferred |-> TRUE, retry_send_deferred |-> FALSE,
                counted_in_retry |-> FALSE, rtt_measured |-> FALSE]]
    /\ tx = [p \in Ports |->
               [real_tx |-> FALSE, probe_outstanding |-> FALSE, generation |-> 0,
                tx_ts |-> NoStamp, tx_ts_precise |-> FALSE]]
    /\ heap = [p \in Ports |-> 1]
    /\ gate = [p \in Ports |-> 0]
    /\ sentinel = "unarmed"
    /\ phase1_over = FALSE
    /\ has_measurement \in BOOLEAN      \* an earlier batch may have measured
    /\ active_count = Cardinality(Ports)
    /\ ports_in_retry = 0
    /\ result = [open_ports |-> <<>>, closed_ports |-> 0, filtered_ports |-> <<>>]
    /\ packet_queue = <<>>
    /\ sender = [state |-> "wait", batch |-> <<>>, filing |-> {}, shutdown_requested |-> FALSE]
    /\ stamps = {}
    /\ pc = "scan"
    /\ terminate_flag = FALSE
    /\ aborted = FALSE
    /\ transmitted = {}
    /\ overtaken = {}
-----------------------------------------------------------------------------
(***************************************************************************)
(* process_response: the verdict a reply gives.                            *)
(***************************************************************************)
Report(s, v) == IF s.reported = "None" THEN [s EXCEPT !.reported = v] ELSE s

\* Fault: a decided port is not reported.
ResolveSilently(s, v) == [s EXCEPT !.final = TRUE]

Resolve(s, v) == [Report(s, v) EXCEPT !.final = TRUE]

Handshake(s) == [Report(s, "Open") EXCEPT !.connection_established = TRUE,
                                          !.fin_sent = ~fast_scan,
                                          !.final = fast_scan]

RstVerdict(seg) ==
    CASE scan_type \in SynLike \cup FinLike -> "Closed"
      [] scan_type = "ACK"                  -> "Open"
      [] scan_type = "WINDOW"               -> IF seg.win > 0 THEN "Open" ELSE "Closed"

\* After the switch: the peer's FIN ends the teardown of a -G scan.
Teardown(s, seg) ==
    CASE s.connection_established /\ s.fin_sent /\ ~s.fin_ack_received
                                  /\ "FIN" \in seg.flags ->
           [s EXCEPT !.fin_ack_received = TRUE, !.final = TRUE]
      [] s.connection_established /\ ~s.fin_sent /\ "ACK" \in seg.flags
                                  /\ "SYN" \notin seg.flags /\ s.reported = "Open" ->
           [s EXCEPT !.final = TRUE]
      [] OTHER -> s

AckMismatch(s, seg) ==
    ~s.connection_established /\ "ACK" \in seg.flags /\ seg.ack # 1

process_response(s, seg) ==
    CASE s.final \/ AckMismatch(s, seg) -> s
      [] scan_type \in SynLike /\ SynAck(seg) /\ ~s.connection_established
                                        /\ ~s.final /\ ~AckMismatch(s, seg) -> Handshake(s)
      [] OTHER -> IF "RST" \in seg.flags THEN Resolve(s, RstVerdict(seg))
                                         ELSE Teardown(s, seg)

\* Fault: the FIN|ACK is enqueued ahead of the ACK.
FollowUpsSwapped(p, s, t) ==
    (IF t.fin_sent /\ ~s.fin_sent
       THEN <<Task(p, "FINACK", s.retry_count), Task(p, "ACK", s.retry_count)>> ELSE <<>>)
    \o (IF t.fin_ack_received /\ ~s.fin_ack_received
          THEN <<Task(p, "LASTACK", s.retry_count)>> ELSE <<>>)

\* The packets process_response enqueues while the port goes from s to t.
FollowUps(p, s, t) ==
    (IF t.fin_sent /\ ~s.fin_sent
       THEN <<Task(p, "ACK", s.retry_count), Task(p, "FINACK", s.retry_count)>> ELSE <<>>)
    \o (IF t.fin_ack_received /\ ~s.fin_ack_received
          THEN <<Task(p, "LASTACK", s.retry_count)>> ELSE <<>>)

\* result with the verdict that the step from s to t reports, if any.
Reported(p, s, t) ==
    IF s.reported = t.reported THEN result
    ELSE CASE t.reported = "Open"     -> [result EXCEPT !.open_ports = Append(@, p)]
           [] t.reported = "Closed"   -> [result EXCEPT !.closed_ports = @ + 1]
           [] t.reported = "Filtered" -> [result EXCEPT !.filtered_ports = Append(@, p)]

(***************************************************************************)
(* The bookkeeping of a port that became final: the counters, and the      *)
(* port's share of the retry budget.                                       *)
(***************************************************************************)
\* Fault: the port keeps its share of the retry budget.
AccountLeaks(p, t) ==
    /\ ps' = [ps EXCEPT ![p] = [t EXCEPT !.counted_in_retry = @ /\ ~t.final]]
    /\ active_count' = active_count - (IF t.final THEN 1 ELSE 0)
    /\ UNCHANGED ports_in_retry

Account(p, t) ==
    IF t.final
      THEN /\ ps' = [ps EXCEPT ![p] = [t EXCEPT !.counted_in_retry = FALSE]]
           /\ active_count' = active_count - 1
           /\ ports_in_retry' = ports_in_retry - (IF t.counted_in_retry THEN 1 ELSE 0)
      ELSE /\ ps' = [ps EXCEPT ![p] = t]
           /\ UNCHANGED <<active_count, ports_in_retry>>

\* Fault: gate_pending_ports is not cleared.
ReleaseGateTwice ==
    /\ heap' = [p \in Ports |-> heap[p] + gate[p]]
    /\ UNCHANGED gate

\* A first RTT measurement lets every parked port go back to the heap.
ReleaseGate ==
    /\ heap' = [p \in Ports |-> heap[p] + gate[p]]
    /\ gate' = [p \in Ports |-> 0]
-----------------------------------------------------------------------------
(***************************************************************************)
(* The receiver: replies.                                                  *)
(***************************************************************************)
accepts_src_port(p, sport) == sport \in 0 .. ps[p].retry_count

\* Fault: a bare RST is accepted before any probe is out.
DemuxAnyRst(p, seg) ==
    /\ accepts_src_port(p, seg.sport)
    /\ UseToken /\ "ACK" \in seg.flags =>
         seg.ack = 1 \/ (ps[p].fin_sent /\ seg.ack = 2)

\* The checks a segment passes before process_response sees it.
Demux(p, seg) ==
    /\ accepts_src_port(p, seg.sport)
    /\ UseToken /\ "ACK" \in seg.flags =>
         seg.ack = 1 \/ (ps[p].fin_sent /\ seg.ack = 2)
    /\ UseToken /\ seg.flags = {"RST"} => tx[p].probe_outstanding

\* on_pre_submit is done with t: nobody can have answered it before.
Submitted(t) ==
    /\ t \in transmitted \ sender.filing
    /\ ~(sender.state = "marked" /\ t = Head(sender.batch))

\* Only the target knows the token of a probe, and only once the probe is out.
CanArrive(p, seg) ==
    /\ seg.ack = 1 /\ UseToken => Submitted(Task(p, "probe", seg.sport))
    /\ seg.ack = 2 /\ UseToken => \E a \in Attempts : Submitted(Task(p, "FINACK", a))

\* A usable RTT sample: the reply's port has a precise transmission time.
Sample(p) ==
    ~ps[p].rtt_measured /\ tx[p].tx_ts_precise /\ tx[p].tx_ts # NoStamp

\* A reply of the target.  usable: the sample lies between 0 and 30 seconds.
Reply(p, seg, usable) ==
    /\ pc = "scan"
    /\ CanArrive(p, seg) /\ Demux(p, seg) /\ ~ps[p].final
    /\ usable => Sample(p)
    /\ LET s == IF usable THEN [ps[p] EXCEPT !.rtt_measured = TRUE] ELSE ps[p]
           t == process_response(s, seg)
       IN  /\ Account(p, t)
           /\ result' = Reported(p, s, t)
           /\ packet_queue' = packet_queue \o FollowUps(p, s, t)
           /\ tx' = IF t.final THEN [tx EXCEPT ![p].tx_ts = NoStamp,
                                               ![p].probe_outstanding = FALSE]
                               ELSE tx
    /\ has_measurement' = (has_measurement \/ usable)
    /\ IF usable /\ ~has_measurement THEN ReleaseGate ELSE UNCHANGED <<heap, gate>>
    /\ UNCHANGED <<args, sentinel, phase1_over, sender, stamps, endVars, history>>

\* ICMP type 3 code 9, 10 or 13 (ICMPv6: type 1 code 1, 5 or 6) quoting a probe.
IcmpProhibited(p, sport) ==
    /\ pc = "scan"
    /\ Submitted(Task(p, "probe", sport))
    /\ accepts_src_port(p, sport)
    /\ ~ps[p].final
    /\ ps[p].retry_count >= ps[p].retries_cap
    /\ ps[p].reported = "None"
    /\ LET t == Resolve(ps[p], "Filtered")
       IN  /\ Account(p, t)
           /\ result' = Reported(p, ps[p], t)
    /\ tx' = [tx EXCEPT ![p].tx_ts = NoStamp, ![p].probe_outstanding = FALSE]
    /\ UNCHANGED <<args, heap, gateVars, senderVars, endVars>>

\* Fault: the generation of the timestamp is not compared.
TxTimestampAnyGeneration(s) ==
    /\ pc = "scan"
    /\ stamps' = stamps \ {s}
    /\ tx' = [tx EXCEPT ![s.port].tx_ts = s.attempt, ![s.port].tx_ts_precise = TRUE]
    /\ UNCHANGED <<args, ps, heap, gateVars, active_count, ports_in_retry, result,
                   packet_queue, sender, endVars, history>>

\* drain_tx_errqueue: a kernel TX timestamp is filed under the port it was
\* expected for, unless that port has moved on to another attempt.
TxTimestamp(s) ==
    /\ pc = "scan"
    /\ stamps' = stamps \ {s}
    /\ tx' = IF tx[s.port].generation = s.generation
               THEN [tx EXCEPT ![s.port].tx_ts = s.attempt, ![s.port].tx_ts_precise = TRUE]
               ELSE tx
    /\ UNCHANGED <<args, ps, heap, gateVars, active_count, ports_in_retry, result,
                   packet_queue, sender, endVars, history>>
-----------------------------------------------------------------------------
(***************************************************************************)
(* The receiver: deadline_heap.                                            *)
(***************************************************************************)
Pop(p) == [heap EXCEPT ![p] = @ - 1]

\* A live entry: the port still waits for a decision.
Due(p) == pc = "scan" /\ heap[p] > 0 /\ ~ps[p].final /\ ~ps[p].connection_established

\* The entry of a port that is decided, or open and being torn down, is dropped.
DropEntry(p) ==
    /\ pc = "scan" /\ heap[p] > 0
    /\ ps[p].final \/ ps[p].connection_established
    /\ heap' = Pop(p)
    /\ UNCHANGED <<args, ps, tx, gateVars, active_count, ports_in_retry, result,
                   senderVars, endVars>>

InitialSend(p) ==
    /\ Due(p) /\ ps[p].initial_send_deferred
    /\ ps' = [ps EXCEPT ![p].initial_send_deferred = FALSE]
    /\ packet_queue' = Append(packet_queue, Task(p, "probe", 0))
    /\ heap' = [Pop(p) EXCEPT ![p] = @ + 1]
    /\ UNCHANGED <<args, tx, gateVars, active_count, ports_in_retry, result,
                   sender, stamps, endVars, history>>

\* The sender may be at an earlier packet of p: it has stored real_tx_ts_us and not
\* read port_generation yet.  That is the one pair of accesses of on_pre_submit that
\* these stores can fall between: a retry is never sent while real_tx_ts_us is 0.
RetrySend(p) ==
    /\ Due(p) /\ ~ps[p].initial_send_deferred /\ ps[p].retry_send_deferred
    /\ ps' = [ps EXCEPT ![p].retry_send_deferred = FALSE]
    /\ tx' = [tx EXCEPT ![p] = [real_tx |-> FALSE, probe_outstanding |-> FALSE,
                                generation |-> @.generation + 1,
                                tx_ts |-> NoStamp, tx_ts_precise |-> FALSE]]
    /\ packet_queue' = Append(packet_queue, Task(p, "probe", ps[p].retry_count))
    /\ heap' = [Pop(p) EXCEPT ![p] = @ + 1]
    /\ overtaken' = overtaken \cup {t \in sender.filing : t.port = p}
    /\ UNCHANGED <<args, gateVars, active_count, ports_in_retry, result,
                   sender, stamps, endVars, transmitted>>

RetryDecision(p) ==
    Due(p) /\ ~ps[p].initial_send_deferred /\ ~ps[p].retry_send_deferred /\ ~skip_retries

\* Faults: the transmission is not awaited; one retry too many.
MayRetryUnsent(p) == RetryDecision(p) /\ ps[p].retry_count < ps[p].retries_cap
MayRetryOnceMore(p) ==
    RetryDecision(p) /\ ps[p].retry_count <= ps[p].retries_cap /\ tx[p].real_tx

\* The last transmission of p is confirmed and retries are left.
MayRetry(p) ==
    RetryDecision(p) /\ ps[p].retry_count < ps[p].retries_cap /\ tx[p].real_tx

\* Phase 1: without an RTT measurement the first retry decision is postponed.
Gated(p) == ps[p].retry_count = 0 /\ ~has_measurement /\ ~phase1_over

\* Fault: the sentinel is not armed.
ParkUnarmed(p) ==
    /\ MayRetry(p) /\ Gated(p)
    /\ heap' = Pop(p)
    /\ gate' = [gate EXCEPT ![p] = @ + 1]
    /\ UNCHANGED <<args, ps, tx, sentinel, phase1_over, has_measurement, active_count,
                   ports_in_retry, result, senderVars, endVars>>

Park(p) ==
    /\ MayRetry(p) /\ Gated(p)
    /\ heap' = Pop(p)
    /\ gate' = [gate EXCEPT ![p] = @ + 1]
    /\ sentinel' = IF sentinel = "unarmed" THEN "in_heap" ELSE sentinel
    /\ UNCHANGED <<args, ps, tx, phase1_over, has_measurement, active_count,
                   ports_in_retry, result, senderVars, endVars>>

\* cap: dynamic_max_retries, which the congestion ratio moves between its bounds.
ScheduleRetry(p, cap) ==
    /\ MayRetry(p) /\ ~Gated(p)
    /\ LET first == ps[p].retry_count = 0
       IN  /\ ps' = [ps EXCEPT ![p].retry_count = @ + 1,
                               ![p].retries_cap = IF first THEN cap ELSE @,
                               ![p].counted_in_retry = first \/ @,
                               ![p].retry_send_deferred = TRUE]
           /\ ports_in_retry' = ports_in_retry + (IF first THEN 1 ELSE 0)
    /\ heap' = [Pop(p) EXCEPT ![p] = @ + 1]
    /\ UNCHANGED <<args, tx, gateVars, active_count, result, senderVars, endVars>>

GiveUp(p) ==
    /\ Due(p) /\ ~ps[p].initial_send_deferred /\ ~ps[p].retry_send_deferred
    /\ skip_retries \/ ps[p].retry_count >= ps[p].retries_cap
    /\ LET t == Resolve(ps[p], "Filtered")
       IN  /\ Account(p, t)
           /\ result' = Reported(p, ps[p], t)
    /\ heap' = Pop(p)
    /\ UNCHANGED <<args, tx, gateVars, senderVars, endVars>>

\* phase1_deadline passes; later the sentinel is popped and frees the parked ports.
Phase1Deadline ==
    /\ pc = "scan" /\ ~phase1_over
    /\ phase1_over' = TRUE
    /\ UNCHANGED <<args, ps, tx, heap, gate, sentinel, has_measurement, active_count,
                   ports_in_retry, result, senderVars, endVars>>

\* Fault: the sentinel leaves the parked ports where they are.
SentinelIdle ==
    /\ pc = "scan" /\ sentinel = "in_heap" /\ phase1_over
    /\ sentinel' = "fired"
    /\ UNCHANGED <<args, ps, tx, heap, gate, phase1_over, has_measurement, active_count,
                   ports_in_retry, result, senderVars, endVars>>

Sentinel ==
    /\ pc = "scan" /\ sentinel = "in_heap" /\ phase1_over
    /\ sentinel' = "fired"
    /\ ReleaseGate
    /\ UNCHANGED <<args, ps, tx, phase1_over, has_measurement, active_count,
                   ports_in_retry, result, senderVars, endVars>>

HeapStep(p) ==
    \/ DropEntry(p) \/ InitialSend(p) \/ RetrySend(p) \/ Park(p) \/ GiveUp(p)
    \/ \E cap \in MinRetries .. MaxRetries : ScheduleRetry(p, cap)
-----------------------------------------------------------------------------
(***************************************************************************)
(* The end of the call: the poison pill, and the join with the sender.     *)
(***************************************************************************)
Shutdown ==
    /\ packet_queue' = Append(packet_queue, poison_pill)
    /\ pc' = "join"
    /\ UNCHANGED <<args, ps, tx, heap, gateVars, active_count, ports_in_retry, result,
                   sender, stamps, history>>

LoopExit ==
    /\ pc = "scan" /\ (active_count = 0 \/ terminate_flag)
    /\ Shutdown
    /\ UNCHANGED <<terminate_flag, aborted>>

\* An ICMP error that makes the target unreachable ends the call at once.
IcmpFatal ==
    /\ MayInterrupt /\ pc = "scan"
    /\ Shutdown
    /\ aborted' = TRUE
    /\ UNCHANGED terminate_flag

Return ==
    /\ pc = "join" /\ sender.state = "exited"
    /\ pc' = "done"
    /\ UNCHANGED <<args, ps, tx, heap, gateVars, active_count, ports_in_retry, result,
                   senderVars, terminate_flag, aborted>>

\* SIGINT, or send_tcp_packets finding the network gone.
Terminate ==
    /\ MayInterrupt /\ pc # "done" /\ ~terminate_flag
    /\ terminate_flag' = TRUE
    /\ UNCHANGED <<args, ps, tx, heap, gateVars, active_count, ports_in_retry, result,
                   senderVars, pc, aborted>>
-----------------------------------------------------------------------------
(***************************************************************************)
(* The sender thread.                                                      *)
(***************************************************************************)
\* wait_dequeue_bulk takes what is there, up to batch_size; the poison pill is sorted
\* out.  Nothing is enqueued behind the pill, so it can only be the last one taken.
Dequeue(k) ==
    /\ sender.state = "wait" /\ k <= Len(packet_queue)
    /\ LET shut == is_poison(packet_queue[k])
           real == SubSeq(packet_queue, 1, IF shut THEN k - 1 ELSE k)
       IN  sender' = [state |-> IF real # <<>> THEN "send"
                                ELSE IF shut THEN "exited" ELSE "wait",
                      batch |-> real, filing |-> {}, shutdown_requested |-> shut]
    /\ packet_queue' = SubSeq(packet_queue, k + 1, Len(packet_queue))
    /\ UNCHANGED <<args, ps, tx, heap, gateVars, active_count, ports_in_retry, result,
                   stamps, endVars, history>>

\* on_pre_submit, which send_tcp_packets calls for one packet after the other while the
\* receiver runs: probe_outstanding is stored, then real_tx_ts_us, and for a packet the
\* kernel will give a TX timestamp of, port_generation is read and filed with it.
Sending == sender.state = "send" /\ sender.filing = {}

MarkOutstanding ==
    /\ Sending /\ sender.batch # <<>> /\ ~terminate_flag
    /\ tx' = [tx EXCEPT ![Head(sender.batch).port].probe_outstanding = TRUE]
    /\ transmitted' = transmitted \cup {Head(sender.batch)}
    /\ sender' = [sender EXCEPT !.state = "marked"]
    /\ UNCHANGED <<args, ps, heap, gateVars, active_count, ports_in_retry, result,
                   packet_queue, stamps, endVars, overtaken>>

StampTx ==
    /\ sender.state = "marked"
    /\ tx' = [tx EXCEPT ![Head(sender.batch).port].real_tx = TRUE]
    /\ sender' = [sender EXCEPT !.state = "send", !.batch = Tail(@),
                                !.filing = {t \in {Head(sender.batch)} : PreciseTx}]
    /\ UNCHANGED <<args, ps, heap, gateVars, active_count, ports_in_retry, result,
                   packet_queue, stamps, endVars, history>>

FileStamp(t) ==
    /\ stamps' = stamps \cup {[port |-> t.port, attempt |-> t.attempt,
                                generation |-> tx[t.port].generation]}
    /\ sender' = [sender EXCEPT !.filing = {}]
    /\ UNCHANGED <<args, ps, tx, heap, gateVars, active_count, ports_in_retry, result,
                   packet_queue, endVars, history>>

\* A packet that on_pre_submit never sees and nobody sends again: send_tcp_packets has
\* no buffer or no socket for it, cannot build it, or gives up the rest of the chunk
\* (SendBatch has the ways in which this happens).
PacketDropped ==
    /\ SendMayFail
    /\ Sending /\ sender.batch # <<>> /\ ~terminate_flag
    /\ sender' = [sender EXCEPT !.batch = Tail(@)]
    /\ UNCHANGED <<args, ps, tx, heap, gateVars, active_count, ports_in_retry, result,
                   packet_queue, stamps, endVars, history>>

\* Fault: a pill that came with other tasks is forgotten.
BatchDoneForgetsPill ==
    /\ Sending /\ (sender.batch = <<>> \/ terminate_flag)
    /\ sender' = [state |-> "wait", batch |-> <<>>, filing |-> {}, shutdown_requested |-> FALSE]
    /\ UNCHANGED <<args, ps, tx, heap, gateVars, active_count, ports_in_retry, result,
                   packet_queue, stamps, endVars, history>>

BatchDone ==
    /\ Sending /\ (sender.batch = <<>> \/ terminate_flag)
    /\ sender' = [state |-> IF sender.shutdown_requested THEN "exited" ELSE "wait",
                  batch |-> <<>>, filing |-> {}, shutdown_requested |-> FALSE]
    /\ UNCHANGED <<args, ps, tx, heap, gateVars, active_count, ports_in_retry, result,
                   packet_queue, stamps, endVars, history>>

SenderStep ==
    \/ \E k \in 1 .. Len(packet_queue) : Dequeue(k)
    \/ MarkOutstanding \/ StampTx \/ (\E t \in sender.filing : FileStamp(t))
    \/ PacketDropped \/ BatchDone

\* After receive_response has returned nothing happens any more.
Returned == pc = "done" /\ UNCHANGED vars

Next ==
    \/ \E p \in Ports, seg \in Segments, usable \in BOOLEAN : Reply(p, seg, usable)
    \/ \E p \in Ports, sport \in Attempts : IcmpProhibited(p, sport)
    \/ \E s \in stamps : TxTimestamp(s)
    \/ \E p \in Ports : HeapStep(p)
    \/ Phase1Deadline \/ Sentinel
    \/ LoopExit \/ IcmpFatal \/ Return \/ Terminate
    \/ SenderStep
    \/ Returned

Spec == Init /\ [][Next]_vars

\* Both threads are scheduled and time passes; nothing is assumed of the network.
Fairness ==
    /\ \A p \in Ports : WF_vars(HeapStep(p))
    /\ WF_vars(Phase1Deadline) /\ WF_vars(Sentinel)
    /\ WF_vars(LoopExit) /\ WF_vars(Return)
    /\ WF_vars(SenderStep)

FairSpec == Spec /\ Fairness
-----------------------------------------------------------------------------
(***************************************************************************)
(* Properties.                                                             *)
(***************************************************************************)
\* The values of the variables: PortState, the atomics, the queues, the result.
TypeOK ==
    /\ scan_type \in ScanTypes /\ fast_scan \in BOOLEAN
    /\ ps \in [Ports -> PortState]
    /\ tx \in [Ports -> TxState]
    /\ heap \in [Ports -> Nat] /\ gate \in [Ports -> Nat]
    /\ sentinel \in {"unarmed", "in_heap", "fired"}
    /\ phase1_over \in BOOLEAN /\ has_measurement \in BOOLEAN
    /\ active_count \in Int /\ ports_in_retry \in Int
    /\ result \in [open_ports : Seq(Ports), closed_ports : Nat, filtered_ports : Seq(Ports)]
    /\ packet_queue \in Seq(Tasks \cup {poison_pill})
    /\ sender \in [state : {"wait", "send", "marked", "exited"}, batch : Seq(Tasks),
                   filing : SUBSET Tasks, shutdown_requested : BOOLEAN]
    /\ stamps \subseteq [port : Ports, attempt : Attempts, generation : Attempts]
    /\ pc \in {"scan", "join", "done"}
    /\ terminate_flag \in BOOLEAN /\ aborted \in BOOLEAN
    /\ transmitted \subseteq Tasks /\ overtaken \subseteq Tasks

Live == {p \in Ports : ~ps[p].final}
InRetry == {p \in Ports : ps[p].counted_in_retry}
With(v) == {p \in Ports : ps[p].reported = v}

\* active_count, which ends the main loop, is the number of ports without a final
\* state, and ports_in_retry the number of undecided ports that were retried:
\* neither is decremented twice or left behind, whichever of a reply, an ICMP error
\* and the last timeout decides the port.
CountersExact ==
    /\ active_count = Cardinality(Live)
    /\ ports_in_retry = Cardinality(InRetry)
    /\ InRetry \subseteq Live

\* Every undecided port is scheduled exactly once: it has one entry in deadline_heap
\* or is parked once behind the phase-1 gate.  No interleaving of first measurement,
\* sentinel and timeouts strands it or lets it run twice.
ScheduledOnce ==
    \A p \in Ports :
      /\ heap[p] + gate[p] <= 1
      /\ ~ps[p].final /\ ~ps[p].connection_established => heap[p] + gate[p] = 1

\* A parked port will be let go: while gate_pending_ports is not empty the sentinel
\* is still in the heap and no measurement has been made.
GateWillOpen ==
    \A p \in Ports : gate[p] > 0 => sentinel = "in_heap" /\ ~has_measurement

Range1(seq) == {seq[i] : i \in 1 .. Len(seq)}

\* result names a port exactly once, in the list of the state it was reported in,
\* and every final port is reported: open + closed + filtered is a partition.
ClassifiedOnce ==
    /\ Range1(result.open_ports) = With("Open")
    /\ Len(result.open_ports) = Cardinality(With("Open"))
    /\ result.closed_ports = Cardinality(With("Closed"))
    /\ Range1(result.filtered_ports) = With("Filtered")
    /\ Len(result.filtered_ports) = Cardinality(With("Filtered"))
    /\ \A p \in Ports : ps[p].final => ps[p].reported # "None"

\* The probes of port p whose transmission the sender has not confirmed yet.
Unsent(p) == {i \in 1 .. Len(packet_queue) : ~is_poison(packet_queue[i])
                                             /\ packet_queue[i].port = p
                                             /\ packet_queue[i].kind = "probe"}
Held(p) == {i \in 1 .. Len(sender.batch) : sender.batch[i].port = p
                                           /\ sender.batch[i].kind = "probe"}

\* A port never has two probes waiting to be sent, and none once real_tx_ts_us says
\* that something of it went out: a slow sender is never fed retries.
OneProbeWaiting ==
    \A p \in Ports :
      /\ Cardinality(Unsent(p)) + Cardinality(Held(p)) <= 1
      /\ tx[p].real_tx => Unsent(p) = {} /\ Held(p) = {}

\* Silence was listened for: before a port is reported filtered (in a scan type that
\* retries) every attempt but the last one was transmitted.
EarlierAttemptsSent ==
    \A p \in Ports : ps[p].reported = "Filtered" =>
      \A a \in 0 .. ps[p].retry_count - 1 : Task(p, "probe", a) \in transmitted

\* With tokens, no port is reported open or closed on the strength of a segment that
\* came before the sender turned to its first probe, such as the RST of an earlier batch.
\* (A bare RST is accepted from the moment probe_outstanding is stored.)
VerdictHasProbe ==
    UseToken => \A p \in Ports : ps[p].reported \in {"Open", "Closed"} =>
                  Task(p, "probe", 0) \in transmitted

\* The transmission time used for an RTT sample is that of the current attempt: a
\* timestamp of an earlier one that arrives late is discarded.  The generation alone
\* does not see to it, for the sender may read it after the receiver has gone on to the
\* next attempt; but that needs a retry to be sent between two accesses of on_pre_submit,
\* and the stamp is then one attempt old and never more.  (After the handshake the table
\* holds the time of a teardown packet.)
StampIsCurrent ==
    \A p \in Ports : tx[p].tx_ts # NoStamp /\ ~ps[p].connection_established =>
      \/ tx[p].tx_ts = tx[p].generation
      \/ /\ tx[p].tx_ts = tx[p].generation - 1
         /\ Task(p, "probe", tx[p].tx_ts) \in overtaken

\* Is a packet of this kind for p still on its way to send_tcp_packets?
Waiting(p, kind) ==
    \/ \E i \in 1 .. Len(packet_queue) :
         packet_queue[i].kind = kind /\ packet_queue[i].port = p
    \/ \E i \in 1 .. Len(sender.batch) :
         sender.batch[i].kind = kind /\ sender.batch[i].port = p

\* -G: the handshake is completed and torn down in order, through the queue and the
\* chunks of the sender: when the FIN|ACK goes out the ACK is no longer waiting, when
\* the last ACK goes out neither is; and unless the call was interrupted nothing is
\* waiting any more when it returns.
TeardownInOrder ==
    \A p \in Ports, a \in Attempts :
      /\ Task(p, "FINACK", a) \in transmitted => ~Waiting(p, "ACK")
      /\ Task(p, "LASTACK", a) \in transmitted => ~Waiting(p, "ACK") /\ ~Waiting(p, "FINACK")
      /\ pc = "done" /\ ~terminate_flag => packet_queue = <<>> /\ sender.batch = <<>>

(***************************************************************************)
(* What a caller of receive_response relies on: PortVerdicts.              *)
(***************************************************************************)
PV == INSTANCE PortVerdicts WITH verdict <- [p \in Ports |-> ps[p].reported],
                                 ended <- pc # "scan",
                                 interrupted <- terminate_flag \/ aborted

\* receive_response implements PortVerdicts: a verdict is given once and never revised,
\* none is added after the loop, and the loop ends only when every port has one, unless
\* a signal or a fatal ICMP error interrupts it.
ImplementsVerdicts == PV!Spec

\* The receiver waits for a probe of p that nobody will send: it pushes the entry of p
\* back every 5 ms while real_tx_ts_us is 0.
Stranded(p) ==
    /\ ~ps[p].final /\ ~ps[p].initial_send_deferred /\ ~ps[p].retry_send_deferred
    /\ ~tx[p].real_tx /\ Unsent(p) = {} /\ Held(p) = {}

\* A scan that does not complete handshakes ends, although every reply may be lost; the
\* one thing that can keep it from ending is a port whose last probe the sender dropped.
ScanEnds == <>(pc = "done") \/ <>[](\E p \in Ports : Stranded(p))

\* -G "completes a real 4-way TCP handshake with graceful teardown": a port whose
\* FIN|ACK was queued is eventually done with.
TeardownEnds == \A p \in Ports : ps[p].fin_sent ~> (ps[p].final \/ pc # "scan")

\* The receiver always gets past the join: the sender finds its poison pill.
JoinReturns == pc = "join" ~> pc = "done"
=============================================================================
