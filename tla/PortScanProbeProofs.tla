-------------------------- MODULE PortScanProbeProofs --------------------------
(***************************************************************************)
(* What goes out and in which order: the probes, the timestamps and the    *)
(* teardown packets of receive_response, for any number of ports and any   *)
(* retry bound, whatever falls between the stores of on_pre_submit.        *)
(*                                                                         *)
(* The argument looks at everything that waits for send_tcp_packets as one *)
(* line: what the sender holds, followed by packet_queue.  Packets join it *)
(* at the end and leave it at the front, so the order in which a port's    *)
(* packets were queued is the order in which they go out.                  *)
(***************************************************************************)
EXTENDS PortScanProofs

Line == sender.batch \o packet_queue

\* The order in which the packets of one port are queued.
Rank == [kind \in {"probe", "ACK", "FINACK", "LASTACK"} |->
           CASE kind = "probe"   -> 0
             [] kind = "ACK"     -> 1
             [] kind = "FINACK"  -> 2
             [] kind = "LASTACK" -> 3]

\* The packets of a port wait in that order, each kind at most once.
InOrder ==
    \A i, j \in 1 .. Len(Line) :
      i < j /\ Line[i] \in Tasks /\ Line[j] \in Tasks /\ Line[i].port = Line[j].port
        => Rank[Line[i].kind] < Rank[Line[j].kind]

\* ... and a teardown packet that went out is behind none of them; the one on_pre_submit
\* is at went out and still heads the line.
AtHead(t, i) == i = 1 /\ sender.state = "marked" /\ t = Head(sender.batch)
SentInOrder ==
    \A t \in transmitted, i \in 1 .. Len(Line) :
      t.kind # "probe" /\ Line[i] \in Tasks /\ Line[i].port = t.port
        => Rank[t.kind] < Rank[Line[i].kind] \/ AtHead(t, i)

\* A probe that waits is the current attempt of its port, not confirmed yet.
CurrentProbe(t) ==
    t.kind = "probe" => /\ ~ps[t.port].initial_send_deferred
                        /\ ~tx[t.port].real_tx
                        /\ t.attempt = tx[t.port].generation
WaitingProbes == \A i \in 1 .. Len(Line) : Line[i] \in Tasks => CurrentProbe(Line[i])

\* A teardown packet exists only after the step that queued it.
TeardownBegun(t) ==
    /\ t.kind \in {"ACK", "FINACK"} => ps[t.port].fin_sent
    /\ t.kind = "LASTACK" => ps[t.port].fin_ack_received
TeardownPackets ==
    /\ \A i \in 1 .. Len(Line) : Line[i] \in Tasks => TeardownBegun(Line[i])
    /\ \A t \in transmitted : TeardownBegun(t)
TeardownFlags ==
    \A p \in Ports : /\ ps[p].fin_sent => ps[p].connection_established
                     /\ ps[p].fin_ack_received => ps[p].fin_sent

\* What probe_outstanding and real_tx_ts_us tell of a port whose handshake has not begun:
\* its current attempt went out; and a retry is only decided on for such a port.
Confirmed ==
    \A p \in Ports :
      /\ (tx[p].real_tx \/ tx[p].probe_outstanding) /\ ~ps[p].connection_established
           => Task(p, "probe", tx[p].generation) \in transmitted
      /\ ps[p].retry_send_deferred => tx[p].real_tx
      /\ ps[p].initial_send_deferred => /\ ps[p].retry_count = 0
                                        /\ ~ps[p].connection_established => ~tx[p].real_tx

\* Every attempt before the current one went out.
EarlierSent ==
    \A p \in Ports : \A a \in Attempts :
      a < ps[p].retry_count => Task(p, "probe", a) \in transmitted

\* The packet whose generation has yet to be read is of the current attempt, or of the
\* one before it; then the current one waits and cannot itself be followed by a retry.
MarkedIsSent ==
    sender.state = "marked" => Head(sender.batch) \in transmitted
FilingMatch ==
    \A t \in sender.filing : ~ps[t.port].connection_established =>
      /\ t.kind = "probe"
      /\ \/ t.attempt = tx[t.port].generation
         \/ /\ t.attempt = tx[t.port].generation - 1
            /\ t \in overtaken /\ ~tx[t.port].real_tx

\* A kernel timestamp that is still expected belongs to the attempt of its generation,
\* or to the one before it if that was overtaken, unless it is one of a teardown packet.
StampsMatch ==
    \A st \in stamps : ~ps[st.port].connection_established =>
      \/ st.attempt = st.generation
      \/ /\ st.attempt = st.generation - 1
         /\ Task(st.port, "probe", st.attempt) \in overtaken

\* The sender holds packets only while it sends, and once it has seen the poison pill
\* nothing is queued any more.
SenderDone ==
    /\ sender.state \notin {"send", "marked"} => sender.batch = <<>>
    /\ sender.shutdown_requested \/ sender.state = "exited"
         => packet_queue = <<>> /\ pc # "scan"
    /\ pc = "done" => sender.state = "exited"

\* The parts that speak of the line and of what went out.
LineInv ==
    /\ InOrder /\ SentInOrder /\ WaitingProbes /\ TeardownPackets /\ TeardownFlags
    /\ Confirmed /\ EarlierSent /\ MarkedIsSent /\ FilingMatch
    /\ StampsMatch /\ StampIsCurrent /\ VerdictHasProbe

ProbeInv == VerdictInv /\ LineInv /\ SenderDone

-----------------------------------------------------------------------------
(***************************************************************************)
(* How the line changes.                                                   *)
(***************************************************************************)
\* Nothing but a poison pill joins the line, and its first d packets leave it.
MovesUp(d) ==
    \A i \in 1 .. Len(Line') : Line'[i] \in Tasks =>
      i + d \in 1 .. Len(Line) /\ Line'[i] = Line[i + d]

\* The packets q join the line.
Joins(q) ==
    \A i \in 1 .. Len(Line') :
      \/ i \in 1 .. Len(Line) /\ Line'[i] = Line[i]
      \/ i - Len(Line) \in 1 .. Len(q) /\ Line'[i] = q[i - Len(Line)]

LEMMA BatchBeforeQueue ==
    ASSUME NEW b \in Seq(Tasks), NEW q \in Seq(Tasks \cup {poison_pill})
    PROVE  /\ Len(b) \in Nat /\ Len(q) \in Nat
           /\ b \o q \in Seq(Tasks \cup {poison_pill}) /\ Len(b \o q) = Len(b) + Len(q)
           /\ \A i \in 1 .. Len(b) + Len(q) :
                (b \o q)[i] = IF i <= Len(b) THEN b[i] ELSE q[i - Len(b)]
<1>1. b \in Seq(Tasks \cup {poison_pill})
  BY SeqMonotonic
<1>2. Len(b) \in Nat /\ Len(q) \in Nat
  BY LenProperties
<1> QED BY <1>1, <1>2, ConcatProperties

LEMMA LineType ==
    ASSUME TypeOK
    PROVE  /\ Line \in Seq(Tasks \cup {poison_pill}) /\ Len(Line) \in Nat
           /\ sender.batch \in Seq(Tasks) /\ Len(sender.batch) \in Nat
           /\ packet_queue \in Seq(Tasks \cup {poison_pill}) /\ Len(packet_queue) \in Nat
           /\ Len(Line) = Len(sender.batch) + Len(packet_queue)
           /\ \A i \in 1 .. Len(sender.batch) + Len(packet_queue) :
                Line[i] = IF i <= Len(sender.batch) THEN sender.batch[i]
                          ELSE packet_queue[i - Len(sender.batch)]
<1>1. sender.batch \in Seq(Tasks) /\ packet_queue \in Seq(Tasks \cup {poison_pill})
  BY DEF TypeOK
<1> QED BY <1>1, BatchBeforeQueue DEF Line

LEMMA PillIsNoTask == poison_pill \notin Tasks
BY DEF poison_pill, Tasks

LEMMA LineUnchanged ==
    ASSUME TypeOK, UNCHANGED <<packet_queue, sender>>
    PROVE  MovesUp(0)
<1>1. Line' = Line
  BY DEF Line
<1>2. Len(Line) \in Nat
  BY LineType
<1> QED BY <1>1, <1>2 DEF MovesUp

\* Tasks that the receiver enqueues join the line.
LEMMA LineJoins ==
    ASSUME TypeOK, TypeOK', NEW q \in Seq(Tasks \cup {poison_pill}),
           packet_queue' = packet_queue \o q, sender' = sender
    PROVE  Joins(q)
<1> DEFINE m == Len(sender.batch)
           n == Len(packet_queue)
<1>1. /\ m \in Nat /\ n \in Nat /\ Len(q) \in Nat /\ Len(Line) = m + n
      /\ Len(packet_queue') = n + Len(q)
      /\ \A j \in 1 .. n + Len(q) :
           packet_queue'[j] = IF j <= n THEN packet_queue[j] ELSE q[j - n]
  BY LineType, LenProperties, ConcatProperties
<1>2. /\ Len(Line') = m + (n + Len(q))
      /\ \A i \in 1 .. m + (n + Len(q)) :
           Line'[i] = IF i <= m THEN sender.batch[i] ELSE packet_queue'[i - m]
  <2>1. /\ sender.batch \in Seq(Tasks) /\ packet_queue' \in Seq(Tasks \cup {poison_pill})
        /\ Line' = sender.batch \o packet_queue'
    BY DEF TypeOK, Line
  <2> QED BY <1>1, <2>1, BatchBeforeQueue
<1>3. \A i \in 1 .. m + n : Line[i] = IF i <= m THEN sender.batch[i] ELSE packet_queue[i - m]
  BY LineType
<1> HIDE DEF m, n
<1> SUFFICES ASSUME NEW i \in 1 .. Len(Line')
             PROVE  \/ i \in 1 .. Len(Line) /\ Line'[i] = Line[i]
                    \/ i - Len(Line) \in 1 .. Len(q) /\ Line'[i] = q[i - Len(Line)]
  BY DEF Joins
<1>4. CASE i <= m
  <2>1. i \in 1 .. m + (n + Len(q)) /\ i \in 1 .. m + n
    BY <1>1, <1>2, <1>4
  <2> QED BY <1>1, <1>2, <1>3, <1>4, <2>1
<1>5. CASE i > m /\ i <= m + n
  <2>1. i - m \in 1 .. n + Len(q) /\ i - m <= n /\ i \in 1 .. m + n /\ ~(i <= m)
    BY <1>1, <1>2, <1>5
  <2> QED BY <1>1, <1>2, <1>3, <2>1
<1>6. CASE i > m + n
  <2>1. i - m \in 1 .. n + Len(q) /\ ~(i - m <= n) /\ ~(i <= m)
          /\ (i - m) - n = i - (m + n) /\ i - (m + n) \in 1 .. Len(q)
    BY <1>1, <1>2, <1>6
  <2> QED BY <1>1, <1>2, <2>1
<1> QED BY <1>1, <1>2, <1>4, <1>5, <1>6

\* The sender moves packets from the queue into its hands: the order stays.
LEMMA LineDequeue ==
    ASSUME TypeInv, SenderDone, NEW k \in 1 .. Len(packet_queue), Dequeue(k)
    PROVE  MovesUp(0)
<1> DEFINE shut == is_poison(packet_queue[k])
           n == IF shut THEN k - 1 ELSE k
           N == Len(packet_queue)
<1>1. /\ packet_queue \in Seq(Tasks \cup {poison_pill}) /\ N \in Nat /\ Len(Line) \in Nat
      /\ sender.batch = <<>> /\ Len(sender.batch) = 0
      /\ \A i \in 1 .. N : Line[i] = packet_queue[i]
      /\ Len(Line) = N
  <2>1. sender.batch = <<>> /\ Len(sender.batch) = 0
    BY EmptySeq DEF SenderDone, Dequeue
  <2>2. /\ packet_queue \in Seq(Tasks \cup {poison_pill}) /\ N \in Nat
        /\ Line = <<>> \o packet_queue
    BY <2>1, LineType DEF TypeInv, Line
  <2>3. Line = packet_queue
    BY <2>2, ConcatEmptySeq
  <2> QED BY <2>1, <2>2, <2>3
<1>2. n \in Nat /\ n <= N /\ k \in Nat /\ k <= N /\ (n # k => n = k - 1 /\ k = N)
  <2>1. shut => k = N
    BY DEF TypeInv, PillIsLast
  <2> QED BY <1>1, <2>1
<1>3. /\ sender'.batch = SubSeq(packet_queue, 1, n)
      /\ packet_queue' = SubSeq(packet_queue, k + 1, N)
  BY DEF Dequeue
<1>4. \A i \in 1 .. n : packet_queue[i] \in Tasks
  <2>1. ASSUME NEW i \in 1 .. n PROVE ~is_poison(packet_queue[i])
    BY <1>1, <1>2 DEF TypeInv, PillIsLast
  <2> QED BY <1>1, <1>2, <2>1, ElementOfSeq DEF is_poison
<1> HIDE DEF n, shut
<1>5. /\ sender'.batch \in Seq(Tasks) /\ Len(sender'.batch) = n
      /\ \A i \in 1 .. n : sender'.batch[i] = packet_queue[i]
  <2>1. /\ SubSeq(packet_queue, 1, n) \in Seq(Tasks)
    BY <1>2, <1>4, SubSeqProperties
  <2> QED BY <1>1, <1>2, <1>3, <2>1, PrefixType
<1>6. /\ packet_queue' \in Seq(Tasks \cup {poison_pill}) /\ Len(packet_queue') = N - k
      /\ \A i \in 1 .. N - k : packet_queue'[i] = packet_queue[k + i]
  BY <1>1, <1>2, <1>3, PrefixType
<1>7. /\ Len(Line') = n + (N - k)
      /\ \A i \in 1 .. n + (N - k) :
           Line'[i] = IF i <= n THEN sender'.batch[i] ELSE packet_queue'[i - n]
  <2>1. Line' = sender'.batch \o packet_queue'
    BY DEF Line
  <2>2. /\ Len(sender'.batch \o packet_queue') = Len(sender'.batch) + Len(packet_queue')
        /\ \A i \in 1 .. Len(sender'.batch) + Len(packet_queue') :
             (sender'.batch \o packet_queue')[i]
               = IF i <= Len(sender'.batch) THEN sender'.batch[i]
                 ELSE packet_queue'[i - Len(sender'.batch)]
    BY <1>5, <1>6, BatchBeforeQueue
  <2> QED BY <1>5, <1>6, <2>1, <2>2
<1> HIDE DEF N
<1> SUFFICES ASSUME NEW i \in 1 .. Len(Line')
             PROVE  i + 0 \in 1 .. Len(Line) /\ Line'[i] = Line[i + 0]
  BY DEF MovesUp
<1>8. CASE i <= n
  <2>1. i \in 1 .. n /\ i \in 1 .. n + (N - k) /\ i \in 1 .. N /\ i + 0 = i
    BY <1>1, <1>2, <1>7, <1>8
  <2> QED BY <1>1, <1>5, <1>7, <1>8, <2>1
<1>9. CASE i > n
  <2>1. n = k
    BY <1>1, <1>2, <1>7, <1>9
  <2>2. /\ i - n \in 1 .. N - k /\ i \in 1 .. n + (N - k) /\ ~(i <= n)
        /\ k + (i - n) = i /\ i \in 1 .. N /\ i + 0 = i
    BY <1>1, <1>2, <1>7, <1>9, <2>1
  <2> QED BY <1>1, <1>6, <1>7, <2>2
<1> QED BY <1>2, <1>7, <1>8, <1>9

\* The first n packets leave the hands of the sender.
LEMMA LineLeaves ==
    ASSUME TypeOK, NEW n \in Nat, n <= Len(sender.batch), packet_queue' = packet_queue,
           sender'.batch = SubSeq(sender.batch, n + 1, Len(sender.batch))
    PROVE  MovesUp(n)
<1> DEFINE m == Len(sender.batch)
           N == Len(packet_queue)
<1>1. /\ sender.batch \in Seq(Tasks) /\ m \in Nat /\ N \in Nat /\ Len(Line) = m + N
      /\ packet_queue \in Seq(Tasks \cup {poison_pill})
      /\ \A i \in 1 .. m + N :
           Line[i] = IF i <= m THEN sender.batch[i] ELSE packet_queue[i - m]
  BY LineType
<1>2. /\ sender'.batch \in Seq(Tasks) /\ Len(sender'.batch) = m - n
      /\ \A i \in 1 .. m - n : sender'.batch[i] = sender.batch[n + i]
  <2>1. sender.batch \in Seq(Tasks)
    BY <1>1
  <2> QED BY <2>1, PrefixType
<1>3. /\ Len(Line') = (m - n) + N
      /\ \A i \in 1 .. (m - n) + N :
           Line'[i] = IF i <= m - n THEN sender'.batch[i] ELSE packet_queue[i - (m - n)]
  <2>1. Line' = sender'.batch \o packet_queue
    BY DEF Line
  <2>2. /\ Len(sender'.batch \o packet_queue) = Len(sender'.batch) + N
        /\ \A i \in 1 .. Len(sender'.batch) + N :
             (sender'.batch \o packet_queue)[i]
               = IF i <= Len(sender'.batch) THEN sender'.batch[i]
                 ELSE packet_queue[i - Len(sender'.batch)]
    BY <1>1, <1>2, BatchBeforeQueue
  <2> QED BY <1>2, <2>1, <2>2
<1>4. n <= m
  OBVIOUS
<1> HIDE DEF m, N
<1> SUFFICES ASSUME NEW i \in 1 .. Len(Line')
             PROVE  i + n \in 1 .. Len(Line) /\ Line'[i] = Line[i + n]
  BY DEF MovesUp
<1>5. CASE i <= m - n
  <2>1. /\ i \in 1 .. (m - n) + N /\ i \in 1 .. m - n
        /\ i + n \in 1 .. m + N /\ i + n <= m /\ i + n = n + i
    BY <1>1, <1>3, <1>4, <1>5
  <2> QED BY <1>1, <1>2, <1>3, <1>5, <2>1
<1>6. CASE i > m - n
  <2>1. /\ i \in 1 .. (m - n) + N /\ ~(i <= m - n)
        /\ i + n \in 1 .. m + N /\ ~(i + n <= m) /\ (i + n) - m = i - (m - n)
    BY <1>1, <1>3, <1>4, <1>6
  <2> QED BY <1>1, <1>3, <2>1
<1> QED BY <1>1, <1>3, <1>4, <1>5, <1>6

\* The poison pill joins the line as its last element and is no packet.
LEMMA LinePill ==
    ASSUME TypeOK, TypeOK', packet_queue' = Append(packet_queue, poison_pill), sender' = sender
    PROVE  MovesUp(0)
<1>1. packet_queue' = packet_queue \o <<poison_pill>>
  BY AppendIsConcat DEF TypeOK
<1>2. <<poison_pill>> \in Seq(Tasks \cup {poison_pill})
  OBVIOUS
<1>3. Joins(<<poison_pill>>)
  BY <1>1, <1>2, LineJoins
<1> SUFFICES ASSUME NEW i \in 1 .. Len(Line'), Line'[i] \in Tasks
             PROVE  i + 0 \in 1 .. Len(Line) /\ Line'[i] = Line[i + 0]
  BY DEF MovesUp
<1>4. i \in Int
  BY LineType
<1>5. CASE i \in 1 .. Len(Line) /\ Line'[i] = Line[i]
  BY <1>4, <1>5
<1>6. CASE i - Len(Line) \in 1 .. Len(<<poison_pill>>)
           /\ Line'[i] = <<poison_pill>>[i - Len(Line)]
  BY <1>6, PillIsNoTask
<1> QED BY <1>3, <1>5, <1>6 DEF Joins

-----------------------------------------------------------------------------
(***************************************************************************)
(* Steps that only move the line, or move nothing at all.                  *)
(***************************************************************************)
\* The order of the line survives every way of leaving it.
LEMMA OrderMoves ==
    ASSUME InOrder, SentInOrder, NEW d \in Nat, MovesUp(d), transmitted' = transmitted,
           d # 0 \/ sender.state # "marked" \/ sender' = sender
    PROVE  InOrder' /\ SentInOrder'
<1>1. InOrder'
  <2> SUFFICES ASSUME NEW i \in 1 .. Len(Line'), NEW j \in 1 .. Len(Line'),
                      i < j, Line'[i] \in Tasks, Line'[j] \in Tasks,
                      Line'[i].port = Line'[j].port
               PROVE  Rank[Line'[i].kind] < Rank[Line'[j].kind]
    BY DEF InOrder, Rank
  <2>1. /\ i + d \in 1 .. Len(Line) /\ Line'[i] = Line[i + d]
        /\ j + d \in 1 .. Len(Line) /\ Line'[j] = Line[j + d]
        /\ i + d < j + d
    BY DEF MovesUp
  <2> QED BY <2>1 DEF InOrder
<1>2. SentInOrder'
  <2> SUFFICES ASSUME NEW t \in transmitted, NEW i \in 1 .. Len(Line'),
                      t.kind # "probe", Line'[i] \in Tasks, Line'[i].port = t.port
               PROVE  Rank[t.kind] < Rank[Line'[i].kind] \/ AtHead(t, i)'
    BY DEF SentInOrder, Rank
  <2>1. /\ i + d \in 1 .. Len(Line) /\ Line'[i] = Line[i + d] /\ i \in Nat /\ i >= 1
    BY DEF MovesUp
  <2>2. Rank[t.kind] < Rank[Line[i + d].kind] \/ AtHead(t, i + d)
    BY <2>1 DEF SentInOrder
  <2>3. CASE AtHead(t, i + d)
    <3>1. d = 0 /\ i + d = i
      BY <2>1, <2>3 DEF AtHead
    <3> QED BY <2>3, <3>1 DEF AtHead
  <2> QED BY <2>1, <2>2, <2>3
<1> QED BY <1>1, <1>2

\* What a step leaves alone at port q: its attempts and its teardown.  It may give up on
\* the port, and it may forget a timestamp.
Steady(q) ==
    /\ ps'[q].initial_send_deferred = ps[q].initial_send_deferred
    /\ ps'[q].retry_send_deferred = ps[q].retry_send_deferred
    /\ ps'[q].retry_count = ps[q].retry_count
    /\ ps'[q].connection_established = ps[q].connection_established
    /\ ps'[q].fin_sent = ps[q].fin_sent
    /\ ps'[q].fin_ack_received = ps[q].fin_ack_received
    /\ ps'[q].reported = ps[q].reported \/ ps'[q].reported = "Filtered"
    /\ tx'[q].real_tx = tx[q].real_tx
    /\ tx'[q].generation = tx[q].generation
    /\ tx'[q].probe_outstanding => tx[q].probe_outstanding
    /\ tx'[q].tx_ts = tx[q].tx_ts \/ tx'[q].tx_ts = NoStamp

LEMMA SteadyStep ==
    ASSUME TypeOK, LineInv, NEW d \in Nat, MovesUp(d), \A q \in Ports : Steady(q),
           UNCHANGED history, stamps' \subseteq stamps,
           \/ sender' = sender
           \/ sender.state # "marked" /\ sender'.state # "marked" /\ sender'.filing = {}
    PROVE  LineInv'
<1> USE DEF history
<1>1. /\ InOrder /\ SentInOrder /\ WaitingProbes /\ TeardownPackets /\ TeardownFlags
      /\ Confirmed /\ EarlierSent /\ MarkedIsSent /\ FilingMatch
      /\ StampsMatch /\ StampIsCurrent /\ VerdictHasProbe
  BY DEF LineInv
<1>2. InOrder' /\ SentInOrder'
  BY <1>1, OrderMoves
<1>3. \A t \in Tasks : t.port \in Ports
  BY DEF Tasks
<1>4. WaitingProbes'
  <2>1. ASSUME NEW t \in Tasks, CurrentProbe(t) PROVE CurrentProbe(t)'
    BY <1>3, <2>1 DEF CurrentProbe, Steady
  <2>2. \A i \in 1 .. Len(Line') : Line'[i] \in Tasks => CurrentProbe(Line'[i])
    BY <1>1 DEF WaitingProbes, MovesUp
  <2> QED BY <2>1, <2>2 DEF WaitingProbes
<1>5. TeardownPackets'
  <2>1. ASSUME NEW t \in Tasks, TeardownBegun(t) PROVE TeardownBegun(t)'
    BY <1>3, <2>1 DEF TeardownBegun, Steady
  <2>2. \A t \in transmitted : t \in Tasks
    BY DEF TypeOK
  <2>3. \A i \in 1 .. Len(Line') : Line'[i] \in Tasks => TeardownBegun(Line'[i])
    BY <1>1 DEF TeardownPackets, MovesUp
  <2> QED BY <1>1, <2>1, <2>2, <2>3 DEF TeardownPackets
<1>6. TeardownFlags'
  BY <1>1 DEF TeardownFlags, Steady
<1>7. Confirmed'
  BY <1>1 DEF Confirmed, Steady
<1>8. EarlierSent'
  BY <1>1 DEF EarlierSent, Steady
<1>9. StampsMatch'
  <2>1. \A st \in stamps : st.port \in Ports
    BY DEF TypeOK
  <2> QED BY <1>1, <2>1 DEF StampsMatch, Steady
<1>10. StampIsCurrent'
  BY <1>1 DEF StampIsCurrent, Steady
<1>11. VerdictHasProbe'
  BY <1>1 DEF VerdictHasProbe, Steady
<1>12. MarkedIsSent'
  BY <1>1 DEF MarkedIsSent
<1>13. FilingMatch'
  <2>1. \A t \in sender.filing : t.port \in Ports
    BY <1>3 DEF TypeOK
  <2> QED BY <1>1, <2>1 DEF FilingMatch, Steady
<1> QED BY <1>2, <1>4, <1>5, <1>6, <1>7, <1>8, <1>9, <1>10, <1>11, <1>12, <1>13 DEF LineInv

\* A port that is given up on, by ICMP or by the last timeout.
LEMMA FilteredSteady ==
    ASSUME TypeOK, NEW p \in Ports, Account(p, Resolve(ps[p], "Filtered")),
           \/ tx' = tx
           \/ tx' = [tx EXCEPT ![p].tx_ts = NoStamp, ![p].probe_outstanding = FALSE]
    PROVE  \A q \in Ports : Steady(q)
<1> DEFINE t == Resolve(ps[p], "Filtered")
           r == [tx[p] EXCEPT !.tx_ts = NoStamp, !.probe_outstanding = FALSE]
<1>1. ps[p] \in PortState /\ tx[p] \in TxState /\ tx \in [Ports -> TxState]
  BY DEF TypeOK
<1>2. /\ t \in PortState
      /\ t.reported = ps[p].reported \/ t.reported = "Filtered"
      /\ t.initial_send_deferred = ps[p].initial_send_deferred
      /\ t.retry_send_deferred = ps[p].retry_send_deferred
      /\ t.retry_count = ps[p].retry_count
      /\ t.connection_established = ps[p].connection_established
      /\ t.fin_sent = ps[p].fin_sent /\ t.fin_ack_received = ps[p].fin_ack_received
  BY <1>1 DEF Resolve, Report, PortState, Verdicts
<1>3. Account(p, t)
  OBVIOUS
<1> HIDE DEF t
<1>4. /\ ps'[p] = IF t.final THEN [t EXCEPT !.counted_in_retry = FALSE] ELSE t
      /\ \A q \in Ports : q # p => ps'[q] = ps[q]
  BY <1>2, <1>3, AccountFacts
<1>5. /\ ps'[p].reported = t.reported
      /\ ps'[p].initial_send_deferred = t.initial_send_deferred
      /\ ps'[p].retry_send_deferred = t.retry_send_deferred
      /\ ps'[p].retry_count = t.retry_count
      /\ ps'[p].connection_established = t.connection_established
      /\ ps'[p].fin_sent = t.fin_sent /\ ps'[p].fin_ack_received = t.fin_ack_received
  BY <1>2, <1>4 DEF PortState
<1>6. /\ r.real_tx = tx[p].real_tx /\ r.generation = tx[p].generation
      /\ r.probe_outstanding = FALSE /\ r.tx_ts = NoStamp
  BY <1>1 DEF TxState
<1>7. /\ tx'[p] = tx[p] \/ tx'[p] = r
      /\ \A q \in Ports : q # p => tx'[q] = tx[q]
  BY <1>1
<1> HIDE DEF r
<1>8. Steady(p)
  BY <1>2, <1>5, <1>6, <1>7 DEF Steady
<1>9. \A q \in Ports : q # p => Steady(q)
  BY <1>4, <1>7 DEF Steady
<1> QED BY <1>8, <1>9

\* The steps of the receiver that queue no packet and decide on no retry.
LEMMA QuietReceiver ==
    ASSUME ProbeInv, TypeOK',
           \/ \E p \in Ports, sport \in Attempts : IcmpProhibited(p, sport)
           \/ \E p \in Ports : DropEntry(p) \/ Park(p) \/ GiveUp(p)
           \/ Phase1Deadline \/ Sentinel \/ LoopExit \/ IcmpFatal \/ Return \/ Terminate
    PROVE  LineInv'
<1> USE DEF args, gateVars, senderVars, endVars, history
<1>1. TypeOK /\ LineInv
  BY DEF ProbeInv, VerdictInv, CounterInv, TypeInv
<1>2. UNCHANGED history /\ stamps' \subseteq stamps /\ sender' = sender
  BY DEF IcmpProhibited, DropEntry, Park, GiveUp, Phase1Deadline, Sentinel, LoopExit,
         IcmpFatal, Shutdown, Return, Terminate
<1>3. MovesUp(0)
  <2>1. CASE LoopExit \/ IcmpFatal
    BY <1>1, <1>2, <2>1, LinePill DEF LoopExit, IcmpFatal, Shutdown
  <2>2. CASE ~(LoopExit \/ IcmpFatal)
    <3>1. packet_queue' = packet_queue
      BY <2>2 DEF IcmpProhibited, DropEntry, Park, GiveUp, Phase1Deadline, Sentinel,
                  Return, Terminate
    <3> QED BY <1>1, <1>2, <3>1, LineUnchanged
  <2> QED BY <2>1, <2>2
<1>4. \A q \in Ports : Steady(q)
  <2>1. CASE UNCHANGED <<ps, tx>>
    BY <2>1 DEF Steady
  <2>2. CASE \E p \in Ports, sport \in Attempts : IcmpProhibited(p, sport)
    BY <1>1, <2>2, FilteredSteady DEF IcmpProhibited
  <2>3. CASE \E p \in Ports : GiveUp(p)
    BY <1>1, <2>3, FilteredSteady DEF GiveUp
  <2> QED BY <2>1, <2>2, <2>3
          DEF DropEntry, Park, Phase1Deadline, Sentinel, LoopExit, IcmpFatal, Shutdown,
              Return, Terminate
<1> QED BY <1>1, <1>2, <1>3, <1>4, SteadyStep

\* The steps of the sender that transmit nothing.
LEMMA QuietSender ==
    ASSUME ProbeInv,
           \/ \E k \in 1 .. Len(packet_queue) : Dequeue(k)
           \/ PacketDropped \/ BatchDone
    PROVE  LineInv'
<1> USE DEF args, gateVars, endVars, history
<1>1. TypeInv /\ TypeOK /\ LineInv /\ SenderDone
  BY DEF ProbeInv, VerdictInv, CounterInv, TypeInv
<1>2. /\ UNCHANGED <<ps, tx, stamps, history>>
      /\ sender.state # "marked" /\ sender'.state # "marked" /\ sender'.filing = {}
  <2>1. CASE \E k \in 1 .. Len(packet_queue) : Dequeue(k)
    BY <2>1 DEF Dequeue
  <2>2. CASE BatchDone
    BY <2>2 DEF BatchDone, Sending
  <2>3. CASE PacketDropped
    <3>1. sender.state = "send" /\ sender.filing = {} /\ sender' = [sender EXCEPT !.batch = Tail(@)]
      BY <2>3 DEF PacketDropped, Sending
    <3>2. sender'.state = "send" /\ sender'.filing = {}
      BY <1>1, <3>1 DEF TypeOK
    <3> QED BY <2>3, <3>1, <3>2 DEF PacketDropped
  <2> QED BY <2>1, <2>2, <2>3
<1>3. \A q \in Ports : Steady(q)
  BY <1>2 DEF Steady
<1>4. ASSUME NEW d \in Nat, MovesUp(d) PROVE LineInv'
  BY <1>1, <1>2, <1>3, <1>4, SteadyStep
<1>5. CASE \E k \in 1 .. Len(packet_queue) : Dequeue(k)
  BY <1>1, <1>4, <1>5, LineDequeue
<1>6. CASE PacketDropped
  <2>1. sender.batch # <<>> /\ packet_queue' = packet_queue /\ sender'.batch = Tail(sender.batch)
    BY <1>1, <1>6 DEF PacketDropped, TypeOK
  <2>2. 1 <= Len(sender.batch) /\ Tail(sender.batch) = SubSeq(sender.batch, 1 + 1, Len(sender.batch))
    BY <1>1, <2>1, HeadFacts
  <2>3. MovesUp(1)
    BY <1>1, <2>1, <2>2, LineLeaves
  <2> QED BY <1>4, <2>3
<1>7. CASE BatchDone
  <2>1. Len(sender.batch) \in Nat /\ sender.batch \in Seq(Tasks)
    BY <1>1, LineType
  <2>2. /\ packet_queue' = packet_queue
        /\ sender'.batch = SubSeq(sender.batch, Len(sender.batch) + 1, Len(sender.batch))
    <3>1. SubSeq(sender.batch, Len(sender.batch) + 1, Len(sender.batch)) = <<>>
      <4>1. /\ SubSeq(sender.batch, Len(sender.batch) + 1, Len(sender.batch)) \in Seq(Tasks)
            /\ Len(SubSeq(sender.batch, Len(sender.batch) + 1, Len(sender.batch)))
                 = Len(sender.batch) - Len(sender.batch)
        BY <2>1, PrefixType
      <4> QED BY <2>1, <4>1, EmptySeq
    <3> QED BY <1>7, <3>1 DEF BatchDone
  <2>3. MovesUp(Len(sender.batch))
    BY <1>1, <2>1, <2>2, LineLeaves
  <2> QED BY <1>4, <2>1, <2>3
<1> QED BY <1>5, <1>6, <1>7

-----------------------------------------------------------------------------
(***************************************************************************)
(* Timestamps, and the decision to retry.                                  *)
(***************************************************************************)
LEMMA TimestampKeeps ==
    ASSUME ProbeInv, NEW st \in stamps, TxTimestamp(st)
    PROVE  LineInv'
<1> USE DEF args, gateVars, endVars, history
<1>1. /\ TypeOK /\ st \in [port : Ports, attempt : Attempts, generation : Attempts]
      /\ tx \in [Ports -> TxState]
      /\ InOrder /\ SentInOrder /\ WaitingProbes /\ TeardownPackets /\ TeardownFlags
      /\ Confirmed /\ EarlierSent /\ MarkedIsSent /\ FilingMatch
      /\ StampsMatch /\ StampIsCurrent /\ VerdictHasProbe
  BY DEF ProbeInv, LineInv, VerdictInv, CounterInv, TypeInv, TypeOK
<1>2. /\ UNCHANGED <<ps, packet_queue, sender, history>> /\ stamps' \subseteq stamps
      /\ tx' = IF tx[st.port].generation = st.generation
                 THEN [tx EXCEPT ![st.port] = [tx[st.port] EXCEPT !.tx_ts = st.attempt,
                                                                  !.tx_ts_precise = TRUE]]
                 ELSE tx
  BY <1>1 DEF TxTimestamp
<1>3. Line' = Line
  BY <1>2 DEF Line
<1>4. \A q \in Ports : /\ tx'[q].real_tx = tx[q].real_tx
                       /\ tx'[q].generation = tx[q].generation
                       /\ tx'[q].probe_outstanding = tx[q].probe_outstanding
                       /\ \/ tx'[q].tx_ts = tx[q].tx_ts
                          \/ /\ q = st.port /\ tx'[q].tx_ts = st.attempt
                             /\ tx[q].generation = st.generation
  <2>1. ASSUME NEW q \in Ports, q # st.port PROVE tx'[q] = tx[q]
    BY <1>1, <1>2, <2>1
  <2>2. CASE tx[st.port].generation = st.generation
    <3>1. tx'[st.port] = [tx[st.port] EXCEPT !.tx_ts = st.attempt, !.tx_ts_precise = TRUE]
      BY <1>1, <1>2, <2>2
    <3>2. tx[st.port] \in TxState
      BY <1>1
    <3>3. /\ tx'[st.port].real_tx = tx[st.port].real_tx
          /\ tx'[st.port].generation = tx[st.port].generation
          /\ tx'[st.port].probe_outstanding = tx[st.port].probe_outstanding
          /\ tx'[st.port].tx_ts = st.attempt
      BY <3>1, <3>2 DEF TxState
    <3> QED BY <2>1, <2>2, <3>3
  <2>3. CASE tx[st.port].generation # st.generation
    BY <1>2, <2>3
  <2> QED BY <2>2, <2>3
<1>5. InOrder' /\ SentInOrder' /\ TeardownPackets' /\ TeardownFlags'
  BY <1>1, <1>2, <1>3
     DEF InOrder, SentInOrder, AtHead, TeardownPackets, TeardownFlags, TeardownBegun
<1>6. WaitingProbes'
  <2>1. \A t \in Tasks : t.port \in Ports
    BY DEF Tasks
  <2> QED BY <1>1, <1>2, <1>3, <1>4, <2>1 DEF WaitingProbes, CurrentProbe
<1>7. Confirmed' /\ EarlierSent' /\ VerdictHasProbe'
  BY <1>1, <1>2, <1>4 DEF Confirmed, EarlierSent, VerdictHasProbe
<1>8. StampsMatch' /\ MarkedIsSent' /\ FilingMatch'
  <2>1. \A t \in sender.filing : t.port \in Ports
    BY <1>1 DEF TypeOK, Tasks
  <2> QED BY <1>1, <1>2, <1>4, <2>1 DEF StampsMatch, MarkedIsSent, FilingMatch
<1>9. StampIsCurrent'
  <2>1. ~ps[st.port].connection_established =>
          \/ st.attempt = st.generation
          \/ st.attempt = st.generation - 1 /\ Task(st.port, "probe", st.attempt) \in overtaken
    BY <1>1 DEF StampsMatch
  <2> QED BY <1>1, <1>2, <1>4, <2>1 DEF StampIsCurrent
<1> QED BY <1>5, <1>6, <1>7, <1>8, <1>9 DEF LineInv

\* A retry is decided on when the last attempt is known to be out.
LEMMA ScheduleRetryKeeps ==
    ASSUME ProbeInv, NEW p \in Ports, NEW cap \in MinRetries .. MaxRetries,
           ScheduleRetry(p, cap)
    PROVE  LineInv'
<1> USE DEF args, gateVars, senderVars, endVars, history
<1>1. /\ TypeOK /\ GenerationTrails /\ ps \in [Ports -> PortState] /\ ps[p] \in PortState
      /\ InOrder /\ SentInOrder /\ WaitingProbes /\ TeardownPackets /\ TeardownFlags
      /\ Confirmed /\ EarlierSent /\ MarkedIsSent /\ FilingMatch
      /\ StampsMatch /\ StampIsCurrent /\ VerdictHasProbe
  BY DEF ProbeInv, LineInv, VerdictInv, CounterInv, TypeInv, TypeOK
<1>2. /\ ~ps[p].connection_established /\ ~ps[p].initial_send_deferred
      /\ ~ps[p].retry_send_deferred /\ tx[p].real_tx
      /\ UNCHANGED <<tx, packet_queue, sender, history, stamps>>
  BY DEF ScheduleRetry, MayRetry, RetryDecision, Due
<1>3. /\ ps'[p].retry_count = ps[p].retry_count + 1
      /\ ps'[p].retry_send_deferred = TRUE
      /\ ps'[p].initial_send_deferred = ps[p].initial_send_deferred
      /\ ps'[p].connection_established = ps[p].connection_established
      /\ ps'[p].fin_sent = ps[p].fin_sent
      /\ ps'[p].fin_ack_received = ps[p].fin_ack_received
      /\ ps'[p].reported = ps[p].reported
  BY <1>1 DEF ScheduleRetry, PortState
<1>4. \A q \in Ports : q # p => ps'[q] = ps[q]
  BY <1>1 DEF ScheduleRetry
<1>5. Line' = Line
  BY <1>2 DEF Line
<1>6. \A t \in Tasks : t.port \in Ports
  BY DEF Tasks
<1>7. InOrder' /\ SentInOrder'
  BY <1>1, <1>2, <1>5 DEF InOrder, SentInOrder, AtHead
<1>8. WaitingProbes'
  BY <1>1, <1>2, <1>3, <1>4, <1>5, <1>6 DEF WaitingProbes, CurrentProbe
<1>9. TeardownPackets' /\ TeardownFlags'
  <2>1. \A t \in Tasks : TeardownBegun(t) => TeardownBegun(t)'
    BY <1>3, <1>4, <1>6 DEF TeardownBegun
  <2>2. \A t \in transmitted : t \in Tasks
    BY <1>1 DEF TypeOK
  <2>3. TeardownPackets'
    BY <1>1, <1>2, <1>5, <2>1, <2>2 DEF TeardownPackets
  <2>4. TeardownFlags'
    BY <1>1, <1>3, <1>4 DEF TeardownFlags
  <2> QED BY <2>3, <2>4
<1>10. Confirmed'
  BY <1>1, <1>2, <1>3, <1>4 DEF Confirmed
<1>11. EarlierSent'
  <2>1. Task(p, "probe", ps[p].retry_count) \in transmitted
    <3>1. tx[p].generation = ps[p].retry_count
      BY <1>1, <1>2, PortScanAssumption DEF GenerationTrails, PortState, Attempts
    <3> QED BY <1>1, <1>2, <3>1 DEF Confirmed
  <2>2. ASSUME NEW a \in Attempts, a < ps[p].retry_count + 1
        PROVE  Task(p, "probe", a) \in transmitted
    <3>1. a = ps[p].retry_count \/ a < ps[p].retry_count
      BY <1>1, <2>2, PortScanAssumption DEF PortState, Attempts
    <3> QED BY <1>1, <2>1, <3>1 DEF EarlierSent
  <2> QED BY <1>1, <1>2, <1>3, <1>4, <2>2 DEF EarlierSent
<1>12. StampsMatch' /\ StampIsCurrent' /\ VerdictHasProbe'
  <2>1. \A st \in stamps : st.port \in Ports
    BY <1>1 DEF TypeOK
  <2> QED BY <1>1, <1>2, <1>3, <1>4, <2>1 DEF StampsMatch, StampIsCurrent, VerdictHasProbe
<1>13. MarkedIsSent' /\ FilingMatch'
  <2>1. \A t \in sender.filing : t.port \in Ports
    BY <1>1, <1>6 DEF TypeOK
  <2> QED BY <1>1, <1>2, <1>3, <1>4, <2>1 DEF MarkedIsSent, FilingMatch
<1> QED BY <1>7, <1>8, <1>9, <1>10, <1>11, <1>12, <1>13 DEF LineInv

-----------------------------------------------------------------------------
(***************************************************************************)
(* Packets that join the line.                                             *)
(***************************************************************************)
\* The packet t may be queued: it comes after every packet of its port that waits or,
\* a teardown packet, went out.
MayFollow(t) ==
    /\ \A i \in 1 .. Len(Line) :
         Line[i] \in Tasks /\ Line[i].port = t.port => Rank[Line[i].kind] < Rank[t.kind]
    /\ \A u \in transmitted :
         u.kind # "probe" /\ u.port = t.port => Rank[u.kind] < Rank[t.kind]

LEMMA OrderJoins ==
    ASSUME TypeOK, InOrder, SentInOrder, NEW q \in Seq(Tasks), Joins(q),
           \A j \in 1 .. Len(q) : MayFollow(q[j]),
           \A i, j \in 1 .. Len(q) :
             i < j /\ q[i].port = q[j].port => Rank[q[i].kind] < Rank[q[j].kind],
           transmitted' = transmitted, sender' = sender
    PROVE  InOrder' /\ SentInOrder'
<1>0. Len(Line) \in Nat /\ Len(q) \in Nat
  BY LineType, LenProperties
<1>1. InOrder'
  <2> SUFFICES ASSUME NEW i \in 1 .. Len(Line'), NEW j \in 1 .. Len(Line'),
                      i < j, Line'[i] \in Tasks, Line'[j] \in Tasks,
                      Line'[i].port = Line'[j].port
               PROVE  Rank[Line'[i].kind] < Rank[Line'[j].kind]
    BY DEF InOrder, Rank
  <2>1. CASE j \in 1 .. Len(Line) /\ Line'[j] = Line[j]
    <3>1. i \in 1 .. Len(Line) /\ ~(i - Len(Line) \in 1 .. Len(q))
      BY <1>0, <2>1
    <3>2. Line'[i] = Line[i]
      BY <3>1 DEF Joins
    <3> QED BY <2>1, <3>1, <3>2 DEF InOrder
  <2>2. CASE j - Len(Line) \in 1 .. Len(q) /\ Line'[j] = q[j - Len(Line)]
    <3>1. CASE i \in 1 .. Len(Line) /\ Line'[i] = Line[i]
      BY <2>2, <3>1 DEF MayFollow
    <3>2. CASE i - Len(Line) \in 1 .. Len(q) /\ Line'[i] = q[i - Len(Line)]
      <4>1. i - Len(Line) < j - Len(Line)
        BY <1>0, <2>2, <3>2
      <4> QED BY <2>2, <3>2, <4>1
    <3> QED BY <3>1, <3>2 DEF Joins
  <2> QED BY <2>1, <2>2 DEF Joins
<1>2. SentInOrder'
  <2> SUFFICES ASSUME NEW u \in transmitted, NEW i \in 1 .. Len(Line'),
                      u.kind # "probe", Line'[i] \in Tasks, Line'[i].port = u.port
               PROVE  Rank[u.kind] < Rank[Line'[i].kind] \/ AtHead(u, i)'
    BY DEF SentInOrder, Rank
  <2>1. CASE i \in 1 .. Len(Line) /\ Line'[i] = Line[i]
    BY <2>1 DEF SentInOrder, AtHead
  <2>2. CASE i - Len(Line) \in 1 .. Len(q) /\ Line'[i] = q[i - Len(Line)]
    BY <2>2 DEF MayFollow
  <2> QED BY <2>1, <2>2 DEF Joins
<1> QED BY <1>1, <1>2

\* A port with no handshake begun and no probe waiting has nothing in the line.
LEMMA ProbeMayFollow ==
    ASSUME TypeOK, TeardownPackets, TeardownFlags, NEW p \in Ports, NEW a \in Attempts,
           ~ps[p].connection_established,
           \A i \in 1 .. Len(Line) :
             Line[i] \in Tasks /\ Line[i].port = p => Line[i].kind # "probe"
    PROVE  MayFollow(Task(p, "probe", a))
<1>1. ~ps[p].fin_sent /\ ~ps[p].fin_ack_received
  BY DEF TeardownFlags
<1>2. ASSUME NEW u \in Tasks, u.port = p, TeardownBegun(u) PROVE u.kind = "probe"
  BY <1>1, <1>2 DEF TeardownBegun, Tasks
<1>3. \A i \in 1 .. Len(Line) : ~(Line[i] \in Tasks /\ Line[i].port = p)
  BY <1>2 DEF TeardownPackets
<1>4. \A u \in transmitted : u.port = p => u.kind = "probe"
  BY <1>2 DEF TeardownPackets, TypeOK
<1> QED BY <1>3, <1>4 DEF MayFollow, Task

\* The part of the invariant that a single new packet t has to meet.
LEMMA OneJoins ==
    ASSUME TypeOK, TypeOK', NEW t \in Tasks, packet_queue' = Append(packet_queue, t),
           sender' = sender, transmitted' = transmitted, InOrder, SentInOrder, MayFollow(t)
    PROVE  /\ InOrder' /\ SentInOrder'
           /\ \A i \in 1 .. Len(Line') :
                Line'[i] = t \/ (i \in 1 .. Len(Line) /\ Line'[i] = Line[i])
<1>1. packet_queue' = packet_queue \o <<t>>
  BY AppendIsConcat DEF TypeOK
<1>2. <<t>> \in Seq(Tasks) /\ <<t>> \in Seq(Tasks \cup {poison_pill})
  OBVIOUS
<1>3. Joins(<<t>>)
  BY <1>1, <1>2, LineJoins
<1>4. /\ Len(<<t>>) = 1 /\ <<t>>[1] = t
      /\ \A i, j \in 1 .. Len(<<t>>) : ~(i < j)
  OBVIOUS
<1>5. InOrder' /\ SentInOrder'
  <2>1. \A j \in 1 .. Len(<<t>>) : MayFollow(<<t>>[j])
    BY <1>4
  <2>2. \A i, j \in 1 .. Len(<<t>>) :
          i < j /\ <<t>>[i].port = <<t>>[j].port => Rank[<<t>>[i].kind] < Rank[<<t>>[j].kind]
    BY <1>4
  <2> DEFINE q == <<t>>
  <2> HIDE DEF q
  <2>3. q \in Seq(Tasks) /\ Joins(q)
    BY <1>2, <1>3 DEF q
  <2>4. /\ \A j \in 1 .. Len(q) : MayFollow(q[j])
        /\ \A i, j \in 1 .. Len(q) :
             i < j /\ q[i].port = q[j].port => Rank[q[i].kind] < Rank[q[j].kind]
    BY <2>1, <2>2 DEF q
  <2> QED BY <2>3, <2>4, OrderJoins
<1>6. \A i \in 1 .. Len(Line') : Line'[i] = t \/ (i \in 1 .. Len(Line) /\ Line'[i] = Line[i])
  BY <1>3, <1>4 DEF Joins
<1> QED BY <1>5, <1>6

LEMMA InitialSendKeeps ==
    ASSUME ProbeInv, TypeOK', NEW p \in Ports, InitialSend(p)
    PROVE  LineInv'
<1> USE DEF args, gateVars, endVars, history
<1>1. /\ TypeOK /\ GenerationTrails /\ ps \in [Ports -> PortState] /\ ps[p] \in PortState
      /\ tx[p] \in TxState
      /\ InOrder /\ SentInOrder /\ WaitingProbes /\ TeardownPackets /\ TeardownFlags
      /\ Confirmed /\ EarlierSent /\ MarkedIsSent /\ FilingMatch
      /\ StampsMatch /\ StampIsCurrent /\ VerdictHasProbe
  BY DEF ProbeInv, LineInv, VerdictInv, CounterInv, TypeInv, TypeOK
<1> DEFINE t == Task(p, "probe", 0)
<1>2. t \in Tasks /\ t.port = p /\ t.kind = "probe" /\ t.attempt = 0 /\ 0 \in Attempts
  BY PortScanAssumption DEF Task, Tasks, Attempts
<1>3. /\ ~ps[p].connection_established /\ ps[p].initial_send_deferred
      /\ packet_queue' = Append(packet_queue, t)
      /\ UNCHANGED <<tx, sender, history, stamps>>
  BY DEF InitialSend, Due
<1>4. /\ ps'[p].initial_send_deferred = FALSE
      /\ ps'[p].retry_send_deferred = ps[p].retry_send_deferred
      /\ ps'[p].retry_count = ps[p].retry_count
      /\ ps'[p].connection_established = ps[p].connection_established
      /\ ps'[p].fin_sent = ps[p].fin_sent
      /\ ps'[p].fin_ack_received = ps[p].fin_ack_received
      /\ ps'[p].reported = ps[p].reported
      /\ \A q \in Ports : q # p => ps'[q] = ps[q]
  <2>1. ps' = [ps EXCEPT ![p] = [ps[p] EXCEPT !.initial_send_deferred = FALSE]]
    BY <1>1 DEF InitialSend
  <2> QED BY <1>1, <2>1 DEF PortState
<1>5. MayFollow(t)
  <2>1. \A i \in 1 .. Len(Line) :
          Line[i] \in Tasks /\ Line[i].port = p => Line[i].kind # "probe"
    BY <1>1, <1>3 DEF WaitingProbes, CurrentProbe
  <2> QED BY <1>1, <1>2, <1>3, <2>1, ProbeMayFollow
<1>6. ~tx[p].real_tx /\ tx[p].generation = 0
  <2>1. ~tx[p].real_tx /\ ps[p].retry_count = 0
    BY <1>1, <1>3 DEF Confirmed
  <2> QED BY <1>1, <2>1, PortScanAssumption DEF GenerationTrails, TxState, Attempts
<1> HIDE DEF t
<1>7. /\ InOrder' /\ SentInOrder'
      /\ \A i \in 1 .. Len(Line') :
           Line'[i] = t \/ (i \in 1 .. Len(Line) /\ Line'[i] = Line[i])
  BY <1>1, <1>2, <1>3, <1>5, OneJoins
<1>8. \A u \in Tasks : u.port \in Ports
  BY DEF Tasks
<1>9. WaitingProbes'
  <2>1. CurrentProbe(t)'
    BY <1>2, <1>3, <1>4, <1>6 DEF CurrentProbe
  <2>2. ASSUME NEW u \in Tasks, CurrentProbe(u) PROVE CurrentProbe(u)'
    BY <1>3, <1>4, <1>8, <2>2 DEF CurrentProbe
  <2> QED BY <1>1, <1>7, <2>1, <2>2 DEF WaitingProbes
<1>10. TeardownPackets' /\ TeardownFlags'
  <2>1. \A u \in Tasks : TeardownBegun(u) => TeardownBegun(u)'
    BY <1>4, <1>8 DEF TeardownBegun
  <2>2. \A u \in transmitted : u \in Tasks
    BY <1>1 DEF TypeOK
  <2>3. TeardownBegun(t)'
    BY <1>2 DEF TeardownBegun
  <2>4. TeardownPackets'
    BY <1>1, <1>3, <1>7, <2>1, <2>2, <2>3 DEF TeardownPackets
  <2>5. TeardownFlags'
    BY <1>1, <1>4 DEF TeardownFlags
  <2> QED BY <2>4, <2>5
<1>11. Confirmed' /\ EarlierSent'
  BY <1>1, <1>3, <1>4 DEF Confirmed, EarlierSent
<1>12. StampsMatch' /\ StampIsCurrent' /\ VerdictHasProbe'
  <2>1. \A st \in stamps : st.port \in Ports
    BY <1>1 DEF TypeOK
  <2> QED BY <1>1, <1>3, <1>4, <2>1 DEF StampsMatch, StampIsCurrent, VerdictHasProbe
<1>13. MarkedIsSent' /\ FilingMatch'
  <2>1. \A u \in sender.filing : u.port \in Ports
    BY <1>1, <1>8 DEF TypeOK
  <2> QED BY <1>1, <1>3, <1>4, <2>1 DEF MarkedIsSent, FilingMatch
<1> QED BY <1>7, <1>9, <1>10, <1>11, <1>12, <1>13 DEF LineInv

\* A retry is queued for a port whose last probe is out, so none of its probes waits.
LEMMA RetrySendKeeps ==
    ASSUME ProbeInv, TypeOK', NEW p \in Ports, RetrySend(p)
    PROVE  LineInv'
<1> USE DEF args, gateVars, endVars, history
<1>1. /\ TypeOK /\ GenerationTrails /\ ps \in [Ports -> PortState] /\ ps[p] \in PortState
      /\ tx[p] \in TxState /\ tx \in [Ports -> TxState]
      /\ InOrder /\ SentInOrder /\ WaitingProbes /\ TeardownPackets /\ TeardownFlags
      /\ Confirmed /\ EarlierSent /\ MarkedIsSent /\ FilingMatch
      /\ StampsMatch /\ StampIsCurrent /\ VerdictHasProbe
  BY DEF ProbeInv, LineInv, VerdictInv, CounterInv, TypeInv, TypeOK
<1>a. PICK a \in Attempts : a = ps[p].retry_count
  BY <1>1 DEF PortState
<1> DEFINE t == Task(p, "probe", a)
<1>2. /\ t \in Tasks /\ t.port = p /\ t.kind = "probe" /\ t.attempt = ps[p].retry_count
      /\ ps[p].retry_count \in Attempts
  BY <1>1, <1>a DEF Task, Tasks
<1>3. /\ ~ps[p].connection_established /\ ~ps[p].initial_send_deferred
      /\ ps[p].retry_send_deferred
      /\ packet_queue' = Append(packet_queue, t)
      /\ overtaken' = overtaken \cup {u \in sender.filing : u.port = p}
      /\ UNCHANGED <<sender, transmitted, stamps>>
  BY <1>a DEF RetrySend, Due
<1>4. /\ ps'[p].initial_send_deferred = ps[p].initial_send_deferred
      /\ ps'[p].retry_send_deferred = FALSE
      /\ ps'[p].retry_count = ps[p].retry_count
      /\ ps'[p].connection_established = ps[p].connection_established
      /\ ps'[p].fin_sent = ps[p].fin_sent
      /\ ps'[p].fin_ack_received = ps[p].fin_ack_received
      /\ ps'[p].reported = ps[p].reported
      /\ \A q \in Ports : q # p => ps'[q] = ps[q]
  <2>1. ps' = [ps EXCEPT ![p] = [ps[p] EXCEPT !.retry_send_deferred = FALSE]]
    BY <1>1 DEF RetrySend
  <2> QED BY <1>1, <2>1 DEF PortState
<1>5. /\ tx'[p] = [real_tx |-> FALSE, probe_outstanding |-> FALSE,
                   generation |-> tx[p].generation + 1,
                   tx_ts |-> NoStamp, tx_ts_precise |-> FALSE]
      /\ \A q \in Ports : q # p => tx'[q] = tx[q]
  BY <1>1 DEF RetrySend
<1>6. tx[p].generation + 1 = ps[p].retry_count
  <2>1. tx[p].generation = ps[p].retry_count - 1
    BY <1>1, <1>3 DEF GenerationTrails
  <2> QED BY <1>2, <2>1, PortScanAssumption DEF Attempts
<1>7. MayFollow(t)
  <2>1. tx[p].real_tx
    BY <1>1, <1>3 DEF Confirmed
  <2>2. \A i \in 1 .. Len(Line) :
          Line[i] \in Tasks /\ Line[i].port = p => Line[i].kind # "probe"
    BY <1>1, <2>1 DEF WaitingProbes, CurrentProbe
  <2> QED BY <1>1, <1>2, <1>3, <2>2, ProbeMayFollow
<1> HIDE DEF t
<1>8. /\ InOrder' /\ SentInOrder'
      /\ \A i \in 1 .. Len(Line') :
           Line'[i] = t \/ (i \in 1 .. Len(Line) /\ Line'[i] = Line[i])
  BY <1>1, <1>2, <1>3, <1>7, OneJoins
<1>9. \A u \in Tasks : u.port \in Ports
  BY DEF Tasks
<1>10. WaitingProbes'
  <2>1. CurrentProbe(t)'
    BY <1>2, <1>3, <1>4, <1>5, <1>6 DEF CurrentProbe
  <2>2. ASSUME NEW u \in Tasks, CurrentProbe(u), u.port # p \/ u.kind # "probe"
        PROVE  CurrentProbe(u)'
    BY <1>4, <1>5, <1>9, <2>2 DEF CurrentProbe
  <2>3. tx[p].real_tx
    BY <1>1, <1>3 DEF Confirmed
  <2>4. \A i \in 1 .. Len(Line) : Line[i] \in Tasks =>
          CurrentProbe(Line[i]) /\ (Line[i].port # p \/ Line[i].kind # "probe")
    BY <1>1, <2>3 DEF WaitingProbes, CurrentProbe
  <2> QED BY <1>8, <2>1, <2>2, <2>4 DEF WaitingProbes
<1>11. TeardownPackets' /\ TeardownFlags'
  <2>1. \A u \in Tasks : TeardownBegun(u) => TeardownBegun(u)'
    BY <1>4, <1>9 DEF TeardownBegun
  <2>2. \A u \in transmitted : u \in Tasks
    BY <1>1 DEF TypeOK
  <2>3. TeardownBegun(t)'
    BY <1>2 DEF TeardownBegun
  <2>4. TeardownPackets'
    BY <1>1, <1>3, <1>8, <2>1, <2>2, <2>3 DEF TeardownPackets
  <2>5. TeardownFlags'
    BY <1>1, <1>4 DEF TeardownFlags
  <2> QED BY <2>4, <2>5
<1>12. Confirmed' /\ EarlierSent'
  BY <1>1, <1>3, <1>4, <1>5 DEF Confirmed, EarlierSent
<1>13. StampsMatch' /\ StampIsCurrent' /\ VerdictHasProbe'
  <2>1. \A st \in stamps : st.port \in Ports
    BY <1>1 DEF TypeOK
  <2> QED BY <1>1, <1>3, <1>4, <1>5, <2>1 DEF StampsMatch, StampIsCurrent, VerdictHasProbe
\* The attempt that had been confirmed is overtaken if its generation was not read yet.
<1>14. MarkedIsSent' /\ FilingMatch'
  <2>1. \A u \in sender.filing : u.port \in Ports
    BY <1>1, <1>9 DEF TypeOK
  <2>2. MarkedIsSent'
    BY <1>1, <1>3 DEF MarkedIsSent
  <2>3. tx[p].real_tx
    BY <1>1, <1>3 DEF Confirmed
  <2>4. ASSUME NEW u \in sender.filing, ~ps'[u.port].connection_established, u.port = p
        PROVE  /\ u.kind = "probe" /\ u.attempt = tx'[p].generation - 1
               /\ u \in overtaken' /\ ~tx'[p].real_tx
    <3>1. u.kind = "probe" /\ u.attempt = tx[p].generation
      BY <1>1, <1>3, <2>3, <2>4 DEF FilingMatch
    <3>2. tx[p].generation \in Int
      BY <1>1, PortScanAssumption DEF TxState, Attempts
    <3> QED BY <1>3, <1>5, <2>4, <3>1, <3>2
  <2>5. FilingMatch'
    BY <1>1, <1>3, <1>4, <1>5, <2>1, <2>4 DEF FilingMatch
  <2> QED BY <2>2, <2>5
<1> QED BY <1>8, <1>10, <1>11, <1>12, <1>13, <1>14 DEF LineInv

-----------------------------------------------------------------------------
(***************************************************************************)
(* Replies.                                                                *)
(***************************************************************************)
\* What a segment does to the handshake and the teardown of a port: the flags are only
\* raised, in order, and a verdict is drawn from an acknowledgement of our sequence
\* number or from a bare RST.
LEMMA TeardownResponse ==
    ASSUME NEW s \in PortState, NEW seg \in Segments, scan_type \in ScanTypes,
           fast_scan \in BOOLEAN, s.connection_established => s.reported # "None",
           s.fin_sent => s.connection_established, s.fin_ack_received => s.fin_sent
    PROVE  LET t == process_response(s, seg)
           IN  /\ t.fin_sent => t.connection_established
               /\ t.fin_ack_received => t.fin_sent
               /\ s.fin_sent => t.fin_sent
               /\ s.fin_ack_received => t.fin_ack_received
               /\ t.fin_sent /\ ~s.fin_sent
                    => ~s.connection_established /\ t.fin_ack_received = s.fin_ack_received
               /\ t.reported # s.reported => seg.ack = 1 \/ "ACK" \notin seg.flags
<1>1. CASE process_response(s, seg) = s
  BY <1>1
<1>2. CASE /\ process_response(s, seg) = Handshake(s)
           /\ ~s.connection_established /\ ~AckMismatch(s, seg)
  <2>1. CASE fast_scan = TRUE
    BY <1>2, <2>1 DEF Handshake, Report, PortState, AckMismatch
  <2>2. CASE fast_scan = FALSE
    BY <1>2, <2>2 DEF Handshake, Report, PortState, AckMismatch
  <2> QED BY <2>1, <2>2
<1>3. CASE process_response(s, seg) = Resolve(s, RstVerdict(seg)) /\ ~AckMismatch(s, seg)
  <2>1. PICK v : process_response(s, seg) = Resolve(s, v)
    BY <1>3
  <2>2. CASE s.reported = "None"
    <3>1. process_response(s, seg) = [s EXCEPT !.reported = v, !.final = TRUE]
      BY <2>1, <2>2 DEF Resolve, Report
    <3>2. seg.ack = 1 \/ "ACK" \notin seg.flags
      BY <1>3, <2>2 DEF AckMismatch
    <3> QED BY <3>1, <3>2 DEF PortState
  <2>3. CASE s.reported # "None"
    <3>1. process_response(s, seg) = [s EXCEPT !.final = TRUE]
      BY <2>1, <2>3 DEF Resolve, Report
    <3> QED BY <3>1 DEF PortState
  <2> QED BY <2>2, <2>3
<1>4. CASE process_response(s, seg) = Teardown(s, seg)
  BY <1>4 DEF Teardown, PortState
<1> QED BY <1>1, <1>2, <1>3, <1>4 DEF process_response

\* The packets that follow a reply, in their order.
LEMMA FollowUpsOrder ==
    ASSUME NEW p \in Ports, NEW s \in PortState, NEW t \in PortState,
           t.fin_sent /\ ~s.fin_sent => t.fin_ack_received = s.fin_ack_received
    PROVE  /\ \A i \in 1 .. Len(FollowUps(p, s, t)) :
                /\ FollowUps(p, s, t)[i] \in Tasks /\ FollowUps(p, s, t)[i].port = p
                /\ \/ /\ FollowUps(p, s, t)[i].kind \in {"ACK", "FINACK"}
                      /\ t.fin_sent /\ ~s.fin_sent
                   \/ /\ FollowUps(p, s, t)[i].kind = "LASTACK"
                      /\ t.fin_ack_received /\ ~s.fin_ack_received
           /\ \A i, j \in 1 .. Len(FollowUps(p, s, t)) :
                i < j => Rank[FollowUps(p, s, t)[i].kind] < Rank[FollowUps(p, s, t)[j].kind]
<1> DEFINE a == Task(p, "ACK", s.retry_count)
           f == Task(p, "FINACK", s.retry_count)
           l == Task(p, "LASTACK", s.retry_count)
<1>1. /\ a \in Tasks /\ a.port = p /\ a.kind = "ACK"
      /\ f \in Tasks /\ f.port = p /\ f.kind = "FINACK"
      /\ l \in Tasks /\ l.port = p /\ l.kind = "LASTACK"
  BY DEF Task, Tasks, PortState
<1>2. Rank["ACK"] < Rank["FINACK"]
  BY DEF Rank
<1>3. FollowUps(p, s, t) = (IF t.fin_sent /\ ~s.fin_sent THEN <<a, f>> ELSE <<>>)
                             \o (IF t.fin_ack_received /\ ~s.fin_ack_received THEN <<l>> ELSE <<>>)
  BY DEF FollowUps
<1> HIDE DEF a, f, l
<1>e. \A x, y \in Tasks : <<x, y>> \o <<>> = <<x, y>> /\ <<>> \o <<x>> = <<x>>
  OBVIOUS
<1>4. CASE t.fin_sent /\ ~s.fin_sent
  <2>1. FollowUps(p, s, t) = <<a, f>>
    BY <1>1, <1>3, <1>4, <1>e
  <2>2. /\ Len(<<a, f>>) = 2 /\ <<a, f>>[1] = a /\ <<a, f>>[2] = f
    OBVIOUS
  <2> QED BY <1>1, <1>2, <1>4, <2>1, <2>2
<1>5. CASE ~(t.fin_sent /\ ~s.fin_sent) /\ t.fin_ack_received /\ ~s.fin_ack_received
  <2>1. FollowUps(p, s, t) = <<l>>
    BY <1>1, <1>3, <1>5, <1>e
  <2>2. Len(<<l>>) = 1 /\ <<l>>[1] = l
    OBVIOUS
  <2> QED BY <1>1, <1>5, <2>1, <2>2
<1>6. CASE ~(t.fin_sent /\ ~s.fin_sent) /\ ~(t.fin_ack_received /\ ~s.fin_ack_received)
  <2>1. FollowUps(p, s, t) = <<>> \o <<>>
    BY <1>3, <1>6
  <2>2. <<>> \o <<>> = <<>> /\ Len(<<>>) = 0
    OBVIOUS
  <2> QED BY <2>1, <2>2
<1> QED BY <1>4, <1>5, <1>6

\* With tokens a segment that can be the ground of a verdict answers a probe that is
\* out; then the first probe is out too.
LEMMA VerdictGround ==
    ASSUME TypeOK, GenerationTrails, Confirmed, EarlierSent, UseToken,
           NEW p \in Ports, NEW seg \in Segments, CanArrive(p, seg), Demux(p, seg),
           ~ps[p].connection_established, seg.ack = 1 \/ "ACK" \notin seg.flags
    PROVE  Task(p, "probe", 0) \in transmitted
<1>1. /\ ps[p].retry_count \in Nat /\ ps[p].retry_count \in Attempts
      /\ tx[p].generation \in Nat /\ 0 \in Attempts
  BY PortScanAssumption DEF TypeOK, PortState, TxState, Attempts
<1>2. PICK a \in Attempts : a <= ps[p].retry_count /\ Task(p, "probe", a) \in transmitted
  <2>1. CASE seg.ack = 1
    <3>1. /\ Task(p, "probe", seg.sport) \in transmitted
          /\ seg.sport \in 0 .. ps[p].retry_count
      BY <2>1 DEF CanArrive, Submitted, Demux, accepts_src_port
    <3>2. seg.sport \in Attempts
      BY <1>1, <3>1, PortScanAssumption DEF Attempts
    <3> QED BY <1>1, <3>1, <3>2
  <2>2. CASE "ACK" \notin seg.flags
    <3>1. seg.flags = {"RST"}
      BY <2>2 DEF Segments, Flags
    <3>2. tx[p].probe_outstanding
      BY <3>1 DEF Demux
    <3>3. Task(p, "probe", tx[p].generation) \in transmitted
      BY <3>2 DEF Confirmed
    <3>4. tx[p].generation <= ps[p].retry_count /\ tx[p].generation \in Attempts
      BY <1>1, PortScanAssumption DEF GenerationTrails, Attempts
    <3> QED BY <3>3, <3>4
  <2> QED BY <2>1, <2>2
<1>3. CASE a = 0
  BY <1>2, <1>3
<1>4. CASE a # 0
  <2>1. 0 < ps[p].retry_count
    BY <1>1, <1>2, <1>4, PortScanAssumption DEF Attempts
  <2> QED BY <1>1, <2>1 DEF EarlierSent
<1> QED BY <1>3, <1>4

LEMMA ReplyKeeps ==
    ASSUME ProbeInv, TypeOK', NEW p \in Ports, NEW seg \in Segments, NEW usable \in BOOLEAN,
           Reply(p, seg, usable)
    PROVE  LineInv'
<1> DEFINE s == IF usable THEN [ps[p] EXCEPT !.rtt_measured = TRUE] ELSE ps[p]
           t == process_response(s, seg)
           q == FollowUps(p, s, t)
<1>1. /\ TypeOK /\ GenerationTrails /\ ps[p] \in PortState /\ DecidedIsReported
      /\ scan_type \in ScanTypes /\ fast_scan \in BOOLEAN
      /\ tx[p] \in TxState /\ tx \in [Ports -> TxState]
      /\ InOrder /\ SentInOrder /\ WaitingProbes /\ TeardownPackets /\ TeardownFlags
      /\ Confirmed /\ EarlierSent /\ MarkedIsSent /\ FilingMatch
      /\ StampsMatch /\ StampIsCurrent /\ VerdictHasProbe
  BY DEF ProbeInv, LineInv, VerdictInv, CounterInv, TypeInv, TypeOK
<1>2. /\ s \in PortState
      /\ s.reported = ps[p].reported /\ s.fin_sent = ps[p].fin_sent
      /\ s.connection_established = ps[p].connection_established
      /\ s.fin_ack_received = ps[p].fin_ack_received /\ s.retry_count = ps[p].retry_count
      /\ s.initial_send_deferred = ps[p].initial_send_deferred
      /\ s.retry_send_deferred = ps[p].retry_send_deferred
  <2>1. CASE usable
    BY <1>1, <2>1 DEF PortState
  <2>2. CASE ~usable
    BY <1>1, <2>2
  <2> QED BY <2>1, <2>2
<1>3. /\ CanArrive(p, seg) /\ Demux(p, seg) /\ Account(p, t)
      /\ packet_queue' = packet_queue \o q
      /\ tx' = IF t.final THEN [tx EXCEPT ![p].tx_ts = NoStamp,
                                          ![p].probe_outstanding = FALSE]
                          ELSE tx
      /\ UNCHANGED <<sender, stamps, transmitted, overtaken>>
  BY DEF Reply, history
<1> HIDE DEF s
<1>4. /\ t \in PortState
      /\ t.retry_count = s.retry_count
      /\ t.initial_send_deferred = s.initial_send_deferred
      /\ t.retry_send_deferred = s.retry_send_deferred
      /\ s.connection_established => t.connection_established
      /\ t.reported = s.reported \/ s.reported = "None"
  BY <1>1, <1>2, ResponseFacts
<1>5. /\ t.fin_sent => t.connection_established
      /\ t.fin_ack_received => t.fin_sent
      /\ s.fin_sent => t.fin_sent
      /\ s.fin_ack_received => t.fin_ack_received
      /\ t.fin_sent /\ ~s.fin_sent
           => ~s.connection_established /\ t.fin_ack_received = s.fin_ack_received
      /\ t.reported # s.reported => seg.ack = 1 \/ "ACK" \notin seg.flags
  <2>1. /\ s.connection_established => s.reported # "None"
        /\ s.fin_sent => s.connection_established
        /\ s.fin_ack_received => s.fin_sent
    BY <1>1, <1>2 DEF DecidedIsReported, TeardownFlags
  <2> QED BY <1>1, <1>2, <2>1, TeardownResponse
<1> HIDE DEF t
<1>6. /\ ps'[p].reported = t.reported
      /\ ps'[p].initial_send_deferred = ps[p].initial_send_deferred
      /\ ps'[p].retry_send_deferred = ps[p].retry_send_deferred
      /\ ps'[p].retry_count = ps[p].retry_count
      /\ ps'[p].connection_established = t.connection_established
      /\ ps'[p].fin_sent = t.fin_sent /\ ps'[p].fin_ack_received = t.fin_ack_received
      /\ \A r \in Ports : r # p => ps'[r] = ps[r]
  <2>1. /\ ps'[p] = IF t.final THEN [t EXCEPT !.counted_in_retry = FALSE] ELSE t
        /\ \A r \in Ports : r # p => ps'[r] = ps[r]
    BY <1>1, <1>3, <1>4, AccountFacts
  <2> QED BY <1>2, <1>4, <2>1 DEF PortState
<1>7. \A r \in Ports : /\ tx'[r].real_tx = tx[r].real_tx
                       /\ tx'[r].generation = tx[r].generation
                       /\ tx'[r].probe_outstanding => tx[r].probe_outstanding
                       /\ tx'[r].tx_ts = tx[r].tx_ts \/ tx'[r].tx_ts = NoStamp
  <2> DEFINE u == [tx[p] EXCEPT !.tx_ts = NoStamp, !.probe_outstanding = FALSE]
  <2>1. /\ u.real_tx = tx[p].real_tx /\ u.generation = tx[p].generation
        /\ u.probe_outstanding = FALSE /\ u.tx_ts = NoStamp
    BY <1>1 DEF TxState
  <2>2. /\ tx'[p] = tx[p] \/ tx'[p] = u
        /\ \A r \in Ports : r # p => tx'[r] = tx[r]
    BY <1>1, <1>3
  <2> HIDE DEF u
  <2> QED BY <2>1, <2>2
<1>8. q \in Seq(Tasks) /\ q \in Seq(Tasks \cup {poison_pill})
  <2>1. Seq(Tasks) \subseteq Seq(Tasks \cup {poison_pill})
    BY SeqMonotonic
  <2> QED BY <1>2, <1>4, <2>1, FollowUpsType
<1>9. /\ \A i \in 1 .. Len(q) :
           /\ q[i] \in Tasks /\ q[i].port = p
           /\ \/ q[i].kind \in {"ACK", "FINACK"} /\ t.fin_sent /\ ~s.fin_sent
              \/ q[i].kind = "LASTACK" /\ t.fin_ack_received /\ ~s.fin_ack_received
      /\ \A i, j \in 1 .. Len(q) : i < j => Rank[q[i].kind] < Rank[q[j].kind]
  <2>1. t.fin_sent /\ ~s.fin_sent => t.fin_ack_received = s.fin_ack_received
    BY <1>5
  <2> QED BY <1>2, <1>4, <2>1, FollowUpsOrder
<1> HIDE DEF q
<1>10. Joins(q)
  BY <1>1, <1>3, <1>8, LineJoins
<1>11. \A u \in Tasks : u.port \in Ports
  BY DEF Tasks
<1>12. InOrder' /\ SentInOrder'
  <2>1. ASSUME NEW i \in 1 .. Len(q), NEW u \in Tasks, u.port = p, TeardownBegun(u)
        PROVE  Rank[u.kind] < Rank[q[i].kind]
    <3>1. CASE q[i].kind \in {"ACK", "FINACK"} /\ ~s.fin_sent
      <4>1. ~ps[p].fin_sent /\ ~ps[p].fin_ack_received
        BY <1>1, <1>2, <3>1 DEF TeardownFlags
      <4>2. u.kind = "probe"
        BY <2>1, <4>1 DEF TeardownBegun, Tasks
      <4> QED BY <3>1, <4>2 DEF Rank
    <3>2. CASE q[i].kind = "LASTACK" /\ ~s.fin_ack_received
      <4>1. u.kind \in {"probe", "ACK", "FINACK"}
        BY <1>2, <2>1, <3>2 DEF TeardownBegun, Tasks
      <4> QED BY <3>2, <4>1 DEF Rank
    <3> QED BY <1>9, <3>1, <3>2
  <2>2. \A u \in transmitted : u \in Tasks
    BY <1>1 DEF TypeOK
  <2>3. \A i \in 1 .. Len(q) : MayFollow(q[i])
    BY <1>1, <1>9, <2>1, <2>2 DEF MayFollow, TeardownPackets
  <2> QED BY <1>1, <1>3, <1>8, <1>9, <1>10, <2>3, OrderJoins
<1>13. \A i \in 1 .. Len(Line') :
          \/ i \in 1 .. Len(Line) /\ Line'[i] = Line[i]
          \/ \E j \in 1 .. Len(q) : Line'[i] = q[j]
  BY <1>10 DEF Joins
<1>14. WaitingProbes'
  <2>1. ASSUME NEW u \in Tasks, CurrentProbe(u) PROVE CurrentProbe(u)'
    BY <1>6, <1>7, <1>11, <2>1 DEF CurrentProbe
  <2>2. \A i \in 1 .. Len(Line') : Line'[i] \in Tasks => CurrentProbe(Line'[i])
    BY <1>1, <1>9, <1>13 DEF WaitingProbes, CurrentProbe
  <2> QED BY <2>1, <2>2 DEF WaitingProbes
<1>15. TeardownPackets' /\ TeardownFlags'
  <2>1. ASSUME NEW u \in Tasks, TeardownBegun(u) PROVE TeardownBegun(u)'
    BY <1>2, <1>5, <1>6, <1>11, <2>1 DEF TeardownBegun
  <2>2. ASSUME NEW u \in Tasks, u.port = p,
               \/ u.kind \in {"ACK", "FINACK"} /\ t.fin_sent
               \/ u.kind = "LASTACK" /\ t.fin_ack_received
        PROVE  TeardownBegun(u)'
    BY <1>6, <2>2 DEF TeardownBegun
  <2>3. \A u \in transmitted : u \in Tasks
    BY <1>1 DEF TypeOK
  <2>4. \A i \in 1 .. Len(Line') : Line'[i] \in Tasks =>
          \/ TeardownBegun(Line'[i])
          \/ /\ Line'[i].port = p
             /\ \/ Line'[i].kind \in {"ACK", "FINACK"} /\ t.fin_sent
                \/ Line'[i].kind = "LASTACK" /\ t.fin_ack_received
    BY <1>1, <1>9, <1>13 DEF TeardownPackets
  <2>5. TeardownPackets'
    BY <1>1, <1>3, <2>1, <2>2, <2>3, <2>4 DEF TeardownPackets
  <2>6. TeardownFlags'
    BY <1>1, <1>5, <1>6 DEF TeardownFlags
  <2> QED BY <2>5, <2>6
<1>16. Confirmed' /\ EarlierSent'
  <2>1. \A r \in Ports : /\ ps'[r].initial_send_deferred = ps[r].initial_send_deferred
                         /\ ps'[r].retry_send_deferred = ps[r].retry_send_deferred
                         /\ ps'[r].retry_count = ps[r].retry_count
                         /\ ps[r].connection_established => ps'[r].connection_established
    BY <1>2, <1>4, <1>6
  <2>2. Confirmed'
    BY <1>1, <1>3, <1>7, <2>1 DEF Confirmed
  <2>3. EarlierSent'
    BY <1>1, <1>3, <2>1 DEF EarlierSent
  <2> QED BY <2>2, <2>3
<1>17. StampsMatch' /\ StampIsCurrent'
  <2>1. \A st \in stamps : st.port \in Ports
    BY <1>1 DEF TypeOK
  <2> QED BY <1>1, <1>2, <1>3, <1>4, <1>6, <1>7, <2>1 DEF StampsMatch, StampIsCurrent
<1>18. VerdictHasProbe'
  <2>1. ASSUME UseToken, t.reported # s.reported PROVE Task(p, "probe", 0) \in transmitted
    <3>1. ~ps[p].connection_established
      BY <1>1, <1>2, <1>4, <2>1 DEF DecidedIsReported
    <3> QED BY <1>1, <1>3, <1>5, <2>1, <3>1, VerdictGround
  <2> QED BY <1>1, <1>2, <1>3, <1>6, <2>1 DEF VerdictHasProbe
<1>19. MarkedIsSent' /\ FilingMatch'
  <2>1. \A u \in sender.filing : u.port \in Ports
    BY <1>1, <1>11 DEF TypeOK
  <2> QED BY <1>1, <1>2, <1>3, <1>4, <1>6, <1>7, <2>1 DEF MarkedIsSent, FilingMatch
<1> QED BY <1>12, <1>14, <1>15, <1>16, <1>17, <1>18, <1>19 DEF LineInv

-----------------------------------------------------------------------------
(***************************************************************************)
(* The sender: the head of the line goes out.                              *)
(***************************************************************************)
\* The packet on_pre_submit is called for heads the line; of a port whose handshake has
\* not begun it is the current probe.
LEMMA HeadOfLine ==
    ASSUME TypeOK, LineInv, sender.batch # <<>>
    PROVE  /\ Head(sender.batch) \in Tasks /\ Head(sender.batch).port \in Ports
           /\ Len(Line) \in Nat /\ 1 \in 1 .. Len(Line) /\ Line[1] = Head(sender.batch)
           /\ CurrentProbe(Head(sender.batch)) /\ TeardownBegun(Head(sender.batch))
           /\ ~ps[Head(sender.batch).port].connection_established =>
                /\ Head(sender.batch)
                     = Task(Head(sender.batch).port, "probe",
                            tx[Head(sender.batch).port].generation)
                /\ ~ps[Head(sender.batch).port].initial_send_deferred
<1> DEFINE h == Head(sender.batch)
<1>1. /\ h \in Tasks /\ h = sender.batch[1] /\ Len(sender.batch) \in Nat
      /\ 1 <= Len(sender.batch) /\ h.port \in Ports
  BY HeadFacts DEF Tasks
<1>2. Len(Line) \in Nat /\ 1 \in 1 .. Len(Line) /\ Line[1] = h
  <2>1. /\ Len(packet_queue) \in Nat /\ Len(Line) = Len(sender.batch) + Len(packet_queue)
        /\ \A i \in 1 .. Len(sender.batch) + Len(packet_queue) :
             Line[i] = IF i <= Len(sender.batch) THEN sender.batch[i]
                       ELSE packet_queue[i - Len(sender.batch)]
    BY LineType
  <2> HIDE DEF h
  <2> QED BY <1>1, <2>1
<1> HIDE DEF h
<1>3. CurrentProbe(h) /\ TeardownBegun(h) /\ TeardownFlags
  BY <1>1, <1>2 DEF LineInv, WaitingProbes, TeardownPackets
<1>4. ASSUME ~ps[h.port].connection_established
      PROVE  h = Task(h.port, "probe", tx[h.port].generation) /\ ~ps[h.port].initial_send_deferred
  <2>1. ~ps[h.port].fin_sent /\ ~ps[h.port].fin_ack_received
    BY <1>1, <1>3, <1>4 DEF TeardownFlags
  <2>2. h.kind = "probe"
    BY <1>1, <1>3, <2>1 DEF TeardownBegun, Tasks
  <2> QED BY <1>1, <1>3, <2>2 DEF CurrentProbe, Task, Tasks
<1> QED BY <1>1, <1>2, <1>3, <1>4 DEF h

\* probe_outstanding is stored: the packet is counted as sent and still heads the line.
LEMMA MarkKeeps ==
    ASSUME ProbeInv, MarkOutstanding
    PROVE  LineInv'
<1> USE DEF args, gateVars, endVars
<1> DEFINE h == Head(sender.batch)
<1>1. /\ TypeOK /\ tx \in [Ports -> TxState] /\ LineInv
      /\ InOrder /\ SentInOrder /\ WaitingProbes /\ TeardownPackets /\ TeardownFlags
      /\ Confirmed /\ EarlierSent /\ MarkedIsSent /\ FilingMatch
      /\ StampsMatch /\ StampIsCurrent /\ VerdictHasProbe
  BY DEF ProbeInv, LineInv, VerdictInv, CounterInv, TypeInv, TypeOK
<1>2. /\ h \in Tasks /\ h.port \in Ports
      /\ Len(Line) \in Nat /\ 1 \in 1 .. Len(Line) /\ Line[1] = h
      /\ CurrentProbe(h) /\ TeardownBegun(h)
      /\ ~ps[h.port].connection_established =>
           h = Task(h.port, "probe", tx[h.port].generation)
  BY <1>1, HeadOfLine DEF MarkOutstanding
<1>3. /\ UNCHANGED <<ps, packet_queue, stamps, overtaken>>
      /\ transmitted' = transmitted \cup {h}
      /\ tx' = [tx EXCEPT ![h.port].probe_outstanding = TRUE]
      /\ sender.state = "send" /\ sender.filing = {}
      /\ sender'.state = "marked" /\ sender'.batch = sender.batch /\ sender'.filing = {}
  BY <1>1 DEF MarkOutstanding, Sending, TypeOK
<1>4. Line' = Line /\ h' = h
  BY <1>3 DEF Line
<1>5. MarkedIsSent' /\ FilingMatch'
  BY <1>3, <1>4 DEF MarkedIsSent, FilingMatch
<1>6. sender'.state = "marked" /\ h = Head(sender'.batch)
  BY <1>3
<1> HIDE DEF h
<1>7. \A q \in Ports : /\ tx'[q].generation = tx[q].generation
                       /\ tx'[q].tx_ts = tx[q].tx_ts
                       /\ tx'[q].real_tx = tx[q].real_tx
                       /\ q # h.port => tx'[q] = tx[q]
  <2> SUFFICES ASSUME NEW q \in Ports
               PROVE  /\ tx'[q].generation = tx[q].generation
                      /\ tx'[q].tx_ts = tx[q].tx_ts
                      /\ tx'[q].real_tx = tx[q].real_tx
                      /\ q # h.port => tx'[q] = tx[q]
    OBVIOUS
  <2>1. tx[q] \in TxState
    BY <1>1
  <2>2. CASE q = h.port
    <3>1. tx'[q] = [tx[q] EXCEPT !.probe_outstanding = TRUE]
      BY <1>1, <1>2, <1>3, <2>2
    <3> QED BY <2>1, <2>2, <3>1 DEF TxState
  <2>3. CASE q # h.port
    BY <1>1, <1>2, <1>3, <2>3
  <2> QED BY <2>2, <2>3
<1>8. InOrder'
  BY <1>1, <1>4 DEF InOrder
<1>9. SentInOrder'
  <2> SUFFICES ASSUME NEW u \in transmitted', NEW i \in 1 .. Len(Line),
                      u.kind # "probe", Line[i] \in Tasks, Line[i].port = u.port
               PROVE  Rank[u.kind] < Rank[Line[i].kind] \/ AtHead(u, i)'
    BY <1>4 DEF SentInOrder, Rank
  <2>1. CASE u \in transmitted
    BY <1>1, <1>3, <2>1 DEF SentInOrder, AtHead
  <2>2. CASE u = h /\ i = 1
    BY <1>6, <2>2 DEF AtHead
  <2>3. CASE u = h /\ i # 1
    <3>1. 1 < i /\ Line[1] = u /\ Line[1] \in Tasks
      BY <1>2, <2>3
    <3> QED BY <1>1, <1>2, <3>1 DEF InOrder
  <2> QED BY <1>3, <2>1, <2>2, <2>3
<1>10. WaitingProbes'
  <2>1. \A u \in Tasks : u.port \in Ports
    BY DEF Tasks
  <2>2. \A u \in Tasks : CurrentProbe(u) => CurrentProbe(u)'
    BY <1>3, <1>7, <2>1 DEF CurrentProbe
  <2> QED BY <1>1, <1>4, <2>2 DEF WaitingProbes
<1>11. TeardownPackets' /\ TeardownFlags'
  BY <1>1, <1>2, <1>3, <1>4 DEF TeardownPackets, TeardownFlags, TeardownBegun
<1>12. Confirmed'
  <2> SUFFICES ASSUME NEW q \in Ports
               PROVE  (/\ (tx[q].real_tx \/ tx[q].probe_outstanding)
                              /\ ~ps[q].connection_established
                            => Task(q, "probe", tx[q].generation) \in transmitted
                       /\ ps[q].retry_send_deferred => tx[q].real_tx
                       /\ ps[q].initial_send_deferred =>
                            /\ ps[q].retry_count = 0
                            /\ ~ps[q].connection_established => ~tx[q].real_tx)'
    BY DEF Confirmed
  <2>1. CASE q = h.port
    BY <1>1, <1>2, <1>3, <1>7, <2>1 DEF Confirmed
  <2>2. CASE q # h.port
    BY <1>1, <1>3, <1>7, <2>2 DEF Confirmed
  <2> QED BY <2>1, <2>2
<1>13. EarlierSent' /\ VerdictHasProbe' /\ StampIsCurrent' /\ StampsMatch'
  BY <1>1, <1>3, <1>7 DEF EarlierSent, VerdictHasProbe, StampIsCurrent, StampsMatch
<1> QED BY <1>5, <1>8, <1>9, <1>10, <1>11, <1>12, <1>13 DEF LineInv

\* real_tx_ts_us is stored: the packet leaves the line.
LEMMA StampTxKeeps ==
    ASSUME ProbeInv, StampTx
    PROVE  LineInv'
<1> USE DEF args, gateVars, endVars, history
<1> DEFINE h == Head(sender.batch)
<1>1. /\ TypeOK /\ tx \in [Ports -> TxState] /\ LineInv
      /\ InOrder /\ SentInOrder /\ WaitingProbes /\ TeardownPackets /\ TeardownFlags
      /\ Confirmed /\ EarlierSent /\ MarkedIsSent /\ FilingMatch
      /\ StampsMatch /\ StampIsCurrent /\ VerdictHasProbe
  BY DEF ProbeInv, LineInv, VerdictInv, CounterInv, TypeInv, TypeOK
<1>2. sender.batch # <<>> /\ sender.state = "marked"
  BY DEF StampTx, ProbeInv, VerdictInv, CounterInv, TypeInv, MarkedHasHead
<1>3. /\ h \in Tasks /\ h.port \in Ports
      /\ Len(Line) \in Nat /\ 1 \in 1 .. Len(Line) /\ Line[1] = h
      /\ ~ps[h.port].connection_established =>
           /\ h = Task(h.port, "probe", tx[h.port].generation)
           /\ ~ps[h.port].initial_send_deferred
      /\ h \in transmitted
  BY <1>1, <1>2, HeadOfLine DEF MarkedIsSent
<1>4. /\ UNCHANGED <<ps, packet_queue, stamps, transmitted, overtaken>>
      /\ tx' = [tx EXCEPT ![h.port].real_tx = TRUE]
      /\ sender'.state = "send" /\ sender'.batch = Tail(sender.batch)
      /\ sender'.filing \subseteq {h}
  BY <1>1 DEF StampTx, TypeOK
<1>5. MovesUp(1)
  <2>1. /\ 1 <= Len(sender.batch)
        /\ Tail(sender.batch) = SubSeq(sender.batch, 1 + 1, Len(sender.batch))
    BY <1>1, <1>2, HeadFacts
  <2> QED BY <1>1, <1>4, <2>1, LineLeaves
<1> HIDE DEF h
<1>6. \A q \in Ports : /\ tx'[q].generation = tx[q].generation
                       /\ tx'[q].tx_ts = tx[q].tx_ts
                       /\ tx'[q].probe_outstanding = tx[q].probe_outstanding
                       /\ q = h.port => tx'[q].real_tx
                       /\ q # h.port => tx'[q] = tx[q]
  <2> SUFFICES ASSUME NEW q \in Ports
               PROVE  /\ tx'[q].generation = tx[q].generation
                      /\ tx'[q].tx_ts = tx[q].tx_ts
                      /\ tx'[q].probe_outstanding = tx[q].probe_outstanding
                      /\ q = h.port => tx'[q].real_tx
                      /\ q # h.port => tx'[q] = tx[q]
    OBVIOUS
  <2>1. tx[q] \in TxState
    BY <1>1
  <2>2. CASE q = h.port
    <3>1. tx'[q] = [tx[q] EXCEPT !.real_tx = TRUE]
      BY <1>1, <1>3, <1>4, <2>2
    <3> QED BY <2>1, <2>2, <3>1 DEF TxState
  <2>3. CASE q # h.port
    BY <1>1, <1>3, <1>4, <2>3
  <2> QED BY <2>2, <2>3
<1>7. InOrder' /\ SentInOrder'
  BY <1>1, <1>4, <1>5, OrderMoves
\* The packet was ahead, in the line, of all that stays.
<1>8. ASSUME NEW i \in 1 .. Len(Line'), Line'[i] \in Tasks, Line'[i].port = h.port
      PROVE  Rank[h.kind] < Rank[Line'[i].kind]
  <2>1. i + 1 \in 1 .. Len(Line) /\ Line'[i] = Line[i + 1]
    BY <1>5, <1>8 DEF MovesUp
  <2>2. i \in Int /\ 1 <= i
    OBVIOUS
  <2>3. 1 < i + 1
    BY <2>2
  <2> QED BY <1>1, <1>3, <1>8, <2>1, <2>3 DEF InOrder
<1>9. WaitingProbes'
  <2>1. \A u \in Tasks : u.port \in Ports
    BY DEF Tasks
  <2>2. ASSUME NEW u \in Tasks, CurrentProbe(u), u.kind # "probe" \/ u.port # h.port
        PROVE  CurrentProbe(u)'
    BY <1>4, <1>6, <2>1, <2>2 DEF CurrentProbe
  <2>3. \A r \in {"probe", "ACK", "FINACK", "LASTACK"} : ~(Rank[r] < Rank["probe"])
    BY DEF Rank
  <2>4. ASSUME NEW i \in 1 .. Len(Line'), Line'[i] \in Tasks
        PROVE  /\ CurrentProbe(Line'[i])
               /\ Line'[i].kind # "probe" \/ Line'[i].port # h.port
    <3>1. CurrentProbe(Line'[i])
      BY <1>1, <1>5, <2>4 DEF WaitingProbes, MovesUp
    <3>2. h.kind \in {"probe", "ACK", "FINACK", "LASTACK"}
      BY <1>3 DEF Tasks
    <3> QED BY <1>8, <2>3, <2>4, <3>1, <3>2
  <2> QED BY <2>2, <2>4 DEF WaitingProbes
<1>10. TeardownPackets' /\ TeardownFlags'
  <2>1. \A i \in 1 .. Len(Line') : Line'[i] \in Tasks => TeardownBegun(Line'[i])
    BY <1>1, <1>5 DEF TeardownPackets, MovesUp
  <2> QED BY <1>1, <1>4, <2>1 DEF TeardownPackets, TeardownFlags, TeardownBegun
<1>11. Confirmed'
  <2> SUFFICES ASSUME NEW q \in Ports
               PROVE  (/\ (tx[q].real_tx \/ tx[q].probe_outstanding)
                              /\ ~ps[q].connection_established
                            => Task(q, "probe", tx[q].generation) \in transmitted
                       /\ ps[q].retry_send_deferred => tx[q].real_tx
                       /\ ps[q].initial_send_deferred =>
                            /\ ps[q].retry_count = 0
                            /\ ~ps[q].connection_established => ~tx[q].real_tx)'
    BY DEF Confirmed
  <2>1. CASE q = h.port
    BY <1>1, <1>3, <1>4, <1>6, <2>1 DEF Confirmed
  <2>2. CASE q # h.port
    BY <1>1, <1>4, <1>6, <2>2 DEF Confirmed
  <2> QED BY <2>1, <2>2
<1>12. EarlierSent' /\ VerdictHasProbe' /\ StampIsCurrent' /\ StampsMatch' /\ MarkedIsSent'
  BY <1>1, <1>4, <1>6
     DEF EarlierSent, VerdictHasProbe, StampIsCurrent, StampsMatch, MarkedIsSent
<1>13. FilingMatch'
  <2> SUFFICES ASSUME ~ps[h.port].connection_established
               PROVE  h.kind = "probe" /\ h.attempt = tx'[h.port].generation
    BY <1>4 DEF FilingMatch
  <2>1. h = Task(h.port, "probe", tx[h.port].generation)
    BY <1>3
  <2>2. h.kind = "probe" /\ h.attempt = tx[h.port].generation
    BY <2>1 DEF Task
  <2> QED BY <1>3, <1>6, <2>2
<1> QED BY <1>7, <1>9, <1>10, <1>11, <1>12, <1>13 DEF LineInv

\* port_generation is read, and filed with the attempt the packet is of.
LEMMA FileStampKeeps ==
    ASSUME ProbeInv, NEW t \in sender.filing, FileStamp(t)
    PROVE  LineInv'
<1> USE DEF args, gateVars, endVars, history
<1>1. /\ TypeOK
      /\ InOrder /\ SentInOrder /\ WaitingProbes /\ TeardownPackets /\ TeardownFlags
      /\ Confirmed /\ EarlierSent /\ MarkedIsSent /\ FilingMatch
      /\ StampsMatch /\ StampIsCurrent /\ VerdictHasProbe
  BY DEF ProbeInv, LineInv, VerdictInv, CounterInv, TypeInv
<1>2. /\ UNCHANGED <<ps, tx, packet_queue, transmitted, overtaken>>
      /\ stamps' = stamps \cup {[port |-> t.port, attempt |-> t.attempt,
                                 generation |-> tx[t.port].generation]}
      /\ sender'.state = sender.state /\ sender'.batch = sender.batch /\ sender'.filing = {}
  BY <1>1 DEF FileStamp, TypeOK
<1>3. Line' = Line
  BY <1>2 DEF Line
<1>4. /\ InOrder' /\ SentInOrder' /\ WaitingProbes' /\ TeardownPackets' /\ TeardownFlags'
      /\ Confirmed' /\ EarlierSent' /\ MarkedIsSent' /\ FilingMatch'
      /\ StampIsCurrent' /\ VerdictHasProbe'
  <2>1. InOrder' /\ SentInOrder'
    BY <1>1, <1>2, <1>3 DEF InOrder, SentInOrder, AtHead
  <2>2. WaitingProbes' /\ TeardownPackets' /\ TeardownFlags'
    BY <1>1, <1>2, <1>3
       DEF WaitingProbes, CurrentProbe, TeardownPackets, TeardownFlags, TeardownBegun
  <2>3. Confirmed' /\ EarlierSent' /\ StampIsCurrent' /\ VerdictHasProbe'
    BY <1>1, <1>2 DEF Confirmed, EarlierSent, StampIsCurrent, VerdictHasProbe
  <2>4. MarkedIsSent' /\ FilingMatch'
    BY <1>1, <1>2 DEF MarkedIsSent, FilingMatch
  <2> QED BY <2>1, <2>2, <2>3, <2>4
<1>5. StampsMatch'
  <2> SUFFICES ASSUME NEW st \in stamps', ~ps[st.port].connection_established
               PROVE  \/ st.attempt = st.generation
                      \/ /\ st.attempt = st.generation - 1
                         /\ Task(st.port, "probe", st.attempt) \in overtaken
    BY <1>2 DEF StampsMatch
  <2>1. CASE st \in stamps
    BY <1>1, <2>1 DEF StampsMatch
  <2>2. CASE st = [port |-> t.port, attempt |-> t.attempt,
                   generation |-> tx[t.port].generation]
    <3>1. /\ st.port = t.port /\ st.attempt = t.attempt
          /\ st.generation = tx[t.port].generation
      BY <2>2
    <3>2. t.kind = "probe" => t = Task(t.port, "probe", t.attempt)
      BY <1>1 DEF TypeOK, Tasks, Task
    <3> QED BY <1>1, <3>1, <3>2 DEF FilingMatch
  <2> QED BY <1>2, <2>1, <2>2
<1> QED BY <1>4, <1>5 DEF LineInv

-----------------------------------------------------------------------------
(***************************************************************************)
(* The end of the sender, and the induction.                               *)
(***************************************************************************)
LEMMA SenderDoneNext ==
    ASSUME TypeInv, SenderDone, [Next]_vars
    PROVE  SenderDone'
<1> USE DEF args, gateVars, senderVars, endVars, history
<1>1. /\ packet_queue \in Seq(Tasks \cup {poison_pill}) /\ Len(packet_queue) \in Nat
      /\ sender \in [state : {"wait", "send", "marked", "exited"}, batch : Seq(Tasks),
                     filing : SUBSET Tasks, shutdown_requested : BOOLEAN]
      /\ pc \in {"scan", "join", "done"}
  BY LenProperties DEF TypeInv, TypeOK
<1>2. ASSUME UNCHANGED <<packet_queue, sender, pc>> PROVE SenderDone'
  BY <1>2 DEF SenderDone
\* While the receiver is in its loop the sender has not seen the pill.
<1>3. ASSUME pc = "scan", sender' = sender, pc' # "done" PROVE SenderDone'
  BY <1>3 DEF SenderDone
<1>4. CASE \E p \in Ports, seg \in Segments, usable \in BOOLEAN : Reply(p, seg, usable)
  BY <1>3, <1>4 DEF Reply
<1>5. CASE \E p \in Ports, sport \in Attempts : IcmpProhibited(p, sport)
  BY <1>2, <1>5 DEF IcmpProhibited
<1>6. CASE \E st \in stamps : TxTimestamp(st)
  BY <1>2, <1>6 DEF TxTimestamp
<1>7. CASE \E p \in Ports : HeapStep(p)
  <2>1. pc = "scan" /\ sender' = sender /\ pc' = pc
    <3>1. ASSUME NEW p \in Ports, DropEntry(p) \/ InitialSend(p) \/ RetrySend(p)
          PROVE  pc = "scan" /\ sender' = sender /\ pc' = pc
      BY <3>1 DEF DropEntry, InitialSend, RetrySend, Due
    <3>2. ASSUME NEW p \in Ports, Park(p) \/ GiveUp(p)
          PROVE  pc = "scan" /\ sender' = sender /\ pc' = pc
      BY <3>2 DEF Park, GiveUp, MayRetry, RetryDecision, Due
    <3>3. ASSUME NEW p \in Ports, NEW cap \in MinRetries .. MaxRetries, ScheduleRetry(p, cap)
          PROVE  pc = "scan" /\ sender' = sender /\ pc' = pc
      BY <3>3 DEF ScheduleRetry, MayRetry, RetryDecision, Due
    <3> QED BY <1>7, <3>1, <3>2, <3>3 DEF HeapStep
  <2> QED BY <1>3, <2>1
<1>8. CASE Phase1Deadline \/ Sentinel \/ Terminate
  BY <1>2, <1>8 DEF Phase1Deadline, Sentinel, Terminate
<1>9. CASE LoopExit \/ IcmpFatal
  BY <1>3, <1>9 DEF LoopExit, IcmpFatal, Shutdown
<1>10. CASE Return
  BY <1>10 DEF Return, SenderDone
<1>11. ASSUME NEW k \in 1 .. Len(packet_queue), Dequeue(k) PROVE SenderDone'
  <2> DEFINE shut == is_poison(packet_queue[k])
             real == SubSeq(packet_queue, 1, IF shut THEN k - 1 ELSE k)
  <2>1. /\ sender' = [state |-> IF real # <<>> THEN "send"
                                ELSE IF shut THEN "exited" ELSE "wait",
                      batch |-> real, filing |-> {}, shutdown_requested |-> shut]
        /\ packet_queue' = SubSeq(packet_queue, k + 1, Len(packet_queue))
        /\ pc' = pc /\ sender.state = "wait"
    BY <1>11 DEF Dequeue
  <2>2. shut => k = Len(packet_queue) /\ pc # "scan"
    BY DEF TypeInv, PillIsLast
  <2>3. shut => packet_queue' = <<>>
    <3>1. Len(SubSeq(packet_queue, Len(packet_queue) + 1, Len(packet_queue)))
            = Len(packet_queue) - Len(packet_queue)
          /\ SubSeq(packet_queue, Len(packet_queue) + 1, Len(packet_queue))
               \in Seq(Tasks \cup {poison_pill})
      BY <1>1, PrefixType
    <3>2. SubSeq(packet_queue, Len(packet_queue) + 1, Len(packet_queue)) = <<>>
      BY <1>1, <3>1, EmptySeq
    <3> QED BY <2>1, <2>2, <3>2
  <2>4. pc # "done"
    BY <2>1 DEF SenderDone
  <2> HIDE DEF real, shut
  <2>5. /\ sender'.state \notin {"send", "marked"} => sender'.batch = <<>>
        /\ sender'.shutdown_requested \/ sender'.state = "exited" => shut
    BY <2>1
  <2> QED BY <2>1, <2>2, <2>3, <2>4, <2>5 DEF SenderDone
<1>12. CASE MarkOutstanding \/ StampTx \/ (\E t \in sender.filing : FileStamp(t)) \/ PacketDropped
  <2>1. UNCHANGED <<packet_queue, pc>>
    BY <1>12 DEF MarkOutstanding, StampTx, FileStamp, PacketDropped
  <2>2. /\ sender'.shutdown_requested = sender.shutdown_requested
        /\ \/ sender'.state \in {"send", "marked"} /\ sender.state \in {"send", "marked"}
           \/ sender'.state = sender.state /\ sender'.batch = sender.batch
    BY <1>1, <1>12 DEF MarkOutstanding, StampTx, FileStamp, PacketDropped, Sending
  <2> QED BY <2>1, <2>2 DEF SenderDone
<1>13. CASE BatchDone
  <2>1. /\ sender'.state = (IF sender.shutdown_requested THEN "exited" ELSE "wait")
        /\ sender'.batch = <<>> /\ sender'.shutdown_requested = FALSE
        /\ sender.state = "send" /\ UNCHANGED <<packet_queue, pc>>
    BY <1>13 DEF BatchDone, Sending
  <2> QED BY <2>1 DEF SenderDone
<1>14. CASE UNCHANGED vars
  BY <1>2, <1>14 DEF vars
<1>15. CASE SenderStep
  BY <1>11, <1>12, <1>13, <1>15 DEF SenderStep
<1> QED BY <1>4, <1>5, <1>6, <1>7, <1>8, <1>9, <1>10, <1>14, <1>15 DEF Next, Returned

LEMMA ProbeInit == Init => ProbeInv
<1> SUFFICES ASSUME Init PROVE LineInv /\ SenderDone
  BY VerdictInit DEF ProbeInv
<1>1. /\ packet_queue = <<>> /\ sender.batch = <<>> /\ transmitted = {} /\ stamps = {}
      /\ sender.state = "wait" /\ sender.shutdown_requested = FALSE /\ pc = "scan"
      /\ sender.filing = {}
  BY DEF Init
<1>2. Line = <<>> /\ \A i \in 1 .. Len(Line) : FALSE
  BY <1>1 DEF Line
<1>3. \A p \in Ports : /\ ps[p].reported = "None" /\ ps[p].initial_send_deferred
                       /\ ps[p].retry_count = 0 /\ ~ps[p].retry_send_deferred
                       /\ ~ps[p].fin_sent /\ ~ps[p].fin_ack_received
                       /\ ~tx[p].real_tx /\ ~tx[p].probe_outstanding /\ tx[p].tx_ts = NoStamp
  BY DEF Init
<1>4. EarlierSent
  BY <1>3, PortScanAssumption DEF EarlierSent, Attempts
<1>5. Confirmed /\ TeardownFlags /\ StampIsCurrent /\ VerdictHasProbe
  BY <1>3 DEF Confirmed, TeardownFlags, StampIsCurrent, VerdictHasProbe
<1>6. /\ InOrder /\ SentInOrder /\ WaitingProbes /\ TeardownPackets /\ StampsMatch
      /\ MarkedIsSent /\ FilingMatch
  BY <1>1, <1>2 DEF InOrder, SentInOrder, WaitingProbes, TeardownPackets, StampsMatch,
                    MarkedIsSent, FilingMatch
<1>7. SenderDone
  BY <1>1 DEF SenderDone
<1> QED BY <1>4, <1>5, <1>6, <1>7 DEF LineInv

LEMMA ProbeNext == ProbeInv /\ [Next]_vars => ProbeInv'
<1> SUFFICES ASSUME ProbeInv, [Next]_vars PROVE LineInv' /\ VerdictInv' /\ SenderDone'
  BY DEF ProbeInv
<1>1. VerdictInv'
  BY CountersNext, StepRefines DEF VerdictInv, ProbeInv
<1>2. TypeInv /\ TypeOK /\ TypeOK'
  BY <1>1 DEF ProbeInv, VerdictInv, CounterInv, TypeInv
<1>3. SenderDone'
  BY <1>2, SenderDoneNext DEF ProbeInv
<1>4. CASE UNCHANGED vars
  <2>1. MovesUp(0)
    BY <1>2, <1>4, LineUnchanged DEF vars
  <2>2. \A q \in Ports : Steady(q)
    BY <1>4 DEF vars, Steady
  <2>3. LineInv'
    BY <1>2, <1>4, <2>1, <2>2, SteadyStep DEF vars, history, ProbeInv
  <2> QED BY <1>1, <1>3, <2>3
<1>5. ASSUME NEW p \in Ports, HeapStep(p) PROVE LineInv'
  <2>1. CASE DropEntry(p) \/ Park(p) \/ GiveUp(p)
    BY <1>2, <2>1, QuietReceiver
  <2>2. CASE InitialSend(p)
    BY <1>2, <2>2, InitialSendKeeps
  <2>3. CASE RetrySend(p)
    BY <1>2, <2>3, RetrySendKeeps
  <2>4. CASE \E cap \in MinRetries .. MaxRetries : ScheduleRetry(p, cap)
    BY <2>4, ScheduleRetryKeeps
  <2> QED BY <1>5, <2>1, <2>2, <2>3, <2>4 DEF HeapStep
<1>6. CASE \E p \in Ports, seg \in Segments, usable \in BOOLEAN : Reply(p, seg, usable)
  BY <1>1, <1>2, <1>3, <1>6, ReplyKeeps
<1>7. CASE \E st \in stamps : TxTimestamp(st)
  BY <1>1, <1>3, <1>7, TimestampKeeps
<1>8. CASE \/ \E p \in Ports, sport \in Attempts : IcmpProhibited(p, sport)
           \/ Phase1Deadline \/ Sentinel \/ LoopExit \/ IcmpFatal \/ Return \/ Terminate
  BY <1>1, <1>2, <1>3, <1>8, QuietReceiver
<1>9. CASE SenderStep
  BY <1>1, <1>3, <1>9, QuietSender, MarkKeeps, StampTxKeeps, FileStampKeeps
     DEF SenderStep
<1> QED BY <1>1, <1>3, <1>4, <1>5, <1>6, <1>7, <1>8, <1>9 DEF Next, Returned

-----------------------------------------------------------------------------
(***************************************************************************)
(* What follows for the probes.                                            *)
(***************************************************************************)
\* No two elements: at most one.
LEMMA AtMostOne ==
    ASSUME NEW S, NEW n \in Nat, S \subseteq 1 .. n, \A x, y \in S : x = y
    PROVE  IsFiniteSet(S) /\ Cardinality(S) \in {0, 1} /\ (Cardinality(S) = 0 <=> S = {})
<1>1. IsFiniteSet(S)
  <2>1. IsFiniteSet(1 .. n)
    BY FS_Interval
  <2> QED BY <2>1, FS_Subset
<1>2. CASE S = {}
  BY <1>1, <1>2, FS_EmptySet
<1>3. CASE S # {}
  <2>1. PICK x \in S : TRUE
    BY <1>3
  <2>2. S = {x}
    BY <2>1
  <2> QED BY <1>1, <1>3, <2>2, FS_Singleton
<1> QED BY <1>2, <1>3

\* Where a probe of p that waits stands in the line.
LEMMA WaitingInLine ==
    ASSUME ProbeInv, NEW p \in Ports
    PROVE  /\ \A i \in Held(p) : /\ i \in 1 .. Len(sender.batch) /\ i \in 1 .. Len(Line)
                                 /\ Line[i] \in Tasks /\ Line[i].port = p
                                 /\ Line[i].kind = "probe"
           /\ \A i \in Unsent(p) : /\ i \in 1 .. Len(packet_queue)
                                   /\ Len(sender.batch) + i \in 1 .. Len(Line)
                                   /\ Line[Len(sender.batch) + i] \in Tasks
                                   /\ Line[Len(sender.batch) + i].port = p
                                   /\ Line[Len(sender.batch) + i].kind = "probe"
<1> DEFINE m == Len(sender.batch)
           n == Len(packet_queue)
<1>1. /\ m \in Nat /\ n \in Nat /\ Len(Line) = m + n
      /\ \A i \in 1 .. m + n : Line[i] = IF i <= m THEN sender.batch[i] ELSE packet_queue[i - m]
      /\ \A i \in 1 .. m : sender.batch[i] \in Tasks
      /\ \A i \in 1 .. n : packet_queue[i] \in Tasks \cup {poison_pill}
  <2>1. TypeOK
    BY DEF ProbeInv, VerdictInv, CounterInv, TypeInv
  <2>2. sender.batch \in Seq(Tasks) /\ packet_queue \in Seq(Tasks \cup {poison_pill})
    BY <2>1, LineType
  <2>3. /\ \A i \in 1 .. m : sender.batch[i] \in Tasks
        /\ \A i \in 1 .. n : packet_queue[i] \in Tasks \cup {poison_pill}
    BY <2>2, ElementOfSeq
  <2> QED BY <2>1, <2>3, LineType
<1>2. /\ \A i \in Held(p) : /\ i \in 1 .. m /\ sender.batch[i].port = p
                            /\ sender.batch[i].kind = "probe"
      /\ \A i \in Unsent(p) : /\ i \in 1 .. n /\ packet_queue[i] # poison_pill
                              /\ packet_queue[i].port = p /\ packet_queue[i].kind = "probe"
  BY DEF Held, Unsent, is_poison
<1> HIDE DEF m, n
<1>3. ASSUME NEW i \in Held(p)
      PROVE  i \in 1 .. m /\ i \in 1 .. m + n /\ Line[i] = sender.batch[i]
  BY <1>1, <1>2
<1>4. ASSUME NEW i \in Unsent(p)
      PROVE  i \in 1 .. n /\ m + i \in 1 .. m + n /\ Line[m + i] = packet_queue[i]
  <2>1. i \in 1 .. n /\ m + i \in 1 .. m + n /\ ~(m + i <= m) /\ (m + i) - m = i
    BY <1>1, <1>2
  <2> QED BY <1>1, <2>1
<1>5. ASSUME NEW i \in Held(p)
      PROVE  /\ i \in 1 .. Len(Line) /\ Line[i] \in Tasks
             /\ Line[i].port = p /\ Line[i].kind = "probe"
  <2>1. i \in 1 .. m /\ i \in 1 .. m + n /\ Line[i] = sender.batch[i]
    BY <1>3
  <2> QED BY <1>1, <1>2, <2>1
<1>6. ASSUME NEW i \in Unsent(p)
      PROVE  /\ m + i \in 1 .. Len(Line) /\ Line[m + i] \in Tasks
             /\ Line[m + i].port = p /\ Line[m + i].kind = "probe"
  BY <1>1, <1>2, <1>4
<1> QED BY <1>3, <1>4, <1>5, <1>6 DEF m, n

LEMMA ProbesWaiting == ProbeInv => OneProbeWaiting
<1> SUFFICES ASSUME ProbeInv, NEW p \in Ports
             PROVE  /\ Cardinality(Unsent(p)) + Cardinality(Held(p)) <= 1
                    /\ tx[p].real_tx => Unsent(p) = {} /\ Held(p) = {}
  BY DEF OneProbeWaiting
<1> DEFINE m == Len(sender.batch)
<1>1. m \in Nat /\ Len(packet_queue) \in Nat
  BY LineType DEF ProbeInv, VerdictInv, CounterInv, TypeInv
<1>2. InOrder /\ WaitingProbes
  BY DEF ProbeInv, LineInv
<1>3. \A i, j \in 1 .. Len(Line) :
        (/\ Line[i] \in Tasks /\ Line[i].port = p /\ Line[i].kind = "probe"
         /\ Line[j] \in Tasks /\ Line[j].port = p /\ Line[j].kind = "probe")
        => ~(i < j) /\ ~tx[p].real_tx
  <2> SUFFICES ASSUME NEW i \in 1 .. Len(Line), NEW j \in 1 .. Len(Line),
                      Line[i] \in Tasks, Line[i].port = p, Line[i].kind = "probe",
                      Line[j] \in Tasks, Line[j].port = p, Line[j].kind = "probe"
               PROVE  ~(i < j) /\ ~tx[p].real_tx
    OBVIOUS
  <2>1. ~(Rank["probe"] < Rank["probe"])
    BY DEF Rank
  <2>2. ~(i < j)
    BY <1>2, <2>1 DEF InOrder
  <2>3. CurrentProbe(Line[i])
    BY <1>2 DEF WaitingProbes
  <2> QED BY <2>2, <2>3 DEF CurrentProbe
<1>4. /\ \A i \in Held(p) : /\ i \in 1 .. m /\ i \in 1 .. Len(Line)
                            /\ Line[i] \in Tasks /\ Line[i].port = p
                            /\ Line[i].kind = "probe"
      /\ \A i \in Unsent(p) : /\ i \in 1 .. Len(packet_queue)
                              /\ m + i \in 1 .. Len(Line)
                              /\ Line[m + i] \in Tasks /\ Line[m + i].port = p
                              /\ Line[m + i].kind = "probe"
  BY WaitingInLine
<1> HIDE DEF m
<1>5. \A i, j \in Held(p) : i = j
  <2> SUFFICES ASSUME NEW i \in Held(p), NEW j \in Held(p) PROVE i = j
    OBVIOUS
  <2>1. i \in Int /\ j \in Int /\ ~(i < j) /\ ~(j < i)
    BY <1>3, <1>4
  <2> QED BY <2>1
<1>6. \A i, j \in Unsent(p) : i = j
  <2> SUFFICES ASSUME NEW i \in Unsent(p), NEW j \in Unsent(p) PROVE i = j
    OBVIOUS
  <2>1. i \in Int /\ j \in Int /\ ~(m + i < m + j) /\ ~(m + j < m + i)
    BY <1>3, <1>4
  <2> QED BY <1>1, <2>1
<1>7. Held(p) = {} \/ Unsent(p) = {}
  <2> SUFFICES ASSUME NEW i \in Held(p), NEW j \in Unsent(p) PROVE FALSE
    OBVIOUS
  <2>1. i < m + j
    BY <1>1, <1>4
  <2> QED BY <1>3, <1>4, <2>1
<1>8. /\ Cardinality(Held(p)) \in {0, 1} /\ (Held(p) = {} => Cardinality(Held(p)) = 0)
      /\ Cardinality(Unsent(p)) \in {0, 1} /\ (Unsent(p) = {} => Cardinality(Unsent(p)) = 0)
  <2>1. Held(p) \subseteq 1 .. m /\ Unsent(p) \subseteq 1 .. Len(packet_queue)
    BY <1>4
  <2> QED BY <1>1, <1>5, <1>6, <2>1, AtMostOne
<1>9. Cardinality(Unsent(p)) + Cardinality(Held(p)) <= 1
  BY <1>7, <1>8
<1>10. tx[p].real_tx => Unsent(p) = {} /\ Held(p) = {}
  BY <1>3, <1>4
<1> QED BY <1>9, <1>10

\* A slow sender is never fed retries: for any number of ports and any size of the ring
\* a port has at most one probe on its way to send_tcp_packets, and none once
\* real_tx_ts_us tells that the last one went out.
THEOREM ProbesPaced == Spec => []OneProbeWaiting
BY ProbeInit, ProbeNext, ProbesWaiting, PTL DEF Spec

\* Filtered is only said of a port that was listened to: every attempt before the last
\* one was transmitted, whatever number of retries is allowed.
THEOREM SilenceListenedFor == Spec => []EarlierAttemptsSent
<1>1. ProbeInv => EarlierAttemptsSent
  <2> SUFFICES ASSUME ProbeInv, NEW p \in Ports, NEW a \in 0 .. ps[p].retry_count - 1
               PROVE  Task(p, "probe", a) \in transmitted
    BY DEF EarlierAttemptsSent
  <2>1. ps[p].retry_count \in Attempts
    BY DEF ProbeInv, VerdictInv, CounterInv, TypeInv, TypeOK, PortState
  <2>2. a \in Attempts /\ a < ps[p].retry_count
    BY <2>1, PortScanAssumption DEF Attempts
  <2>3. EarlierSent
    BY DEF ProbeInv, LineInv
  <2> QED BY <2>2, <2>3 DEF EarlierSent
<1> QED BY <1>1, ProbeInit, ProbeNext, PTL DEF Spec

\* With tokens a verdict open or closed rests on a segment that came after the first
\* probe of the port went out, never on one of an earlier batch.
THEOREM VerdictsGrounded == Spec => []VerdictHasProbe
<1>1. ProbeInv => VerdictHasProbe
  BY DEF ProbeInv, LineInv
<1> QED BY <1>1, ProbeInit, ProbeNext, PTL DEF Spec

\* The transmission time an RTT sample is taken from belongs to the current attempt: a
\* kernel timestamp that comes late is recognised by its generation.  The one exception
\* is a packet whose port was given its next attempt between the store of real_tx_ts_us
\* and the reading of port_generation: its stamp is filed under the next attempt's
\* generation, and is then one attempt old, never more.
THEOREM StampsCurrent == Spec => []StampIsCurrent
<1>1. ProbeInv => StampIsCurrent
  BY DEF ProbeInv, LineInv
<1> QED BY <1>1, ProbeInit, ProbeNext, PTL DEF Spec

-----------------------------------------------------------------------------
(***************************************************************************)
(* What follows for the teardown.                                          *)
(***************************************************************************)
LEMMA WaitingIsInLine ==
    ASSUME TypeOK, NEW p \in Ports, NEW kind \in {"ACK", "FINACK", "LASTACK"},
           Waiting(p, kind)
    PROVE  \E i \in 1 .. Len(Line) :
             Line[i] \in Tasks /\ Line[i].port = p /\ Line[i].kind = kind
<1> DEFINE m == Len(sender.batch)
           n == Len(packet_queue)
<1>1. /\ m \in Nat /\ n \in Nat /\ Len(Line) = m + n
      /\ \A i \in 1 .. m + n : Line[i] = IF i <= m THEN sender.batch[i] ELSE packet_queue[i - m]
      /\ \A i \in 1 .. m : sender.batch[i] \in Tasks
      /\ \A i \in 1 .. n : packet_queue[i] \in Tasks \cup {poison_pill}
  <2>1. sender.batch \in Seq(Tasks) /\ packet_queue \in Seq(Tasks \cup {poison_pill})
    BY LineType
  <2>2. /\ \A i \in 1 .. m : sender.batch[i] \in Tasks
        /\ \A i \in 1 .. n : packet_queue[i] \in Tasks \cup {poison_pill}
    BY <2>1, ElementOfSeq
  <2> QED BY <2>2, LineType
<1>2. CASE \E i \in 1 .. n : packet_queue[i].kind = kind /\ packet_queue[i].port = p
  <2>1. PICK i \in 1 .. n : packet_queue[i].kind = kind /\ packet_queue[i].port = p
    BY <1>2
  <2>2. packet_queue[i] \in Tasks
    BY <1>1, <2>1 DEF poison_pill
  <2> HIDE DEF m, n
  <2>3. m + i \in 1 .. m + n /\ ~(m + i <= m) /\ (m + i) - m = i
    BY <1>1, <2>1
  <2>4. Line[m + i] = packet_queue[i] /\ m + i \in 1 .. Len(Line)
    BY <1>1, <2>3
  <2> QED BY <2>1, <2>2, <2>4
<1>3. CASE \E i \in 1 .. m : sender.batch[i].kind = kind /\ sender.batch[i].port = p
  <2>1. PICK i \in 1 .. m : sender.batch[i].kind = kind /\ sender.batch[i].port = p
    BY <1>3
  <2> HIDE DEF m, n
  <2>2. i \in 1 .. m + n /\ i <= m
    BY <1>1, <2>1
  <2>3. Line[i] = sender.batch[i] /\ i \in 1 .. Len(Line) /\ sender.batch[i] \in Tasks
    BY <1>1, <2>1, <2>2
  <2> QED BY <2>1, <2>3
<1> QED BY <1>2, <1>3 DEF Waiting

\* The handshake of a -G scan is torn down in order through the queue and the chunks of
\* the sender: the FIN|ACK never overtakes the ACK nor the last ACK either of them, and
\* the call does not return with a packet left behind unless it was interrupted.
THEOREM TeardownOrdered == Spec => []TeardownInOrder
<1>1. ProbeInv => TeardownInOrder
  <2> SUFFICES ASSUME ProbeInv, NEW p \in Ports, NEW a \in Attempts
               PROVE  /\ Task(p, "FINACK", a) \in transmitted => ~Waiting(p, "ACK")
                      /\ Task(p, "LASTACK", a) \in transmitted
                           => ~Waiting(p, "ACK") /\ ~Waiting(p, "FINACK")
                      /\ pc = "done" /\ ~terminate_flag
                           => packet_queue = <<>> /\ sender.batch = <<>>
    BY DEF TeardownInOrder
  <2>1. TypeOK /\ SentInOrder /\ SenderDone
    BY DEF ProbeInv, LineInv, VerdictInv, CounterInv, TypeInv
  <2>2. ASSUME NEW sent \in {"FINACK", "LASTACK"}, NEW kind \in {"ACK", "FINACK", "LASTACK"},
               Task(p, sent, a) \in transmitted, Waiting(p, kind), sent # kind
        PROVE  Rank[sent] < Rank[kind]
    <3>1. PICK i \in 1 .. Len(Line) :
            Line[i] \in Tasks /\ Line[i].port = p /\ Line[i].kind = kind
      BY <2>1, <2>2, WaitingIsInLine
    <3>2. Task(p, sent, a).kind = sent /\ Task(p, sent, a).port = p /\ sent # "probe"
      BY DEF Task
    <3>3. ~AtHead(Task(p, sent, a), i)
      <4> SUFFICES ASSUME AtHead(Task(p, sent, a), i) PROVE FALSE
        OBVIOUS
      <4>1. sender.batch # <<>> /\ LineInv /\ i = 1 /\ Task(p, sent, a) = Head(sender.batch)
        BY DEF AtHead, ProbeInv, VerdictInv, CounterInv, TypeInv, MarkedHasHead
      <4>2. Line[i] = Task(p, sent, a)
        BY <2>1, <4>1, HeadOfLine
      <4> QED BY <2>2, <3>1, <3>2, <4>2
    <3> QED BY <2>1, <2>2, <3>1, <3>2, <3>3 DEF SentInOrder
  <2>3. /\ ~(Rank["FINACK"] < Rank["ACK"])
        /\ ~(Rank["LASTACK"] < Rank["ACK"]) /\ ~(Rank["LASTACK"] < Rank["FINACK"])
    BY DEF Rank
  <2>4. pc = "done" => packet_queue = <<>> /\ sender.batch = <<>>
    BY <2>1 DEF SenderDone
  <2> QED BY <2>2, <2>3, <2>4
<1> QED BY <1>1, ProbeInit, ProbeNext, PTL DEF Spec
=============================================================================
