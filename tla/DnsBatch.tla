------------------------------ MODULE DnsBatch ------------------------------
(***************************************************************************)
(* The vectorised DNS engine: dns_query_batch() keeps up to Concurrency    *)
(* queries in flight on a pool of reused UDP sockets under one deadline,   *)
(* and batch_with_retry() runs it again for the jobs that got no answer.   *)
(***************************************************************************)
EXTENDS Integers, FiniteSets, Sequences

CONSTANTS
    NJobs,         \* number of queries
    Concurrency,   \* sockets (and queries in flight) at a time
    Families,      \* address family of each server, in the order of the list;
                   \* 0: a line of resolv.conf that is not an address ("fe80::1%eth0")
    TimeoutPolls,  \* timeout_ms in waits of 250 ms
    Retries        \* retries of batch_with_retry

Jobs == 1 .. NJobs
Answers == {"records", "nxdomain", "empty"}

VARIABLES
    dnsPc,         \* "launch", "poll", "tcp", "replace", "over"
    filling,       \* the first launches, before anything is polled
    queue,         \* the jobs of this pass
    nextJob,       \* next_job: position in queue
    inflight,      \* sequence of [job, sock]
    free,          \* free_sockets
    opened,        \* total_open
    rr,            \* server_rr
    wire,          \* queries a server may still answer: [job, sock]
    left,          \* waits left until batch_deadline
    finished,      \* done: positions of inflight to be replaced
    needsTcp,      \* needs_tcp: those with a truncated answer
    quiet,         \* poll() returned nothing
    polled,        \* pfds.size()
    answered,      \* jobs with out[idx].answered
    attempt,       \* passes of batch_with_retry so far
    interrupted    \* dns_enum_interrupted()

dnsVars == <<dnsPc, filling, queue, nextJob, inflight, free, opened, rr, wire, left,
             finished, needsTcp, quiet, polled, answered, attempt, interrupted>>

DnsInit ==
    /\ dnsPc = "launch" /\ filling = TRUE
    /\ queue = [i \in Jobs |-> i] /\ nextJob = 1
    /\ inflight = <<>> /\ free = {} /\ opened = 0 /\ rr = 0 /\ wire = {}
    /\ left = TimeoutPolls /\ finished = {} /\ needsTcp = {}
    /\ quiet = FALSE /\ polled = 0
    /\ answered = {} /\ attempt = 0 /\ interrupted = FALSE

----------------------------------------------------------------------------
\* launch_one: the next job goes to the next server, on a socket of its family.

Family == Families[(rr % Len(Families)) + 1]
Reusable == {s \in free : s[1] = Family}

\* Back to the loop that called launch_one.
Launched(ok) ==
    IF filling
      THEN IF ok /\ Len(inflight') < Concurrency /\ ~interrupted
             THEN UNCHANGED <<dnsPc, filling, left>>
             ELSE dnsPc' = "poll" /\ filling' = FALSE /\ left' = TimeoutPolls
      ELSE dnsPc' = "replace" /\ UNCHANGED <<filling, left>>

NextServer == rr' = (rr + 1) % Len(Families)

LaunchNothing ==
    /\ dnsPc = "launch" /\ nextJob > Len(queue)
    /\ UNCHANGED <<inflight, rr>> /\ Launched(FALSE)
    /\ UNCHANGED <<queue, nextJob, free, opened, wire, finished, needsTcp, quiet, polled,
                   answered, attempt, interrupted>>

\* No address to send to: the job gets nothing in this pass, the next is tried.
LaunchSkips ==
    /\ dnsPc = "launch" /\ nextJob <= Len(queue) /\ Family = 0
    /\ nextJob' = nextJob + 1 /\ NextServer
    /\ UNCHANGED <<dnsPc, filling, queue, inflight, free, opened, wire, left, finished,
                   needsTcp, quiet, polled, answered, attempt, interrupted>>

\* A socket of the pool, or a new one while the pool may grow.
SendOn(s) ==
    /\ \/ /\ inflight' = Append(inflight, [job |-> queue[nextJob], sock |-> s])
          /\ wire' = wire \cup {[job |-> queue[nextJob], sock |-> s]}
          /\ free' = free \ {s}
          /\ Launched(TRUE)
       \/ /\ free' = free \cup {s}           \* the send fails: on to the next job
          /\ UNCHANGED <<dnsPc, filling, left, inflight, wire>>
    /\ nextJob' = nextJob + 1 /\ NextServer
    /\ UNCHANGED <<queue, finished, needsTcp, quiet, polled, answered, attempt, interrupted>>

LaunchReuse ==
    /\ dnsPc = "launch" /\ nextJob <= Len(queue)
    /\ \E s \in Reusable : SendOn(s)
    /\ UNCHANGED opened

LaunchNew ==
    /\ dnsPc = "launch" /\ nextJob <= Len(queue)
    /\ Family # 0 /\ Reusable = {} /\ opened < Concurrency
    /\ opened' = opened + 1
    /\ SendOn(<<Family, opened + 1>>)

\* No socket: the pool is exhausted, or socket() fails.
LaunchLater ==
    /\ dnsPc = "launch" /\ nextJob <= Len(queue) /\ Family # 0 /\ Reusable = {}
    /\ NextServer /\ UNCHANGED inflight /\ Launched(FALSE)
    /\ UNCHANGED <<queue, nextJob, free, opened, wire, finished, needsTcp, quiet, polled,
                   answered, attempt, interrupted>>

----------------------------------------------------------------------------
Positions == 1 .. Len(inflight)

\* poll() reports sockets with a datagram: an answer to the query in flight
\* on it, or a late one to a query that used the socket before.  Either takes
\* the query out of flight.  After the deadline everything is.  An answer that
\* was cut short is asked for again over TCP first.
Poll ==
    /\ dnsPc = "poll" /\ inflight # <<>> /\ ~interrupted
    /\ \E ready \in SUBSET Positions :
       \E late \in SUBSET ready :
          LET own == ready \ late
          IN  /\ \A i \in own : inflight[i] \in wire
              /\ \A i \in late : \E w \in wire :
                    w.sock = inflight[i].sock /\ w.job # inflight[i].job
              /\ \E got \in [own -> Answers] :
                    /\ answered' = answered \cup
                          {inflight[i].job : i \in {k \in own : got[k] # "empty"}}
                    /\ needsTcp' \in SUBSET {k \in own : got[k] = "records"}
              /\ wire' = wire \ ({inflight[i] : i \in own} \cup
                                 {w \in wire : \E i \in late :
                                     w.sock = inflight[i].sock /\ w.job # inflight[i].job})
              /\ quiet' = (ready = {})
              /\ left' \in IF ready = {} THEN {IF left > 0 THEN left - 1 ELSE 0}
                                         ELSE {left, IF left > 0 THEN left - 1 ELSE 0}
              /\ finished' = IF left' = 0 /\ needsTcp' = {} THEN Positions ELSE ready
    /\ polled' = Len(inflight)
    /\ dnsPc' = IF needsTcp' = {} THEN "replace" ELSE "tcp"
    /\ UNCHANGED <<filling, queue, nextJob, inflight, free, opened, rr, attempt,
                   interrupted>>

\* One after the other, in this thread: connect() and the two receives have no
\* timeout and look at no interrupt, so the step may take for ever.  What comes
\* back replaces the records; then the deadline is looked at.
TopUp ==
    /\ dnsPc = "tcp"
    /\ LET i == CHOOSE k \in needsTcp : \A m \in needsTcp : k <= m
       IN  needsTcp' = needsTcp \ {i}
    /\ left' \in 0 .. left
    /\ IF needsTcp' = {}
         THEN /\ dnsPc' = "replace"
              /\ finished' = IF left' = 0 THEN Positions ELSE finished
         ELSE UNCHANGED <<dnsPc, finished>>
    /\ UNCHANGED <<filling, queue, nextJob, inflight, free, opened, rr, wire, quiet, polled,
                   answered, attempt, interrupted>>

Without(s, i) == SubSeq(s, 1, i - 1) \o SubSeq(s, i + 1, Len(s))

\* Fault: the socket of a finished query is not returned to the pool.
ReplaceLosesSocket ==
    /\ dnsPc = "replace" /\ finished # {}
    /\ LET i == CHOOSE k \in finished : \A m \in finished : m <= k
       IN  /\ inflight' = Without(inflight, i)
           /\ finished' = finished \ {i}
    /\ dnsPc' = "launch"
    /\ UNCHANGED <<filling, queue, nextJob, free, opened, rr, wire, left, needsTcp, quiet,
                   polled, answered, attempt, interrupted>>

\* From the last position to the first: the socket is released, the query
\* erased, and another one launched.
Replace ==
    /\ dnsPc = "replace" /\ finished # {}
    /\ LET i == CHOOSE k \in finished : \A m \in finished : m <= k
       IN  /\ free' = free \cup {inflight[i].sock}
           /\ inflight' = Without(inflight, i)
           /\ finished' = finished \ {i}
    /\ dnsPc' = "launch"
    /\ UNCHANGED <<filling, queue, nextJob, opened, rr, wire, left, needsTcp, quiet,
                   polled, answered, attempt, interrupted>>

\* While jobs wait to be sent, a quiet wait gives the whole batch a new deadline.
Extend ==
    /\ dnsPc = "replace" /\ finished = {}
    /\ left' = IF quiet /\ Len(inflight) = polled /\ nextJob <= Len(queue)
                 THEN TimeoutPolls ELSE left
    /\ dnsPc' = "poll"
    /\ UNCHANGED <<filling, queue, nextJob, inflight, free, opened, rr, wire, finished,
                   needsTcp, quiet, polled, answered, attempt, interrupted>>

Interrupt ==
    /\ ~interrupted /\ dnsPc # "over"
    /\ interrupted' = TRUE
    /\ UNCHANGED <<dnsPc, filling, queue, nextJob, inflight, free, opened, rr, wire, left,
                   finished, needsTcp, quiet, polled, answered, attempt>>

\* leftover: the loop over the jobs of the pass, up to each of them.
Unanswered ==
    LET leftover[i \in 0 .. Len(queue)] ==
          IF i = 0 THEN <<>>
          ELSE IF queue[i] \in answered THEN leftover[i - 1]
          ELSE Append(leftover[i - 1], queue[i])
    IN  leftover[Len(queue)]

\* The pass is over and its sockets are closed; jobs without an answer get
\* another pass while there are retries.
PassOver ==
    /\ dnsPc = "poll" /\ (inflight = <<>> \/ interrupted)
    /\ IF attempt < Retries /\ Unanswered # <<>> /\ ~interrupted
         THEN /\ attempt' = attempt + 1
              /\ queue' = Unanswered /\ nextJob' = 1
              /\ dnsPc' = "launch" /\ filling' = TRUE
         ELSE /\ dnsPc' = "over"
              /\ UNCHANGED <<attempt, queue, nextJob, filling>>
    /\ inflight' = <<>> /\ free' = {} /\ wire' = {}
    /\ opened' = IF dnsPc' = "over" THEN opened - Cardinality(free) - Len(inflight) ELSE 0
    /\ rr' = 0
    /\ UNCHANGED <<left, finished, needsTcp, quiet, polled, answered, interrupted>>

DnsStep == \/ LaunchNothing \/ LaunchSkips \/ LaunchReuse \/ LaunchNew \/ LaunchLater
           \/ Poll \/ Replace \/ Extend \/ PassOver

DnsNext == DnsStep \/ TopUp \/ Interrupt

DnsOver == dnsPc = "over"

DnsSpec == DnsInit /\ [][DnsNext]_dnsVars /\ WF_dnsVars(DnsStep)

----------------------------------------------------------------------------
\* The pool counts its sockets: each one is free or carries one query, never
\* two, so that an answer can only be taken for the query that went out on
\* its socket; and none is left open when the pass is over.
PoolExact ==
    /\ dnsPc # "over" => opened = Cardinality(free) + Len(inflight)
    /\ dnsPc = "over" => opened = 0
    /\ \A i, k \in Positions : i # k =>
          inflight[i].sock # inflight[k].sock /\ inflight[i].job # inflight[k].job
    /\ \A i \in Positions : inflight[i].sock \notin free

\* When the engine stops by itself, every query has been sent (or its send
\* failed); queries remain only if the pool could not get a socket.
EveryJobSent ==
    dnsPc = "poll" /\ inflight = <<>> /\ opened = Concurrency => nextJob > Len(queue)

\* A batch ends, whether its queries are answered or not; only the TCP
\* connection of a truncated answer has no deadline at all.
BatchEnds == <>(dnsPc = "over") \/ <>[](dnsPc = "tcp")
=============================================================================
