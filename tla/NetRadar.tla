------------------------------ MODULE NetRadar ------------------------------
(***************************************************************************)
(* Passive capture (netradar): the Capture class correlates the first      *)
(* packets of connections with their answers, expires what stays without,  *)
(* suppresses repeated findings, and run_netradar() then resolves the      *)
(* names of the responders in one batch over the PTR cache: in waves of    *)
(* UDP queries, or address by address in a pool of threads over TLS.       *)
(***************************************************************************)
EXTENDS Integers, FiniteSets

CONSTANTS
    Flows,          \* connections: initiator, responder and their ports
    PendingTicks,   \* pending_timeout_ms
    DedupTicks,     \* dedup_window_ms
    MaxPackets,     \* bound on the packets captured
    MaxTicks        \* bound on the time of a capture

Protos == {"tcp", "quic", "dns"}
Keys == Protos \X Flows
Findings == [proto : Protos, flow : Flows, open : BOOLEAN]
NoEntry == [seq |-> -1, age |-> 0]
Old == (IF PendingTicks > 2 * DedupTicks THEN PendingTicks ELSE 2 * DedupTicks) + 1

VARIABLES
    radarPc,      \* "capture", "resolve", "done"
    packets, ticks,
    waiting,      \* pending_, pending_quic_, pending_dns_: <<proto, flow>> -> entry
    tracked, matched, expired,      \* what stats_ counts, by protocol
    reported,     \* reported_: finding -> age of last_reported, or -1
    rows,         \* the findings the callback has received
    terminate,    \* terminate_flag
    wasInterrupted,
    missing,      \* still_missing: flows whose responder has no name yet
    ptrCache,     \* g_ptr_cache: flow -> "unknown", "name", "noname"
    ptrPass,
    overTls,      \* there is no plain server to ask, TLS servers or none at all
    outcome       \* history: what the last look-up of a flow's responder came to,
                  \* "none", "name", "denied", "lost"

counts == <<tracked, matched, expired>>
capture == <<packets, ticks, waiting, counts, reported, rows>>
lookup == <<missing, ptrCache, ptrPass, overTls, outcome>>
radarVars == <<radarPc, capture, terminate, wasInterrupted, lookup>>

RadarInit ==
    /\ radarPc = "capture" /\ packets = 0 /\ ticks = 0
    /\ waiting = [k \in Keys |-> NoEntry]
    /\ tracked = [p \in Protos |-> 0] /\ matched = tracked /\ expired = tracked
    /\ reported = [f \in Findings |-> -1] /\ rows = {}
    /\ terminate = FALSE /\ wasInterrupted = FALSE
    /\ missing = {} /\ ptrCache = [f \in Flows |-> "unknown"]
    /\ ptrPass = 0 /\ overTls \in BOOLEAN /\ outcome = [f \in Flows |-> "none"]

----------------------------------------------------------------------------
Receive ==
    /\ radarPc = "capture" /\ ~terminate /\ packets < MaxPackets
    /\ packets' = packets + 1
    /\ UNCHANGED <<radarPc, ticks, expired, terminate, wasInterrupted, lookup>>

\* dedupe_and_mark: the same finding within the window is not passed on, and
\* each time it is seen the window starts anew.
Report(f) ==
    /\ reported' = [reported EXCEPT ![f] = 0]
    /\ rows' = IF reported[f] \in 0 .. DedupTicks THEN rows ELSE rows \cup {f}

\* SYN, QUIC Initial or DNS query: tracked, or its time renewed.
FirstPacket ==
    /\ Receive
    /\ \E k \in Keys, s \in {0, 1} :
          /\ k[1] # "tcp" => s = 0
          /\ waiting' = [waiting EXCEPT ![k] = [seq |-> s, age |-> 0]]
          /\ tracked' = IF waiting[k] = NoEntry THEN [tracked EXCEPT ![k[1]] = @ + 1]
                                                ELSE tracked
    /\ UNCHANGED <<matched, reported, rows>>

\* Fault: the entry that was matched stays in the list.
AnswerKeeps ==
    /\ Receive
    /\ \E k \in Keys, s \in {0, 1}, open \in BOOLEAN :
          /\ waiting[k] # NoEntry
          /\ k[1] # "tcp" => open
          /\ open => s = waiting[k].seq
          /\ matched' = [matched EXCEPT ![k[1]] = @ + 1]
          /\ Report([proto |-> k[1], flow |-> k[2], open |-> open])
    /\ UNCHANGED <<tracked, waiting>>

\* SYN-ACK of the sequence number tracked, RST, or the answer to a QUIC or
\* DNS packet.
Answer ==
    /\ Receive
    /\ \E k \in Keys, s \in {0, 1}, open \in BOOLEAN :
          /\ waiting[k] # NoEntry
          /\ k[1] # "tcp" => open
          /\ open => s = waiting[k].seq
          /\ waiting' = [waiting EXCEPT ![k] = NoEntry]
          /\ matched' = [matched EXCEPT ![k[1]] = @ + 1]
          /\ Report([proto |-> k[1], flow |-> k[2], open |-> open])
    /\ UNCHANGED tracked

\* A segment in the middle of a connection shows the port open.
Established ==
    /\ Receive
    /\ \E f \in Flows : Report([proto |-> "tcp", flow |-> f, open |-> TRUE])
    /\ UNCHANGED <<waiting, tracked, matched>>

\* Anything else: not IP, too short, an answer nobody asked for.
OtherPacket ==
    /\ Receive
    /\ UNCHANGED <<waiting, tracked, matched, reported, rows>>

Older(a) == IF a = Old THEN Old ELSE a + 1

Tick ==
    /\ radarPc = "capture" /\ ticks < MaxTicks
    /\ ticks' = ticks + 1
    /\ waiting' = [k \in Keys |-> IF waiting[k] = NoEntry THEN NoEntry
                                    ELSE [waiting[k] EXCEPT !.age = Older(@)]]
    /\ reported' = [f \in Findings |-> IF reported[f] = -1 THEN -1 ELSE Older(reported[f])]
    /\ UNCHANGED <<radarPc, packets, counts, rows, terminate, wasInterrupted, lookup>>

\* sweep_expired.
Sweep ==
    /\ radarPc = "capture"
    /\ LET late == {k \in Keys : waiting[k] # NoEntry /\ waiting[k].age > PendingTicks}
       IN  /\ waiting' = [k \in Keys |-> IF k \in late THEN NoEntry ELSE waiting[k]]
           /\ expired' = [p \in Protos |->
                            expired[p] + Cardinality({k \in late : k[1] = p})]
    /\ reported' = [f \in Findings |->
                      IF reported[f] > 2 * DedupTicks THEN -1 ELSE reported[f]]
    /\ UNCHANGED <<radarPc, packets, ticks, tracked, matched, rows, terminate,
                   wasInterrupted, lookup>>

CtrlC ==
    /\ radarPc # "done" /\ ~terminate
    /\ terminate' = TRUE
    /\ UNCHANGED <<radarPc, capture, wasInterrupted, lookup>>

\* The capture is over (duration or Ctrl-C); the flag is cleared so that the
\* resolver runs, and kept to be restored.  Cached names need no query.
StartResolve ==
    /\ radarPc = "capture"
    /\ terminate \/ ticks = MaxTicks
    /\ wasInterrupted' = terminate /\ terminate' = FALSE
    /\ missing' = {f \in Flows : (\E r \in rows : r.flow = f) /\ ptrCache[f] = "unknown"}
    /\ radarPc' = "resolve"
    /\ UNCHANGED <<capture, ptrCache, ptrPass, overTls, outcome>>

\* What a look-up came to, and what the cache says of it.
Outcomes == {"name", "denied", "lost"}
Cached(o) == IF o = "name" THEN "name" ELSE "noname"

\* Fault: a query that was lost is remembered as "no name".
PtrPassCachesAll ==
    /\ radarPc = "resolve" /\ ~overTls /\ ptrPass < 2 /\ missing # {} /\ ~terminate
    /\ \E reply \in [missing -> Outcomes] :
          /\ ptrCache' = [f \in Flows |->
                IF f \in missing THEN Cached(reply[f]) ELSE ptrCache[f]]
          /\ missing' = {}
          /\ outcome' = [f \in Flows |-> IF f \in missing THEN reply[f] ELSE outcome[f]]
    /\ ptrPass' = ptrPass + 1
    /\ UNCHANGED <<radarPc, capture, terminate, wasInterrupted, overTls>>

\* One batch of PTR queries: names and definitive denials are cached, what was
\* lost is asked once more.  The step may never come: a wave may not return.
PtrPass ==
    /\ radarPc = "resolve" /\ ~overTls /\ ptrPass < 2 /\ missing # {} /\ ~terminate
    /\ \E reply \in [missing -> Outcomes] :
          /\ ptrCache' = [f \in Flows |->
                IF f \in missing /\ reply[f] # "lost" THEN Cached(reply[f]) ELSE ptrCache[f]]
          /\ missing' = {f \in missing : reply[f] = "lost"}
          /\ outcome' = [f \in Flows |-> IF f \in missing THEN reply[f] ELSE outcome[f]]
    /\ ptrPass' = ptrPass + 1
    /\ UNCHANGED <<radarPc, capture, terminate, wasInterrupted, overTls>>

\* A thread of the pool takes an address and asks the TLS servers in turn, two
\* seconds each, whatever the flag says; a look-up that failed is cached like a
\* denial, and no address is asked twice.
PtrOverTls ==
    /\ radarPc = "resolve" /\ overTls
    /\ \E f \in missing, o \in Outcomes :
          /\ ptrCache' = [ptrCache EXCEPT ![f] = Cached(o)]
          /\ outcome' = [outcome EXCEPT ![f] = o]
          /\ missing' = missing \ {f}
    /\ UNCHANGED <<radarPc, capture, terminate, wasInterrupted, ptrPass, overTls>>

\* The thread inside a wave: the flag ends it, but for a TCP connection in it.
InWave == radarPc = "resolve" /\ ~overTls /\ ptrPass < 2 /\ missing # {}

\* The flag is restored and the table printed.
RadarEnds ==
    /\ radarPc = "resolve"
    /\ missing = {} \/ (~overTls /\ (ptrPass = 2 \/ terminate))
    /\ terminate' = wasInterrupted
    /\ radarPc' = "done"
    /\ UNCHANGED <<capture, wasInterrupted, lookup>>

RadarNext == \/ FirstPacket \/ Answer \/ Established \/ OtherPacket \/ Tick \/ Sweep
             \/ CtrlC \/ StartResolve \/ PtrPass \/ PtrOverTls \/ RadarEnds

RadarOver == radarPc = "done"

----------------------------------------------------------------------------
\* Every connection that was tracked is accounted for once: answered, expired
\* or still waiting, however packets, repetitions and sweeps interleave.
RadarAccounts ==
    \A p \in Protos :
        tracked[p] = matched[p] + expired[p] +
                     Cardinality({k \in Keys : k[1] = p /\ waiting[k] # NoEntry})

\* The cache says "no name" only of an address some server has denied one, and
\* a name only of one that has it.  An address whose UDP queries were all lost is
\* left unknown, to be asked again; only a look-up that failed over TLS is taken
\* for a denial.
PtrCacheDefinitive ==
    \A f \in Flows :
        /\ ptrCache[f] = "name" <=> outcome[f] = "name"
        /\ outcome[f] = "denied" => ptrCache[f] = "noname"
        /\ outcome[f] = "lost" => ptrCache[f] = IF overTls THEN "noname" ELSE "unknown"
        /\ outcome[f] = "none" => ptrCache[f] = "unknown"
=============================================================================
