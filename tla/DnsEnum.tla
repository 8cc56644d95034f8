------------------------------ MODULE DnsEnum ------------------------------
(***************************************************************************)
(* run_dns_enum() and its second stage: the waves of active queries, the   *)
(* passive web sources fetched side by side, the look-up of the names they *)
(* gave, and the sources of the second stage.  An interrupt skips the waves *)
(* that have not begun.  A wave of queries (DnsBatch) is one step here:    *)
(* each query of it is answered or lost, and the step may never come, as   *)
(* the wave may never return (DnsBatch!BatchEnds).                         *)
(***************************************************************************)
EXTENDS Integers, FiniteSets, Sequences

CONSTANTS
    HostNames,      \* names of the domain
    Sources,        \* passive web sources of the first stage
    WebConcurrency  \* opts.passive_concurrency

\* What a name of the domain is: not there, with an address of its own, or an
\* alias (the answer to a query for an address it lacks is the alias alone).
Kinds == {"dead", "plain", "alias"}

VARIABLES
    dePc,
    kindOf,         \* the zone: what each name is
    hosts,          \* result.hosts
    addrs,          \* those with an address
    wildcard,       \* wildcard_dns
    toFetch, fetching, arrived,   \* parallel_http_get: not begun, running, done
    reportedOn,     \* sources with a status
    stage2Names,    \* Stage2SubdomainResult::hostnames
    dropped,        \* names erased as dead
    deStop          \* dns_enum_interrupted()

enumVars == <<dePc, kindOf, hosts, addrs, wildcard, toFetch, fetching,
              arrived, reportedOn, stage2Names, dropped, deStop>>

EnumInit ==
    /\ kindOf \in [HostNames -> Kinds]
    /\ dePc = "apex"
    /\ hosts = {} /\ addrs = {} /\ wildcard = FALSE
    /\ toFetch = Sources /\ fetching = {} /\ arrived = {} /\ reportedOn = {}
    /\ stage2Names = {} /\ dropped = {} /\ deStop = FALSE

web == <<toFetch, fetching, arrived, reportedOn>>

----------------------------------------------------------------------------
\* A wave of A and AAAA queries for S: those that got an address, and those
\* that got an answer at all.  NXDOMAIN is an answer, an empty one is not.
Wave(S) ==
    {w \in [found : SUBSET S, answered : SUBSET S] :
        /\ w.found \subseteq w.answered
        /\ \A h \in w.found : kindOf[h] # "dead"
        /\ \A h \in S : kindOf[h] = "plain" => (h \in w.answered <=> h \in w.found)}

\* Names that a wave found, if it returns, become hosts, with their address.
AddFound(S) ==
    \E w \in Wave(S) : hosts' = hosts \cup w.found /\ addrs' = addrs \cup w.found

Skip == UNCHANGED <<hosts, addrs>>

----------------------------------------------------------------------------
\* Records of the domain itself, and the name that should not exist.
Apex ==
    /\ dePc = "apex"
    /\ wildcard' \in BOOLEAN /\ dePc' = "axfr"
    /\ UNCHANGED <<kindOf, hosts, addrs, web, stage2Names, dropped, deStop>>

\* What try_axfr brings: names of the zone, with or without an address, as far
\* as the connection lasts; none when the server refuses.
Transfers ==
    {t \in [names : SUBSET HostNames, found : SUBSET HostNames] :
        /\ t.found \subseteq t.names
        /\ \A h \in t.names : kindOf[h] # "dead"}

\* A wave for the addresses of the name servers, then a transfer from each.
ZoneTransfer ==
    /\ dePc = "axfr" /\ dePc' = "brute"
    /\ IF deStop THEN Skip
       ELSE \E t \in Transfers : hosts' = hosts \cup t.names /\ addrs' = addrs \cup t.found
    /\ UNCHANGED <<kindOf, wildcard, web, stage2Names, dropped, deStop>>

BruteForce ==
    /\ dePc = "brute" /\ dePc' = "collect"
    /\ IF deStop \/ wildcard THEN Skip ELSE AddFound(HostNames)
    /\ UNCHANGED <<kindOf, wildcard, web, stage2Names, dropped, deStop>>

\* E-mail, DNSSEC, SRV, TLSA, SSHFP and the NSEC walk: no host comes of them.
Collect ==
    /\ dePc = "collect" /\ dePc' = "passive" /\ Skip
    /\ UNCHANGED <<kindOf, wildcard, web, stage2Names, dropped, deStop>>

----------------------------------------------------------------------------
\* parallel_http_get: the first requests are added, the others as they end.

BeginFetch ==
    /\ dePc = "passive"
    /\ IF ~deStop
         THEN \E S \in SUBSET toFetch :
                /\ Cardinality(S) = WebConcurrency \/ (S = toFetch /\ Cardinality(S) < WebConcurrency)
                /\ fetching' = S /\ toFetch' = toFetch \ S /\ dePc' = "fetch"
         ELSE dePc' = "resolve" /\ UNCHANGED <<toFetch, fetching>>
    /\ Skip
    /\ UNCHANGED <<kindOf, wildcard, arrived, reportedOn, stage2Names, dropped, deStop>>

\* Fault: a request that ends does not make room for the next one.
FetchEndsAlone ==
    /\ dePc = "fetch" /\ ~deStop
    /\ \E s \in fetching :
          /\ arrived' = arrived \cup {s}
          /\ fetching' = fetching \ {s} /\ UNCHANGED toFetch
    /\ Skip
    /\ UNCHANGED <<dePc, kindOf, wildcard, reportedOn, stage2Names, dropped, deStop>>

FetchEnds ==
    /\ dePc = "fetch" /\ ~deStop
    /\ \E s \in fetching :
          /\ arrived' = arrived \cup {s}
          /\ IF toFetch = {} THEN fetching' = fetching \ {s} /\ UNCHANGED toFetch
             ELSE \E n \in toFetch : /\ fetching' = (fetching \ {s}) \cup {n}
                                     /\ toFetch' = toFetch \ {n}
    /\ Skip
    /\ UNCHANGED <<dePc, kindOf, wildcard, reportedOn, stage2Names, dropped, deStop>>

\* Fault: an interrupted loop waits for requests that nobody drives any more.
ParseWaitsForAll ==
    /\ dePc = "fetch" /\ fetching = {}
    /\ reportedOn' = Sources
    /\ \E S \in SUBSET HostNames : \E A \in SUBSET {h \in S : kindOf[h] # "dead"} :
          /\ arrived = {} => S = {}
          /\ hosts' = hosts \cup S /\ addrs' = addrs \cup A
    /\ fetching' = {} /\ dePc' = "resolve"
    /\ UNCHANGED <<kindOf, wildcard, toFetch, arrived, stage2Names, dropped, deStop>>

\* Every source gets a status; the ones with a body give names, some with an
\* address from their own records; the rest of the handles are cleaned up.
\* Then the AS look-ups and the dorks, which may give names too.
ParseSources ==
    /\ dePc = "fetch" /\ (fetching = {} \/ deStop)
    /\ reportedOn' = Sources
    /\ \E S \in SUBSET HostNames : \E A \in SUBSET {h \in S : kindOf[h] # "dead"} :
          /\ arrived = {} => S = {}
          /\ hosts' = hosts \cup S /\ addrs' = addrs \cup A
    /\ fetching' = {} /\ dePc' = "resolve"
    /\ UNCHANGED <<kindOf, wildcard, toFetch, arrived, stage2Names, dropped, deStop>>

----------------------------------------------------------------------------
\* Fault: names without an address are dropped, answered or not.
LookUpDropsSilent(S) ==
    \E w \in Wave(S) :
       /\ addrs' = addrs \cup w.found
       /\ hosts' = hosts \ (S \ w.found) /\ dropped' = dropped \cup (S \ w.found)

\* If the wave returns, names that were answered for and have no address are
\* dropped as dead.
LookUp(S) ==
    \E w \in Wave(S) :
       /\ addrs' = addrs \cup w.found
       /\ hosts' = hosts \ (w.answered \ (w.found \cup addrs))
       /\ dropped' = dropped \cup (w.answered \ (w.found \cup addrs))

ResolvePassive ==
    /\ dePc = "resolve" /\ dePc' = "mutate"
    /\ IF ~deStop THEN LookUp(hosts \ addrs)
       ELSE Skip /\ UNCHANGED dropped
    /\ UNCHANGED <<kindOf, wildcard, web, stage2Names, deStop>>

\* Mutations of the names known; then takeovers and the PTR sweep, which only report.
Mutate ==
    /\ dePc = "mutate" /\ dePc' = "stage2"
    /\ IF ~deStop /\ ~wildcard /\ hosts # {} THEN AddFound(HostNames \ hosts)
       ELSE Skip
    /\ UNCHANGED <<kindOf, wildcard, web, stage2Names, dropped, deStop>>

\* run_stage2_subdomain_enum: its sources one by one, their names merged
\* into the hosts at once.
Stage2Fetch ==
    /\ dePc = "stage2" /\ dePc' = "stage2dns"
    /\ IF deStop THEN UNCHANGED <<hosts, stage2Names>>
       ELSE \E S \in SUBSET HostNames : stage2Names' = S /\ hosts' = hosts \cup S
    /\ UNCHANGED <<kindOf, addrs, wildcard, web, dropped, deStop>>

\* The look-up of its names, and the same dropping of the dead.
Stage2Resolve ==
    /\ dePc = "stage2dns" /\ dePc' = "report"
    /\ IF deStop THEN Skip /\ UNCHANGED dropped ELSE LookUp(stage2Names)
    /\ UNCHANGED <<kindOf, wildcard, web, stage2Names, deStop>>

\* Printed, and saved if asked for, also after an interrupt.
Report ==
    /\ dePc = "report" /\ dePc' = "done" /\ Skip
    /\ UNCHANGED <<kindOf, wildcard, web, stage2Names, dropped, deStop>>

InterruptEnum ==
    /\ ~deStop /\ dePc # "done"
    /\ deStop' = TRUE
    /\ Skip /\ UNCHANGED <<dePc, kindOf, wildcard, web, stage2Names, dropped>>

\* The steps that are waves of queries, and the thread inside one (or on the
\* way to one): an interrupt ends a wave, but for a TCP connection in it.
EnumWave == \/ Apex \/ ZoneTransfer \/ BruteForce \/ Collect \/ ResolvePassive \/ Mutate
            \/ Stage2Resolve
InWave == dePc \in {"apex", "axfr", "brute", "collect", "resolve", "mutate", "stage2dns"}
EnumStep == BeginFetch \/ FetchEnds \/ ParseSources \/ Stage2Fetch \/ Report
EnumNext == EnumWave \/ EnumStep \/ InterruptEnum
EnumOver == dePc = "done"

----------------------------------------------------------------------------
\* A name with an address of its own is never dropped because a reply was
\* lost, no look-up drops a name another source gave an address to, and every passive
\* source that was to be asked is asked and has a status, unless interrupted.
EnumSound ==
    /\ addrs \subseteq hosts
    /\ \A h \in dropped : kindOf[h] # "plain"
    /\ dePc = "done" /\ ~deStop => reportedOn = Sources /\ arrived = Sources
=============================================================================
