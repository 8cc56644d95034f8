------------------------------ MODULE Commands ------------------------------
(***************************************************************************)
(* main(): the command line is read, refused or dispatched, and the part   *)
(* of the program it names runs to its end.  The parts below run in their  *)
(* own threads and share nothing with each other but the process, so a     *)
(* behaviour follows the one part that its command exercises; ScanRun is   *)
(* the part a port scan exercises.                                         *)
(***************************************************************************)
EXTENDS Integers, Sequences, FiniteSets

CONSTANTS
    Self, Lan4, Far4, Lan6, Far6,                          \* HostDiscovery
    ArpHosts, Slots, ArpBatches, MaxRetries,               \* ArpResolve
    NJobs, Concurrency, Families, TimeoutPolls, Retries,   \* DnsBatch
    HostNames, Sources, WebConcurrency,                    \* DnsEnum
    Bits, MaxPerCidr, MaxTotal, Tokens, MaxTokens, Names, A4, \* Targets
    Flows, PendingTicks, DedupTicks, MaxPackets, MaxTicks, \* NetRadar
    SslTargets, SslPorts, SslVersions, SslConcurrency, Certs, \* SslEnum
    MaxHops, ProbesPerHop, Distance,                       \* Traceroute
    Links, SrvFds, Pids, RoundEvents,                      \* Server
    SplitRuns, LinkIds,                                    \* SplitNs
    ProbeList, RedirectHops,                               \* VersionProbe
    MaxPort, PortWords, MaxWords, MaxOptions, FileLines,   \* PortList
    RangeLines, MaxLines                                   \* RangeTables

\* There are finitely many hosts and connections; descriptors and links are numbered,
\* and 0 is neither a process nor an interface; a web fetch runs at least one request; the
\* own address is not one of the others, and none is of both families.
ASSUME CommandsAssumption ==
    /\ IsFiniteSet(Lan4 \cup Far4 \cup Lan6 \cup Far6) /\ IsFiniteSet(ArpHosts)
    /\ Self \notin Lan4 \cup Lan6 /\ Lan4 \cap Lan6 = {}
    /\ IsFiniteSet(Flows) /\ PendingTicks \in Nat /\ DedupTicks \in Nat
    /\ ProbesPerHop \in Nat /\ Distance \in Nat
    /\ Links \subseteq Nat /\ SrvFds \subseteq Nat /\ 0 \notin Pids
    /\ LinkIds \subseteq Nat \ {0} /\ WebConcurrency \in Nat \ {0}
    /\ Bits \in Nat

\* The slots of the ARP listener are numbered, and 0 is the tag of its poll.
ASSUME SlotsAssumption == IsFiniteSet(Slots) /\ 0 \notin Slots /\ ArpBatches \in Nat

\* Targets, ports, versions and probes are lists; a TLS enumeration has a port and runs at
\* least one handshake at a time, and the mark of one not attempted is no certificate.
ASSUME ListsAssumption ==
    /\ SslTargets \in Seq([family : STRING, name : STRING]) /\ SslPorts \in Seq(Nat) \ {<<>>}
    /\ SslVersions \in Seq(Nat) /\ SslConcurrency \in Nat \ {0} /\ "not attempted" \notin Certs
    /\ ProbeList \in Seq([name : STRING, null : BOOLEAN, http : BOOLEAN, explicit : BOOLEAN])

\* Name servers are addresses of one of two families, or no addresses; they are few where a
\* batch may open hundreds of sockets, so that it gets to one of each family before it has
\* opened them all; the one batch with two sockets has two queries.
ASSUME ServersAssumption ==
    /\ NJobs \in Nat /\ Concurrency \in Nat /\ Families \in Seq({4, 6, 0}) /\ Families # <<>>
    /\ \/ NJobs <= Concurrency
       \/ \A k \in 1 .. Len(Families) : Families[k] # 0 =>
             \E j \in 1 .. Len(Families) : j <= Concurrency /\ Families[j] = Families[k]

VARIABLES
    command,    \* what the command line asks for
    mainPc,     \* "setup", "dispatch", "run", "return"
    pass, subnetOk, asked, state, classified, arpAlive, icmpAlive, synAlive, ndpAlive,
    alive, noMac, mac,
    arpPc, call, ring, cq, toReap, pendingSends, slotBuf, inFlight, resolved,
    totalResolved, attempts, peeked,
    dnsPc, filling, queue, nextJob, inflight, free, opened, rr, wire, left, finished,
    needsTcp, quiet, polled, answered, attempt, interrupted,
    dePc, kindOf, hosts, addrs, wildcard, toFetch, fetching, arrived, reportedOn,
    stage2Names, dropped, deStop,
    pref, overTls, tgPc, tgCall, words, seen, bulk, ips, pending, found4, found6, answeredNames,
    passes, chosen, eliminated, wanted,
    radarPc, packets, ticks, waiting, tracked, matched, expired, reported, rows,
    terminate, wasInterrupted, missing, ptrCache, ptrPass, outcome,
    sslPc, sslNext, sslFlight, flat, handshakes, sniChecked, sameSni, dualChecked, sameDual,
    trPc, ttl, probesOut, responded, counted, hopFrom, reached, hops, stopTrace,
    srvPc, tls, locks, listeners, stunnels, scanBusy, running, table, child, batch,
    nsPc, want, rootLink, nsLink, mvIdx, usedIds, addresses, routes, linkUp, inSplitNs,
    vpPc, mode, isSsl, probeIdx, cur, resp, label, scheme, hop, back, fps, nullClosed,
    switched, sent, verdict, stopProbe,
    plPc, built, wordsRead, optionsRead, parsed, excluded, useFile, toScan, named,
    barred,
    rtPc, linesRead, ranges, given

discoveryVars == <<pass, subnetOk, asked, state, classified, arpAlive, icmpAlive,
                   synAlive, ndpAlive, alive, noMac, mac>>
arpVars == <<arpPc, call, ring, cq, toReap, pendingSends, slotBuf, inFlight, resolved,
             totalResolved, attempts, peeked>>
dnsVars == <<dnsPc, filling, queue, nextJob, inflight, free, opened, rr, wire, left,
             finished, needsTcp, quiet, polled, answered, attempt, interrupted>>
enumVars == <<dePc, kindOf, hosts, addrs, wildcard, toFetch, fetching, arrived,
              reportedOn, stage2Names, dropped, deStop>>
targetVars == <<pref, overTls, tgPc, tgCall, words, seen, bulk, ips, pending, found4, found6,
                answeredNames, passes, chosen, eliminated, wanted>>
radarVars == <<radarPc, packets, ticks, waiting, tracked, matched, expired, reported,
               rows, terminate, wasInterrupted, missing, ptrCache, ptrPass, overTls,
               outcome>>
sslVars == <<sslPc, sslNext, sslFlight, flat, handshakes, sniChecked, sameSni,
             dualChecked, sameDual>>
traceVars == <<trPc, ttl, probesOut, responded, counted, hopFrom, reached, hops,
               stopTrace>>
serverVars == <<srvPc, tls, locks, listeners, stunnels, scanBusy, running, table, child,
                batch>>
splitVars == <<nsPc, want, rootLink, nsLink, mvIdx, usedIds, addresses, routes, linkUp,
               inSplitNs>>
versionVars == <<vpPc, mode, isSsl, probeIdx, cur, resp, label, scheme, hop, back, fps,
                 nullClosed, switched, sent, verdict, stopProbe>>
portVars == <<plPc, built, wordsRead, optionsRead, parsed, excluded, useFile, toScan,
              named, barred>>
rangeVars == <<rtPc, linesRead, ranges, given>>

Sn == INSTANCE HostDiscovery
Arp == INSTANCE ArpResolve
Dns == INSTANCE DnsBatch
Enum == INSTANCE DnsEnum
Tg == INSTANCE Targets
Radar == INSTANCE NetRadar
Ssl == INSTANCE SslEnum
Trace == INSTANCE Traceroute
Srv == INSTANCE Server
Split == INSTANCE SplitNs
Sv == INSTANCE VersionProbe
Ports == INSTANCE PortList
Db == INSTANCE RangeTables

\* The address of a range is an address, in the tables and on the command line; a wildcard
\* stands for a list of addresses, a line of the file begins with digits.
ASSUME WordsAssumption ==
    /\ \A l \in RangeLines : l.prefix \in Int /\ l.base \in 0 .. Db!Power[Bits] - 1
    /\ \A t \in Tokens :
          /\ t.kind = "cidr" => t.ip \in 0 .. Tg!Power[Bits] - 1 /\ t.len \in 0 .. Bits
          /\ t.kind = "wildcard" => t.ips \in Seq(Nat)
    /\ MaxPort \in Nat /\ FileLines \subseteq Seq(0 .. 9)

mainVars == <<command, mainPc>>
vars == <<mainVars, discoveryVars, arpVars, dnsVars, enumVars, targetVars,
          radarVars, sslVars, traceVars, serverVars, splitVars,
          versionVars, portVars, rangeVars>>

\* The parts, by the option that leads to them; "targets" is the part every
\* command with targets goes through, "dns query" the one under --enum dns.
Parts == {"--server", "--netradar", "targets", "--split", "-sn", "arp", "--traceroute",
          "-sV", "--enum dns", "dns query", "--enum ssl", "ports", "providers"}

\* Of a command line, one part is followed: the choices of the others do not
\* matter and have one value.
Followed ==
    /\ command # "--server" => ~tls
    /\ command # "--split" => \A r \in SplitRuns : want[r] = {"v4"}
    /\ command # "targets" => pref = 0
    /\ command \notin {"targets", "--netradar"} => ~overTls
    /\ command # "-sV" => mode = "auto"
    /\ command # "--enum dns" => \A h \in HostNames : kindOf[h] = "dead"

Init ==
    /\ command \in Parts /\ mainPc = "setup"
    /\ Sn!Init /\ Arp!ArpInit /\ Dns!DnsInit /\ Enum!EnumInit /\ Tg!TargetsInit
    /\ Radar!RadarInit /\ Ssl!SslInit /\ Trace!TraceInit /\ Srv!ServerInit
    /\ Split!SplitInit /\ Sv!VersionInit /\ Ports!PortsInit /\ Db!RangesInit
    /\ Followed

parts == <<discoveryVars, arpVars, dnsVars, enumVars, targetVars, radarVars, sslVars, traceVars, serverVars, splitVars, versionVars, portVars, rangeVars>>

----------------------------------------------------------------------------
\* The terminal, the signal handlers, the limits and the options; a server is
\* started before any of them.
Setup ==
    /\ mainPc = "setup"
    /\ mainPc' = IF command = "--server" THEN "run" ELSE "dispatch"
    /\ UNCHANGED <<command, parts>>

\* An option with a bad value, an unknown one, a combination that is not
\* allowed or no network: main returns without running anything.
Refuse ==
    /\ mainPc = "setup" /\ command # "--server"
    /\ mainPc' = "return"
    /\ UNCHANGED <<command, parts>>

\* Targets or ports that are missing, too many or do not fit the options, or
\* an interrupt before the scan.
RefuseTargets ==
    /\ mainPc = "dispatch" /\ command \notin {"--netradar", "--split"}
    /\ mainPc' = "return"
    /\ UNCHANGED <<command, parts>>

Dispatch ==
    /\ mainPc = "dispatch"
    /\ mainPc' = "run"
    /\ UNCHANGED <<command, parts>>

Finished ==
    \/ command = "-sn" /\ pass = "done"
    \/ command = "arp" /\ Arp!ArpOver
    \/ command = "dns query" /\ Dns!DnsOver
    \/ command = "--enum dns" /\ Enum!EnumOver
    \/ command = "targets" /\ Tg!TargetsOver
    \/ command = "--netradar" /\ Radar!RadarOver
    \/ command = "--enum ssl" /\ Ssl!SslOver
    \/ command = "--traceroute" /\ Trace!TraceOver
    \/ command = "--server" /\ Srv!ServerOver
    \/ command = "--split" /\ Split!SplitOver
    \/ command = "-sV" /\ Sv!VersionOver
    \/ command = "ports" /\ Ports!PortsOver
    \/ command = "providers" /\ Db!RangesOver

Return ==
    /\ mainPc = "run" /\ Finished
    /\ mainPc' = "return"
    /\ UNCHANGED <<command, parts>>

----------------------------------------------------------------------------
\* Only the part of the command runs.
Only(c) ==
    /\ mainPc = "run" /\ command = c
    /\ UNCHANGED mainVars
    /\ IF c = "-sn" THEN TRUE ELSE UNCHANGED discoveryVars
    /\ IF c = "arp" THEN TRUE ELSE UNCHANGED arpVars
    /\ IF c = "dns query" THEN TRUE ELSE UNCHANGED dnsVars
    /\ IF c = "--enum dns" THEN TRUE ELSE UNCHANGED enumVars
    /\ IF c = "targets" THEN TRUE ELSE UNCHANGED targetVars
    /\ IF c = "--netradar" THEN TRUE ELSE UNCHANGED radarVars
    /\ IF c = "--enum ssl" THEN TRUE ELSE UNCHANGED sslVars
    /\ IF c = "--traceroute" THEN TRUE ELSE UNCHANGED traceVars
    /\ IF c = "--server" THEN TRUE ELSE UNCHANGED serverVars
    /\ IF c = "--split" THEN TRUE ELSE UNCHANGED splitVars
    /\ IF c = "-sV" THEN TRUE ELSE UNCHANGED versionVars
    /\ IF c = "ports" THEN TRUE ELSE UNCHANGED portVars
    /\ IF c = "providers" THEN TRUE ELSE UNCHANGED rangeVars

Next ==
    \/ Setup \/ Refuse \/ RefuseTargets \/ Dispatch \/ Return
    \/ Only("-sn") /\ Sn!Next
    \/ Only("arp") /\ Arp!ArpNext
    \/ Only("dns query") /\ Dns!DnsNext
    \/ Only("--enum dns") /\ Enum!EnumNext
    \/ Only("targets") /\ Tg!TargetsNext
    \/ Only("--netradar") /\ Radar!RadarNext
    \/ Only("--enum ssl") /\ Ssl!SslNext
    \/ Only("--traceroute") /\ Trace!TraceNext
    \/ Only("--server") /\ Srv!ServerNext
    \/ Only("--split") /\ Split!SplitNext
    \/ Only("-sV") /\ Sv!VersionNext
    \/ Only("ports") /\ Ports!PortsNext
    \/ Only("providers") /\ Db!RangesNext

----------------------------------------------------------------------------
\* A thread goes on while it can, except that a wave of DNS queries may keep it for ever
\* (DnsBatch!BatchEnds): the steps that stand for the return of a wave are not fair.
Goes ==
    \/ Setup \/ Dispatch \/ Return
    \/ Only("-sn") /\ Sn!Next
    \/ Only("arp") /\ Arp!ArpStep
    \/ Only("--enum dns") /\ Enum!EnumStep
    \/ Only("targets") /\ Tg!TargetsNext /\ ~Tg!InWave
    \/ Only("--netradar") /\ ~Radar!InWave
          /\ (Radar!StartResolve \/ Radar!PtrOverTls \/ Radar!RadarEnds)
    \/ Only("--enum ssl") /\ (Ssl!SslLaunch \/ Ssl!SslLaunchFails \/ Ssl!SslFull \/ Ssl!SslMerge)
    \/ Only("--traceroute") /\ Trace!TraceStep /\ ~Trace!Naming
    \/ Only("-sV") /\ Sv!VersionStep
    \/ Only("ports") /\ Ports!PortsNext
    \/ Only("providers") /\ Db!RangesNext

\* Time passes, the kernel completes what was sent.
Outside ==
    \/ Only("arp") /\ Arp!SendCompletes
    \/ Only("--netradar") /\ Radar!Tick

\* Deadlines are met although other events keep the thread busy.
Deadline ==
    \/ Only("arp") /\ Arp!StopListening
    \/ Only("--enum ssl") /\ \E j \in Ssl!JobIds : Ssl!SslTimeout(j)

Fairness ==
    /\ WF_vars(Goes) /\ WF_vars(Outside) /\ SF_vars(Deadline)
    /\ \A r \in SplitRuns : WF_vars(Only("--split") /\ Split!SplitStep(r))

Spec == Init /\ [][Next]_vars /\ Fairness

----------------------------------------------------------------------------
\* Nothing is counted twice and nothing is lost, however replies repeat and
\* interleave: the verdicts of a discovery sweep, the answers of a hop, the
\* connections of the radar, the MAC addresses ARP resolves
\* (perform_sn_discovery, traceroute, net_capture, receive_arp_reply).
CountedOnce ==
    /\ Sn!SweepExact
    /\ Trace!TraceExact
    /\ Radar!RadarAccounts
    /\ Arp!ResolvedExact

\* The lists a scan starts from are what its words say, each address and each
\* port once, however the words overlap (parse_targets, parse_ports, and the
\* difference main computes).
ListsExact ==
    /\ Tg!TargetsExact
    /\ Ports!PortsExact

\* Nothing that was to be tried is passed over when something before it
\* fails: a query of a batch and its socket (dns_query_batch), a handshake
\* (run_ssl_jobs), a probe of a port (run_version_probe), a receive slot
\* (receive_arp_reply).
NothingSkipped ==
    /\ Dns!PoolExact /\ Dns!EveryJobSent
    /\ Ssl!EveryHandshakeTried
    /\ Sv!ProbesExhausted
    /\ Arp!ListenerArmed

\* What is reported rests on an answer and not on a lost one: a host is alive, an
\* address has no name, an address belongs to a provider (perform_sn_discovery,
\* reverse_dns_lookup_batch, lookup_ip_provider).  The exceptions are two: a look-up
\* that failed over TLS is cached as "no name", and a provider is missed where a
\* range nested in its own ends below the address.
ReportedOnEvidence ==
    /\ Sn!AliveOnEvidence
    /\ Radar!PtrCacheDefinitive
    /\ Db!ProviderExact

\* A name of the domain is not dropped for a lost answer, and every passive
\* source is asked and accounted for (run_dns_enum, parallel_http_get).
EnumerationSound == Enum!EnumSound

\* What a part holds of the machine belongs to it alone and is given back: the
\* scans and pipes of a server's link, its locks, listeners and stunnels, the
\* link of a split namespace (server::run, enter_split_namespace).
HeldAlone ==
    /\ Srv!LinkScans /\ Srv!ServerStopsClean
    /\ Split!SplitComplete

\* The thread is inside a wave of DNS queries, or a look-up that is one.
InWave ==
    /\ mainPc = "run"
    /\ \/ command = "--enum dns" /\ Enum!InWave
       \/ command = "targets" /\ Tg!InWave
       \/ command = "--netradar" /\ Radar!InWave
       \/ command = "--traceroute" /\ Trace!Naming

\* Whatever is lost or arrives in whatever order, a command comes to its end or
\* is kept by a wave of DNS queries, which alone has no deadline it is sure to
\* meet: no other wait of any part is without one, and an interrupt leaves no
\* part waiting for what it stopped.  The server runs on.
CommandEnds ==
    command \notin {"--server", "dns query"} => <>(mainPc = "return") \/ <>[]InWave
=============================================================================
