--------------------------- MODULE HostDiscovery ---------------------------
(***************************************************************************)
(* Host discovery (-sn, -sn6): perform_sn_discovery() and the four sweeps  *)
(* of icmp_ping.hpp it runs one after the other.  ARP asks the hosts on    *)
(* the subnet, ICMP all IPv4 hosts, a SYN sweep the silent ones off the    *)
(* subnet, NDP and ICMPv6 the IPv6 hosts; then the signals are reconciled  *)
(* and the hosts only ICMP has seen get one more ARP round.                *)
(***************************************************************************)
EXTENDS Integers, FiniteSets

CONSTANTS
    Self,        \* this machine's own IPv4 address
    Lan4, Far4,  \* other IPv4 hosts, on the subnet and off it
    Lan6, Far6   \* IPv6 hosts, on the link and off it

Hosts == {Self} \cup Lan4 \cup Far4 \cup Lan6 \cup Far6

VARIABLES
    pass,        \* the sweep or step that is running
    subnetOk,    \* subnet_ok: address, netmask and MAC of the interface known
    asked,       \* hosts the running sweep asks
    state,       \* results of the running sweep: host -> IcmpHostState
    classified,  \* hosts_classified of the running sweep
    arpAlive, icmpAlive, synAlive, ndpAlive,   \* hosts each signal has seen
    alive,       \* slots[i].alive
    noMac,       \* slots[i].icmp_only_no_mac
    mac          \* hosts with slots[i].mac

signals == <<arpAlive, icmpAlive, synAlive, ndpAlive>>
sweep == <<asked, state, classified>>
slots == <<alive, noMac, mac>>
discoveryVars == <<pass, subnetOk, sweep, signals, slots>>

----------------------------------------------------------------------------
\* What a reply tells: IcmpHostState up to what the callers tell apart.

Silent == [h \in Hosts |-> "NoResponse"]

\* Echo reply; administratively prohibited; other unreachable codes; TTL
\* exceeded, fragmentation needed, bad SPI.
IcmpVerdicts == {"Alive", "Prohibited", "Unreachable", "PathIssue"}

\* The same for ICMPv6, where Packet Too Big is the path issue.
Icmp6Verdicts == {"Alive", "Prohibited", "Unreachable", "PathIssue"}

\* A neighbour advertisement for one of the targets.
NdpVerdicts == {"Alive"}

\* SYN-ACK or RST to the sweep's port that acknowledges its sequence number.
SynVerdicts == {"Alive"}

CountsAsAlive(v) == v \in {"Alive", "Prohibited"}

\* Off the subnet, a host that did not answer or whose path failed is asked
\* again, with SYNs.
Retryable(v) == v \in {"NoResponse", "PathIssue"}

----------------------------------------------------------------------------
Init ==
    /\ pass = "start" /\ subnetOk = FALSE
    /\ asked = {} /\ state = Silent /\ classified = 0
    /\ arpAlive = {} /\ icmpAlive = {} /\ synAlive = {} /\ ndpAlive = {}
    /\ alive = {} /\ noMac = {} /\ mac = {}

\* The interface is examined and the targets are sorted into the sweeps; the
\* machine's own address is alive without being asked.
Classify ==
    /\ pass = "start"
    /\ subnetOk' \in BOOLEAN
    /\ alive' = IF subnetOk' THEN {Self} ELSE {}
    /\ mac' = alive'
    /\ pass' = "arp"
    /\ UNCHANGED <<sweep, signals, noMac>>

\* Hosts that are taken to be on the subnet; the own address is one of them
\* when the interface could not be read.
OnLink4 == IF subnetOk THEN Lan4 ELSE Lan4 \cup {Self}

\* Whom each sweep sends to, once it has its socket and its ring.
IcmpAsks == OnLink4 \cup Far4
SynAsks == {h \in Far4 : Retryable(state[h])}
NdpAsks == Lan6
Icmp6Asks == Lan6 \cup Far6

\* The ARP pass, in batches; no socket, no ring or no subnet: nobody answers.
ArpPass ==
    /\ pass = "arp"
    /\ \E replied \in IF subnetOk THEN SUBSET OnLink4 ELSE {{}} :
          arpAlive' = replied /\ mac' = mac \cup replied
    /\ pass' = "icmp" /\ asked' = IcmpAsks
    /\ UNCHANGED <<subnetOk, state, classified, icmpAlive, synAlive, ndpAlive,
                   alive, noMac>>

\* Fault: a second answer of a host is counted as well.
ReplyTwice(sweepName, verdicts) ==
    /\ pass = sweepName /\ classified < Cardinality(asked)
    /\ \E h \in asked, v \in verdicts : state' = [state EXCEPT ![h] = v]
    /\ classified' = classified + 1
    /\ UNCHANGED <<pass, subnetOk, asked, signals, slots>>

\* A reply that belongs to a host of the sweep: the first one decides, the
\* rest (and strays) change nothing.
Reply(sweepName, verdicts) ==
    /\ pass = sweepName /\ classified < Cardinality(asked)
    /\ \E h \in asked, v \in verdicts :
          /\ state[h] = "NoResponse"
          /\ state' = [state EXCEPT ![h] = v]
    /\ classified' = classified + 1
    /\ UNCHANGED <<pass, subnetOk, asked, signals, slots>>

IcmpReply == Reply("icmp", IcmpVerdicts)
SynReply == Reply("syn", SynVerdicts)
NdpReply == Reply("ndp", NdpVerdicts)
Icmp6Reply == Reply("icmp6", Icmp6Verdicts)

Seen == {h \in asked : CountsAsAlive(state[h])}

\* The sweep returns: all hosts classified, its deadline, or a socket or ring
\* it could not have.  The next sweep starts from nothing.
EndSweep(from, to, next) ==
    /\ pass = from /\ pass' = to /\ asked' = next
    /\ state' = Silent /\ classified' = 0

\* Fault: a prohibited or unreachable answer of a host off the subnet counts.
IcmpEndsAny ==
    /\ icmpAlive' = Seen
    /\ alive' = alive \cup {h \in Far4 : state[h] # "NoResponse"}
    /\ EndSweep("icmp", "syn", SynAsks)
    /\ UNCHANGED <<subnetOk, arpAlive, synAlive, ndpAlive, noMac, mac>>

\* For a host off the subnet ICMP decides; one on it waits for the others.
IcmpEnds ==
    /\ icmpAlive' = Seen
    /\ alive' = alive \cup (Seen \cap Far4)
    /\ EndSweep("icmp", "syn", SynAsks)
    /\ UNCHANGED <<subnetOk, arpAlive, synAlive, ndpAlive, noMac, mac>>

SynEnds ==
    /\ synAlive' = Seen
    /\ alive' = alive \cup Seen
    /\ EndSweep("syn", "ndp", NdpAsks)
    /\ UNCHANGED <<subnetOk, arpAlive, icmpAlive, ndpAlive, noMac, mac>>

NdpEnds ==
    /\ ndpAlive' = Seen
    /\ EndSweep("ndp", "icmp6", Icmp6Asks)
    /\ UNCHANGED <<subnetOk, arpAlive, icmpAlive, synAlive, slots>>

\* Off the link ICMPv6 decides; on it, either signal is enough.
Icmp6Ends ==
    /\ icmpAlive' = icmpAlive \cup Seen
    /\ alive' = alive \cup Seen \cup ndpAlive
    /\ noMac' = (Seen \cap Lan6) \ ndpAlive
    /\ EndSweep("icmp6", "reconcile", {})
    /\ UNCHANGED <<subnetOk, arpAlive, synAlive, ndpAlive, mac>>

\* IPv4 hosts on the subnet that only ICMP has seen.
Recheck == (OnLink4 \cap icmpAlive) \ arpAlive

Reconcile ==
    /\ pass = "reconcile"
    /\ alive' = alive \cup arpAlive
    /\ pass' = IF Recheck = {} THEN "print" ELSE "recheck"
    /\ UNCHANGED <<subnetOk, sweep, signals, noMac, mac>>

\* One more ARP round for them: ICMP has shown that they are up, a reply adds
\* the MAC.  Without a socket they are up without one; when only the ring
\* cannot be made, nothing is recorded for them.
RecheckArp ==
    /\ pass = "recheck"
    /\ \/ \E replied \in SUBSET Recheck :
            /\ alive' = alive \cup Recheck
            /\ mac' = mac \cup replied
            /\ noMac' = noMac \cup (Recheck \ replied)
       \/ UNCHANGED slots
    /\ pass' = "print"
    /\ UNCHANGED <<subnetOk, sweep, signals>>

PrintHosts ==
    /\ pass = "print" /\ pass' = "done"
    /\ UNCHANGED <<subnetOk, sweep, signals, slots>>

Next == \/ Classify \/ ArpPass \/ IcmpReply \/ SynReply \/ NdpReply \/ Icmp6Reply
        \/ IcmpEnds \/ SynEnds \/ NdpEnds \/ Icmp6Ends
        \/ Reconcile \/ RecheckArp \/ PrintHosts

----------------------------------------------------------------------------
\* A sweep that stops counting has a verdict for each host it asked: no host
\* is left out because another one answered twice.
SweepExact ==
    classified = Cardinality({h \in asked : state[h] # "NoResponse"})

\* A host is reported alive only on evidence, whichever sweeps failed, and its
\* MAC only comes from ARP (or is the machine's own).
AliveOnEvidence ==
    /\ alive \subseteq {Self} \cup arpAlive \cup icmpAlive \cup synAlive \cup ndpAlive
    /\ pass = "done" => mac \subseteq alive /\ mac \cap noMac = {}

=============================================================================
