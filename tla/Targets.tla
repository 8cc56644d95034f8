------------------------------ MODULE Targets ------------------------------
(***************************************************************************)
(* From the words of the command line and of the -iL file to the list of   *)
(* addresses to scan: parse_targets(), the expansion of a CIDR range, the  *)
(* batch resolution of the host names (over UDP with a retry pass, or by a *)
(* pool of threads over TLS).  The set of addresses seen so far is shared  *)
(* by the two calls.                                                       *)
(***************************************************************************)
EXTENDS Integers, FiniteSets, Sequences, SequencesExt

CONSTANTS
    Bits,          \* width of an IPv4 address (32 in the code)
    MaxPerCidr,    \* MAX_EXPANDED_IPS_PER_CIDR
    MaxTotal,      \* MAX_TOTAL_IPS
    Tokens,        \* the words a user may write
    MaxTokens,     \* bound on the words of a call
    Names,         \* host names among them
    A4             \* the IPv4 address the names have, if they have one

\* The powers of two up to 2^Bits.
Power[k \in 0 .. Bits] == IF k = 0 THEN 1 ELSE 2 * Power[k - 1]

Six == Power[Bits]         \* the IPv6 address they have, if they have one
NoAddress == -1

VARIABLES
    pref,          \* g_target_ip_pref: 0, 4 or 6
    overTls,       \* g_dns_tls_servers is not empty
    tgPc,          \* "parse", "simulate", "resolve", "merge", "done", "failed",
                   \* "undefined"
    tgCall,        \* 1: command line, 2: file of -iL
    words,         \* words of this call so far
    seen,          \* g_seen_target_ips
    bulk,          \* bulk_ips
    ips,           \* the output
    pending,       \* pending_hostnames
    found4, found6,    \* v4, v6: the addresses of each name
    answeredNames,     \* answered_hosts
    passes,        \* passes of the batch resolver
    chosen,        \* out_ip
    eliminated,    \* g_eliminated_targets: addresses of repeated targets
    wanted         \* history: every address some word has stood for

resolver == <<found4, found6, answeredNames, passes, chosen>>
lists == <<seen, bulk, ips, eliminated, wanted>>
targetVars == <<pref, overTls, tgPc, tgCall, words, pending, resolver, lists>>

NoNames == [n \in Names |-> {}]

TargetsInit ==
    /\ pref \in {0, 4, 6} /\ overTls \in BOOLEAN
    /\ tgPc = "parse" /\ tgCall = 1 /\ words = 0
    /\ seen = {} /\ bulk = <<>> /\ ips = <<>> /\ pending = <<>>
    /\ found4 = NoNames /\ found6 = NoNames /\ answeredNames = {} /\ passes = 0
    /\ chosen = [n \in Names |-> NoAddress]
    /\ eliminated = {} /\ wanted = {}

----------------------------------------------------------------------------
\* expand_cidr: the addresses from start to end, in order.

Mask(len) == Power[Bits - len]
Network(ip, len) == ip - (ip % Mask(len))
Broadcast(ip, len) == Network(ip, len) + Mask(len) - 1

expand_cidr(ip, len) ==
    LET start == IF len >= Bits - 1 THEN Network(ip, len) ELSE Network(ip, len) + 1
        end == IF len >= Bits - 1 THEN Broadcast(ip, len) ELSE Broadcast(ip, len) - 1
    IN  IF end - start + 1 > MaxPerCidr
          THEN <<>>
          ELSE [i \in 1 .. end - start + 1 |-> start + i - 1]

\* What a range stands for: the addresses that agree with it in the first len
\* bits, without the first and the last unless there are at most two.
InRange(ip, len) ==
    LET same == {a \in 0 .. Power[Bits] - 1 : a \div Mask(len) = ip \div Mask(len)}
    IN  IF Mask(len) <= 2 THEN same
        ELSE {a \in same : a % Mask(len) \notin {0, Mask(len) - 1}}

----------------------------------------------------------------------------
\* add_unique_ip for each address of a list in turn: what joins the list of this call.
Unique(list) ==
    LET kept[i \in 0 .. Len(list)] ==
          IF i = 0 THEN <<>>
          ELSE IF list[i] \in seen \/ \E j \in 1 .. i - 1 : list[j] = list[i] THEN kept[i - 1]
          ELSE Append(kept[i - 1], list[i])
    IN  kept[Len(list)]

Parsing == tgPc = "parse" /\ words < MaxTokens

Fail ==
    /\ tgPc' = "failed"
    /\ UNCHANGED <<tgCall, words, pending, resolver, lists>>

\* The word is done; too many addresses end the call.
NextWord ==
    /\ words' = words + 1
    /\ tgPc' = IF Len(ips) + Len(bulk') > MaxTotal THEN "failed" ELSE "parse"
    /\ UNCHANGED <<tgCall, ips, pending, resolver>>

\* Fault: an expanded range is appended without looking at what was seen.
ParseCidrRepeats ==
    /\ Parsing
    /\ \E t \in Tokens :
          /\ t.kind = "cidr"
          /\ LET new == expand_cidr(t.ip, t.len)
             IN  IF new = <<>> THEN Fail
                 ELSE /\ bulk' = bulk \o new
                      /\ seen' = seen \cup ToSet(new)
                      /\ wanted' = wanted \cup InRange(t.ip, t.len)
                      /\ UNCHANGED eliminated
                      /\ NextWord

\* A range: what it adds is de-duplicated against all that was seen.
ParseCidr ==
    /\ Parsing
    /\ \E t \in Tokens :
          /\ t.kind = "cidr"
          /\ LET new == expand_cidr(t.ip, t.len)
             IN  IF new = <<>> THEN Fail
                 ELSE /\ bulk' = bulk \o Unique(new)
                      /\ seen' = seen \cup ToSet(new)
                      /\ wanted' = wanted \cup InRange(t.ip, t.len)
                      /\ UNCHANGED eliminated
                      /\ NextWord

\* A single address; a repeated one is reported as eliminated.
ParseAddress ==
    /\ Parsing
    /\ \E t \in Tokens :
          /\ t.kind = "ip"
          /\ bulk' = IF t.ip \in seen THEN bulk ELSE Append(bulk, t.ip)
          /\ eliminated' = IF t.ip \in seen THEN eliminated \cup {t.ip} ELSE eliminated
          /\ seen' = seen \cup {t.ip}
          /\ wanted' = wanted \cup {t.ip}
          /\ NextWord

\* "*.domain": the enumeration of the domain (DnsEnum) runs, and may never return.
ParseWildcard ==
    /\ Parsing /\ \E t \in Tokens : t.kind = "wildcard"
    /\ tgPc' = "simulate"
    /\ UNCHANGED <<tgCall, words, pending, resolver, lists>>

\* It fails, or finds the addresses of the hosts below the domain.
Simulated ==
    /\ tgPc = "simulate"
    /\ \E t \in Tokens :
          /\ t.kind = "wildcard"
          /\ \/ Fail
             \/ /\ bulk' = bulk \o Unique(t.ips)
                /\ seen' = seen \cup ToSet(t.ips)
                /\ wanted' = wanted \cup ToSet(t.ips)
                /\ UNCHANGED eliminated
                /\ NextWord

\* A name waits for the batch.
ParseName ==
    /\ Parsing
    /\ \E t \in Tokens :
          /\ t.kind = "name"
          /\ pending' = IF Contains(pending, t.name) THEN pending ELSE Append(pending, t.name)
    /\ words' = words + 1
    /\ UNCHANGED <<tgPc, tgCall, resolver, lists>>

\* A comment or an empty word; a number, an IPv6 range or a word too long.
ParseOther ==
    /\ Parsing
    /\ \/ /\ \E t \in Tokens : t.kind = "blank"
          /\ words' = words + 1
          /\ UNCHANGED <<tgPc, tgCall, pending, resolver, lists>>
       \/ (\E t \in Tokens : t.kind = "bad") /\ Fail

WordsEnd ==
    /\ tgPc = "parse"
    /\ tgPc' = IF pending = <<>> THEN "merge" ELSE "resolve"
    /\ UNCHANGED <<tgCall, words, pending, resolver, lists>>

----------------------------------------------------------------------------
\* resolve_domain_to_ip_batch.

Asked == ToSet(pending) \ answeredNames

\* A pass: for each name and each of A and AAAA the query is answered with
\* addresses, answered without, or lost.  A name with one answer is answered.
\* The step may never come: a wave of queries may not return.
Outcome == {"address", "nothing", "lost"}

UdpPass ==
    /\ ~overTls /\ tgPc = "resolve" /\ passes < 2 /\ Asked # {}
    /\ \E a, aaaa \in [Asked -> Outcome] :
          /\ found4' = [n \in Names |-> IF n \in Asked /\ a[n] = "address"
                                          THEN found4[n] \cup {A4} ELSE found4[n]]
          /\ found6' = [n \in Names |-> IF n \in Asked /\ aaaa[n] = "address"
                                          THEN found6[n] \cup {Six} ELSE found6[n]]
          /\ answeredNames' = answeredNames \cup
                {n \in Asked : a[n] # "lost" \/ aaaa[n] # "lost"}
    /\ passes' = passes + 1
    /\ UNCHANGED <<tgPc, tgCall, words, pending, chosen, lists>>

\* The address of the preferred family; without preference IPv4 first.
Eligible(n) == CASE pref = 6 -> found6[n]
                [] pref = 4 -> found4[n]
                [] OTHER    -> IF found4[n] # {} THEN found4[n] ELSE found6[n]

UdpChoose ==
    /\ ~overTls /\ tgPc = "resolve" /\ (passes = 2 \/ Asked = {})
    /\ IF \A n \in ToSet(pending) : Eligible(n) # {}
         THEN /\ chosen' = [n \in Names |-> IF n \in ToSet(pending)
                                              THEN CHOOSE a \in Eligible(n) : TRUE
                                              ELSE chosen[n]]
              /\ tgPc' = "merge"
         ELSE tgPc' = "failed" /\ UNCHANGED chosen
    /\ UNCHANGED <<tgCall, words, pending, found4, found6, answeredNames, passes, lists>>

\* Over TLS each thread takes the next name and asks the servers in turn; a
\* server with no record of the preferred family is passed over, and without a
\* preference the first A record is taken, even when there is none.
DotName ==
    /\ overTls /\ tgPc = "resolve"
    /\ \E n \in Asked, a, aaaa \in BOOLEAN :
          /\ answeredNames' = answeredNames \cup {n}
          /\ CASE \/ (~a /\ ~aaaa) \/ (pref = 4 /\ ~a) \/ (pref = 6 /\ ~aaaa) ->
                    tgPc' = "failed" /\ UNCHANGED chosen
               [] pref = 6 /\ aaaa ->
                    chosen' = [chosen EXCEPT ![n] = Six] /\ UNCHANGED tgPc
               [] pref # 6 /\ a ->
                    chosen' = [chosen EXCEPT ![n] = A4] /\ UNCHANGED tgPc
               [] OTHER -> tgPc' = "undefined" /\ UNCHANGED chosen
    /\ UNCHANGED <<tgCall, words, pending, found4, found6, passes, lists>>

DotEnds ==
    /\ overTls /\ tgPc = "resolve" /\ Asked = {}
    /\ tgPc' = "merge"
    /\ UNCHANGED <<tgCall, words, pending, resolver, lists>>

----------------------------------------------------------------------------
\* The names join the list one after the other.
MergeName ==
    /\ tgPc = "merge" /\ pending # <<>>
    /\ LET a == chosen[Head(pending)]
       IN  /\ bulk' = IF a \in seen THEN bulk ELSE Append(bulk, a)
           /\ eliminated' = IF a \in seen THEN eliminated \cup {a} ELSE eliminated
           /\ seen' = seen \cup {a} /\ wanted' = wanted \cup {a}
    /\ pending' = Tail(pending)
    /\ tgPc' = IF Len(ips) + Len(bulk') > MaxTotal THEN "failed" ELSE "merge"
    /\ UNCHANGED <<tgCall, words, ips, resolver>>

\* The call returns; the file comes after the command line.
CallEnds ==
    /\ tgPc = "merge" /\ pending = <<>>
    /\ ips' = ips \o bulk /\ bulk' = <<>>
    /\ found4' = NoNames /\ found6' = NoNames /\ answeredNames' = {} /\ passes' = 0
    /\ chosen' = [n \in Names |-> NoAddress]
    /\ words' = 0
    /\ \/ tgCall = 1 /\ tgCall' = 2 /\ tgPc' = "parse"
       \/ tgCall' = tgCall /\ tgPc' = "done"
    /\ UNCHANGED <<pending, seen, eliminated, wanted>>

\* The calls that ask over UDP, and the thread inside one.
TargetsWave == Simulated \/ UdpPass
InWave == \/ tgPc = "simulate"
          \/ ~overTls /\ tgPc = "resolve" /\ passes < 2 /\ Asked # {}

TargetsStep ==
    \/ ParseCidr \/ ParseAddress \/ ParseWildcard \/ ParseName \/ ParseOther \/ WordsEnd
    \/ UdpChoose \/ DotName \/ DotEnds \/ MergeName \/ CallEnds

TargetsNext == (TargetsStep \/ TargetsWave) /\ UNCHANGED <<pref, overTls>>

TargetsOver == tgPc \in {"done", "failed", "undefined"}

----------------------------------------------------------------------------
\* The addresses to scan are exactly those the words of both calls stand for,
\* each once: no host is scanned twice because it was written as an address,
\* a range and a name, and none is lost to the de-duplication.
TargetsExact ==
    tgPc = "done" => /\ ToSet(ips) = wanted
                     /\ Len(ips) = Cardinality(wanted)
                     /\ eliminated \subseteq wanted
=============================================================================
