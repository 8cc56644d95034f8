---------------------------- MODULE RangeTables ----------------------------
(***************************************************************************)
(* The tables of the providers' address ranges: load_ip_range_databases()  *)
(* reads the files line by line, sorts each table by the start of the      *)
(* ranges, and lookup_ip_provider() searches it for an address.  The two   *)
(* tables, of IPv4 and IPv6, differ in the width of an address only.       *)
(***************************************************************************)
EXTENDS Integers, Sequences, SequencesExt

CONSTANTS
    Bits,          \* width of an address (32 and 128)
    RangeLines,    \* lines of the files: [base, prefix, label]
    MaxLines       \* bound on the lines

NoPrefix == -1     \* no slash, or something that is not a number after it

VARIABLES
    rtPc,          \* "load", "ready"
    linesRead,
    ranges,        \* g_v4_ranges: [start, end, label]
    given          \* history: the lines that were well-formed

rangeVars == <<rtPc, linesRead, ranges, given>>

RangesInit == rtPc = "load" /\ linesRead = 0 /\ ranges = <<>> /\ given = {}

----------------------------------------------------------------------------
Prefix(line) == IF line.prefix = NoPrefix THEN Bits ELSE line.prefix
\* The powers of two up to 2^Bits.
Power[k \in 0 .. Bits] == IF k = 0 THEN 1 ELSE 2 * Power[k - 1]

HostPart(line) == Power[Bits - Prefix(line)]

\* The lines of a file, a carriage return taken off and empty ones left out;
\* the AWS file's have the service and the region first.
Lines == RangeLines

\* add_cidr_range: base & mask, and start | ~mask.
AsRange(line) ==
    LET start == line.base - (line.base % HostPart(line))
    IN  [start |-> start, end |-> start + HostPart(line) - 1, label |-> line.label]

AddLine ==
    /\ rtPc = "load" /\ linesRead < MaxLines
    /\ \E line \in Lines :
          IF Prefix(line) \in 0 .. Bits
            THEN ranges' = Append(ranges, AsRange(line)) /\ given' = given \cup {line}
            ELSE UNCHANGED <<ranges, given>>
    /\ linesRead' = linesRead + 1
    /\ UNCHANGED rtPc

\* Fault: the table is searched as it was loaded.
FinalizeUnsorted ==
    /\ rtPc = "load" /\ rtPc' = "ready"
    /\ UNCHANGED <<linesRead, ranges, given>>

\* Sorted by start; ranges with the same start stay in any order.
Finalize ==
    /\ rtPc = "load" /\ rtPc' = "ready"
    /\ \E p \in Bijection(DOMAIN ranges, DOMAIN ranges) :
          /\ ranges' = [i \in DOMAIN ranges |-> ranges[p[i]]]
          /\ \A i, j \in DOMAIN ranges : i < j => ranges'[i].start <= ranges'[j].start
    /\ UNCHANGED <<linesRead, given>>

----------------------------------------------------------------------------
\* std::upper_bound: the number of ranges before the first one, as a binary
\* search finds it, that starts after the address.
UpperBound(addr) ==
    LET n == Len(ranges)
        Spans == {s \in (0 .. n) \X (0 .. n) : s[1] + s[2] <= n}   \* first, count
        search[s \in Spans] ==
          LET half == s[2] \div 2
          IN  IF s[2] = 0 THEN s[1]
              ELSE IF addr < ranges[s[1] + half + 1].start THEN search[<<s[1], half>>]
              ELSE search[<<s[1] + half + 1, s[2] - half - 1>>]
    IN  search[<<0, n>>]

\* The label found for an address, as a set of at most one.
Provider(addr) ==
    LET it == UpperBound(addr)
    IN  IF it > 0 /\ ranges[it].start <= addr /\ addr <= ranges[it].end
          THEN {ranges[it].label} ELSE {}

RangesNext == AddLine \/ Finalize
RangesOver == rtPc = "ready"

----------------------------------------------------------------------------
\* The addresses that agree with a line in its prefix.
Covered(line) == {a \in 0 .. Power[Bits] - 1 : a \div HostPart(line) = line.base \div HostPart(line)}

\* A label is that of a range with the address in it; and an address in a range
\* has one, unless in each of its ranges another is nested that ends below the
\* address: the search only looks at the range that starts last
\* (lookup_ip_provider).
ProviderExact ==
    rtPc = "ready" =>
       \A a \in 0 .. Power[Bits] - 1 :
          LET holding == {l \in given : a \in Covered(l)}
          IN  /\ Provider(a) \subseteq {l.label : l \in holding}
              /\ Provider(a) = {} => \A l \in holding : \E m \in given :
                    /\ Covered(m) \cap Covered(l) # {}
                    /\ \A b \in Covered(m) : b < a
=============================================================================
