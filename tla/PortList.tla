------------------------------ MODULE PortList ------------------------------
(***************************************************************************)
(* The ports of a scan: what -p and --exclude-ports name (parse_ports), or *)
(* the default file when -p is not given (read_ports_from_file), and the   *)
(* difference that main() computes over the two sorted lists.              *)
(***************************************************************************)
EXTENDS Integers, FiniteSets, Sequences, SequencesExt

CONSTANTS
    MaxPort,       \* 65535
    PortWords,     \* words between the commas: [lo, hi], [port] or [bad]
    MaxWords,      \* bound on the words of an option
    MaxOptions,    \* bound on the options
    FileLines      \* lines of ports.txt, as sequences of digits

VARIABLES
    plPc,          \* "args", the option that is parsed, "ports", "scan", "refused"
    built,         \* ports of parse_ports so far
    wordsRead,
    optionsRead,
    parsed,        \* config.parsed_ports
    excluded,      \* config.excluded_ports
    useFile,       \* config.use_file
    toScan,        \* ports
    named,         \* history: the ports -p, or else the file, asks for
    barred         \* history: those --exclude-ports names

portVars == <<plPc, built, wordsRead, optionsRead, parsed, excluded, useFile, toScan, named, barred>>

PortsInit ==
    /\ plPc = "args" /\ built = <<>> /\ wordsRead = 0 /\ optionsRead = 0
    /\ parsed = <<>> /\ excluded = <<>> /\ useFile = TRUE
    /\ toScan = <<>> /\ named = {} /\ barred = {}

Valid(p) == p \in 1 .. MaxPort

----------------------------------------------------------------------------
\* What a word adds to the list; a word out of range, reversed or malformed
\* is reported and adds nothing.
Expand(w) ==
    CASE w.kind = "port" /\ Valid(w.port) -> <<w.port>>
      [] w.kind = "range" /\ Valid(w.lo) /\ Valid(w.hi) /\ w.lo <= w.hi ->
            [i \in 1 .. w.hi - w.lo + 1 |-> w.lo + i - 1]
      [] OTHER -> <<>>

\* std::sort: the element of rank k is in place k; equal ones keep their order.
Rank(s, i) == Cardinality({j \in DOMAIN s : s[j] < s[i] \/ (s[j] = s[i] /\ j <= i)})
Sorted(s) == [k \in DOMAIN s |-> s[CHOOSE i \in DOMAIN s : Rank(s, i) = k]]

\* std::unique, which only sees neighbours.
Unique(s) ==
    LET kept[i \in 0 .. Len(s)] ==
          IF i = 0 THEN <<>>
          ELSE IF i > 1 /\ s[i] = s[i - 1] THEN kept[i - 1]
          ELSE Append(kept[i - 1], s[i])
    IN  kept[Len(s)]

\* Fault: neighbours are compared before the list is sorted.
NormalSwapped(s) == Sorted(Unique(s))

\* The tail of parse_ports and of read_ports_from_file.
Normal(s) == Unique(Sorted(s))

\* std::set_difference of two sorted lists, from s[p[1]] and x[p[2]] on.
Difference(s, x) ==
    LET d[p \in (1 .. Len(s) + 1) \X (1 .. Len(x) + 1)] ==
          IF p[1] > Len(s) THEN <<>>
          ELSE IF p[2] > Len(x) \/ s[p[1]] < x[p[2]]
                 THEN <<s[p[1]]>> \o d[<<p[1] + 1, p[2]>>]
          ELSE IF x[p[2]] < s[p[1]] THEN d[<<p[1], p[2] + 1>>]
          ELSE d[<<p[1] + 1, p[2] + 1>>]
    IN  d[<<1, 1>>]

\* The number that digits write.
Value(digits) ==
    LET v[n \in 0 .. Len(digits)] == IF n = 0 THEN 0 ELSE 10 * v[n - 1] + digits[n]
    IN  v[Len(digits)]

\* The number a line begins with, or 0 when it leaves the range of ports.
Decode(digits) ==
    LET v[n \in 0 .. Len(digits)] ==
          IF n = 0 THEN 0
          ELSE IF v[n - 1] < 0 \/ v[n - 1] > MaxPort \div 10 THEN -1
          ELSE LET next == 10 * v[n - 1] + digits[n]
               IN  IF next > MaxPort THEN -1 ELSE next
    IN  IF v[Len(digits)] < 0 THEN 0 ELSE v[Len(digits)]

\* The ports of a file: a line whose number is no port is reported and adds nothing.
ReadLines(f) ==
    LET read[i \in 0 .. Len(f)] ==
          IF i = 0 THEN <<>>
          ELSE IF Decode(f[i]) > 0 THEN Append(read[i - 1], Decode(f[i]))
          ELSE read[i - 1]
    IN  read[Len(f)]

----------------------------------------------------------------------------
\* An option that is given again replaces what it gave before.
BeginOption ==
    /\ plPc = "args" /\ optionsRead < MaxOptions
    /\ \E o \in {"-p", "--exclude-ports"} :
          /\ plPc' = o
          /\ IF o = "-p" THEN useFile' = FALSE /\ named' = {} /\ UNCHANGED barred
                         ELSE barred' = {} /\ UNCHANGED <<useFile, named>>
    /\ built' = <<>> /\ wordsRead' = 0 /\ optionsRead' = optionsRead + 1
    /\ UNCHANGED <<parsed, excluded, toScan>>

ReadWord ==
    /\ plPc \in {"-p", "--exclude-ports"} /\ wordsRead < MaxWords
    /\ \E w \in PortWords :
          /\ built' = built \o Expand(w)
          /\ IF plPc = "-p" THEN named' = named \cup ToSet(Expand(w)) /\ UNCHANGED barred
                            ELSE barred' = barred \cup ToSet(Expand(w)) /\ UNCHANGED named
    /\ wordsRead' = wordsRead + 1
    /\ UNCHANGED <<plPc, optionsRead, parsed, excluded, useFile, toScan>>

EndOption ==
    /\ plPc \in {"-p", "--exclude-ports"} /\ wordsRead > 0
    /\ plPc' = "args"
    /\ IF plPc = "-p" THEN parsed' = Normal(built) /\ UNCHANGED excluded
                      ELSE excluded' = Normal(built) /\ UNCHANGED parsed
    /\ built' = <<>>
    /\ UNCHANGED <<wordsRead, optionsRead, useFile, toScan, named, barred>>

\* Without -p the file gives the ports; it may be missing or empty.
TakePorts ==
    /\ plPc = "args"
    /\ plPc' = "ports"
    /\ IF ~useFile THEN toScan' = parsed /\ UNCHANGED named
       ELSE \E f \in {<<>>} \cup [1 .. 2 -> FileLines] :
              /\ toScan' = Normal(ReadLines(f))
              /\ named' = {Value(f[i]) : i \in DOMAIN f} \cap 1 .. MaxPort
    /\ UNCHANGED <<built, wordsRead, optionsRead, parsed, excluded, useFile, barred>>

\* main sorts both lists again; nothing left to scan ends the program.
Exclude ==
    /\ plPc = "ports"
    /\ toScan' = IF excluded = <<>> THEN toScan
                 ELSE Difference(Sorted(toScan), Sorted(excluded))
    /\ plPc' = IF toScan' = <<>> THEN "refused" ELSE "scan"
    /\ UNCHANGED <<built, wordsRead, optionsRead, parsed, excluded, useFile, named, barred>>

PortsNext == BeginOption \/ ReadWord \/ EndOption \/ TakePorts \/ Exclude
PortsOver == plPc \in {"scan", "refused"}

----------------------------------------------------------------------------
\* Every port asked for and not excluded is scanned, once, and no other,
\* however the words overlap; the scan is refused only when there is none.
PortsExact ==
    /\ plPc = "scan" =>
          /\ ToSet(toScan) = named \ barred
          /\ \A i, j \in DOMAIN toScan : i < j => toScan[i] < toScan[j]
    /\ plPc = "refused" => named \subseteq barred
=============================================================================
