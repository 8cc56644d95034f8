------------------------------ MODULE SslEnum ------------------------------
(***************************************************************************)
(* TLS enumeration: run_ssl_enum_batch() makes a flat list of handshakes   *)
(* (per target and port one primary handshake and one for each forced      *)
(* version, and one without SNI), run_ssl_jobs() runs them with a bounded  *)
(* number of connections, and the flat results are put back together.     *)
(***************************************************************************)
EXTENDS Integers, FiniteSets, Sequences, SequencesExt

CONSTANTS
    SslTargets,     \* sequence of [family, name]: family "bad" is not an address
    SslPorts,       \* sequence of ports
    SslVersions,    \* sequence of forced versions
    SslConcurrency,
    Certs           \* certificates a server may present

Unattempted == "not attempted"
Failed == "error"

VARIABLES
    sslPc,          \* "launch", "run", "done"
    sslNext,        \* next_job
    sslFlight,      \* jobs in flight: index -> "connecting", "handshaking"
    flat,           \* results of the jobs
    handshakes,     \* target -> port -> [cert, versions]
    sniChecked, sameSni, dualChecked, sameDual

sslVars == <<sslPc, sslNext, sslFlight, flat, handshakes, sniChecked, sameSni,
             dualChecked, sameDual>>

----------------------------------------------------------------------------
\* The job list, target by target.

JobsOfPort(t, p) ==
    <<[target |-> t, port |-> p, kind |-> "primary", version |-> 0]>> \o
    [v \in 1 .. Len(SslVersions) |->
        [target |-> t, port |-> p, kind |-> "version", version |-> SslVersions[v]]]

JobsOfTarget(t) ==
    FlattenSeq([p \in 1 .. Len(SslPorts) |-> JobsOfPort(t, SslPorts[p])]) \o
    IF SslTargets[t].name = "" THEN <<>>
    ELSE <<[target |-> t, port |-> SslPorts[1], kind |-> "variance", version |-> 0]>>

JobList == FlattenSeq([t \in 1 .. Len(SslTargets) |->
              IF SslTargets[t].family = "bad" THEN <<>> ELSE JobsOfTarget(t)])

JobIds == 1 .. Len(JobList)
TargetIds == 1 .. Len(SslTargets)
PortSet == ToSet(SslPorts)
NoHandshake == [cert |-> Unattempted, versions |-> {}]

SslInit ==
    /\ sslPc = "launch" /\ sslNext = 1
    /\ sslFlight = <<>>
    /\ flat = [j \in JobIds |-> Unattempted]
    /\ handshakes = [t \in TargetIds |-> [p \in PortSet |-> NoHandshake]]
    /\ sniChecked = {} /\ sameSni = {} /\ dualChecked = FALSE /\ sameDual = FALSE

----------------------------------------------------------------------------
Busy == DOMAIN sslFlight
merged == <<handshakes, sniChecked, sameSni, dualChecked, sameDual>>

CanLaunch == sslPc = "launch" /\ sslNext <= Len(JobList) /\ Cardinality(Busy) < SslConcurrency

SslLaunch ==
    /\ CanLaunch
    /\ sslFlight' = [j \in Busy \cup {sslNext} |->
                       IF j = sslNext THEN "connecting" ELSE sslFlight[j]]
    /\ sslNext' = sslNext + 1
    /\ UNCHANGED <<sslPc, flat, merged>>

\* Fault: a job without a socket is passed over in silence.
SslLaunchFailsQuietly ==
    /\ CanLaunch
    /\ sslNext' = sslNext + 1
    /\ UNCHANGED <<sslPc, sslFlight, flat, merged>>

\* No socket, or connect() fails at once: the job has its error, on to the next.
SslLaunchFails ==
    /\ CanLaunch
    /\ flat' = [flat EXCEPT ![sslNext] = Failed]
    /\ sslNext' = sslNext + 1
    /\ UNCHANGED <<sslPc, sslFlight, merged>>

SslFull ==
    /\ sslPc = "launch" /\ ~CanLaunch
    /\ sslPc' = "run"
    /\ UNCHANGED <<sslNext, sslFlight, flat, merged>>

\* A job is over: its connection is closed and its place is filled again.
SslFinish(j, outcome) ==
    /\ flat' = [flat EXCEPT ![j] = outcome]
    /\ sslFlight' = [k \in Busy \ {j} |-> sslFlight[k]]
    /\ sslPc' = "launch"
    /\ UNCHANGED <<sslNext, merged>>

\* Connected, and the handshake under way: it may want to read or to write.
SslProgress ==
    /\ sslPc = "run"
    /\ \E j \in Busy : sslFlight' = [sslFlight EXCEPT ![j] = "handshaking"]
    /\ UNCHANGED <<sslPc, sslNext, flat, merged>>

\* The handshake is done, in the step that found the connection or a later one.
SslSuccess ==
    /\ sslPc = "run"
    /\ \E j \in Busy, c \in Certs : SslFinish(j, c)

\* An error of the connection or of TLS, or no certificate.
SslError ==
    /\ sslPc = "run"
    /\ \E j \in Busy : SslFinish(j, Failed)

\* The deadline of the job.
SslTimeout(j) ==
    /\ sslPc = "run" /\ j \in Busy
    /\ SslFinish(j, Failed)

----------------------------------------------------------------------------
\* run_ssl_enum_batch after the jobs.

Result(t, p, kind, v) ==
    flat[CHOOSE j \in JobIds : JobList[j] = [target |-> t, port |-> p, kind |-> kind,
                                              version |-> v]]

Good(t) == SslTargets[t].family # "bad"
Named(t) == Good(t) /\ SslTargets[t].name # ""

\* The targets of a name that have a certificate on the first port, by family.
Stack(fam) == {t \in TargetIds : /\ Named(t) /\ SslTargets[t].family = fam
                                 /\ Result(t, SslPorts[1], "primary", 0) \in Certs}

SslMerge ==
    /\ sslPc = "run" /\ Busy = {}
    /\ handshakes' = [t \in TargetIds |-> [p \in PortSet |->
          IF Good(t)
            THEN [cert |-> Result(t, p, "primary", 0),
                  versions |-> {v \in ToSet(SslVersions) :
                                  Result(t, p, "version", v) \in Certs}]
            ELSE [cert |-> Failed, versions |-> {}]]]
    /\ sniChecked' = {t \in TargetIds : Named(t)}
    /\ sameSni' = {t \in sniChecked' :
                     /\ Result(t, SslPorts[1], "primary", 0) \in Certs
                     /\ Result(t, SslPorts[1], "variance", 0)
                          = Result(t, SslPorts[1], "primary", 0)}
    /\ dualChecked' = (Stack("v4") # {} /\ Stack("v6") # {})
    /\ sameDual' = (dualChecked' /\
          \E t \in Stack("v4"), u \in Stack("v6") :
             Result(t, SslPorts[1], "primary", 0) = Result(u, SslPorts[1], "primary", 0))
    /\ sslPc' = "done"
    /\ UNCHANGED <<sslNext, sslFlight, flat>>

SslNext == \/ SslLaunch \/ SslLaunchFails \/ SslFull \/ SslProgress \/ SslSuccess
           \/ SslError \/ SslMerge

SslOver == sslPc = "done"

----------------------------------------------------------------------------
\* Every handshake of the list gets a verdict, whichever sockets, connections
\* or handshakes fail before it, and no connection stays open.
EveryHandshakeTried ==
    SslOver => /\ Busy = {}
               /\ \A j \in JobIds : flat[j] # Unattempted
               /\ \A t \in TargetIds, p \in PortSet : handshakes[t][p].cert # Unattempted
=============================================================================
