---------------------------- MODULE Completions ----------------------------
(***************************************************************************)
(* What a client of the asynchronous I/O engine may rely on: an operation  *)
(* handed to submit() is completed once, with a result that fits how far   *)
(* it came; one that is cancelled before it starts never connects; nothing *)
(* is cancelled that nobody asked for while the service is up; and when    *)
(* the service is down nothing is left to complete.                        *)
(***************************************************************************)
EXTENDS Naturals

CONSTANTS
    Ops,       \* the operations clients may submit
    TlsOps,    \* those that speak TLS
    MayFail    \* may the service lose a worker by itself?

VARIABLES
    phase,      \* how far each operation is
    result,     \* what its callback is given, "PENDING" before
    callbacks,  \* how often its callback has run
    asked,      \* has its client asked to cancel it?
    service     \* "up", "failing" (a worker is lost), "stopping" or "down"

vars == <<phase, result, callbacks, asked, service>>

\* The phases in which an operation is still to be completed: queued; connecting,
\* shaking hands or sending; waiting for the first byte; receiving.
Live == {"accepted", "started", "waiting", "answered"}

Init ==
    /\ phase = [o \in Ops |-> "new"]
    /\ result = [o \in Ops |-> "PENDING"]
    /\ callbacks = [o \in Ops |-> 0]
    /\ asked = [o \in Ops |-> FALSE]
    /\ service = "up"

Accept(o) ==
    /\ service # "down" /\ phase[o] = "new"
    /\ phase' = [phase EXCEPT ![o] = "accepted"]
    /\ UNCHANGED <<result, callbacks, asked, service>>

Ask(o) ==
    /\ ~asked[o]
    /\ asked' = [asked EXCEPT ![o] = TRUE]
    /\ UNCHANGED <<phase, result, callbacks, service>>

\* A connect that succeeds at once may have sent its request when it is started.
Start(o) ==
    /\ phase[o] = "accepted" /\ ~asked[o]
    /\ \E p \in {"started", "waiting"} : phase' = [phase EXCEPT ![o] = p]
    /\ UNCHANGED <<result, callbacks, asked, service>>

Proceed(o) ==
    /\ \/ phase[o] = "started" /\ phase' = [phase EXCEPT ![o] = "waiting"]
       \/ phase[o] = "waiting" /\ phase' = [phase EXCEPT ![o] = "answered"]
    /\ UNCHANGED <<result, callbacks, asked, service>>

Failures == {"CONNECT_FAILED", "TLS_FAILED", "SEND_FAILED", "TIMEOUT"}
Results == Failures \cup {"SUCCESS", "CANCELLED"}

\* May o end with r?  What was received is never lost, a request that was sent does not
\* fail to be sent, only TLS fails in TLS, and CANCELLED has a cause.
MayEnd(o, r) ==
    \/ /\ r \in Failures /\ (r = "TLS_FAILED" => o \in TlsOps)
       /\ phase[o] = "started" \/ (phase[o] = "accepted" /\ ~asked[o])
    \/ r \in {"SUCCESS", "TIMEOUT"} /\ phase[o] = "waiting"
    \/ r = "SUCCESS" /\ phase[o] = "answered"
    \/ r = "CANCELLED" /\ phase[o] \in Live /\ (asked[o] \/ service # "up")

\* The callbacks of the operations S run.
Called(S) ==
    /\ callbacks' = [o \in Ops |-> callbacks[o] + (IF o \in S THEN 1 ELSE 0)]
    /\ phase' = [o \in Ops |-> IF o \in S THEN "completed" ELSE phase[o]]
    /\ UNCHANGED asked

CancelledAll(S) == result' = [o \in Ops |-> IF o \in S THEN "CANCELLED" ELSE result[o]]

Complete(S) ==
    /\ Called(S)
    /\ \E r \in [S -> Results] :
         /\ \A o \in S : MayEnd(o, r[o])
         /\ result' = [o \in Ops |-> IF o \in S THEN r[o] ELSE result[o]]
    /\ UNCHANGED service

\* Submitted to a service that has closed: completed at once.
Refuse(o) ==
    /\ service \in {"stopping", "down"} /\ phase[o] = "new"
    /\ Called({o}) /\ CancelledAll({o})
    /\ UNCHANGED service

Fail ==
    /\ MayFail /\ service = "up"
    /\ service' = "failing"
    /\ UNCHANGED <<phase, result, callbacks, asked>>

Stop ==
    /\ service \in {"up", "failing"}
    /\ service' = "stopping"
    /\ UNCHANGED <<phase, result, callbacks, asked>>

\* What is left when the service goes down is cancelled.
Unanswered == {o \in Ops : phase[o] \in Live}
Close ==
    /\ service = "stopping"
    /\ service' = "down"
    /\ Called(Unanswered) /\ CancelledAll(Unanswered)

Next ==
    \/ \E S \in SUBSET Ops : Complete(S)
    \/ \E o \in Ops : Accept(o) \/ Ask(o) \/ Start(o) \/ Proceed(o) \/ Refuse(o)
    \/ Fail \/ Stop \/ Close

Spec == Init /\ [][Next]_vars
=============================================================================
