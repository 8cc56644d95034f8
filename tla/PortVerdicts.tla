---------------------------- MODULE PortVerdicts ----------------------------
(***************************************************************************)
(* What one call of receive_response promises about its batch: every port  *)
(* gets at most one verdict, a verdict is final, and the call ends only    *)
(* when every port has its verdict or the call was interrupted.            *)
(***************************************************************************)
CONSTANTS Ports

VARIABLES
    verdict,      \* the state each port was reported in, "None" so far
    ended,        \* has the main loop been left?
    interrupted   \* by a signal or a fatal ICMP error

vars == <<verdict, ended, interrupted>>

Init ==
    /\ verdict = [p \in Ports |-> "None"]
    /\ ended = FALSE
    /\ interrupted = FALSE

Decide(p, v) ==
    /\ ~ended /\ verdict[p] = "None"
    /\ verdict' = [verdict EXCEPT ![p] = v]
    /\ UNCHANGED <<ended, interrupted>>

Interrupt ==
    /\ ~interrupted
    /\ interrupted' = TRUE
    /\ UNCHANGED <<verdict, ended>>

End ==
    /\ ~ended
    /\ interrupted \/ \A p \in Ports : verdict[p] # "None"
    /\ ended' = TRUE
    /\ UNCHANGED <<verdict, interrupted>>

\* A fatal ICMP error interrupts the call and ends it in one step.
InterruptAndEnd ==
    /\ ~ended
    /\ ended' = TRUE /\ interrupted' = TRUE
    /\ UNCHANGED verdict

Next ==
    \/ \E p \in Ports, v \in {"Open", "Closed", "Filtered"} : Decide(p, v)
    \/ Interrupt \/ End \/ InterruptAndEnd

Spec == Init /\ [][Next]_vars
=============================================================================
