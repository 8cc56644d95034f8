----------------------------- MODULE TargetScan -----------------------------
(***************************************************************************)
(* worker_thread (scan.cpp): the ports of one target are cut into batches  *)
(* of nearly equal size, receive_response is called for one batch after    *)
(* the other, and its results are merged.  All calls share one             *)
(* RetryBudgetState, whose counters steer the retry cap.                   *)
(*                                                                         *)
(* A call of receive_response is represented by what it promises           *)
(* (PortVerdicts): it decides the ports of its batch one by one and        *)
(* returns when all are decided or when it is interrupted.  Ports are      *)
(* named by their index in the vector ports.                               *)
(***************************************************************************)
EXTENDS Integers, Sequences, FiniteSets

CONSTANTS
    PortCounts,    \* values of ports.size()
    BatchSizes     \* values of main_batch_size: -b accepts positive numbers only

ASSUME TargetScanAssumption ==
    PortCounts \subseteq Nat \ {0} /\ BatchSizes \subseteq Nat \ {0}

VARIABLES
    total_ports, effective_batch_size,
    batches,         \* the ranges cut so far: records of start and end
    pos,             \* where the next range starts
    phase,           \* worker_thread: "split", "loop", "call" or "done"
    next,            \* the batches whose call has been started
    verdict,         \* what the calls so far decided about each port
    retried,         \* the ports that count as retried in their call
    budget,          \* RetryBudgetState: active_ports, ports_in_retry
    result,          \* RecPross of the target: how often each port is listed as open and
                     \* as filtered, and the number of closed ports
    terminate_flag, aborted

vars == <<total_ports, effective_batch_size, batches, pos, phase, next, verdict, retried,
          budget, result, terminate_flag, aborted>>
splitVars == <<total_ports, effective_batch_size, batches, pos>>

AllPorts == 0 .. total_ports - 1
Verdicts == {"Open", "Closed", "Filtered"}

Init ==
    /\ total_ports \in PortCounts /\ effective_batch_size \in BatchSizes
    /\ batches = <<>> /\ pos = 0
    /\ phase = "split" /\ next = 0
    /\ verdict = [p \in AllPorts |-> "None"]
    /\ retried = {}
    /\ budget = [active_ports |-> 0, ports_in_retry |-> 0]
    /\ result = [open_ports |-> [p \in AllPorts |-> 0], closed_ports |-> 0,
                 filtered_ports |-> [p \in AllPorts |-> 0]]
    /\ terminate_flag = FALSE /\ aborted = FALSE
-----------------------------------------------------------------------------
(***************************************************************************)
(* The balanced split: the first extra ranges get one port more.           *)
(***************************************************************************)
num_batches == (total_ports + effective_batch_size - 1) \div effective_batch_size
base_size == total_ports \div num_batches
extra == total_ports % num_batches

\* Fault: the remainder is given to nobody.
this_size_floor(i) == base_size

this_size(i) == base_size + (IF i < extra THEN 1 ELSE 0)

Split ==
    /\ phase = "split" /\ Len(batches) < num_batches
    /\ LET stop == pos + this_size(Len(batches))
       IN  batches' = Append(batches, [start |-> pos, end |-> stop]) /\ pos' = stop
    /\ UNCHANGED <<total_ports, effective_batch_size, phase, next, verdict, retried, budget,
                   result, terminate_flag, aborted>>

SplitDone ==
    /\ phase = "split" /\ Len(batches) = num_batches
    /\ phase' = "loop"
    /\ UNCHANGED <<splitVars, next, verdict, retried, budget, result, terminate_flag, aborted>>
-----------------------------------------------------------------------------
(***************************************************************************)
(* The loop over the batches.                                              *)
(***************************************************************************)
PortsOf(range) == range.start .. range.end - 1
Batch == PortsOf(batches[next])
Undecided(S) == {p \in S : verdict[p] \in {"None", "Established"}}

StartBatch ==
    /\ phase = "loop" /\ next < Len(batches) /\ ~terminate_flag
    /\ phase' = "call"
    /\ next' = next + 1
    /\ budget' = [budget EXCEPT !.active_ports = @ + Cardinality(PortsOf(batches[next + 1]))]
    /\ UNCHANGED <<splitVars, verdict, retried, result, terminate_flag, aborted>>

\* Inside the call: the first retry of a port.
Retry(p) ==
    /\ phase = "call" /\ p \in Batch \ retried /\ verdict[p] = "None"
    /\ retried' = retried \cup {p}
    /\ budget' = [budget EXCEPT !.ports_in_retry = @ + 1]
    /\ UNCHANGED <<splitVars, phase, next, verdict, result, terminate_flag, aborted>>

\* Fault: the port keeps its share of the retry budget.
SettleLeaks(p) == budget' = [budget EXCEPT !.active_ports = @ - 1]

Settle(p) ==
    budget' = [active_ports |-> budget.active_ports - 1,
               ports_in_retry |-> budget.ports_in_retry - (IF p \in retried THEN 1 ELSE 0)]

\* Inside the call, with -G: the handshake reports the port as open, the teardown makes
\* it final.
Establish(p) ==
    /\ phase = "call" /\ p \in Batch /\ verdict[p] = "None"
    /\ verdict' = [verdict EXCEPT ![p] = "Established"]
    /\ UNCHANGED <<splitVars, phase, next, retried, budget, result, terminate_flag, aborted>>

\* Inside the call: a port gets its verdict and is final.
Decide(p, v) ==
    /\ phase = "call" /\ p \in Undecided(Batch)
    /\ verdict[p] = "Established" => v = "Open"
    /\ verdict' = [verdict EXCEPT ![p] = v]
    /\ Settle(p)
    /\ UNCHANGED <<splitVars, phase, next, retried, result, terminate_flag, aborted>>

ReportedAs(p, v) == verdict[p] = v \/ (v = "Open" /\ verdict[p] = "Established")

\* The vector list with the ports of the batch appended that were decided as v.
Extended(list, v) ==
    [p \in AllPorts |-> list[p] + (IF p \in Batch /\ ReportedAs(p, v) THEN 1 ELSE 0)]

\* Fault: what a call has decided is added again and again.
MergeAllStarted ==
    result' = [open_ports |-> [p \in AllPorts |-> result.open_ports[p]
                                 + (IF ReportedAs(p, "Open") THEN 1 ELSE 0)],
               closed_ports |-> result.closed_ports
                                + Cardinality({p \in Batch : verdict[p] = "Closed"}),
               filtered_ports |-> Extended(result.filtered_ports, "Filtered")]

\* batch_result is added to result.
Merge ==
    result' = [open_ports |-> Extended(result.open_ports, "Open"),
               closed_ports |-> result.closed_ports
                                + Cardinality({p \in Batch : verdict[p] = "Closed"}),
               filtered_ports |-> Extended(result.filtered_ports, "Filtered")]

\* The call returns: everything decided, or a signal.
CallReturns ==
    /\ phase = "call" /\ (Undecided(Batch) = {} \/ terminate_flag)
    /\ Merge
    /\ phase' = "loop"
    /\ UNCHANGED <<splitVars, next, verdict, retried, budget, terminate_flag, aborted>>

\* The call returns because of a fatal ICMP error: what it had decided is merged, and
\* the undecided ports stay in the budget.
CallAborts ==
    /\ phase = "call"
    /\ Merge
    /\ phase' = "loop"
    /\ aborted' = TRUE
    /\ UNCHANGED <<splitVars, next, verdict, retried, budget, terminate_flag>>

\* Fault: the last batch is left out.
LoopEndEarly ==
    /\ phase = "loop" /\ (next + 1 >= Len(batches) \/ terminate_flag)
    /\ phase' = "done"
    /\ UNCHANGED <<splitVars, next, verdict, retried, budget, result, terminate_flag, aborted>>

LoopEnd ==
    /\ phase = "loop" /\ (next = Len(batches) \/ terminate_flag)
    /\ phase' = "done"
    /\ UNCHANGED <<splitVars, next, verdict, retried, budget, result, terminate_flag, aborted>>

Terminate ==
    /\ phase # "done" /\ ~terminate_flag
    /\ terminate_flag' = TRUE
    /\ UNCHANGED <<splitVars, phase, next, verdict, retried, budget, result, aborted>>

Done == phase = "done" /\ UNCHANGED vars

Next ==
    \/ Split \/ SplitDone \/ StartBatch \/ CallReturns \/ CallAborts \/ LoopEnd
    \/ \E p \in AllPorts : Retry(p) \/ Establish(p) \/ \E v \in Verdicts : Decide(p, v)
    \/ Terminate \/ Done

Spec == Init /\ [][Next]_vars
-----------------------------------------------------------------------------
(***************************************************************************)
(* Properties.                                                             *)
(***************************************************************************)
Started == {p \in AllPorts : \E i \in 1 .. next : p \in PortsOf(batches[i])}
Merged == {p \in Started : phase # "call" \/ p \notin Batch}
With(S, v) == {p \in S : ReportedAs(p, v)}

\* The values of the variables.
TypeOK ==
    /\ total_ports \in PortCounts /\ effective_batch_size \in BatchSizes
    /\ batches \in Seq([start : Nat, end : Nat]) /\ pos \in Nat
    /\ phase \in {"split", "loop", "call", "done"}
    /\ next \in 0 .. Len(batches) /\ (phase = "call" => next > 0)
    /\ verdict \in [AllPorts -> Verdicts \cup {"None", "Established"}]
    /\ retried \subseteq AllPorts
    /\ budget \in [active_ports : Int, ports_in_retry : Int]
    /\ result \in [open_ports : [AllPorts -> Nat], closed_ports : Nat,
                   filtered_ports : [AllPorts -> Nat]]
    /\ terminate_flag \in BOOLEAN /\ aborted \in BOOLEAN

\* The split cuts the ports into consecutive ranges, none empty and none larger than the
\* batch size, that differ by at most one port and together cover every port once: no
\* port is left out or scanned twice, whatever the remainder.
BatchesTile ==
    /\ \A i \in 1 .. Len(batches) :
         /\ batches[i].start = IF i = 1 THEN 0 ELSE batches[i - 1].end
         /\ batches[i].end - batches[i].start \in 1 .. effective_batch_size
         /\ batches[i].end - batches[i].start - base_size \in {0, 1}
    /\ pos = IF batches = <<>> THEN 0 ELSE batches[Len(batches)].end
    /\ phase # "split" => pos = total_ports

\* result holds the verdicts of the calls that returned, each port once: no batch
\* overwrites or repeats what another one found.
ResultExact ==
    /\ \A p \in AllPorts :
         /\ result.open_ports[p] = IF p \in With(Merged, "Open") THEN 1 ELSE 0
         /\ result.filtered_ports[p] = IF p \in With(Merged, "Filtered") THEN 1 ELSE 0
    /\ result.closed_ports = Cardinality(With(Merged, "Closed"))

\* The shared budget counts exactly the undecided ports of the batches started, and
\* those of them that were retried, so the ratio that sets the retry cap never
\* exceeds one; ports of an aborted call stay in both counts.
BudgetExact ==
    /\ budget.active_ports = Cardinality(Undecided(Started))
    /\ budget.ports_in_retry = Cardinality(Undecided(Started) \cap retried)

\* A target that was neither interrupted nor aborted is classified completely.
AllClassified ==
    phase = "done" /\ ~terminate_flag /\ ~aborted =>
      result.closed_ports + Cardinality({p \in AllPorts : result.open_ports[p] > 0})
        + Cardinality({p \in AllPorts : result.filtered_ports[p] > 0}) = total_ports
=============================================================================
