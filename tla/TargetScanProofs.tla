--------------------------- MODULE TargetScanProofs ---------------------------
(***************************************************************************)
(* The batches of a target, for any number of ports and any batch size:    *)
(* worker_thread's balanced split covers every port exactly once, the      *)
(* shared retry budget counts the undecided ports, the merged result holds *)
(* every verdict once, and an undisturbed target is classified completely. *)
(***************************************************************************)
EXTENDS TargetScan, SequenceTheorems, FiniteSetTheorems, TLAPS

\* The types the split depends on.
SplitType ==
    /\ total_ports \in Nat \ {0} /\ effective_batch_size \in Nat \ {0}
    /\ batches \in Seq([start : Nat, end : Nat]) /\ pos \in Nat
    /\ phase \in {"split", "loop", "call", "done"}

\* After k ranges, k * base_size ports are dealt out and one more for each of the first
\* extra ranges: this is what makes the ranges end exactly at the last port.
Dealt(k) == k * base_size + (IF k < extra THEN k ELSE extra)

SplitInv ==
    /\ SplitType /\ BatchesTile
    /\ Len(batches) <= num_batches /\ pos = Dealt(Len(batches))
    /\ phase # "split" => Len(batches) = num_batches

LEMMA DivMod ==
    ASSUME NEW a \in Nat, NEW b \in Nat \ {0}
    PROVE  /\ a \div b \in Nat /\ a % b \in Nat /\ a % b < b
           /\ a = b * (a \div b) + (a % b)
OBVIOUS

LEMMA Monotone ==
    ASSUME NEW a \in Nat, NEW b \in Nat, NEW c \in Nat, a <= b
    PROVE  a * c <= b * c
OBVIOUS

\* The arithmetic of the split.
LEMMA SplitArithmetic ==
    ASSUME SplitType
    PROVE  /\ num_batches \in Nat \ {0} /\ base_size \in Nat \ {0}
           /\ extra \in Nat /\ extra < num_batches
           /\ total_ports = num_batches * base_size + extra
           /\ base_size <= effective_batch_size
           /\ extra > 0 => base_size + 1 <= effective_batch_size
<1> DEFINE n == total_ports
           b == effective_batch_size
           m == num_batches
<1>1. n \in Nat /\ n >= 1 /\ b \in Nat /\ b >= 1
  BY DEF SplitType
<1>2. n + b - 1 \in Nat
  BY <1>1
<1>3. /\ m \in Nat /\ (n + b - 1) % b \in Nat /\ (n + b - 1) % b < b
      /\ n + b - 1 = b * m + ((n + b - 1) % b)
  BY <1>1, <1>2, DivMod DEF num_batches
<1> HIDE DEF m
<1>4. b * m \in Nat /\ n <= b * m /\ b * m <= n + b - 1
  BY <1>1, <1>3
<1>5. m >= 1
  <2>1. CASE m = 0
    BY <1>1, <1>4, <2>1
  <2> QED BY <1>3, <2>1
<1>6. m <= n
  <2>1. SUFFICES ASSUME m >= n + 1 PROVE FALSE
    BY <1>1, <1>3
  <2>2. (n + 1) * b <= m * b
    BY <1>1, <1>3, <2>1, Monotone
  <2>3. (n + 1) * b = n * b + b /\ m * b = b * m
    BY <1>1, <1>3
  <2>4. n * 1 <= n * b /\ n * 1 = n
    <3>1. 1 * n <= b * n
      BY <1>1, Monotone
    <3> QED BY <1>1, <3>1
  <2>5. n * b \in Nat
    BY <1>1
  <2> QED BY <1>1, <1>4, <2>2, <2>3, <2>4, <2>5
<1>7. /\ base_size \in Nat /\ extra \in Nat /\ extra < m
      /\ n = m * base_size + extra
  BY <1>1, <1>3, <1>5, DivMod DEF base_size, extra, m
<1> DEFINE q == base_size
           r == extra
<1> HIDE DEF q, r
<1>8. q \in Nat /\ r \in Nat /\ r < m /\ n = m * q + r
  BY <1>7 DEF q, r
<1>9. q >= 1
  <2>1. CASE q = 0
    BY <1>3, <1>6, <1>8, <2>1
  <2> QED BY <1>8, <2>1
<1>10. q <= b /\ (r > 0 => q + 1 <= b)
  <2>1. ASSUME q >= b + 1 PROVE FALSE
    <3>1. (b + 1) * m <= q * m
      BY <1>1, <1>3, <1>8, <2>1, Monotone
    <3>2. (b + 1) * m = b * m + m /\ q * m = m * q
      BY <1>1, <1>3, <1>8
    <3>3. m * q \in Nat
      BY <1>3, <1>8
    <3> QED BY <1>1, <1>3, <1>4, <1>5, <1>8, <3>1, <3>2, <3>3
  <2>2. ASSUME r > 0, q = b PROVE FALSE
    <3>1. m * q = b * m
      BY <1>1, <1>3, <2>2
    <3> QED BY <1>3, <1>4, <1>8, <2>2, <3>1
  <2> QED BY <1>1, <1>8, <2>1, <2>2
<1> QED BY <1>3, <1>5, <1>8, <1>9, <1>10 DEF q, r, m

\* Dealing out one more range.
LEMMA DealtStep ==
    ASSUME SplitType, NEW k \in Nat, k < num_batches
    PROVE  /\ Dealt(k) \in Nat /\ Dealt(k + 1) = Dealt(k) + this_size(k)
           /\ this_size(k) \in 1 .. effective_batch_size /\ this_size(k) - base_size \in {0, 1}
           /\ Dealt(0) = 0 /\ Dealt(num_batches) = total_ports
<1>1. /\ num_batches \in Nat \ {0} /\ base_size \in Nat \ {0}
      /\ extra \in Nat /\ extra < num_batches
      /\ total_ports = num_batches * base_size + extra
      /\ base_size <= effective_batch_size
      /\ extra > 0 => base_size + 1 <= effective_batch_size
  BY SplitArithmetic
<1>2. effective_batch_size \in Nat
  BY DEF SplitType
<1> DEFINE q == base_size
           r == extra
<1> HIDE DEF q, r
<1>3. k * q \in Nat /\ (k + 1) * q = k * q + q /\ 0 * q = 0
  BY <1>1 DEF q
<1>4. \A j \in Nat : Dealt(j) = j * q + (IF j < r THEN j ELSE r)
  BY DEF Dealt, q, r
<1>5. this_size(k) = q + (IF k < r THEN 1 ELSE 0)
  BY DEF this_size, q, r
<1>6. q \in Nat /\ q >= 1 /\ r \in Nat /\ q <= effective_batch_size
        /\ (r > 0 => q + 1 <= effective_batch_size) /\ r < num_batches
        /\ total_ports = num_batches * q + r
  BY <1>1 DEF q, r
<1>7. Dealt(k) \in Nat /\ Dealt(k + 1) = Dealt(k) + this_size(k)
  <2>1. /\ Dealt(k) = k * q + (IF k < r THEN k ELSE r)
        /\ Dealt(k + 1) = (k * q + q) + (IF k + 1 < r THEN k + 1 ELSE r)
    BY <1>3, <1>4
  <2> DEFINE kq == k * q
  <2> HIDE DEF kq
  <2>2. /\ Dealt(k) = kq + (IF k < r THEN k ELSE r)
        /\ Dealt(k + 1) = (kq + q) + (IF k + 1 < r THEN k + 1 ELSE r)
        /\ kq \in Nat
    BY <1>3, <2>1 DEF kq
  <2>3. CASE k < r
    <3>1. (IF k + 1 < r THEN k + 1 ELSE r) = k + 1
      BY <1>6, <2>3
    <3> QED BY <1>5, <1>6, <2>2, <2>3, <3>1
  <2>4. CASE ~(k < r)
    <3>1. ~(k + 1 < r)
      BY <1>6, <2>4
    <3> QED BY <1>5, <1>6, <2>2, <2>4, <3>1
  <2> QED BY <2>3, <2>4
<1>8. this_size(k) \in 1 .. effective_batch_size /\ this_size(k) - q \in {0, 1}
  BY <1>2, <1>5, <1>6
<1>9. Dealt(0) = 0
  BY <1>3, <1>4, <1>6
<1>10. Dealt(num_batches) = total_ports
  BY <1>1, <1>4, <1>6
<1> QED BY <1>7, <1>8, <1>9, <1>10 DEF q

LEMMA SplitInit == Init => SplitInv
<1> SUFFICES ASSUME Init PROVE SplitInv
  OBVIOUS
<1>1. SplitType /\ Len(batches) = 0 /\ batches = <<>>
  BY TargetScanAssumption DEF Init, SplitType
<1>2. num_batches \in Nat \ {0}
  BY <1>1, SplitArithmetic
<1>3. Dealt(0) = 0
  BY <1>1, <1>2, DealtStep
<1> QED BY <1>1, <1>2, <1>3 DEF Init, SplitInv, BatchesTile

LEMMA SplitNext == SplitInv /\ [Next]_vars => SplitInv'
<1> SUFFICES ASSUME SplitInv, [Next]_vars PROVE SplitInv'
  OBVIOUS
<1> DEFINE k == Len(batches)
<1>1. SplitType /\ k \in Nat
  BY LenProperties DEF SplitInv, SplitType
<1>2. num_batches \in Nat /\ base_size \in Nat
  BY <1>1, SplitArithmetic
<1>3. CASE Split
  <2> DEFINE stop == pos + this_size(k)
             range == [start |-> pos, end |-> stop]
  <2>1. /\ k < num_batches /\ phase = "split" /\ phase' = phase
        /\ batches' = Append(batches, range) /\ pos' = stop
        /\ UNCHANGED <<total_ports, effective_batch_size>>
    BY <1>3 DEF Split
  <2>2. /\ UNCHANGED <<num_batches, base_size, extra>>
        /\ pos = Dealt(k) /\ pos \in Nat
    BY <2>1 DEF num_batches, base_size, extra, SplitInv, SplitType
  <2>3. /\ Dealt(k + 1) = pos + this_size(k)
        /\ this_size(k) \in 1 .. effective_batch_size /\ this_size(k) - base_size \in {0, 1}
        /\ effective_batch_size \in Nat
    BY <1>1, <2>1, <2>2, DealtStep DEF SplitType
  <2>4. stop \in Nat /\ range \in [start : Nat, end : Nat] /\ stop - pos = this_size(k)
    BY <2>2, <2>3
  <2> HIDE DEF range
  <2>5. /\ batches' \in Seq([start : Nat, end : Nat]) /\ Len(batches') = k + 1
        /\ \A i \in 1 .. k : batches'[i] = batches[i]
        /\ batches'[k + 1] = range
    BY <1>1, <2>1, <2>4, AppendProperties DEF SplitType
  <2>6. range.start = pos /\ range.end = stop
    BY DEF range
  <2> HIDE DEF stop, k
  <2>7. SplitType'
    BY <1>1, <2>1, <2>4, <2>5 DEF SplitType
  <2>8. pos' = Dealt(Len(batches))' /\ Len(batches') <= num_batches'
    <3>1. Dealt(Len(batches))' = Dealt(k + 1)
      BY <2>2, <2>5 DEF Dealt
    <3> QED BY <1>1, <1>2, <2>1, <2>2, <2>3, <2>5, <3>1 DEF stop
  <2>9. /\ \A i \in 1 .. k :
             /\ batches[i].start = IF i = 1 THEN 0 ELSE batches[i - 1].end
             /\ batches[i].end - batches[i].start \in 1 .. effective_batch_size
             /\ batches[i].end - batches[i].start - base_size \in {0, 1}
        /\ pos = IF k = 0 THEN 0 ELSE batches[k].end
    <3>1. batches = <<>> <=> k = 0
      BY <1>1, EmptySeq DEF k, SplitType
    <3> QED BY <3>1 DEF SplitInv, BatchesTile, k
  <2>10. \A i \in 1 .. k + 1 :
             /\ batches'[i].start = IF i = 1 THEN 0 ELSE batches'[i - 1].end
             /\ batches'[i].end - batches'[i].start \in 1 .. effective_batch_size
             /\ batches'[i].end - batches'[i].start - base_size \in {0, 1}
    <3>1. ASSUME NEW i \in 1 .. k
          PROVE  /\ batches'[i].start = IF i = 1 THEN 0 ELSE batches'[i - 1].end
                 /\ batches'[i].end - batches'[i].start \in 1 .. effective_batch_size
                 /\ batches'[i].end - batches'[i].start - base_size \in {0, 1}
      <4>1. i # 1 => i - 1 \in 1 .. k
        BY <1>1
      <4> QED BY <2>5, <2>9, <4>1
    <3>2. batches'[k + 1].start = IF k + 1 = 1 THEN 0 ELSE batches'[k + 1 - 1].end
      <4>1. CASE k = 0
        BY <2>5, <2>6, <2>9, <4>1
      <4>2. CASE k # 0
        <5>1. k \in 1 .. k /\ k + 1 - 1 = k /\ k + 1 # 1
          BY <1>1, <4>2
        <5> QED BY <2>5, <2>6, <2>9, <4>2, <5>1
      <4> QED BY <4>1, <4>2
    <3>3. batches'[k + 1].end - batches'[k + 1].start = this_size(k)
      BY <2>4, <2>5, <2>6
    <3>4. \A i \in 1 .. k + 1 : i \in 1 .. k \/ i = k + 1
      BY <1>1
    <3>5. /\ batches'[k + 1].end - batches'[k + 1].start \in 1 .. effective_batch_size
          /\ batches'[k + 1].end - batches'[k + 1].start - base_size \in {0, 1}
      BY <2>3, <3>3
    <3> SUFFICES ASSUME NEW i \in 1 .. k + 1
                 PROVE  /\ batches'[i].start = IF i = 1 THEN 0 ELSE batches'[i - 1].end
                        /\ batches'[i].end - batches'[i].start \in 1 .. effective_batch_size
                        /\ batches'[i].end - batches'[i].start - base_size \in {0, 1}
      OBVIOUS
    <3>6. CASE i \in 1 .. k
      BY <3>1, <3>6
    <3>7. CASE i = k + 1
      BY <1>1, <3>2, <3>5, <3>7
    <3> QED BY <3>4, <3>6, <3>7
  <2>11. BatchesTile'
    <3>1. batches' # <<>>
      BY <1>1, <2>5, EmptySeq
    <3>2. pos' = batches'[Len(batches')].end
      BY <2>1, <2>5, <2>6
    <3> QED BY <2>1, <2>2, <2>5, <2>10, <3>1, <3>2 DEF BatchesTile
  <2> QED BY <2>1, <2>7, <2>8, <2>11 DEF SplitInv
<1>4. ASSUME UNCHANGED splitVars, phase' \in {"split", "loop", "call", "done"},
             phase # "split" \/ phase' = "split" \/ Len(batches) = num_batches
      PROVE  SplitInv'
  <2>1. /\ UNCHANGED <<total_ports, effective_batch_size, batches, pos>>
        /\ UNCHANGED <<num_batches, base_size, extra>>
    BY <1>4 DEF splitVars, num_batches, base_size, extra
  <2>2. SplitType'
    BY <1>1, <1>4, <2>1 DEF SplitType
  <2>3. phase' # "split" => Len(batches) = num_batches
    BY <1>4 DEF SplitInv
  <2>4. pos = total_ports \/ phase' = "split"
    <3>1. CASE Len(batches) = num_batches
      <4>1. num_batches \in Nat \ {0}
        BY <1>1, SplitArithmetic
      <4>2. Dealt(num_batches) = total_ports
        BY <1>1, <4>1, DealtStep
      <4> QED BY <3>1, <4>2 DEF SplitInv
    <3> QED BY <2>3, <3>1
  <2>5. BatchesTile'
    BY <2>1, <2>4 DEF SplitInv, BatchesTile
  <2>6. Dealt(Len(batches))' = Dealt(Len(batches))
    BY <2>1 DEF Dealt
  <2> QED BY <2>1, <2>2, <2>3, <2>5, <2>6 DEF SplitInv
<1>5. CASE SplitDone \/ StartBatch \/ CallReturns \/ CallAborts \/ LoopEnd
  BY <1>4, <1>5 DEF SplitDone, StartBatch, CallReturns, CallAborts, LoopEnd
<1>6. CASE \E p \in AllPorts : Retry(p) \/ Establish(p) \/ \E v \in Verdicts : Decide(p, v)
  BY <1>4, <1>6 DEF Retry, Establish, Decide
<1>7. CASE Terminate \/ UNCHANGED vars
  BY <1>1, <1>4, <1>7 DEF Terminate, vars, splitVars, SplitType
<1> QED BY <1>3, <1>5, <1>6, <1>7 DEF Next, Done

\* worker_thread's balanced split is right for every number of ports and every batch
\* size: the ranges are consecutive, not empty, at most the batch size, equal up to one
\* port, and cover all ports when the first batch is started.
THEOREM SplitCorrect == Spec => []BatchesTile
<1>1. SplitInv => BatchesTile
  BY DEF SplitInv
<1> QED BY <1>1, SplitInit, SplitNext, PTL DEF Spec

-----------------------------------------------------------------------------
(***************************************************************************)
(* The loop over the batches: what the shared budget counts and what the   *)
(* merged result says.                                                     *)
(***************************************************************************)
\* Range i holds the ports that i ranges deal out and i - 1 do not.
RangesDealt ==
    \A i \in 1 .. Len(batches) : batches[i].start = Dealt(i - 1) /\ batches[i].end = Dealt(i)

\* The batches started cover the ports dealt out so far.
StartedBelow ==
    /\ Started = 0 .. Dealt(next) - 1
    /\ phase = "split" => next = 0
    /\ phase = "call" => Batch = Dealt(next - 1) .. Dealt(next) - 1

\* Nothing is known of a port whose batch was not started.
FreshPorts ==
    \A p \in AllPorts : p \notin Started => verdict[p] = "None" /\ p \notin retried

\* A call leaves a port undecided, and the loop a batch, only when interrupted.
UndecidedExcused ==
    /\ Undecided(Merged) # {} => terminate_flag \/ aborted
    /\ phase = "done" /\ ~terminate_flag => next = Len(batches)

CallInv ==
    /\ TypeOK /\ SplitInv /\ RangesDealt /\ StartedBelow /\ FreshPorts /\ UndecidedExcused
    /\ BudgetExact /\ ResultExact

\* Dealing out more ranges deals out more ports, up to all of them.
LEMMA DealtMonotone ==
    ASSUME SplitType, NEW j \in Nat, NEW k \in Nat, j <= k, k <= num_batches
    PROVE  Dealt(j) \in Nat /\ Dealt(j) <= Dealt(k) /\ Dealt(k) <= total_ports
<1>1. /\ num_batches \in Nat \ {0} /\ base_size \in Nat \ {0}
      /\ extra \in Nat /\ extra < num_batches
      /\ total_ports = num_batches * base_size + extra
  BY SplitArithmetic
<1>2. j * base_size <= k * base_size /\ k * base_size <= num_batches * base_size
  BY <1>1, Monotone
<1>3. j * base_size \in Nat /\ k * base_size \in Nat /\ num_batches * base_size \in Nat
  BY <1>1
<1> QED BY <1>1, <1>2, <1>3 DEF Dealt

\* What the invariant says of the sets of ports.
LEMMA CallSets ==
    ASSUME CallInv
    PROVE  /\ total_ports \in Nat /\ IsFiniteSet(AllPorts)
           /\ next \in Nat /\ next <= Len(batches) /\ Len(batches) \in Nat
           /\ \A i \in 1 .. Len(batches) :
                /\ PortsOf(batches[i]) = Dealt(i - 1) .. Dealt(i) - 1
                /\ Dealt(i - 1) \in Nat /\ Dealt(i) \in Nat
                /\ Dealt(i - 1) < Dealt(i) /\ Dealt(i) <= total_ports
           /\ Dealt(next) \in Nat /\ Dealt(next) <= total_ports
           /\ Started \subseteq AllPorts /\ Started = 0 .. Dealt(next) - 1
           /\ phase = "call" => Batch \subseteq Started /\ Merged = Started \ Batch
           /\ phase # "call" => Merged = Started
<1>1. SplitType /\ total_ports \in Nat /\ Len(batches) \in Nat /\ Len(batches) <= num_batches
  BY LenProperties DEF CallInv, SplitInv, SplitType
<1>2. num_batches \in Nat
  BY <1>1, SplitArithmetic
<1>3. IsFiniteSet(AllPorts)
  BY <1>1, FS_Interval DEF AllPorts
<1>4. next \in Nat /\ next <= Len(batches) /\ (phase = "call" => next > 0)
  BY <1>1 DEF CallInv, TypeOK
<1>5. ASSUME NEW i \in 1 .. Len(batches)
      PROVE  /\ PortsOf(batches[i]) = Dealt(i - 1) .. Dealt(i) - 1
             /\ Dealt(i - 1) \in Nat /\ Dealt(i) \in Nat
             /\ Dealt(i - 1) < Dealt(i) /\ Dealt(i) <= total_ports
  <2>1. i - 1 \in Nat /\ i \in Nat /\ i - 1 < num_batches /\ i - 1 + 1 = i /\ i <= num_batches
    BY <1>1, <1>2
  <2>2. Dealt(i - 1) \in Nat /\ Dealt(i) = Dealt(i - 1) + this_size(i - 1)
        /\ this_size(i - 1) \in 1 .. effective_batch_size
    BY <1>1, <2>1, DealtStep
  <2>3. Dealt(i) <= total_ports /\ Dealt(i) \in Nat
    BY <1>1, <2>1, DealtMonotone
  <2>4. batches[i].start = Dealt(i - 1) /\ batches[i].end = Dealt(i)
    BY DEF CallInv, RangesDealt
  <2>5. this_size(i - 1) \in Int /\ this_size(i - 1) >= 1
    BY <1>1, <2>2 DEF SplitType
  <2> QED BY <2>2, <2>3, <2>4, <2>5 DEF PortsOf
<1>6. Dealt(next) \in Nat /\ Dealt(next) <= total_ports
  BY <1>1, <1>2, <1>4, DealtMonotone
<1>7. Started = 0 .. Dealt(next) - 1
  BY DEF CallInv, StartedBelow
<1>8. Started \subseteq AllPorts
  BY <1>1, <1>6, <1>7 DEF AllPorts
<1>9. ASSUME phase = "call" PROVE Batch \subseteq Started /\ Merged = Started \ Batch
  <2>1. next \in 1 .. Len(batches) /\ next \in 1 .. next
    BY <1>1, <1>4, <1>9
  <2>2. Batch = Dealt(next - 1) .. Dealt(next) - 1 /\ Dealt(next - 1) \in Nat
    BY <1>5, <2>1 DEF Batch
  <2>3. Batch \subseteq Started
    BY <1>6, <1>7, <2>2
  <2> QED BY <1>9, <2>3 DEF Merged
<1>10. phase # "call" => Merged = Started
  BY DEF Merged
<1> QED BY <1>1, <1>3, <1>4, <1>5, <1>6, <1>7, <1>8, <1>9, <1>10

\* What the ranges alone determine.
LEMMA RangesFrame ==
    ASSUME CallInv, UNCHANGED splitVars
    PROVE  /\ UNCHANGED <<total_ports, effective_batch_size, batches, pos>>
           /\ AllPorts' = AllPorts /\ Len(batches)' = Len(batches)
           /\ \A k : Dealt(k)' = Dealt(k)
           /\ RangesDealt'
<1>1. UNCHANGED <<total_ports, effective_batch_size, batches, pos>>
  BY DEF splitVars
<1>2. UNCHANGED <<base_size, extra>>
  BY <1>1 DEF num_batches, base_size, extra
<1>3. \A k : Dealt(k)' = Dealt(k)
  BY <1>2 DEF Dealt
<1>4. RangesDealt
  BY DEF CallInv
<1> QED BY <1>1, <1>3, <1>4 DEF RangesDealt, AllPorts

\* What the ranges and the number of batches started determine.
LEMMA SetsFrame ==
    ASSUME CallInv, UNCHANGED <<splitVars, next>>
    PROVE  Started' = Started /\ Batch' = Batch
<1>1. UNCHANGED <<batches, next>> /\ AllPorts' = AllPorts
  BY RangesFrame DEF splitVars
<1> QED BY <1>1 DEF Started, Batch, PortsOf

\* While the ranges are cut, no batch is started.
LEMMA SplitEffect ==
    ASSUME CallInv, Split
    PROVE  /\ UNCHANGED <<total_ports, effective_batch_size, phase, next, verdict, retried,
                          budget, result, terminate_flag, aborted>>
           /\ phase = "split" /\ next = 0 /\ AllPorts' = AllPorts
           /\ Started = {} /\ Started' = {} /\ Merged = {} /\ Merged' = {}
           /\ \A k : Dealt(k)' = Dealt(k)
           /\ Len(batches)' = Len(batches) + 1 /\ RangesDealt'
<1>1. /\ UNCHANGED <<total_ports, effective_batch_size, phase, next, verdict, retried,
                     budget, result, terminate_flag, aborted>>
      /\ phase = "split" /\ next = 0 /\ AllPorts' = AllPorts
  BY DEF Split, CallInv, StartedBelow, AllPorts
<1>2. Started = {} /\ Started' = {} /\ Merged = {} /\ Merged' = {}
  <2>1. 1 .. next = {} /\ 1 .. next' = {}
    BY <1>1
  <2> QED BY <2>1 DEF Started, Merged
<1>3. \A k : Dealt(k)' = Dealt(k)
  BY <1>1 DEF Dealt, num_batches, base_size, extra
<1> DEFINE n == Len(batches)
           range == [start |-> pos, end |-> pos + this_size(n)]
<1>4. SplitType /\ n \in Nat /\ n < num_batches /\ pos = Dealt(n) /\ RangesDealt
  BY LenProperties DEF CallInv, SplitInv, SplitType, Split
<1>5. Dealt(n + 1) = Dealt(n) + this_size(n)
  BY <1>4, DealtStep
<1>6. range.start = Dealt(n) /\ range.end = Dealt(n + 1)
  BY <1>4, <1>5
<1>7. batches' = Append(batches, range)
  BY DEF Split
<1> HIDE DEF range
<1>8. /\ Len(batches') = n + 1 /\ batches'[n + 1] = range
      /\ \A i \in 1 .. n : batches'[i] = batches[i]
  BY <1>4, <1>7, AppendProperties DEF SplitType
<1>9. ASSUME NEW i \in 1 .. n + 1
      PROVE  batches'[i].start = Dealt(i - 1) /\ batches'[i].end = Dealt(i)
  <2>1. CASE i \in 1 .. n
    <3>1. batches[i].start = Dealt(i - 1) /\ batches[i].end = Dealt(i)
      BY <1>4, <2>1 DEF RangesDealt
    <3> QED BY <1>8, <2>1, <3>1
  <2>2. CASE i = n + 1
    BY <1>4, <1>6, <1>8, <2>2
  <2> QED BY <1>4, <2>1, <2>2
<1>10. RangesDealt'
  BY <1>3, <1>8, <1>9 DEF RangesDealt
<1> QED BY <1>1, <1>2, <1>3, <1>8, <1>10

\* Starting a batch adds the ports of the next range to those started.
LEMMA StartEffect ==
    ASSUME CallInv, StartBatch
    PROVE  /\ UNCHANGED splitVars /\ AllPorts' = AllPorts
           /\ next < Len(batches) /\ next' = next + 1 /\ phase = "loop" /\ phase' = "call"
           /\ Batch' = Dealt(next) .. Dealt(next + 1) - 1
           /\ PortsOf(batches[next + 1]) = Batch' /\ Batch' \subseteq AllPorts
           /\ Batch' \cap Started = {} /\ Started' = Started \cup Batch'
           /\ Merged' = Started /\ Merged = Started
<1>1. /\ next < Len(batches) /\ next' = next + 1 /\ phase = "loop" /\ phase' = "call"
      /\ UNCHANGED splitVars
  BY DEF StartBatch
<1>2. UNCHANGED batches /\ AllPorts' = AllPorts
  BY <1>1, RangesFrame
<1>3. next \in Nat /\ Len(batches) \in Nat /\ next + 1 \in 1 .. Len(batches)
  BY <1>1, CallSets
<1>4. Batch' = PortsOf(batches[next + 1])
  BY <1>1, <1>2 DEF Batch, PortsOf
<1>5. /\ Batch' = Dealt(next) .. Dealt(next + 1) - 1
      /\ Dealt(next) \in Nat /\ Dealt(next + 1) \in Nat /\ Dealt(next + 1) <= total_ports
      /\ total_ports \in Nat /\ Started = 0 .. Dealt(next) - 1
  <2>1. next + 1 - 1 = next
    BY <1>3
  <2> QED BY <1>3, <1>4, <2>1, CallSets
<1>6. Batch' \subseteq AllPorts /\ Batch' \cap Started = {}
  BY <1>5 DEF AllPorts
<1>7. Started' = Started \cup Batch'
  <2>1. Started' = {p \in AllPorts : \E i \in 1 .. next + 1 : p \in PortsOf(batches[i])}
    BY <1>1, <1>2 DEF Started, PortsOf
  <2>2. \A i : i \in 1 .. next + 1 <=> i \in 1 .. next \/ i = next + 1
    BY <1>3
  <2> QED BY <1>4, <1>6, <2>1, <2>2 DEF Started
<1>8. Merged = Started
  BY <1>1, CallSets
<1>9. Merged' = {p \in Started' : p \notin Batch'}
  BY <1>1 DEF Merged
<1>10. Merged' = Started
  BY <1>6, <1>7, <1>9
<1> QED BY <1>1, <1>2, <1>4, <1>5, <1>6, <1>7, <1>8, <1>10

\* The other actions leave the ranges and the batches started alone.
LEMMA OtherSteps ==
    ASSUME Next, ~Split, ~StartBatch
    PROVE  UNCHANGED <<splitVars, next>>
BY DEF Next, SplitDone, CallReturns, CallAborts, LoopEnd, Retry, Establish, Decide,
       Terminate, Done, vars, splitVars

LEMMA CallTypes == CallInv /\ [Next]_vars => TypeOK'
<1> SUFFICES ASSUME CallInv, [Next]_vars PROVE TypeOK'
  OBVIOUS
<1>1. TypeOK
  BY DEF CallInv
<1>2. CASE Split
  <2>1. /\ UNCHANGED <<total_ports, effective_batch_size, phase, next, verdict, retried,
                       budget, result, terminate_flag, aborted>>
        /\ phase = "split" /\ next = 0 /\ AllPorts' = AllPorts
    BY <1>2, SplitEffect
  <2>2. batches' \in Seq([start : Nat, end : Nat]) /\ pos' \in Nat
    BY SplitNext DEF CallInv, SplitInv, SplitType
  <2>3. Len(batches') \in Nat
    BY <2>2, LenProperties
  <2>4. next' \in 0 .. Len(batches') /\ ~(phase' = "call")
    BY <2>1, <2>3
  <2> QED BY <1>1, <2>1, <2>2, <2>4 DEF TypeOK
<1>3. CASE StartBatch
  <2>1. /\ UNCHANGED <<total_ports, effective_batch_size, batches, pos>>
        /\ AllPorts' = AllPorts /\ phase' = "call" /\ next' = next + 1
        /\ next < Len(batches) /\ next \in Nat /\ Len(batches) \in Nat
    BY <1>3, StartEffect, RangesFrame, CallSets
  <2>2. Cardinality(PortsOf(batches[next + 1])) \in Nat
    <3>1. PortsOf(batches[next + 1]) \subseteq AllPorts /\ IsFiniteSet(AllPorts)
      BY <1>3, StartEffect, CallSets
    <3> QED BY <3>1, FS_Subset, FS_CardinalityType
  <2>3. budget' \in [active_ports : Int, ports_in_retry : Int]
    <3>1. /\ budget \in [active_ports : Int, ports_in_retry : Int]
          /\ budget' = [budget EXCEPT !.active_ports =
                          @ + Cardinality(PortsOf(batches[next + 1]))]
      BY <1>1, <1>3 DEF StartBatch, TypeOK
    <3> DEFINE c == Cardinality(PortsOf(batches[next + 1]))
    <3> HIDE DEF c
    <3>2. c \in Nat /\ budget' = [budget EXCEPT !.active_ports = @ + c]
      BY <2>2, <3>1 DEF c
    <3> QED BY <3>1, <3>2
  <2>4. next' \in 0 .. Len(batches') /\ next' > 0
    BY <2>1
  <2>5. UNCHANGED <<verdict, retried, result, terminate_flag, aborted>>
    BY <1>3 DEF StartBatch
  <2> QED BY <1>1, <2>1, <2>3, <2>4, <2>5 DEF TypeOK
<1>4. CASE ~Split /\ ~StartBatch
  <2>0. UNCHANGED <<splitVars, next>>
    BY <1>4, OtherSteps DEF vars, splitVars
  <2>1. /\ UNCHANGED <<total_ports, effective_batch_size, batches, pos, next>>
        /\ AllPorts' = AllPorts
    BY <2>0, RangesFrame
  <2>2. CASE SplitDone \/ LoopEnd \/ Terminate \/ UNCHANGED vars
    BY <1>1, <2>1, <2>2 DEF TypeOK, SplitDone, LoopEnd, Terminate, vars
  <2>3. CASE CallReturns \/ CallAborts
    <3>1. Cardinality({p \in Batch : verdict[p] = "Closed"}) \in Nat
      <4>1. Batch \subseteq AllPorts /\ IsFiniteSet(AllPorts)
        BY <2>3, CallSets DEF CallReturns, CallAborts
      <4>2. {p \in Batch : verdict[p] = "Closed"} \subseteq AllPorts
        BY <4>1
      <4> QED BY <4>1, <4>2, FS_Subset, FS_CardinalityType
    <3>2. ASSUME NEW list \in [AllPorts -> Nat], NEW v
          PROVE  Extended(list, v) \in [AllPorts -> Nat]
      BY DEF Extended
    <3>3. result' \in [open_ports : [AllPorts -> Nat], closed_ports : Nat,
                       filtered_ports : [AllPorts -> Nat]]
      <4> DEFINE c == Cardinality({p \in Batch : verdict[p] = "Closed"})
                 o == Extended(result.open_ports, "Open")
                 f == Extended(result.filtered_ports, "Filtered")
      <4>1. result' = [open_ports |-> o, closed_ports |-> result.closed_ports + c,
                       filtered_ports |-> f]
        BY <2>3 DEF CallReturns, CallAborts, Merge
      <4>2. c \in Nat
        BY <3>1
      <4>3. result.closed_ports \in Nat /\ result.open_ports \in [AllPorts -> Nat]
            /\ result.filtered_ports \in [AllPorts -> Nat]
        BY <1>1 DEF TypeOK
      <4>4. o \in [AllPorts -> Nat] /\ f \in [AllPorts -> Nat]
        BY <3>2, <4>3
      <4> HIDE DEF c, o, f
      <4> QED BY <4>1, <4>2, <4>3, <4>4
    <3>4. UNCHANGED <<verdict, retried, budget, terminate_flag>> /\ phase' = "loop"
          /\ aborted' \in BOOLEAN
      BY <1>1, <2>3 DEF CallReturns, CallAborts, TypeOK
    <3> QED BY <1>1, <2>1, <3>3, <3>4 DEF TypeOK
  <2>4. ASSUME NEW p \in AllPorts, Retry(p) PROVE TypeOK'
    <3>1. budget' = [budget EXCEPT !.ports_in_retry = @ + 1] /\ retried' = retried \cup {p}
          /\ UNCHANGED <<phase, verdict, result, terminate_flag, aborted>>
      BY <2>4 DEF Retry
    <3>2. budget \in [active_ports : Int, ports_in_retry : Int]
      BY <1>1 DEF TypeOK
    <3>3. budget' \in [active_ports : Int, ports_in_retry : Int]
      BY <3>1, <3>2
    <3> QED BY <1>1, <2>1, <3>1, <3>3 DEF TypeOK
  <2>5. ASSUME NEW p \in AllPorts, Establish(p) PROVE TypeOK'
    BY <1>1, <2>1, <2>5 DEF TypeOK, Establish
  <2>6. ASSUME NEW p \in AllPorts, NEW v \in Verdicts, Decide(p, v) PROVE TypeOK'
    <3>1. /\ verdict' = [verdict EXCEPT ![p] = v] /\ Settle(p)
          /\ UNCHANGED <<phase, retried, result, terminate_flag, aborted>>
      BY <2>6 DEF Decide
    <3>2. budget' \in [active_ports : Int, ports_in_retry : Int]
      BY <1>1, <3>1 DEF TypeOK, Settle
    <3>3. verdict' \in [AllPorts -> Verdicts \cup {"None", "Established"}]
      BY <1>1, <3>1 DEF TypeOK
    <3> QED BY <1>1, <2>1, <3>1, <3>2, <3>3 DEF TypeOK
  <2> QED
    BY <1>4, <2>2, <2>3, <2>4, <2>5, <2>6 DEF Next, Done
<1> QED BY <1>2, <1>3, <1>4

\* A step inside a call: only the ports of the batch change.
LEMMA InsideCall ==
    ASSUME CallInv, NEW p \in AllPorts,
           Retry(p) \/ Establish(p) \/ \E v \in Verdicts : Decide(p, v)
    PROVE  /\ phase = "call" /\ UNCHANGED <<phase, next, result, terminate_flag, aborted>>
           /\ UNCHANGED splitVars /\ AllPorts' = AllPorts
           /\ p \in Batch /\ p \in Started /\ p \notin Merged
           /\ Started' = Started /\ Batch' = Batch /\ Merged' = Merged
           /\ \A q \in AllPorts : q # p =>
                verdict'[q] = verdict[q] /\ (q \in retried' <=> q \in retried)
<1>1. /\ phase = "call" /\ UNCHANGED <<phase, next, result, terminate_flag, aborted>>
      /\ UNCHANGED splitVars /\ p \in Batch
  BY DEF Retry, Establish, Decide, Undecided
<1>2. AllPorts' = AllPorts /\ Started' = Started /\ Batch' = Batch
  BY <1>1, RangesFrame, SetsFrame
<1>3. p \in Started /\ p \notin Merged
  BY <1>1, CallSets
<1>4. Merged' = Merged
  BY <1>1, <1>2 DEF Merged
<1>5. verdict \in [AllPorts -> Verdicts \cup {"None", "Established"}]
  BY DEF CallInv, TypeOK
<1>6. \A q \in AllPorts : q # p =>
        verdict'[q] = verdict[q] /\ (q \in retried' <=> q \in retried)
  BY <1>5 DEF Retry, Establish, Decide
<1> QED BY <1>1, <1>2, <1>3, <1>4, <1>6

\* The call returns: its batch counts as merged.
LEMMA ReturnEffect ==
    ASSUME CallInv, CallReturns \/ CallAborts
    PROVE  /\ phase = "call" /\ phase' = "loop" /\ Merge
           /\ UNCHANGED <<next, verdict, retried, budget, terminate_flag>>
           /\ UNCHANGED splitVars /\ AllPorts' = AllPorts
           /\ Started' = Started /\ Batch' = Batch /\ Merged' = Started
           /\ Batch \subseteq Started /\ Merged = Started \ Batch
           /\ Undecided(Batch) # {} => terminate_flag' \/ aborted'
           /\ aborted => aborted'
<1>1. /\ phase = "call" /\ phase' = "loop" /\ Merge
      /\ UNCHANGED <<next, verdict, retried, budget, terminate_flag>> /\ UNCHANGED splitVars
      /\ Undecided(Batch) # {} => terminate_flag' \/ aborted'
      /\ aborted => aborted'
  BY DEF CallReturns, CallAborts
<1>2. AllPorts' = AllPorts /\ Started' = Started /\ Batch' = Batch
  BY <1>1, RangesFrame, SetsFrame
<1>3. Merged' = Started
  BY <1>1, <1>2 DEF Merged
<1>4. Batch \subseteq Started /\ Merged = Started \ Batch
  BY <1>1, CallSets
<1> QED BY <1>1, <1>2, <1>3, <1>4

\* The steps between the calls.
LEMMA Between ==
    ASSUME CallInv, SplitDone \/ LoopEnd \/ Terminate \/ UNCHANGED vars
    PROVE  /\ UNCHANGED <<next, verdict, retried, budget, result, aborted>>
           /\ UNCHANGED splitVars /\ AllPorts' = AllPorts
           /\ Started' = Started /\ Batch' = Batch /\ Merged' = Merged
           /\ terminate_flag => terminate_flag'
           /\ phase' = "split" => phase = "split"
           /\ phase' = "call" <=> phase = "call"
           /\ phase' = "done" => phase = "done" \/ terminate_flag \/ next = Len(batches)
<1>1. /\ UNCHANGED <<next, verdict, retried, budget, result, aborted>> /\ UNCHANGED splitVars
      /\ terminate_flag => terminate_flag'
      /\ phase' = "split" => phase = "split"
      /\ phase' = "call" <=> phase = "call"
      /\ phase' = "done" => phase = "done" \/ terminate_flag \/ next = Len(batches)
  BY DEF SplitDone, LoopEnd, Terminate, vars, splitVars
<1>2. AllPorts' = AllPorts /\ Started' = Started /\ Batch' = Batch
  BY <1>1, RangesFrame, SetsFrame
<1>3. Merged' = Merged
  BY <1>1, <1>2 DEF Merged
<1> QED BY <1>1, <1>2, <1>3

LEMMA StartedNext == CallInv /\ [Next]_vars => RangesDealt' /\ StartedBelow'
<1> SUFFICES ASSUME CallInv, [Next]_vars PROVE RangesDealt' /\ StartedBelow'
  OBVIOUS
<1>1. StartedBelow
  BY DEF CallInv
<1>2. CASE Split
  <2>1. /\ RangesDealt' /\ Started' = {} /\ next' = 0 /\ phase' = "split"
        /\ Dealt(next)' = Dealt(0)
    BY <1>2, SplitEffect
  <2>2. SplitType /\ num_batches \in Nat \ {0}
    BY SplitArithmetic DEF CallInv, SplitInv
  <2>3. Dealt(0) = 0
    BY <2>2, DealtStep
  <2> QED BY <2>1, <2>3 DEF StartedBelow
<1>3. CASE StartBatch
  <2>1. /\ Batch' = Dealt(next) .. Dealt(next + 1) - 1 /\ Started' = Started \cup Batch'
        /\ next' = next + 1 /\ phase' = "call" /\ UNCHANGED splitVars
    BY <1>3, StartEffect
  <2>2. RangesDealt' /\ \A k : Dealt(k)' = Dealt(k)
    BY <2>1, RangesFrame
  <2>3. /\ Dealt(next) \in Nat /\ Dealt(next + 1) \in Nat /\ Dealt(next) < Dealt(next + 1)
        /\ Started = 0 .. Dealt(next) - 1 /\ next \in Nat
    <3>1. next + 1 \in 1 .. Len(batches) /\ next + 1 - 1 = next
      BY <1>3, StartEffect, CallSets
    <3> QED BY <3>1, CallSets
  <2>4. Started' = 0 .. Dealt(next + 1) - 1
    BY <2>1, <2>3
  <2>5. Dealt(next)' = Dealt(next + 1) /\ Dealt(next - 1)' = Dealt(next)
    BY <2>1, <2>2, <2>3
  <2> QED BY <2>1, <2>2, <2>4, <2>5 DEF StartedBelow
<1>4. ASSUME UNCHANGED <<splitVars, next>>, Started' = Started, Batch' = Batch,
             phase' = "split" => phase = "split", phase' = "call" => phase = "call"
      PROVE  RangesDealt' /\ StartedBelow'
  <2>1. RangesDealt' /\ \A k : Dealt(k)' = Dealt(k)
    BY <1>4, RangesFrame
  <2>2. Dealt(next)' = Dealt(next) /\ Dealt(next - 1)' = Dealt(next - 1) /\ next' = next
    BY <1>4, <2>1
  <2> QED BY <1>1, <1>4, <2>1, <2>2 DEF StartedBelow
<1>5. CASE SplitDone \/ LoopEnd \/ Terminate \/ UNCHANGED vars
  BY <1>4, <1>5, Between
<1>6. CASE CallReturns \/ CallAborts
  BY <1>4, <1>6, ReturnEffect
<1>7. ASSUME NEW p \in AllPorts, Retry(p) \/ Establish(p) \/ \E v \in Verdicts : Decide(p, v)
      PROVE  RangesDealt' /\ StartedBelow'
  BY <1>4, <1>7, InsideCall
<1> QED BY <1>2, <1>3, <1>5, <1>6, <1>7 DEF Next, Done

LEMMA FreshNext == CallInv /\ [Next]_vars => FreshPorts' /\ UndecidedExcused'
<1> SUFFICES ASSUME CallInv, [Next]_vars PROVE FreshPorts' /\ UndecidedExcused'
  OBVIOUS
<1>1. FreshPorts /\ UndecidedExcused
  BY DEF CallInv
<1>2. CASE Split
  BY <1>1, <1>2, SplitEffect DEF FreshPorts, UndecidedExcused, Undecided
<1>3. CASE StartBatch
  <2>1. UNCHANGED <<verdict, retried, terminate_flag, aborted>> /\ phase' = "call"
    BY <1>3 DEF StartBatch
  <2>2. Started \subseteq Started' /\ Merged' = Merged /\ AllPorts' = AllPorts
    BY <1>3, StartEffect
  <2> QED BY <1>1, <2>1, <2>2 DEF FreshPorts, UndecidedExcused, Undecided
<1>4. CASE SplitDone \/ LoopEnd \/ Terminate \/ UNCHANGED vars
  <2>1. Len(batches)' = Len(batches)
    BY <1>4, Between, RangesFrame
  <2> QED BY <1>1, <1>4, <2>1, Between DEF FreshPorts, UndecidedExcused, Undecided
<1>5. CASE CallReturns \/ CallAborts
  <2>1. FreshPorts'
    BY <1>1, <1>5, ReturnEffect DEF FreshPorts
  <2>2. Undecided(Merged)' = Undecided(Merged) \cup Undecided(Batch)
    BY <1>5, ReturnEffect DEF Undecided
  <2>3. Undecided(Merged)' # {} => terminate_flag' \/ aborted'
    BY <1>1, <1>5, <2>2, ReturnEffect DEF UndecidedExcused
  <2>4. phase' = "loop"
    BY <1>5, ReturnEffect
  <2> QED BY <2>1, <2>3, <2>4 DEF UndecidedExcused
<1>6. ASSUME NEW p \in AllPorts, Retry(p) \/ Establish(p) \/ \E v \in Verdicts : Decide(p, v)
      PROVE  FreshPorts' /\ UndecidedExcused'
  <2>1. Merged \subseteq AllPorts
    BY CallSets DEF Merged
  <2>2. Undecided(Merged)' = Undecided(Merged)
    BY <1>6, <2>1, InsideCall DEF Undecided
  <2>3. phase' = "call" /\ UNCHANGED <<terminate_flag, aborted>>
    BY <1>6, InsideCall
  <2>4. FreshPorts'
    BY <1>1, <1>6, InsideCall DEF FreshPorts
  <2> QED BY <1>1, <2>2, <2>3, <2>4 DEF UndecidedExcused
<1> QED BY <1>2, <1>3, <1>4, <1>5, <1>6 DEF Next, Done

\* The cardinality of a finite set of ports when one port, or a disjoint set, comes or goes.
LEMMA PortCount ==
    ASSUME NEW S, IsFiniteSet(S)
    PROVE  /\ Cardinality(S) \in Nat
           /\ \A T : IsFiniteSet(T) /\ S \cap T = {} =>
                Cardinality(S \cup T) = Cardinality(S) + Cardinality(T)
           /\ \A x : x \notin S => Cardinality(S \cup {x}) = Cardinality(S) + 1
           /\ \A x \in S : Cardinality(S \ {x}) = Cardinality(S) - 1
           /\ \A T \in SUBSET S : IsFiniteSet(T)
<1>1. Cardinality(S) \in Nat
  BY FS_CardinalityType
<1>2. ASSUME NEW T, IsFiniteSet(T), S \cap T = {}
      PROVE  Cardinality(S \cup T) = Cardinality(S) + Cardinality(T)
  <2>1. Cardinality(S \cup T) = Cardinality(S) + Cardinality(T) - Cardinality(S \cap T)
    BY <1>2, FS_Union
  <2>2. Cardinality(S \cap T) = 0
    BY <1>2, FS_EmptySet
  <2>3. Cardinality(T) \in Nat
    BY <1>2, FS_CardinalityType
  <2> QED BY <1>1, <2>1, <2>2, <2>3
<1>3. \A x : x \notin S => Cardinality(S \cup {x}) = Cardinality(S) + 1
  BY FS_AddElement
<1>4. \A x \in S : Cardinality(S \ {x}) = Cardinality(S) - 1
  BY FS_RemoveElement
<1>5. \A T \in SUBSET S : IsFiniteSet(T)
  BY FS_Subset
<1> QED BY <1>1, <1>2, <1>3, <1>4, <1>5

LEMMA BudgetNext == CallInv /\ [Next]_vars => BudgetExact'
<1> SUFFICES ASSUME CallInv, [Next]_vars PROVE BudgetExact'
  OBVIOUS
<1> DEFINE U == Undecided(Started)
           R == U \cap retried
<1>1. /\ budget.active_ports = Cardinality(U) /\ budget.ports_in_retry = Cardinality(R)
      /\ budget \in [active_ports : Int, ports_in_retry : Int]
      /\ verdict \in [AllPorts -> Verdicts \cup {"None", "Established"}]
  BY DEF CallInv, BudgetExact, TypeOK
<1>2. IsFiniteSet(U) /\ IsFiniteSet(R)
  <2>1. U \subseteq AllPorts /\ R \subseteq AllPorts /\ IsFiniteSet(AllPorts)
    BY CallSets DEF Undecided
  <2> QED BY <2>1, FS_Subset
<1>3. Cardinality(U) \in Nat /\ Cardinality(R) \in Nat
  BY <1>2, FS_CardinalityType
<1>4. ASSUME U' = U, R' = R, UNCHANGED budget PROVE BudgetExact'
  BY <1>1, <1>4 DEF BudgetExact
<1>5. CASE Split
  <2>1. U' = U /\ R' = R /\ UNCHANGED budget
    BY <1>5, SplitEffect DEF Undecided
  <2> QED BY <1>4, <2>1
<1>6. CASE StartBatch
  <2> DEFINE B == Batch'
  <2>1. /\ budget' = [budget EXCEPT !.active_ports = @ + Cardinality(B)]
        /\ UNCHANGED <<verdict, retried>>
    BY <1>6, StartEffect DEF StartBatch
  <2>2. B \subseteq AllPorts /\ B \cap Started = {} /\ Started' = Started \cup B
    BY <1>6, StartEffect
  <2>3. \A p \in B : verdict[p] = "None" /\ p \notin retried
    BY <2>2 DEF CallInv, FreshPorts
  <2>4. U' = U \cup B
    BY <2>1, <2>2, <2>3 DEF Undecided
  <2>5. R' = R
    BY <2>1, <2>3, <2>4
  <2>6. IsFiniteSet(B) /\ U \cap B = {}
    <3>1. U \subseteq Started /\ IsFiniteSet(AllPorts)
      BY CallSets DEF Undecided
    <3> QED BY <2>2, <3>1, FS_Subset
  <2> HIDE DEF U, B, R
  <2>7. Cardinality(U \cup B) = Cardinality(U) + Cardinality(B)
    BY <1>2, <2>6, PortCount
  <2>8. budget'.active_ports = Cardinality(U') /\ budget'.ports_in_retry = Cardinality(R')
    BY <1>1, <2>1, <2>4, <2>5, <2>7
  <2> QED BY <2>8 DEF BudgetExact, U, R
<1>7. CASE SplitDone \/ LoopEnd \/ Terminate \/ UNCHANGED vars
  <2>1. U' = U /\ R' = R /\ UNCHANGED budget
    BY <1>7, Between DEF Undecided
  <2> QED BY <1>4, <2>1
<1>8. CASE CallReturns \/ CallAborts
  <2>1. U' = U /\ R' = R /\ UNCHANGED budget
    BY <1>8, ReturnEffect DEF Undecided
  <2> QED BY <1>4, <2>1
<1>9. ASSUME NEW p \in AllPorts, Retry(p) PROVE BudgetExact'
  <2>1. /\ budget' = [budget EXCEPT !.ports_in_retry = @ + 1] /\ UNCHANGED verdict
        /\ retried' = retried \cup {p} /\ p \notin retried /\ verdict[p] = "None"
    BY <1>9 DEF Retry
  <2>2. Started' = Started /\ p \in Started
    BY <1>9, InsideCall
  <2>3. U' = U /\ R' = R \cup {p} /\ p \notin R
    BY <2>1, <2>2 DEF Undecided
  <2> HIDE DEF U, R
  <2>4. Cardinality(R') = Cardinality(R) + 1
    BY <1>2, <2>3, PortCount
  <2>5. budget'.active_ports = Cardinality(U') /\ budget'.ports_in_retry = Cardinality(R')
    BY <1>1, <2>1, <2>3, <2>4
  <2> QED BY <2>5 DEF BudgetExact, U, R
<1>10. ASSUME NEW p \in AllPorts, Establish(p) PROVE BudgetExact'
  <2>1. UNCHANGED <<budget, retried>> /\ verdict[p] = "None"
        /\ verdict' = [verdict EXCEPT ![p] = "Established"]
    BY <1>10 DEF Establish
  <2>2. Started' = Started /\ Started \subseteq AllPorts
    BY <1>10, InsideCall, CallSets
  <2>3. \A q \in Started : verdict'[q] \in {"None", "Established"}
                             <=> verdict[q] \in {"None", "Established"}
    BY <1>1, <2>1, <2>2
  <2>4. U' = U /\ R' = R
    BY <2>1, <2>2, <2>3 DEF Undecided
  <2> QED BY <1>4, <2>1, <2>4
<1>11. ASSUME NEW p \in AllPorts, NEW v \in Verdicts, Decide(p, v) PROVE BudgetExact'
  <2>1. /\ verdict' = [verdict EXCEPT ![p] = v] /\ UNCHANGED retried
        /\ verdict[p] \in {"None", "Established"} /\ Settle(p)
    BY <1>11 DEF Decide, Undecided
  <2>2. Started' = Started /\ p \in Started /\ Started \subseteq AllPorts
    BY <1>11, InsideCall, CallSets
  <2>3. U' = U \ {p} /\ p \in U
    <3>1. \A q \in Started : verdict'[q] = IF q = p THEN v ELSE verdict[q]
      BY <1>1, <2>1, <2>2
    <3>2. v \notin {"None", "Established"}
      BY DEF Verdicts
    <3> QED BY <2>1, <2>2, <3>1, <3>2 DEF Undecided
  <2>4. R' = R \ {p} /\ (p \in R <=> p \in retried)
    BY <2>1, <2>3
  <2> HIDE DEF U, R
  <2>5. Cardinality(U') = Cardinality(U) - 1
    BY <1>2, <2>3, PortCount
  <2>6. Cardinality(R') = Cardinality(R) - (IF p \in retried THEN 1 ELSE 0)
    <3>1. CASE p \in R
      <4>1. Cardinality(R \ {p}) = Cardinality(R) - 1
        BY <1>2, <3>1, PortCount
      <4> QED BY <2>4, <3>1, <4>1
    <3>2. CASE p \notin R
      <4>1. R' = R /\ (IF p \in retried THEN 1 ELSE 0) = 0
        BY <2>4, <3>2
      <4>2. Cardinality(R) - 0 = Cardinality(R)
        BY <1>3
      <4> QED BY <4>1, <4>2
    <3> QED BY <3>1, <3>2
  <2>7. budget'.active_ports = Cardinality(U') /\ budget'.ports_in_retry = Cardinality(R')
    BY <1>1, <2>1, <2>5, <2>6 DEF Settle
  <2> QED BY <2>7 DEF BudgetExact, U, R
<1> QED BY <1>5, <1>6, <1>7, <1>8, <1>9, <1>10, <1>11 DEF Next, Done

LEMMA ResultNext == CallInv /\ [Next]_vars => ResultExact'
<1> SUFFICES ASSUME CallInv, [Next]_vars PROVE ResultExact'
  OBVIOUS
<1>1. /\ \A p \in AllPorts :
           /\ result.open_ports[p] = IF p \in With(Merged, "Open") THEN 1 ELSE 0
           /\ result.filtered_ports[p] = IF p \in With(Merged, "Filtered") THEN 1 ELSE 0
      /\ result.closed_ports = Cardinality(With(Merged, "Closed"))
  BY DEF CallInv, ResultExact
<1>2. Merged \subseteq AllPorts /\ IsFiniteSet(AllPorts)
  BY CallSets DEF Merged
<1>3. ASSUME UNCHANGED result, AllPorts' = AllPorts, Merged' = Merged,
             \A p \in Merged : verdict'[p] = verdict[p]
      PROVE  ResultExact'
  <2>1. \A v : With(Merged, v)' = With(Merged, v)
    BY <1>3 DEF With, ReportedAs
  <2>2. /\ With(Merged, "Open")' = With(Merged, "Open")
        /\ With(Merged, "Filtered")' = With(Merged, "Filtered")
        /\ With(Merged, "Closed")' = With(Merged, "Closed")
    BY <2>1
  <2> QED BY <1>1, <1>3, <2>2 DEF ResultExact
<1>4. CASE Split
  BY <1>3, <1>4, SplitEffect
<1>5. CASE StartBatch
  <2>1. UNCHANGED <<verdict, result>>
    BY <1>5 DEF StartBatch
  <2>2. Merged' = Merged /\ AllPorts' = AllPorts
    BY <1>5, StartEffect
  <2> QED BY <1>3, <2>1, <2>2
<1>6. CASE SplitDone \/ LoopEnd \/ Terminate \/ UNCHANGED vars
  BY <1>3, <1>6, Between
<1>7. CASE CallReturns \/ CallAborts
  <2> DEFINE C == {p \in Batch : verdict[p] = "Closed"}
  <2>1. /\ Merged = Started \ Batch /\ Merged' = Started /\ Batch \subseteq Started
        /\ Started \subseteq AllPorts /\ AllPorts' = AllPorts /\ UNCHANGED verdict
    BY <1>7, ReturnEffect, CallSets
  <2>2. /\ result'.open_ports = Extended(result.open_ports, "Open")
        /\ result'.filtered_ports = Extended(result.filtered_ports, "Filtered")
        /\ result'.closed_ports = result.closed_ports + Cardinality(C)
    <3>1. Merge
      BY <1>7, ReturnEffect
    <3> QED BY <3>1 DEF Merge
  <2>3. \A v : With(Merged, v)' = {p \in Started : ReportedAs(p, v)}
    BY <2>1 DEF With, ReportedAs
  <2>4. ASSUME NEW p \in AllPorts
        PROVE  /\ result'.open_ports[p] = IF p \in With(Merged, "Open")' THEN 1 ELSE 0
               /\ result'.filtered_ports[p] = IF p \in With(Merged, "Filtered")' THEN 1 ELSE 0
    <3>1. ASSUME NEW list \in [AllPorts -> Nat], NEW v,
                 list[p] = IF p \in With(Merged, v) THEN 1 ELSE 0
          PROVE  Extended(list, v)[p] = IF p \in Started /\ ReportedAs(p, v) THEN 1 ELSE 0
      <4>1. Extended(list, v)[p] = list[p] + (IF p \in Batch /\ ReportedAs(p, v) THEN 1 ELSE 0)
        BY DEF Extended
      <4>2. p \in With(Merged, v) <=> p \in Started /\ p \notin Batch /\ ReportedAs(p, v)
        BY <2>1 DEF With
      <4>3. CASE p \in Batch
        <5>1. list[p] = 0 /\ p \in Started
          BY <2>1, <3>1, <4>2, <4>3
        <5> QED BY <4>1, <4>3, <5>1
      <4>4. CASE p \notin Batch
        <5>1. Extended(list, v)[p] = list[p]
          BY <3>1, <4>1, <4>4
        <5> QED BY <3>1, <4>2, <4>4, <5>1
      <4> QED BY <4>3, <4>4
    <3>2. /\ result.open_ports \in [AllPorts -> Nat]
          /\ result.filtered_ports \in [AllPorts -> Nat]
      BY DEF CallInv, TypeOK
    <3>3. /\ p \in With(Merged, "Open")' <=> p \in Started /\ ReportedAs(p, "Open")
          /\ p \in With(Merged, "Filtered")' <=> p \in Started /\ ReportedAs(p, "Filtered")
      BY <2>3
    <3> QED BY <1>1, <2>2, <3>1, <3>2, <3>3
  <2>5. result'.closed_ports = Cardinality(With(Merged, "Closed")')
    <3> DEFINE D == With(Merged, "Closed")
    <3>1. With(Merged, "Closed")' = D \cup C
      <4>1. \A p : ReportedAs(p, "Closed") <=> verdict[p] = "Closed"
        BY DEF ReportedAs
      <4> QED BY <2>1, <2>3, <4>1 DEF With
    <3>2. D \cap C = {} /\ D \subseteq AllPorts /\ C \subseteq AllPorts
      BY <1>2, <2>1 DEF With
    <3>3. IsFiniteSet(D) /\ IsFiniteSet(C)
      BY <1>2, <3>2, FS_Subset
    <3> HIDE DEF D, C
    <3>4. Cardinality(D \cup C) = Cardinality(D) + Cardinality(C)
      BY <3>2, <3>3, PortCount
    <3>5. result.closed_ports = Cardinality(D)
      BY <1>1 DEF D
    <3> QED BY <2>2, <3>1, <3>4, <3>5
  <2> QED BY <2>1, <2>4, <2>5 DEF ResultExact
<1>8. ASSUME NEW p \in AllPorts, Retry(p) \/ Establish(p) \/ \E v \in Verdicts : Decide(p, v)
      PROVE  ResultExact'
  <2>1. UNCHANGED result /\ AllPorts' = AllPorts /\ Merged' = Merged
    BY <1>8, InsideCall
  <2>2. \A q \in Merged : verdict'[q] = verdict[q]
    BY <1>2, <1>8, InsideCall
  <2> QED BY <1>3, <2>1, <2>2
<1> QED BY <1>4, <1>5, <1>6, <1>7, <1>8 DEF Next, Done

LEMMA CallInit == Init => CallInv
<1> SUFFICES ASSUME Init PROVE CallInv
  OBVIOUS
<1>1. SplitInv
  BY SplitInit
<1>2. Len(batches) = 0 /\ 1 .. next = {} /\ batches = <<>>
  BY DEF Init
<1>3. Started = {} /\ Merged = {}
  BY <1>2 DEF Started, Merged
<1>4. TypeOK
  <2>1. /\ total_ports \in PortCounts /\ effective_batch_size \in BatchSizes
        /\ verdict \in [AllPorts -> Verdicts \cup {"None", "Established"}]
        /\ retried \subseteq AllPorts /\ next \in 0 .. Len(batches)
        /\ phase \in {"split", "loop", "call", "done"} /\ phase # "call"
        /\ terminate_flag \in BOOLEAN /\ aborted \in BOOLEAN
    <3>1. next = 0 /\ Len(batches) \in Nat /\ 0 \in 0 .. Len(batches)
      BY <1>2 DEF Init
    <3> QED BY <3>1 DEF Init
  <2>2. budget \in [active_ports : Int, ports_in_retry : Int]
    BY DEF Init
  <2>3. result \in [open_ports : [AllPorts -> Nat], closed_ports : Nat,
                    filtered_ports : [AllPorts -> Nat]]
    BY DEF Init
  <2>4. batches \in Seq([start : Nat, end : Nat]) /\ pos \in Nat
    BY <1>1 DEF SplitInv, SplitType
  <2> QED BY <2>1, <2>2, <2>3, <2>4 DEF TypeOK
<1>5. RangesDealt
  BY <1>2 DEF RangesDealt
<1>6. StartedBelow
  <2>1. SplitType /\ num_batches \in Nat \ {0}
    BY <1>1, SplitArithmetic DEF SplitInv
  <2>2. Dealt(0) = 0
    BY <2>1, DealtStep
  <2> QED BY <1>3, <2>2 DEF Init, StartedBelow
<1>7. FreshPorts
  BY DEF Init, FreshPorts
<1>8. Undecided(Merged) = {} /\ Undecided(Started) = {}
  BY <1>3 DEF Undecided
<1>9. UndecidedExcused
  BY <1>8 DEF Init, UndecidedExcused
<1>10. Cardinality({}) = 0
  BY FS_EmptySet
<1>11. BudgetExact
  BY <1>8, <1>10 DEF Init, BudgetExact
<1>12. ResultExact
  <2>1. \A v : With(Merged, v) = {}
    BY <1>3 DEF With
  <2> QED BY <1>10, <2>1 DEF Init, ResultExact
<1> QED BY <1>1, <1>4, <1>5, <1>6, <1>7, <1>9, <1>11, <1>12 DEF CallInv

LEMMA CallNext == CallInv /\ [Next]_vars => CallInv'
<1> SUFFICES ASSUME CallInv, [Next]_vars PROVE CallInv'
  OBVIOUS
<1>1. SplitInv'
  BY SplitNext DEF CallInv
<1> QED BY <1>1, CallTypes, StartedNext, FreshNext, BudgetNext, ResultNext DEF CallInv

\* When the loop has ended undisturbed, every port was started, merged and decided.
LEMMA AllDecided ==
    ASSUME CallInv, phase = "done", ~terminate_flag, ~aborted
    PROVE  Merged = AllPorts /\ Undecided(AllPorts) = {}
<1>1. next = Len(batches) /\ Undecided(Merged) = {}
  BY DEF CallInv, UndecidedExcused
<1>2. Len(batches) = num_batches /\ SplitType
  BY DEF CallInv, SplitInv
<1>3. Dealt(next) = total_ports
  <2>1. num_batches \in Nat \ {0}
    BY <1>2, SplitArithmetic
  <2> QED BY <1>1, <1>2, <2>1, DealtStep
<1>4. Merged = AllPorts
  BY <1>3, CallSets DEF AllPorts
<1> QED BY <1>1, <1>4

LEMMA Complete == CallInv => AllClassified
<1> SUFFICES ASSUME CallInv, phase = "done", ~terminate_flag, ~aborted
             PROVE  result.closed_ports
                      + Cardinality({p \in AllPorts : result.open_ports[p] > 0})
                      + Cardinality({p \in AllPorts : result.filtered_ports[p] > 0})
                    = total_ports
  BY DEF AllClassified
<1> DEFINE O == {p \in AllPorts : result.open_ports[p] > 0}
           F == {p \in AllPorts : result.filtered_ports[p] > 0}
           C == {p \in AllPorts : verdict[p] = "Closed"}
<1>1. Merged = AllPorts /\ \A p \in AllPorts : verdict[p] \in Verdicts
  <2>1. \A p \in AllPorts : verdict[p] \in Verdicts \cup {"None", "Established"}
    BY DEF CallInv, TypeOK
  <2> QED BY <2>1, AllDecided DEF Undecided
<1>2. ResultExact
  BY DEF CallInv
<1>3. O = {p \in AllPorts : verdict[p] = "Open"}
  BY <1>1, <1>2 DEF ResultExact, With, ReportedAs, Verdicts
<1>4. F = {p \in AllPorts : verdict[p] = "Filtered"}
  BY <1>1, <1>2 DEF ResultExact, With, ReportedAs, Verdicts
<1>5. result.closed_ports = Cardinality(C)
  <2>1. With(Merged, "Closed") = C
    BY <1>1 DEF With, ReportedAs
  <2> QED BY <1>2, <2>1 DEF ResultExact
<1>6. IsFiniteSet(AllPorts) /\ total_ports \in Nat
  BY CallSets
<1>7. /\ O \subseteq AllPorts /\ F \subseteq AllPorts /\ C \subseteq AllPorts
      /\ O \cup F \cup C = AllPorts
      /\ C \cap O = {} /\ (C \cup O) \cap F = {}
  BY <1>1, <1>3, <1>4 DEF Verdicts
<1> HIDE DEF O, F, C
<1>8. IsFiniteSet(O) /\ IsFiniteSet(F) /\ IsFiniteSet(C) /\ IsFiniteSet(C \cup O)
  <2>1. C \cup O \subseteq AllPorts
    BY <1>7
  <2> QED BY <1>6, <1>7, <2>1, FS_Subset
<1>9. Cardinality(C \cup O) = Cardinality(C) + Cardinality(O)
  BY <1>7, <1>8, PortCount
<1>10. Cardinality((C \cup O) \cup F) = Cardinality(C \cup O) + Cardinality(F)
  BY <1>7, <1>8, PortCount
<1>11. (C \cup O) \cup F = AllPorts
  BY <1>7
<1>12. Cardinality(AllPorts) = total_ports
  BY <1>6, FS_Interval DEF AllPorts
<1> QED BY <1>5, <1>9, <1>10, <1>11, <1>12 DEF O, F

\* RetryBudgetState, for any number of ports and any batch size: after any sequence of
\* calls, retries, verdicts, interruptions and aborts the shared counters are exactly the
\* undecided ports of the batches started and those of them that were retried, so neither
\* goes below zero and the ratio that sets the retry cap is one of a part to its whole.
THEOREM BudgetCorrect == Spec => []BudgetExact
<1>1. CallInv => BudgetExact
  BY DEF CallInv
<1> QED BY <1>1, CallInit, CallNext, PTL DEF Spec

\* The merge of batch_result into result in worker_thread: what the target lists is what
\* the calls that returned decided, each port once.
THEOREM MergeCorrect == Spec => []ResultExact
<1>1. CallInv => ResultExact
  BY DEF CallInv
<1> QED BY <1>1, CallInit, CallNext, PTL DEF Spec

\* worker_thread: unless it was interrupted or a fatal ICMP error ended a call, a target
\* whose loop has ended has every port classified as open, closed or filtered.
THEOREM TargetComplete == Spec => []AllClassified
<1> QED BY Complete, CallInit, CallNext, PTL DEF Spec
=============================================================================
