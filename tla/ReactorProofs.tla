---------------------------- MODULE ReactorProofs ----------------------------
(***************************************************************************)
(* The asynchronous I/O engine, for any number of operations, shards and   *)
(* descriptors: each operation has one owner and completes once, no        *)
(* descriptor leaks, no deadline is stale, no wake-up is lost, shutdown()  *)
(* leaves nothing behind, and clients see what Completions promises.       *)
(***************************************************************************)
EXTENDS Reactor, SequenceTheorems, TLAPS

\* No operation is twice in a queue.
Distinct(q) == \A i, j \in 1 .. Len(q) : q[i] = q[j] => i = j

\* The operations a shard holds.
Held(s) == Queued(s) \cup Starting(s) \cup OwnedBy(s)

\* What a shard holds is submitted to it and unfinished, and all of that is held.
OwnerInv ==
    \A o \in Ops :
      /\ completions[o] = (IF op[o].finished THEN 1 ELSE 0)
      /\ submitting[o] = "new" => ~op[o].finished
      /\ ~op[o].finished => op[o].stage # "DONE"
      /\ \A s \in Shards : o \in Held(s) =>
           submitting[o] # "new" /\ ~op[o].finished /\ op[o].shard = s
      /\ submitting[o] # "new" /\ ~op[o].finished =>
           \E s \in Shards : op[o].shard = s /\ o \in Held(s)

\* A shard holds an operation in one place, once.
OnePlace ==
    \A s \in Shards :
      /\ Distinct(pending[s]) /\ Distinct(worker[s].batch)
      /\ Queued(s) \cap Starting(s) = {}
      /\ (Queued(s) \cup Starting(s)) \cap OwnedBy(s) = {}

\* How far the workers and shutdown() are.
ThreadInv ==
    /\ \A s \in Shards :
         /\ worker[s].pc # "begin" => worker[s].batch = <<>>
         /\ worker[s].pc = "exited" => OwnedBy(s) = {}
         /\ shut \in {"close", "down"} => worker[s].pc = "exited"
         /\ closed[s] => Queued(s) = {} /\ shut \in {"close", "down"}
         /\ shut = "down" => closed[s]
    /\ \A o \in Ops : cancelling[o] # "no" => op[o].cancel_requested

ReactorInv ==
    /\ TypeOK /\ OwnerInv /\ OnePlace /\ ThreadInv
    /\ DescriptorsExact /\ DeadlinesExact /\ NoLostWakeup

-----------------------------------------------------------------------------
(***************************************************************************)
(* Queues, and what the invariant says of the operations a shard holds.    *)
(***************************************************************************)
LEMMA QueueFacts ==
    ASSUME NEW T, NEW q \in Seq(T), Distinct(q)
    PROVE  /\ SeqRange(<<>>) = {} /\ Distinct(<<>>) /\ SeqRange(q) \subseteq T
           /\ \A x \in T : x \notin SeqRange(q) =>
                /\ Append(q, x) \in Seq(T) /\ Distinct(Append(q, x))
                /\ SeqRange(Append(q, x)) = SeqRange(q) \cup {x}
           /\ q # <<>> =>
                /\ Head(q) \in SeqRange(q) /\ Tail(q) \in Seq(T) /\ Distinct(Tail(q))
                /\ SeqRange(Tail(q)) = SeqRange(q) \ {Head(q)}
<1>1. SeqRange(<<>>) = {} /\ Distinct(<<>>)
  BY DEF SeqRange, Distinct
<1>2. Len(q) \in Nat /\ \A i \in 1 .. Len(q) : q[i] \in T
  BY LenProperties, ElementOfSeq
<1>3. SeqRange(q) \subseteq T
  BY <1>2 DEF SeqRange
<1>4. ASSUME NEW x \in T, x \notin SeqRange(q)
      PROVE  /\ Append(q, x) \in Seq(T) /\ Distinct(Append(q, x))
             /\ SeqRange(Append(q, x)) = SeqRange(q) \cup {x}
  <2>1. /\ Append(q, x) \in Seq(T) /\ Len(Append(q, x)) = Len(q) + 1
        /\ \A i \in 1 .. Len(q) : Append(q, x)[i] = q[i]
        /\ Append(q, x)[Len(q) + 1] = x
    BY AppendProperties
  <2>2. \A i \in 1 .. Len(q) + 1 : i \in 1 .. Len(q) \/ i = Len(q) + 1
    BY <1>2
  <2>3. \A i \in 1 .. Len(q) : q[i] # x
    BY <1>4 DEF SeqRange
  <2>4. Distinct(Append(q, x))
    <3> SUFFICES ASSUME NEW i \in 1 .. Len(q) + 1, NEW j \in 1 .. Len(q) + 1,
                        Append(q, x)[i] = Append(q, x)[j]
                 PROVE  i = j
      BY <2>1 DEF Distinct
    <3> QED BY <2>1, <2>2, <2>3 DEF Distinct
  <2>5. SeqRange(Append(q, x)) = SeqRange(q) \cup {x}
    <3>1. Len(q) + 1 \in 1 .. Len(q) + 1 /\ 1 .. Len(q) \subseteq 1 .. Len(q) + 1
      BY <1>2
    <3> QED BY <2>1, <2>2, <3>1 DEF SeqRange
  <2> QED BY <2>1, <2>4, <2>5
<1>5. ASSUME q # <<>>
      PROVE  /\ Head(q) \in SeqRange(q) /\ Tail(q) \in Seq(T) /\ Distinct(Tail(q))
             /\ SeqRange(Tail(q)) = SeqRange(q) \ {Head(q)}
  <2>1. /\ Tail(q) \in Seq(T) /\ Len(Tail(q)) = Len(q) - 1
        /\ \A i \in 1 .. Len(Tail(q)) : Tail(q)[i] = q[i + 1]
        /\ Head(q) = q[1] /\ Len(q) >= 1
    BY <1>2, <1>5, HeadTailProperties, EmptySeq
  <2>2. 1 \in 1 .. Len(q) /\ \A i \in 1 .. Len(q) - 1 : i + 1 \in 1 .. Len(q) /\ i + 1 # 1
    BY <1>2, <2>1
  <2>3. \A i \in 1 .. Len(q) : i = 1 \/ (i - 1 \in 1 .. Len(q) - 1 /\ i - 1 + 1 = i)
    BY <1>2
  <2>4. Distinct(Tail(q))
    <3> SUFFICES ASSUME NEW i \in 1 .. Len(q) - 1, NEW j \in 1 .. Len(q) - 1,
                        Tail(q)[i] = Tail(q)[j]
                 PROVE  i = j
      BY <2>1 DEF Distinct
    <3>1. i + 1 = j + 1
      BY <2>1, <2>2 DEF Distinct
    <3> QED BY <1>2, <3>1
  <2>5. SeqRange(Tail(q)) = SeqRange(q) \ {Head(q)}
    <3>1. ASSUME NEW i \in 1 .. Len(q) - 1 PROVE Tail(q)[i] \in SeqRange(q) \ {Head(q)}
      BY <2>1, <2>2 DEF SeqRange, Distinct
    <3>2. ASSUME NEW i \in 1 .. Len(q), q[i] # q[1] PROVE q[i] \in SeqRange(Tail(q))
      <4>1. i # 1 /\ i - 1 \in 1 .. Len(q) - 1 /\ i - 1 + 1 = i
        BY <2>3, <3>2
      <4>2. i - 1 \in 1 .. Len(Tail(q)) /\ Tail(q)[i - 1] = q[i]
        BY <2>1, <4>1
      <4> QED BY <4>2 DEF SeqRange
    <3>3. SeqRange(Tail(q)) \subseteq SeqRange(q) \ {q[1]}
      BY <2>1, <3>1 DEF SeqRange
    <3>4. SeqRange(q) \ {q[1]} \subseteq SeqRange(Tail(q))
      BY <3>2 DEF SeqRange
    <3> QED BY <2>1, <3>3, <3>4
  <2> QED BY <2>1, <2>2, <2>4, <2>5 DEF SeqRange
<1> QED BY <1>1, <1>3, <1>4, <1>5

\* The table of a shard, in terms of the operations in it.
LEMMA HeldFacts ==
    ASSUME ReactorInv, NEW s \in Shards
    PROVE  /\ pending[s] \in Seq(Ops) /\ worker[s].batch \in Seq(Ops)
           /\ Queued(s) \subseteq Ops /\ Starting(s) \subseteq Ops /\ OwnedBy(s) \subseteq Ops
           /\ \A f \in Fds : ops[s][f] # NoOp =>
                ops[s][f] \in OwnedBy(s) /\ op[ops[s][f]].fd = f
           /\ \A o \in OwnedBy(s) :
                /\ op[o].fd \in Fds /\ ops[s][op[o].fd] = o /\ fdtable[op[o].fd] = o
                /\ op[o].shard = s /\ ~op[o].finished /\ submitting[o] # "new"
                /\ <<op[o].deadline, op[o].fd>> \in deadlines[s]
           /\ \A o \in Queued(s) \cup Starting(s) : op[o].fd = NoFd
           /\ \A o \in Held(s) : op[o].shard = s /\ ~op[o].finished /\ submitting[o] # "new"
<1>1. TypeOK /\ OwnerInv /\ OnePlace /\ DescriptorsExact /\ DeadlinesExact
  BY DEF ReactorInv
<1>2. pending[s] \in Seq(Ops) /\ worker[s].batch \in Seq(Ops)
  BY <1>1 DEF TypeOK
<1>3. Queued(s) \subseteq Ops /\ Starting(s) \subseteq Ops
  BY <1>1, <1>2, QueueFacts DEF OnePlace, Queued, Starting
<1>4. OwnedBy(s) \subseteq Ops
  BY <1>1 DEF OwnedBy, Registered, TypeOK
<1>5. ASSUME NEW f \in Fds, ops[s][f] # NoOp
      PROVE  ops[s][f] \in OwnedBy(s) /\ op[ops[s][f]].fd = f
  <2>1. ops[s][f] \in OwnedBy(s)
    BY <1>5 DEF OwnedBy, Registered
  <2>2. ops[s][f] \in Ops
    BY <1>4, <2>1
  <2> QED BY <1>1, <2>1, <2>2 DEF DescriptorsExact
<1>6. \A o \in Held(s) : op[o].shard = s /\ ~op[o].finished /\ submitting[o] # "new"
  BY <1>1, <1>3, <1>4 DEF OwnerInv, Held
<1>7. ASSUME NEW o \in OwnedBy(s)
      PROVE  /\ op[o].fd \in Fds /\ ops[s][op[o].fd] = o /\ fdtable[op[o].fd] = o
             /\ <<op[o].deadline, op[o].fd>> \in deadlines[s]
  <2>1. PICK f \in Fds : ops[s][f] = o /\ ops[s][f] # NoOp
    BY DEF OwnedBy, Registered
  <2>2. op[o].fd = f
    BY <1>5, <2>1
  <2>3. fdtable[f] = o
    BY <1>1, <1>4, <2>2 DEF DescriptorsExact
  <2>4. <<op[o].deadline, op[o].fd>> \in deadlines[s]
    BY <1>1 DEF DeadlinesExact
  <2> QED BY <2>1, <2>2, <2>3, <2>4
<1>8. ASSUME NEW o \in Queued(s) \cup Starting(s) PROVE op[o].fd = NoFd
  <2>1. o \in Ops /\ op[o].fd \in Fds \cup {NoFd} /\ op[o].shard = s
    BY <1>1, <1>3, <1>6 DEF TypeOK, OpState, Held
  <2>2. ASSUME op[o].fd \in Fds PROVE FALSE
    <3>1. fdtable[op[o].fd] = o
      BY <1>1, <2>1, <2>2 DEF DescriptorsExact
    <3>2. PICK r \in Shards : ops[r][op[o].fd] = o
      BY <1>1, <2>1, <2>2, <3>1 DEF DescriptorsExact
    <3>3. o # NoOp
      BY <2>1, ReactorAssumption
    <3>4. o \in OwnedBy(r)
      BY <2>2, <3>2, <3>3 DEF OwnedBy, Registered
    <3>5. r = s
      BY <1>1, <2>1, <3>4 DEF OwnerInv, Held
    <3> QED BY <1>1, <3>4, <3>5 DEF OnePlace
  <2> QED BY <2>1, <2>2
<1> QED BY <1>2, <1>3, <1>4, <1>5, <1>6, <1>7, <1>8 DEF Held

LEMMA HeldStages ==
    ASSUME ReactorInv, NEW s \in Shards, NEW o \in Held(s)
    PROVE  o \in Ops /\ op[o].stage \in Stages \ {"DONE"}
<1>1. o \in Ops /\ ~op[o].finished
  BY HeldFacts DEF Held
<1>2. op[o].stage \in Stages
  BY <1>1 DEF ReactorInv, TypeOK, OpState
<1> QED BY <1>1, <1>2 DEF ReactorInv, OwnerInv

-----------------------------------------------------------------------------
(***************************************************************************)
(* Operations complete: the set S leaves shard s, whoever calls finish.    *)
(***************************************************************************)
\* The types of what finish changes.
FinishTypes ==
    /\ op \in [Ops -> OpState]
    /\ ops \in [Shards -> [Fds -> Ops \cup {NoOp}]]
    /\ deadlines \in [Shards -> SUBSET (Times \X Fds)]
    /\ fdtable \in [Fds -> Ops \cup {NoOp}]
    /\ completions \in [Ops -> Nat]

\* What finish does to the operations and tables, and its caller to the queues.
Completes(s, S) ==
    /\ S \subseteq Held(s) /\ FinishTypes'
    /\ \A o \in S :
         op'[o] = [op[o] EXCEPT !.finished = TRUE, !.stage = "DONE",
                                !.result = op'[o].result, !.fd = NoFd]
    /\ \A o \in Ops \ S : op'[o] = op[o]
    /\ \A o \in Ops : completions'[o] = completions[o] + (IF o \in S THEN 1 ELSE 0)
    /\ \A f \in Fds : fdtable'[f] = IF \E o \in S : op[o].fd = f THEN NoOp ELSE fdtable[f]
    /\ \A r \in Shards, f \in Fds :
         ops'[r][f] = IF r = s /\ ops[r][f] \in S THEN NoOp ELSE ops[r][f]
    /\ \A r \in Shards :
         deadlines'[r] = IF r = s THEN deadlines[s] \ {<<op[o].deadline, op[o].fd>> : o \in S}
                                  ELSE deadlines[r]
    /\ \A r \in Shards :
         /\ Distinct(pending'[r]) /\ Queued(r)' = Queued(r) \ S
         /\ Distinct(worker'[r].batch) /\ Starting(r)' = Starting(r) \ S
    /\ UNCHANGED submitting

\* A call of finish for operations the shard holds, when what it finds in deadlines are
\* the shard's deadlines but for entries of those operations.
LEMMA FinishCompletes ==
    ASSUME ReactorInv, NEW s \in Shards, NEW S \in SUBSET Held(s), NEW r, NEW D,
           Finish(s, S, r, D), \A o \in S : r[o] \in Results,
           D \subseteq deadlines[s],
           deadlines[s] \ {<<op[o].deadline, op[o].fd>> : o \in S} \subseteq D,
           \A q \in Shards :
             /\ Distinct(pending'[q]) /\ Queued(q)' = Queued(q) \ S
             /\ Distinct(worker'[q].batch) /\ Starting(q)' = Starting(q) \ S,
           UNCHANGED submitting
    PROVE  Completes(s, S)
<1>1. /\ op \in [Ops -> OpState] /\ ops \in [Shards -> [Fds -> Ops \cup {NoOp}]]
  BY DEF ReactorInv, TypeOK
<1>2. S \subseteq Ops /\ {o \in S : ~op[o].finished} = S
  BY HeldFacts DEF Held
<1>3. op' = [o \in Ops |->
               IF o \in S THEN [op[o] EXCEPT !.finished = TRUE, !.stage = "DONE",
                                             !.result = r[o], !.fd = NoFd]
                          ELSE op[o]]
  BY <1>2, Zenon DEF Finish
<1>4. \A o \in S : op'[o] = [op[o] EXCEPT !.finished = TRUE, !.stage = "DONE",
                                          !.result = op'[o].result, !.fd = NoFd]
  <2> SUFFICES ASSUME NEW o \in S
               PROVE  op'[o] = [op[o] EXCEPT !.finished = TRUE, !.stage = "DONE",
                                             !.result = op'[o].result, !.fd = NoFd]
    OBVIOUS
  <2>1. op[o] \in OpState
    BY <1>1, <1>2
  <2>2. op'[o] = [op[o] EXCEPT !.finished = TRUE, !.stage = "DONE", !.result = r[o], !.fd = NoFd]
    BY <1>2, <1>3
  <2>3. op'[o].result = r[o]
    BY <2>1, <2>2 DEF OpState
  <2> QED BY <2>2, <2>3
<1>5. \A o \in Ops \ S : op'[o] = op[o]
  BY <1>3
<1>6. \A o \in Ops : completions'[o] = completions[o] + (IF o \in S THEN 1 ELSE 0)
  BY <1>2, Zenon DEF Finish
<1>7. \A f \in Fds : fdtable'[f] = IF \E o \in S : op[o].fd = f THEN NoOp ELSE fdtable[f]
  <2>1. CloseSockets(S)
    BY <1>2, Zenon DEF Finish
  <2> QED BY <2>1 DEF CloseSockets
<1>8. \A q \in Shards, f \in Fds :
        ops'[q][f] = IF q = s /\ ops[q][f] \in S THEN NoOp ELSE ops[q][f]
  <2>1. ops' = [ops EXCEPT ![s] = [f \in Fds |-> IF ops[s][f] \in S THEN NoOp ELSE ops[s][f]]]
    BY <1>2, Zenon DEF Finish
  <2> QED BY <1>1, <2>1
<1>9. \A q \in Shards :
        deadlines'[q] = IF q = s THEN deadlines[s] \ {<<op[o].deadline, op[o].fd>> : o \in S}
                                 ELSE deadlines[q]
  <2> DEFINE P == {<<op[o].deadline, op[o].fd>> : o \in S}
  <2>1. deadlines' = [deadlines EXCEPT ![s] = D \ P]
    BY <1>2, Zenon DEF Finish
  <2> HIDE DEF P
  <2>2. D \ P = deadlines[s] \ P
    BY DEF P
  <2>3. DOMAIN deadlines = Shards
    BY DEF ReactorInv, TypeOK
  <2> QED BY <2>1, <2>2, <2>3 DEF P
<1>10. FinishTypes'
  <2>1. FinishTypes
    BY DEF ReactorInv, TypeOK, FinishTypes
  <2>2. op' \in [Ops -> OpState]
    <3> SUFFICES ASSUME NEW o \in Ops
                 PROVE  (IF o \in S THEN [op[o] EXCEPT !.finished = TRUE, !.stage = "DONE",
                                                       !.result = r[o], !.fd = NoFd]
                                    ELSE op[o]) \in OpState
      BY <1>3
    <3>1. op[o] \in OpState
      BY <1>1
    <3>2. ASSUME o \in S
          PROVE  [op[o] EXCEPT !.finished = TRUE, !.stage = "DONE",
                               !.result = r[o], !.fd = NoFd] \in OpState
      BY <3>1, <3>2 DEF OpState, Stages
    <3> QED BY <3>1, <3>2
  <2>3. completions' \in [Ops -> Nat]
    <3>1. completions' = [o \in Ops |-> completions[o] + (IF o \in S THEN 1 ELSE 0)]
      BY <1>2, Zenon DEF Finish
    <3> QED BY <2>1, <3>1 DEF FinishTypes
  <2>4. ops' \in [Shards -> [Fds -> Ops \cup {NoOp}]]
    <3>1. ops' = [ops EXCEPT ![s] = [f \in Fds |-> IF ops[s][f] \in S THEN NoOp ELSE ops[s][f]]]
      BY <1>2, Zenon DEF Finish
    <3>2. [f \in Fds |-> IF ops[s][f] \in S THEN NoOp ELSE ops[s][f]] \in [Fds -> Ops \cup {NoOp}]
      BY <1>1
    <3> QED BY <1>1, <3>1, <3>2
  <2>5. deadlines' \in [Shards -> SUBSET (Times \X Fds)]
    <3> DEFINE P == {<<op[o].deadline, op[o].fd>> : o \in S}
    <3>1. deadlines' = [deadlines EXCEPT ![s] = D \ P]
      BY <1>2, Zenon DEF Finish
    <3> HIDE DEF P
    <3>2. D \ P \in SUBSET (Times \X Fds)
      BY <2>1 DEF FinishTypes
    <3> QED BY <2>1, <3>1, <3>2 DEF FinishTypes
  <2>6. fdtable' \in [Fds -> Ops \cup {NoOp}]
    <3>1. CloseSockets(S)
      BY <1>2, Zenon DEF Finish
    <3> QED BY <2>1, <3>1 DEF CloseSockets, FinishTypes
  <2> QED BY <2>2, <2>3, <2>4, <2>5, <2>6 DEF FinishTypes
<1> QED BY <1>4, <1>5, <1>6, <1>7, <1>8, <1>9, <1>10 DEF Completes

LEMMA CompletesTables ==
    ASSUME ReactorInv, NEW s \in Shards, NEW S, Completes(s, S)
    PROVE  /\ S \subseteq Ops /\ NoOp \notin S
           /\ \A r \in Shards : OwnedBy(r)' = OwnedBy(r) \ S /\ Held(r)' = Held(r) \ S
           /\ DescriptorsExact' /\ DeadlinesExact'
<1>1. S \subseteq Ops /\ NoOp \notin S /\ \A o \in S : op[o].shard = s
  <2>1. S \subseteq Held(s)
    BY DEF Completes
  <2>2. Held(s) \subseteq Ops /\ \A o \in Held(s) : op[o].shard = s
    BY HeldFacts DEF Held
  <2> QED BY <2>1, <2>2, ReactorAssumption
<1>2. \A r \in Shards, f \in Fds :
        ops'[r][f] = IF r = s /\ ops[r][f] \in S THEN NoOp ELSE ops[r][f]
  BY DEF Completes
<1>3. \A r \in Shards, f \in Fds : ops'[r][f] = IF ops[r][f] \in S THEN NoOp ELSE ops[r][f]
  <2> SUFFICES ASSUME NEW r \in Shards, NEW f \in Fds, ops[r][f] \in S PROVE r = s
    BY <1>2
  <2>1. ops[r][f] \in OwnedBy(r)
    BY <1>1, HeldFacts
  <2>2. op[ops[r][f]].shard = r
    BY <2>1, HeldFacts
  <2> QED BY <1>1, <2>2
<1>4. ASSUME NEW r \in Shards PROVE OwnedBy(r)' = OwnedBy(r) \ S
  <2>1. OwnedBy(r)' = {ops'[r][f] : f \in {g \in Fds : ops'[r][g] # NoOp}}
    BY DEF OwnedBy, Registered
  <2>2. \A f \in Fds : ops'[r][f] # NoOp <=> ops[r][f] # NoOp /\ ops[r][f] \notin S
    BY <1>3
  <2> QED BY <1>3, <2>1, <2>2 DEF OwnedBy, Registered
<1>5. \A r \in Shards : Held(r)' = Held(r) \ S
  <2>1. \A r \in Shards : Queued(r)' = Queued(r) \ S /\ Starting(r)' = Starting(r) \ S
    BY DEF Completes
  <2> QED BY <1>4, <2>1 DEF Held
<1>6. DescriptorsExact'
  <2>1. DescriptorsExact
    BY DEF ReactorInv
  <2>2. \A f \in Fds : fdtable'[f] = IF \E o \in S : op[o].fd = f THEN NoOp ELSE fdtable[f]
    BY DEF Completes
  <2>3. ASSUME NEW f \in Fds, NEW o \in Ops, o \in S
        PROVE  fdtable'[f] # o /\ op'[o].fd # f /\ \A r \in Shards : ops'[r][f] # o
    <3>1. op'[o].fd = NoFd
      <4>1. op[o] \in OpState
        BY DEF ReactorInv, TypeOK
      <4>2. op'[o] = [op[o] EXCEPT !.finished = TRUE, !.stage = "DONE",
                                   !.result = op'[o].result, !.fd = NoFd]
        BY <2>3 DEF Completes
      <4> QED BY <4>1, <4>2 DEF OpState
    <3>2. f # NoFd
      BY ReactorAssumption DEF NoFd
    <3>3. o # NoOp
      BY ReactorAssumption
    <3> QED BY <1>3, <2>1, <2>2, <2>3, <3>1, <3>2, <3>3 DEF DescriptorsExact
  <2>4. ASSUME NEW f \in Fds, NEW o \in Ops, o \notin S
        PROVE  /\ fdtable'[f] = o <=> fdtable[f] = o
               /\ op'[o].fd = op[o].fd
               /\ \A r \in Shards : ops'[r][f] = o <=> ops[r][f] = o
    <3>1. o # NoOp
      BY ReactorAssumption
    <3>2. op'[o] = op[o]
      BY <2>4 DEF Completes
    <3>3. fdtable[f] = o => ~\E p \in S : op[p].fd = f
      BY <1>1, <2>1, <2>4 DEF DescriptorsExact
    <3> QED BY <1>3, <2>2, <2>4, <3>1, <3>2, <3>3
  <2>5. ASSUME NEW f \in Fds, NEW o \in Ops
        PROVE  /\ fdtable'[f] = o <=> op'[o].fd = f
               /\ fdtable'[f] = o <=> \E r \in Shards : ops'[r][f] = o
    <3>1. CASE o \in S
      BY <2>3, <3>1
    <3>2. CASE o \notin S
      BY <2>1, <2>4, <3>2 DEF DescriptorsExact
    <3> QED BY <3>1, <3>2
  <2> QED BY <2>5 DEF DescriptorsExact
<1>7. DeadlinesExact'
  <2>0. \A r \in Shards : \A x \in OwnedBy(r) : op[x].fd \in Fds /\ fdtable[op[x].fd] = x
    BY HeldFacts
  <2> DEFINE P(o) == <<op[o].deadline, op[o].fd>>
  <2>1. DeadlinesExact
    BY DEF ReactorInv
  <2>2. ASSUME NEW r \in Shards
        PROVE  deadlines'[r] = {P(o) : o \in OwnedBy(r) \ S}
    <3>1. deadlines[r] = {P(o) : o \in OwnedBy(r)}
      BY <2>1 DEF DeadlinesExact
    <3>2. CASE r # s
      <4>1. \A o \in OwnedBy(r) : op[o].shard = r
        BY HeldFacts
      <4>2. OwnedBy(r) \ S = OwnedBy(r)
        BY <1>1, <3>2, <4>1
      <4>3. deadlines'[r] = deadlines[r]
        BY <3>2 DEF Completes
      <4> QED BY <3>1, <4>2, <4>3
    <3>3. CASE r = s
      <4>1. deadlines'[r] = deadlines[r] \ {P(o) : o \in S}
        BY <3>3 DEF Completes
      <4>2. ASSUME NEW o \in OwnedBy(r), NEW p \in S, P(o) = P(p) PROVE o = p
        <5>1. op[o].fd = op[p].fd
          BY <4>2
        <5>2. op[o].fd \in Fds /\ fdtable[op[o].fd] = o
          BY <2>0
        <5>3. fdtable[op[o].fd] = p
          BY <1>1, <5>1, <5>2 DEF ReactorInv, DescriptorsExact
        <5> QED BY <5>2, <5>3
      <4> HIDE DEF P
      <4> QED BY <3>1, <4>1, <4>2
    <3> QED BY <3>2, <3>3
  <2>3. ASSUME NEW r \in Shards, NEW o \in OwnedBy(r) \ S
        PROVE  <<op'[o].deadline, op'[o].fd>> = P(o)
    <3>1. o \in Ops \ S
      BY HeldFacts
    <3> QED BY <3>1 DEF Completes
  <2>4. ASSUME NEW r \in Shards
        PROVE  deadlines'[r] = {<<op'[o].deadline, op'[o].fd>> : o \in OwnedBy(r)'}
    <3>1. OwnedBy(r)' = OwnedBy(r) \ S
      BY <1>4
    <3> HIDE DEF P
    <3> QED BY <2>2, <2>3, <3>1
  <2> QED BY <2>4 DEF DeadlinesExact
<1> QED BY <1>1, <1>4, <1>5, <1>6, <1>7

LEMMA CompletesOwners ==
    ASSUME ReactorInv, NEW s \in Shards, NEW S, Completes(s, S)
    PROVE  OwnerInv' /\ OnePlace'
<1>1. OwnerInv /\ OnePlace /\ op \in [Ops -> OpState]
  BY DEF ReactorInv, TypeOK
<1>2. /\ S \subseteq Ops
      /\ \A r \in Shards : OwnedBy(r)' = OwnedBy(r) \ S /\ Held(r)' = Held(r) \ S
  BY CompletesTables
<1>3. ASSUME NEW o \in S
      PROVE  /\ op'[o].finished /\ op'[o].finished = TRUE /\ op'[o].shard = op[o].shard
             /\ ~op[o].finished /\ op[o].shard = s /\ submitting[o] # "new"
  <2>1. op[o] \in OpState /\ o \in Held(s)
    BY <1>1, <1>2 DEF Completes
  <2>2. op'[o] = [op[o] EXCEPT !.finished = TRUE, !.stage = "DONE",
                               !.result = op'[o].result, !.fd = NoFd]
    BY DEF Completes
  <2>3. op'[o].finished = TRUE /\ op'[o].shard = op[o].shard
    BY <2>1, <2>2 DEF OpState
  <2> QED BY <2>1, <2>3, HeldFacts
<1>4. \A o \in Ops \ S : op'[o] = op[o]
  BY DEF Completes
<1>5. OwnerInv'
  <2> SUFFICES ASSUME NEW o \in Ops
               PROVE  /\ completions'[o] = (IF op'[o].finished THEN 1 ELSE 0)
                      /\ submitting'[o] = "new" => ~op'[o].finished
                      /\ ~op'[o].finished => op'[o].stage # "DONE"
                      /\ \A r \in Shards : o \in Held(r)' =>
                           submitting'[o] # "new" /\ ~op'[o].finished /\ op'[o].shard = r
                      /\ submitting'[o] # "new" /\ ~op'[o].finished =>
                           \E r \in Shards : op'[o].shard = r /\ o \in Held(r)'
    BY DEF OwnerInv
  <2>1. /\ completions'[o] = completions[o] + (IF o \in S THEN 1 ELSE 0)
        /\ submitting' = submitting
    BY DEF Completes
  <2>2. CASE o \in S
    <3>1. completions[o] = 0
      BY <1>1, <1>3, <2>2 DEF OwnerInv
    <3>2. completions'[o] = 1
      BY <2>1, <2>2, <3>1
    <3>3. \A r \in Shards : o \notin Held(r)'
      BY <1>2, <2>2
    <3> QED BY <1>3, <2>1, <2>2, <3>2, <3>3
  <2>3. CASE o \notin S
    <3>1. op'[o] = op[o] /\ completions'[o] = completions[o] + 0
      BY <1>4, <2>1, <2>3
    <3>2. completions[o] = (IF op[o].finished THEN 1 ELSE 0)
      BY <1>1 DEF OwnerInv
    <3>3. completions'[o] = (IF op'[o].finished THEN 1 ELSE 0)
      BY <3>1, <3>2
    <3> QED BY <1>1, <1>2, <2>1, <2>3, <3>1, <3>3 DEF OwnerInv
  <2> QED BY <2>2, <2>3
<1>6. OnePlace'
  <2>1. \A r \in Shards :
         /\ Distinct(pending'[r]) /\ Queued(r)' = Queued(r) \ S
         /\ Distinct(worker'[r].batch) /\ Starting(r)' = Starting(r) \ S
    BY DEF Completes
  <2>2. \A r \in Shards : Distinct(pending[r])' /\ Distinct(worker[r].batch)'
    BY <2>1 DEF Distinct
  <2> QED BY <1>1, <1>2, <2>1, <2>2 DEF OnePlace
<1> QED BY <1>5, <1>6

-----------------------------------------------------------------------------
(***************************************************************************)
(* The steps in which operations complete.                                 *)
(***************************************************************************)
LEMMA StageFacts ==
    ASSUME NEW stage \in Stages \ {"DONE"}
    PROVE  /\ \A data : StageFailure(stage, data) \in Results
           /\ \A o : Reach(o, stage) \subseteq Stages \ {"DONE"}
<1>1. CASE stage = "CONNECTING"
  BY <1>1 DEF StageFailure, Results, Reach, Stages
<1>2. CASE stage = "TLS_HANDSHAKE"
  BY <1>2 DEF StageFailure, Results, Reach, Stages
<1>3. CASE stage = "SENDING"
  BY <1>3 DEF StageFailure, Results, Reach, Stages
<1>4. CASE stage = "RECV_FIRST"
  BY <1>4 DEF StageFailure, Results, Reach, Stages
<1>5. CASE stage = "RECV_IDLE"
  BY <1>5 DEF StageFailure, Results, Reach, Stages
<1> QED BY <1>1, <1>2, <1>3, <1>4, <1>5 DEF Stages

LEMMA Elsewhere ==
    ASSUME ReactorInv, NEW s \in Shards, NEW S \in SUBSET Held(s), NEW r \in Shards, r # s
    PROVE  Queued(r) \ S = Queued(r) /\ Starting(r) \ S = Starting(r)
<1>1. \A o \in S : op[o].shard = s
  BY HeldFacts
<1>2. \A o \in Held(r) : op[o].shard = r
  BY HeldFacts
<1> QED BY <1>1, <1>2 DEF Held

LEMMA QueuesDistinct ==
    ASSUME ReactorInv, NEW r \in Shards
    PROVE  /\ Distinct(pending[r]) /\ Distinct(worker[r].batch)
           /\ Queued(r) \cap OwnedBy(r) = {} /\ Starting(r) \cap OwnedBy(r) = {}
           /\ Queued(r) \cap Starting(r) = {}
BY DEF ReactorInv, OnePlace

\* Operations in the table of the shard are finished; the queues stay as they are.
LEMMA TableCompletes ==
    ASSUME ReactorInv, NEW s \in Shards, NEW S \in SUBSET OwnedBy(s), NEW r, NEW D,
           Finish(s, S, r, D), \A o \in S : r[o] \in Results, D \subseteq deadlines[s],
           deadlines[s] \ {<<op[o].deadline, op[o].fd>> : o \in S} \subseteq D,
           UNCHANGED <<pending, submitting>>,
           \A q \in Shards : worker'[q].batch = worker[q].batch
    PROVE  Completes(s, S)
<1>1. S \subseteq Held(s)
  BY DEF Held
<1>2. ASSUME NEW q \in Shards
      PROVE  /\ Distinct(pending'[q]) /\ Queued(q)' = Queued(q) \ S
             /\ Distinct(worker'[q].batch) /\ Starting(q)' = Starting(q) \ S
  <2>1. Queued(q)' = Queued(q) /\ Starting(q)' = Starting(q)
    BY DEF Queued, Starting
  <2>2. Queued(q) \ S = Queued(q) /\ Starting(q) \ S = Starting(q)
    <3>1. CASE q = s
      BY <3>1, QueuesDistinct
    <3>2. CASE q # s
      BY <1>1, <3>2, Elsewhere
    <3> QED BY <3>1, <3>2
  <2>3. Distinct(pending'[q]) /\ Distinct(worker'[q].batch)
    BY QueuesDistinct
  <2> QED BY <2>1, <2>2, <2>3
<1> QED BY <1>1, <1>2, FinishCompletes

LEMMA CancellationsComplete ==
    ASSUME ReactorInv, NEW s \in Shards, ProcessCancellations(s)
    PROVE  Completes(s, {o \in OwnedBy(s) : op[o].cancel_requested})
<1> DEFINE S == {o \in OwnedBy(s) : op[o].cancel_requested}
<1>1. /\ Finish(s, S, [o \in S |-> "CANCELLED"], deadlines[s])
      /\ UNCHANGED <<pending, submitting>> /\ worker' = [worker EXCEPT ![s].pc = "sweep"]
  BY DEF ProcessCancellations, FinishAll, Goto, clientVars
<1>2. \A q \in Shards : worker'[q].batch = worker[q].batch
  BY <1>1 DEF ReactorInv, TypeOK
<1> HIDE DEF S
<1>3. S \in SUBSET OwnedBy(s)
  BY DEF S
<1>4. Completes(s, S)
  BY <1>1, <1>2, <1>3, TableCompletes DEF Results
<1> QED BY <1>4 DEF S

LEMMA SweepCompletes ==
    ASSUME ReactorInv, NEW s \in Shards, NEW now, SweepTimeouts(s, now)
    PROVE  Completes(s, ExpiredOps(s, now))
<1> DEFINE X == ExpiredOps(s, now)
           r == [o \in X |-> IF op[o].stage = "RECV_IDLE" THEN "SUCCESS"
                             ELSE StageFailure(op[o].stage, op[o].data)]
           D == deadlines[s] \ Expired(s, now)
<1>1. /\ Finish(s, X, r, D)
      /\ UNCHANGED <<pending, submitting>> /\ worker' = [worker EXCEPT ![s].pc = "loop"]
  BY DEF SweepTimeouts, Goto, clientVars
<1>2. \A q \in Shards : worker'[q].batch = worker[q].batch
  BY <1>1 DEF ReactorInv, TypeOK
<1>3. X \in SUBSET OwnedBy(s)
  BY DEF ExpiredOps
<1>4. Expired(s, now) \subseteq {<<op[o].deadline, op[o].fd>> : o \in X}
  <2> SUFFICES ASSUME NEW e \in Expired(s, now)
               PROVE  \E o \in X : e = <<op[o].deadline, op[o].fd>>
    OBVIOUS
  <2>1. PICK o \in OwnedBy(s) : e = <<op[o].deadline, op[o].fd>>
    BY DEF Expired, ReactorInv, DeadlinesExact
  <2>2. ops[s][op[o].fd] = o /\ e[1] = op[o].deadline /\ e[2] = op[o].fd
    BY <2>1, HeldFacts
  <2>3. o \in X
    BY <2>2 DEF ExpiredOps
  <2> QED BY <2>1, <2>3
<1>7. \A o \in X : r[o] \in Results
  <2> SUFFICES ASSUME NEW o \in X PROVE r[o] \in Results
    OBVIOUS
  <2>1. op[o].stage \in Stages \ {"DONE"}
    BY HeldStages DEF Held, ExpiredOps
  <2> QED BY <2>1, StageFacts DEF Results
<1> HIDE DEF X, r
<1>5. D \subseteq deadlines[s] /\ deadlines[s] \ {<<op[o].deadline, op[o].fd>> : o \in X} \subseteq D
  BY <1>4
<1> HIDE DEF D
<1>6. Completes(s, X)
  BY <1>1, <1>2, <1>3, <1>5, <1>7, TableCompletes
<1> QED BY <1>6 DEF X

\* The end of a worker, or of shutdown(), for one shard.
LEMMA LeftoversComplete ==
    ASSUME ReactorInv, NEW s \in Shards, worker[s].pc # "begin",
           FinishAll(s, Leftovers(s), "CANCELLED"),
           pending' = [pending EXCEPT ![s] = <<>>], UNCHANGED submitting,
           \A q \in Shards : worker'[q].batch = worker[q].batch
    PROVE  Completes(s, Leftovers(s)) /\ Held(s) = Leftovers(s)
<1> DEFINE S == Leftovers(s)
<1>1. Starting(s) = {}
  <2>1. worker[s].batch = <<>>
    BY DEF ReactorInv, ThreadInv
  <2> QED BY <2>1 DEF Starting, SeqRange
<1>2. S = Queued(s) \cup OwnedBy(s) /\ Held(s) = S
  BY <1>1 DEF Leftovers, Queued, Held
<1> HIDE DEF S
<1>3. Finish(s, S, [o \in S |-> "CANCELLED"], deadlines[s])
  BY DEF FinishAll, S
<1>4. \A q \in Shards : pending'[q] = IF q = s THEN <<>> ELSE pending[q]
  BY DEF ReactorInv, TypeOK
<1>5. ASSUME NEW q \in Shards
      PROVE  /\ Distinct(pending'[q]) /\ Queued(q)' = Queued(q) \ S
             /\ Distinct(worker'[q].batch) /\ Starting(q)' = Starting(q) \ S
  <2>1. Starting(q)' = Starting(q) /\ Distinct(worker'[q].batch)
    BY QueuesDistinct DEF Starting
  <2>2. Queued(q)' = SeqRange(pending'[q])
    BY DEF Queued
  <2>3. CASE q = s
    <3>1. pending'[q] = <<>>
      BY <1>4, <2>3
    <3>2. Distinct(pending'[q]) /\ Queued(q)' = {}
      BY <2>2, <3>1 DEF Distinct, SeqRange
    <3> QED BY <1>1, <1>2, <2>1, <2>3, <3>2
  <2>4. CASE q # s
    <3>1. Queued(q) \ S = Queued(q) /\ Starting(q) \ S = Starting(q)
      BY <1>2, <2>4, Elsewhere
    <3>2. Queued(q)' = Queued(q) /\ Distinct(pending'[q])
      BY <1>4, <2>2, <2>4, QueuesDistinct DEF Queued
    <3> QED BY <2>1, <3>1, <3>2
  <2> QED BY <2>3, <2>4
<1>6. Completes(s, S)
  BY <1>2, <1>3, <1>5, FinishCompletes DEF Results
<1> QED BY <1>2, <1>6 DEF S

\* An event, a timeout of a stage or the end of an answer: the operation whose
\* descriptor is ready rests in a stage or completes.
LEMMA EventCases ==
    ASSUME ReactorInv, NEW s \in Shards, NEW f \in Fds, HandleEvent(s, f)
    PROVE  \/ UNCHANGED finishVars
           \/ \E o \in OwnedBy(s) : Completes(s, {o})
           \/ \E o \in OwnedBy(s), stage \in Stages \ {"DONE"}, t \in Times : Rest(s, o, stage, t)
<1>1. CASE ops[s][f] = NoOp
  BY <1>1 DEF HandleEvent
<1>2. CASE ops[s][f] # NoOp
  <2> DEFINE o == ops[s][f]
  <2>1. o \in OwnedBy(s)
    BY <1>2, HeldFacts
  <2>2. /\ UNCHANGED <<pending, submitting>> /\ advance(s, o)
        /\ worker' = [worker EXCEPT ![s].events = @ \ {f}]
    BY <1>2 DEF HandleEvent, clientVars
  <2>3. \A q \in Shards : worker'[q].batch = worker[q].batch
    BY <2>2 DEF ReactorInv, TypeOK
  <2> HIDE DEF o
  <2>4. op[o].stage \in Stages \ {"DONE"}
    BY <2>1, HeldStages DEF Held
  <2>5. PICK stage \in Reach(o, op[o].stage) :
          (\E t \in Times : Rest(s, o, stage, t)) \/ Ends(s, o, stage)
    BY <2>2 DEF advance
  <2>6. stage \in Stages \ {"DONE"}
    BY <2>4, StageFacts
  <2>7. ASSUME NEW r \in Results, FinishAll(s, {o}, r) PROVE Completes(s, {o})
    <3> DEFINE S == {o}
               R == [x \in S |-> r]
    <3>1. Finish(s, S, R, deadlines[s]) /\ S \in SUBSET OwnedBy(s) /\ \A x \in S : R[x] \in Results
      BY <2>1, <2>7 DEF FinishAll
    <3> HIDE DEF S, R
    <3>2. Completes(s, S)
      BY <2>2, <2>3, <3>1, TableCompletes
    <3> QED BY <3>2 DEF S
  <2>8. CASE Ends(s, o, stage)
    <3>1. StageFailure(stage, op[o].data \/ stage = "RECV_IDLE") \in Results
          /\ "SUCCESS" \in Results
      BY <2>6, StageFacts DEF Results
    <3> QED BY <2>1, <2>7, <2>8, <3>1 DEF Ends
  <2> QED BY <2>1, <2>5, <2>6, <2>8
<1> QED BY <1>1, <1>2

\* begin_connect registers the operation o under the free descriptor f.
Registers(s, o, f, t, stage) ==
    /\ fdtable[f] = NoOp
    /\ op' = [op EXCEPT ![o].fd = f, ![o].deadline = t, ![o].stage = stage]
    /\ ops' = [ops EXCEPT ![s][f] = o]
    /\ deadlines' = [deadlines EXCEPT ![s] = @ \cup {<<t, f>>}]
    /\ fdtable' = [fdtable EXCEPT ![f] = o]
    /\ UNCHANGED completions
    /\ ~op[o].cancel_requested

\* Starting the first operation of the batch: it completes or is registered.
LEMMA BeginCases ==
    ASSUME ReactorInv, NEW s \in Shards, BeginConnect(s)
    PROVE  LET o == Head(worker[s].batch)
           IN  /\ o \in Starting(s) /\ UNCHANGED <<pending, submitting>>
               /\ \A q \in Shards : worker'[q].batch \in Seq(Ops) /\ Distinct(worker'[q].batch)
               /\ \A q \in Shards : Queued(q)' = Queued(q) /\ Starting(q)' = Starting(q) \ {o}
               /\ \/ Completes(s, {o})
                  \/ \E f \in Fds, t \in Times, stage \in Stages \ {"DONE"} :
                       Registers(s, o, f, t, stage)
<1> DEFINE b == worker[s].batch
           o == Head(b)
           S == {o}
<1>1. /\ b # <<>> /\ begin_connect(s, o) /\ UNCHANGED <<pending, submitting>>
      /\ worker' = [worker EXCEPT ![s].batch = Tail(@)]
  BY DEF BeginConnect, clientVars
<1>2. \A q \in Shards : worker'[q].batch = IF q = s THEN Tail(b) ELSE worker[q].batch
  BY <1>1 DEF ReactorInv, TypeOK
<1>3. \A q \in Shards :
        /\ Distinct(worker[q].batch) /\ worker[q].batch \in Seq(Ops)
        /\ Starting(q) = SeqRange(worker[q].batch) /\ Starting(q)' = SeqRange(worker'[q].batch)
        /\ Queued(q)' = Queued(q)
  BY <1>1, QueuesDistinct, HeldFacts DEF Starting, Queued
<1>4. b \in Seq(Ops) /\ Distinct(b)
  BY <1>3
<1>5. /\ o \in SeqRange(b) /\ Tail(b) \in Seq(Ops) /\ Distinct(Tail(b))
      /\ SeqRange(Tail(b)) = SeqRange(b) \ {o}
  BY <1>1, <1>4, QueueFacts
<1>6. o \in Starting(s) /\ S \in SUBSET Held(s)
  BY <1>3, <1>5 DEF Held
<1> HIDE DEF b, o, S
<1>7. ASSUME NEW q \in Shards
      PROVE  /\ worker'[q].batch \in Seq(Ops) /\ Distinct(worker'[q].batch)
             /\ Starting(q)' = Starting(q) \ {o}
             /\ Queued(q)' = Queued(q) \ {o}
  <2>1. CASE q = s
    <3>1. Queued(q) \ {o} = Queued(q)
      BY <1>6, <2>1, QueuesDistinct
    <3>2. SeqRange(worker[q].batch) = SeqRange(b) /\ worker'[q].batch = Tail(b)
      BY <1>2, <2>1 DEF b
    <3> QED BY <1>3, <1>5, <3>1, <3>2
  <2>2. CASE q # s
    <3>1. Queued(q) \ S = Queued(q) /\ Starting(q) \ S = Starting(q)
      BY <1>6, <2>2, Elsewhere
    <3> QED BY <1>2, <1>3, <2>2, <3>1 DEF S
  <2> QED BY <2>1, <2>2
<1>8. ASSUME NEW r \in Results, FinishAll(s, S, r) PROVE Completes(s, S)
  <2> DEFINE R == [x \in S |-> r]
  <2>1. Finish(s, S, R, deadlines[s]) /\ \A x \in S : R[x] \in Results
    BY <1>8 DEF FinishAll
  <2> HIDE DEF R
  <2>2. \A q \in Shards : Distinct(pending'[q])
    BY <1>1, QueuesDistinct
  <2>3. \A q \in Shards :
             /\ Distinct(pending'[q]) /\ Queued(q)' = Queued(q) \ S
             /\ Distinct(worker'[q].batch) /\ Starting(q)' = Starting(q) \ S
    BY <1>7, <2>2 DEF S
  <2> QED BY <1>1, <1>6, <2>1, <2>3, FinishCompletes
<1>9. "CONNECTING" \in Stages \ {"DONE"} /\ "CANCELLED" \in Results
  BY DEF Stages, Results
<1>10. CASE op[o].cancel_requested /\ FinishAll(s, {o}, "CANCELLED")
  BY <1>1, <1>3, <1>6, <1>7, <1>8, <1>9, <1>10 DEF S, o, b
<1>11. CASE \E stage \in Reach(o, "CONNECTING") : FinishAll(s, {o}, StageFailure(stage, FALSE))
  <2>1. PICK stage \in Reach(o, "CONNECTING") : FinishAll(s, {o}, StageFailure(stage, FALSE))
    BY <1>11
  <2>2. StageFailure(stage, FALSE) \in Results
    BY <1>9, StageFacts
  <2>3. Completes(s, {o})
    BY <1>8, <2>1, <2>2 DEF S
  <2> QED BY <1>1, <1>3, <1>6, <1>7, <2>3 DEF o, b
<1>12. CASE \E f \in {g \in Fds : fdtable[g] = NoOp}, t \in Times,
               stage \in Reach(o, "CONNECTING") :
              /\ op' = [op EXCEPT ![o].fd = f, ![o].deadline = t, ![o].stage = stage]
              /\ ops' = [ops EXCEPT ![s][f] = o]
              /\ deadlines' = [deadlines EXCEPT ![s] = @ \cup {<<t, f>>}]
              /\ fdtable' = [fdtable EXCEPT ![f] = o]
              /\ UNCHANGED completions
              /\ ~op[o].cancel_requested
  <2>1. \A stage \in Reach(o, "CONNECTING") : stage \in Stages \ {"DONE"}
    BY <1>9, StageFacts
  <2>2. \E f \in Fds, t \in Times, stage \in Stages \ {"DONE"} : Registers(s, o, f, t, stage)
    BY <1>12, <2>1 DEF Registers
  <2> QED BY <1>1, <1>3, <1>6, <1>7, <2>2 DEF o, b
<1> QED BY <1>1, <1>10, <1>11, <1>12 DEF begin_connect

-----------------------------------------------------------------------------
(***************************************************************************)
(* The steps in which no operation completes.                              *)
(***************************************************************************)
\* Nothing happens to the ownership of an operation.
LEMMA QuietOwners ==
    ASSUME ReactorInv,
           \A o \in Ops :
             /\ op'[o].fd = op[o].fd /\ op'[o].finished = op[o].finished
             /\ op'[o].shard = op[o].shard
             /\ op'[o].stage = op[o].stage \/ op'[o].stage # "DONE"
             /\ submitting'[o] = "new" <=> submitting[o] = "new",
           UNCHANGED <<completions, ops, fdtable>>,
           \A r \in Shards :
             Queued(r)' \cup Starting(r)' = Queued(r) \cup Starting(r)
    PROVE  /\ OwnerInv' /\ DescriptorsExact'
           /\ \A r \in Shards : OwnedBy(r)' = OwnedBy(r) /\ Held(r)' = Held(r)
<1>1. OwnerInv /\ DescriptorsExact
  BY DEF ReactorInv
<1>2. \A r \in Shards : OwnedBy(r)' = OwnedBy(r) /\ Held(r)' = Held(r)
  BY DEF OwnedBy, Registered, Held
<1>3. DescriptorsExact'
  BY <1>1 DEF DescriptorsExact
<1>4. OwnerInv'
  BY <1>1, <1>2 DEF OwnerInv
<1> QED BY <1>2, <1>3, <1>4

LEMMA SamePlaces ==
    ASSUME ReactorInv, \A r \in Shards : OwnedBy(r)' = OwnedBy(r), UNCHANGED pending,
           \A q \in Shards : worker'[q].batch = worker[q].batch
    PROVE  OnePlace' /\ \A r \in Shards : Queued(r)' = Queued(r) /\ Starting(r)' = Starting(r)
<1>1. \A r \in Shards : Queued(r)' = Queued(r) /\ Starting(r)' = Starting(r)
  BY DEF Queued, Starting
<1>2. \A r \in Shards : Distinct(pending[r])' /\ Distinct(worker[r].batch)'
  <2> SUFFICES ASSUME NEW r \in Shards
               PROVE  Distinct(pending[r])' /\ Distinct(worker[r].batch)'
    OBVIOUS
  <2>1. Distinct(pending[r]) /\ Distinct(worker[r].batch)
    BY QueuesDistinct
  <2> QED BY <2>1 DEF Distinct
<1> QED BY <1>1, <1>2 DEF ReactorInv, OnePlace

\* An operation rests in a stage: only its deadline and its entry change.
LEMMA RestKeeps ==
    ASSUME ReactorInv, NEW s \in Shards, NEW o \in OwnedBy(s), NEW stage \in Stages \ {"DONE"},
           NEW t \in Times, Rest(s, o, stage, t), UNCHANGED <<pending, submitting>>,
           \A q \in Shards : worker'[q].batch = worker[q].batch
    PROVE  /\ OwnerInv' /\ OnePlace' /\ DescriptorsExact' /\ DeadlinesExact' /\ FinishTypes'
           /\ \A r \in Shards : OwnedBy(r)' = OwnedBy(r) /\ Queued(r)' = Queued(r)
           /\ \A p \in Ops : op'[p].cancel_requested = op[p].cancel_requested
<1>1. /\ op \in [Ops -> OpState] /\ FinishTypes /\ o \in Ops
      /\ op[o].fd \in Fds
  BY HeldFacts DEF ReactorInv, TypeOK, FinishTypes
<1> DEFINE d == IF stage = op[o].stage THEN op[o].deadline ELSE t
<1>2. /\ op' = [op EXCEPT ![o].stage = stage, ![o].data = @ \/ stage = "RECV_IDLE",
                          ![o].deadline = d]
      /\ UNCHANGED <<ops, fdtable, completions>>
  BY DEF Rest
<1>3. op' \in [Ops -> OpState]
  <2>1. op[o] \in OpState /\ d \in Times \cup {Never}
    BY <1>1 DEF OpState
  <2> HIDE DEF d
  <2>2. [op[o] EXCEPT !.stage = stage, !.data = @ \/ stage = "RECV_IDLE", !.deadline = d]
          \in OpState
    BY <2>1 DEF OpState
  <2> QED BY <1>1, <1>2, <2>2
<1>4. ASSUME NEW p \in Ops
      PROVE  /\ op'[p].fd = op[p].fd /\ op'[p].finished = op[p].finished
             /\ op'[p].shard = op[p].shard /\ op'[p].cancel_requested = op[p].cancel_requested
             /\ op'[p].stage = op[p].stage \/ op'[p].stage # "DONE"
             /\ op'[p].deadline = IF p = o THEN d ELSE op[p].deadline
  <2>1. op[p] \in OpState
    BY <1>1
  <2> HIDE DEF d
  <2> QED BY <1>1, <1>2, <2>1 DEF OpState
<1>5. /\ OwnerInv' /\ DescriptorsExact'
      /\ \A r \in Shards : OwnedBy(r)' = OwnedBy(r)
  <2>1. \A r \in Shards : Queued(r)' \cup Starting(r)' = Queued(r) \cup Starting(r)
    BY DEF Queued, Starting
  <2> HIDE DEF d
  <2> QED BY <1>2, <1>4, <2>1, QuietOwners
<1>6. OnePlace' /\ \A r \in Shards : Queued(r)' = Queued(r)
  BY <1>5, SamePlaces
<1> DEFINE P(p) == <<op[p].deadline, op[p].fd>>
<1>7. \A r \in Shards :
        deadlines'[r] = IF r = s THEN (deadlines[s] \ {P(o)}) \cup {<<d, op[o].fd>>}
                                 ELSE deadlines[r]
  <2>1. DOMAIN deadlines = Shards
    BY <1>1 DEF FinishTypes
  <2>2. CASE stage = op[o].stage
    <3>1. P(o) \in deadlines[s]
      BY HeldFacts
    <3>2. d = op[o].deadline /\ UNCHANGED deadlines
      BY <2>2 DEF Rest
    <3> QED BY <3>1, <3>2
  <2>3. CASE stage # op[o].stage
    <3>1. deadlines' = [deadlines EXCEPT ![s] = (@ \ {P(o)}) \cup {<<t, op[o].fd>>}] /\ d = t
      BY <2>3 DEF Rest, set_deadline
    <3> QED BY <2>1, <3>1
  <2> QED BY <2>2, <2>3
<1>8. FinishTypes'
  <2>1. deadlines' \in [Shards -> SUBSET (Times \X Fds)]
    <3>1. <<t, op[o].fd>> \in Times \X Fds
      BY <1>1
    <3>2. CASE stage = op[o].stage
      BY <1>1, <3>2 DEF Rest, FinishTypes
    <3>3. CASE stage # op[o].stage
      <4>1. deadlines' = [deadlines EXCEPT ![s] = (@ \ {P(o)}) \cup {<<t, op[o].fd>>}]
        BY <3>3 DEF Rest, set_deadline
      <4> HIDE DEF P
      <4> QED BY <1>1, <3>1, <4>1 DEF FinishTypes
    <3> QED BY <3>2, <3>3
  <2> QED BY <1>1, <1>2, <1>3, <2>1 DEF FinishTypes
<1>9. DeadlinesExact'
  <2>0. \A r \in Shards : \A p \in OwnedBy(r) :
          p \in Ops /\ op[p].shard = r /\ op[p].fd \in Fds /\ fdtable[op[p].fd] = p
    BY HeldFacts
  <2> SUFFICES ASSUME NEW r \in Shards
               PROVE  deadlines'[r] = {<<op'[p].deadline, op'[p].fd>> : p \in OwnedBy(r)}
    BY <1>5 DEF DeadlinesExact
  <2>1. deadlines[r] = {P(p) : p \in OwnedBy(r)}
    BY DEF ReactorInv, DeadlinesExact
  <2>2. ASSUME NEW p \in OwnedBy(r), p # o PROVE <<op'[p].deadline, op'[p].fd>> = P(p)
    BY <1>4, <2>0, <2>2
  <2>3. <<op'[o].deadline, op'[o].fd>> = <<d, op[o].fd>>
    BY <1>1, <1>4
  <2>4. CASE r # s
    <3>1. o \notin OwnedBy(r)
      BY <2>0, <2>4
    <3> HIDE DEF P
    <3> QED BY <1>7, <2>1, <2>2, <2>4, <3>1
  <2>5. CASE r = s
    <3>1. ASSUME NEW p \in OwnedBy(r), P(p) = P(o) PROVE p = o
      <4>1. op[p].fd = op[o].fd
        BY <3>1
      <4> QED BY <2>0, <2>5, <4>1
    <3>2. deadlines'[r] = (deadlines[r] \ {P(o)}) \cup {<<d, op[o].fd>>}
      BY <1>7, <2>5
    <3> HIDE DEF P, d
    <3> QED BY <2>1, <2>2, <2>3, <2>5, <3>1, <3>2
  <2> QED BY <2>4, <2>5
<1> QED BY <1>4, <1>5, <1>6, <1>8, <1>9

\* An operation is started: it moves from the batch to the table, under a descriptor
\* that nobody had.
LEMMA RegistersKeeps ==
    ASSUME ReactorInv, NEW s \in Shards, NEW o \in Starting(s), NEW f \in Fds, NEW t \in Times,
           NEW stage \in Stages \ {"DONE"}, Registers(s, o, f, t, stage),
           UNCHANGED <<pending, submitting>>,
           \A q \in Shards : /\ Distinct(worker'[q].batch) /\ Queued(q)' = Queued(q)
                             /\ Starting(q)' = Starting(q) \ {o}
    PROVE  /\ OwnerInv' /\ OnePlace' /\ DescriptorsExact' /\ DeadlinesExact' /\ FinishTypes'
           /\ \A r \in Shards : OwnedBy(r)' = IF r = s THEN OwnedBy(s) \cup {o} ELSE OwnedBy(r)
           /\ \A p \in Ops : op'[p].cancel_requested = op[p].cancel_requested
           /\ ~op[o].cancel_requested
<1>1. /\ op \in [Ops -> OpState] /\ FinishTypes /\ o \in Ops /\ op[o].fd = NoFd /\ o # NoOp
      /\ op[o].shard = s /\ ~op[o].finished /\ submitting[o] # "new" /\ ~op[o].cancel_requested
  BY HeldFacts, ReactorAssumption DEF ReactorInv, TypeOK, FinishTypes, Held, Registers
<1>14. op' = [op EXCEPT ![o].fd = f, ![o].deadline = t, ![o].stage = stage]
  BY DEF Registers
<1>2. /\ \A r \in Shards, g \in Fds : ops'[r][g] = IF r = s /\ g = f THEN o ELSE ops[r][g]
      /\ \A r \in Shards : deadlines'[r] = IF r = s THEN deadlines[s] \cup {<<t, f>>}
                                                    ELSE deadlines[r]
      /\ \A g \in Fds : fdtable'[g] = IF g = f THEN o ELSE fdtable[g]
      /\ UNCHANGED completions
  BY <1>1 DEF Registers, FinishTypes
<1>3. op' \in [Ops -> OpState]
  <2>1. op[o] \in OpState
    BY <1>1
  <2>2. [op[o] EXCEPT !.fd = f, !.deadline = t, !.stage = stage] \in OpState
    BY <2>1 DEF OpState
  <2> QED BY <1>1, <1>14, <2>2
<1>4. ASSUME NEW p \in Ops
      PROVE  /\ op'[p].fd = IF p = o THEN f ELSE op[p].fd
             /\ op'[p].finished = op[p].finished /\ op'[p].shard = op[p].shard
             /\ op'[p].cancel_requested = op[p].cancel_requested
             /\ op'[p].stage = IF p = o THEN stage ELSE op[p].stage
             /\ op'[p].deadline = IF p = o THEN t ELSE op[p].deadline
  <2>1. op[p] \in OpState
    BY <1>1
  <2> QED BY <1>1, <1>14, <2>1 DEF OpState
<1>5. FinishTypes'
  <2>1. deadlines' \in [Shards -> SUBSET (Times \X Fds)]
    BY <1>1 DEF Registers, FinishTypes
  <2>2. ops' \in [Shards -> [Fds -> Ops \cup {NoOp}]] /\ fdtable' \in [Fds -> Ops \cup {NoOp}]
    BY <1>1 DEF Registers, FinishTypes
  <2> QED BY <1>1, <1>2, <1>3, <2>1, <2>2 DEF FinishTypes
<1>6. /\ fdtable[f] = NoOp /\ \A r \in Shards : ops[r][f] = NoOp
      /\ \A p \in Ops : op[p].fd # f
  <2>1. fdtable[f] = NoOp /\ NoOp \notin Ops /\ DescriptorsExact
    BY ReactorAssumption DEF Registers, ReactorInv
  <2>2. \A r \in Shards : ops[r][f] \in Ops \cup {NoOp}
    BY <1>1 DEF FinishTypes
  <2> QED BY <2>1, <2>2 DEF DescriptorsExact
<1>7. \A r \in Shards : OwnedBy(r)' = IF r = s THEN OwnedBy(s) \cup {o} ELSE OwnedBy(r)
  <2> SUFFICES ASSUME NEW r \in Shards
               PROVE  OwnedBy(r)' = IF r = s THEN OwnedBy(s) \cup {o} ELSE OwnedBy(r)
    OBVIOUS
  <2>1. OwnedBy(r)' = {ops'[r][g] : g \in {h \in Fds : ops'[r][h] # NoOp}}
    BY DEF OwnedBy, Registered
  <2>2. CASE r # s
    BY <1>2, <2>1, <2>2 DEF OwnedBy, Registered
  <2>3. CASE r = s
    <3>1. \A g \in Fds : ops'[r][g] = IF g = f THEN o ELSE ops[r][g]
      BY <1>2, <2>3
    <3>2. \A g \in Fds : ops'[r][g] # NoOp <=> ops[r][g] # NoOp \/ g = f
      BY <1>1, <3>1
    <3> QED BY <1>6, <2>1, <2>3, <3>1, <3>2 DEF OwnedBy, Registered
  <2> QED BY <2>2, <2>3
<1>8. \A r \in Shards : r # s => o \notin Held(r)
  BY <1>1, HeldFacts
<1>9. \A r \in Shards : Held(r)' = Held(r)
  <2> SUFFICES ASSUME NEW r \in Shards PROVE Held(r)' = Held(r)
    OBVIOUS
  <2>1. Queued(r)' = Queued(r) /\ Starting(r)' = Starting(r) \ {o}
    OBVIOUS
  <2>2. CASE r = s
    BY <1>7, <2>1, <2>2 DEF Held
  <2>3. CASE r # s
    BY <1>7, <1>8, <2>1, <2>3 DEF Held
  <2> QED BY <2>2, <2>3
<1>10. OwnerInv'
  <2>1. OwnerInv
    BY DEF ReactorInv
  <2>2. \A p \in Ops : op'[p].stage = op[p].stage \/ op'[p].stage # "DONE"
    BY <1>4
  <2>3. UNCHANGED <<completions, submitting>>
    BY <1>2
  <2> SUFFICES ASSUME NEW p \in Ops
               PROVE  /\ completions'[p] = (IF op'[p].finished THEN 1 ELSE 0)
                      /\ submitting'[p] = "new" => ~op'[p].finished
                      /\ ~op'[p].finished => op'[p].stage # "DONE"
                      /\ \A r \in Shards : p \in Held(r)' =>
                           submitting'[p] # "new" /\ ~op'[p].finished /\ op'[p].shard = r
                      /\ submitting'[p] # "new" /\ ~op'[p].finished =>
                           \E r \in Shards : op'[p].shard = r /\ p \in Held(r)'
    BY DEF OwnerInv
  <2>4. op'[p].finished = op[p].finished /\ op'[p].shard = op[p].shard
    BY <1>4
  <2> QED BY <1>9, <2>1, <2>2, <2>3, <2>4 DEF OwnerInv
<1>11. OnePlace'
  <2>1. \A r \in Shards : Distinct(pending[r])' /\ Distinct(worker[r].batch)'
    <3> SUFFICES ASSUME NEW r \in Shards
                 PROVE  Distinct(pending[r])' /\ Distinct(worker[r].batch)'
      OBVIOUS
    <3>1. Distinct(pending[r]) /\ Distinct(worker'[r].batch)
      BY QueuesDistinct
    <3> QED BY <3>1 DEF Distinct
  <2>2. o \notin Queued(s)
    BY QueuesDistinct
  <2>3. ASSUME NEW r \in Shards
        PROVE  /\ (Queued(r) \cap Starting(r))' = {}
               /\ ((Queued(r) \cup Starting(r)) \cap OwnedBy(r))' = {}
    <3>1. /\ Queued(r) \cap Starting(r) = {} /\ Queued(r) \cap OwnedBy(r) = {}
          /\ Starting(r) \cap OwnedBy(r) = {}
      BY QueuesDistinct
    <3>2. Queued(r)' = Queued(r) /\ Starting(r)' = Starting(r) \ {o}
      OBVIOUS
    <3>3. CASE r = s
      BY <1>7, <2>2, <3>1, <3>2, <3>3
    <3>4. CASE r # s
      BY <1>7, <3>1, <3>2, <3>4
    <3> QED BY <3>3, <3>4
  <2> QED BY <2>1, <2>3 DEF OnePlace
<1>12. DescriptorsExact'
  <2> SUFFICES ASSUME NEW g \in Fds, NEW p \in Ops
               PROVE  /\ fdtable'[g] = p <=> op'[p].fd = g
                      /\ fdtable'[g] = p <=> \E r \in Shards : ops'[r][g] = p
    BY DEF DescriptorsExact
  <2>1. /\ fdtable[g] = p <=> op[p].fd = g
        /\ fdtable[g] = p <=> \E r \in Shards : ops[r][g] = p
    BY DEF ReactorInv, DescriptorsExact
  <2>2. op[o].fd # g
    BY <1>1, ReactorAssumption DEF NoFd
  <2>3. fdtable'[g] = IF g = f THEN o ELSE fdtable[g]
    BY <1>2
  <2>4. \A r \in Shards : ops'[r][g] = IF r = s /\ g = f THEN o ELSE ops[r][g]
    BY <1>2
  <2>5. op'[p].fd = IF p = o THEN f ELSE op[p].fd
    BY <1>4
  <2>6. o # NoOp /\ p # NoOp
    BY <1>1, ReactorAssumption
  <2>7. CASE g = f
    <3>1. op[p].fd # f /\ \A r \in Shards : ops[r][g] = NoOp
      BY <1>6, <2>7
    <3> QED BY <2>3, <2>4, <2>5, <2>6, <2>7, <3>1
  <2>8. CASE g # f
    <3>1. \A r \in Shards : ops'[r][g] = ops[r][g]
      BY <2>4, <2>8
    <3>2. fdtable'[g] = fdtable[g] /\ (op'[p].fd = g <=> op[p].fd = g)
      BY <2>2, <2>3, <2>5, <2>8
    <3> QED BY <2>1, <3>1, <3>2
  <2> QED BY <2>7, <2>8
<1>13. DeadlinesExact'
  <2> DEFINE P(p) == <<op[p].deadline, op[p].fd>>
  <2> SUFFICES ASSUME NEW r \in Shards
               PROVE  deadlines'[r] = {<<op'[p].deadline, op'[p].fd>> : p \in OwnedBy(r)'}
    BY DEF DeadlinesExact
  <2>1. deadlines[r] = {P(p) : p \in OwnedBy(r)}
    BY DEF ReactorInv, DeadlinesExact
  <2>2. OwnedBy(r) \subseteq Ops /\ o \notin OwnedBy(r)
    <3>1. o \in Starting(s)
      OBVIOUS
    <3>2. OwnedBy(r) \subseteq Ops /\ (r = s => o \notin OwnedBy(r))
      BY HeldFacts, QueuesDistinct
    <3> QED BY <1>8, <3>2 DEF Held
  <2>3. \A p \in OwnedBy(r) : <<op'[p].deadline, op'[p].fd>> = P(p)
    BY <1>4, <2>2
  <2>4. <<op'[o].deadline, op'[o].fd>> = <<t, f>>
    BY <1>1, <1>4
  <2> HIDE DEF P
  <2>5. deadlines'[r] = IF r = s THEN deadlines[s] \cup {<<t, f>>} ELSE deadlines[r]
    BY <1>2
  <2>6. OwnedBy(r)' = IF r = s THEN OwnedBy(s) \cup {o} ELSE OwnedBy(r)
    BY <1>7
  <2>7. CASE r = s
    <3>1. deadlines'[r] = deadlines[r] \cup {<<t, f>>} /\ OwnedBy(r)' = OwnedBy(r) \cup {o}
      BY <2>5, <2>6, <2>7
    <3> QED BY <2>1, <2>3, <2>4, <3>1
  <2>8. CASE r # s
    <3>1. deadlines'[r] = deadlines[r] /\ OwnedBy(r)' = OwnedBy(r)
      BY <2>5, <2>6, <2>8
    <3> QED BY <2>1, <2>3, <3>1
  <2> QED BY <2>7, <2>8
<1> QED BY <1>1, <1>4, <1>5, <1>7, <1>10, <1>11, <1>12, <1>13

\* Nothing happens to the operations but for their flags.
LEMMA QuietKeeps ==
    ASSUME ReactorInv, op' \in [Ops -> OpState],
           \A o \in Ops :
             /\ op'[o].fd = op[o].fd /\ op'[o].finished = op[o].finished
             /\ op'[o].shard = op[o].shard /\ op'[o].stage = op[o].stage
             /\ op'[o].deadline = op[o].deadline
             /\ submitting'[o] = "new" <=> submitting[o] = "new",
           UNCHANGED <<ops, deadlines, fdtable, completions, pending>>,
           \A q \in Shards : worker'[q].batch = worker[q].batch
    PROVE  /\ OwnerInv' /\ OnePlace' /\ DescriptorsExact' /\ DeadlinesExact' /\ FinishTypes'
           /\ \A r \in Shards : OwnedBy(r)' = OwnedBy(r) /\ Queued(r)' = Queued(r)
<1>1. \A r \in Shards : Queued(r)' = Queued(r) /\ Starting(r)' = Starting(r)
  BY DEF Queued, Starting
<1>2. OwnerInv' /\ DescriptorsExact' /\ \A r \in Shards : OwnedBy(r)' = OwnedBy(r)
  BY <1>1, QuietOwners
<1>3. OnePlace'
  BY <1>2, SamePlaces
<1>4. FinishTypes'
  BY DEF FinishTypes, ReactorInv, TypeOK
<1>5. DeadlinesExact'
  <2> SUFFICES ASSUME NEW r \in Shards
               PROVE  deadlines'[r] = {<<op'[o].deadline, op'[o].fd>> : o \in OwnedBy(r)}
    BY <1>2 DEF DeadlinesExact
  <2>1. OwnedBy(r) \subseteq Ops
    BY HeldFacts
  <2>2. deadlines[r] = {<<op[o].deadline, op[o].fd>> : o \in OwnedBy(r)}
    BY DEF ReactorInv, DeadlinesExact
  <2>3. \A o \in OwnedBy(r) : <<op'[o].deadline, op'[o].fd>> = <<op[o].deadline, op[o].fd>>
    BY <2>1
  <2> QED BY <2>2, <2>3
<1> QED BY <1>1, <1>2, <1>3, <1>4, <1>5

\* drain_pending moves the queue to the batch.
LEMMA DrainKeeps ==
    ASSUME ReactorInv, NEW s \in Shards, DrainPending(s)
    PROVE  /\ OwnerInv' /\ OnePlace' /\ DescriptorsExact' /\ DeadlinesExact' /\ FinishTypes'
           /\ \A r \in Shards : OwnedBy(r)' = OwnedBy(r)
           /\ \A r \in Shards : Queued(r)' = IF r = s THEN {} ELSE Queued(r)
           /\ pending' \in [Shards -> Seq(Ops)] /\ \A r \in Shards : worker'[r].batch \in Seq(Ops)
<1>1. /\ pending \in [Shards -> Seq(Ops)] /\ worker[s].batch = <<>>
      /\ UNCHANGED finishVars /\ UNCHANGED submitting
      /\ pending' = [pending EXCEPT ![s] = <<>>]
      /\ worker' = [worker EXCEPT ![s].pc = "begin", ![s].batch = pending[s]]
  <2>1. worker[s].pc # "begin"
    BY DEF DrainPending, At
  <2>2. worker[s].batch = <<>>
    BY <2>1 DEF ReactorInv, ThreadInv
  <2> QED BY <2>2 DEF DrainPending, ReactorInv, TypeOK, clientVars
<1>2. /\ \A r \in Shards : worker'[r].batch = IF r = s THEN pending[s] ELSE worker[r].batch
      /\ \A r \in Shards : pending'[r] = IF r = s THEN <<>> ELSE pending[r]
      /\ pending' \in [Shards -> Seq(Ops)]
  BY <1>1 DEF ReactorInv, TypeOK
<1>3. \A r \in Shards :
        /\ Queued(r)' = IF r = s THEN {} ELSE Queued(r)
        /\ Starting(r)' = IF r = s THEN Queued(s) ELSE Starting(r)
  <2>1. SeqRange(<<>>) = {}
    BY DEF SeqRange
  <2> QED BY <1>2, <2>1 DEF Queued, Starting
<1>4. Starting(s) = {}
  BY <1>1 DEF Starting, SeqRange
<1>5. UNCHANGED <<op, ops, deadlines, fdtable, completions>>
  BY <1>1 DEF finishVars
<1>6. OwnerInv' /\ DescriptorsExact' /\ \A r \in Shards : OwnedBy(r)' = OwnedBy(r)
  <2>1. \A r \in Shards : Queued(r)' \cup Starting(r)' = Queued(r) \cup Starting(r)
    BY <1>3, <1>4
  <2> QED BY <1>1, <1>5, <2>1, QuietOwners
<1>7. DeadlinesExact'
  BY <1>5, <1>6 DEF ReactorInv, DeadlinesExact
<1>8. FinishTypes'
  BY <1>5 DEF FinishTypes, ReactorInv, TypeOK
<1>9. OnePlace'
  <2> SUFFICES ASSUME NEW r \in Shards
               PROVE  /\ Distinct(pending'[r]) /\ Distinct(worker'[r].batch)
                      /\ Queued(r)' \cap Starting(r)' = {}
                      /\ (Queued(r)' \cup Starting(r)') \cap OwnedBy(r)' = {}
    BY DEF OnePlace, Distinct
  <2>1. /\ Distinct(pending[r]) /\ Distinct(worker[r].batch) /\ Distinct(<<>>)
        /\ Queued(r) \cap OwnedBy(r) = {} /\ Starting(r) \cap OwnedBy(r) = {}
        /\ Queued(r) \cap Starting(r) = {}
    BY QueuesDistinct DEF Distinct
  <2>2. Distinct(pending'[r]) /\ Distinct(worker'[r].batch)
    <3>1. CASE r = s
      BY <1>2, <2>1, <3>1
    <3>2. CASE r # s
      BY <1>2, <2>1, <3>2
    <3> QED BY <3>1, <3>2
  <2> QED BY <1>3, <1>6, <2>1, <2>2
<1>10. \A r \in Shards : worker'[r].batch \in Seq(Ops)
  BY <1>2, HeldFacts
<1> QED BY <1>2, <1>3, <1>6, <1>7, <1>8, <1>9, <1>10

\* submit queues the operation, or completes it when the shard is closed.
LEMMA SubmitKeeps ==
    ASSUME ReactorInv, NEW o \in Ops, SubmitPush(o)
    PROVE  /\ OwnerInv' /\ OnePlace' /\ DescriptorsExact' /\ DeadlinesExact' /\ FinishTypes'
           /\ \A r \in Shards : OwnedBy(r)' = OwnedBy(r)
           /\ \A r \in Shards :
                \/ Queued(r)' = Queued(r)
                \/ Queued(r)' = Queued(r) \cup {o} /\ ~closed[r] /\ submitting'[o] = "pushed"
           /\ \A r \in Shards : closed[r] => pending'[r] = pending[r]
           /\ pending' \in [Shards -> Seq(Ops)]
<1>1. PICK s \in Shards : s = next_shard
  BY DEF ReactorInv, TypeOK
<1>2. /\ op \in [Ops -> OpState] /\ FinishTypes /\ pending \in [Shards -> Seq(Ops)]
      /\ submitting[o] = "new" /\ submitting \in [Ops -> {"new", "pushed", "in"}]
      /\ UNCHANGED <<ops, deadlines, fdtable, worker>>
  BY DEF ReactorInv, TypeOK, FinishTypes, SubmitPush
<1>3. OwnerInv /\ ~op[o].finished /\ \A r \in Shards : o \notin Held(r)
  BY <1>2 DEF ReactorInv, OwnerInv
<1>4. \A r \in Shards : OwnedBy(r)' = OwnedBy(r) /\ Starting(r)' = Starting(r)
  BY <1>2 DEF OwnedBy, Registered, Starting
<1>5. CASE /\ ~closed[s]
           /\ pending' = [pending EXCEPT ![s] = Append(@, o)]
           /\ op' = [op EXCEPT ![o].shard = s]
           /\ submitting' = [submitting EXCEPT ![o] = "pushed"]
           /\ UNCHANGED completions
  <2>1. \A r \in Shards : pending'[r] = IF r = s THEN Append(pending[s], o) ELSE pending[r]
    BY <1>2, <1>5
  <2>2. /\ Append(pending[s], o) \in Seq(Ops) /\ Distinct(Append(pending[s], o))
        /\ SeqRange(Append(pending[s], o)) = Queued(s) \cup {o}
    <3>1. pending[s] \in Seq(Ops) /\ Distinct(pending[s]) /\ o \notin SeqRange(pending[s])
      BY <1>2, <1>3, QueuesDistinct DEF Held, Queued
    <3> QED BY <3>1, QueueFacts DEF Queued
  <2>3. \A r \in Shards : Queued(r)' = IF r = s THEN Queued(s) \cup {o} ELSE Queued(r)
    BY <2>1, <2>2 DEF Queued
  <2>4. pending' \in [Shards -> Seq(Ops)]
    BY <1>2, <1>5, <2>2
  <2>5. ASSUME NEW p \in Ops
        PROVE  /\ op'[p].fd = op[p].fd /\ op'[p].finished = op[p].finished
               /\ op'[p].shard = IF p = o THEN s ELSE op[p].shard
               /\ op'[p].stage = op[p].stage /\ op'[p].deadline = op[p].deadline
               /\ submitting'[p] = IF p = o THEN "pushed" ELSE submitting[p]
    <3>1. op[p] \in OpState
      BY <1>2
    <3> QED BY <1>2, <1>5, <3>1 DEF OpState
  <2>6. op' \in [Ops -> OpState]
    <3>1. op[o] \in OpState
      BY <1>2
    <3>2. [op[o] EXCEPT !.shard = s] \in OpState
      BY <3>1 DEF OpState
    <3> QED BY <1>2, <1>5, <3>2
  <2>7. FinishTypes'
    BY <1>2, <1>5, <2>6 DEF FinishTypes
  <2>8. DescriptorsExact'
    BY <1>2, <2>5 DEF ReactorInv, DescriptorsExact
  <2>9. DeadlinesExact'
    <3> SUFFICES ASSUME NEW r \in Shards
                 PROVE  deadlines'[r] = {<<op'[p].deadline, op'[p].fd>> : p \in OwnedBy(r)}
      BY <1>4 DEF DeadlinesExact
    <3>1. deadlines[r] = {<<op[p].deadline, op[p].fd>> : p \in OwnedBy(r)}
      BY DEF ReactorInv, DeadlinesExact
    <3>2. OwnedBy(r) \subseteq Ops
      BY HeldFacts
    <3>3. \A p \in OwnedBy(r) : <<op'[p].deadline, op'[p].fd>> = <<op[p].deadline, op[p].fd>>
      BY <2>5, <3>2
    <3> QED BY <1>2, <3>1, <3>3
  <2>10. \A r \in Shards : Held(r)' = IF r = s THEN Held(s) \cup {o} ELSE Held(r)
    BY <1>4, <2>3 DEF Held
  <2>11. OwnerInv'
    <3> SUFFICES ASSUME NEW p \in Ops
                 PROVE  /\ completions'[p] = (IF op'[p].finished THEN 1 ELSE 0)
                        /\ submitting'[p] = "new" => ~op'[p].finished
                        /\ ~op'[p].finished => op'[p].stage # "DONE"
                        /\ \A r \in Shards : p \in Held(r)' =>
                             submitting'[p] # "new" /\ ~op'[p].finished /\ op'[p].shard = r
                        /\ submitting'[p] # "new" /\ ~op'[p].finished =>
                             \E r \in Shards : op'[p].shard = r /\ p \in Held(r)'
      BY DEF OwnerInv
    <3>1. UNCHANGED completions
      BY <1>5
    <3>2. CASE p = o
      BY <1>3, <2>5, <2>10, <3>1, <3>2 DEF OwnerInv
    <3>3. CASE p # o
      BY <1>3, <2>5, <2>10, <3>1, <3>3 DEF OwnerInv
    <3> QED BY <3>2, <3>3
  <2>12. OnePlace'
    <3> SUFFICES ASSUME NEW r \in Shards
                 PROVE  /\ Distinct(pending'[r]) /\ Distinct(worker'[r].batch)
                        /\ Queued(r)' \cap Starting(r)' = {}
                        /\ (Queued(r)' \cup Starting(r)') \cap OwnedBy(r)' = {}
      BY DEF OnePlace, Distinct
    <3>1. /\ Distinct(pending[r]) /\ Distinct(worker[r].batch)
          /\ Queued(r) \cap OwnedBy(r) = {} /\ Starting(r) \cap OwnedBy(r) = {}
          /\ Queued(r) \cap Starting(r) = {}
      BY QueuesDistinct
    <3>2. Distinct(pending'[r]) /\ Distinct(worker'[r].batch)
      BY <1>2, <2>1, <2>2, <3>1
    <3>3. o \notin Starting(r) /\ o \notin OwnedBy(r)
      BY <1>3 DEF Held
    <3>4. CASE r = s
      BY <1>4, <2>3, <3>1, <3>2, <3>3, <3>4
    <3>5. CASE r # s
      BY <1>4, <2>3, <3>1, <3>2, <3>5
    <3> QED BY <3>4, <3>5
  <2>13. \A r \in Shards :
           \/ Queued(r)' = Queued(r)
           \/ Queued(r)' = Queued(r) \cup {o} /\ ~closed[r] /\ submitting'[o] = "pushed"
    <3>1. ~closed[s] /\ submitting'[o] = "pushed"
      BY <1>5, <2>5
    <3> QED BY <2>3, <3>1
  <2>14. \A r \in Shards : closed[r] => pending'[r] = pending[r]
    BY <1>5, <2>1
  <2> QED BY <1>4, <2>4, <2>7, <2>8, <2>9, <2>11, <2>12, <2>13, <2>14
<1>6. CASE /\ op' = [op EXCEPT ![o].shard = s, ![o].finished = TRUE,
                               ![o].stage = "DONE", ![o].result = "CANCELLED"]
           /\ completions' = [completions EXCEPT ![o] = @ + 1]
           /\ submitting' = [submitting EXCEPT ![o] = "in"]
           /\ UNCHANGED pending
  <2>1. ASSUME NEW p \in Ops
        PROVE  /\ op'[p].fd = op[p].fd /\ op'[p].deadline = op[p].deadline
               /\ p # o => op'[p] = op[p] /\ submitting'[p] = submitting[p]
                           /\ completions'[p] = completions[p]
               /\ p = o => op'[p].finished = TRUE /\ submitting'[p] = "in"
                           /\ completions'[p] = completions[p] + 1
    <3>1. op[p] \in OpState
      BY <1>2
    <3> QED BY <1>2, <1>6, <3>1 DEF OpState, FinishTypes
  <2>2. \A r \in Shards : Queued(r)' = Queued(r) /\ Held(r)' = Held(r)
    BY <1>4, <1>6 DEF Queued, Held
  <2>3. op' \in [Ops -> OpState] /\ completions' \in [Ops -> Nat]
    <3>1. op[o] \in OpState
      BY <1>2
    <3>2. [op[o] EXCEPT !.shard = s, !.finished = TRUE, !.stage = "DONE",
                        !.result = "CANCELLED"] \in OpState
      BY <3>1 DEF OpState, Stages, Results
    <3>3. completions' \in [Ops -> Nat]
      BY <1>2, <1>6 DEF FinishTypes
    <3> QED BY <1>2, <1>6, <3>2, <3>3
  <2>4. FinishTypes'
    BY <1>2, <2>3 DEF FinishTypes
  <2>5. DescriptorsExact'
    <3>1. \A p \in Ops : op'[p].fd = op[p].fd
      BY <2>1
    <3>2. UNCHANGED <<ops, fdtable>>
      BY <1>2
    <3> QED BY <3>1, <3>2 DEF ReactorInv, DescriptorsExact
  <2>6. DeadlinesExact'
    <3> SUFFICES ASSUME NEW r \in Shards
                 PROVE  deadlines'[r] = {<<op'[p].deadline, op'[p].fd>> : p \in OwnedBy(r)}
      BY <1>4 DEF DeadlinesExact
    <3>1. deadlines[r] = {<<op[p].deadline, op[p].fd>> : p \in OwnedBy(r)}
      BY DEF ReactorInv, DeadlinesExact
    <3>2. OwnedBy(r) \subseteq Ops
      BY HeldFacts
    <3>3. \A p \in OwnedBy(r) : <<op'[p].deadline, op'[p].fd>> = <<op[p].deadline, op[p].fd>>
      BY <2>1, <3>2
    <3> QED BY <1>2, <3>1, <3>3
  <2>7. OwnerInv'
    <3> SUFFICES ASSUME NEW p \in Ops
                 PROVE  /\ completions'[p] = (IF op'[p].finished THEN 1 ELSE 0)
                        /\ submitting'[p] = "new" => ~op'[p].finished
                        /\ ~op'[p].finished => op'[p].stage # "DONE"
                        /\ \A r \in Shards : p \in Held(r)' =>
                             submitting'[p] # "new" /\ ~op'[p].finished /\ op'[p].shard = r
                        /\ submitting'[p] # "new" /\ ~op'[p].finished =>
                             \E r \in Shards : op'[p].shard = r /\ p \in Held(r)'
      BY DEF OwnerInv
    <3>1. CASE p = o
      <4>1. completions[o] = 0
        <5>1. completions[o] = (IF op[o].finished THEN 1 ELSE 0)
          BY <1>3 DEF OwnerInv
        <5> QED BY <1>3, <5>1
      <4>2. op'[p].finished = TRUE /\ completions'[p] = 1 /\ submitting'[p] = "in"
        <5>1. op'[o].finished = TRUE /\ completions'[o] = completions[o] + 1 /\ submitting'[o] = "in"
          BY <2>1
        <5> QED BY <3>1, <4>1, <5>1
      <4>3. \A r \in Shards : p \notin Held(r)'
        BY <1>3, <2>2, <3>1
      <4> QED BY <4>2, <4>3
    <3>2. CASE p # o
      <4>1. op'[p] = op[p] /\ submitting'[p] = submitting[p] /\ completions'[p] = completions[p]
        BY <2>1, <3>2
      <4> QED BY <1>3, <2>2, <4>1 DEF OwnerInv
    <3> QED BY <3>1, <3>2
  <2>8. OnePlace'
    BY <1>2, <1>4, <1>6, SamePlaces
  <2>9. pending' = pending /\ pending' \in [Shards -> Seq(Ops)]
    BY <1>2, <1>6
  <2> QED BY <1>4, <2>2, <2>4, <2>5, <2>6, <2>7, <2>8, <2>9
<1> QED BY <1>1, <1>5, <1>6 DEF SubmitPush

-----------------------------------------------------------------------------
(***************************************************************************)
(* The invariant is inductive.                                             *)
(***************************************************************************)
\* The steps that only move a thread or set a flag.
QuietStep ==
    \/ \E o \in Ops : SubmitWake(o) \/ CancelRequest(o) \/ CancelWake(o)
    \/ \E s \in Shards : EpollWait(s) \/ ReadWake(s) \/ EventsDone(s) \/ LeaveLoop(s)
    \/ ShutdownStart \/ ShutdownJoined \/ UNCHANGED vars

LEMMA QuietSteps ==
    ASSUME ReactorInv, QuietStep
    PROVE  /\ OwnerInv' /\ OnePlace' /\ DescriptorsExact' /\ DeadlinesExact' /\ FinishTypes'
           /\ \A r \in Shards : OwnedBy(r)' = OwnedBy(r) /\ Queued(r)' = Queued(r)
           /\ UNCHANGED <<pending, closed>>
           /\ \A r \in Shards : worker'[r].batch = worker[r].batch
           /\ \A o \in Ops : op[o].cancel_requested => op'[o].cancel_requested
<1>1. /\ op \in [Ops -> OpState] /\ submitting \in [Ops -> {"new", "pushed", "in"}]
      /\ worker \in [Shards -> [pc : {"loop", "events", "drain", "begin", "sweep", "cleanup",
                                      "exited"},
                                events : SUBSET (Fds \cup {Wake}), woke : BOOLEAN,
                                batch : Seq(Ops)]]
  BY DEF ReactorInv, TypeOK
<1>2. UNCHANGED <<ops, deadlines, fdtable, completions, pending, closed>>
  BY DEF QuietStep, SubmitWake, CancelRequest, CancelWake, EpollWait, ReadWake, EventsDone,
         LeaveLoop, ShutdownStart, ShutdownJoined, vars, finishVars
<1>3. /\ op' \in [Ops -> OpState]
      /\ \A o \in Ops :
           /\ op'[o].fd = op[o].fd /\ op'[o].finished = op[o].finished
           /\ op'[o].shard = op[o].shard /\ op'[o].stage = op[o].stage
           /\ op'[o].deadline = op[o].deadline
           /\ op[o].cancel_requested => op'[o].cancel_requested
  <2>1. CASE UNCHANGED op
    BY <1>1, <2>1
  <2>2. ASSUME NEW p \in Ops, op' = [op EXCEPT ![p].cancel_requested = TRUE]
        PROVE  /\ op' \in [Ops -> OpState]
               /\ \A o \in Ops :
                    /\ op'[o].fd = op[o].fd /\ op'[o].finished = op[o].finished
                    /\ op'[o].shard = op[o].shard /\ op'[o].stage = op[o].stage
                    /\ op'[o].deadline = op[o].deadline
                    /\ op[o].cancel_requested => op'[o].cancel_requested
    <3>1. op[p] \in OpState
      BY <1>1
    <3>2. [op[p] EXCEPT !.cancel_requested = TRUE] \in OpState
      BY <3>1 DEF OpState
    <3>3. op' \in [Ops -> OpState]
      BY <1>1, <2>2, <3>2
    <3> SUFFICES ASSUME NEW o \in Ops
                 PROVE  /\ op'[o].fd = op[o].fd /\ op'[o].finished = op[o].finished
                        /\ op'[o].shard = op[o].shard /\ op'[o].stage = op[o].stage
                        /\ op'[o].deadline = op[o].deadline
                        /\ op[o].cancel_requested => op'[o].cancel_requested
      BY <3>3
    <3>4. CASE o = p
      <4>1. op'[o] = [op[p] EXCEPT !.cancel_requested = TRUE]
        BY <1>1, <2>2, <3>4
      <4> QED BY <3>1, <3>4, <4>1 DEF OpState
    <3>5. CASE o # p
      <4>1. op'[o] = op[o]
        BY <1>1, <2>2, <3>5
      <4> QED BY <4>1
    <3> QED BY <3>4, <3>5
  <2>3. UNCHANGED op \/ \E p \in Ops : op' = [op EXCEPT ![p].cancel_requested = TRUE]
    BY DEF QuietStep, SubmitWake, CancelRequest, CancelWake, EpollWait, ReadWake, EventsDone,
           LeaveLoop, ShutdownStart, ShutdownJoined, vars, finishVars
  <2> QED BY <2>1, <2>2, <2>3
<1>4. \A o \in Ops : submitting'[o] = "new" <=> submitting[o] = "new"
  <2>1. CASE UNCHANGED submitting
    BY <2>1
  <2>2. ASSUME NEW p \in Ops, SubmitWake(p)
        PROVE  \A o \in Ops : submitting'[o] = "new" <=> submitting[o] = "new"
    BY <1>1, <2>2 DEF SubmitWake
  <2> QED
    BY <2>1, <2>2
    DEF QuietStep, CancelRequest, CancelWake, EpollWait, ReadWake, EventsDone,
        LeaveLoop, ShutdownStart, ShutdownJoined, vars, clientVars
<1>5. \A r \in Shards : worker'[r].batch = worker[r].batch
  <2>1. CASE UNCHANGED worker
    BY <2>1
  <2>2. ASSUME NEW s \in Shards, EpollWait(s) \/ ReadWake(s) \/ EventsDone(s) \/ LeaveLoop(s)
        PROVE  \A r \in Shards : worker'[r].batch = worker[r].batch
    <3>1. CASE EpollWait(s)
      BY <1>1, <3>1 DEF EpollWait
    <3>2. CASE ReadWake(s)
      BY <1>1, <3>2 DEF ReadWake
    <3>3. CASE EventsDone(s) \/ LeaveLoop(s)
      <4>1. \E where : worker' = [worker EXCEPT ![s].pc = where]
        BY <3>3 DEF EventsDone, LeaveLoop, Goto
      <4> QED BY <1>1, <4>1
    <3> QED BY <2>2, <3>1, <3>2, <3>3
  <2>3. UNCHANGED worker
          \/ \E s \in Shards : EpollWait(s) \/ ReadWake(s) \/ EventsDone(s) \/ LeaveLoop(s)
    BY DEF QuietStep, SubmitWake, CancelRequest, CancelWake, ShutdownStart, ShutdownJoined, vars
  <2> QED BY <2>1, <2>2, <2>3
<1>6. /\ OwnerInv' /\ OnePlace' /\ DescriptorsExact' /\ DeadlinesExact' /\ FinishTypes'
      /\ \A r \in Shards : OwnedBy(r)' = OwnedBy(r) /\ Queued(r)' = Queued(r)
  BY <1>2, <1>3, <1>4, <1>5, QuietKeeps
<1> QED BY <1>2, <1>3, <1>5, <1>6

\* Every step is quiet, starts, moves or completes operations.
LEMMA StepKinds ==
    ASSUME [Next]_vars
    PROVE  \/ QuietStep
           \/ \E o \in Ops : SubmitPush(o)
           \/ \E s \in Shards :
                \/ DrainPending(s) \/ BeginConnect(s) \/ ProcessCancellations(s)
                \/ WorkerCleanup(s) \/ CloseShard(s)
                \/ \E f \in Fds : HandleEvent(s, f)
                \/ \E now \in 0 .. MaxTime : SweepTimeouts(s, now)
BY DEF Next, ClientStep, WorkerStep, ShutdownStep, Down, QuietStep

\* The completions at the end of a worker and in shutdown().
LEMMA CleanupCompletes ==
    ASSUME ReactorInv, NEW s \in Shards, WorkerCleanup(s) \/ CloseShard(s)
    PROVE  Completes(s, Leftovers(s)) /\ Held(s) = Leftovers(s)
<1>1. /\ FinishAll(s, Leftovers(s), "CANCELLED")
      /\ pending' = [pending EXCEPT ![s] = <<>>] /\ UNCHANGED submitting
  BY DEF WorkerCleanup, CloseShard, clientVars
<1>2. worker[s].pc # "begin"
  <2>1. CASE WorkerCleanup(s)
    BY <2>1 DEF WorkerCleanup, At
  <2>2. CASE CloseShard(s)
    <3>1. shut = "close"
      BY <2>2 DEF CloseShard
    <3> QED BY <3>1 DEF ReactorInv, ThreadInv
  <2> QED BY <2>1, <2>2
<1>3. \A q \in Shards : worker'[q].batch = worker[q].batch
  <2>1. CASE WorkerCleanup(s)
    <3>1. worker' = [worker EXCEPT ![s].pc = "exited"]
      BY <2>1 DEF WorkerCleanup, Goto
    <3> QED BY <3>1 DEF ReactorInv, TypeOK
  <2>2. CASE CloseShard(s)
    BY <2>2 DEF CloseShard
  <2> QED BY <2>1, <2>2
<1> QED BY <1>1, <1>2, <1>3, LeftoversComplete

LEMMA OwnersNext ==
    ASSUME ReactorInv, [Next]_vars
    PROVE  OwnerInv' /\ OnePlace' /\ DescriptorsExact' /\ DeadlinesExact' /\ FinishTypes'
<1> DEFINE Good == OwnerInv /\ OnePlace /\ DescriptorsExact /\ DeadlinesExact /\ FinishTypes
<1>1. ASSUME NEW s \in Shards, NEW S, Completes(s, S) PROVE Good'
  <2>1. FinishTypes'
    BY <1>1 DEF Completes
  <2> QED BY <1>1, <2>1, CompletesTables, CompletesOwners
<1>2. CASE QuietStep
  BY <1>2, QuietSteps
<1>3. ASSUME NEW o \in Ops, SubmitPush(o) PROVE Good'
  BY <1>3, SubmitKeeps
<1>4. ASSUME NEW s \in Shards, DrainPending(s) PROVE Good'
  BY <1>4, DrainKeeps
<1>5. ASSUME NEW s \in Shards, BeginConnect(s) PROVE Good'
  <2> DEFINE o == Head(worker[s].batch)
  <2>1. /\ o \in Starting(s) /\ UNCHANGED <<pending, submitting>>
        /\ \A q \in Shards : Distinct(worker'[q].batch)
        /\ \A q \in Shards : Queued(q)' = Queued(q) /\ Starting(q)' = Starting(q) \ {o}
        /\ \/ Completes(s, {o})
           \/ \E f \in Fds, t \in Times, stage \in Stages \ {"DONE"} :
                Registers(s, o, f, t, stage)
    BY <1>5, BeginCases
  <2> HIDE DEF o
  <2>2. CASE Completes(s, {o})
    BY <1>1, <2>2
  <2>3. ASSUME NEW f \in Fds, NEW t \in Times, NEW stage \in Stages \ {"DONE"},
               Registers(s, o, f, t, stage)
        PROVE  Good'
    BY <2>1, <2>3, RegistersKeeps
  <2> QED BY <2>1, <2>2, <2>3
<1>6. ASSUME NEW s \in Shards, ProcessCancellations(s) PROVE Good'
  BY <1>1, <1>6, CancellationsComplete
<1>7. ASSUME NEW s \in Shards, WorkerCleanup(s) \/ CloseShard(s) PROVE Good'
  BY <1>1, <1>7, CleanupCompletes
<1>8. ASSUME NEW s \in Shards, NEW now, SweepTimeouts(s, now) PROVE Good'
  BY <1>1, <1>8, SweepCompletes
<1>9. ASSUME NEW s \in Shards, NEW f \in Fds, HandleEvent(s, f) PROVE Good'
  <2>1. /\ UNCHANGED <<pending, submitting>>
        /\ \A q \in Shards : worker'[q].batch = worker[q].batch
    BY <1>9 DEF HandleEvent, clientVars, ReactorInv, TypeOK
  <2>2. CASE UNCHANGED finishVars
    <3>1. UNCHANGED <<op, ops, deadlines, fdtable, completions>>
      BY <2>2 DEF finishVars
    <3>2. op' \in [Ops -> OpState]
      BY <3>1 DEF ReactorInv, TypeOK
    <3> QED BY <2>1, <3>1, <3>2, QuietKeeps
  <2>3. ASSUME NEW o \in OwnedBy(s), Completes(s, {o}) PROVE Good'
    BY <1>1, <2>3
  <2>4. ASSUME NEW o \in OwnedBy(s), NEW stage \in Stages \ {"DONE"}, NEW t \in Times,
               Rest(s, o, stage, t)
        PROVE  Good'
    BY <2>1, <2>4, RestKeeps
  <2> QED BY <1>9, <2>2, <2>3, <2>4, EventCases
<1> QED BY <1>2, <1>3, <1>4, <1>5, <1>6, <1>7, <1>8, <1>9, StepKinds

\* What a step can add to the queue and to the table of a shard.
LEMMA Movement ==
    ASSUME ReactorInv, [Next]_vars, NEW r \in Shards
    PROVE  /\ \A o \in OwnedBy(r)' : o \in OwnedBy(r)
                \/ (o \in Ops /\ ~op[o].cancel_requested /\ UNCHANGED cancelling
                    /\ worker[r].pc = "begin" /\ BeginConnect(r))
           /\ \A o \in Queued(r)' : o \in Queued(r) \/ (submitting'[o] = "pushed" /\ ~closed[r])
           /\ \A o \in Ops : op[o].cancel_requested => op'[o].cancel_requested
<1> DEFINE Good(q) ==
             /\ \A o \in OwnedBy(q)' : o \in OwnedBy(q)
                  \/ (o \in Ops /\ ~op[o].cancel_requested /\ UNCHANGED cancelling
                      /\ worker[q].pc = "begin" /\ BeginConnect(q))
             /\ \A o \in Queued(q)' : o \in Queued(q) \/ (submitting'[o] = "pushed" /\ ~closed[q])
             /\ \A o \in Ops : op[o].cancel_requested => op'[o].cancel_requested
<1>1. ASSUME NEW s \in Shards, NEW S, Completes(s, S) PROVE Good(r)
  <2> HIDE DEF Good
  <2>1. OwnedBy(r)' = OwnedBy(r) \ S /\ Queued(r)' = Queued(r) \ S /\ S \subseteq Ops
    <3>1. Queued(r)' = Queued(r) \ S
      BY <1>1 DEF Completes
    <3>2. OwnedBy(r)' = OwnedBy(r) \ S /\ S \subseteq Ops
      BY <1>1, CompletesTables
    <3> QED BY <3>1, <3>2
  <2>2. ASSUME NEW o \in Ops, op[o].cancel_requested PROVE op'[o].cancel_requested
    <3>1. op[o] \in OpState
      BY DEF ReactorInv, TypeOK
    <3>2. CASE o \in S
      <4>1. op'[o] = [op[o] EXCEPT !.finished = TRUE, !.stage = "DONE",
                                   !.result = op'[o].result, !.fd = NoFd]
        BY <1>1, <3>2 DEF Completes
      <4> QED BY <2>2, <3>1, <4>1 DEF OpState
    <3>3. CASE o \notin S
      BY <1>1, <2>2, <3>3 DEF Completes
    <3> QED BY <3>2, <3>3
  <2> QED BY <2>1, <2>2 DEF Good
<1>2. CASE QuietStep
  BY <1>2, QuietSteps
<1>3. ASSUME NEW o \in Ops, SubmitPush(o) PROVE Good(r)
  <2>1. OwnedBy(r)' = OwnedBy(r)
        /\ (Queued(r)' = Queued(r)
            \/ (Queued(r)' = Queued(r) \cup {o} /\ ~closed[r] /\ submitting'[o] = "pushed"))
    BY <1>3, SubmitKeeps
  <2>2. ASSUME NEW p \in Ops, op[p].cancel_requested PROVE op'[p].cancel_requested
    <3>1. op \in [Ops -> OpState] /\ op[p] \in OpState
      BY DEF ReactorInv, TypeOK
    <3>2. PICK s : \/ op' = [op EXCEPT ![o].shard = s]
                   \/ op' = [op EXCEPT ![o].shard = s, ![o].finished = TRUE,
                                       ![o].stage = "DONE", ![o].result = "CANCELLED"]
      BY <1>3 DEF SubmitPush
    <3>3. CASE op' = [op EXCEPT ![o].shard = s]
      BY <2>2, <3>1, <3>3 DEF OpState
    <3>4. CASE op' = [op EXCEPT ![o].shard = s, ![o].finished = TRUE,
                                ![o].stage = "DONE", ![o].result = "CANCELLED"]
      BY <2>2, <3>1, <3>4 DEF OpState
    <3> QED BY <3>2, <3>3, <3>4
  <2> QED BY <2>1, <2>2
<1>4. ASSUME NEW s \in Shards, DrainPending(s) PROVE Good(r)
  <2>1. OwnedBy(r)' = OwnedBy(r) /\ Queued(r)' \subseteq Queued(r)
    BY <1>4, DrainKeeps
  <2>2. UNCHANGED op
    BY <1>4 DEF DrainPending, finishVars
  <2> QED BY <2>1, <2>2
<1>5. ASSUME NEW s \in Shards, BeginConnect(s) PROVE Good(r)
  <2> DEFINE o == Head(worker[s].batch)
  <2>1. /\ o \in Starting(s) /\ UNCHANGED <<pending, submitting>>
        /\ \A q \in Shards : Distinct(worker'[q].batch)
        /\ \A q \in Shards : Queued(q)' = Queued(q) /\ Starting(q)' = Starting(q) \ {o}
        /\ \/ Completes(s, {o})
           \/ \E f \in Fds, t \in Times, stage \in Stages \ {"DONE"} :
                Registers(s, o, f, t, stage)
    BY <1>5, BeginCases
  <2> HIDE DEF o
  <2>2. CASE Completes(s, {o})
    BY <1>1, <2>2
  <2>3. ASSUME NEW f \in Fds, NEW t \in Times, NEW stage \in Stages \ {"DONE"},
               Registers(s, o, f, t, stage)
        PROVE  Good(r)
    <3>1. /\ OwnedBy(r)' = IF r = s THEN OwnedBy(s) \cup {o} ELSE OwnedBy(r)
          /\ \A p \in Ops : op'[p].cancel_requested = op[p].cancel_requested
          /\ ~op[o].cancel_requested
      BY <2>1, <2>3, RegistersKeeps
    <3>2. UNCHANGED cancelling /\ worker[s].pc = "begin"
      BY <1>5 DEF BeginConnect, clientVars, At
    <3>3. o \in Ops
      BY <2>1, HeldFacts
    <3>4. Queued(r)' = Queued(r)
      BY <2>1
    <3> QED BY <1>5, <3>1, <3>2, <3>3, <3>4
  <2> QED BY <2>1, <2>2, <2>3
<1>6. ASSUME NEW s \in Shards, ProcessCancellations(s) PROVE Good(r)
  BY <1>1, <1>6, CancellationsComplete
<1>7. ASSUME NEW s \in Shards, WorkerCleanup(s) \/ CloseShard(s) PROVE Good(r)
  BY <1>1, <1>7, CleanupCompletes
<1>8. ASSUME NEW s \in Shards, NEW now, SweepTimeouts(s, now) PROVE Good(r)
  BY <1>1, <1>8, SweepCompletes
<1>9. ASSUME NEW s \in Shards, NEW f \in Fds, HandleEvent(s, f) PROVE Good(r)
  <2>1. /\ UNCHANGED <<pending, submitting>>
        /\ \A q \in Shards : worker'[q].batch = worker[q].batch
    BY <1>9 DEF HandleEvent, clientVars, ReactorInv, TypeOK
  <2>2. CASE UNCHANGED finishVars
    BY <2>1, <2>2 DEF finishVars, Queued, OwnedBy, Registered
  <2>3. ASSUME NEW o \in OwnedBy(s), Completes(s, {o}) PROVE Good(r)
    BY <1>1, <2>3
  <2>4. ASSUME NEW o \in OwnedBy(s), NEW stage \in Stages \ {"DONE"}, NEW t \in Times,
               Rest(s, o, stage, t)
        PROVE  Good(r)
    BY <2>1, <2>4, RestKeeps
  <2> QED BY <1>9, <2>2, <2>3, <2>4, EventCases
<1> QED BY <1>2, <1>3, <1>4, <1>5, <1>6, <1>7, <1>8, <1>9, StepKinds

\* How a worker moves.
LEMMA WorkerMoves ==
    ASSUME ReactorInv, [Next]_vars, NEW r \in Shards
    PROVE  /\ worker[r].pc = "exited" => worker'[r].pc = "exited"
           /\ worker'[r].pc = "exited" /\ worker[r].pc # "exited" => WorkerCleanup(r)
           /\ worker'[r].pc # "begin" => worker'[r].batch = <<>>
           /\ worker[r].pc = "begin" /\ worker'[r].pc # "begin" => ProcessCancellations(r)
           /\ WillDrain(r) => WillDrain(r)' \/ DrainPending(r)
<1> DEFINE Moves == /\ worker[r].pc = "exited" => worker'[r].pc = "exited"
                    /\ worker'[r].pc = "exited" /\ worker[r].pc # "exited" => WorkerCleanup(r)
                    /\ worker'[r].pc # "begin" => worker'[r].batch = <<>>
                    /\ worker[r].pc = "begin" /\ worker'[r].pc # "begin" =>
                         ProcessCancellations(r)
                    /\ WillDrain(r) => WillDrain(r)' \/ DrainPending(r)
<1> SUFFICES Moves
  OBVIOUS
<1>1. /\ worker[r].pc # "begin" => worker[r].batch = <<>>
      /\ wake \in [Shards -> BOOLEAN]
      /\ worker \in [Shards -> [pc : {"loop", "events", "drain", "begin", "sweep", "cleanup",
                                      "exited"},
                                events : SUBSET (Fds \cup {Wake}), woke : BOOLEAN,
                                batch : Seq(Ops)]]
  BY DEF ReactorInv, ThreadInv, TypeOK
<1>2. ASSUME worker'[r] = worker[r], wake[r] => wake'[r] PROVE Moves
  BY <1>1, <1>2 DEF WillDrain
<1>3. ASSUME UNCHANGED worker, UNCHANGED wake \/ \A s \in Shards : wake[s] => wake'[s] PROVE Moves
  BY <1>2, <1>3
<1>4. CASE \E o \in Ops : ClientStep(o)
  <2>1. \A s : wake[s] => [wake EXCEPT ![s] = TRUE][s]
    BY <1>1
  <2>2. UNCHANGED worker /\ (UNCHANGED wake \/ \E s : wake' = [wake EXCEPT ![s] = TRUE])
    BY <1>4 DEF ClientStep, SubmitPush, SubmitWake, CancelRequest, CancelWake
  <2>3. \A q \in Shards : wake[q] => wake'[q]
    BY <1>1, <2>2
  <2> QED BY <1>3, <2>2, <2>3
<1>5. CASE ShutdownStart \/ ShutdownStep \/ UNCHANGED vars
  <2>1. UNCHANGED worker /\ (UNCHANGED wake \/ wake' = [s \in Shards |-> TRUE])
    BY <1>5 DEF ShutdownStart, ShutdownStep, ShutdownJoined, CloseShard, vars
  <2>2. UNCHANGED wake \/ \A s \in Shards : wake[s] => wake'[s]
    BY <2>1
  <2> QED BY <1>3, <2>1, <2>2
<1>6. ASSUME NEW s \in Shards, s # r, WorkerStep(s) PROVE Moves
  <2>1. worker'[r] = worker[r] /\ wake'[r] = wake[r]
    <3>1. CASE EpollWait(s) \/ ReadWake(s) \/ EventsDone(s) \/ DrainPending(s)
               \/ BeginConnect(s) \/ ProcessCancellations(s)
      BY <1>1, <1>6, <3>1 DEF EpollWait, ReadWake, EventsDone, DrainPending, BeginConnect,
         ProcessCancellations, Goto
    <3>2. CASE LeaveLoop(s) \/ WorkerCleanup(s) \/ (\E f \in Fds : HandleEvent(s, f))
               \/ (\E now \in 0 .. MaxTime : SweepTimeouts(s, now))
      BY <1>1, <1>6, <3>2 DEF LeaveLoop, WorkerCleanup, HandleEvent, SweepTimeouts, Goto
    <3> QED BY <1>6, <3>1, <3>2 DEF WorkerStep
  <2> QED BY <1>2, <2>1
<1>7. CASE EpollWait(r)
  <2>1. worker[r].pc = "loop" /\ UNCHANGED wake
    BY <1>7 DEF EpollWait, At
  <2>2. worker'[r].pc = "events" /\ worker'[r].batch = worker[r].batch
    BY <1>1, <1>7 DEF EpollWait
  <2> QED BY <1>1, <2>1, <2>2 DEF WillDrain
<1>8. CASE ReadWake(r)
  <2>1. worker[r].pc = "events"
    BY <1>8 DEF ReadWake, At
  <2>2. worker'[r].pc = "events" /\ worker'[r].batch = worker[r].batch /\ worker'[r].woke
    BY <1>1, <1>8, <2>1 DEF ReadWake
  <2> QED BY <1>1, <2>1, <2>2 DEF WillDrain
<1>9. CASE EventsDone(r)
  <2>1. worker[r].pc = "events" /\ UNCHANGED wake
        /\ worker' = [worker EXCEPT ![r].pc = IF worker[r].woke THEN "drain" ELSE "sweep"]
    BY <1>9 DEF EventsDone, At, Goto
  <2>2. worker'[r].pc = (IF worker[r].woke THEN "drain" ELSE "sweep")
        /\ worker'[r].batch = worker[r].batch
    BY <1>1, <2>1
  <2> QED BY <1>1, <2>1, <2>2 DEF WillDrain
<1>10. CASE DrainPending(r)
  <2>1. worker[r].pc = "drain"
    BY <1>10 DEF DrainPending, At
  <2>2. worker'[r].pc = "begin"
    BY <1>1, <1>10 DEF DrainPending
  <2> QED BY <1>10, <2>1, <2>2
<1>11. CASE BeginConnect(r)
  <2>1. worker[r].pc = "begin" /\ UNCHANGED wake
    BY <1>11 DEF BeginConnect, At
  <2>2. worker'[r].pc = "begin"
    BY <1>1, <1>11, <2>1 DEF BeginConnect
  <2> QED BY <2>1, <2>2 DEF WillDrain
<1>12. CASE ProcessCancellations(r)
  <2>1. worker[r].pc = "begin" /\ worker[r].batch = <<>> /\ UNCHANGED wake
        /\ worker' = [worker EXCEPT ![r].pc = "sweep"]
    BY <1>12 DEF ProcessCancellations, At, Goto
  <2>2. worker'[r].pc = "sweep" /\ worker'[r].batch = <<>>
    BY <1>1, <2>1
  <2> QED BY <1>12, <2>1, <2>2 DEF WillDrain
<1>13. CASE LeaveLoop(r)
  <2>1. worker[r].pc = "loop" /\ worker' = [worker EXCEPT ![r].pc = "cleanup"]
    BY <1>13 DEF LeaveLoop, At, Goto
  <2>2. worker'[r].pc = "cleanup" /\ worker'[r].batch = worker[r].batch
    BY <1>1, <2>1
  <2> QED BY <1>1, <2>1, <2>2 DEF WillDrain
<1>14. CASE WorkerCleanup(r)
  <2>1. worker[r].pc = "cleanup" /\ worker' = [worker EXCEPT ![r].pc = "exited"]
    BY <1>14 DEF WorkerCleanup, At, Goto
  <2>2. worker'[r].pc = "exited" /\ worker'[r].batch = worker[r].batch
    BY <1>1, <2>1
  <2> QED BY <1>1, <1>14, <2>1, <2>2 DEF WillDrain
<1>15. ASSUME NEW f \in Fds, HandleEvent(r, f) PROVE Moves
  <2>1. worker[r].pc = "events" /\ UNCHANGED wake
        /\ worker' = [worker EXCEPT ![r].events = @ \ {f}]
    BY <1>15 DEF HandleEvent, At
  <2>2. /\ worker'[r].pc = "events" /\ worker'[r].batch = worker[r].batch
        /\ worker'[r].woke = worker[r].woke
    BY <1>1, <2>1
  <2> QED BY <1>1, <2>1, <2>2 DEF WillDrain
<1>16. ASSUME NEW now, SweepTimeouts(r, now) PROVE Moves
  <2>1. worker[r].pc = "sweep" /\ UNCHANGED wake /\ worker' = [worker EXCEPT ![r].pc = "loop"]
    BY <1>16 DEF SweepTimeouts, At, Goto
  <2>2. worker'[r].pc = "loop" /\ worker'[r].batch = worker[r].batch
    BY <1>1, <2>1
  <2> QED BY <1>1, <2>1, <2>2 DEF WillDrain
<1>17. CASE WorkerStep(r)
  BY <1>7, <1>8, <1>9, <1>10, <1>11, <1>12, <1>13, <1>14, <1>15, <1>16, <1>17 DEF WorkerStep
<1> HIDE DEF Moves
<1> QED
  <2>1. \/ \E o \in Ops : ClientStep(o)
        \/ \E s \in Shards : WorkerStep(s)
        \/ ShutdownStart \/ ShutdownStep \/ UNCHANGED vars
    BY DEF Next, Down
  <2>2. ASSUME NEW s \in Shards, WorkerStep(s) PROVE Moves
    <3>1. CASE s = r
      <4>1. WorkerStep(r)
        BY <2>2, <3>1, Zenon
      <4> QED BY <1>17, <4>1
    <3>2. CASE s # r
      BY <1>6, <2>2, <3>2
    <3> QED BY <3>1, <3>2
  <2>3. CASE \E o \in Ops : ClientStep(o)
    BY <1>4, <2>3
  <2>4. CASE ShutdownStart \/ ShutdownStep \/ UNCHANGED vars
    BY <1>5, <2>4
  <2> QED BY <2>1, <2>2, <2>3, <2>4

\* The types of the workers.
LEMMA WorkerTypes ==
    ASSUME ReactorInv, NEW s \in Shards, WorkerStep(s)
    PROVE  worker' \in [Shards -> [pc : {"loop", "events", "drain", "begin", "sweep", "cleanup",
                                         "exited"},
                                   events : SUBSET (Fds \cup {Wake}), woke : BOOLEAN,
                                   batch : Seq(Ops)]]
<1> DEFINE PCs == {"loop", "events", "drain", "begin", "sweep", "cleanup", "exited"}
           W == [pc : PCs, events : SUBSET (Fds \cup {Wake}), woke : BOOLEAN, batch : Seq(Ops)]
<1>1. /\ worker \in [Shards -> W] /\ worker[s] \in W
      /\ pending[s] \in Seq(Ops)
  BY DEF ReactorInv, TypeOK
<1> SUFFICES worker' \in [Shards -> W]
  OBVIOUS
<1>2. ASSUME NEW pc \in PCs, worker' = [worker EXCEPT ![s].pc = pc]
      PROVE  worker' \in [Shards -> W]
  <2>1. [worker[s] EXCEPT !.pc = pc] \in W
    BY <1>1
  <2> QED BY <1>1, <1>2, <2>1
<1>3. CASE EpollWait(s)
  <2>1. PICK ready \in SUBSET Registered(s) :
          worker' = [worker EXCEPT ![s].pc = "events", ![s].woke = FALSE,
                       ![s].events = ready \cup (IF wake[s] THEN {Wake} ELSE {})]
    BY <1>3 DEF EpollWait
  <2>2. ready \cup (IF wake[s] THEN {Wake} ELSE {}) \in SUBSET (Fds \cup {Wake})
    BY DEF Registered
  <2> QED BY <1>1, <2>1, <2>2
<1>4. CASE ReadWake(s)
  <2>1. worker' = [worker EXCEPT ![s].events = @ \ {Wake}, ![s].woke = TRUE]
    BY <1>4 DEF ReadWake
  <2>2. worker[s].events \ {Wake} \in SUBSET (Fds \cup {Wake})
    BY <1>1
  <2> QED BY <1>1, <2>1, <2>2
<1>5. CASE EventsDone(s)
  BY <1>2, <1>5 DEF EventsDone, Goto
<1>6. CASE DrainPending(s)
  <2>1. worker' = [worker EXCEPT ![s].pc = "begin", ![s].batch = pending[s]]
    BY <1>6 DEF DrainPending
  <2> QED BY <1>1, <2>1
<1>7. CASE BeginConnect(s)
  <2>1. worker' = [worker EXCEPT ![s].batch = Tail(@)] /\ worker[s].batch # <<>>
    BY <1>7 DEF BeginConnect
  <2>2. Tail(worker[s].batch) \in Seq(Ops)
    BY <1>1, <2>1, HeadTailProperties
  <2> QED BY <1>1, <2>1, <2>2
<1>8. CASE ProcessCancellations(s)
  BY <1>2, <1>8 DEF ProcessCancellations, Goto
<1>9. CASE LeaveLoop(s)
  BY <1>2, <1>9 DEF LeaveLoop, Goto
<1>10. CASE WorkerCleanup(s)
  BY <1>2, <1>10 DEF WorkerCleanup, Goto
<1>11. ASSUME NEW f \in Fds, HandleEvent(s, f) PROVE worker' \in [Shards -> W]
  <2>1. worker' = [worker EXCEPT ![s].events = @ \ {f}]
    BY <1>11 DEF HandleEvent
  <2>2. worker[s].events \ {f} \in SUBSET (Fds \cup {Wake})
    BY <1>1
  <2> QED BY <1>1, <2>1, <2>2
<1>12. ASSUME NEW now, SweepTimeouts(s, now) PROVE worker' \in [Shards -> W]
  BY <1>2, <1>12 DEF SweepTimeouts, Goto
<1> HIDE DEF W
<1> QED
  BY <1>3, <1>4, <1>5, <1>6, <1>7, <1>8, <1>9, <1>10, <1>11, <1>12 DEF WorkerStep

LEMMA TypesNext ==
    ASSUME ReactorInv, [Next]_vars
    PROVE  TypeOK'
<1>1. /\ pending \in [Shards -> Seq(Ops)]
      /\ closed \in [Shards -> BOOLEAN] /\ wake \in [Shards -> BOOLEAN]
      /\ next_shard \in Shards
      /\ stop \in BOOLEAN /\ shut \in {"idle", "join", "close", "down"}
      /\ submitting \in [Ops -> {"new", "pushed", "in"}]
      /\ cancelling \in [Ops -> {"no", "set", "done"}]
  BY DEF ReactorInv, TypeOK
<1>2. <<>> \in Seq(Ops)
  OBVIOUS
<1>3. /\ op' \in [Ops -> OpState]
      /\ ops' \in [Shards -> [Fds -> Ops \cup {NoOp}]]
      /\ deadlines' \in [Shards -> SUBSET (Times \X Fds)]
      /\ fdtable' \in [Fds -> Ops \cup {NoOp}]
      /\ completions' \in [Ops -> Nat]
  BY OwnersNext DEF FinishTypes
<1>4. \/ \E o \in Ops : ClientStep(o)
      \/ \E s \in Shards : WorkerStep(s)
      \/ ShutdownStart \/ ShutdownStep \/ UNCHANGED vars
  BY DEF Next, Down
<1>5. worker' \in [Shards -> [pc : {"loop", "events", "drain", "begin", "sweep", "cleanup",
                                    "exited"},
                              events : SUBSET (Fds \cup {Wake}), woke : BOOLEAN,
                              batch : Seq(Ops)]]
  <2>1. CASE UNCHANGED worker
    BY <2>1 DEF ReactorInv, TypeOK
  <2>2. ASSUME NEW s \in Shards, WorkerStep(s) PROVE  worker' \in [Shards -> [pc : {"loop", "events", "drain", "begin", "sweep", "cleanup",
                                         "exited"},
                                   events : SUBSET (Fds \cup {Wake}), woke : BOOLEAN,
                                   batch : Seq(Ops)]]
    BY <2>2, WorkerTypes
  <2>3. UNCHANGED worker \/ \E s \in Shards : WorkerStep(s)
    BY <1>4 DEF ClientStep, SubmitPush, SubmitWake, CancelRequest, CancelWake, ShutdownStart,
       ShutdownStep, ShutdownJoined, CloseShard, vars
  <2> QED BY <2>1, <2>2, <2>3
<1>6. pending' \in [Shards -> Seq(Ops)]
  <2>1. UNCHANGED pending \/ (\E s \in Shards : pending' = [pending EXCEPT ![s] = <<>>])
          \/ (\E o \in Ops : SubmitPush(o))
    BY <1>4 DEF ClientStep, SubmitWake, CancelRequest, CancelWake, ShutdownStart,
       ShutdownStep, ShutdownJoined, CloseShard, vars, WorkerStep, EpollWait, ReadWake,
       EventsDone, DrainPending, BeginConnect, ProcessCancellations, LeaveLoop, WorkerCleanup,
       HandleEvent, SweepTimeouts
  <2>2. ASSUME NEW o \in Ops, SubmitPush(o) PROVE pending' \in [Shards -> Seq(Ops)]
    BY <2>2, SubmitKeeps
  <2> QED BY <1>1, <1>2, <2>1, <2>2
<1>7. wake' \in [Shards -> BOOLEAN]
  <2>1. UNCHANGED wake \/ (\E s : \E b \in BOOLEAN : wake' = [wake EXCEPT ![s] = b])
          \/ wake' = [s \in Shards |-> TRUE]
    BY <1>4 DEF ClientStep, SubmitPush, SubmitWake, CancelRequest, CancelWake, ShutdownStart,
       ShutdownStep, ShutdownJoined, CloseShard, vars, WorkerStep, EpollWait, ReadWake,
       EventsDone, DrainPending, BeginConnect, ProcessCancellations, LeaveLoop, WorkerCleanup,
       HandleEvent, SweepTimeouts
  <2> QED BY <1>1, <2>1
<1>8. next_shard' \in Shards
  <2>1. UNCHANGED next_shard \/ next_shard' = (next_shard + 1) % NShards
    BY <1>4 DEF ClientStep, SubmitPush, SubmitWake, CancelRequest, CancelWake, ShutdownStart,
       ShutdownStep, ShutdownJoined, CloseShard, vars, WorkerStep, EpollWait, ReadWake,
       EventsDone, DrainPending, BeginConnect, ProcessCancellations, LeaveLoop, WorkerCleanup,
       HandleEvent, SweepTimeouts, clientVars, PickShard
  <2>2. ASSUME NEW n \in Int PROVE n % NShards \in Shards
    BY ReactorAssumption DEF Shards
  <2>3. next_shard + 1 \in Int
    BY <1>1 DEF Shards
  <2> QED BY <1>1, <2>1, <2>2, <2>3
<1>9. /\ closed' \in [Shards -> BOOLEAN]
      /\ stop' \in BOOLEAN /\ shut' \in {"idle", "join", "close", "down"}
  <2>1. CASE UNCHANGED <<closed, stop, shut>>
    BY <1>1, <2>1
  <2>2. CASE ShutdownStart \/ ShutdownStep
    BY <1>1, <2>2 DEF ShutdownStart, ShutdownStep, ShutdownJoined, CloseShard
  <2>3. UNCHANGED <<closed, stop, shut>> \/ ShutdownStart \/ ShutdownStep
    BY <1>4 DEF ClientStep, SubmitPush, SubmitWake, CancelRequest, CancelWake, vars,
       WorkerStep, EpollWait, ReadWake, EventsDone, DrainPending, BeginConnect,
       ProcessCancellations, LeaveLoop, WorkerCleanup, HandleEvent, SweepTimeouts, clientVars
  <2> QED BY <2>1, <2>2, <2>3
<1>10. /\ submitting' \in [Ops -> {"new", "pushed", "in"}]
       /\ cancelling' \in [Ops -> {"no", "set", "done"}]
  <2>1. CASE UNCHANGED <<submitting, cancelling>>
    BY <1>1, <2>1
  <2>2. ASSUME NEW o \in Ops, ClientStep(o)
        PROVE  /\ submitting' \in [Ops -> {"new", "pushed", "in"}]
               /\ cancelling' \in [Ops -> {"no", "set", "done"}]
    BY <1>1, <2>2 DEF ClientStep, SubmitPush, SubmitWake, CancelRequest, CancelWake
  <2>3. UNCHANGED <<submitting, cancelling>> \/ \E o \in Ops : ClientStep(o)
    BY <1>4 DEF ShutdownStart, ShutdownStep, ShutdownJoined, CloseShard, vars,
       WorkerStep, EpollWait, ReadWake, EventsDone, DrainPending, BeginConnect,
       ProcessCancellations, LeaveLoop, WorkerCleanup, HandleEvent, SweepTimeouts, clientVars
  <2> QED BY <2>1, <2>2, <2>3
<1> QED BY <1>3, <1>5, <1>6, <1>7, <1>8, <1>9, <1>10 DEF TypeOK

\* How shutdown() goes on.
LEMMA ShutdownMoves ==
    ASSUME ReactorInv, [Next]_vars
    PROVE  /\ \/ UNCHANGED <<closed, shut>>
              \/ UNCHANGED closed /\ shut = "idle" /\ shut' = "join"
              \/ UNCHANGED closed /\ shut' = "close" /\ \A s \in Shards : worker[s].pc = "exited"
              \/ \E s \in Shards :
                   /\ CloseShard(s) /\ shut = "close" /\ shut' \in {"close", "down"}
                   /\ \A r \in Shards : closed'[r] <=> closed[r] \/ r = s
                   /\ shut' = "down" => \A r \in Shards : closed'[r]
<1>1. \/ UNCHANGED <<closed, shut>>
      \/ ShutdownStart \/ ShutdownStep
  BY DEF Next, Down, ClientStep, SubmitPush, SubmitWake, CancelRequest, CancelWake, vars,
     WorkerStep, EpollWait, ReadWake, EventsDone, DrainPending, BeginConnect,
     ProcessCancellations, LeaveLoop, WorkerCleanup, HandleEvent, SweepTimeouts, clientVars
<1>2. CASE ShutdownStart \/ ShutdownJoined
  BY <1>2 DEF ShutdownStart, ShutdownJoined, At
<1>3. ASSUME NEW s \in Shards, CloseShard(s)
      PROVE  /\ CloseShard(s) /\ shut = "close" /\ shut' \in {"close", "down"}
             /\ \A r \in Shards : closed'[r] <=> closed[r] \/ r = s
             /\ shut' = "down" => \A r \in Shards : closed'[r]
  <2>1. /\ shut = "close" /\ shut' = (IF s = NShards - 1 THEN "down" ELSE shut)
        /\ closed' = [closed EXCEPT ![s] = TRUE]
        /\ \A r \in 0 .. s - 1 : closed[r]
    BY <1>3 DEF CloseShard
  <2>2. closed \in [Shards -> BOOLEAN]
    BY DEF ReactorInv, TypeOK
  <2>3. \A r \in Shards : closed'[r] = IF r = s THEN TRUE ELSE closed[r]
    BY <2>1, <2>2
  <2>4. ASSUME shut' = "down", NEW r \in Shards PROVE closed'[r]
    <3>1. r = s \/ r \in 0 .. s - 1
      BY <2>1, <2>4, ReactorAssumption DEF Shards
    <3> QED BY <2>1, <2>3, <3>1
  <2> QED BY <1>3, <2>1, <2>3, <2>4
<1> QED BY <1>1, <1>2, <1>3 DEF ShutdownStep

LEMMA ThreadNext ==
    ASSUME ReactorInv, [Next]_vars
    PROVE  ThreadInv'
<1>1. ThreadInv /\ shut \in {"idle", "join", "close", "down"} /\ closed \in [Shards -> BOOLEAN]
  BY DEF ReactorInv, TypeOK
<1>2. ASSUME NEW s \in Shards, WorkerCleanup(s) \/ CloseShard(s)
      PROVE  Queued(s)' = {} /\ OwnedBy(s)' = {}
  <2>1. Completes(s, Leftovers(s)) /\ Held(s) = Leftovers(s)
    BY <1>2, CleanupCompletes
  <2>2. Held(s)' = {}
    BY <2>1, CompletesTables
  <2> QED BY <2>2 DEF Held
<1>3. ASSUME NEW s \in Shards PROVE worker'[s].pc # "begin" => worker'[s].batch = <<>>
  BY <1>3, WorkerMoves
<1>4. ASSUME NEW s \in Shards, worker'[s].pc = "exited" PROVE OwnedBy(s)' = {}
  <2>1. CASE worker[s].pc = "exited"
    <3>1. OwnedBy(s) = {}
      BY <1>1, <2>1 DEF ThreadInv
    <3>2. \A o \in OwnedBy(s)' : o \in OwnedBy(s) \/ worker[s].pc = "begin"
      BY Movement
    <3> QED BY <2>1, <3>1, <3>2
  <2>2. CASE worker[s].pc # "exited"
    <3>1. WorkerCleanup(s)
      BY <1>4, <2>2, WorkerMoves
    <3> QED BY <1>2, <3>1
  <2> QED BY <2>1, <2>2
<1>5. ASSUME NEW s \in Shards, shut' \in {"close", "down"} PROVE worker'[s].pc = "exited"
  <2>1. worker[s].pc = "exited"
    BY <1>1, <1>5, ShutdownMoves DEF ThreadInv
  <2> QED BY <2>1, WorkerMoves
<1>6. ASSUME NEW s \in Shards, closed'[s]
      PROVE  Queued(s)' = {} /\ shut' \in {"close", "down"}
  <2>1. CASE closed[s]
    <3>1. Queued(s) = {} /\ shut \in {"close", "down"}
      BY <1>1, <2>1 DEF ThreadInv
    <3>2. \A o \in Queued(s)' : o \in Queued(s) \/ ~closed[s]
      BY Movement
    <3>3. shut' \in {"close", "down"}
      BY <3>1, ShutdownMoves
    <3> QED BY <2>1, <3>1, <3>2, <3>3
  <2>2. CASE ~closed[s]
    <3>1. shut' \in {"close", "down"} /\ CloseShard(s)
      <4>1. PICK r \in Shards :
              /\ CloseShard(r) /\ shut' \in {"close", "down"}
              /\ \A q \in Shards : closed'[q] <=> closed[q] \/ q = r
        BY <1>6, <2>2, ShutdownMoves
      <4>2. s = r
        BY <1>6, <2>2, <4>1
      <4> QED BY <4>1, <4>2, Zenon
    <3> QED BY <1>2, <3>1
  <2> QED BY <2>1, <2>2
<1>7. ASSUME NEW s \in Shards, shut' = "down" PROVE closed'[s]
  BY <1>1, <1>7, ShutdownMoves DEF ThreadInv
<1>8. ASSUME NEW o \in Ops, cancelling'[o] # "no" PROVE op'[o].cancel_requested
  <2>1. CASE op[o].cancel_requested
    BY <2>1, Movement, ReactorAssumption DEF Shards
  <2>2. CASE ~op[o].cancel_requested
    <3>1. cancelling[o] = "no" /\ cancelling \in [Ops -> {"no", "set", "done"}]
      BY <1>1, <2>2 DEF ThreadInv, ReactorInv, TypeOK
    <3>2. PICK p \in Ops : CancelRequest(p) \/ CancelWake(p)
      <4>1. UNCHANGED cancelling \/ \E p \in Ops : CancelRequest(p) \/ CancelWake(p)
        BY DEF Next, Down, ClientStep, SubmitPush, SubmitWake, vars, ShutdownStart,
           ShutdownStep, ShutdownJoined, CloseShard,
           WorkerStep, EpollWait, ReadWake, EventsDone, DrainPending, BeginConnect,
           ProcessCancellations, LeaveLoop, WorkerCleanup, HandleEvent, SweepTimeouts, clientVars
      <4> QED BY <1>8, <3>1, <4>1
    <3>3. CASE CancelRequest(p)
      <4>1. p = o
        BY <1>8, <3>1, <3>3 DEF CancelRequest
      <4>2. op \in [Ops -> OpState] /\ op[o] \in OpState
        BY DEF ReactorInv, TypeOK
      <4>3. op'[o] = [op[o] EXCEPT !.cancel_requested = TRUE]
        BY <3>3, <4>1, <4>2 DEF CancelRequest
      <4> QED BY <4>2, <4>3 DEF OpState
    <3>4. CASE CancelWake(p)
      BY <1>8, <3>1, <3>4 DEF CancelWake
    <3> QED BY <3>2, <3>3, <3>4
  <2> QED BY <2>1, <2>2
<1> QED BY <1>3, <1>4, <1>5, <1>6, <1>7, <1>8 DEF ThreadInv

LEMMA WakeNext ==
    ASSUME ReactorInv, [Next]_vars
    PROVE  NoLostWakeup'
<1> SUFFICES ASSUME NEW s \in Shards
             PROVE  /\ \A o \in Queued(s)' : submitting'[o] = "pushed" \/ WillDrain(s)'
                    /\ \A o \in OwnedBy(s)' : cancelling'[o] = "done" =>
                         WillDrain(s)' \/ worker'[s].pc = "begin"
  BY DEF NoLostWakeup
<1>1. NoLostWakeup /\ ThreadInv /\ TypeOK
  BY DEF ReactorInv
<1>2. Queued(s) \subseteq Ops /\ OwnedBy(s) \subseteq Ops
      /\ \A o \in Queued(s) \cup OwnedBy(s) : op[o].shard = s
  BY HeldFacts DEF Held
<1>3. WillDrain(s) => WillDrain(s)' \/ DrainPending(s)
  BY WorkerMoves
<1>4. ASSUME NEW o, o = s, wake' = [wake EXCEPT ![o] = TRUE] PROVE WillDrain(s)'
  BY <1>1, <1>4 DEF WillDrain, TypeOK
<1>5. ASSUME NEW o \in Queued(s)', submitting'[o] # "pushed" PROVE WillDrain(s)'
  <2>1. o \in Queued(s) /\ o \in Ops
    BY <1>2, <1>5, Movement
  <2>2. CASE WillDrain(s)
    <3>1. ASSUME DrainPending(s) PROVE FALSE
      BY <1>5, <3>1, DrainKeeps
    <3> QED BY <1>3, <2>2, <3>1
  <2>3. CASE submitting[o] = "pushed"
    <3>1. PICK p \in Ops : SubmitPush(p) \/ SubmitWake(p)
      <4>1. UNCHANGED submitting \/ \E p \in Ops : SubmitPush(p) \/ SubmitWake(p)
        BY DEF Next, Down, ClientStep, CancelRequest, CancelWake, vars, ShutdownStart,
           ShutdownStep, ShutdownJoined, CloseShard,
           WorkerStep, EpollWait, ReadWake, EventsDone, DrainPending, BeginConnect,
           ProcessCancellations, LeaveLoop, WorkerCleanup, HandleEvent, SweepTimeouts, clientVars
      <4> QED BY <1>5, <2>3, <4>1
    <3>2. p = o
      BY <1>1, <1>5, <2>1, <2>3, <3>1 DEF SubmitPush, SubmitWake, TypeOK
    <3>3. wake' = [wake EXCEPT ![op[o].shard] = TRUE]
      BY <2>3, <3>1, <3>2 DEF SubmitPush, SubmitWake
    <3> QED BY <1>2, <1>4, <2>1, <3>3
  <2> QED BY <1>1, <2>1, <2>2, <2>3 DEF NoLostWakeup
<1>6. ASSUME NEW o \in OwnedBy(s)', cancelling'[o] = "done"
      PROVE  WillDrain(s)' \/ worker'[s].pc = "begin"
  <2>1. o \in OwnedBy(s) /\ o \in Ops
    <3>1. ASSUME o \in Ops, ~op[o].cancel_requested, UNCHANGED cancelling PROVE FALSE
      BY <1>1, <1>6, <3>1 DEF ThreadInv
    <3> QED BY <1>2, <1>6, <3>1, Movement
  <2>2. CASE WillDrain(s)
    <3>1. ASSUME DrainPending(s) PROVE worker'[s].pc = "begin"
      BY <1>1, <3>1 DEF DrainPending, TypeOK
    <3> QED BY <1>3, <2>2, <3>1
  <2>3. CASE worker[s].pc = "begin" /\ cancelling[o] = "done"
    <3>1. ASSUME ProcessCancellations(s) PROVE FALSE
      <4>1. Completes(s, {p \in OwnedBy(s) : op[p].cancel_requested})
        BY <3>1, CancellationsComplete
      <4>2. OwnedBy(s)' = OwnedBy(s) \ {p \in OwnedBy(s) : op[p].cancel_requested}
        BY <4>1, CompletesTables
      <4>3. op[o].cancel_requested
        BY <1>1, <2>1, <2>3 DEF ThreadInv
      <4> QED BY <1>6, <2>1, <4>2, <4>3
    <3> QED BY <2>3, <3>1, WorkerMoves
  <2>4. CASE cancelling[o] # "done"
    <3>1. PICK p \in Ops : CancelRequest(p) \/ CancelWake(p)
      <4>1. UNCHANGED cancelling \/ \E p \in Ops : CancelRequest(p) \/ CancelWake(p)
        BY DEF Next, Down, ClientStep, SubmitPush, SubmitWake, vars, ShutdownStart,
           ShutdownStep, ShutdownJoined, CloseShard,
           WorkerStep, EpollWait, ReadWake, EventsDone, DrainPending, BeginConnect,
           ProcessCancellations, LeaveLoop, WorkerCleanup, HandleEvent, SweepTimeouts, clientVars
      <4> QED BY <1>6, <2>4, <4>1
    <3>2. p = o /\ CancelWake(p)
      BY <1>1, <1>6, <2>1, <2>4, <3>1 DEF CancelRequest, CancelWake, TypeOK
    <3>3. op[o].shard = s /\ s # NoShard
      BY <1>2, <2>1 DEF Shards, NoShard
    <3>4. wake' = [wake EXCEPT ![s] = TRUE]
      BY <3>2, <3>3 DEF CancelWake
    <3> QED BY <1>4, <3>4
  <2> QED BY <1>1, <2>1, <2>2, <2>3, <2>4 DEF NoLostWakeup
<1> QED BY <1>5, <1>6

LEMMA ReactorInit == Init => ReactorInv
<1> SUFFICES ASSUME Init PROVE ReactorInv
  OBVIOUS
<1>1. TypeOK
  <2>1. op \in [Ops -> OpState]
    BY DEF Init, OpState, Stages
  <2>2. /\ pending \in [Shards -> Seq(Ops)]
        /\ worker \in [Shards -> [pc : {"loop", "events", "drain", "begin", "sweep", "cleanup",
                                        "exited"},
                                  events : SUBSET (Fds \cup {Wake}), woke : BOOLEAN,
                                  batch : Seq(Ops)]]
    BY DEF Init
  <2>3. next_shard \in Shards
    BY ReactorAssumption DEF Init, Shards
  <2>4. deadlines \in [Shards -> SUBSET (Times \X Fds)]
    BY DEF Init
  <2> QED BY <2>1, <2>2, <2>3, <2>4 DEF Init, TypeOK
<1>2. \A s \in Shards :
        /\ pending[s] = <<>> /\ worker[s].batch = <<>> /\ worker[s].pc = "loop" /\ ~closed[s]
        /\ Queued(s) = {} /\ Starting(s) = {} /\ OwnedBy(s) = {} /\ deadlines[s] = {}
  <2>1. SeqRange(<<>>) = {}
    BY DEF SeqRange
  <2> QED BY <2>1 DEF Init, Queued, Starting, OwnedBy, Registered
<1>3. \A o \in Ops : /\ op[o].stage = "CONNECTING" /\ op[o].fd = NoFd /\ ~op[o].finished
                     /\ submitting[o] = "new" /\ cancelling[o] = "no" /\ completions[o] = 0
  BY DEF Init
<1>4. OwnerInv
  BY <1>2, <1>3 DEF OwnerInv, Held
<1>5. OnePlace
  BY <1>2 DEF OnePlace, Distinct
<1>6. ThreadInv
  BY <1>2, <1>3 DEF ThreadInv, Init
<1>7. DescriptorsExact
  <2> SUFFICES ASSUME NEW f \in Fds, NEW o \in Ops
               PROVE  /\ fdtable[f] # o /\ op[o].fd # f
                      /\ \A s \in Shards : ops[s][f] # o
    BY DEF DescriptorsExact
  <2>1. o # NoOp /\ f # NoFd
    BY ReactorAssumption DEF NoFd
  <2> QED BY <1>3, <2>1 DEF Init
<1>8. DeadlinesExact
  BY <1>2 DEF DeadlinesExact
<1>9. NoLostWakeup
  BY <1>2 DEF NoLostWakeup
<1> QED BY <1>1, <1>4, <1>5, <1>6, <1>7, <1>8, <1>9 DEF ReactorInv

LEMMA ReactorNext == ReactorInv /\ [Next]_vars => ReactorInv'
BY OwnersNext, TypesNext, ThreadNext, WakeNext DEF ReactorInv

LEMMA ReactorInvariant == Spec => []ReactorInv
BY ReactorInit, ReactorNext, PTL DEF Spec

-----------------------------------------------------------------------------
(***************************************************************************)
(* The theorems.                                                           *)
(***************************************************************************)
LEMMA InvOneOwner == ReactorInv => OneOwner
<1> SUFFICES ASSUME ReactorInv, NEW o \in Ops
             PROVE  /\ completions[o] = (IF op[o].finished THEN 1 ELSE 0)
                    /\ LET places == {<<s, "pending">> : s \in {r \in Shards : o \in Queued(r)}}
                               \cup {<<s, "batch">> : s \in {r \in Shards : o \in Starting(r)}}
                               \cup {<<s, "ops">> : s \in {r \in Shards : o \in OwnedBy(r)}}
                       IN  IF submitting[o] = "new" \/ op[o].finished
                             THEN places = {}
                             ELSE \E where \in {"pending", "batch", "ops"} :
                                    places = {<<op[o].shard, where>>}
  BY DEF OneOwner
<1> DEFINE Q == {r \in Shards : o \in Queued(r)}
           B == {r \in Shards : o \in Starting(r)}
           T == {r \in Shards : o \in OwnedBy(r)}
           Places == {<<s, "pending">> : s \in Q} \cup {<<s, "batch">> : s \in B}
                       \cup {<<s, "ops">> : s \in T}
<1>1. OwnerInv /\ OnePlace
  BY DEF ReactorInv
<1>2. CASE submitting[o] = "new" \/ op[o].finished
  <2>1. Q = {} /\ B = {} /\ T = {}
    BY <1>1, <1>2 DEF OwnerInv, Held
  <2> QED BY <1>1, <1>2, <2>1 DEF OwnerInv
<1>3. CASE ~(submitting[o] = "new" \/ op[o].finished)
  <2>1. PICK s \in Shards : op[o].shard = s /\ o \in Held(s)
    BY <1>1, <1>3 DEF OwnerInv
  <2>2. \A r \in Shards : o \in Held(r) => r = s
    BY <1>1, <2>1 DEF OwnerInv
  <2>3. Q \subseteq {s} /\ B \subseteq {s} /\ T \subseteq {s}
    BY <2>2 DEF Held
  <2>4. /\ ~(s \in Q /\ s \in B) /\ ~(s \in Q /\ s \in T) /\ ~(s \in B /\ s \in T)
        /\ s \in Q \/ s \in B \/ s \in T
    BY <1>1, <2>1 DEF OnePlace, Held
  <2> HIDE DEF Q, B, T
  <2>5. CASE Q = {s} /\ B = {} /\ T = {}
    BY <1>1, <1>3, <2>1, <2>5 DEF OwnerInv, Q, B, T
  <2>6. CASE Q = {} /\ B = {s} /\ T = {}
    BY <1>1, <1>3, <2>1, <2>6 DEF OwnerInv, Q, B, T
  <2>7. CASE Q = {} /\ B = {} /\ T = {s}
    BY <1>1, <1>3, <2>1, <2>7 DEF OwnerInv, Q, B, T
  <2> QED BY <2>3, <2>4, <2>5, <2>6, <2>7
<1> QED BY <1>2, <1>3

LEMMA InvShutdown == ReactorInv => ShutdownCompletesAll
<1> SUFFICES ASSUME ReactorInv, shut = "down", NEW o \in Ops, submitting[o] # "new"
             PROVE  completions[o] = 1
  BY DEF ShutdownCompletesAll
<1>1. OwnerInv /\ ThreadInv
  BY DEF ReactorInv
<1>2. ASSUME NEW s \in Shards PROVE Held(s) = {}
  <2>1. worker[s].pc = "exited" /\ closed[s]
    BY <1>1 DEF ThreadInv
  <2>2. worker[s].batch = <<>> /\ Queued(s) = {} /\ OwnedBy(s) = {}
    BY <1>1, <2>1 DEF ThreadInv
  <2>3. Starting(s) = {}
    BY <2>2 DEF Starting, SeqRange
  <2> QED BY <2>2, <2>3 DEF Held
<1>3. op[o].finished
  BY <1>1, <1>2 DEF OwnerInv
<1> QED BY <1>1, <1>3 DEF OwnerInv

\* Whatever timeouts, events, cancellations and shutdown() do to an operation, it is in
\* one place of one shard until it is finished, and its callback runs exactly once then.
THEOREM OwnershipCorrect == Spec => []OneOwner
BY ReactorInvariant, InvOneOwner, PTL

\* No descriptor of the reactor leaks, and none is closed or reused while another
\* operation has it.
THEOREM DescriptorsCorrect == Spec => []DescriptorsExact
<1>1. ReactorInv => DescriptorsExact
  BY DEF ReactorInv
<1> QED BY <1>1, ReactorInvariant, PTL

\* set_deadline, finish and sweep_timeouts keep the deadlines of a shard those of the
\* operations it runs: none is missing and none is left of an earlier stage or owner.
THEOREM DeadlinesCorrect == Spec => []DeadlinesExact
<1>1. ReactorInv => DeadlinesExact
  BY DEF ReactorInv
<1> QED BY <1>1, ReactorInvariant, PTL

\* A worker that swallows several wake-ups at once, or is woken while it drains, still
\* looks at every queued operation and every cancellation.
THEOREM WakeupsKept == Spec => []NoLostWakeup
<1>1. ReactorInv => NoLostWakeup
  BY DEF ReactorInv
<1> QED BY <1>1, ReactorInvariant, PTL

\* A submit that races with shutdown() is completed by a worker's end, by shutdown() or
\* by submit itself.
THEOREM ShutdownCorrect == Spec => []ShutdownCompletesAll
BY ReactorInvariant, InvShutdown, PTL

-----------------------------------------------------------------------------
(***************************************************************************)
(* The engine implements Completions.                                      *)
(***************************************************************************)
\* stop_ is set by shutdown() only.
StopInv == stop <=> shut # "idle"

\* Only an operation that speaks TLS shakes hands, and only one that waits for more of an
\* answer, or is finished, has received something.
StageInv ==
    \A o \in Ops :
      /\ op[o].stage = "TLS_HANDSHAKE" => o \in TlsOps
      /\ op[o].data => op[o].finished \/ (op[o].stage = "RECV_IDLE" /\ op[o].fd # NoFd)

PromiseInv == ReactorInv /\ StopInv /\ StageInv

\* What Completions is told of the operations.
Phases == [o \in Ops |-> Phase(o)]
OpResults == [o \in Ops |-> op[o].result]
Asked == [o \in Ops |-> op[o].cancel_requested]

\* The phase of an operation, by the place where a shard holds it.
LEMMA HeldPhases ==
    ASSUME ReactorInv, NEW s \in Shards
    PROVE  /\ \A o \in Queued(s) \cup Starting(s) : Phase(o) = "accepted"
           /\ \A o \in OwnedBy(s) :
                /\ op[o].stage = "RECV_FIRST" => Phase(o) = "waiting"
                /\ op[o].stage = "RECV_IDLE" => Phase(o) = "answered"
                /\ op[o].stage \notin {"RECV_FIRST", "RECV_IDLE"} => Phase(o) = "started"
           /\ \A o \in Held(s) : Phase(o) \in Promise!Live
<1>1. \A o \in Held(s) : ~op[o].finished /\ submitting[o] # "new"
  BY HeldFacts
<1>2. \A o \in Queued(s) \cup Starting(s) : Phase(o) = "accepted"
  <2>1. \A o \in Queued(s) \cup Starting(s) : op[o].fd = NoFd
    BY HeldFacts
  <2> QED BY <1>1, <2>1 DEF Held, Phase
<1>3. ASSUME NEW o \in OwnedBy(s)
      PROVE  /\ op[o].stage = "RECV_FIRST" => Phase(o) = "waiting"
             /\ op[o].stage = "RECV_IDLE" => Phase(o) = "answered"
             /\ op[o].stage \notin {"RECV_FIRST", "RECV_IDLE"} => Phase(o) = "started"
  <2>1. op[o].fd \in Fds
    BY HeldFacts
  <2>2. op[o].fd # NoFd
    BY <2>1, ReactorAssumption DEF NoFd
  <2> QED BY <1>1, <2>2 DEF Held, Phase
<1> QED BY <1>2, <1>3 DEF Held, Promise!Live

LEMMA NewPhases ==
    ASSUME ReactorInv, NEW o \in Ops
    PROVE  /\ submitting[o] = "new" <=> Phase(o) = "new"
           /\ submitting[o] = "new" => ~op[o].finished /\ op[o].fd = NoFd /\ completions[o] = 0
           /\ Phase(o) \in Promise!Live => \E s \in Shards : o \in Held(s)
<1>1. OwnerInv /\ DescriptorsExact /\ op[o].fd \in Fds \cup {NoFd}
  BY DEF ReactorInv, TypeOK, OpState
<1>2. /\ submitting[o] = "new" => ~op[o].finished
      /\ completions[o] = (IF op[o].finished THEN 1 ELSE 0)
  BY <1>1 DEF OwnerInv
<1>3. ASSUME submitting[o] = "new", op[o].fd \in Fds PROVE FALSE
  <2>1. PICK s \in Shards : ops[s][op[o].fd] = o
    BY <1>1, <1>3 DEF DescriptorsExact
  <2>2. o # NoOp
    BY ReactorAssumption
  <2>3. o \in Held(s)
    BY <1>3, <2>1, <2>2 DEF Held, OwnedBy, Registered
  <2> QED BY <1>1, <1>3, <2>3 DEF OwnerInv
<1>4. submitting[o] = "new" <=> Phase(o) = "new"
  BY <1>2 DEF Phase
<1>5. ASSUME Phase(o) \in Promise!Live PROVE \E s \in Shards : o \in Held(s)
  <2>1. ~op[o].finished /\ submitting[o] # "new"
    BY <1>2, <1>5 DEF Phase, Promise!Live
  <2> QED BY <1>1, <2>1 DEF OwnerInv
<1> QED BY <1>1, <1>2, <1>3, <1>4, <1>5

\* A step that keeps what is seen of the operations, and of the engine.
LEMMA SeenKept ==
    ASSUME UNCHANGED <<completions, submitting>>,
           \A o \in Ops : /\ op'[o].finished = op[o].finished /\ op'[o].fd = op[o].fd
                          /\ op'[o].stage = op[o].stage /\ op'[o].result = op[o].result
                          /\ op'[o].cancel_requested = op[o].cancel_requested
    PROVE  UNCHANGED <<Phases, OpResults, completions, Asked>>
BY DEF Phases, Phase, OpResults, Asked

LEMMA ServiceKept ==
    ASSUME UNCHANGED <<shut, stop>>,
           \A s \in Shards :
             worker'[s].pc \in {"cleanup", "exited"} <=> worker[s].pc \in {"cleanup", "exited"}
    PROVE  UNCHANGED Service
BY DEF Service

\* The steps of a worker but for the one in which it leaves its loop.
LEMMA WorkerService ==
    ASSUME ReactorInv, NEW s \in Shards,
           \/ EpollWait(s) \/ ReadWake(s) \/ EventsDone(s) \/ DrainPending(s) \/ BeginConnect(s)
           \/ ProcessCancellations(s) \/ WorkerCleanup(s)
           \/ \E f \in Fds : HandleEvent(s, f)
           \/ \E now \in 0 .. MaxTime : SweepTimeouts(s, now)
    PROVE  UNCHANGED Service
<1> DEFINE Lost == {"cleanup", "exited"}
<1>1. worker \in [Shards -> [pc : {"loop", "events", "drain", "begin", "sweep", "cleanup",
                                    "exited"},
                              events : SUBSET (Fds \cup {Wake}), woke : BOOLEAN,
                              batch : Seq(Ops)]]
  BY DEF ReactorInv, TypeOK
<1>2. UNCHANGED <<shut, stop>>
  BY DEF EpollWait, ReadWake, EventsDone, DrainPending, BeginConnect, ProcessCancellations,
         WorkerCleanup, HandleEvent, SweepTimeouts, clientVars
<1>3. ASSUME NEW w, worker' = [worker EXCEPT ![s] = w], w.pc \in Lost <=> worker[s].pc \in Lost
      PROVE  UNCHANGED Service
  <2>1. \A r \in Shards : worker'[r].pc \in Lost <=> worker[r].pc \in Lost
    BY <1>1, <1>3
  <2> QED BY <1>2, <2>1, ServiceKept
<1>4. CASE EpollWait(s)
  <2>1. PICK ready \in SUBSET Registered(s) :
          worker' = [worker EXCEPT ![s].pc = "events", ![s].woke = FALSE,
                       ![s].events = ready \cup (IF wake[s] THEN {Wake} ELSE {})]
    BY <1>4 DEF EpollWait
  <2>2. worker[s].pc \notin Lost
    BY <1>4 DEF EpollWait, At
  <2> QED BY <1>1, <1>3, <2>1, <2>2
<1>5. CASE ReadWake(s)
  BY <1>1, <1>3, <1>5 DEF ReadWake, At
<1>6. CASE EventsDone(s)
  BY <1>1, <1>3, <1>6 DEF EventsDone, At, Goto
<1>7. CASE DrainPending(s)
  BY <1>1, <1>3, <1>7 DEF DrainPending, At
<1>8. CASE BeginConnect(s)
  BY <1>1, <1>3, <1>8 DEF BeginConnect, At
<1>9. CASE ProcessCancellations(s)
  BY <1>1, <1>3, <1>9 DEF ProcessCancellations, At, Goto
<1>10. CASE WorkerCleanup(s)
  BY <1>1, <1>3, <1>10 DEF WorkerCleanup, At, Goto
<1>11. ASSUME NEW f \in Fds, HandleEvent(s, f) PROVE UNCHANGED Service
  BY <1>1, <1>3, <1>11 DEF HandleEvent, At
<1>12. ASSUME NEW now \in 0 .. MaxTime, SweepTimeouts(s, now) PROVE UNCHANGED Service
  BY <1>1, <1>3, <1>12 DEF SweepTimeouts, At, Goto
<1> QED BY <1>4, <1>5, <1>6, <1>7, <1>8, <1>9, <1>10, <1>11, <1>12

\* What is seen when finish is called for operations S of shard s.
LEMMA FinishSeen ==
    ASSUME ReactorInv, NEW s \in Shards, NEW S \in SUBSET Held(s), NEW r, NEW D,
           Finish(s, S, r, D), UNCHANGED submitting
    PROVE  /\ Promise!Called(S)
           /\ OpResults' = [o \in Ops |-> IF o \in S THEN r[o] ELSE OpResults[o]]
           /\ StageInv => StageInv'
<1>1. S \subseteq Ops /\ {o \in S : ~op[o].finished} = S
  BY HeldFacts DEF Held
<1>2. op' = [o \in Ops |->
               IF o \in S THEN [op[o] EXCEPT !.finished = TRUE, !.stage = "DONE",
                                             !.result = r[o], !.fd = NoFd]
                          ELSE op[o]]
  BY <1>1, Zenon DEF Finish
<1>3. completions' = [o \in Ops |-> completions[o] + (IF o \in S THEN 1 ELSE 0)]
  BY <1>1, Zenon DEF Finish
<1>4. ASSUME NEW o \in S
      PROVE  /\ op'[o].finished /\ op'[o].stage = "DONE" /\ op'[o].result = r[o]
             /\ op'[o].cancel_requested = op[o].cancel_requested
  <2>1. op[o] \in OpState
    BY <1>1 DEF ReactorInv, TypeOK
  <2>2. op'[o] = [op[o] EXCEPT !.finished = TRUE, !.stage = "DONE", !.result = r[o], !.fd = NoFd]
    BY <1>1, <1>2
  <2> QED BY <2>1, <2>2 DEF OpState
<1>5. \A o \in Ops \ S : op'[o] = op[o]
  BY <1>2
<1>6. \A o \in Ops : Phase(o)' = IF o \in S THEN "completed" ELSE Phase(o)
  BY <1>4, <1>5 DEF Phase
<1>7. \A o \in Ops : op'[o].cancel_requested = op[o].cancel_requested
  BY <1>4, <1>5
<1>8. Promise!Called(S)
  BY <1>3, <1>6, <1>7 DEF Promise!Called
<1>9. OpResults' = [o \in Ops |-> IF o \in S THEN r[o] ELSE OpResults[o]]
  <2>1. \A o \in Ops : op'[o].result = IF o \in S THEN r[o] ELSE OpResults[o]
    BY <1>4, <1>5 DEF OpResults
  <2> QED BY <2>1 DEF OpResults
<1>10. ASSUME StageInv PROVE StageInv'
  BY <1>4, <1>5, <1>10 DEF StageInv
<1> QED BY <1>8, <1>9, <1>10

\* What Completions allows.
PromiseStep ==
    \/ Promise!Next
    \/ UNCHANGED <<Phases, OpResults, completions, Asked, Service>>

LEMMA FinishPromised ==
    ASSUME PromiseInv, NEW s \in Shards, NEW S \in SUBSET Held(s), NEW r, NEW D,
           Finish(s, S, r, D), UNCHANGED <<submitting, Service>>,
           \A o \in S : r[o] \in Promise!Results /\ Promise!MayEnd(o, r[o])
    PROVE  PromiseStep /\ StageInv'
<1>1. ReactorInv /\ StageInv
  BY DEF PromiseInv
<1>2. /\ Promise!Called(S) /\ StageInv'
      /\ OpResults' = [o \in Ops |-> IF o \in S THEN r[o] ELSE OpResults[o]]
  BY <1>1, FinishSeen
<1>3. S \in SUBSET Ops
  BY <1>1, HeldFacts DEF Held
<1> DEFINE R == [o \in S |-> r[o]]
<1>4. R \in [S -> Promise!Results] /\ \A o \in S : Promise!MayEnd(o, R[o])
  OBVIOUS
<1>5. OpResults' = [o \in Ops |-> IF o \in S THEN R[o] ELSE OpResults[o]]
  BY <1>2
<1> HIDE DEF R
<1>6. Promise!Complete(S)
  BY <1>2, <1>4, <1>5 DEF Promise!Complete, OpResults
<1> QED BY <1>2, <1>3, <1>6 DEF PromiseStep, Promise!Next

\* CANCELLED, when it was asked for or a worker is lost or stopped.
LEMMA CancelPromised ==
    ASSUME PromiseInv, NEW s \in Shards, NEW S \in SUBSET Held(s),
           FinishAll(s, S, "CANCELLED"), UNCHANGED <<submitting, Service>>,
           Service # "up" \/ \A o \in S : op[o].cancel_requested
    PROVE  PromiseStep /\ StageInv'
<1>1. Finish(s, S, [o \in S |-> "CANCELLED"], deadlines[s])
  BY DEF FinishAll
<1>2. S \subseteq Ops /\ \A o \in S : Phase(o) \in Promise!Live
  BY HeldPhases, HeldFacts DEF PromiseInv, Held
<1>3. ASSUME NEW o \in S PROVE "CANCELLED" \in Promise!Results /\ Promise!MayEnd(o, "CANCELLED")
  BY <1>2, <1>3 DEF Promise!Results, Promise!MayEnd
<1> QED BY <1>1, <1>3, FinishPromised

LEMMA CancellationsPromised ==
    ASSUME PromiseInv, NEW s \in Shards, ProcessCancellations(s)
    PROVE  PromiseStep /\ StageInv'
<1> DEFINE S == {o \in OwnedBy(s) : op[o].cancel_requested}
<1>1. FinishAll(s, S, "CANCELLED") /\ UNCHANGED submitting
  BY DEF ProcessCancellations, clientVars
<1>2. UNCHANGED Service
  BY WorkerService DEF PromiseInv
<1>3. S \in SUBSET Held(s) /\ \A o \in S : op[o].cancel_requested
  BY DEF Held
<1> QED BY <1>1, <1>2, <1>3, CancelPromised

LEMMA CleanupPromised ==
    ASSUME PromiseInv, NEW s \in Shards, WorkerCleanup(s)
    PROVE  PromiseStep /\ StageInv'
<1>1. FinishAll(s, Leftovers(s), "CANCELLED") /\ UNCHANGED submitting
  BY DEF WorkerCleanup, clientVars
<1>2. UNCHANGED Service
  BY WorkerService DEF PromiseInv
<1>3. worker[s].pc = "cleanup"
  BY DEF WorkerCleanup, At
<1>4. Service # "up"
  BY <1>3 DEF Service
<1>5. Leftovers(s) \in SUBSET Held(s)
  BY DEF Leftovers, Held, Queued
<1> QED BY <1>1, <1>2, <1>4, <1>5, CancelPromised

\* shutdown() closes one shard after the other; with the last one the engine is down.
LEMMA ClosePromised ==
    ASSUME PromiseInv, NEW s \in Shards, CloseShard(s)
    PROVE  PromiseStep /\ StageInv'
<1>1. /\ FinishAll(s, Leftovers(s), "CANCELLED") /\ UNCHANGED <<submitting, stop, worker>>
      /\ shut = "close" /\ shut' = IF s = NShards - 1 THEN "down" ELSE shut
      /\ \A r \in 0 .. s - 1 : closed[r]
  BY DEF CloseShard
<1>2. ReactorInv /\ StopInv /\ StageInv
  BY DEF PromiseInv
<1>3. stop /\ Service = "stopping"
  BY <1>1, <1>2 DEF StopInv, Service
<1>4. Leftovers(s) \in SUBSET Held(s) /\ Held(s) = Leftovers(s)
  BY <1>2, CleanupCompletes
<1>5. CASE s # NShards - 1
  <2>1. UNCHANGED Service
    BY <1>1, <1>3, <1>5 DEF Service
  <2> QED BY <1>1, <1>3, <1>4, <2>1, CancelPromised
<1>6. CASE s = NShards - 1
  <2> DEFINE S == Leftovers(s)
             rest == {o \in Ops : Phase(o) \in Promise!Live}
  <2>1. Service' = "down"
    BY <1>1, <1>6 DEF Service
  <2>2. ASSUME NEW r \in Shards, r # s PROVE Held(r) = {}
    <3>1. closed[r] /\ worker[r].pc = "exited"
      <4>1. r \in 0 .. s - 1
        BY <1>6, <2>2, ReactorAssumption DEF Shards
      <4> QED BY <1>1, <1>2, <4>1 DEF ReactorInv, ThreadInv
    <3>2. worker[r].batch = <<>> /\ Queued(r) = {} /\ OwnedBy(r) = {}
      BY <1>2, <3>1 DEF ReactorInv, ThreadInv
    <3>3. Starting(r) = {}
      BY <3>2 DEF Starting, SeqRange
    <3> QED BY <3>2, <3>3 DEF Held
  <2>3. rest = S
    <3>1. \A o \in rest : o \in S
      BY <1>2, <1>4, <2>2, NewPhases
    <3>2. \A o \in S : o \in rest
      <4>1. S \subseteq Ops
        BY <1>2, <1>4, HeldFacts DEF Held
      <4> QED BY <1>2, <1>4, <4>1, HeldPhases
    <3> QED BY <3>1, <3>2
  <2>4. Finish(s, S, [o \in S |-> "CANCELLED"], deadlines[s]) /\ S \in SUBSET Held(s)
    BY <1>1, <1>4 DEF FinishAll
  <2> HIDE DEF S
  <2>5. /\ Promise!Called(S) /\ StageInv'
        /\ OpResults' = [o \in Ops |-> IF o \in S THEN [p \in S |-> "CANCELLED"][o]
                                                   ELSE OpResults[o]]
    BY <1>1, <1>2, <2>4, FinishSeen
  <2>6. Promise!CancelledAll(S)
    BY <2>5 DEF Promise!CancelledAll, OpResults
  <2>7. Promise!Unanswered = S
    BY <2>3 DEF Promise!Unanswered
  <2>8. Promise!Called(Promise!Unanswered) /\ Promise!CancelledAll(Promise!Unanswered)
    BY <2>5, <2>6, <2>7 DEF Promise!Called, Promise!CancelledAll
  <2>9. Promise!Close
    BY <1>3, <2>1, <2>8 DEF Promise!Close
  <2> QED BY <2>5, <2>9 DEF PromiseStep, Promise!Next
<1> QED BY <1>5, <1>6

\* The stages a connecting operation reaches in one go, and the results it may fail with.
LEMMA ConnectReach ==
    ASSUME NEW o \in Ops, NEW stage \in Reach(o, "CONNECTING")
    PROVE  /\ stage \in {"CONNECTING", "TLS_HANDSHAKE", "SENDING", "RECV_FIRST"}
           /\ stage = "TLS_HANDSHAKE" => o \in TlsOps
           /\ StageFailure(stage, FALSE) \in Promise!Failures
           /\ StageFailure(stage, FALSE) = "TLS_FAILED" => o \in TlsOps
<1>1. /\ stage \in {"CONNECTING", "TLS_HANDSHAKE", "SENDING", "RECV_FIRST"}
      /\ stage = "TLS_HANDSHAKE" => o \in TlsOps
  BY DEF Reach
<1>2. CASE stage = "CONNECTING"
  BY <1>2 DEF StageFailure, Promise!Failures
<1>3. CASE stage = "TLS_HANDSHAKE"
  BY <1>1, <1>3 DEF StageFailure, Promise!Failures
<1>4. CASE stage = "SENDING"
  BY <1>4 DEF StageFailure, Promise!Failures
<1>5. CASE stage = "RECV_FIRST"
  BY <1>5 DEF StageFailure, Promise!Failures
<1> QED BY <1>1, <1>2, <1>3, <1>4, <1>5

\* begin_connect cancels, fails or starts the first operation of the batch.
LEMMA BeginPromised ==
    ASSUME PromiseInv, NEW s \in Shards, BeginConnect(s)
    PROVE  PromiseStep /\ StageInv'
<1>1. ReactorInv /\ StageInv /\ UNCHANGED Service
  BY WorkerService DEF PromiseInv
<1>2. PICK o \in Ops : o = Head(worker[s].batch) /\ o \in Starting(s)
  <2>1. Head(worker[s].batch) \in Starting(s)
    BY <1>1, BeginCases
  <2>2. Starting(s) \subseteq Ops
    BY <1>1, HeldFacts
  <2> QED BY <2>1, <2>2
<1>3. begin_connect(s, o) /\ UNCHANGED submitting
  BY <1>2 DEF BeginConnect, clientVars
<1>4. /\ o \in Held(s) /\ o \in Ops /\ Phase(o) = "accepted"
      /\ op[o].fd = NoFd /\ ~op[o].finished /\ submitting[o] # "new"
  BY <1>1, <1>2, HeldFacts, HeldPhases DEF Held
<1>5. {o} \in SUBSET Held(s)
  BY <1>4
<1>6. CASE op[o].cancel_requested /\ FinishAll(s, {o}, "CANCELLED")
  BY <1>1, <1>3, <1>5, <1>6, CancelPromised
<1>7. ASSUME ~op[o].cancel_requested, NEW stage \in Reach(o, "CONNECTING"),
             FinishAll(s, {o}, StageFailure(stage, FALSE))
      PROVE  PromiseStep /\ StageInv'
  <2> DEFINE r == StageFailure(stage, FALSE)
             S == {o}
             R == [x \in S |-> r]
  <2>1. r \in Promise!Failures /\ (r = "TLS_FAILED" => o \in TlsOps)
    BY <1>4, ConnectReach
  <2> HIDE DEF r
  <2>2. r \in Promise!Results /\ Promise!MayEnd(o, r)
    BY <1>4, <1>7, <2>1 DEF Promise!MayEnd, Promise!Results
  <2>3. Finish(s, S, R, deadlines[s])
    BY <1>7 DEF FinishAll, r
  <2>4. \A x \in S : R[x] \in Promise!Results /\ Promise!MayEnd(x, R[x])
    BY <2>2
  <2>5. S \in SUBSET Held(s)
    BY <1>4
  <2> HIDE DEF S, R
  <2> QED BY <1>1, <1>3, <2>3, <2>4, <2>5, FinishPromised
<1>8. ASSUME ~op[o].cancel_requested, NEW f \in Fds, NEW t \in Times,
             NEW stage \in Reach(o, "CONNECTING"),
             op' = [op EXCEPT ![o].fd = f, ![o].deadline = t, ![o].stage = stage],
             UNCHANGED completions
      PROVE  PromiseStep /\ StageInv'
  <2>1. op[o] \in OpState /\ op \in [Ops -> OpState]
    BY <1>1, <1>4 DEF ReactorInv, TypeOK
  <2>2. op'[o] = [op[o] EXCEPT !.fd = f, !.deadline = t, !.stage = stage]
    BY <1>4, <1>8, <2>1
  <2>3. /\ op'[o].fd = f /\ op'[o].stage = stage /\ op'[o].finished = op[o].finished
        /\ op'[o].result = op[o].result /\ op'[o].data = op[o].data
        /\ op'[o].cancel_requested = op[o].cancel_requested
    BY <2>1, <2>2 DEF OpState
  <2>4. \A p \in Ops \ {o} : op'[p] = op[p]
    BY <1>8, <2>1
  <2>5. /\ stage \in {"CONNECTING", "TLS_HANDSHAKE", "SENDING", "RECV_FIRST"}
        /\ stage = "TLS_HANDSHAKE" => o \in TlsOps
    BY <1>4, ConnectReach
  <2>6. f # NoFd
    BY ReactorAssumption DEF NoFd
  <2> DEFINE p == IF stage = "RECV_FIRST" THEN "waiting" ELSE "started"
  <2>7. Phase(o)' = p
    BY <1>3, <1>4, <2>3, <2>5, <2>6 DEF Phase
  <2>8. \A q \in Ops \ {o} : Phase(q)' = Phase(q)
    BY <1>3, <2>4 DEF Phase
  <2>9. UNCHANGED <<OpResults, Asked>>
    BY <2>3, <2>4 DEF OpResults, Asked
  <2>10. Phases' = [Phases EXCEPT ![o] = p]
    BY <1>4, <2>7, <2>8 DEF Phases
  <2>11. p \in {"started", "waiting"}
    OBVIOUS
  <2> HIDE DEF p
  <2>12. Promise!Start(o)
    BY <1>1, <1>4, <1>8, <2>9, <2>10, <2>11 DEF Promise!Start, Phases, OpResults, Asked
  <2>13. StageInv'
    BY <1>1, <1>4, <2>3, <2>4, <2>5 DEF StageInv
  <2> QED BY <1>4, <2>12, <2>13 DEF PromiseStep, Promise!Next
<1> QED BY <1>3, <1>6, <1>7, <1>8 DEF begin_connect

\* What an event or a timeout may report of an operation of the table fits its phase.
LEMMA TableOutcomes ==
    ASSUME PromiseInv, NEW s \in Shards, NEW o \in OwnedBy(s)
    PROVE  /\ o \in Ops /\ op[o].stage \in Stages \ {"DONE"}
           /\ \A stage \in Reach(o, op[o].stage) :
                LET r == StageFailure(stage, op[o].data \/ stage = "RECV_IDLE")
                IN  r \in Promise!Results /\ Promise!MayEnd(o, r)
           /\ op[o].stage \in {"RECV_FIRST", "RECV_IDLE"} =>
                "SUCCESS" \in Promise!Results /\ Promise!MayEnd(o, "SUCCESS")
<1>1. ReactorInv /\ StageInv /\ o \in Held(s)
  BY DEF PromiseInv, Held
<1>2. o \in Ops /\ op[o].stage \in Stages \ {"DONE"} /\ ~op[o].finished
  BY <1>1, HeldStages, HeldFacts
<1>3. /\ op[o].stage = "RECV_FIRST" => Phase(o) = "waiting"
      /\ op[o].stage = "RECV_IDLE" => Phase(o) = "answered"
      /\ op[o].stage \notin {"RECV_FIRST", "RECV_IDLE"} => Phase(o) = "started"
  BY <1>1, HeldPhases
<1>4. /\ op[o].stage = "TLS_HANDSHAKE" => o \in TlsOps
      /\ op[o].data => op[o].stage = "RECV_IDLE"
  BY <1>1, <1>2 DEF StageInv
<1>5. ASSUME op[o].stage \in {"RECV_FIRST", "RECV_IDLE"}
      PROVE  "SUCCESS" \in Promise!Results /\ Promise!MayEnd(o, "SUCCESS")
  BY <1>2, <1>3, <1>5 DEF Promise!Results, Promise!MayEnd
<1>6. ASSUME NEW stage \in Reach(o, op[o].stage)
      PROVE  LET r == StageFailure(stage, op[o].data \/ stage = "RECV_IDLE")
             IN  r \in Promise!Results /\ Promise!MayEnd(o, r)
  <2> DEFINE r == StageFailure(stage, op[o].data \/ stage = "RECV_IDLE")
  <2>1. CASE op[o].stage = "RECV_IDLE"
    <3>1. stage = "RECV_IDLE"
      BY <2>1 DEF Reach
    <3>2. r = "SUCCESS"
      BY <3>1 DEF StageFailure
    <3> QED BY <1>5, <2>1, <3>2
  <2>2. CASE op[o].stage = "RECV_FIRST"
    <3>1. stage \in {"RECV_FIRST", "RECV_IDLE"}
      BY <2>2 DEF Reach
    <3>2. r \in {"SUCCESS", "TIMEOUT"}
      BY <3>1 DEF StageFailure
    <3> HIDE DEF r
    <3>3. r \in Promise!Results /\ Promise!MayEnd(o, r)
      BY <1>2, <1>3, <2>2, <3>2 DEF Promise!Results, Promise!Failures, Promise!MayEnd
    <3> QED BY <3>3 DEF r
  <2>3. CASE op[o].stage \in {"CONNECTING", "TLS_HANDSHAKE", "SENDING"}
    <3>1. /\ stage \in {"CONNECTING", "TLS_HANDSHAKE", "SENDING", "RECV_FIRST"}
          /\ stage = "TLS_HANDSHAKE" => o \in TlsOps
      BY <1>4, <2>3 DEF Reach
    <3>2. ~op[o].data
      BY <1>4, <2>3
    <3>3. r \in Promise!Failures /\ (r = "TLS_FAILED" => o \in TlsOps)
      <4>1. CASE stage = "CONNECTING"
        BY <4>1 DEF StageFailure, Promise!Failures
      <4>2. CASE stage = "TLS_HANDSHAKE"
        BY <3>1, <4>2 DEF StageFailure, Promise!Failures
      <4>3. CASE stage = "SENDING"
        BY <4>3 DEF StageFailure, Promise!Failures
      <4>4. CASE stage = "RECV_FIRST"
        BY <3>2, <4>4 DEF StageFailure, Promise!Failures
      <4> QED BY <3>1, <4>1, <4>2, <4>3, <4>4
    <3> HIDE DEF r
    <3>4. r \in Promise!Results /\ Promise!MayEnd(o, r)
      BY <1>2, <1>3, <2>3, <3>3 DEF Promise!Results, Promise!MayEnd
    <3> QED BY <3>4 DEF r
  <2> QED BY <1>2, <2>1, <2>2, <2>3 DEF Stages
<1> QED BY <1>2, <1>5, <1>6

\* An event moves an operation on, or ends it.
LEMMA EventPromised ==
    ASSUME PromiseInv, NEW s \in Shards, NEW f \in Fds, HandleEvent(s, f)
    PROVE  PromiseStep /\ StageInv'
<1>1. ReactorInv /\ StageInv /\ UNCHANGED <<submitting, Service>>
  BY WorkerService DEF PromiseInv, HandleEvent, clientVars
<1>2. CASE UNCHANGED finishVars
  <2>1. UNCHANGED <<op, completions>>
    BY <1>2 DEF finishVars
  <2>2. UNCHANGED <<Phases, OpResults, completions, Asked>>
    BY <1>1, <2>1, SeenKept
  <2>3. StageInv'
    BY <1>1, <2>1 DEF StageInv
  <2> QED BY <1>1, <2>2, <2>3 DEF PromiseStep
<1>3. ASSUME NEW o \in OwnedBy(s), advance(s, o) PROVE PromiseStep /\ StageInv'
  <2>1. PICK stage \in Reach(o, op[o].stage) :
          (\E t \in Times : Rest(s, o, stage, t)) \/ Ends(s, o, stage)
    BY <1>3 DEF advance
  <2>2. o \in Ops /\ op[o].stage \in Stages \ {"DONE"}
    BY TableOutcomes
  <2>3. ASSUME NEW r, FinishAll(s, {o}, r), r \in Promise!Results, Promise!MayEnd(o, r)
        PROVE  PromiseStep /\ StageInv'
    <3> DEFINE S == {o}
               R == [x \in S |-> r]
    <3>1. Finish(s, S, R, deadlines[s]) /\ S \in SUBSET Held(s)
      BY <2>3 DEF FinishAll, Held
    <3>2. \A x \in S : R[x] \in Promise!Results /\ Promise!MayEnd(x, R[x])
      BY <2>3
    <3> HIDE DEF S, R
    <3> QED BY <1>1, <3>1, <3>2, FinishPromised
  <2>4. CASE Ends(s, o, stage)
    <3> DEFINE r == StageFailure(stage, op[o].data \/ stage = "RECV_IDLE")
    <3>1. r \in Promise!Results /\ Promise!MayEnd(o, r)
      BY TableOutcomes
    <3>2. CASE FinishAll(s, {o}, r)
      <4> HIDE DEF r
      <4> QED BY <2>3, <3>1, <3>2
    <3>3. CASE op[o].stage \in {"RECV_FIRST", "RECV_IDLE"} /\ FinishAll(s, {o}, "SUCCESS")
      <4>1. "SUCCESS" \in Promise!Results /\ Promise!MayEnd(o, "SUCCESS")
        BY <3>3, TableOutcomes
      <4> QED BY <2>3, <3>3, <4>1
    <3> QED BY <2>4, <3>2, <3>3 DEF Ends
  <2>5. ASSUME NEW t \in Times, Rest(s, o, stage, t) PROVE PromiseStep /\ StageInv'
    <3>1. op[o] \in OpState /\ op \in [Ops -> OpState] /\ UNCHANGED completions
      BY <1>1, <2>2, <2>5 DEF ReactorInv, TypeOK, Rest
    <3>2. ~op[o].finished /\ submitting[o] # "new" /\ op[o].fd # NoFd
      <4>1. ~op[o].finished /\ submitting[o] # "new" /\ op[o].fd \in Fds
        BY <1>1, HeldFacts
      <4> QED BY <4>1, ReactorAssumption DEF NoFd
    <3>3. /\ op'[o].stage = stage /\ op'[o].data = (op[o].data \/ stage = "RECV_IDLE")
          /\ op'[o].finished = op[o].finished /\ op'[o].fd = op[o].fd
          /\ op'[o].result = op[o].result
          /\ op'[o].cancel_requested = op[o].cancel_requested
      <4> DEFINE d == IF stage = op[o].stage THEN op[o].deadline ELSE t
      <4>1. op' = [op EXCEPT ![o].stage = stage, ![o].data = @ \/ stage = "RECV_IDLE",
                             ![o].deadline = d]
        BY <2>5 DEF Rest
      <4> HIDE DEF d
      <4>2. op'[o] = [op[o] EXCEPT !.stage = stage, !.data = @ \/ stage = "RECV_IDLE",
                                   !.deadline = d]
        BY <2>2, <3>1, <4>1
      <4> QED BY <3>1, <4>2 DEF OpState
    <3>4. \A p \in Ops \ {o} : op'[p] = op[p]
      BY <2>5, <3>1 DEF Rest
    <3>5. UNCHANGED <<OpResults, Asked>>
      BY <3>3, <3>4 DEF OpResults, Asked
    <3>6. \A p \in Ops \ {o} : Phase(p)' = Phase(p)
      BY <1>1, <3>4 DEF Phase
    <3>7. Phase(o)' = IF stage = "RECV_FIRST" THEN "waiting"
                      ELSE IF stage = "RECV_IDLE" THEN "answered" ELSE "started"
      BY <1>1, <3>2, <3>3 DEF Phase
    <3>8. Phase(o) = IF op[o].stage = "RECV_FIRST" THEN "waiting"
                     ELSE IF op[o].stage = "RECV_IDLE" THEN "answered" ELSE "started"
      BY <3>2 DEF Phase
    <3>9. \/ Phase(o)' = Phase(o)
          \/ Phase(o) = "started" /\ Phase(o)' = "waiting"
          \/ Phase(o) = "waiting" /\ Phase(o)' = "answered"
      <4>1. CASE op[o].stage = "RECV_IDLE"
        BY <3>7, <3>8, <4>1 DEF Reach
      <4>2. CASE op[o].stage = "RECV_FIRST"
        BY <3>7, <3>8, <4>2 DEF Reach
      <4>3. CASE op[o].stage \in {"CONNECTING", "TLS_HANDSHAKE", "SENDING"}
        <5>1. stage \in {"CONNECTING", "TLS_HANDSHAKE", "SENDING", "RECV_FIRST"}
          BY <4>3 DEF Reach
        <5> QED BY <3>7, <3>8, <4>3, <5>1
      <4> QED BY <2>2, <4>1, <4>2, <4>3 DEF Stages
    <3>10. PromiseStep
      <4>1. CASE Phase(o)' = Phase(o)
        <5>1. UNCHANGED Phases
          BY <3>6, <4>1 DEF Phases
        <5> QED BY <1>1, <3>1, <3>5, <5>1 DEF PromiseStep
      <4>2. CASE Phase(o) = "started" /\ Phase(o)' = "waiting"
        <5>1. Phases' = [Phases EXCEPT ![o] = "waiting"] /\ Phases[o] = "started"
          BY <2>2, <3>6, <4>2 DEF Phases
        <5>2. Promise!Proceed(o)
          BY <1>1, <3>1, <3>5, <5>1 DEF Promise!Proceed, Phases, OpResults, Asked
        <5> QED BY <2>2, <5>2 DEF PromiseStep, Promise!Next
      <4>3. CASE Phase(o) = "waiting" /\ Phase(o)' = "answered"
        <5>1. Phases' = [Phases EXCEPT ![o] = "answered"] /\ Phases[o] = "waiting"
          BY <2>2, <3>6, <4>3 DEF Phases
        <5>2. Promise!Proceed(o)
          BY <1>1, <3>1, <3>5, <5>1 DEF Promise!Proceed, Phases, OpResults, Asked
        <5> QED BY <2>2, <5>2 DEF PromiseStep, Promise!Next
      <4> QED BY <3>9, <4>1, <4>2, <4>3
    <3>11. StageInv'
      <4>1. stage = "TLS_HANDSHAKE" => o \in TlsOps
        BY <1>1, <2>2 DEF Reach, StageInv, Stages
      <4>2. op'[o].data => op'[o].stage = "RECV_IDLE" /\ op'[o].fd # NoFd
        <5>1. CASE op[o].data
          <6>1. op[o].stage = "RECV_IDLE"
            BY <1>1, <2>2, <3>2, <5>1 DEF StageInv
          <6>2. stage = "RECV_IDLE"
            BY <6>1 DEF Reach
          <6> QED BY <3>2, <3>3, <6>2
        <5>2. CASE ~op[o].data
          BY <3>2, <3>3, <5>2
        <5> QED BY <5>1, <5>2
      <4> QED BY <1>1, <3>3, <3>4, <4>1, <4>2 DEF StageInv
    <3> QED BY <3>10, <3>11
  <2> QED BY <2>1, <2>4, <2>5
<1>4. CASE ops[s][f] # NoOp
  <2>1. ops[s][f] \in OwnedBy(s)
    BY <1>1, <1>4, HeldFacts
  <2>2. PICK o \in OwnedBy(s) : o = ops[s][f]
    BY <2>1
  <2>3. advance(s, o)
    BY <1>4, <2>2 DEF HandleEvent
  <2> QED BY <1>3, <2>3
<1> QED BY <1>2, <1>4 DEF HandleEvent

\* A timeout ends an operation with what it has.
LEMMA SweepPromised ==
    ASSUME PromiseInv, NEW s \in Shards, NEW now \in 0 .. MaxTime, SweepTimeouts(s, now)
    PROVE  PromiseStep /\ StageInv'
<1> DEFINE X == ExpiredOps(s, now)
           r == [o \in X |-> IF op[o].stage = "RECV_IDLE" THEN "SUCCESS"
                             ELSE StageFailure(op[o].stage, op[o].data)]
           D == deadlines[s] \ Expired(s, now)
<1>1. Finish(s, X, r, D) /\ UNCHANGED <<submitting, Service>>
  BY WorkerService DEF PromiseInv, SweepTimeouts, clientVars
<1>2. X \in SUBSET OwnedBy(s) /\ X \in SUBSET Held(s)
  BY DEF ExpiredOps, Held
<1>3. ASSUME NEW o \in X PROVE r[o] \in Promise!Results /\ Promise!MayEnd(o, r[o])
  <2>1. o \in OwnedBy(s)
    BY <1>2
  <2>2. CASE op[o].stage = "RECV_IDLE"
    <3>1. r[o] = "SUCCESS"
      BY <2>2
    <3> QED BY <2>1, <2>2, <3>1, TableOutcomes
  <2>3. CASE op[o].stage # "RECV_IDLE"
    <3>1. op[o].stage \in {"CONNECTING", "TLS_HANDSHAKE", "SENDING", "RECV_FIRST"}
      BY <2>1, <2>3, TableOutcomes DEF Stages
    <3>2. op[o].stage \in Reach(o, op[o].stage)
      <4>1. o \in Ops /\ (op[o].stage = "TLS_HANDSHAKE" => o \in TlsOps)
        BY <2>1, TableOutcomes DEF PromiseInv, StageInv
      <4> QED BY <3>1, <4>1 DEF Reach
    <3>3. (op[o].data \/ op[o].stage = "RECV_IDLE") = op[o].data
      <4>1. op[o].data \in BOOLEAN
        BY <2>1, TableOutcomes DEF PromiseInv, ReactorInv, TypeOK, OpState
      <4> QED BY <2>3, <4>1
    <3>4. r[o] = StageFailure(op[o].stage, op[o].data \/ op[o].stage = "RECV_IDLE")
      BY <2>3, <3>3
    <3> QED BY <2>1, <3>2, <3>4, TableOutcomes
  <2> QED BY <2>2, <2>3
<1> HIDE DEF X, r, D
<1> QED BY <1>1, <1>2, <1>3, FinishPromised

\* submit() queues the operation, or completes it at once when the shard is closed.
LEMMA SubmitPromised ==
    ASSUME PromiseInv, NEW o \in Ops, SubmitPush(o)
    PROVE  PromiseStep /\ StageInv'
<1>1. ReactorInv /\ StageInv /\ UNCHANGED <<shut, stop, worker>>
  BY DEF PromiseInv, SubmitPush
<1>2. UNCHANGED Service
  BY <1>1 DEF Service
<1>3. /\ op[o] \in OpState /\ op \in [Ops -> OpState]
      /\ submitting \in [Ops -> {"new", "pushed", "in"}] /\ next_shard \in Shards
  BY <1>1 DEF ReactorInv, TypeOK
<1>4. /\ submitting[o] = "new" /\ Phase(o) = "new" /\ ~op[o].finished /\ op[o].fd = NoFd
  BY <1>1, NewPhases DEF SubmitPush
<1>5. CASE /\ ~closed[next_shard]
           /\ op' = [op EXCEPT ![o].shard = next_shard]
           /\ submitting' = [submitting EXCEPT ![o] = "pushed"]
           /\ UNCHANGED completions
  <2>1. op'[o] = [op[o] EXCEPT !.shard = next_shard]
    BY <1>3, <1>5
  <2>2. /\ op'[o].finished = op[o].finished /\ op'[o].fd = op[o].fd
        /\ op'[o].stage = op[o].stage /\ op'[o].result = op[o].result
        /\ op'[o].cancel_requested = op[o].cancel_requested /\ op'[o].data = op[o].data
    BY <1>3, <2>1 DEF OpState
  <2>3. \A p \in Ops \ {o} : op'[p] = op[p] /\ submitting'[p] = submitting[p]
    BY <1>3, <1>5
  <2>4. submitting'[o] = "pushed"
    BY <1>3, <1>5
  <2>5. UNCHANGED <<OpResults, Asked>>
    BY <2>2, <2>3 DEF OpResults, Asked
  <2>6. Phase(o)' = "accepted"
    BY <1>4, <2>2, <2>4 DEF Phase
  <2>7. \A p \in Ops \ {o} : Phase(p)' = Phase(p)
    BY <2>3 DEF Phase
  <2>8. Phases' = [Phases EXCEPT ![o] = "accepted"] /\ Phases[o] = "new"
    BY <1>4, <2>6, <2>7 DEF Phases
  <2>9. Service # "down"
    <3>1. shut # "down"
      BY <1>1, <1>3, <1>5 DEF ReactorInv, ThreadInv
    <3> QED BY <3>1 DEF Service
  <2>10. Promise!Accept(o)
    BY <1>2, <1>5, <2>5, <2>8, <2>9 DEF Promise!Accept, Phases, OpResults, Asked
  <2>11. StageInv'
    BY <1>1, <2>2, <2>3 DEF StageInv
  <2> QED BY <2>10, <2>11 DEF PromiseStep, Promise!Next
<1>6. CASE /\ closed[next_shard]
           /\ op' = [op EXCEPT ![o].shard = next_shard, ![o].finished = TRUE,
                               ![o].stage = "DONE", ![o].result = "CANCELLED"]
           /\ completions' = [completions EXCEPT ![o] = @ + 1]
           /\ submitting' = [submitting EXCEPT ![o] = "in"]
  <2>1. op'[o] = [op[o] EXCEPT !.shard = next_shard, !.finished = TRUE,
                               !.stage = "DONE", !.result = "CANCELLED"]
    BY <1>3, <1>6
  <2>2. /\ op'[o].finished /\ op'[o].stage = "DONE" /\ op'[o].result = "CANCELLED"
        /\ op'[o].cancel_requested = op[o].cancel_requested
    BY <1>3, <2>1 DEF OpState
  <2>3. \A p \in Ops \ {o} : op'[p] = op[p] /\ submitting'[p] = submitting[p]
    BY <1>3, <1>6
  <2>4. UNCHANGED Asked
    BY <2>2, <2>3 DEF Asked
  <2>5. Phase(o)' = "completed" /\ \A p \in Ops \ {o} : Phase(p)' = Phase(p)
    BY <2>2, <2>3 DEF Phase
  <2>6. completions' = [p \in Ops |-> completions[p] + (IF p \in {o} THEN 1 ELSE 0)]
    <3>1. completions \in [Ops -> Nat]
      BY <1>1 DEF ReactorInv, TypeOK
    <3>2. completions' = [completions EXCEPT ![o] = completions[o] + 1]
      BY <1>6
    <3>3. completions' = [p \in Ops |-> IF p = o THEN completions[o] + 1 ELSE completions[p]]
      BY <3>1, <3>2
    <3>4. \A p \in Ops : completions[p] = completions[p] + 0
      BY <3>1
    <3>5. \A p \in Ops : (IF p = o THEN completions[o] + 1 ELSE completions[p])
                           = completions[p] + (IF p \in {o} THEN 1 ELSE 0)
      BY <3>4
    <3> QED BY <3>3, <3>5
  <2>7. Promise!Called({o})
    BY <2>4, <2>5, <2>6 DEF Promise!Called, Asked
  <2>8. Promise!CancelledAll({o})
    BY <2>2, <2>3 DEF Promise!CancelledAll
  <2>9. Service \in {"stopping", "down"}
    <3>1. shut \in {"close", "down"}
      BY <1>1, <1>3, <1>6 DEF ReactorInv, ThreadInv
    <3> QED BY <3>1 DEF Service, PromiseInv, StopInv
  <2>10. Promise!Refuse(o)
    BY <1>2, <1>4, <2>7, <2>8, <2>9 DEF Promise!Refuse
  <2>11. StageInv'
    BY <1>1, <2>2, <2>3 DEF StageInv
  <2> QED BY <2>10, <2>11 DEF PromiseStep, Promise!Next
<1> QED BY <1>5, <1>6 DEF SubmitPush

\* The steps that only move a thread or set a flag.
LEMMA QuietPromised ==
    ASSUME PromiseInv, QuietStep
    PROVE  PromiseStep /\ StageInv'
<1>1. ReactorInv /\ StageInv /\ StopInv
  BY DEF PromiseInv
<1>2. /\ op \in [Ops -> OpState] /\ submitting \in [Ops -> {"new", "pushed", "in"}]
      /\ shut \in {"idle", "join", "close", "down"} /\ stop \in BOOLEAN
  BY <1>1 DEF ReactorInv, TypeOK
<1>3. UNCHANGED completions
  BY DEF QuietStep, SubmitWake, CancelRequest, CancelWake, EpollWait, ReadWake, EventsDone,
         LeaveLoop, ShutdownStart, ShutdownJoined, vars, finishVars
<1>4. ASSUME UNCHANGED op, \A o \in Ops : submitting'[o] = "new" <=> submitting[o] = "new"
      PROVE  UNCHANGED <<Phases, OpResults, completions, Asked>> /\ StageInv'
  <2>1. \A o \in Ops : Phase(o)' = Phase(o)
    BY <1>4 DEF Phase
  <2> QED BY <1>1, <1>3, <1>4, <2>1 DEF Phases, OpResults, Asked, StageInv
<1>5. ASSUME NEW o \in Ops, CancelRequest(o) PROVE PromiseStep /\ StageInv'
  <2>1. op' = [op EXCEPT ![o].cancel_requested = TRUE] /\ UNCHANGED <<submitting, shut, stop, worker>>
    BY <1>5 DEF CancelRequest
  <2>2. op'[o] = [op[o] EXCEPT !.cancel_requested = TRUE] /\ op[o] \in OpState
    BY <1>2, <2>1
  <2>3. \A p \in Ops \ {o} : op'[p] = op[p]
    BY <1>2, <2>1
  <2>4. /\ op'[o].finished = op[o].finished /\ op'[o].fd = op[o].fd
        /\ op'[o].stage = op[o].stage /\ op'[o].result = op[o].result
        /\ op'[o].data = op[o].data /\ op'[o].cancel_requested = TRUE
    BY <2>2 DEF OpState
  <2>5. UNCHANGED <<Phases, OpResults, Service>>
    <3>1. \A p \in Ops : Phase(p)' = Phase(p)
      BY <2>1, <2>3, <2>4 DEF Phase
    <3> QED BY <2>1, <2>3, <2>4, <3>1 DEF Phases, OpResults, Service
  <2>6. Asked' = [Asked EXCEPT ![o] = TRUE]
    BY <2>3, <2>4 DEF Asked
  <2>7. StageInv'
    BY <1>1, <2>3, <2>4 DEF StageInv
  <2>8. CASE op[o].cancel_requested
    <3>1. op[o].cancel_requested = TRUE
      BY <2>2, <2>8 DEF OpState
    <3>2. UNCHANGED Asked
      BY <2>3, <2>4, <3>1 DEF Asked
    <3> QED BY <1>3, <2>5, <2>7, <3>2 DEF PromiseStep
  <2>9. CASE ~op[o].cancel_requested
    <3>1. Promise!Ask(o)
      BY <1>3, <2>5, <2>6, <2>9 DEF Promise!Ask, Phases, OpResults, Asked
    <3> QED BY <2>7, <3>1 DEF PromiseStep, Promise!Next
  <2> QED BY <2>8, <2>9
<1>6. ASSUME NEW o \in Ops, SubmitWake(o) \/ CancelWake(o) PROVE PromiseStep /\ StageInv'
  <2>1. UNCHANGED <<op, shut, stop, worker>>
    BY <1>6 DEF SubmitWake, CancelWake, finishVars
  <2>2. \A p \in Ops : submitting'[p] = "new" <=> submitting[p] = "new"
    BY <1>2, <1>6 DEF SubmitWake, CancelWake
  <2>3. UNCHANGED Service
    BY <2>1 DEF Service
  <2> QED BY <1>4, <2>1, <2>2, <2>3 DEF PromiseStep
<1>7. ASSUME NEW s \in Shards, EpollWait(s) \/ ReadWake(s) \/ EventsDone(s)
      PROVE  PromiseStep /\ StageInv'
  <2>1. UNCHANGED <<op, submitting>>
    BY <1>7 DEF EpollWait, ReadWake, EventsDone, finishVars, clientVars
  <2>2. UNCHANGED Service
    BY <1>1, <1>7, WorkerService
  <2> QED BY <1>4, <2>1, <2>2 DEF PromiseStep
<1>8. ASSUME NEW s \in Shards, LeaveLoop(s) PROVE PromiseStep /\ StageInv'
  <2>1. /\ UNCHANGED <<op, submitting, shut, stop>>
        /\ stop \/ EpollMayFail
        /\ worker' = [worker EXCEPT ![s].pc = "cleanup"]
    BY <1>8 DEF LeaveLoop, finishVars, clientVars, Goto
  <2>2. UNCHANGED <<Phases, OpResults, completions, Asked>> /\ StageInv'
    BY <1>4, <2>1
  <2>3. worker'[s].pc = "cleanup" /\ \A r \in Shards \ {s} : worker'[r] = worker[r]
    BY <1>1, <2>1 DEF ReactorInv, TypeOK
  <2>4. CASE Service = "up"
    <3>1. Service' = "failing" /\ EpollMayFail
      BY <2>1, <2>3, <2>4 DEF Service
    <3>2. Promise!Fail
      BY <2>2, <2>4, <3>1 DEF Promise!Fail, Phases, OpResults, Asked
    <3> QED BY <2>2, <3>2 DEF PromiseStep, Promise!Next
  <2>5. CASE Service # "up"
    <3>1. UNCHANGED Service
      BY <2>1, <2>3, <2>5 DEF Service
    <3> QED BY <2>2, <3>1 DEF PromiseStep
  <2> QED BY <2>4, <2>5
<1>9. CASE ShutdownStart
  <2>1. UNCHANGED <<op, submitting>> /\ shut = "idle" /\ shut' = "join" /\ stop'
    BY <1>9 DEF ShutdownStart, finishVars
  <2>2. UNCHANGED <<Phases, OpResults, completions, Asked>> /\ StageInv'
    BY <1>4, <2>1
  <2>3. Service \in {"up", "failing"} /\ Service' = "stopping"
    BY <1>1, <2>1 DEF Service, StopInv
  <2>4. Promise!Stop
    BY <2>2, <2>3 DEF Promise!Stop, Phases, OpResults, Asked
  <2> QED BY <2>2, <2>4 DEF PromiseStep, Promise!Next
<1>10. CASE ShutdownJoined
  <2>1. UNCHANGED <<op, submitting, stop>> /\ shut = "join" /\ shut' = "close"
    BY <1>10 DEF ShutdownJoined, finishVars
  <2>2. UNCHANGED <<Phases, OpResults, completions, Asked>> /\ StageInv'
    BY <1>4, <2>1
  <2>3. UNCHANGED Service
    BY <1>1, <2>1 DEF Service, StopInv
  <2> QED BY <2>2, <2>3 DEF PromiseStep
<1>11. CASE UNCHANGED vars
  <2>1. UNCHANGED <<op, submitting, shut, stop, worker>>
    BY <1>11 DEF vars
  <2>2. UNCHANGED Service
    BY <2>1 DEF Service
  <2> QED BY <1>4, <2>1, <2>2 DEF PromiseStep
<1> QED BY <1>5, <1>6, <1>7, <1>8, <1>9, <1>10, <1>11 DEF QuietStep

LEMMA DrainPromised ==
    ASSUME PromiseInv, NEW s \in Shards, DrainPending(s)
    PROVE  PromiseStep /\ StageInv'
<1>1. UNCHANGED <<op, submitting, completions>>
  BY DEF DrainPending, finishVars, clientVars
<1>2. UNCHANGED <<Phases, OpResults, completions, Asked>>
  BY <1>1, SeenKept
<1>3. UNCHANGED Service
  BY WorkerService DEF PromiseInv
<1> QED BY <1>1, <1>2, <1>3 DEF PromiseStep, PromiseInv, StageInv

\* shutdown() sets stop_ when it starts, and neither is taken back.
LEMMA StopNext == ASSUME StopInv, [Next]_vars PROVE StopInv'
<1>1. UNCHANGED <<stop, shut>> \/ (stop' = TRUE /\ shut' = "join")
        \/ (shut # "idle" /\ shut' # "idle" /\ UNCHANGED stop)
  <2>1. CASE QuietStep
    BY <2>1
    DEF QuietStep, SubmitWake, CancelRequest, CancelWake, EpollWait, ReadWake, EventsDone,
        LeaveLoop, ShutdownStart, ShutdownJoined, vars, clientVars
  <2>2. ASSUME NEW o \in Ops, SubmitPush(o) PROVE UNCHANGED <<stop, shut>>
    BY <2>2 DEF SubmitPush
  <2>3. ASSUME NEW s \in Shards,
               \/ DrainPending(s) \/ BeginConnect(s) \/ ProcessCancellations(s)
               \/ WorkerCleanup(s)
               \/ \E f \in Fds : HandleEvent(s, f)
               \/ \E now \in 0 .. MaxTime : SweepTimeouts(s, now)
        PROVE  UNCHANGED <<stop, shut>>
    BY <2>3 DEF DrainPending, BeginConnect, ProcessCancellations, WorkerCleanup, HandleEvent,
                SweepTimeouts, clientVars
  <2>4. ASSUME NEW s \in Shards, CloseShard(s)
        PROVE  shut # "idle" /\ shut' # "idle" /\ UNCHANGED stop
    BY <2>4 DEF CloseShard
  <2> QED BY <2>1, <2>2, <2>3, <2>4, StepKinds
<1> QED BY <1>1 DEF StopInv

LEMMA PromiseInit == Init => PromiseInv /\ Promise!Init
<1> SUFFICES ASSUME Init PROVE PromiseInv /\ Promise!Init
  OBVIOUS
<1>1. \A o \in Ops : /\ op[o].stage = "CONNECTING" /\ op[o].fd = NoFd /\ ~op[o].finished
                     /\ op[o].data = FALSE /\ op[o].result = "PENDING"
                     /\ op[o].cancel_requested = FALSE
                     /\ submitting[o] = "new" /\ completions[o] = 0
  BY DEF Init
<1>2. PromiseInv
  BY <1>1, ReactorInit DEF PromiseInv, StopInv, StageInv, Init
<1>3. \A o \in Ops : Phase(o) = "new"
  BY <1>1 DEF Phase
<1>4. Service = "up"
  BY DEF Init, Service
<1>5. completions = [o \in Ops |-> 0]
  BY DEF Init
<1> QED BY <1>1, <1>2, <1>3, <1>4, <1>5 DEF Promise!Init

LEMMA PromiseNext == PromiseInv /\ [Next]_vars => PromiseInv' /\ [Promise!Next]_(Promise!vars)
<1> SUFFICES ASSUME PromiseInv, [Next]_vars PROVE PromiseInv' /\ [Promise!Next]_(Promise!vars)
  OBVIOUS
<1>1. PromiseStep /\ StageInv'
  <2>1. CASE QuietStep
    BY <2>1, QuietPromised
  <2>2. ASSUME NEW o \in Ops, SubmitPush(o) PROVE PromiseStep /\ StageInv'
    BY <2>2, SubmitPromised
  <2>3. ASSUME NEW s \in Shards, DrainPending(s) PROVE PromiseStep /\ StageInv'
    BY <2>3, DrainPromised
  <2>4. ASSUME NEW s \in Shards, BeginConnect(s) PROVE PromiseStep /\ StageInv'
    BY <2>4, BeginPromised
  <2>5. ASSUME NEW s \in Shards, ProcessCancellations(s) PROVE PromiseStep /\ StageInv'
    BY <2>5, CancellationsPromised
  <2>6. ASSUME NEW s \in Shards, WorkerCleanup(s) PROVE PromiseStep /\ StageInv'
    BY <2>6, CleanupPromised
  <2>7. ASSUME NEW s \in Shards, CloseShard(s) PROVE PromiseStep /\ StageInv'
    BY <2>7, ClosePromised
  <2>8. ASSUME NEW s \in Shards, NEW f \in Fds, HandleEvent(s, f) PROVE PromiseStep /\ StageInv'
    BY <2>8, EventPromised
  <2>9. ASSUME NEW s \in Shards, NEW now \in 0 .. MaxTime, SweepTimeouts(s, now)
        PROVE  PromiseStep /\ StageInv'
    BY <2>9, SweepPromised
  <2> QED BY <2>1, <2>2, <2>3, <2>4, <2>5, <2>6, <2>7, <2>8, <2>9, StepKinds
<1>2. ReactorInv' /\ StopInv'
  BY ReactorNext, StopNext DEF PromiseInv
<1>3. [Promise!Next]_(Promise!vars)
  BY <1>1 DEF PromiseStep, Promise!vars, Phases, OpResults, Asked
<1> QED BY <1>1, <1>2, <1>3 DEF PromiseInv

\* For any number of operations, shards and descriptors: submit(), cancel(), the workers
\* and shutdown() together give each operation one callback, with a result that fits how
\* far it came; what was cancelled in time never connects.
THEOREM CompletionsKept == Spec => ImplementsCompletions
BY PromiseInit, PromiseNext, PTL DEF Spec, ImplementsCompletions, Promise!Spec
=============================================================================
