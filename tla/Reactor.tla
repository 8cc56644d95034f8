------------------------------- MODULE Reactor -------------------------------
(***************************************************************************)
(* The asynchronous I/O engine (async_io.cpp): client threads submit and   *)
(* cancel operations, each shard has a worker thread that owns the         *)
(* operations given to it, and shutdown() stops the workers and completes  *)
(* what is left.  Shared between threads are the pending queue and the     *)
(* closed flag of a shard (under its mutex), the wake-up eventfd, stop_    *)
(* and the cancel flag of an operation; everything else of an operation    *)
(* belongs to one thread at a time, so the handling of one epoll event is  *)
(* one step.                                                               *)
(*                                                                         *)
(* Deadlines are abstract instants: any of them may have passed when a     *)
(* worker looks, in the order of the instants.                             *)
(***************************************************************************)
EXTENDS Integers, Sequences, FiniteSets

CONSTANTS
    Ops,           \* the operations clients may submit
    TlsOps,        \* those that speak TLS
    NShards,       \* number of shards, each with its worker
    Fds,           \* file descriptor numbers the process can have open
    MaxTime,       \* deadlines are instants 1 .. MaxTime
    EpollMayFail,  \* may epoll_wait fail with something else than EINTR?
    NoOp           \* marks a free descriptor

ASSUME ReactorAssumption ==
    /\ IsFiniteSet(Ops) /\ TlsOps \subseteq Ops /\ NoOp \notin Ops
    /\ NShards \in Nat \ {0} /\ MaxTime \in Nat \ {0}
    /\ Fds \subseteq Nat /\ IsFiniteSet(Fds)
    /\ EpollMayFail \in BOOLEAN

Shards == 0 .. NShards - 1
NoFd == -1
NoShard == -1
Times == 1 .. MaxTime
Never == 0
Results == {"SUCCESS", "CONNECT_FAILED", "TLS_FAILED", "SEND_FAILED", "TIMEOUT", "CANCELLED"}
Stages == {"CONNECTING", "TLS_HANDSHAKE", "SENDING", "RECV_FIRST", "RECV_IDLE", "DONE"}
Wake == -2      \* stands for the wake_fd of the shard

VARIABLES
    op,          \* the Operation: stage_, fd_, stage_deadline_, finished_, ...
    pending,     \* EpollShard::pending
    closed,      \* EpollShard::closed
    ops,         \* EpollShard::ops, by descriptor
    deadlines,   \* EpollShard::deadlines: pairs <<instant, descriptor>>
    wake,        \* is the eventfd counter of the shard positive?
    worker,      \* the worker thread: where it is, its events and its batch
    next_shard,
    stop,
    shut,        \* the thread in shutdown(): "idle", "join", "close" or "down"
    submitting,  \* the client in submit(op): "new", "pushed" or "in"
    cancelling,  \* the client in cancel(op): "no", "set" or "done"
    fdtable,     \* external: which operation's socket a descriptor number is
    completions  \* history: calls of on_complete per operation

vars == <<op, pending, closed, ops, deadlines, wake, worker, next_shard, stop, shut,
          submitting, cancelling, fdtable, completions>>
clientVars == <<next_shard, stop, shut, submitting, cancelling>>
finishVars == <<op, ops, deadlines, fdtable, completions>>

Init ==
    /\ op = [o \in Ops |-> [stage |-> "CONNECTING", fd |-> NoFd, deadline |-> Never,
                            finished |-> FALSE, cancel_requested |-> FALSE,
                            shard |-> NoShard, data |-> FALSE, result |-> "PENDING"]]
    /\ pending = [s \in Shards |-> <<>>]
    /\ closed = [s \in Shards |-> FALSE]
    /\ ops = [s \in Shards |-> [f \in Fds |-> NoOp]]
    /\ deadlines = [s \in Shards |-> {}]
    /\ wake = [s \in Shards |-> FALSE]
    /\ worker = [s \in Shards |-> [pc |-> "loop", events |-> {}, woke |-> FALSE, batch |-> <<>>]]
    /\ next_shard = 0
    /\ stop = FALSE
    /\ shut = "idle"
    /\ submitting = [o \in Ops |-> "new"]
    /\ cancelling = [o \in Ops |-> "no"]
    /\ fdtable = [f \in Fds |-> NoOp]
    /\ completions = [o \in Ops |-> 0]
-----------------------------------------------------------------------------
\* Fault: finish does not close the socket.
CloseSocketsLeaks(F) == UNCHANGED fdtable

CloseSockets(F) ==
    fdtable' = [f \in Fds |-> IF \E o \in F : op[o].fd = f THEN NoOp ELSE fdtable[f]]

(***************************************************************************)
(* finish: the first caller wins; the operation leaves ops and deadlines,  *)
(* on_complete runs, the descriptor is closed.  r gives each operation of  *)
(* S its result.  D is what deadlines held when finish was called.         *)
(***************************************************************************)
Finish(s, S, r, D) ==
    LET F == {o \in S : ~op[o].finished}
    IN  /\ op' = [o \in Ops |->
                    IF o \in F THEN [op[o] EXCEPT !.finished = TRUE, !.stage = "DONE",
                                                  !.result = r[o], !.fd = NoFd]
                               ELSE op[o]]
        /\ completions' = [o \in Ops |-> completions[o] + (IF o \in F THEN 1 ELSE 0)]
        /\ ops' = [ops EXCEPT ![s] = [f \in Fds |-> IF @[f] \in F THEN NoOp ELSE @[f]]]
        /\ deadlines' = [deadlines EXCEPT ![s] = D \ {<<op[o].deadline, op[o].fd>> : o \in F}]
        /\ CloseSockets(F)

FinishAll(s, S, r) == Finish(s, S, [o \in S |-> r], deadlines[s])

\* The result of an operation whose deadline passes, or whose socket fails, in a stage.
StageFailure(stage, data) ==
    CASE stage = "CONNECTING"    -> "CONNECT_FAILED"
      [] stage = "TLS_HANDSHAKE" -> "TLS_FAILED"
      [] stage = "SENDING"       -> "SEND_FAILED"
      [] stage \in {"RECV_FIRST", "RECV_IDLE"} -> IF data THEN "SUCCESS" ELSE "TIMEOUT"

(***************************************************************************)
(* advance: one event carries an operation through one or more stages.     *)
(* Reach(o, stage) are the stages in which the call may come to rest, with *)
(* the socket armed, or fail.                                              *)
(***************************************************************************)
Reach(o, stage) ==
    CASE stage = "CONNECTING"    -> {"CONNECTING", "SENDING", "RECV_FIRST"}
                                    \cup (IF o \in TlsOps THEN {"TLS_HANDSHAKE"} ELSE {})
      [] stage = "TLS_HANDSHAKE" -> {"TLS_HANDSHAKE", "SENDING", "RECV_FIRST"}
      [] stage = "SENDING"       -> {"SENDING", "RECV_FIRST"}
      [] stage = "RECV_FIRST"    -> {"RECV_FIRST", "RECV_IDLE"}
      [] stage = "RECV_IDLE"     -> {"RECV_IDLE"}

\* Faults: the old entry stays; there is no new entry.
set_deadline_keeps_old(s, o, fd, t) == deadlines' = [deadlines EXCEPT ![s] = @ \cup {<<t, fd>>}]
set_deadline_drops_new(s, o, fd, t) ==
    deadlines' = [deadlines EXCEPT ![s] = @ \ {<<op[o].deadline, op[o].fd>>}]

\* set_deadline replaces the operation's old entry by its new one.
set_deadline(s, o, fd, t) ==
    deadlines' = [deadlines EXCEPT ![s] = (@ \ {<<op[o].deadline, op[o].fd>>}) \cup {<<t, fd>>}]

\* The operation comes to rest in a stage; a new stage has a new deadline.
Rest(s, o, stage, t) ==
    /\ op' = [op EXCEPT ![o].stage = stage,
                        ![o].data = @ \/ stage = "RECV_IDLE",
                        ![o].deadline = IF stage = op[o].stage THEN @ ELSE t]
    /\ IF stage = op[o].stage THEN UNCHANGED deadlines
                              ELSE set_deadline(s, o, op[o].fd, t)
    /\ UNCHANGED <<ops, fdtable, completions>>

\* A failure in the stage reached, or in a receiving stage the end of the answer.
Ends(s, o, stage) ==
    \/ FinishAll(s, {o}, StageFailure(stage, op[o].data \/ stage = "RECV_IDLE"))
    \/ /\ op[o].stage \in {"RECV_FIRST", "RECV_IDLE"}
       /\ FinishAll(s, {o}, "SUCCESS")

advance(s, o) ==
    \E stage \in Reach(o, op[o].stage) :
      \/ \E t \in Times : Rest(s, o, stage, t)
      \/ Ends(s, o, stage)

\* begin_connect: a cancelled operation is not started; a socket that cannot be
\* had or connected fails the operation; a connect that completes at once goes on.
begin_connect(s, o) ==
    \/ /\ op[o].cancel_requested
       /\ FinishAll(s, {o}, "CANCELLED")
    \/ /\ ~op[o].cancel_requested
       /\ \E stage \in Reach(o, "CONNECTING") : FinishAll(s, {o}, StageFailure(stage, FALSE))
    \/ /\ ~op[o].cancel_requested
       /\ \E f \in {g \in Fds : fdtable[g] = NoOp}, t \in Times,
             stage \in Reach(o, "CONNECTING") :
            /\ op' = [op EXCEPT ![o].fd = f, ![o].deadline = t, ![o].stage = stage]
            /\ ops' = [ops EXCEPT ![s][f] = o]
            /\ deadlines' = [deadlines EXCEPT ![s] = @ \cup {<<t, f>>}]
            /\ fdtable' = [fdtable EXCEPT ![f] = o]
            /\ UNCHANGED completions
-----------------------------------------------------------------------------
(***************************************************************************)
(* Client threads.                                                         *)
(***************************************************************************)

PickShard == next_shard' = (next_shard + 1) % NShards

\* submit, under the shard's mutex: queue the operation, or complete it at once
\* when the reactor is closed.
SubmitPush(o) ==
    /\ submitting[o] = "new"
    /\ PickShard
    /\ LET s == next_shard
       IN  \/ /\ ~closed[s]
              /\ pending' = [pending EXCEPT ![s] = Append(@, o)]
              /\ op' = [op EXCEPT ![o].shard = s]
              /\ submitting' = [submitting EXCEPT ![o] = "pushed"]
              /\ UNCHANGED <<ops, deadlines, fdtable, completions>>
           \/ /\ closed[s]
              /\ op' = [op EXCEPT ![o].shard = s, ![o].finished = TRUE,
                                  ![o].stage = "DONE", ![o].result = "CANCELLED"]
              /\ completions' = [completions EXCEPT ![o] = @ + 1]
              /\ submitting' = [submitting EXCEPT ![o] = "in"]
              /\ UNCHANGED <<pending, ops, deadlines, fdtable>>
    /\ UNCHANGED <<closed, wake, worker, stop, shut, cancelling>>

\* ... and wake the worker after the mutex is released.
SubmitWake(o) ==
    /\ submitting[o] = "pushed"
    /\ wake' = [wake EXCEPT ![op[o].shard] = TRUE]
    /\ submitting' = [submitting EXCEPT ![o] = "in"]
    /\ UNCHANGED <<finishVars, pending, closed, worker, next_shard, stop, shut, cancelling>>

CancelRequest(o) ==
    /\ cancelling[o] = "no"
    /\ op' = [op EXCEPT ![o].cancel_requested = TRUE]
    /\ cancelling' = [cancelling EXCEPT ![o] = "set"]
    /\ UNCHANGED <<pending, closed, ops, deadlines, wake, worker, next_shard, stop, shut,
                   submitting, fdtable, completions>>

CancelWake(o) ==
    /\ cancelling[o] = "set"
    /\ wake' = IF op[o].shard # NoShard THEN [wake EXCEPT ![op[o].shard] = TRUE] ELSE wake
    /\ cancelling' = [cancelling EXCEPT ![o] = "done"]
    /\ UNCHANGED <<finishVars, pending, closed, worker, next_shard, stop, shut, submitting>>
-----------------------------------------------------------------------------
(***************************************************************************)
(* The worker thread of shard s.                                           *)
(***************************************************************************)
At(s, where) == worker[s].pc = where
Goto(s, where) == worker' = [worker EXCEPT ![s].pc = where]
Registered(s) == {f \in Fds : ops[s][f] # NoOp}
OwnedBy(s) == {ops[s][f] : f \in Registered(s)}

\* epoll_wait returns: any of the registered sockets, and the eventfd if it is set.
EpollWait(s) ==
    /\ At(s, "loop") /\ ~stop
    /\ \E ready \in SUBSET Registered(s) :
         worker' = [worker EXCEPT ![s].pc = "events", ![s].woke = FALSE,
                      ![s].events = ready \cup (IF wake[s] THEN {Wake} ELSE {})]
    /\ UNCHANGED <<finishVars, pending, closed, wake, clientVars>>

\* Fault: the wake-up is read and not acted upon.
ReadWakeUnnoticed(s) ==
    /\ At(s, "events") /\ Wake \in worker[s].events
    /\ wake' = [wake EXCEPT ![s] = FALSE]
    /\ worker' = [worker EXCEPT ![s].events = @ \ {Wake}]
    /\ UNCHANGED <<finishVars, pending, closed, clientVars>>

\* Reading the eventfd swallows every wake-up up to now.
ReadWake(s) ==
    /\ At(s, "events") /\ Wake \in worker[s].events
    /\ wake' = [wake EXCEPT ![s] = FALSE]
    /\ worker' = [worker EXCEPT ![s].events = @ \ {Wake}, ![s].woke = TRUE]
    /\ UNCHANGED <<finishVars, pending, closed, clientVars>>

HandleEvent(s, f) ==
    /\ At(s, "events") /\ f \in worker[s].events
    /\ IF ops[s][f] = NoOp THEN UNCHANGED finishVars ELSE advance(s, ops[s][f])
    /\ worker' = [worker EXCEPT ![s].events = @ \ {f}]
    /\ UNCHANGED <<pending, closed, wake, clientVars>>

\* Fault: a wake-up with an empty queue is not acted upon.
EventsDoneIfQueued(s) ==
    /\ At(s, "events") /\ worker[s].events = {}
    /\ Goto(s, IF worker[s].woke /\ pending[s] # <<>> THEN "drain" ELSE "sweep")
    /\ UNCHANGED <<finishVars, pending, closed, wake, clientVars>>

EventsDone(s) ==
    /\ At(s, "events") /\ worker[s].events = {}
    /\ Goto(s, IF worker[s].woke THEN "drain" ELSE "sweep")
    /\ UNCHANGED <<finishVars, pending, closed, wake, clientVars>>

\* Fault: the queue is copied, not swapped.
DrainPendingCopies(s) ==
    /\ At(s, "drain")
    /\ worker' = [worker EXCEPT ![s].pc = "begin", ![s].batch = pending[s]]
    /\ UNCHANGED <<finishVars, pending, closed, wake, clientVars>>

\* drain_pending takes the whole queue under the mutex and starts it one by one.
DrainPending(s) ==
    /\ At(s, "drain")
    /\ worker' = [worker EXCEPT ![s].pc = "begin", ![s].batch = pending[s]]
    /\ pending' = [pending EXCEPT ![s] = <<>>]
    /\ UNCHANGED <<finishVars, closed, wake, clientVars>>

BeginConnect(s) ==
    /\ At(s, "begin") /\ worker[s].batch # <<>>
    /\ begin_connect(s, Head(worker[s].batch))
    /\ worker' = [worker EXCEPT ![s].batch = Tail(@)]
    /\ UNCHANGED <<pending, closed, wake, clientVars>>

ProcessCancellations(s) ==
    /\ At(s, "begin") /\ worker[s].batch = <<>>
    /\ FinishAll(s, {o \in OwnedBy(s) : op[o].cancel_requested}, "CANCELLED")
    /\ Goto(s, "sweep")
    /\ UNCHANGED <<pending, closed, wake, clientVars>>

\* sweep_timeouts: the entries up to now are erased, and an operation expires if the
\* entry under its descriptor is its current deadline.
Expired(s, now) == {e \in deadlines[s] : e[1] <= now}
ExpiredOps(s, now) ==
    {o \in OwnedBy(s) : \E e \in Expired(s, now) : ops[s][e[2]] = o /\ op[o].deadline = e[1]}
SweepTimeouts(s, now) ==
    /\ At(s, "sweep")
    /\ LET X == ExpiredOps(s, now)
       IN  Finish(s, X, [o \in X |-> IF op[o].stage = "RECV_IDLE" THEN "SUCCESS"
                                     ELSE StageFailure(op[o].stage, op[o].data)],
                  deadlines[s] \ Expired(s, now))
    /\ Goto(s, "loop")
    /\ UNCHANGED <<pending, closed, wake, clientVars>>

\* The loop ends with stop_, or with a failure of epoll_wait.
LeaveLoop(s) ==
    /\ At(s, "loop")
    /\ stop \/ EpollMayFail
    /\ Goto(s, "cleanup")
    /\ UNCHANGED <<finishVars, pending, closed, wake, clientVars>>

SeqRange(q) == {q[i] : i \in 1 .. Len(q)}

\* Fault: the queue is emptied without completing what was in it.
LeftoversInTable(s) == OwnedBy(s)

\* What the end of a worker, and shutdown() after it, must still complete.
Leftovers(s) == SeqRange(pending[s]) \cup OwnedBy(s)

WorkerCleanup(s) ==
    /\ At(s, "cleanup")
    /\ FinishAll(s, Leftovers(s), "CANCELLED")
    /\ pending' = [pending EXCEPT ![s] = <<>>]
    /\ Goto(s, "exited")
    /\ UNCHANGED <<closed, wake, clientVars>>

WorkerStep(s) ==
    \/ EpollWait(s) \/ ReadWake(s) \/ EventsDone(s) \/ DrainPending(s) \/ BeginConnect(s)
    \/ ProcessCancellations(s) \/ LeaveLoop(s) \/ WorkerCleanup(s)
    \/ \E f \in Fds : HandleEvent(s, f)
    \/ \E now \in 0 .. MaxTime : SweepTimeouts(s, now)
-----------------------------------------------------------------------------
(***************************************************************************)
(* shutdown().                                                             *)
(***************************************************************************)
ShutdownStart ==
    /\ shut = "idle"
    /\ stop' = TRUE
    /\ shut' = "join"
    /\ wake' = [s \in Shards |-> TRUE]
    /\ UNCHANGED <<finishVars, pending, closed, worker, next_shard, submitting, cancelling>>

ShutdownJoined ==
    /\ shut = "join" /\ \A s \in Shards : At(s, "exited")
    /\ shut' = "close"
    /\ UNCHANGED <<finishVars, pending, closed, wake, worker, next_shard, stop,
                   submitting, cancelling>>

\* One shard after the other is closed, and what it still holds completed.
CloseShard(s) ==
    /\ shut = "close" /\ ~closed[s] /\ \A r \in 0 .. s - 1 : closed[r]
    /\ closed' = [closed EXCEPT ![s] = TRUE]
    /\ FinishAll(s, Leftovers(s), "CANCELLED")
    /\ pending' = [pending EXCEPT ![s] = <<>>]
    /\ shut' = IF s = NShards - 1 THEN "down" ELSE shut
    /\ UNCHANGED <<wake, worker, next_shard, stop, submitting, cancelling>>

ShutdownStep == ShutdownJoined \/ \E s \in Shards : CloseShard(s)

ClientStep(o) == SubmitPush(o) \/ SubmitWake(o) \/ CancelRequest(o) \/ CancelWake(o)

\* Everything submitted and the reactor down: nothing is left to do.
Down ==
    /\ shut = "down" /\ \A o \in Ops : submitting[o] = "in" /\ cancelling[o] = "done"
    /\ UNCHANGED vars

Next ==
    \/ \E o \in Ops : ClientStep(o)
    \/ \E s \in Shards : WorkerStep(s)
    \/ ShutdownStart \/ ShutdownStep
    \/ Down

Spec == Init /\ [][Next]_vars

(***************************************************************************)
(* The threads run, and a started submit or cancel is finished by its      *)
(* client.  Nothing is assumed of the peers or of deadlines, and nobody    *)
(* needs to call shutdown().                                               *)
(***************************************************************************)
Fairness ==
    /\ \A s \in Shards : WF_vars(WorkerStep(s))
    /\ \A o \in Ops : WF_vars(SubmitWake(o)) /\ WF_vars(CancelWake(o))
    /\ WF_vars(ShutdownStep)

FairSpec == Spec /\ Fairness

\* Time passes: a worker that keeps sweeping meets every deadline.
TimePasses == \A s \in Shards : SF_vars(SweepTimeouts(s, MaxTime))
-----------------------------------------------------------------------------
(***************************************************************************)
(* What the clients see of an operation and of the engine.                 *)
(***************************************************************************)
Phase(o) ==
    IF op[o].finished THEN "completed"
    ELSE IF submitting[o] = "new" THEN "new"
    ELSE IF op[o].fd = NoFd THEN "accepted"
    ELSE IF op[o].stage = "RECV_FIRST" THEN "waiting"
    ELSE IF op[o].stage = "RECV_IDLE" THEN "answered"
    ELSE "started"

Service ==
    IF shut = "down" THEN "down"
    ELSE IF stop THEN "stopping"
    ELSE IF \E s \in Shards : worker[s].pc \in {"cleanup", "exited"} THEN "failing"
    ELSE "up"

Promise == INSTANCE Completions WITH
    MayFail <- EpollMayFail,
    phase <- [o \in Ops |-> Phase(o)], result <- [o \in Ops |-> op[o].result],
    callbacks <- completions, asked <- [o \in Ops |-> op[o].cancel_requested],
    service <- Service
-----------------------------------------------------------------------------
(***************************************************************************)
(* Properties.                                                             *)
(***************************************************************************)
OpState ==
    [stage : Stages, fd : Fds \cup {NoFd}, deadline : Times \cup {Never},
     finished : BOOLEAN, cancel_requested : BOOLEAN, shard : Shards \cup {NoShard},
     data : BOOLEAN, result : Results \cup {"PENDING"}]

\* The values of the variables: operations, shards, workers and clients.
TypeOK ==
    /\ op \in [Ops -> OpState]
    /\ pending \in [Shards -> Seq(Ops)]
    /\ closed \in [Shards -> BOOLEAN] /\ wake \in [Shards -> BOOLEAN]
    /\ ops \in [Shards -> [Fds -> Ops \cup {NoOp}]]
    /\ deadlines \in [Shards -> SUBSET (Times \X Fds)]
    /\ worker \in [Shards -> [pc : {"loop", "events", "drain", "begin", "sweep", "cleanup",
                                    "exited"},
                              events : SUBSET (Fds \cup {Wake}), woke : BOOLEAN,
                              batch : Seq(Ops)]]
    /\ next_shard \in Shards
    /\ stop \in BOOLEAN /\ shut \in {"idle", "join", "close", "down"}
    /\ submitting \in [Ops -> {"new", "pushed", "in"}]
    /\ cancelling \in [Ops -> {"no", "set", "done"}]
    /\ fdtable \in [Fds -> Ops \cup {NoOp}]
    /\ completions \in [Ops -> Nat]

Queued(s) == SeqRange(pending[s])
Starting(s) == SeqRange(worker[s].batch)

\* "No operation is ever touched from two threads at once": an accepted operation is,
\* until it is finished, in exactly one of the queue, the batch and the table of its
\* own shard, and in none of any other; a finished one is nowhere, and its callback
\* has run exactly once.  A race of timeout, event, cancel and shutdown neither
\* loses it nor completes it twice.
OneOwner ==
    \A o \in Ops :
      /\ completions[o] = (IF op[o].finished THEN 1 ELSE 0)
      /\ LET places == {<<s, "pending">> : s \in {r \in Shards : o \in Queued(r)}}
                         \cup {<<s, "batch">> : s \in {r \in Shards : o \in Starting(r)}}
                         \cup {<<s, "ops">> : s \in {r \in Shards : o \in OwnedBy(r)}}
         IN  IF submitting[o] = "new" \/ op[o].finished
               THEN places = {}
               ELSE \E where \in {"pending", "batch", "ops"} :
                      places = {<<op[o].shard, where>>}

\* The descriptors open are those of unfinished operations that were started, each in
\* the table of its shard under its own number: none leaks and none is closed twice
\* or under another operation, whatever numbers the system hands out again.
DescriptorsExact ==
    \A f \in Fds, o \in Ops :
      /\ fdtable[f] = o <=> op[o].fd = f
      /\ fdtable[f] = o <=> \E s \in Shards : ops[s][f] = o

\* The deadlines of a shard are exactly the current ones of its operations, so none
\* can miss its timeout and no stale entry can hit the next owner of a descriptor.
DeadlinesExact ==
    \A s \in Shards : deadlines[s] = {<<op[o].deadline, op[o].fd>> : o \in OwnedBy(s)}

\* The worker has been, or is about to be, woken and has yet to look at its queue.
WillDrain(s) ==
    \/ wake[s] \/ worker[s].pc \in {"drain", "cleanup", "exited"}
    \/ worker[s].pc = "events" /\ worker[s].woke

\* No wake-up is lost: an operation in the queue of a live worker, and a cancellation
\* of a running operation, will be looked at without waiting for another event.
NoLostWakeup ==
    \A s \in Shards :
      /\ \A o \in Queued(s) : submitting[o] = "pushed" \/ WillDrain(s)
      /\ \A o \in OwnedBy(s) : cancelling[o] = "done" =>
           WillDrain(s) \/ worker[s].pc = "begin"

\* When shutdown() has returned, every operation handed to submit() has had its
\* callback, the ones queued behind the last drain of a worker included.
ShutdownCompletesAll ==
    shut = "down" => \A o \in Ops : submitting[o] # "new" => completions[o] = 1

\* The engine implements Completions: one callback per operation, never revised, with a
\* result that fits the stage the operation reached; no connect after a cancel that came
\* in time, no CANCELLED without a cause, and nothing left when shutdown() returns.
ImplementsCompletions == Promise!Spec

\* "Always results in exactly one on_complete call": a submitted operation completes
\* as time passes, although the peer may stay silent for ever.
SubmitCompletes ==
    TimePasses => \A o \in Ops : submitting[o] = "pushed" ~> completions[o] = 1

\* A cancelled operation completes without the help of a deadline.
CancelCompletes ==
    \A o \in Ops : (submitting[o] # "new" /\ cancelling[o] # "no") ~> completions[o] = 1
=============================================================================
