# A TLA+ model of trinetra

trinetra is a network scanner in C++: a raw-socket TCP port scanner with retries, RTT
estimation and congestion control (`scan.cpp`), an epoll reactor for everything that
speaks a protocol on top of a connection (`async_io.cpp`), and a set of tools around the
two (discovery, DNS and TLS enumeration, version probes, capture, servers). This
directory holds TLA+ modules that model its concurrent core and the control of its
commands, TLC configurations that check them on small instances, and TLAPS proofs of the
properties that matter most.
`PROJECT.json` lists the runs, the line-by-line correspondence to the source, the
hazards, the findings and the theorems.

## 1. Inventory

| Component (source) | State it keeps | Operations | Interacts with |
|---|---|---|---|
| Scan of a batch: `receive_response`, `process_response`, `drain_tx_errqueue` (`scan.cpp` 2618-4594, 4982-5404) | one `PortState` per port; atomics per port shared by two threads (`real_tx_ts_us`, `tx_ts_table`, `port_generation`, `probe_outstanding`); `deadline_heap`; `gate_pending_ports` and the phase-1 sentinel; `active_count`, `ports_in_retry`; `packet_queue`; `result` | a reply, an ICMP error, a kernel TX timestamp, a heap entry coming due, poison pill and join | sender thread through `packet_queue`; reader thread through the receive queues; `RTTTracker`, `RetryBudgetState` |
| Sender thread (`scan.cpp` 2950-3056) | the tasks it took, `shutdown_requested` | dequeue, hand the tasks to `send_tcp_packets` in chunks, `on_pre_submit` for each packet, stop at the pill | `send_tcp_packets` |
| Batches of a target: `worker_thread` (`scan.cpp` 6656-6955) | `batches`, merged `result`, `RetryBudgetState`, `RTTTracker` | split, call per batch, merge | `receive_response`, `terminate_flag` |
| Batched sending: `send_tcp_packets`, `GlobalSendCtx` (`scan.cpp` 1808-2616) | buffer pool, `packets`, `all_batch_frags`, `in_flight`, loss counters | build, fragment, fill, submit, reap, drain | io_uring, sender threads |
| Receive path: `recv_reader_thread_func` (`scan.cpp` 5999-6655) | receive slots, idle rings by address, queues by address | arm, reap, dispatch, wake | io_uring, all `receive_response` calls |
| Reactor (`async_io.cpp`) | per shard: `pending`, `closed`, `ops` by descriptor, `deadlines`, wake eventfd; per operation: stage, descriptor, deadline, `finished_`, `cancel_requested_` | submit, cancel, worker loop (events, drain, cancellations, sweep), stages connect / TLS / send / receive, finish, shutdown | clients by callbacks |
| Shared reactor (`async_io.cpp` 860-888) | two atomics, a function-local static | configure, first use | all users of the reactor |
| `run_blocking` (`async_io.cpp` 823-860) | a promise per call | submit, wait, cancel, wait again | reactor |
| Run of a scan: `main`, `thread_worker`, `emergency_cleanup` (`main.cpp` 2360-3005, `handler.cpp` 2400-3210) | raw sockets and the list of tracked descriptors, contexts, pinned ARP entries, `down_hosts_count`, `all_results`, probe futures | sockets, discovery, ping filter, batches of targets, ARP, targets, probes, summary, clean-up | discovery, ARP, targets, probes, signal handler |
| Service and version probes: `run_version_probe` (`control.cpp` 3804-5973) | attempts and position, transport, response, label, redirect state | send a probe, judge the answer, switch transport, retry with a host, follow, fall back | reactor, plain sockets |
| Targets and ports: `parse_targets`, `parse_ports`, `read_ports_from_file` (`handler.cpp`, `utils.cpp`) | addresses seen, lists, names to resolve | a word, a line, merge, exclude | DNS batches |
| DNS queries: `dns_query_batch`, `batch_with_retry` (`dns_enum.cpp` 514-934) | jobs, queries in flight, pool of sockets, deadline of the batch | launch, poll, match, replace, extend | UDP sockets |
| DNS enumeration: `run_dns_enum` (`dns_enum.cpp` 701-3075) | hosts with addresses, wildcard, passive sources, statuses | waves of queries, zone transfer, fetches, second stage | DNS queries, web sources |
| TLS enumeration (`ssl_enum.cpp`) | flat job list, handshakes in flight, results by position | launch, progress, time out, merge | non-blocking sockets |
| Host discovery (`icmp_ping.hpp`, `handler.cpp` 691-1187) | verdict per host and sweep, alive, MAC | ARP, ICMP, SYN, NDP sweeps, reconcile, recheck | raw sockets |
| ARP over io_uring (`arp_handler.cpp`) | receive slots, sends outstanding, resolved hosts | send, listen, retransmit, clean up | the ring, shared by consecutive calls |
| Traceroute (`traceroute.cpp`) | hops, probes per TTL | send, match, stop | raw sockets |
| Network namespace for `-G` (`netns_split.cpp`) | which set-up steps are done | set up, undo | ip, nftables |
| Capture (`net_capture.cpp`) | connections waiting, findings reported, PTR cache | correlate, expire, dedupe, resolve names | packet socket, DNS queries |
| Server (`server.cpp`) | links with lock, listener, stunnel; connections and pipes by descriptor; one scan process per link | reserve, listen, accept, serve, start a run, stream, sweep, stop | stunnel and scan processes |
| Command line and orchestration (`main.cpp`, `parser.cpp`, `control.cpp`) | options, worker threads | parse, dispatch, report | all of the above |
| Provider ranges (`utils.cpp` 1319-1483) | two sorted tables | load, look up | output |
| OS detection, anomaly analysis, range discovery (`discover.cpp`), databases, output | tables and scores | score, format | results of scans |

**What is hard here.** In the scan, three sources decide a port (a reply, an ICMP
error, the last timeout) while a second thread sends; a retry may only be decided once the
previous probe has really left, and the knowledge of that is an atomic the other
thread writes. Ports waiting for a first RTT measurement are parked and freed either
by the measurement or by a sentinel in the heap. Kernel timestamps arrive late, for
attempts that are over. The receiver joins the sender, which must find the pill. In
the reactor, five code paths can finish an operation, descriptor numbers are reused at
once while `deadlines` and `ops` are keyed by them, wake-ups are a counter that is
read and reset, and submit races shutdown. Across batches, results are merged from
calls that may have been cut short and counters are shared. The list under `hazards`
in `PROJECT.json` gives each of these at its line.

**What makes each component correct.**
- Scan of a batch: each port one verdict, never revised, listed once; the loop ends
  exactly when all are decided; silence counts only for probes that were sent; RTT
  samples use the right transmission time; the call returns.
- Target: each port is in one batch; nothing is lost or repeated in the merge; the
  shared counters describe the ports still undecided.
- Reactor: each operation has one owner and one completion; no descriptor leaks; each
  operation has its deadline and no other; no wake-up is lost; everything completes.
- Sending and receiving: every buffer is in one place, every receive slot is armed, held
  or waiting to be armed again, and a worker that sleeps on a packet is woken.
- Run: targets that are down are counted once and not scanned, results land at their
  target, probes are collected, everything opened is closed once.
- Commands: replies that repeat or come late are counted once; the lists a scan starts
  from hold what their words say; a failure passes nothing over; a host, a name or a label
  is reported on evidence; a link or a namespace belongs to one run; the command ends, or
  is kept by a wave of DNS queries.

## 2. Modules

| Module | Models | Composes |
|---|---|---|
| `PortScan` | one call of `receive_response` with its sender thread | implements `PortVerdicts` |
| `PortVerdicts` | what a caller may rely on: abstract specification of that call | |
| `TargetScan` | `worker_thread`: split, calls, merge, shared retry budget | uses the promise of `PortVerdicts` for a call |
| `Reactor` | `async_io.cpp`: clients, shards, workers, shutdown | implements `Completions` |
| `Completions` | what a client of the engine may rely on: abstract specification of it | |
| `SharedReactor` | `configure_shared_reactor` and the first use | |
| `SendBatch` | `send_tcp_packets` and the pool it draws from | detail of what `PortScan` says of the sender: a packet reaches `on_pre_submit` or is dropped |
| `RecvReader` | `recv_reader_thread_func`, slots, wake-ups | feeds the queues `PortScan` reads |
| `ScanRun` | `main` from the targets on, `thread_worker`, `emergency_cleanup` | a target in it is a `TargetScan`, an ARP batch an `ArpResolve` call |
| `ScanParts` | the three modules above | `SendBatch`, `RecvReader`, `ScanRun` |
| `HostDiscovery` | `perform_sn_discovery` and its sweeps | |
| `ArpResolve` | `send_arp_request`, `receive_arp_reply` on one ring | |
| `DnsBatch` | `dns_query_batch`, `batch_with_retry` | |
| `DnsEnum` | `run_dns_enum`, passive sources, second stage | a wave is what a `DnsBatch` returns |
| `Targets` | `parse_targets` with ranges and names | a pass is what a `DnsBatch` returns |
| `PortList` | `parse_ports`, `read_ports_from_file`, exclusion | |
| `RangeTables` | tables of provider ranges and their search | |
| `NetRadar` | the `Capture` class, `run_netradar`, PTR cache | |
| `SslEnum` | `run_ssl_enum_batch`, `ssl_handshake_batch` | |
| `Traceroute` | `run_traceroute`, `run_traceroute6` | |
| `Server` | `server::run` | |
| `SplitNs` | `enter_split_namespace`, runs that overlap or die | |
| `VersionProbe` | `run_version_probe` | |
| `Commands` | `main` from its arguments to its return | the thirteen modules above it |
| `MC...` | values and symmetry sets for TLC | |
| `PortScanProofs`, `PortScanProbeProofs` | theorems about `PortScan`, the refinement of `PortVerdicts` at the end of the first; the second builds on it | |
| `TargetScanProofs`, `ReactorProofs`, `ScanPartsProofs` | theorems about `TargetScan`, `Reactor` and the three parts of `ScanParts` | |
| `CommandsProofs`, `CommandsTriedProofs`, `CommandsListsProofs` | theorems about `Commands`; the later two build on the first | |

A definition called "Fault: ..." is a wrong variant of the definition after it. No
specification uses it; it serves to confirm that a property would notice the mistake
(`mutants` in `PROJECT.json` lists one for each property of each passing run). Where a
property of `Commands` or `ScanParts` is a conjunction over parts, the parts have faults
of their own, which can be put in the place of the definition in the same way.

**Composition.** `Commands` and `ScanParts` bring parts together that run in
threads or processes of their own and share nothing but the process, its stop flags and
queues that are modelled as lossy where they are read. A product of their state spaces
would only multiply interleavings that no property tells apart, so a behaviour follows
one part (`command`, `part`) and the others keep their initial state. What the parts do
share is modelled inside the part: the two calls of `parse_targets`, the consecutive
calls of ARP on one ring, the overlapping runs of `--split`, the links of a server.

### PortScan

State: `ps` is `port_states_arr` with `port_final` as the field `final`; `tx` the
atomics shared with the sender; `heap` and `gate` count a port's entries in
`deadline_heap` and `gate_pending_ports`; `sentinel`, `phase1_over`, `has_measurement`
are the phase-1 gate; `sender` is the other thread; `stamps` is `id_to_pidx`, the
timestamps the kernel still owes. `transmitted` and `overtaken` are history variables.

Actions, in the order of the main loop: `Reply` (demultiplexing, RTT sample, release of
the gate, `process_response`, bookkeeping of a final port), `IcmpProhibited`,
`IcmpFatal`, `TxTimestamp`, one heap entry (`HeapStep`: dropped, first transmission,
retry transmission, parked, retry scheduled, given up), `Phase1Deadline` and
`Sentinel`, `LoopExit`, `Return`; the sender's `Dequeue`, `MarkOutstanding`, `StampTx`,
`FileStamp`, `PacketDropped`, `BatchDone`; and `Terminate`, the signal.

`on_pre_submit` runs for one packet after the other while the receiver runs, and its three
accesses to shared state are three steps: `probe_outstanding` is stored
(`MarkOutstanding`), then `real_tx_ts_us` (`StampTx`), then, when the kernel is to return
a timestamp, `port_generation` is read and filed with the packet (`FileStamp`). Between
the last two the receiver may take `real_tx_ts_us` for the end of the transmission,
decide a retry and count the generation up; `overtaken` remembers the packets this
happened to. A packet that never gets to `on_pre_submit` is `PacketDropped`.

Abstractions. Time: a heap entry may come due at any moment, so re-pushing an entry with a
later deadline is a stuttering step and shows only as a guard. Sequence numbers: a segment
carries the acknowledgement relative to ours (1: our SYN, 2: our FIN, 0: anything else) and
the attempt whose source port it answers. A reply that carries the token can only arrive
after `on_pre_submit` is done with the probe (`Submitted`). The retry cap, computed from the
congestion ratio in floating point, is any value between its bounds. Printing, packet
contents, TTL and packet details are left out.

### TargetScan

`Split` adds one range; `StartBatch` is the call of `receive_response` with its
`active_ports.fetch_add`; `Retry`, `Establish` (the handshake of `-G`, reported and not
final) and `Decide` are the changes a call makes to the state shared between calls;
`CallReturns` and `CallAborts` include the merge. Result vectors are represented by how
often they list each port. The congestion ratio, batch delay and the RTT estimate
are floating-point data and left out; so are the returns before the first batch (no
ports, bad source address, receive path not initialised), which change nothing.

### Reactor and SharedReactor

One step is what one thread does between two accesses to shared state: `SubmitPush`
(under the mutex) and `SubmitWake`, `CancelRequest` and `CancelWake`, and for a worker
`EpollWait`, `ReadWake`, `HandleEvent`, `EventsDone`, `DrainPending`, `BeginConnect`,
`ProcessCancellations`, `SweepTimeouts`, `LeaveLoop`, `WorkerCleanup`; `ShutdownStart`,
`ShutdownJoined`, `CloseShard`. An event carries an operation through any number of
stages (`Reach`). Deadlines are instants 1 .. `MaxTime`. `fdtable`, the kernel's
descriptor table, is external. `SharedReactor` has one step per atomic access.

`Completions` is the engine as its clients see it: operations that are new, accepted,
started, waiting for an answer, answered or completed, and a service that is up, failing,
stopping or down. It has neither shards nor descriptors nor deadlines. `Phase` computes the
first from `finished_`, the client's `submit`, `fd_` and `stage_`, `Service` from
`shutdown()`, `stop_` and the workers that left their loop; callbacks, results and
requests to cancel are the engine's own. One step of the engine is at most one action of
it: a sweep that times out several operations is one `Complete` of a set, the last
`CloseShard` is `Close`.

### SendBatch, RecvReader and ScanRun

`SendBatch`: `pc` is the position in `send_tcp_packets`; positions with a 6 belong to the
second pipeline, of fragments (`Phase`, `At`). Buffers are interchangeable and counted by
where they are: in `pool`, in `packets`, in `frags`, or with a request in `sq`, `kernel`
or `cq`. `dropped` are those stranded by a drain that timed out. `tally` has the loss
counters, and, as history, what was handed in. The ring refuses submissions, requests
fail, completions report that the network is down (`ReapNetworkDown`), drains time out.
Left out: packet contents, pacing, the choice of socket beyond "no IPv6 socket".

`RecvReader`: a slot is in one `place` (prepared, in the submission queue, with the
kernel, completed) or in none; `armed` and `pending` are `slot_armed` and
`pending_rearm`, `taken` the batch of completions under way. Workers register, sleep,
are woken through `MSG_RING` (or `SQPOLL`, where the wake-up is submitted by the kernel
thread at any later moment) and unregister under the mutex. Which target a packet
belongs to is a choice. The arming loops stop when the ring has no entry left (`Spare` are
the slots without one); a completion that finds the completion queue full is dropped, and
`lost` remembers its slot.

`ScanRun`: one action per stage of the run; `fds` are the raw sockets that are open,
`tracked` the list `emergency_cleanup` closes. `Resolve` is one ARP batch, with the
special case of the machine's own address. Targets are scanned in one step (their
detail is `TargetScan`); version probes run concurrently up to
`kMaxConcurrentProbes`. `Interrupt` may come at any moment.

### HostDiscovery and ArpResolve

`HostDiscovery`: `pass` is the sweep; `asked`, `state`, `classified` are its targets, the
verdicts so far and the counter that ends it; the four sets of signals are kept across
sweeps and reconciled at the end. Replies may repeat; the first
one of a host decides its verdict in the sweep.

`ArpResolve`: one ring, several calls. `ring` has the requests with the kernel by the
call that made them, so a completion of an earlier call is a tagged completion the
current call meets. The buffers of a call are `slotBuf`.

### DnsBatch, DnsEnum, Targets

`DnsBatch`: a query in flight has a job and a socket; an answer stays on
the wire until it is read, so it may come to a socket that carries the next query
already. `left` counts the quiet polls until the deadline. `Extend` is the renewal of the
deadline. A server that is no address is passed over with its job (`LaunchSkips`). An
answer that was cut short is asked for again over TCP (`TopUp`), one after the other in
the same thread, without a timeout. `batch_with_retry` is `PassOver`.

`DnsEnum`: `dePc` is the stage; each query of a wave is answered or lost, and the step
that stands for the wave's return may never come (`EnumWave`, `InWave`). `kindOf` says
what each name is (with an address, alias, dead). Web sources are fetched with at most
`WebConcurrency` transfers; an interrupt skips what has not begun.

`Targets`: the family preference `pref` (`-4`, `-6` or none) is chosen in the initial
state and never changes; addresses are `Bits` wide; words are addresses, ranges, wildcards, names,
blank or bad. `wanted` is a history variable: what the words stand for by the rules of
the code, with the caps per range and in total. A name is resolved in a batch with a
retry pass, or by a pool over TLS (`overTls`); where the code reads the front of an empty
list the model ends in `undefined`. A wildcard runs an enumeration of the domain
(`ParseWildcard`, `Simulated`). The returns of the enumeration and of a batch may never
come (`TargetsWave`).

### PortList and RangeTables

Pure algorithms, run as small state machines over bounded inputs: words and digits of
port lists (`Decode` reads the digits of a line, with the caps of the code),
`Difference` of two sorted lists; prefixes, sorting and the binary search of provider
ranges. Each is compared with a reference definition (`named`, `barred`, `Covered`).

### NetRadar, SslEnum, Traceroute

`NetRadar`: connections are waiting, answered or expired by ticks of the clock;
`tracked`, `matched`, `expired` are the counters that are printed. Names are looked up in
waves of UDP queries (`PtrPass`, at most two, each of which may never return) or, when
there is no plain server, address by address over TLS (`PtrOverTls`), where a look-up that
failed is cached like a denial. `ptrCache` survives the passes; `outcome` is history: what
the last look-up of an address came to.

`SslEnum`: `flat` is the result list by job position; launching may fail, a handshake
may fail or time out at any stage. The merge compares certificates across targets.

`Traceroute`: answers name their probe by its position in the round, so an answer to an
earlier round may be taken for one of this round; `ForeignUnreachable` is the error that
quotes somebody else's packet and sets `done` all the same. At the end of a round the name
of the node is looked up (`Naming`), a batch of one query.

### Server and SplitNs

`Server`: `table` has what each descriptor is (connection, pipe, listener), `batch` the
events of the current epoll round by descriptor number, so that an event may meet
another occupant. Locks, listeners and stunnels are taken one by one and given back on
every way out of the start-up.

`SplitNs`: one step per system call; a run may fail after any of them (`StepFails`) or
die (`Exit`), and two runs may overlap. Links have indices that are never used twice
(`usedIds`).

### VersionProbe

`sent` is the list of probes sent so far, `resp` the class of the last answer (TLS record,
redirect, 4xx, HTTP, other), `label` the method label, `back` where a redirect chain returns
to. Answers are chosen freely among those the transport can bring; `Follow`, `Twin`,
`HostRetryPlain`, `HostRetrySsl`, the GET to a printer port that turned out to speak HTTP
(`JudgePrinter`) and the fall-backs are steps of their own. `thrown` is the exception of the
range constructor when the MQTT read fails.

### Commands

`Setup`, `Refuse`, `RefuseTargets`, `Dispatch`, `Return` are `main`; `Only(c)` restricts a
step to the part that is followed. A server is started before the options are checked.

## 3. Runs

Passing runs:

| Run | Instance | Checks |
|---|---|---|
| `scan_port` | 1 port; SYN, FIN, MAIMON, ACK, WINDOW; with and without `-G`; retry cap 1..2; precise TX timestamps | `TypeOK`, `OneProbeWaiting`, `StampIsCurrent`, `VerdictHasProbe`, `TeardownInOrder` |
| `scan_live` | 2 ports; SYN (retries) and XMAS (none); a sender that may drop packets; interrupts; fairness | `CountersExact`, `ScheduledOnce`, `GateWillOpen`, `ClassifiedOnce`, `EarlierAttemptsSent`, `ImplementsVerdicts`, `ScanEnds`, `JoinReturns` |
| `target_batches` | 1 to 5 ports, batch size 2 or 3: one to three batches, with and without remainder, and a batch larger than the target | `BatchesTile`, `ResultExact`, `BudgetExact`, `AllClassified` |
| `reactor_ops` | 2 operations (both TLS, interchangeable), 2 shards, 2 descriptors, workers may leave on an epoll failure | `OneOwner`, `NoLostWakeup`, `DescriptorsExact`, `ImplementsCompletions` |
| `reactor_live` | 2 operations, 1 shard, 1 descriptor, 2 instants, fairness | `DeadlinesExact`, `SubmitCompletes`, `CancelCompletes` |
| `scan_parts` | 4 targets of four kinds in batches of 2; a pool of 4 buffers, window 2, a submission queue of 3, two calls of whole and fragmented packets; 3 receive slots, a ring of 2 entries, a completion queue that may overflow, one worker, 2 packets | `BuffersAccounted`, `InFlightExact`, `SlotsKept`, `WakeUpsReach`, `DownCountExact`, `ResultsInPlace`, `ProbesCollected`, `NothingLeftBehind`, `PartsEnd` |
| `commands` | see below | `CountedOnce`, `ListsExact`, `NothingSkipped`, `ReportedOnEvidence`, `EnumerationSound`, `HeldAlone`, `CommandEnds` |

Runs that end in a violation, each of a sentence the repository states (section 6):
`scan_graceful`, `shared_reactor_race`, `send_losses`, `dns_hang`, `arp_own_address`.

**Why the bounds are enough.** The scan's per-port logic does not look at other ports, so
one port with every scan family and two retries reaches all of it: two retries give a
first retry (which fetches the cap and enters the budget), a later one, and stale
timestamps of two generations. Between ports there are only the counters, the gate, the
queue and the result, for which two ports give every order of two events; what is said
about them is moreover proved for any number of ports. Precise timestamps are off in
`scan_live`: what they add is one port's business and covered by `scan_port`. Dropped
packets and interrupts are off in `scan_port` and on in `scan_live`: the theorems about the
properties of either hold with both. The `FIN` branch of `process_response` also serves
`NULL_SCAN` and `XMAS`; `SYN` serves the other members of `SynLike`, whose branches differ
in output only; `FIN` and `MAIMON` differ in `skip_retries`. In the reactor two operations
and one or two descriptors give every case of descriptor reuse; two shards give round
robin and a closed shard beside an open one. The operations of `reactor_ops` speak TLS, so
every stage is passed through, and are a symmetry set; those of `reactor_live` are plain.
`ShutdownCompletesAll` is not listed in a run: `ImplementsCompletions` contains it, because
in `Completions` the service goes down by completing all that is left.

In `scan_parts` a batch of three packets, one of two fragments, does not fit the pool
together with what an earlier call stranded, is larger than the window and than the
submission queue, and comes without an IPv6 socket; a second call meets what the first left.
Three slots of three kinds meet a submission queue of two entries, so that one slot finds no
entry at the start and wake-ups and re-arming compete for them; one worker is enough because
wake-ups and registrations of different workers do not meet but in the queue. Four targets
in batches of two put the own address, a local, a remote and an IPv6 target into two
batches. `CqMayOverflow` is TRUE: any completion may be dropped.

In `commands`: one host per kind in discovery; two ARP calls with one slot, so that the
second meets completions of the first; three queries on two sockets of two families
with one retry pass; two names and three sources of which two are fetched at a time; words
on a 3-bit address space in which ranges overlap and touch the caps, two words per call;
one flow that is repeated and expires; three targets, one without a family, with two
handshakes at a time; two hops of two probes; one link with three descriptors, which makes
every number come back within a round; two overlapping runs with three link indices; three
probes (HTTP, NULL, named) and two redirects; words of ports at 0, at `MaxPort` and beyond,
reversed and overlapping; three ranges of two labels.

**Fairness.** `PortScan`: weak fairness of the heap, of the phase-1 deadline and the
sentinel, of leaving the loop, of the return, and of the sender; these are two threads the
system schedules and a clock. Nothing is assumed of the network, and a sender may drop any
packet: a port whose probe `send_tcp_packets` gave up before `on_pre_submit` is pushed back
every 5 ms without end, because `real_tx_ts_us` stays 0. `ScanEnds` names this one case
(`Stranded`) and excludes every other: the call returns, or from some time on a port waits
for a probe nobody holds. `Reactor`: weak fairness of the steps of a worker, of shutdown
once started, and of the second half of submit and cancel. That time passes (`TimePasses`: a
worker that sweeps again and again finds the deadline passed) is a hypothesis of
`SubmitCompletes` only; `CancelCompletes` does without. `ScanParts`: weak fairness of the
thread that is followed, of the kernel for what the sender submitted (a drain has its own
timeout), and of a version probe, which is bounded by its timeouts. A reader is only
required to end once it was told to. `Commands`: weak fairness of the thread (`Goes`), of
the clock and of the kernel's sends (`Outside`), of each run of `--split`; and strong
fairness of the two deadlines that the thread checks on every turn while other events keep
it busy (`Deadline`). Answers are assumed nowhere. A wave of DNS queries may keep the thread
for ever (`dns_hang`, and the TCP connection of a truncated answer), so the steps that stand
for its return are not fair, in the enumeration, the names of targets, the names of the
radar and of a traceroute; `CommandEnds` says that a command returns or stays inside such a
wave (`InWave`), that is, that no other wait of any part is without a deadline. It leaves
out the server, which is to run on, and the DNS batch itself (`dns_hang`). `dns_hang`
assumes weak fairness of the engine's own steps but for `TopUp`, whose wait `BatchEnds`
excepts.

## 4. Proofs

Every theorem holds for every value of the constants that satisfies the module's named
assumption: `PortScanAssumption` (finitely many ports, retry bounds in order),
`TargetScanAssumption` (positive counts and batch sizes), `ReactorAssumption` (finitely many
operations, at least one shard), `ScanPartsAssumption` (targets without duplicates, as
`add_unique_ip` leaves them; batches of at least one; sizes that are natural numbers), and
five of `Commands`. `CommandsAssumption` bounds nothing: hosts and connections are finitely
many, links and descriptors are numbers, and 0 is neither a process nor an interface.
`SlotsAssumption` keeps the tag of the poll apart from the slots, `ListsAssumption` says
that ports, versions and probes are lists and that a TLS enumeration has a port and a
worker. `ServersAssumption` is the one that matters: a batch has a socket for each query, or
gets to a server of each family before its sockets are used up. `main` takes at most ten
servers (`main.cpp` 369), a `resolv.conf` names a few, and the batches open 200 to 500
sockets; the batch with two sockets (`handler.cpp` 2068) has two queries. Without it
`NothingSkipped` fails (section 6). `WordsAssumption` says what the words of a command line
are made of: addresses of `Bits` bits, prefix lengths in `0 .. Bits`, wildcards that stand
for a list of addresses, lines of digits, and a natural number as `MaxPort`. A proof shows
that the inductive invariant named below holds at the start, is preserved by each action,
and implies the property. TLC evaluated each of them on a run's instance before it was
proved.

### PortScan

- `PortScanProofs!TypeCorrect` — `TypeOK`, and nothing is behind the poison pill in
  `packet_queue`. Inductive invariant `TypeInv`. `TypeOK` alone is not inductive:
  `Dequeue` puts the taken prefix, without a pill in last place, into the
  sender's batch of real tasks, which needs `PillIsLast`; and `RetrySend`
  counts the generation up, which stays within the attempts only because it trails the
  retry count (`GenerationTrails`).
- `PortScanProofs!CountersCorrect` — `CountersExact`. Strengthened with
  `CountedWereRetried`: only retried ports hold a share of the budget, so a first
  retry enters a port that was not in it. The counting step (`CountersAccount`)
  removes one element from the two sets and uses the cardinality theorems.
- `PortScanProofs!ScheduleCorrect` and `GateCorrect` — `ScheduledOnce` and
  `GateWillOpen`. `GateInv` adds `SentinelAfterDeadline`: the sentinel fires only after
  the phase-1 deadline, after which nothing is parked, so no port can be parked behind a
  sentinel that has gone.
- `PortScanProofs!Refinement` — `Spec => ImplementsVerdicts`. `VerdictInv` adds
  `DecidedIsReported` and rests on `CountersCorrect`: the loop ends when
  `active_count` is 0, and only the exactness of the counter turns that into "every port
  has its verdict".
- `PortScanProofs!ListsCorrect` — `ClassifiedOnce`. A list grows by a port it does not
  name, because a port is entered in the step that decides it and is undecided before.
- `PortScanProbeProofs!ProbesPaced`, `SilenceListenedFor`, `VerdictsGrounded`,
  `StampsCurrent`, `TeardownOrdered` — `OneProbeWaiting`, `EarlierAttemptsSent`,
  `VerdictHasProbe`, `StampIsCurrent`, `TeardownInOrder`. They share one argument. What the
  sender holds followed by `packet_queue` is one line (`Line`): packets join it at the end
  and leave it at the front, so the order in which a port's packets were queued (`Rank`) is
  the order in which they go out, and every action either appends packets (`Joins`) or moves
  the line up (`MovesUp`). `ProbeInv` says of the line that a port's packets wait in order
  and each kind once (`InOrder`), behind the ones that went out (`SentInOrder`); that a
  probe in it is the current attempt and not confirmed (`WaitingProbes`); that teardown
  packets exist only after the step that queues them; that `real_tx_ts_us` means the current
  attempt went out (`Confirmed`), hence every earlier one (`EarlierSent`); and when the
  sender is through (`SenderDone`). None of the five properties is inductive alone: a retry
  is queued because `real_tx` is set, which is about an earlier step of the other thread.
  Since `on_pre_submit` is three steps, the packet it is at is both sent and still in the
  line until `real_tx_ts_us` is stored (`MarkedIsSent`), and the one whose generation is yet
  to be read is related to the port's attempt (`FilingMatch`): the receiver can overtake it
  at most once, because the retry it then sends has to go through the same sender. This is
  why a stamp that is not current is exactly one attempt old (`StampsMatch`).
  `OneProbeWaiting` is stated without an exception for ports in teardown: the proof showed
  that a confirmed port has no probe in the line whatever else it has.

### TargetScan

- `TargetScanProofs!SplitCorrect` — `BatchesTile`, for any number of ports and any
  batch size. The invariant `SplitInv` says that after `k` ranges `pos` is
  `Dealt(k) = k * base_size + Min(k, extra)`; the arithmetic (`SplitArithmetic`) shows
  that no range is empty or exceeds the batch size.
- `BudgetCorrect`, `MergeCorrect`, `TargetComplete` — `BudgetExact`, `ResultExact`,
  `AllClassified`. `CallInv` adds to the split that the ports started are `0 .. Dealt(next)
  - 1` (`StartedBelow`, where non-linear arithmetic orders the ranges), that nothing is
  known of a port before its batch (`FreshPorts`), and that a port is left undecided only
  by an interrupt or a fatal error (`UndecidedExcused`). Then a call adds its batch, which
  is disjoint from what was counted, and its return merges the verdicts of that batch.
  A call is any outcome that `PortVerdicts` allows, the part `Refinement` proves.

### Reactor

- `ReactorProofs!OwnershipCorrect`, `DescriptorsCorrect`, `DeadlinesCorrect`, `WakeupsKept`,
  `ShutdownCorrect` — `OneOwner`, `DescriptorsExact`, `DeadlinesExact`, `NoLostWakeup`,
  `ShutdownCompletesAll`, for any number of operations, shards and descriptors. They are
  proved together (`ReactorInv`) because each needs the others: that a finished operation
  leaves the table needs `DescriptorsExact`, that its deadline goes with it needs one
  entry per owner, that a cancelled operation is still found needs `OneOwner`. Added are
  `OwnerInv` and `OnePlace` (what a shard holds was submitted to it and is unfinished, and
  no queue names it twice), and `ThreadInv` (how far the workers and `shutdown()` are: a
  closed shard has an empty queue, an exited worker owns nothing). `ShutdownCompletesAll`
  follows: when all shards are closed none holds an operation, and an unfinished one would
  have to be held.
- `ReactorProofs!CompletionsKept` — `Spec => ImplementsCompletions`: one callback for each
  operation, its result fits how far it came, an operation cancelled before it starts never
  connects, nothing is cancelled that nobody asked for while the service is up, and what is
  completed stays completed with its result. `PromiseInv` adds to `ReactorInv` that `stop_`
  is set exactly from the start of `shutdown()` (`StopInv`), and that only TLS operations
  shake hands and only one that waits for more of an answer, or is finished, has data
  (`StageInv`). Without the latter a time-out in the middle of a handshake could be a
  success. The proof has one lemma for each way an operation is finished
  (`FinishPromised`, `CancelPromised`, `CleanupPromised`, `ClosePromised`,
  `SweepPromised`) and one for the walk of an event through the stages (`ConnectReach`,
  `TableOutcomes`). That a refused submission finds the service stopping rests on `ThreadInv`:
  only `shutdown()` closes a shard. `Completions` in turn has `ShutdownCompletesAll` built
  in: `Close` completes all that is left and `Accept` is refused from then on.

### ScanParts

One part moves at a time, so each part has an inductive invariant over its own variables,
and `PartsStep` puts them together.

- `ScanPartsProofs!DownCountCorrect`, `ResultsCorrect` — `DownCountExact`,
  `ResultsInPlace`, for any targets and sizes of a batch. `HostInv`: only hosts of batches
  that were reached are down (`DownInv`), the hosts still to be asked by ARP are distinct,
  in the batch and not down, and a slot of `all_results` beyond the finished batches is
  empty (`ResultsInv`). That the silent hosts of an ARP batch are counted for the first
  time needs all three; that a result is not of a host found down later needs that targets
  do not repeat. `OnlyFilters` shows that a filtering loop keeps order and distinctness.
- `ProbesBounded`, `CleanupCorrect` — `ProbesCollected`, `NothingLeftBehind`. `RunInv`
  says for every phase which sockets and contexts may be open.
- `PoolCorrect`, `FlightCorrect` — `BuffersAccounted`, `InFlightExact`, for any pool,
  window, ring and batch. `SendInv` adds where the packets of a call are in each phase
  (`WorkInv`): one that is cut leaves `packets` when its fragments enter `frags`.
- `WakeUpsCorrect` — `WakeUpsReach`, for any number of targets. `WakeInv` adds that a
  plain ring holds wake-ups only while the reader has `idle_ring_mu`, and then to
  registered rings: this is what the lock is for.
- `SlotsCorrect` — `SlotsKept`, without a hypothesis on the ring, the slots or the kernel.
  `SlotInv` says of every slot which flags it may have in which place; a slot that is idle
  without waiting for re-arming is either marked as armed and one whose completion was
  dropped (`lost`), or unarmed, without an entry at the start (`Spare`), and no overflow
  was seen yet: the first overflow puts all unarmed slots on the list.

### Commands

A behaviour follows one part (`OnePartMoves`), so each part has an inductive invariant over
its own variables and the theorem of a property of `Commands` puts together those of its
conjuncts.

- `CommandsProofs!CountedOnceCorrect` — `CountedOnce`. `SweepInv`: `classified` is the
  number of hosts with a verdict, so a late or repeated reply must find one. `TraceInv`: the
  hops are the TTLs in order and a probe still out belongs to a hop already reached.
  `RadarInv`: what was tracked is matched, expired or in the table, for each protocol, in
  every step that takes an entry out. `ResolvedInv` counts the hosts ARP resolved.
- `HeldAloneCorrect` — `HeldAlone`. `ServerInv` says of `server::run` that a scan has its own
  process, pipe and link (`ScansOwn`) and that nothing is busy, alive or open without a scan
  (`NothingStray`). One round handles many events, each of which may close descriptors
  that a later event of the round names, so the lemmas are about a table rather than about
  the step: `ScanGone`, `ScanStarts`, `Closes`, `PipeReads`, then the fold over the events.
  `SplitInv`: a link a run has is in use, is not the one left in the root namespace, and is
  no other run's.
- `EnumerationCorrect` — `EnumerationSound`. `FetchInv`: a source waits, runs or is done, and
  none waits while none runs.
- `ReportedCorrect` — `ReportedOnEvidence`, which names two exceptions the code has: a failed
  look-up over TLS counts as a denial, and a provider is missed behind a nested range.
  `EvidenceInv` (which pass may have found a host),
  `LookupInv` (what the cache says of an address is what its last look-up came to, with the
  exception of TLS) and `RangesInv` (the table holds
  the ranges of the lines and is sorted once ready). The binary search is right for a table
  of any length: `SearchUpTo` shows that the recursion over shorter and shorter spans has a
  solution, `SearchFinds` that it is the number of ranges that start at or before the
  address.
- `CommandsTriedProofs!NothingSkippedCorrect` — `NothingSkipped`, the longest proof.
  `PoolInv`: a socket is free or carries one query (`SocketsExact`), a job is in flight once
  and not waiting (`JobsOnce`), and a pool that cannot grow has a socket for each server
  unless nothing waits (`ServersReached`), which is why no query is left when the last
  answer came. `SslInv`: the handshakes before the next one run or have a result, over
  the list that `run_ssl_jobs` builds out of targets, ports and versions
  (`JobListed`). `ProbeInv`: probes go out in the order of the plan (`SentInOrder`),
  and an empty response means all of them did (`AnswersKept`). `ListenInv`: a
  receive of a slot is in the ring, in the completion queue, or noted for re-arming.

- `CommandsListsProofs!ListsExactCorrect` — `ListsExact`: what `parse_targets` returns and the
  lists of ports hold what the words say, for any words. `TargetsInv`: the lists of both
  calls hold every address seen, each once, and what is seen is what is wanted of the words
  read so far, with the caps per range and in total; it rests on `ExpandedRange` (which
  addresses a prefix or a range stands for, by powers of two: `Blocks`) and on `UniqueAdds`
  (`add_unique_ip` loses and repeats nothing). `PortsInv`: the lists are increasing at every
  stage, and the ranges built, parsed and excluded stand for the ports named and barred.
  Each loop has its lemma: `DecodeExact` (the digits of a line, with the early stop at the
  cap), `ReadList`, `SortedList`, `UniqueList`, and `DifferenceList`, the two-pointer walk
  over two sorted lists.

Loops over data are reasoned about by the least counterexample: `LeastNat` (a set of numbers
that is not empty has a least element, from `WFMin`), `UpTo` (what is handed on from turn to
turn holds at the end) and `LoopExists` (the function a loop defines exists).

Every safety property of the passing runs is the statement of a theorem. Only model-checked
are the liveness properties (`ScanEnds`, `JoinReturns`, `SubmitCompletes`,
`CancelCompletes`, `PartsEnd`, `CommandEnds`): they rest on fairness, hence on ENABLED, which
the prover does not support.

Some definitions are written so that they can be reasoned about, without `SelectSeq` and
`SortSeq`: `ScanRun!Only` says what a filtering loop leaves by the rank of the elements,
`DnsBatch!Unanswered` and `VersionProbe!Those` are recursive functions of the turns of the
loop, `RangeTables!Finalize` takes any permutation that is sorted and `UpperBound` is a
recursive function of what is left to search; `PortList!Sorted` places each element by its
rank, `Unique`, `ReadLines` and `Difference`, and `Targets!Unique`, are recursive functions
of the turns of their loops, as is `Power`;
`SendBatch!At` names the position of a fragment by a record. No module with a theorem
reaches a RECURSIVE operator.

## 5. How to run

    tlc -workers 2 -config scan_port.cfg MCPortScan
    tlc -workers 2 -config target_batches.cfg TargetScan
    tlc -workers 2 -config reactor_ops.cfg MCReactor
    tlc -workers 2 -config scan_parts.cfg MCScanParts
    tlc -workers 2 -config commands.cfg MCCommands
    tlapm PortScanProofs.tla       (and the other modules whose name ends in Proofs)

`scan_port`, `scan_live` and `scan_graceful` use `MCPortScan`, `reactor_*` `MCReactor`,
`scan_parts` and `arp_own_address` `MCScanParts`, `shared_reactor_race` `SharedReactor`,
`send_losses` `MCSendBatch`, `dns_hang` `MCDnsBatch`. Every run takes less than four minutes
on two cores; the longest proofs, of `Commands`, take about a quarter of an hour each.

## 6. Where the code and its text disagree

- `scan_graceful`: `-G` "completes a real 4-way TCP handshake with graceful teardown"
  (`readme.md`). After the handshake the port has no heap entry, so without a FIN or
  RST of the peer it is never final and the call does not return.
- `shared_reactor_race`: a configure call racing with the first use is "either honoured
  or reported, never silently lost" (`async_io.cpp`). It reads the flag and stores the
  count in two steps and can be lost.
- `send_losses`: "every path in send_tcp_packets() that destroys a packet increments
  exactly one of" the loss counters (`scan.hpp` 1150). The packet whose completion says
  that the network is down is in none of them when the drain then times out.
- `dns_hang`: the deadline of a DNS batch should not go on "sliding forever on a single
  non-responding query" (`dns_enum.cpp` 679). While jobs wait for a socket and no query in
  flight is answered, each quiet poll renews it, no socket becomes free, and the batch does
  not end.
- `arp_own_address`: "Drain any ARP replies that arrived for real IPs in this batch"
  (`handler.cpp` 2595). With the machine's own address in a batch one completion is
  dropped, and every other host of the batch counts as down.

Seen while modelling, without a run:

- A port may be given up before its last attempt has left the queue (`scan.cpp` 4492);
  retries wait, this decision does not.
- The timestamp of a packet may be filed under the next attempt: `on_pre_submit` stores
  `real_tx_ts_us` before it reads `port_generation` (`scan.cpp` 2996, 3003), and the
  receiver may send the retry in between. `StampIsCurrent` has this as its exception.
- A packet that `send_tcp_packets` drops before `on_pre_submit` (no socket, no buffer, a chunk
  given up) leaves its port waiting for ever (`scan.cpp` 4372), and the scan does not
  return. `ScanEnds` has this as its exception.
- With more name servers than sockets, of two families, the DNS engine can stop with queries
  never sent: every pooled socket is of the other family than the next server
  (`dns_enum.cpp` 569, "pool exhausted; try later") and nothing in flight will free one.
  The program's own batches have the sockets (`ServersAssumption`).
- A fatal ICMP error prints "aborting scan of" the target and ends the batch; the next
  batch of the same target is scanned all the same (`scan.cpp` 3868).
- `submit` "always results in exactly one on_complete call" (`async_io.hpp`), but a worker
  that leaves on an `epoll_wait` failure leaves its shard open, and what is submitted to
  it later completes at shutdown only.
- After an overflow of the completion queue the reader re-arms "idle slots" and skips
  those still marked armed; a slot whose completion was lost is such a slot
  (`scan.cpp` 6614) and receives nothing for the rest of the scan. `SlotsKept` has this as
  its exception.
- With IPv6 targets the receive path has twice the slots, but the ring keeps its size
  (`scan.cpp` 5803 to 5809, 5886). With the default depth and 17 to 25, 33 to 51 or 65 to 102
  targets in a batch there are more slots than entries: arming stops with "No SQE for
  ICMPv6 slot" (5975), the slots left over are on no list until an overflow is seen, and
  until then no ICMPv6 error is. `SlotsKept` has this as its other exception.
- The clean-up of `receive_arp_reply` takes at most one completion per slot without waiting
  and cancels nothing, so receives may outlive the buffers of the call
  (`arp_handler.cpp` 584).
- A name whose server answers with AAAA records only, without `-4` or `-6`: the front of
  an empty list is read (`handler.cpp` 1795).
- A failed look-up over DNS-over-TLS is cached as "no name" (`utils.cpp` 769), other than in
  the UDP batch. `ReportedOnEvidence` has this as an exception.
- A provider is missed for an address behind a range nested in the provider's
  (`utils.cpp` 1465 to 1471), also an exception of `ReportedOnEvidence`.
- The TCP connection of a truncated DNS answer (`dns_enum.cpp` 641 to 652) has no timeout and
  looks at no interrupt.
- A CONNACK whose read fails makes a range of -1 bytes (`control.cpp` 4226).
- An ICMP unreachable error sets `done` of a hop whoever's packet it quotes
  (`traceroute.cpp` 309).

## 7. Not modelled

OS detection and anomaly analysis (scoring in floating point), output, colour and debug
formatting, lookup tables, packet layout and checksums, cipher and signature tables, the
grammar of the single options, `discover.cpp` (registries downloaded, scored and printed),
`probe.cpp` (the probe file and its regular expressions: an answer matches or not), the
parsers of the single passive sources and of DNS messages. The RTT estimator and the
congestion curve are arithmetic on reals: what they yield is a nondeterministic choice
within its bounds.

`run_blocking` and the adaptive connect budget of `async_io.cpp`; the asynchronous variants
of the version probes for authentication and their rate limits; which answers of printer
ports are printed (`control.cpp` 5921); `RstBlockGuard`; the source-port 443 retry beyond
its place in the fall-backs; the drain of the send ring between targets (`handler.cpp`
2768).

The commands are followed one at a time (section 2). What the composites leave out by
that is contention for the machine: descriptors, memory, the terminal.

Type invariants of the modules other than `PortScan` are stated (`TypeOK`) and were
checked when the modules were written; no run lists them.

## 8. Plan

1. `RunBlocking` as a client of `Completions`: the late callback after the caller left.
2. The sender of `PortScan` (`MarkOutstanding` or `PacketDropped` for each packet) as the
   abstraction of a `SendBatch` call, by refinement.
3. An abstract specification of `DnsBatch` and of `ScanRun`, in the way of `Completions`: an
   answer, a verdict and a result are never taken back.
