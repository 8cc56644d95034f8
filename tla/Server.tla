------------------------------- MODULE Server -------------------------------
(***************************************************************************)
(* `shiv --server`: links (slots) with a public port, a stunnel and a      *)
(* loopback listener each, one epoll loop for all connections, and at most *)
(* one scan process per link, whose output is streamed to the connection   *)
(* that started it.  Descriptors are numbers the kernel hands out again,   *)
(* so an event of an epoll round may meet another occupant of its number.  *)
(***************************************************************************)
EXTENDS Integers, FiniteSets, FiniteSetsExt

CONSTANTS
    Links,          \* 1 .. --count
    SrvFds,         \* descriptor numbers
    Pids,           \* process numbers
    RoundEvents     \* kMaxEvents

None == [kind |-> "none"]

VARIABLES
    srvPc,          \* "reserve", "listen", "stunnel", "serve", "down"
    tls,            \* tls_possible
    locks, listeners, stunnels,       \* links that hold one
    scanBusy,       \* links with scan_busy
    running,        \* running_pid of a link
    table,          \* g_conns by descriptor: a client, or the pipe of one
    child,          \* process -> "none", "alive", "exiting", "zombie"
    batch           \* events of this epoll round: [fd, ev], or [link]

serverVars == <<srvPc, tls, locks, listeners, stunnels, scanBusy, running, table,
                child, batch>>

ServerInit ==
    /\ srvPc = "reserve" /\ tls \in BOOLEAN
    /\ locks = {} /\ listeners = {} /\ stunnels = {} /\ scanBusy = {}
    /\ running = [s \in Links |-> 0]
    /\ table = [f \in SrvFds |-> None]
    /\ child = [p \in Pids |-> "none"]
    /\ batch = {}

startup == <<tls, locks, listeners, stunnels>>
serving == <<scanBusy, running, table, child>>

----------------------------------------------------------------------------
\* Start-up: link by link a port lock, a listener and a stunnel.

FirstOf(S) == CHOOSE s \in S : \A t \in S : s <= t

\* shutdown_all: the scans are interrupted and reaped, by force if need be;
\* then every stunnel, listener and lock is let go.
ShutdownAll ==
    /\ srvPc' = "down"
    /\ child' = [p \in Pids |->
          IF \E f \in SrvFds : table[f].kind = "client" /\ table[f].pid = p
            THEN "none" ELSE child[p]]
    /\ locks' = {} /\ listeners' = {} /\ stunnels' = {}
    /\ UNCHANGED <<tls, scanBusy, running, table, batch>>

Reserve ==
    /\ srvPc = "reserve" /\ tls /\ locks # Links
    /\ locks' = locks \cup {FirstOf(Links \ locks)}
    /\ UNCHANGED <<srvPc, tls, listeners, stunnels, serving, batch>>

Reserved ==
    /\ srvPc = "reserve" /\ (tls => locks = Links)
    /\ srvPc' = "listen"
    /\ UNCHANGED <<startup, serving, batch>>

CreateListener ==
    /\ srvPc = "listen" /\ listeners # Links
    /\ listeners' = listeners \cup {FirstOf(Links \ listeners)}
    /\ UNCHANGED <<srvPc, tls, locks, stunnels, serving, batch>>

Listening ==
    /\ srvPc = "listen" /\ listeners = Links
    /\ srvPc' = "stunnel"
    /\ UNCHANGED <<startup, serving, batch>>

StartStunnel ==
    /\ srvPc = "stunnel" /\ tls /\ stunnels # Links
    /\ stunnels' = stunnels \cup {FirstOf(Links \ stunnels)}
    /\ UNCHANGED <<srvPc, tls, locks, listeners, serving, batch>>

Started ==
    /\ srvPc = "stunnel" /\ (tls => stunnels = Links)
    /\ srvPc' = "serve"
    /\ UNCHANGED <<startup, serving, batch>>

\* A port in use, no token, no epoll, no listener, stunnel did not come up:
\* fatal.  A lock may be held already for the link that fails.
StartupFails ==
    /\ srvPc \in {"reserve", "listen", "stunnel"}
    /\ ShutdownAll

----------------------------------------------------------------------------
\* Descriptors and connections.

Free == {f \in SrvFds : table[f] = None}
ClientAt(f) == table[f].kind = "client"
Clients == {f \in SrvFds : ClientAt(f)}

\* waitpid(WNOHANG): only a process that is gone already is collected.
Waited(ch, p) == [ch EXCEPT ![p] = IF @ = "zombie" THEN "none" ELSE @]

\* Fault: a closed client leaves its link busy.
CloseConnectionKeepsBusy(f) ==
    LET c == table[f]
    IN  IF c.pid # 0
          THEN /\ child' = IF child[c.pid] = "zombie" THEN Waited(child, c.pid)
                           ELSE [child EXCEPT ![c.pid] = "exiting"]
               /\ running' = [running EXCEPT ![c.link] = 0]
               /\ table' = [table EXCEPT ![f] = None, ![c.pipe] = None]
               /\ UNCHANGED scanBusy
          ELSE /\ table' = [table EXCEPT ![f] = None]
               /\ UNCHANGED <<child, running, scanBusy>>

\* close_connection with reap_child: the scan is killed, its pipe closed and
\* its link freed.
CloseConnection(f) ==
    LET c == table[f]
    IN  IF c.pid # 0
          THEN /\ child' \in {[child EXCEPT ![c.pid] = "none"]} \cup
                             IF child[c.pid] = "zombie" THEN {}
                             ELSE {[child EXCEPT ![c.pid] = "exiting"]}
               /\ running' = IF running[c.link] = c.pid
                               THEN [running EXCEPT ![c.link] = 0] ELSE running
               /\ table' = [table EXCEPT ![f] = None, ![c.pipe] = None]
               /\ scanBusy' = scanBusy \ {c.link}
          ELSE /\ table' = [table EXCEPT ![f] = None]
               /\ UNCHANGED <<child, running, scanBusy>>

Keep == UNCHANGED <<child, running, scanBusy>>

\* send_simple_response: written and closed, or kept until it can be written.
Respond(f) ==
    \/ CloseConnection(f)
    \/ table' = [table EXCEPT ![f].out = TRUE] /\ Keep

\* start_run: refused while the link is busy; otherwise a pipe, a process
\* and the head of the answer, which may find the client gone.
StartRun(f) ==
    LET s == table[f].link
    IN  \/ Respond(f)              \* busy, or the command, pipe() or fork() fails
        \/ /\ s \notin scanBusy /\ Free # {}
           /\ \E p \in {q \in Pids : child[q] = "none"} :
              LET g == FirstOf(Free)
              IN  \/ /\ table' = [table EXCEPT ![f].state = "streaming", ![f].pid = p,
                                      ![f].pipe = g,
                                      ![g] = [kind |-> "pipe", of |-> f]]
                     /\ child' = [child EXCEPT ![p] = "alive"]
                     /\ running' = [running EXCEPT ![s] = p]
                     /\ scanBusy' = scanBusy \cup {s}
                  \/ /\ table' = [table EXCEPT ![f] = None]
                     /\ child' = [child EXCEPT ![p] = "exiting"]
                     /\ UNCHANGED <<running, scanBusy>>

\* dispatch: a page, a refusal, /kill (an interrupt to the scan of this link,
\* which then exits as any scan does) or /run.
Dispatch(f) == Respond(f) \/ StartRun(f)

\* on_client_readable: closed by the peer, not all there yet, too large or
\* malformed, or a request.  A client whose answer is waiting to be written
\* may send a second one.
ClientReadable(f) ==
    \/ CloseConnection(f)
    \/ UNCHANGED table /\ Keep
    \/ table[f].state = "reading" /\ Dispatch(f)

\* EPOLLOUT.  After the flush a client without a scan is closed, unless it
\* was streaming.
ClientWritable(f) ==
    \/ CloseConnection(f)
    \/ IF table[f].pid = 0 /\ table[f].state # "streaming"
         THEN CloseConnection(f)
         ELSE table' = [table EXCEPT ![f].out = FALSE] /\ Keep

\* on_child_pipe_readable: output to pass on, or the end of it, after which
\* the process is collected and the connection closed once it is written out.
PipeReadable(g) ==
    LET f == table[g].of
        p == table[f].pid
    IN  \/ table' \in {table, [table EXCEPT ![f].out = TRUE]} /\ Keep
        \/ CloseConnection(f)                 \* the client is gone, or too slow
        \/ /\ child[p] \in {"exiting", "zombie"}
           /\ child' = Waited(child, p)
           /\ running' = [running EXCEPT ![table[f].link] = 0]
           /\ scanBusy' = scanBusy \ {table[f].link}
           /\ table' \in {[table EXCEPT ![f] = None, ![g] = None],
                          [table EXCEPT ![f].pid = 0, ![f].pipe = 0, ![f].out = TRUE,
                                        ![g] = None]}

----------------------------------------------------------------------------
\* The event loop.

\* EPOLLOUT is asked for while output is waiting.
Events == [fd : {f \in SrvFds : table[f] # None}, ev : {"in"}] \cup
          [fd : Clients, ev : {"hup"}] \cup
          [fd : {f \in Clients : table[f].out}, ev : {"out"}]

EpollWait ==
    /\ srvPc = "serve" /\ batch = {}
    /\ \E n \in 1 .. RoundEvents :
          batch' \in {b \in kSubset(n, Events \cup [link : listeners]) :
                        \A x, y \in b : x # y /\ "fd" \in DOMAIN x /\ "fd" \in DOMAIN y
                                          => x.fd # y.fd}
    /\ UNCHANGED <<srvPc, startup, serving>>

\* accept4() takes the lowest number that is free.
Accept ==
    /\ srvPc = "serve"
    /\ \E e \in batch :
          /\ "link" \in DOMAIN e
          /\ batch' = batch \ {e}
          /\ table' = IF Free = {} THEN table
                      ELSE [table EXCEPT ![FirstOf(Free)] =
                              [kind |-> "client", link |-> e.link, state |-> "reading",
                               out |-> FALSE, pid |-> 0, pipe |-> 0]]
    /\ UNCHANGED <<srvPc, startup, scanBusy, running, child>>

HandleEvent ==
    /\ srvPc = "serve"
    /\ \E e \in batch :
          /\ "fd" \in DOMAIN e
          /\ batch' = batch \ {e}
          /\ CASE table[e.fd] = None -> UNCHANGED table /\ Keep
               [] table[e.fd].kind = "pipe" -> PipeReadable(e.fd)
               [] ClientAt(e.fd) /\ e.ev = "hup" -> CloseConnection(e.fd)
               [] ClientAt(e.fd) /\ e.ev = "out" -> ClientWritable(e.fd)
               [] OTHER -> ClientReadable(e.fd)
    /\ UNCHANGED <<srvPc, startup>>

\* sweep_idle_connections: clients that never sent a whole request.
SweepIdle ==
    /\ srvPc = "serve" /\ batch = {}
    /\ \E f \in Clients : table[f].state = "reading" /\ CloseConnection(f)
    /\ UNCHANGED <<srvPc, startup, batch>>

\* A scan ends by itself, or by the interrupt of /kill: its output is closed,
\* and a little later it can be collected.
ChildExits(p) ==
    /\ child[p] \in {"alive", "exiting"}
    /\ child' = [child EXCEPT ![p] = IF @ = "alive" THEN "exiting" ELSE "zombie"]
    /\ UNCHANGED <<srvPc, startup, scanBusy, running, table, batch>>

\* SIGINT or SIGTERM: g_shutdown is looked at between the rounds.
Shutdown ==
    /\ srvPc = "serve" /\ batch = {}
    /\ ShutdownAll

Starting == Reserve \/ Reserved \/ CreateListener \/ Listening \/ StartStunnel \/ Started
Serving == EpollWait \/ Accept \/ HandleEvent
ServerNext == Starting \/ StartupFails \/ Serving \/ SweepIdle \/ Shutdown
              \/ \E p \in Pids : ChildExits(p)

ServerOver == srvPc = "down"

----------------------------------------------------------------------------
\* A link is busy exactly while one of its clients has a scan, it knows that
\* scan's process (so /kill interrupts this link's own scan and no other),
\* and the pipe of the scan belongs to that client and no one else.
LinkScans ==
    srvPc = "serve" =>
       /\ \A s \in Links :
             LET mine == {f \in Clients : table[f].link = s /\ table[f].pid # 0}
             IN  /\ Cardinality(mine) <= 1
                 /\ (s \in scanBusy) <=> (mine # {})
                 /\ \A f \in mine : running[s] = table[f].pid
                 /\ mine = {} => running[s] = 0
       /\ \A f \in Clients : table[f].pid # 0 =>
             table[table[f].pipe] = [kind |-> "pipe", of |-> f]
       /\ \A p \in Pids : child[p] = "alive" =>
             \E f \in Clients : table[f].pid = p

\* Whenever the server stops, also in the middle of its start-up, no scan of
\* its is left running, and it holds no lock, listener or stunnel.
ServerStopsClean ==
    srvPc = "down" =>
       /\ locks = {} /\ listeners = {} /\ stunnels = {}
       /\ \A p \in Pids : child[p] # "alive"
=============================================================================
