---------------------------- MODULE SharedReactor ----------------------------
(***************************************************************************)
(* configure_shared_reactor and the first use of shared_reactor            *)
(* (async_io.cpp): two atomics, g_shared_reactor_built and                 *)
(* g_shared_reactor_threads, accessed one after the other and in opposite  *)
(* order by the two functions.  The function-local static instance is      *)
(* constructed by one caller while the others wait.                        *)
(***************************************************************************)
CONSTANTS
    Callers,   \* threads that call configure_shared_reactor
    Users,     \* threads that call shared_reactor
    Default,   \* thread count 0: the constructor chooses
    NotBuilt   \* there is no instance yet

VARIABLES
    g_shared_reactor_built,
    g_shared_reactor_threads,  \* Default, or the count a caller asked for
    instance,                  \* the thread count the instance was built with
    configure,                 \* a configure call: "start", "store", "true" or "false"
    use                        \* a shared_reactor call: "start", "claim", "built"

vars == <<g_shared_reactor_built, g_shared_reactor_threads, instance, configure, use>>

Init ==
    /\ g_shared_reactor_built = FALSE
    /\ g_shared_reactor_threads = Default
    /\ instance = NotBuilt
    /\ configure = [c \in Callers |-> "start"]
    /\ use = [u \in Users |-> "start"]

\* configure_shared_reactor reads the flag ...
ConfigureCheck(c) ==
    /\ configure[c] = "start"
    /\ configure' = [configure EXCEPT ![c] = IF g_shared_reactor_built THEN "false" ELSE "store"]
    /\ UNCHANGED <<g_shared_reactor_built, g_shared_reactor_threads, instance, use>>

\* ... and records its own thread count, here named c, and returns true.
ConfigureStore(c) ==
    /\ configure[c] = "store"
    /\ g_shared_reactor_threads' = c
    /\ configure' = [configure EXCEPT ![c] = "true"]
    /\ UNCHANGED <<g_shared_reactor_built, instance, use>>

\* claim_shared_reactor_threads raises the flag ...
ClaimFlag(u) ==
    /\ use[u] = "start" /\ instance = NotBuilt /\ \A v \in Users : use[v] # "claim"
    /\ g_shared_reactor_built' = TRUE
    /\ use' = [use EXCEPT ![u] = "claim"]
    /\ UNCHANGED <<g_shared_reactor_threads, instance, configure>>

\* ... and reads the thread count the instance is constructed with.
ClaimThreads(u) ==
    /\ use[u] = "claim"
    /\ instance' = g_shared_reactor_threads
    /\ use' = [use EXCEPT ![u] = "built"]
    /\ UNCHANGED <<g_shared_reactor_built, g_shared_reactor_threads, configure>>

UseInstance(u) ==
    /\ use[u] = "start" /\ instance # NotBuilt
    /\ use' = [use EXCEPT ![u] = "built"]
    /\ UNCHANGED <<g_shared_reactor_built, g_shared_reactor_threads, instance, configure>>

Next ==
    \/ \E c \in Callers : ConfigureCheck(c) \/ ConfigureStore(c)
    \/ \E u \in Users : ClaimFlag(u) \/ ClaimThreads(u) \/ UseInstance(u)

Spec == Init /\ [][Next]_vars

\* "A configure call racing with the first use is either honoured or reported, never
\* silently lost": if some configure_shared_reactor returned true, the instance has
\* the thread count of one that did.
HonouredOrReported ==
    instance # NotBuilt /\ (\E c \in Callers : configure[c] = "true") =>
      \E c \in Callers : configure[c] = "true" /\ instance = c
=============================================================================
