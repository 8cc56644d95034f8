------------------------------ MODULE SplitNs ------------------------------
(***************************************************************************)
(* enter_split_namespace(): for --split and -G a run makes a macvlan link  *)
(* of a fixed name in the root namespace, leaves for a namespace of its    *)
(* own, takes the link along by its index and configures it.  Runs may     *)
(* overlap, and one may fail or die after any step and leave a link behind *)
(* that the next run has to get rid of.                                    *)
(***************************************************************************)
EXTENDS Integers, FiniteSets

CONSTANTS
    SplitRuns,      \* runs of the program, possibly at the same time
    LinkIds         \* interface indexes

NoLink == 0

VARIABLES
    nsPc,           \* where each run is
    want,           \* address families it is configured for
    rootLink,       \* index of the link of that name in the root namespace
    nsLink,         \* index of the link in the namespace of a run
    mvIdx,          \* mv_idx
    usedIds,        \* indexes handed out: never again in this boot
    addresses, routes, linkUp,   \* configuration in the namespace of a run
    inSplitNs       \* g_in_split_ns

splitVars == <<nsPc, want, rootLink, nsLink, mvIdx, usedIds, addresses, routes, linkUp,
               inSplitNs>>

SplitInit ==
    /\ nsPc = [r \in SplitRuns |-> "validate"]
    /\ want \in [SplitRuns -> {{"v4"}, {"v4", "v6"}}]
    /\ rootLink = NoLink /\ usedIds = {}
    /\ nsLink = [r \in SplitRuns |-> NoLink] /\ mvIdx = [r \in SplitRuns |-> NoLink]
    /\ addresses = [r \in SplitRuns |-> {}] /\ routes = [r \in SplitRuns |-> {}]
    /\ linkUp = {} /\ inSplitNs = {}

Goto(r, l) == nsPc' = [nsPc EXCEPT ![r] = l]
config == <<addresses, routes, linkUp, inSplitNs>>

----------------------------------------------------------------------------
\* The options and the configuration file are checked, the base interface found.
Validate(r) ==
    /\ nsPc[r] = "validate" /\ Goto(r, "delete")
    /\ UNCHANGED <<want, rootLink, nsLink, mvIdx, usedIds, config>>

\* delete_link_if_exists: whatever bears the name in the root namespace.
DeleteLeftover(r) ==
    /\ nsPc[r] = "delete" /\ Goto(r, "create")
    /\ rootLink' = NoLink
    /\ UNCHANGED <<want, nsLink, mvIdx, usedIds, config>>

\* RTM_NEWLINK with NLM_F_EXCL fails if another run was faster.
CreateLink(r) ==
    /\ nsPc[r] = "create"
    /\ IF rootLink # NoLink
         THEN Goto(r, "failed") /\ UNCHANGED <<rootLink, usedIds>>
         ELSE /\ \E i \in LinkIds \ usedIds :
                    rootLink' = i /\ usedIds' = usedIds \cup {i}
              /\ Goto(r, "index")
    /\ UNCHANGED <<want, nsLink, mvIdx, config>>

\* if_nametoindex: the link that bears the name now, if there is one.
FindIndex(r) ==
    /\ nsPc[r] = "index"
    /\ mvIdx' = [mvIdx EXCEPT ![r] = rootLink]
    /\ Goto(r, IF rootLink = NoLink THEN "failed" ELSE "unshare")
    /\ UNCHANGED <<want, rootLink, nsLink, usedIds, config>>

\* unshare(), verified by the inode of /proc/self/ns/net.
Unshare(r) ==
    /\ nsPc[r] = "unshare" /\ Goto(r, "move")
    /\ UNCHANGED <<want, rootLink, nsLink, mvIdx, usedIds, config>>

\* Fault: the answer to the move is not looked at.
MoveLinkUnchecked(r) ==
    /\ nsPc[r] = "move"
    /\ IF rootLink = mvIdx[r]
         THEN rootLink' = NoLink /\ nsLink' = [nsLink EXCEPT ![r] = mvIdx[r]]
         ELSE UNCHANGED <<rootLink, nsLink>>
    /\ Goto(r, "configure")
    /\ UNCHANGED <<want, mvIdx, usedIds, config>>

\* The link of that index is moved, by the socket of the root namespace.
MoveLink(r) ==
    /\ nsPc[r] = "move"
    /\ IF rootLink = mvIdx[r]
         THEN /\ rootLink' = NoLink /\ nsLink' = [nsLink EXCEPT ![r] = mvIdx[r]]
              /\ Goto(r, "configure")
         ELSE Goto(r, "failed") /\ UNCHANGED <<rootLink, nsLink>>
    /\ UNCHANGED <<want, mvIdx, usedIds, config>>

\* lo, the MAC, the addresses, the link up, the default routes: a step fails
\* if the link is not here, and nothing is done after a step that failed.
Configure(r) ==
    /\ nsPc[r] = "configure"
    /\ \/ /\ addresses' = [addresses EXCEPT ![r] = want[r]]
          /\ linkUp' = linkUp \cup {r} /\ Goto(r, "routes")
       \/ /\ \E done \in SUBSET want[r] : addresses' = [addresses EXCEPT ![r] = done]
          /\ Goto(r, "failed") /\ UNCHANGED linkUp
    /\ UNCHANGED <<want, rootLink, nsLink, mvIdx, usedIds, routes, inSplitNs>>

AddRoutes(r) ==
    /\ nsPc[r] = "routes"
    /\ \/ /\ routes' = [routes EXCEPT ![r] = want[r]]
          /\ inSplitNs' = inSplitNs \cup {r} /\ Goto(r, "entered")
       \/ Goto(r, "failed") /\ UNCHANGED <<routes, inSplitNs>>
    /\ UNCHANGED <<want, rootLink, nsLink, mvIdx, usedIds, addresses, linkUp>>

\* A call fails; main() ends the program.
StepFails(r) ==
    /\ nsPc[r] \in {"validate", "delete", "create", "index", "unshare", "move"}
    /\ Goto(r, "failed")
    /\ UNCHANGED <<want, rootLink, nsLink, mvIdx, usedIds, config>>

\* The process ends, as it should or not: its namespace goes, and the link
\* in it; a link that is still in the root namespace stays.
Exit(r) ==
    /\ nsPc[r] # "gone" /\ Goto(r, "gone")
    /\ nsLink' = [nsLink EXCEPT ![r] = NoLink]
    /\ addresses' = [addresses EXCEPT ![r] = {}] /\ routes' = [routes EXCEPT ![r] = {}]
    /\ linkUp' = linkUp \ {r} /\ inSplitNs' = inSplitNs \ {r}
    /\ UNCHANGED <<want, rootLink, mvIdx, usedIds>>

SplitStep(r) == \/ Validate(r) \/ DeleteLeftover(r) \/ CreateLink(r) \/ FindIndex(r)
                \/ Unshare(r) \/ MoveLink(r) \/ Configure(r) \/ AddRoutes(r) \/ Exit(r)
SplitNext == \E r \in SplitRuns : SplitStep(r) \/ StepFails(r)

SplitOver == \A r \in SplitRuns : nsPc[r] = "gone"

----------------------------------------------------------------------------
\* A run that believes it is in its own namespace has a link there that no
\* other run has, up, with an address and a default route for each family it
\* wants, whatever other runs or dead runs did with a link of the same name;
\* and no link outlives its run but the one still in the root namespace.
SplitComplete ==
    /\ \A r \in inSplitNs : /\ nsLink[r] # NoLink /\ r \in linkUp
                            /\ addresses[r] = want[r] /\ routes[r] = want[r]
    /\ \A r, q \in SplitRuns : r # q /\ nsLink[r] # NoLink => nsLink[r] # nsLink[q]
    /\ \A r \in SplitRuns : nsLink[r] # NoLink => nsLink[r] # rootLink /\ nsPc[r] # "gone"
=============================================================================
