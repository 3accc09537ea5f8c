--------------------------- MODULE OwnershipTrace ---------------------------
(***************************************************************************)
(* What backs a consumer (the traces of assessOwnership,                   *)
(* core/ownership_graph.cpp): the physical devices its backing ends in,    *)
(* and what is wrong on the way to them.                                   *)
(*                                                                         *)
(* A graph is a record of                                                  *)
(*   onward    from every key that is named to what the walk goes on to:   *)
(*             its providers, or nothing for a physical endpoint           *)
(*   physical  the physical endpoints                                      *)
(*   tainted   the keys without a node, or whose node is incomplete        *)
(*   unusable  the endpoints without a stable identity or a current path   *)
(*   nodes     the keys that have a node, each of which is traced          *)
(***************************************************************************)
EXTENDS FiniteSets

\* The keys a walk from key comes to: those in every set that has key and, with
\* a key, what the walk goes on to.
Reached(onward, key) ==
    {n \in DOMAIN onward :
        \A S \in SUBSET DOMAIN onward :
            key \in S /\ (\A m \in S : onward[m] \subseteq S) => n \in S}

\* The keys from which a walk can go on for ever.
Circling(onward) ==
    UNION {S \in SUBSET DOMAIN onward : \A m \in S : onward[m] \cap S # {}}

Rootless(graph) ==
    {n \in DOMAIN graph.onward \ graph.physical : graph.onward[n] = {}}

\* What makes the topology of every trace that meets it incomplete.
Broken(graph) == graph.tainted \cup Rootless(graph) \cup Circling(graph.onward)

\* A trace: the owners, the keys it has reasons against, and whether its
\* structure (not the state of its endpoints) is complete.  It is complete when
\* there are no reasons.  The code names one key of a circle, and this all of them.
Trace(graph, key) ==
    LET reached == Reached(graph.onward, key)
    IN  [owners   |-> reached \cap graph.physical,
         faults   |-> reached \cap (Broken(graph) \cup graph.unusable),
         topology |-> reached \cap Broken(graph) = {}]

\* The key is backed by other devices than the owner, and by them alone.
separateOwner(traces, key, owner) ==
    /\ key \in DOMAIN traces
    /\ traces[key].topology
    /\ traces[key].owners # {}
    /\ owner \notin traces[key].owners

\* Mutant: all reasons of a shared consumer count against each owner.
SharedReasons(traces, key, owner) == traces[key].faults

\* The reasons of a consumer that count against one of its owners.
ownerReasons(traces, key, owner) ==
    {n \in traces[key].faults : ~separateOwner(traces, n, owner)}
=============================================================================
