--------------------------- MODULE OwnershipWalk ----------------------------
(***************************************************************************)
(* The walk that traces one consumer (assessOwnership,                     *)
(* core/ownership_graph.cpp): a depth-first search with a limit, which     *)
(* remembers the keys it is in and the keys it has left.  The code takes   *)
(* the providers in the order of their keys; here the order is free.       *)
(***************************************************************************)
EXTENDS OwnershipTrace, Naturals, Sequences, SequencesExt

CONSTANTS
    Graphs,         \* the graphs a walk may be in
    DepthLimits     \* the limits on its depth

NoKey == "no key"

\* Every key that is gone on to is named itself.
ASSUME OwnershipWalkAssumption ==
    /\ DepthLimits \subseteq Nat
    /\ \A g \in Graphs :
        /\ IsFiniteSet(DOMAIN g.onward) /\ NoKey \notin DOMAIN g.onward
        /\ \A n \in DOMAIN g.onward : g.onward[n] \subseteq DOMAIN g.onward
        /\ g.nodes \subseteq DOMAIN g.onward

VARIABLES
    graph, start, limit,    \* where the walk is, and from where
    current,                \* the key the walk is called for, if any
    stack,                  \* the calls it is in: [key, left], the last one innermost
    visited, owners,        \* as in the code
    faults,                 \* the keys of trace.reasons
    topology                \* topology_ok

given == <<graph, start, limit>>
found == <<owners, faults, topology>>
walkVars == <<given, current, stack, visited, found>>

active == {stack[i].key : i \in DOMAIN stack}
\* Mutant: one set for the keys the walk is in and those it has left.
RefusedWhenVisited == Len(stack) > limit \/ current \in active \/ current \in visited

Refused == Len(stack) > limit \/ current \in active

Init ==
    /\ graph \in Graphs
    /\ start \in graph.nodes
    /\ limit \in DepthLimits
    /\ current = start
    /\ stack = <<>>
    /\ visited = {} /\ owners = {} /\ faults = {}
    /\ topology = TRUE

\* Too deep, or in a circle.
Refuse ==
    /\ current # NoKey
    /\ Refused
    /\ topology' = FALSE
    /\ faults' = faults \cup {current}
    /\ current' = NoKey
    /\ UNCHANGED <<given, stack, visited, owners>>

Skip ==
    /\ current # NoKey
    /\ ~Refused
    /\ current \in visited
    /\ current' = NoKey
    /\ UNCHANGED <<given, stack, visited, found>>

\* The first look at a key; a key that leads nowhere is left at once.
Visit ==
    /\ current # NoKey
    /\ ~Refused
    /\ current \notin visited
    /\ LET broken == current \in graph.tainted \cup Rootless(graph)
           leads == graph.onward[current] # {}
       IN  /\ topology' = (topology /\ ~broken)
           /\ faults' = IF broken \/ current \in graph.unusable
                        THEN faults \cup {current} ELSE faults
           /\ owners' = owners \cup ({current} \cap graph.physical)
           /\ stack' = IF leads
                       THEN Append(stack, [key |-> current, left |-> graph.onward[current]])
                       ELSE stack
           /\ visited' = IF leads THEN visited ELSE visited \cup {current}
    /\ current' = NoKey
    /\ UNCHANGED given

\* Mutant: the call goes on to the same provider again.
GoOnAgain ==
    /\ current = NoKey
    /\ stack # <<>>
    /\ \E provider \in Last(stack).left : current' = provider
    /\ UNCHANGED <<given, stack, visited, found>>

\* The innermost call goes on to its next provider.
GoOn ==
    /\ current = NoKey
    /\ stack # <<>>
    /\ \E provider \in Last(stack).left :
        /\ current' = provider
        /\ stack' = [stack EXCEPT ![Len(stack)].left = @ \ {provider}]
    /\ UNCHANGED <<given, visited, found>>

Leave ==
    /\ current = NoKey
    /\ stack # <<>>
    /\ Last(stack).left = {}
    /\ visited' = visited \cup {Last(stack).key}
    /\ stack' = Front(stack)
    /\ UNCHANGED <<given, current, found>>

Next == Refuse \/ Skip \/ Visit \/ GoOn \/ Leave

WalkSpec == Init /\ [][Next]_walkVars /\ WF_walkVars(Next)

Done == current = NoKey /\ stack = <<>>

-----------------------------------------------------------------------------
(* PROPERTIES *)

\* The trace does not depend on the order of the walk: unless the limit was in
\* its way, it has found every physical device behind the consumer, reasons if
\* and only if there are any, and a complete topology if and only if there is no
\* circle and no gap (ownership_graph.cpp:225, "cycle results do not depend on
\* traversal order").  Whatever the limit, a topology that the walk finds
\* complete is complete, and what it took for owners are owners.
WalkIsExact ==
    Done =>
        LET trace == Trace(graph, start)
        IN  /\ limit >= Cardinality(DOMAIN graph.onward) =>
                 /\ owners = trace.owners
                 /\ faults \subseteq trace.faults
                 /\ faults = {} <=> trace.faults = {}
                 /\ topology = trace.topology
            /\ owners \subseteq trace.owners
            /\ topology => trace.topology /\ owners = trace.owners

\* A walk ends, in circles too (ownership_graph.cpp:234-240).
WalkEnds == <>Done
=============================================================================
