-------------------------- MODULE OwnershipProofs ---------------------------
(***************************************************************************)
(* A READY disk is not used, for every host and whatever honest sources    *)
(* lose or report.  The argument: what was read accounts for every fact    *)
(* (Honest), and stays so (Grows); a consumer of complete topology has     *)
(* all that really backs it among what it reaches (RealBackingIsReached).  *)
(* Then how a verdict depends on the evidence: worse evidence never clears *)
(* a disk, doubt about one disk stays with it, use that is shown is real.  *)
(* Last, that the verdict is exact if nothing is lost.                     *)
(***************************************************************************)
EXTENDS OwnershipCapture, TLAPS, SequenceTheorems

Fields == {"blocks", "nodes", "twice", "edges", "claims", "issues", "gaps", "covered",
           "fresh", "loops", "mounts", "swaps", "discovery"}

\* What the evidence has from the inventory, and the form of its parts.
Known(e, h) ==
    /\ DOMAIN e = Fields
    /\ e.blocks \in [DOMAIN h.blocks -> BlockType]
    /\ \A b \in DOMAIN h.blocks :
        e.blocks[b].role = h.blocks[b].role /\ e.blocks[b].parent = h.blocks[b].parent
    /\ e.loops = h.loops
    /\ NoNode \notin DOMAIN e.nodes
    /\ \A claim \in e.claims : claim.row = 0
    /\ e.mounts \in Seq([id : Nat, node : STRING \cup {NoNode}, harmless : BOOLEAN])
    /\ \A i \in DOMAIN e.mounts : e.mounts[i].id = i /\ ~e.mounts[i].harmless

\* A source has withdrawn its coverage.
Withdrawn(e) ==
    \E s \in Sources \ {"inactive_membership"} : s \notin e.covered /\ Gapless(e, s)

\* A fact is in the evidence, or the evidence says that something is missing.
Accounted(f, e) ==
    /\ f.kind = "backing" =>
        \/ <<f.node, f.provider>> \in e.edges
        \/ \E issue \in e.issues : issue.node = f.node
        \/ f.node \in DOMAIN e.nodes /\ ~e.nodes[f.node]
    /\ f.kind = "use" =>
        \/ \E claim \in e.claims : claim.consumer = f.node
        \/ \E i \in DOMAIN e.mounts : e.mounts[i].node \in {f.node, NoNode}
        \/ \E n \in e.swaps : n \in {f.node, NoNode}
        \/ \E gap \in e.gaps : gap.node \in {f.node, NoNode}
        \/ Withdrawn(e)

\* No probe says that a member is none.
ProbesAreHonest(e, h) ==
    \A f \in Range(h.facts) :
        f.kind = "signature" /\ f.member /\ f.node \in DOMAIN e.fresh =>
            e.fresh[f.node] \notin {"None", "Filesystem"}

-----------------------------------------------------------------------------
(* What is reached. *)

\* Reached has the key and, with each of its keys, what the walk goes on to.
LEMMA ReachedIsClosed ==
    ASSUME NEW onward, NEW key \in DOMAIN onward,
           \A m \in DOMAIN onward : onward[m] \subseteq DOMAIN onward
    PROVE  /\ key \in Reached(onward, key)
           /\ Reached(onward, key) \subseteq DOMAIN onward
           /\ \A m \in Reached(onward, key) : onward[m] \subseteq Reached(onward, key)
  <1>1. key \in Reached(onward, key) /\ Reached(onward, key) \subseteq DOMAIN onward
    BY DEF Reached
  <1>2. ASSUME NEW m \in Reached(onward, key), NEW n \in onward[m]
        PROVE  n \in Reached(onward, key)
    <2>1. n \in DOMAIN onward
      BY <1>1
    <2>2. ASSUME NEW S \in SUBSET DOMAIN onward, key \in S, \A k \in S : onward[k] \subseteq S
          PROVE  n \in S
      <3>1. m \in S
        BY <2>2 DEF Reached
      <3> QED
        BY <3>1, <2>2
    <2> QED
      BY <2>1, <2>2 DEF Reached
  <1> QED
    BY <1>1, <1>2

\* Nothing else is reached.
LEMMA ReachedIsLeast ==
    ASSUME NEW onward, NEW key, NEW S \in SUBSET DOMAIN onward,
           key \in S, \A m \in S : onward[m] \subseteq S
    PROVE  Reached(onward, key) \subseteq S
  BY DEF Reached

-----------------------------------------------------------------------------
(* The verdict. *)

\* The graph of the evidence is closed, and its physical keys are nodes.
LEMMA GraphIsClosed ==
    ASSUME NEW e
    PROVE  /\ Graph(e).nodes = Nodes(e) /\ Graph(e).physical = physical(e)
           /\ Nodes(e) \subseteq DOMAIN Graph(e).onward
           /\ \A m \in DOMAIN Graph(e).onward :
                /\ Graph(e).onward[m] \subseteq DOMAIN Graph(e).onward
                /\ Graph(e).onward[m] = IF m \in physical(e) THEN {} ELSE parents(e, m)
                /\ m \notin Graph(e).tainted => m \in Nodes(e) /\ m \notin Incomplete(e)
  <1> DEFINE keys == Nodes(e) \cup UNION {{edge[1], edge[2]} : edge \in Edges(e)}
  <1>1. Graph(e).onward = [n \in keys |-> IF n \in physical(e) THEN {} ELSE parents(e, n)]
    BY DEF Graph
  <1>2. Graph(e).tainted = (keys \ Nodes(e)) \cup (keys \cap Incomplete(e))
    BY DEF Graph
  <1>3. \A m : parents(e, m) \subseteq keys
    BY DEF parents
  <1>4. Graph(e).nodes = Nodes(e) /\ Graph(e).physical = physical(e)
    BY DEF Graph
  <1> HIDE DEF keys
  <1>5. Nodes(e) \subseteq keys
    BY DEF keys
  <1> QED
    BY <1>1, <1>2, <1>3, <1>4, <1>5

\* Of a key that is not tainted, whatever really backs it is among its parents.
LEMMA BackingIsKnown ==
    ASSUME NEW h, NEW e, HostAssumption(h), Known(e, h),
           \A f \in Range(h.facts) : Accounted(f, e),
           NEW m \in DOMAIN RealBacking(h), NEW p \in RealBacking(h)[m],
           m \notin Incomplete(e)
    PROVE  m \notin physical(e) /\ p \in parents(e, m)
  <1>1. \/ \E f \in Backing(h.facts) : f.node = m /\ f.provider = p
        \/ m \in DOMAIN h.blocks /\ h.blocks[m].role = "Partition" /\ p = h.blocks[m].parent
    BY DEF RealBacking
  <1>2. DOMAIN e.blocks = DOMAIN h.blocks
    BY DEF Known
  <1>3. CASE \E f \in Backing(h.facts) : f.node = m /\ f.provider = p
    <2>1. PICK f \in Backing(h.facts) : f.node = m /\ f.provider = p
      BY <1>3
    <2>2. f \in Range(h.facts) /\ f.kind = "backing"
      BY DEF Backing
    <2>3. ~(m \in DOMAIN h.blocks /\ h.blocks[m].role = "Disk")
      BY <2>1 DEF HostAssumption
    <2>4. m \notin physical(e)
      BY <2>3, <1>2 DEF physical, Known
    <2>5. \A issue \in e.issues : issue.node # m
      BY DEF Incomplete, Issues
    <2>6. ~(m \in DOMAIN e.nodes /\ ~e.nodes[m])
      BY DEF Incomplete
    <2>7. <<m, p>> \in e.edges
      BY <2>1, <2>2, <2>5, <2>6 DEF Accounted
    <2> QED
      BY <2>4, <2>7 DEF parents, Edges
  <1>4. CASE m \in DOMAIN h.blocks /\ h.blocks[m].role = "Partition" /\ p = h.blocks[m].parent
    <2>1. e.blocks[m].role = "Partition" /\ p = e.blocks[m].parent
      BY <1>4 DEF Known
    <2>2. m \in Partitions(e) /\ m \notin physical(e)
      BY <1>2, <1>4, <2>1 DEF Partitions, physical
    <2>3. OnDisk(e, m)
      <3> SUFFICES ASSUME ~OnDisk(e, m)
                   PROVE  FALSE
        OBVIOUS
      <3>1. [node |-> m, source |-> "graph"] \in Issues(e)
        BY <2>2 DEF Issues
      <3> QED
        BY <3>1 DEF Incomplete
    <2>4. <<m, p>> \in Edges(e)
      BY <2>1, <2>2, <2>3 DEF Edges
    <2> QED
      BY <2>2, <2>4 DEF parents
  <1> QED
    BY <1>1, <1>3, <1>4

\* Whatever really backs a consumer of complete topology is reached from it.
LEMMA RealBackingIsReached ==
    ASSUME NEW h, NEW e, HostAssumption(h), Known(e, h),
           \A f \in Range(h.facts) : Accounted(f, e),
           NEW n \in Nodes(e), Traces(e)[n].topology, n \in DOMAIN RealBacking(h)
    PROVE  Reached(RealBacking(h), n) \subseteq Reached(Graph(e).onward, n)
  <1> DEFINE real == RealBacking(h)
             graph == Graph(e)
             reached == Reached(graph.onward, n)
             S == reached \cap DOMAIN real
  <1>1. /\ n \in DOMAIN graph.onward
        /\ \A m \in DOMAIN graph.onward : graph.onward[m] \subseteq DOMAIN graph.onward
    BY GraphIsClosed
  <1>2. /\ n \in reached
        /\ reached \subseteq DOMAIN graph.onward
        /\ \A m \in reached : graph.onward[m] \subseteq reached
    BY <1>1, ReachedIsClosed
  <1>3. reached \cap graph.tainted = {}
    <2>1. Traces(e)[n] = Trace(graph, n)
      BY GraphIsClosed DEF Traces
    <2>2. Trace(graph, n).topology = (reached \cap Broken(graph) = {})
      BY DEF Trace
    <2> QED
      BY <2>1, <2>2 DEF Broken
  <1>4. \A m \in DOMAIN real : real[m] \subseteq DOMAIN real
    <2> DEFINE pairs == {<<f.node, f.provider>> : f \in Backing(h.facts)}
                          \cup {<<p, h.blocks[p].parent>> :
                                   p \in {b \in DOMAIN h.blocks : h.blocks[b].role = "Partition"}}
               keys == DOMAIN h.blocks \cup {f.node : f \in Used(h.facts)}
                          \cup UNION {{pair[1], pair[2]} : pair \in pairs}
    <2>1. real = [m \in keys |-> {pair[2] : pair \in {q \in pairs : q[1] = m}}]
      BY DEF RealBacking
    <2>2. \A pair \in pairs : pair[2] \in keys
      OBVIOUS
    <2> HIDE DEF pairs, keys, real
    <2> QED
      BY <2>1, <2>2
  <1>5. ASSUME NEW m \in S, NEW p \in real[m]
        PROVE  p \in S
    <2>1. m \in DOMAIN graph.onward /\ m \notin graph.tainted
      BY <1>2, <1>3
    <2>2. m \notin Incomplete(e) /\ graph.onward[m] = IF m \in physical(e) THEN {} ELSE parents(e, m)
      BY <2>1, GraphIsClosed, SMTT(20)
    <2>3. m \notin physical(e) /\ p \in parents(e, m)
      BY <2>2, BackingIsKnown
    <2>4. p \in reached
      BY <1>2, <2>2, <2>3
    <2> QED
      BY <2>4, <1>4
  <1>6. n \in S /\ S \in SUBSET DOMAIN real
    BY <1>2
  <1>7. Reached(real, n) \subseteq S
    <2>1. \A m \in S : real[m] \subseteq S
      BY <1>5
    <2> HIDE DEF S, real
    <2> QED
      BY <1>6, <2>1, ReachedIsLeast
  <1> QED
    BY <1>7

\* A disk is among the owners of each consumer of complete topology that it backs.
LEMMA BackingDisksAreOwners ==
    ASSUME NEW h, NEW e, HostAssumption(h), Known(e, h),
           \A f \in Range(h.facts) : Accounted(f, e),
           NEW n \in Nodes(e), Traces(e)[n].topology, n \in DOMAIN RealBacking(h),
           NEW d \in physical(e), ReallyBacks(h, d, n)
    PROVE  d \in Traces(e)[n].owners
  <1>1. d \in Reached(Graph(e).onward, n)
    BY RealBackingIsReached DEF ReallyBacks
  <1>2. Traces(e)[n] = Trace(Graph(e), n)
    BY GraphIsClosed DEF Traces
  <1> QED
    BY <1>1, <1>2, GraphIsClosed DEF Trace

\* What a READY verdict requires.
LEMMA ReadyRequires ==
    ASSUME NEW e, NEW t, NEW d, Status(e, t, d) = "Ready"
    PROVE  /\ ~local_unknown(e, t, d) /\ ClaimsOn(e, t, d) = {}
           /\ coverage_complete(e, t, d)
           /\ ~unknown_usage(e, t)
           /\ signatures_complete(e, t, d)
           /\ clean(e, d) /\ e.blocks[d].scope = "WholeDevice"
  <1>1. ~local_unknown(e, t, d)
    BY DEF Status
  <1>2. ~(\/ e.blocks[d].readOnly = "yes"
          \/ \E claim \in ClaimsOn(e, t, d) : protects(claim.use))
    BY <1>1 DEF Status
  <1>3. ClaimsOn(e, t, d) = {}
    BY <1>1, <1>2 DEF Status
  <1> QED
    BY <1>1, <1>2, <1>3 DEF Status

\* No disk is READY that really backs a claimed consumer.
LEMMA ClaimedIsNotReady ==
    ASSUME NEW h, NEW e, HostAssumption(h), Known(e, h),
           \A f \in Range(h.facts) : Accounted(f, e),
           NEW d \in physical(e), Status(e, Traces(e), d) = "Ready",
           NEW claim \in Claims(e), claim.consumer \in DOMAIN RealBacking(h)
    PROVE  ~ReallyBacks(h, d, claim.consumer)
  <1> SUFFICES ASSUME ReallyBacks(h, d, claim.consumer)
               PROVE  FALSE
    OBVIOUS
  <1>1. claim.consumer \in DOMAIN Traces(e) /\ Traces(e)[claim.consumer].topology
    BY ReadyRequires DEF unknown_usage
  <1>2. claim.consumer \in Nodes(e)
    BY <1>1, GraphIsClosed DEF Traces
  <1>3. d \in Traces(e)[claim.consumer].owners
    BY <1>1, <1>2, BackingDisksAreOwners
  <1> QED
    BY <1>1, <1>3, ReadyRequires DEF ClaimsOn

\* No disk is READY on honest evidence that really backs a used consumer.
LEMMA UsedIsNotReady ==
    ASSUME NEW h, NEW e, HostAssumption(h), Known(e, h),
           \A f \in Range(h.facts) : Accounted(f, e),
           NEW d \in physical(e), Status(e, Traces(e), d) = "Ready",
           NEW f \in Range(h.facts), f.kind = "use"
    PROVE  ~ReallyBacks(h, d, f.node)
  <1> SUFFICES ASSUME ReallyBacks(h, d, f.node)
               PROVE  FALSE
    OBVIOUS
  <1> DEFINE t == Traces(e)
  <1>1. f.node \in DOMAIN RealBacking(h)
    <2>1. f \in Used(h.facts)
      BY DEF Used
    <2> QED
      BY <2>1 DEF RealBacking
  <1>2. DOMAIN t = Nodes(e) /\ NoNode \notin DOMAIN t
    BY GraphIsClosed DEF Traces, Nodes, Known, HostAssumption
  <1>3. \A claim \in Claims(e) : claim.consumer # f.node
    BY <1>1, ClaimedIsNotReady
  <1>4. CASE \E claim \in e.claims : claim.consumer = f.node
    BY <1>3, <1>4 DEF Claims
  <1>5. CASE \E i \in DOMAIN e.mounts : e.mounts[i].node \in {f.node, NoNode}
    <2>1. PICK i \in DOMAIN e.mounts : e.mounts[i].node \in {f.node, NoNode}
      BY <1>5
    <2>2. CASE e.mounts[i].node = f.node /\ f.node # NoNode
      <3>1. [consumer |-> f.node, use |-> "Mounted", row |-> e.mounts[i].id] \in Claims(e)
        BY <2>2 DEF Claims, MountClaims
      <3> QED
        BY <3>1, <1>3
    <2>3. CASE e.mounts[i].node = NoNode
      <3>1. DOMAIN e.mounts = 1..Len(e.mounts) /\ Len(e.mounts) \in Nat
        BY LenProperties DEF Known
      <3>2. \A claim \in e.claims \cup MembershipClaims(e) : claim.row = 0
        BY DEF Known, MembershipClaims
      <3>3. e.mounts[i].id = i /\ ~e.mounts[i].harmless
        BY DEF Known
      <3>4. \A j \in 1..(i - 1) : j \in DOMAIN e.mounts /\ e.mounts[j].id = j /\ j # i
        BY <3>1 DEF Known
      <3>5. Unattributed(e, i)
        BY <2>3, <3>1, <3>2, <3>3, <3>4 DEF Unattributed
      <3> QED
        BY <3>5, ReadyRequires DEF unknown_usage
    <2> QED
      BY <2>1, <2>2, <2>3
  <1>6. CASE \E n \in e.swaps : n \in {f.node, NoNode}
    <2>1. NoNode \notin e.swaps
      BY ReadyRequires DEF unknown_usage
    <2>2. f.node \in e.swaps \ {NoNode}
      BY <1>6, <2>1
    <2>3. [consumer |-> f.node, use |-> "Swap", row |-> 0] \in Claims(e)
      BY <2>2 DEF Claims, SwapClaims
    <2> QED
      BY <2>3, <1>3
  <1>7. CASE \E gap \in e.gaps : gap.node \in {f.node, NoNode}
    <2>1. PICK gap \in e.gaps : gap.node \in {f.node, NoNode}
      BY <1>7
    <2>2. separateOwner(t, gap.node, d)
      BY ReadyRequires DEF coverage_complete
    <2>3. gap.node = f.node /\ f.node \in Nodes(e) /\ t[f.node].topology
      BY <2>1, <2>2, <1>2 DEF separateOwner
    <2>4. d \in t[f.node].owners
      BY <2>3, <1>1, BackingDisksAreOwners
    <2> QED
      BY <2>2, <2>3, <2>4 DEF separateOwner
  <1>8. CASE Withdrawn(e)
    BY <1>8, ReadyRequires DEF Withdrawn, Gapless, coverage_complete, host_coverage
  <1> QED
    BY <1>4, <1>5, <1>6, <1>7, <1>8 DEF Accounted

\* No disk is READY on honest evidence that really backs an inactive member.
LEMMA MemberIsNotReady ==
    ASSUME NEW h, NEW e, HostAssumption(h), Known(e, h), ProbesAreHonest(e, h),
           \A f \in Range(h.facts) : Accounted(f, e),
           NEW d \in physical(e), Status(e, Traces(e), d) = "Ready",
           NEW f \in Range(h.facts), f.kind = "signature", f.member
    PROVE  ~ReallyBacks(h, d, f.node)
  <1> SUFFICES ASSUME ReallyBacks(h, d, f.node)
               PROVE  FALSE
    OBVIOUS
  <1>1. f.node \in DOMAIN e.blocks /\ f.node \in Nodes(e)
    BY DEF HostAssumption, Known, Nodes
  <1>2. f.node \in DOMAIN RealBacking(h)
    BY <1>1 DEF Known, RealBacking
  <1>3. DOMAIN Traces(e) = Nodes(e) /\ f.node \notin e.loops
    BY GraphIsClosed DEF Traces, Known, HostAssumption
  <1>4. Traces(e)[f.node].topology
    BY <1>1, <1>3, ReadyRequires DEF unknown_usage
  <1>5. d \in Traces(e)[f.node].owners
    BY <1>1, <1>2, <1>4, BackingDisksAreOwners
  <1>6. f.node \in DOMAIN e.fresh /\ e.fresh[f.node] \in {"None", "Filesystem"}
    BY <1>1, <1>5, ReadyRequires DEF signatures_complete
  <1> QED
    BY <1>6 DEF ProbesAreHonest

-----------------------------------------------------------------------------
(* Reading. *)

\* Whatever happens, evidence only grows, and lists of gaps stay exhaustive.
Grows(e, g) ==
    /\ e.edges \subseteq g.edges /\ e.issues \subseteq g.issues
    /\ e.claims \subseteq g.claims /\ e.gaps \subseteq g.gaps
    /\ e.swaps \subseteq g.swaps /\ g.covered \subseteq e.covered
    /\ \A n \in DOMAIN e.nodes : ~e.nodes[n] => n \in DOMAIN g.nodes /\ ~g.nodes[n]
    /\ \A i \in DOMAIN e.mounts : i \in DOMAIN g.mounts /\ g.mounts[i] = e.mounts[i]
    /\ \A s : s \notin e.covered /\ Gapless(e, s) => Gapless(g, s)

\* What is accounted for stays accounted for.
LEMMA AccountedStays ==
    ASSUME NEW e, NEW g, NEW f, Accounted(f, e), Grows(e, g)
    PROVE  Accounted(f, g)
  <1>1. Withdrawn(e) => Withdrawn(g)
    BY DEF Withdrawn, Grows
  <1>2. ASSUME f.kind = "backing"
        PROVE  \/ <<f.node, f.provider>> \in g.edges
               \/ \E issue \in g.issues : issue.node = f.node
               \/ f.node \in DOMAIN g.nodes /\ ~g.nodes[f.node]
    BY <1>2 DEF Accounted, Grows
  <1>3. ASSUME f.kind = "use"
        PROVE  \/ \E claim \in g.claims : claim.consumer = f.node
               \/ \E i \in DOMAIN g.mounts : g.mounts[i].node \in {f.node, NoNode}
               \/ \E n \in g.swaps : n \in {f.node, NoNode}
               \/ \E gap \in g.gaps : gap.node \in {f.node, NoNode}
               \/ Withdrawn(g)
    <2>1. CASE \E i \in DOMAIN e.mounts : e.mounts[i].node \in {f.node, NoNode}
      BY <2>1 DEF Grows
    <2>2. CASE ~\E i \in DOMAIN e.mounts : e.mounts[i].node \in {f.node, NoNode}
      BY <1>1, <1>3, <2>2 DEF Accounted, Grows
    <2> QED
      BY <2>1, <2>2
  <1> QED
    BY <1>2, <1>3 DEF Accounted

\* What a step makes of the evidence.
Extends(g, e, h) == Known(g, h) /\ ProbesAreHonest(g, h) /\ Grows(e, g)

LEMMA ExtendsTwice ==
    ASSUME NEW e, NEW f, NEW g, NEW h, Extends(f, e, h), Extends(g, f, h)
    PROVE  Extends(g, e, h)
  BY DEF Extends, Grows

\* Most reports change one field of the evidence, and nothing that Known is about.
LEMMA OneMore ==
    ASSUME NEW e, NEW h, Known(e, h), ProbesAreHonest(e, h), NEW X
    PROVE  /\ Extends([e EXCEPT !.edges = @ \cup X], e, h)
           /\ Extends([e EXCEPT !.issues = @ \cup X], e, h)
           /\ Extends([e EXCEPT !.swaps = @ \cup X], e, h)
           /\ Extends([e EXCEPT !.discovery = @ \cup X], e, h)
           /\ Extends([e EXCEPT !.twice = @ \cup X], e, h)
           /\ Extends([e EXCEPT !.covered = @ \ X], e, h)
           /\ (\A claim \in X : claim.row = 0) => Extends([e EXCEPT !.claims = @ \cup X], e, h)
           /\ (\A gap \in X : MayListGaps(e, gap.source)) =>
                /\ Extends([e EXCEPT !.gaps = @ \cup X], e, h)
                /\ \A Y : Extends([e EXCEPT !.covered = @ \ Y, !.gaps = @ \cup X], e, h)
  <1> USE DEF Extends, Grows, Known, ProbesAreHonest, Fields, Gapless
  <1>1. Extends([e EXCEPT !.edges = @ \cup X], e, h)
    OBVIOUS
  <1>2. Extends([e EXCEPT !.issues = @ \cup X], e, h)
    OBVIOUS
  <1>3. Extends([e EXCEPT !.swaps = @ \cup X], e, h)
    OBVIOUS
  <1>4. Extends([e EXCEPT !.discovery = @ \cup X], e, h)
    OBVIOUS
  <1>5. Extends([e EXCEPT !.twice = @ \cup X], e, h)
    OBVIOUS
  <1>6. Extends([e EXCEPT !.covered = @ \ X], e, h)
    OBVIOUS
  <1>7. (\A claim \in X : claim.row = 0) => Extends([e EXCEPT !.claims = @ \cup X], e, h)
    OBVIOUS
  <1>8. ASSUME \A gap \in X : MayListGaps(e, gap.source)
        PROVE  /\ Extends([e EXCEPT !.gaps = @ \cup X], e, h)
               /\ \A Y : Extends([e EXCEPT !.covered = @ \ Y, !.gaps = @ \cup X], e, h)
    <2>1. ASSUME NEW g, Known(g, h), ProbesAreHonest(g, h), g.gaps = e.gaps \cup X,
                 g.covered \subseteq e.covered, g.edges = e.edges, g.issues = e.issues,
                 g.claims = e.claims, g.swaps = e.swaps, g.nodes = e.nodes, g.mounts = e.mounts
          PROVE  Extends(g, e, h)
      <3>1. \A s : s \notin e.covered /\ Gapless(e, s) => Gapless(g, s)
        BY <1>8, <2>1 DEF MayListGaps
      <3> QED
        BY <2>1, <3>1
    <2> HIDE DEF Extends, Grows, Gapless
    <2>2. Extends([e EXCEPT !.gaps = @ \cup X], e, h)
      <3> DEFINE g == [e EXCEPT !.gaps = @ \cup X]
      <3>1. Known(g, h) /\ ProbesAreHonest(g, h) /\ g.gaps = e.gaps \cup X
        OBVIOUS
      <3>2. /\ g.covered = e.covered /\ g.edges = e.edges /\ g.issues = e.issues
            /\ g.claims = e.claims /\ g.swaps = e.swaps /\ g.nodes = e.nodes
            /\ g.mounts = e.mounts
        OBVIOUS
      <3>3. Extends(g, e, h)
        <4> HIDE DEF g, Known, ProbesAreHonest
        <4> QED
          BY <2>1, <3>1, <3>2
      <3> QED
        BY <3>3
    <2>3. ASSUME NEW Y
          PROVE  Extends([e EXCEPT !.covered = @ \ Y, !.gaps = @ \cup X], e, h)
      <3> DEFINE g == [e EXCEPT !.covered = @ \ Y, !.gaps = @ \cup X]
      <3>1. Known(g, h) /\ ProbesAreHonest(g, h) /\ g.gaps = e.gaps \cup X
        OBVIOUS
      <3>2. /\ g.covered = e.covered \ Y /\ g.edges = e.edges /\ g.issues = e.issues
            /\ g.claims = e.claims /\ g.swaps = e.swaps /\ g.nodes = e.nodes
            /\ g.mounts = e.mounts
        OBVIOUS
      <3>3. Extends(g, e, h)
        <4> HIDE DEF g, Known, ProbesAreHonest
        <4> QED
          BY <2>1, <3>1, <3>2
      <3> QED
        BY <3>3
    <2> QED
      BY <2>2, <2>3
  <1> QED
    BY <1>1, <1>2, <1>3, <1>4, <1>5, <1>6, <1>7, <1>8

\* Reporting a node keeps what is known, and a node that is incomplete stays so.
LEMMA NodesGrow ==
    ASSUME NEW e, NEW h, Known(e, h), ProbesAreHonest(e, h), NEW n \in STRING \ {NoNode},
           NEW complete \in BOOLEAN
    PROVE  /\ Extends(WithNode(e, n, complete), e, h)
           /\ WithNode(e, n, complete).edges = e.edges
           /\ n \notin DOMAIN e.blocks /\ ~complete =>
                n \in DOMAIN WithNode(e, n, complete).nodes /\ ~WithNode(e, n, complete).nodes[n]
  <1>1. CASE n \in DOMAIN e.blocks
    BY <1>1 DEF WithNode, Extends, Grows
  <1>2. CASE n \notin DOMAIN e.blocks
    BY <1>2 DEF WithNode, Extends, Grows, Known, ProbesAreHonest, Fields, Gapless
  <1> QED
    BY <1>1, <1>2

\* Recording a probe keeps what is known, if it does not deny a membership.
LEMMA ProbesGrow ==
    ASSUME NEW e, NEW h, HostAssumption(h), Known(e, h), ProbesAreHonest(e, h),
           NEW f \in Range(h.facts), f.kind = "signature", NEW state,
           f.member => state \notin {"None", "Filesystem"}
    PROVE  Extends(WithSignature(e, f.node, state), e, h)
  <1> DEFINE g == WithSignature(e, f.node, state)
  <1>1. Known(g, h) /\ Grows(e, g)
    BY DEF WithSignature, Known, Grows, Fields, Gapless
  <1>2. ASSUME NEW k \in Range(h.facts), k.kind = "signature", k.member,
               k.node \in DOMAIN g.fresh
        PROVE  g.fresh[k.node] \notin {"None", "Filesystem"}
    <2>1. g.fresh = [c \in DOMAIN e.fresh \cup {f.node} |-> IF c = f.node THEN state ELSE e.fresh[c]]
      BY DEF WithSignature, Known, Fields
    <2>2. CASE k.node = f.node
      BY <1>2, <2>1, <2>2 DEF HostAssumption
    <2>3. CASE k.node # f.node
      BY <1>2, <2>1, <2>3 DEF ProbesAreHonest
    <2> QED
      BY <2>2, <2>3
  <1> QED
    BY <1>1, <1>2 DEF Extends, ProbesAreHonest

LEMMA Appended ==
    ASSUME NEW S, NEW s \in Seq(S), NEW x \in S
    PROVE  /\ Append(s, x) \in Seq(S)
           /\ DOMAIN Append(s, x) = 1..(Len(s) + 1) /\ DOMAIN s = 1..Len(s)
           /\ \A i \in DOMAIN s : Append(s, x)[i] = s[i]
           /\ Append(s, x)[Len(s) + 1] = x
  OBVIOUS

\* A row of mountinfo changes no earlier row.
LEMMA MountsGrow ==
    ASSUME NEW e, NEW h, Known(e, h), ProbesAreHonest(e, h), NEW n \in STRING \cup {NoNode}
    PROVE  /\ Extends(WithMount(e, n), e, h)
           /\ \E i \in DOMAIN WithMount(e, n).mounts : WithMount(e, n).mounts[i].node = n
  <1> DEFINE g == WithMount(e, n)
             Row == [id : Nat, node : STRING \cup {NoNode}, harmless : BOOLEAN]
             row == [id |-> Len(e.mounts) + 1, node |-> n, harmless |-> FALSE]
  <1>1. e.mounts \in Seq(Row) /\ Len(e.mounts) \in Nat
    BY LenProperties DEF Known
  <1>2. row \in Row
    BY <1>1
  <1>3. g.mounts = Append(e.mounts, row)
    BY DEF WithMount, Known, Fields
  <1> HIDE DEF Row
  <1>4. /\ g.mounts \in Seq(Row)
        /\ DOMAIN g.mounts = 1..(Len(e.mounts) + 1) /\ DOMAIN e.mounts = 1..Len(e.mounts)
        /\ \A i \in DOMAIN e.mounts : g.mounts[i] = e.mounts[i]
        /\ g.mounts[Len(e.mounts) + 1] = row
    <2> DEFINE rows == e.mounts
    <2> HIDE DEF rows, row, g
    <2>1. g.mounts = Append(rows, row) /\ rows \in Seq(Row) /\ row \in Row
      BY <1>1, <1>2, <1>3 DEF rows
    <2>2. /\ Append(rows, row) \in Seq(Row)
          /\ DOMAIN Append(rows, row) = 1..(Len(rows) + 1) /\ DOMAIN rows = 1..Len(rows)
          /\ \A i \in DOMAIN rows : Append(rows, row)[i] = rows[i]
          /\ Append(rows, row)[Len(rows) + 1] = row
      BY <2>1, Appended
    <2> QED
      BY <2>1, <2>2 DEF rows
  <1>5. \A i \in DOMAIN g.mounts : g.mounts[i].id = i /\ ~g.mounts[i].harmless
    <2>1. \A i \in DOMAIN e.mounts : e.mounts[i].id = i /\ ~e.mounts[i].harmless
      BY DEF Known
    <2>2. row.id = Len(e.mounts) + 1 /\ ~row.harmless
      OBVIOUS
    <2>3. \A i \in 1..(Len(e.mounts) + 1) : i \in 1..Len(e.mounts) \/ i = Len(e.mounts) + 1
      BY <1>1
    <2> HIDE DEF row, g
    <2> QED
      BY <1>4, <2>1, <2>2, <2>3
  <1>6. /\ DOMAIN g = Fields
        /\ \A field \in Fields \ {"mounts"} : g[field] = e[field]
    BY DEF WithMount, Known, Fields
  <1>7. /\ g.blocks = e.blocks /\ g.nodes = e.nodes /\ g.edges = e.edges
        /\ g.claims = e.claims /\ g.issues = e.issues /\ g.gaps = e.gaps
        /\ g.covered = e.covered /\ g.fresh = e.fresh /\ g.loops = e.loops
        /\ g.swaps = e.swaps
    BY DEF WithMount, Known, Fields
  <1>8. Known(g, h)
    BY <1>4, <1>5, <1>6, <1>7 DEF Known, Row
  <1>9. ProbesAreHonest(g, h)
    BY <1>7 DEF ProbesAreHonest
  <1>10. Grows(e, g)
    BY <1>1, <1>4, <1>7 DEF Grows, Gapless
  <1> QED
    BY <1>1, <1>4, <1>8, <1>9, <1>10 DEF Extends

\* The inventory may know less, or worse, of a block device, but not of its place.
LEMMA BlocksStay ==
    ASSUME NEW e, NEW h, Known(e, h), ProbesAreHonest(e, h), NEW b \in DOMAIN e.blocks
    PROVE  /\ \A v \in {"WholeDevice", "NvmeNamespace"} :
                Extends([e EXCEPT !.blocks[b].scope = v], e, h)
           /\ \A v \in {"yes", "no", "unknown"} :
                Extends([e EXCEPT !.blocks[b].readOnly = v], e, h)
           /\ \A v \in SUBSET {"observation", "signature", "other"} :
                Extends([e EXCEPT !.blocks[b].issues = v], e, h)
           /\ \A v \in BOOLEAN :
                /\ Extends([e EXCEPT !.blocks[b].sized = v], e, h)
                /\ Extends([e EXCEPT !.blocks[b].reciprocal = v], e, h)
                /\ Extends([e EXCEPT !.blocks[b].resolved = v], e, h)
                /\ Extends([e EXCEPT !.blocks[b].path = v], e, h)
  <1>1. ASSUME NEW block \in BlockType,
               block.role = e.blocks[b].role, block.parent = e.blocks[b].parent
        PROVE  Extends([e EXCEPT !.blocks[b] = block], e, h)
    BY <1>1 DEF Extends, Known, Grows, ProbesAreHonest, Fields, Gapless
  <1>2. e.blocks[b] \in BlockType
    BY DEF Known
  <1>3. /\ \A v \in {"WholeDevice", "NvmeNamespace"} :
            Extends([e EXCEPT !.blocks[b].scope = v], e, h)
        /\ \A v \in {"yes", "no", "unknown"} :
            Extends([e EXCEPT !.blocks[b].readOnly = v], e, h)
        /\ \A v \in SUBSET {"observation", "signature", "other"} :
            Extends([e EXCEPT !.blocks[b].issues = v], e, h)
    BY <1>1, <1>2 DEF BlockType
  <1>4. \A v \in BOOLEAN :
            /\ Extends([e EXCEPT !.blocks[b].sized = v], e, h)
            /\ Extends([e EXCEPT !.blocks[b].reciprocal = v], e, h)
            /\ Extends([e EXCEPT !.blocks[b].resolved = v], e, h)
            /\ Extends([e EXCEPT !.blocks[b].path = v], e, h)
    BY <1>1, <1>2 DEF BlockType
  <1> QED
    BY <1>3, <1>4

-----------------------------------------------------------------------------
(* The invariant: every fact is still to be read or accounted for. *)

HonestInv ==
    /\ host \in Hosts
    /\ unread \in Seq(Range(host.facts))
    /\ Known(evidence, host) /\ ProbesAreHonest(evidence, host)
    /\ traces = Traces(evidence)
    /\ verdicts = Verdicts(evidence, traces)
    /\ \A f \in Range(host.facts) : f \in Range(unread) \/ Accounted(f, evidence)

\* Every way to read or to lose a fact extends the evidence and accounts for it.
LEMMA FactsAreAccounted ==
    ASSUME HonestInv, NEW f \in Range(host.facts),
           \/ ReadBacking(f) \/ ReadUse(f) \/ ReadSignature(f)
           \/ LoseBacking(f) \/ LoseUse(f) \/ LoseSignature(f)
    PROVE  /\ Extends(evidence', evidence, host)
           /\ Accounted(f, evidence')
           /\ traces' = Traces(evidence') /\ verdicts' = Verdicts(evidence', traces')
  <1> DEFINE e == evidence
             Goal == Extends(evidence', e, host) /\ Accounted(f, evidence')
             Assessed == traces' = Traces(evidence') /\ verdicts' = Verdicts(evidence', traces')
  <1>1. /\ HostAssumption(host) /\ Known(e, host) /\ ProbesAreHonest(e, host)
        /\ f.node \in STRING \ {NoNode}
        /\ f.kind = "backing" => f.provider \in STRING \ {NoNode}
    BY OwnershipCaptureAssumption DEF HonestInv, HostAssumption, Backing
  <1>2. CASE ReadBacking(f)
    <2> DEFINE e1 == [e EXCEPT !.edges = @ \cup {<<f.node, f.provider>>}]
               e2 == WithNode(e1, f.node, TRUE)
               e3 == WithNode(e2, f.provider, TRUE)
    <2>1. f.kind = "backing" /\ evidence' = e3 /\ Assessed
      BY <1>2 DEF ReadBacking, Assess
    <2>2. Extends(e1, e, host)
      BY <1>1, OneMore
    <2>3. <<f.node, f.provider>> \in e1.edges
      BY <1>1 DEF Known, Fields
    <2> HIDE DEF e1
    <2>4. Extends(e2, e1, host) /\ e2.edges = e1.edges
      BY <1>1, <2>2, NodesGrow DEF Extends
    <2> HIDE DEF e2
    <2>5. Extends(e3, e2, host) /\ e3.edges = e2.edges
      BY <1>1, <2>1, <2>4, NodesGrow DEF Extends
    <2> HIDE DEF e3
    <2>6. Extends(e3, e, host)
      BY <2>2, <2>4, <2>5, ExtendsTwice
    <2>7. Accounted(f, e3)
      BY <2>1, <2>3, <2>4, <2>5 DEF Accounted
    <2> QED
      BY <2>1, <2>6, <2>7
  <1>3. CASE ReadUse(f)
    <2>1. f.kind = "use"
      BY <1>3 DEF ReadUse
    <2>2. CASE evidence' = WithMount(e, f.node) /\ Assessed
      <3>1. /\ Extends(WithMount(e, f.node), e, host)
            /\ \E i \in DOMAIN WithMount(e, f.node).mounts :
                    WithMount(e, f.node).mounts[i].node = f.node
        <4> DEFINE n == f.node
        <4>1. Known(e, host) /\ ProbesAreHonest(e, host) /\ n \in STRING \cup {NoNode}
          BY <1>1
        <4> HIDE DEF e, n
        <4>2. /\ Extends(WithMount(e, n), e, host)
              /\ \E i \in DOMAIN WithMount(e, n).mounts : WithMount(e, n).mounts[i].node = n
          BY <4>1, MountsGrow
        <4> QED
          BY <4>2 DEF n
      <3> QED
        BY <2>1, <2>2, <3>1 DEF Accounted
    <2>3. CASE evidence' = [e EXCEPT !.swaps = @ \cup {f.node}] /\ Assessed
      <3>1. f.node \in evidence'.swaps
        BY <1>1, <2>3 DEF Known, Fields
      <3> QED
        BY <1>1, <2>1, <2>3, <3>1, OneMore DEF Accounted
    <2>4. CASE /\ evidence' = [e EXCEPT
                    !.claims = @ \cup {[consumer |-> f.node, use |-> f.use, row |-> 0]}]
               /\ Assessed
      <3>1. [consumer |-> f.node, use |-> f.use, row |-> 0] \in evidence'.claims
        BY <1>1, <2>4 DEF Known, Fields
      <3>2. Extends(evidence', e, host)
        <4> DEFINE X == {[consumer |-> f.node, use |-> f.use, row |-> 0]}
        <4>1. (\A claim \in X : claim.row = 0) /\ evidence' = [e EXCEPT !.claims = @ \cup X]
          BY <2>4
        <4> HIDE DEF X
        <4> QED
          BY <1>1, <4>1, OneMore
      <3> QED
        BY <2>1, <2>4, <3>1, <3>2 DEF Accounted
    <2> QED
      BY <1>3, <2>2, <2>3, <2>4 DEF ReadUse, Assess
  <1>4. CASE ReadSignature(f)
    <2> DEFINE state == IF f.member THEN "Membership" ELSE "Filesystem"
    <2>1. f.kind = "signature" /\ evidence' = WithSignature(e, f.node, state) /\ Assessed
      BY <1>4 DEF ReadSignature, Assess
    <2>2. f.member => state \notin {"None", "Filesystem"}
      OBVIOUS
    <2> HIDE DEF state
    <2> QED
      BY <1>1, <2>1, <2>2, ProbesGrow DEF Accounted
  <1>5. CASE LoseBacking(f)
    <2>1. f.kind = "backing"
      BY <1>5 DEF LoseBacking
    <2>2. Assessed
      BY <1>5 DEF LoseBacking, Assess
    <2>3. ASSUME NEW s
          PROVE  LET g == [e EXCEPT !.issues = @ \cup {[node |-> f.node, source |-> s]}]
                 IN  Extends(g, e, host) /\ [node |-> f.node, source |-> s] \in g.issues
      BY <1>1, OneMore DEF Known, Fields
    <2>4. CASE evidence' = [e EXCEPT !.covered = @ \ {"sysfs"},
                                     !.issues = @ \cup {[node |-> f.node, source |-> "sysfs"]}]
      <3> DEFINE e1 == [e EXCEPT !.issues = @ \cup {[node |-> f.node, source |-> "sysfs"]}]
                 e2 == [e1 EXCEPT !.covered = @ \ {"sysfs"}]
      <3>1. Extends(e1, e, host) /\ [node |-> f.node, source |-> "sysfs"] \in e1.issues
        BY <2>3
      <3>2. evidence' = e2 /\ e2.issues = e1.issues
        BY <1>1, <2>4 DEF Known, Fields
      <3> HIDE DEF e1
      <3>3. Extends(e2, e1, host)
        BY <3>1, OneMore DEF Extends
      <3> HIDE DEF e2
      <3> QED
        BY <2>1, <2>2, <3>1, <3>2, <3>3, ExtendsTwice DEF Accounted
    <2>5. CASE evidence' = WithNode([e EXCEPT
                    !.issues = @ \cup {[node |-> f.node, source |-> "zfs"]}], f.node, TRUE)
      <3> DEFINE e1 == [e EXCEPT !.issues = @ \cup {[node |-> f.node, source |-> "zfs"]}]
                 e2 == WithNode(e1, f.node, TRUE)
      <3>1. Extends(e1, e, host) /\ [node |-> f.node, source |-> "zfs"] \in e1.issues
        BY <2>3
      <3>2. evidence' = e2
        BY <2>5
      <3> HIDE DEF e1
      <3>3. Extends(e2, e1, host)
        BY <1>1, <3>1, NodesGrow DEF Extends
      <3> HIDE DEF e2
      <3>4. Extends(e2, e, host) /\ e1.issues \subseteq e2.issues
        BY <3>1, <3>3, ExtendsTwice DEF Extends, Grows
      <3> QED
        BY <2>1, <2>2, <3>1, <3>2, <3>4 DEF Accounted
    <2>6. CASE f.node \notin DOMAIN e.blocks /\ evidence' = WithNode(e, f.node, FALSE)
      BY <1>1, <2>1, <2>6, <2>2, NodesGrow DEF Accounted
    <2> QED
      BY <1>5, <2>4, <2>5, <2>6, <2>2 DEF LoseBacking, Assess
  <1>6. CASE LoseUse(f)
    <2>1. f.kind = "use" /\ f.source \in Sources \ {"inactive_membership"}
      BY <1>1, <1>6 DEF LoseUse, HostAssumption
    <2>2. CASE /\ evidence' = WithMount([e EXCEPT
                    !.discovery = @ \cup {[node |-> NoNode, about |-> "mount",
                                           id |-> Len(e.mounts) + 1]}], NoNode)
               /\ Assessed
      <3> DEFINE X == {[node |-> NoNode, about |-> "mount", id |-> Len(e.mounts) + 1]}
                 e1 == [e EXCEPT !.discovery = @ \cup X]
      <3>1. Extends(e1, e, host)
        <4> HIDE DEF X
        <4> QED
          BY <1>1, OneMore
      <3> HIDE DEF e1
      <3>2. /\ Extends(WithMount(e1, NoNode), e1, host)
            /\ \E i \in DOMAIN WithMount(e1, NoNode).mounts :
                    WithMount(e1, NoNode).mounts[i].node = NoNode
        BY <3>1, MountsGrow DEF Extends
      <3>3. evidence' = WithMount(e1, NoNode)
        BY <2>2 DEF e1
      <3> QED
        BY <2>1, <2>2, <3>1, <3>2, <3>3, ExtendsTwice DEF Accounted
    <2>3. CASE evidence' = [e EXCEPT !.swaps = @ \cup {NoNode}] /\ Assessed
      <3>1. NoNode \in evidence'.swaps
        BY <1>1, <2>3 DEF Known, Fields
      <3> QED
        BY <1>1, <2>1, <2>3, <3>1, OneMore DEF Accounted
    <2>4. CASE /\ Gapless(e, f.source)
               /\ evidence' = [e EXCEPT !.covered = @ \ {f.source}]
               /\ Assessed
      <3>1. f.source \notin evidence'.covered /\ Gapless(evidence', f.source)
        BY <1>1, <2>4 DEF Known, Fields, Gapless
      <3>2. Withdrawn(evidence')
        BY <2>1, <3>1 DEF Withdrawn
      <3>3. Accounted(f, evidence')
        BY <2>1, <3>2 DEF Accounted
      <3> QED
        BY <1>1, <2>4, <3>3, OneMore
    <2>5. ASSUME MayListGaps(e, f.source), NEW n \in {f.node, NoNode},
                 evidence' = [e EXCEPT !.covered = @ \ {f.source},
                                       !.gaps = @ \cup {[node |-> n, source |-> f.source]}]
          PROVE  Goal
      <3> DEFINE X == {[node |-> n, source |-> f.source]}
      <3>1. \A gap \in X : MayListGaps(e, gap.source)
        BY <2>5
      <3>2. [node |-> n, source |-> f.source] \in evidence'.gaps
        BY <1>1, <2>5 DEF Known, Fields
      <3>3. evidence' = [e EXCEPT !.covered = @ \ {f.source}, !.gaps = @ \cup X]
        BY <2>5
      <3>4. Extends(evidence', e, host)
        <4> HIDE DEF X
        <4> QED
          BY <1>1, <3>1, <3>3, OneMore
      <3> QED
        BY <2>1, <2>5, <3>2, <3>4 DEF Accounted
    <2>6. Assessed
      BY <1>6 DEF LoseUse, Assess
    <2> HIDE DEF Goal
    <2>7. CASE f.source = "mountinfo" /\ evidence' = WithMount([e EXCEPT
                    !.discovery = @ \cup {[node |-> NoNode, about |-> "mount",
                                           id |-> Len(e.mounts) + 1]}], NoNode)
      BY <2>2, <2>6, <2>7 DEF Goal
    <2> QED
      BY <1>6, <2>2, <2>3, <2>4, <2>5, <2>6 DEF LoseUse, Assess, Goal
  <1>7. CASE LoseSignature(f)
    <2> DEFINE e1 == [e EXCEPT !.covered = @ \ {"inactive_membership"}]
    <2>1. f.kind = "signature"
      BY <1>7 DEF LoseSignature
    <2>2. Extends(e1, e, host)
      BY <1>1, OneMore
    <2>3. \/ Assess(e1)
          \/ \E state \in {"Unsupported", "Conflicting"} : Assess(WithSignature(e1, f.node, state))
      BY <1>7 DEF LoseSignature
    <2> HIDE DEF e1
    <2>4. CASE Assess(e1)
      BY <2>1, <2>2, <2>4 DEF Assess, Accounted
    <2>5. ASSUME NEW state \in {"Unsupported", "Conflicting"},
                 Assess(WithSignature(e1, f.node, state))
          PROVE  Goal /\ Assessed
      <3>1. Extends(WithSignature(e1, f.node, state), e1, host)
        BY <1>1, <2>1, <2>2, ProbesGrow DEF Extends
      <3>2. Extends(WithSignature(e1, f.node, state), e, host)
        BY <2>2, <3>1, ExtendsTwice
      <3> QED
        BY <2>1, <2>5, <3>2 DEF Assess, Accounted
    <2> QED
      BY <2>3, <2>4, <2>5
  <1> QED
    BY <1>2, <1>3, <1>4, <1>5, <1>6, <1>7

\* What may be lost later is lost in no report against a disk.
LEMMA AlarmsExtend ==
    ASSUME HonestInv, Alarm \/ \E d \in physical(evidence) : DoubtIdentity(d)
    PROVE  /\ Extends(evidence', evidence, host)
           /\ traces' = Traces(evidence') /\ verdicts' = Verdicts(evidence', traces')
  <1> DEFINE e == evidence
             Goal == Extends(evidence', e, host)
             Assessed == traces' = Traces(evidence') /\ verdicts' = Verdicts(evidence', traces')
  <1>1. Known(e, host) /\ ProbesAreHonest(e, host)
    BY DEF HonestInv
  <1>2. CASE AlarmIssue
    <2>1. Assessed
      BY <1>2 DEF AlarmIssue, Assess
    <2>2. \/ \E X : evidence' = [e EXCEPT !.issues = @ \cup X]
          \/ \E X : evidence' = [e EXCEPT !.discovery = @ \cup X]
          \/ \E X : evidence' = [e EXCEPT !.twice = @ \cup X]
          \/ \E n : /\ MayListGaps(e, "processes")
                    /\ evidence' = [e EXCEPT !.gaps = @ \cup {[node |-> n, source |-> "processes"]}]
      BY <1>2 DEF AlarmIssue, Assess
    <2>3. ASSUME NEW n, MayListGaps(e, "processes"),
                 evidence' = [e EXCEPT !.gaps = @ \cup {[node |-> n, source |-> "processes"]}]
          PROVE  Goal
      <3> DEFINE X == {[node |-> n, source |-> "processes"]}
      <3>1. (\A gap \in X : MayListGaps(e, gap.source)) /\ evidence' = [e EXCEPT !.gaps = @ \cup X]
        BY <2>3
      <3> HIDE DEF X
      <3> QED
        BY <1>1, <3>1, OneMore
    <2>4. \A X : /\ Extends([e EXCEPT !.issues = @ \cup X], e, host)
                 /\ Extends([e EXCEPT !.discovery = @ \cup X], e, host)
                 /\ Extends([e EXCEPT !.twice = @ \cup X], e, host)
      BY <1>1, OneMore
    <2>5. Goal
      BY <2>2, <2>3, <2>4
    <2> QED
      BY <2>1, <2>5
  <1>3. CASE AlarmUse
    <2>1. PICK n, use : /\ evidence' = [e EXCEPT
                                !.claims = @ \cup {[consumer |-> n, use |-> use, row |-> 0]}]
                        /\ Assessed
      BY <1>3 DEF AlarmUse, Assess
    <2> DEFINE X == {[consumer |-> n, use |-> use, row |-> 0]}
    <2>2. (\A claim \in X : claim.row = 0) /\ evidence' = [e EXCEPT !.claims = @ \cup X]
      BY <2>1
    <2> HIDE DEF X
    <2>3. Goal
      BY <1>1, <2>2, OneMore
    <2> QED
      BY <2>1, <2>3
  <1>4. CASE AlarmEdge
    <2>1. PICK n, p : evidence' = [e EXCEPT !.edges = @ \cup {<<n, p>>}] /\ Assessed
      BY <1>4 DEF AlarmEdge, Assess
    <2> QED
      BY <1>1, <2>1, OneMore
  <1>5. CASE AlarmBlock
    <2>1. PICK b \in DOMAIN e.blocks :
            \/ Assess([e EXCEPT !.blocks[b].scope = "NvmeNamespace"])
            \/ Assess([e EXCEPT !.blocks[b].sized = FALSE])
            \/ Assess([e EXCEPT !.blocks[b].reciprocal = FALSE])
            \/ Assess([e EXCEPT !.blocks[b].issues = {"observation"}])
            \/ \E r \in {"yes", "unknown"} : Assess([e EXCEPT !.blocks[b].readOnly = r])
      BY <1>5 DEF AlarmBlock
    <2>2. {"observation"} \in SUBSET {"observation", "signature", "other"}
      OBVIOUS
    <2>3. /\ Extends([e EXCEPT !.blocks[b].scope = "NvmeNamespace"], e, host)
          /\ \A r \in {"yes", "no", "unknown"} :
                Extends([e EXCEPT !.blocks[b].readOnly = r], e, host)
          /\ Extends([e EXCEPT !.blocks[b].sized = FALSE], e, host)
          /\ Extends([e EXCEPT !.blocks[b].reciprocal = FALSE], e, host)
      BY <1>1, BlocksStay
    <2>4. Extends([e EXCEPT !.blocks[b].issues = {"observation"}], e, host)
      BY <1>1, <2>2, BlocksStay
    <2>5. Goal
      BY <2>1, <2>3, <2>4 DEF Assess
    <2> QED
      BY <2>1, <2>5 DEF Assess
  <1>6. CASE \E d \in physical(e) : DoubtIdentity(d)
    <2>1. PICK d \in physical(e) :
            \/ Assess([e EXCEPT !.blocks[d].resolved = FALSE])
            \/ Assess([e EXCEPT !.blocks[d].path = FALSE])
      BY <1>6 DEF DoubtIdentity
    <2>2. d \in DOMAIN e.blocks
      BY DEF physical
    <2>3. /\ Extends([e EXCEPT !.blocks[d].resolved = FALSE], e, host)
          /\ Extends([e EXCEPT !.blocks[d].path = FALSE], e, host)
      BY <1>1, <2>2, BlocksStay
    <2>4. Goal
      BY <2>1, <2>3 DEF Assess
    <2> QED
      BY <2>1, <2>4 DEF Assess
  <1> QED
    BY <1>2, <1>3, <1>4, <1>5, <1>6 DEF Alarm

LEMMA HonestInitially ==
    ASSUME Init
    PROVE  HonestInv
  <1>1. /\ host \in Hosts /\ HostAssumption(host)
        /\ unread = host.facts /\ unread \in Seq(Range(host.facts))
        /\ evidence = Inventory(host)
        /\ traces = Traces(evidence) /\ verdicts = Verdicts(evidence, traces)
    BY OwnershipCaptureAssumption DEF Init
  <1>2. /\ evidence.claims = {} /\ evidence.loops = host.loops /\ evidence.blocks = host.blocks
        /\ evidence.nodes = <<>> /\ evidence.fresh = <<>> /\ evidence.mounts = <<>>
        /\ DOMAIN evidence = Fields
    BY <1>1 DEF Inventory, Fields
  <1>3. <<>> \in Seq([id : Nat, node : STRING \cup {NoNode}, harmless : BOOLEAN])
    OBVIOUS
  <1>4. DOMAIN <<>> = {}
    OBVIOUS
  <1>5. Known(evidence, host)
    BY <1>1, <1>2, <1>3, <1>4 DEF Known, HostAssumption
  <1>6. ProbesAreHonest(evidence, host)
    BY <1>2, <1>4 DEF ProbesAreHonest
  <1> QED
    BY <1>1, <1>5, <1>6 DEF HonestInv

LEMMA HeadOrTail ==
    ASSUME NEW S, NEW s \in Seq(S), s # <<>>, NEW k \in Range(s)
    PROVE  k = Head(s) \/ k \in Range(Tail(s))
  <1>1. PICK i \in DOMAIN s : k = s[i]
    BY DEF Range
  <1>2. /\ Len(s) \in Nat /\ DOMAIN s = 1..Len(s)
        /\ Len(Tail(s)) = Len(s) - 1 /\ DOMAIN Tail(s) = 1..(Len(s) - 1)
    BY HeadTailProperties, LenProperties
  <1>3. CASE i = 1
    BY <1>1, <1>3
  <1>4. CASE i # 1
    <2>1. i - 1 \in DOMAIN Tail(s) /\ Tail(s)[i - 1] = s[i]
      BY <1>1, <1>2, <1>4
    <2> QED
      BY <1>1, <2>1 DEF Range
  <1> QED
    BY <1>3, <1>4

LEMMA HonestAlways ==
    ASSUME HonestInv, [Next]_captureVars
    PROVE  HonestInv'
  <1>1. ASSUME ReadFact \/ LoseFact
        PROVE  HonestInv'
    <2> DEFINE f == Head(unread)
    <2>1. unread \in Seq(Range(host.facts)) /\ unread # <<>>
      BY <1>1 DEF HonestInv, ReadFact, LoseFact
    <2>2. f \in Range(host.facts) /\ Tail(unread) \in Seq(Range(host.facts))
      BY <2>1, HeadTailProperties
    <2>3. host' = host /\ unread' = Tail(unread)
      BY <1>1 DEF ReadFact, LoseFact
    <2>4. \/ ReadBacking(f) \/ ReadUse(f) \/ ReadSignature(f)
          \/ LoseBacking(f) \/ LoseUse(f) \/ LoseSignature(f)
      BY <1>1 DEF ReadFact, LoseFact
    <2>5. \A k \in Range(unread) : k = f \/ k \in Range(Tail(unread))
      BY <2>1, HeadOrTail
    <2> HIDE DEF f
    <2>6. /\ Extends(evidence', evidence, host)
          /\ Accounted(f, evidence')
          /\ traces' = Traces(evidence') /\ verdicts' = Verdicts(evidence', traces')
      BY <2>2, <2>4, FactsAreAccounted
    <2>7. \A k \in Range(host.facts) : Accounted(k, evidence) => Accounted(k, evidence')
      BY <2>6, AccountedStays DEF Extends
    <2> QED
      BY <2>2, <2>3, <2>5, <2>6, <2>7 DEF HonestInv, Extends
  <1>2. ASSUME Alarm \/ \E d \in physical(evidence) : DoubtIdentity(d)
        PROVE  HonestInv'
    <2>1. host' = host /\ unread' = unread
      BY <1>2 DEF Alarm, DoubtIdentity
    <2>2. /\ Extends(evidence', evidence, host)
          /\ traces' = Traces(evidence') /\ verdicts' = Verdicts(evidence', traces')
      BY <1>2, AlarmsExtend
    <2>3. \A k \in Range(host.facts) : Accounted(k, evidence) => Accounted(k, evidence')
      BY <2>2, AccountedStays DEF Extends
    <2> QED
      BY <2>1, <2>2, <2>3 DEF HonestInv, Extends
  <1>3. CASE UNCHANGED captureVars
    BY <1>3 DEF captureVars, assessment, HonestInv
  <1> QED
    BY <1>1, <1>2, <1>3 DEF Next

LEMMA HonestMeansUnused ==
    ASSUME HonestInv
    PROVE  ReadyMeansUnused
  <1> SUFFICES ASSUME unread = <<>>, NEW d \in DOMAIN verdicts, verdicts[d] = "Ready",
                      ReallyUsed(host, d)
               PROVE  FALSE
    BY DEF ReadyMeansUnused
  <1>1. /\ HostAssumption(host) /\ Known(evidence, host) /\ ProbesAreHonest(evidence, host)
        /\ traces = Traces(evidence) /\ verdicts = Verdicts(evidence, traces)
    BY OwnershipCaptureAssumption DEF HonestInv
  <1>2. \A f \in Range(host.facts) : Accounted(f, evidence)
    BY DEF HonestInv, Range
  <1>3. d \in physical(evidence) /\ Status(evidence, Traces(evidence), d) = "Ready"
    BY <1>1 DEF Verdicts
  <1>4. PICK f \in Used(host.facts) : ReallyBacks(host, d, f.node)
    BY DEF ReallyUsed
  <1>5. f \in Range(host.facts) /\ (f.kind = "use" \/ (f.kind = "signature" /\ f.member))
    BY DEF Used
  <1>6. CASE f.kind = "use"
    BY <1>1, <1>2, <1>3, <1>4, <1>5, <1>6, UsedIsNotReady
  <1>7. CASE f.kind = "signature" /\ f.member
    BY <1>1, <1>2, <1>3, <1>4, <1>5, <1>7, MemberIsNotReady
  <1> QED
    BY <1>5, <1>6, <1>7

\* On honest evidence, however much of it is missing, no disk is READY that backs
\* something used or something that is a member of an inactive group: for all
\* hosts, all layers of backing, and any number of losses and reports
\* (assessOwnership, core/ownership_graph.cpp:376-460).
THEOREM ReadyDisksAreUnused == CaptureSpec => []ReadyMeansUnused
  <1>1. Init => HonestInv
    BY HonestInitially
  <1>2. HonestInv /\ [Next]_captureVars => HonestInv'
    BY HonestAlways
  <1>3. HonestInv => ReadyMeansUnused
    BY HonestMeansUnused
  <1> QED
    BY <1>1, <1>2, <1>3, PTL DEF CaptureSpec


-----------------------------------------------------------------------------
(* Traces. *)

\* The trace of a node, as the evidence has it.
LEMMA TraceOfNode ==
    ASSUME NEW e, NEW n \in Nodes(e)
    PROVE  /\ n \in DOMAIN Graph(e).onward
           /\ n \in Reached(Graph(e).onward, n)
           /\ Reached(Graph(e).onward, n) \subseteq DOMAIN Graph(e).onward
           /\ \A m \in Reached(Graph(e).onward, n) :
                Graph(e).onward[m] \subseteq Reached(Graph(e).onward, n)
           /\ Traces(e)[n].owners = Reached(Graph(e).onward, n) \cap physical(e)
           /\ Traces(e)[n].faults =
                Reached(Graph(e).onward, n) \cap (Broken(Graph(e)) \cup Graph(e).unusable)
           /\ Traces(e)[n].topology <=> Reached(Graph(e).onward, n) \cap Broken(Graph(e)) = {}
  <1>1. n \in DOMAIN Graph(e).onward
    BY GraphIsClosed
  <1>2. \A m \in DOMAIN Graph(e).onward : Graph(e).onward[m] \subseteq DOMAIN Graph(e).onward
    BY GraphIsClosed
  <1>3. /\ n \in Reached(Graph(e).onward, n)
        /\ Reached(Graph(e).onward, n) \subseteq DOMAIN Graph(e).onward
        /\ \A m \in Reached(Graph(e).onward, n) :
              Graph(e).onward[m] \subseteq Reached(Graph(e).onward, n)
    BY <1>1, <1>2, ReachedIsClosed
  <1>4. Traces(e)[n] = Trace(Graph(e), n)
    BY GraphIsClosed DEF Traces
  <1>5. Graph(e).physical = physical(e)
    BY GraphIsClosed
  <1>6. /\ Traces(e)[n].owners = Reached(Graph(e).onward, n) \cap physical(e)
        /\ Traces(e)[n].faults =
              Reached(Graph(e).onward, n) \cap (Broken(Graph(e)) \cup Graph(e).unusable)
    BY <1>4, <1>5 DEF Trace
  <1>7. Traces(e)[n].topology = (Reached(Graph(e).onward, n) \cap Broken(Graph(e)) = {})
    BY <1>4 DEF Trace
  <1> QED
    BY <1>1, <1>3, <1>6, <1>7

LEMMA TracesAreOfNodes ==
    ASSUME NEW e
    PROVE  DOMAIN Traces(e) = Nodes(e) /\ physical(e) \subseteq Nodes(e)
  BY GraphIsClosed DEF Traces, physical, Nodes

\* A physical device is backed by nothing but itself.
LEMMA DisksBackThemselves ==
    ASSUME NEW e, NEW d \in physical(e)
    PROVE  Reached(Graph(e).onward, d) = {d}
  <1>1. d \in Nodes(e)
    BY TracesAreOfNodes
  <1>2. d \in DOMAIN Graph(e).onward /\ d \in Reached(Graph(e).onward, d)
    BY <1>1, TraceOfNode
  <1>3. Graph(e).onward[d] = {}
    BY <1>2, GraphIsClosed
  <1>4. Reached(Graph(e).onward, d) \subseteq {d}
    <2> DEFINE S == {d}
    <2>1. S \in SUBSET DOMAIN Graph(e).onward /\ d \in S
      BY <1>2
    <2>2. \A m \in S : Graph(e).onward[m] \subseteq S
      BY <1>3
    <2> HIDE DEF S
    <2>3. Reached(Graph(e).onward, d) \subseteq S
      BY <2>1, <2>2, ReachedIsLeast
    <2> QED
      BY <2>3 DEF S
  <1> QED
    BY <1>2, <1>4

\* Backing of complete topology ends in a physical device: otherwise it would go on
\* for ever.
LEMMA CompleteHasOwners ==
    ASSUME NEW e, NEW n \in Nodes(e), Traces(e)[n].topology
    PROVE  Traces(e)[n].owners # {}
  <1> DEFINE onward == Graph(e).onward
             reached == Reached(onward, n)
  <1>1. /\ n \in reached /\ reached \subseteq DOMAIN onward
        /\ \A m \in reached : onward[m] \subseteq reached
        /\ reached \cap Broken(Graph(e)) = {}
        /\ Traces(e)[n].owners = reached \cap physical(e)
    BY TraceOfNode
  <1> HIDE DEF reached
  <1> SUFFICES ASSUME reached \cap physical(e) = {}
               PROVE  FALSE
    BY <1>1
  <1>2. \A m \in reached : onward[m] # {}
    BY <1>1, GraphIsClosed DEF Broken, Rootless
  <1>3. \A m \in reached : onward[m] \cap reached # {}
    BY <1>1, <1>2
  <1>4. n \in Circling(onward)
    BY <1>1, <1>3 DEF Circling
  <1> QED
    BY <1>1, <1>4 DEF Broken

-----------------------------------------------------------------------------
(* Doubt about the identity of one disk. *)

\* The evidence differs only in what is established of the identity of one disk.
Doubted(g, e, d) ==
    /\ d \in physical(e)
    /\ DOMAIN g.blocks = DOMAIN e.blocks
    /\ \A b \in DOMAIN e.blocks :
        /\ g.blocks[b].role = e.blocks[b].role /\ g.blocks[b].parent = e.blocks[b].parent
        /\ g.blocks[b].reciprocal = e.blocks[b].reciprocal
        /\ g.blocks[b].kind = e.blocks[b].kind /\ g.blocks[b].scope = e.blocks[b].scope
        /\ g.blocks[b].readOnly = e.blocks[b].readOnly
        /\ g.blocks[b].sized = e.blocks[b].sized /\ g.blocks[b].issues = e.blocks[b].issues
        /\ b # d => g.blocks[b] = e.blocks[b]
    /\ ~(g.blocks[d].resolved /\ g.blocks[d].path)
    /\ g.nodes = e.nodes /\ g.twice = e.twice /\ g.edges = e.edges /\ g.claims = e.claims
    /\ g.issues = e.issues /\ g.gaps = e.gaps /\ g.covered = e.covered /\ g.fresh = e.fresh
    /\ g.loops = e.loops /\ g.mounts = e.mounts /\ g.swaps = e.swaps
    /\ g.discovery = e.discovery

\* The graph is the same, but for the disk that is doubted.
LEMMA DoubtedGraph ==
    ASSUME NEW e, NEW g, NEW d, Doubted(g, e, d)
    PROVE  /\ Nodes(g) = Nodes(e) /\ physical(g) = physical(e) /\ Issues(g) = Issues(e)
           /\ Graph(g).onward = Graph(e).onward
           /\ Graph(g).unusable = Graph(e).unusable \cup {d}
           /\ Broken(Graph(g)) = Broken(Graph(e))
  <1>1. Nodes(g) = Nodes(e) /\ physical(g) = physical(e) /\ Partitions(g) = Partitions(e)
    BY DEF Doubted, Nodes, physical, Partitions
  <1>2. \A p \in Partitions(e) :
            (OnDisk(g, p) <=> OnDisk(e, p)) /\ g.blocks[p].parent = e.blocks[p].parent
    BY <1>1 DEF Doubted, OnDisk, Partitions
  <1>3. {<<p, g.blocks[p].parent>> : p \in {q \in Partitions(g) : OnDisk(g, q)}}
            = {<<p, e.blocks[p].parent>> : p \in {q \in Partitions(e) : OnDisk(e, q)}}
    BY <1>1, <1>2
  <1>4. Edges(g) = Edges(e)
    BY <1>3 DEF Edges, Doubted
  <1>5. parents(g, d) = parents(e, d) /\ \A n : parents(g, n) = parents(e, n)
    BY <1>4 DEF parents
  <1>6. Dangling(g) = Dangling(e) /\ duplicates(g) = duplicates(e)
    BY <1>1, <1>4 DEF Dangling, duplicates, Doubted
  <1>7. duplicates(g) \cup {p \in Partitions(g) : ~OnDisk(g, p)}
             \cup {edge[1] : edge \in Dangling(g)} \cup {o \in physical(g) : parents(g, o) # {}}
            = duplicates(e) \cup {p \in Partitions(e) : ~OnDisk(e, p)}
             \cup {edge[1] : edge \in Dangling(e)} \cup {o \in physical(e) : parents(e, o) # {}}
    BY <1>1, <1>2, <1>5, <1>6
  <1>8. Issues(g) = Issues(e)
    BY <1>7 DEF Issues, Doubted
  <1>9. Incomplete(g) = Incomplete(e)
    BY <1>6, <1>8 DEF Incomplete, Doubted
  <1>10. Graph(g).onward = Graph(e).onward /\ Graph(g).tainted = Graph(e).tainted
    BY <1>1, <1>4, <1>5, <1>9 DEF Graph
  <1>11. Graph(g).unusable = Graph(e).unusable \cup {d}
    <2>1. Graph(g).unusable = {o \in physical(g) : ~(g.blocks[o].resolved /\ g.blocks[o].path)}
      BY DEF Graph
    <2>2. Graph(e).unusable = {o \in physical(e) : ~(e.blocks[o].resolved /\ e.blocks[o].path)}
      BY DEF Graph
    <2>3. d \in physical(e) /\ \A o \in physical(e) \ {d} : g.blocks[o] = e.blocks[o]
      BY DEF Doubted, physical
    <2> QED
      BY <1>1, <2>1, <2>2, <2>3 DEF Doubted
  <1>12. Graph(g).physical = Graph(e).physical
    BY <1>1, GraphIsClosed
  <1>13. Broken(Graph(g)) = Broken(Graph(e))
    BY <1>10, <1>12 DEF Broken, Rootless
  <1> QED
    BY <1>1, <1>8, <1>10, <1>11, <1>13

\* The verdict on every other disk is the same.
LEMMA DoubtedVerdict ==
    ASSUME NEW e, NEW g, NEW d, Doubted(g, e, d), NEW o \in physical(e) \ {d}
    PROVE  Status(g, Traces(g), o) = Status(e, Traces(e), o)
  <1> DEFINE s == Traces(e)
             t == Traces(g)
  <1>1. DOMAIN t = DOMAIN s /\ DOMAIN s = Nodes(e) /\ physical(e) \subseteq Nodes(e)
    BY DoubtedGraph, TracesAreOfNodes
  <1>2. ASSUME NEW n \in Nodes(e)
        PROVE  /\ t[n].owners = s[n].owners
               /\ t[n].topology <=> s[n].topology
               /\ s[n].faults \subseteq t[n].faults
               /\ t[n].faults \subseteq s[n].faults \cup (Reached(Graph(e).onward, n) \cap {d})
               /\ d \in Reached(Graph(e).onward, n) /\ d \in Broken(Graph(e)) => d \in s[n].faults
    <2>1. n \in Nodes(g)
      BY DoubtedGraph
    <2>2. /\ t[n].owners = Reached(Graph(g).onward, n) \cap physical(g)
          /\ t[n].faults = Reached(Graph(g).onward, n) \cap (Broken(Graph(g)) \cup Graph(g).unusable)
          /\ t[n].topology <=> Reached(Graph(g).onward, n) \cap Broken(Graph(g)) = {}
      BY <2>1, TraceOfNode
    <2>3. /\ s[n].owners = Reached(Graph(e).onward, n) \cap physical(e)
          /\ s[n].faults = Reached(Graph(e).onward, n) \cap (Broken(Graph(e)) \cup Graph(e).unusable)
          /\ s[n].topology <=> Reached(Graph(e).onward, n) \cap Broken(Graph(e)) = {}
      BY TraceOfNode
    <2> HIDE DEF s, t
    <2> QED
      BY <2>2, <2>3, DoubtedGraph
  <1>3. d \in physical(e) /\ d \in Nodes(e) /\ o \in Nodes(e)
    BY <1>1 DEF Doubted
  <1>4. Reached(Graph(e).onward, d) = {d} /\ Reached(Graph(e).onward, o) = {o}
    BY <1>3, DisksBackThemselves
  <1>5. d \notin Broken(Graph(e)) => separateOwner(s, d, o)
    <2>1. /\ s[d].owners = Reached(Graph(e).onward, d) \cap physical(e)
          /\ s[d].topology <=> Reached(Graph(e).onward, d) \cap Broken(Graph(e)) = {}
      BY <1>3, TraceOfNode
    <2> HIDE DEF s
    <2> QED
      BY <1>1, <1>3, <1>4, <2>1 DEF separateOwner
  <1> HIDE DEF s, t
  <1>6. \A n : separateOwner(t, n, o) <=> separateOwner(s, n, o)
    BY <1>1, <1>2 DEF separateOwner
  <1>7. t[o].faults = s[o].faults
    <2>1. s[o].faults \subseteq t[o].faults
      BY <1>2, <1>3
    <2>2. t[o].faults \subseteq s[o].faults \cup (Reached(Graph(e).onward, o) \cap {d})
      BY <1>2, <1>3
    <2>3. Reached(Graph(e).onward, o) \cap {d} = {}
      BY <1>4
    <2> QED
      BY <2>1, <2>2, <2>3
  <1>8. \A n \in Nodes(e) : ownerReasons(t, n, o) = ownerReasons(s, n, o)
    <2> TAKE n \in Nodes(e)
    <2>1. \A m \in t[n].faults : ~separateOwner(s, m, o) => m \in s[n].faults
      BY <1>2, <1>5
    <2> QED
      BY <1>2, <1>6, <2>1 DEF ownerReasons
  <1>9. local_unknown(g, t, o) <=> local_unknown(e, s, o)
    BY <1>1, <1>2, <1>7, <1>8 DEF local_unknown, Doubted
  <1>10. Claims(g) = Claims(e)
    BY DEF Claims, MembershipClaims, MountClaims, SwapClaims, Doubted
  <1>11. ClaimsOn(g, t, o) = ClaimsOn(e, s, o)
    BY <1>1, <1>2, <1>10 DEF ClaimsOn
  <1>12. MembershipClaims(g) = MembershipClaims(e)
    BY DEF MembershipClaims, Doubted
  <1>13. \A i : Unattributed(g, i) <=> Unattributed(e, i)
    BY <1>12 DEF Unattributed, Doubted
  <1>14. unknown_usage(g, t) <=> unknown_usage(e, s)
    BY <1>1, <1>2, <1>10, <1>13 DEF unknown_usage, Doubted
  <1>15. /\ host_coverage(g) <=> host_coverage(e)
         /\ \A issue : harmlessMountIssue(g, issue) <=> harmlessMountIssue(e, issue)
         /\ \A n : superseded(g, n) <=> superseded(e, n)
    BY DEF host_coverage, harmlessMountIssue, superseded, Doubted
  <1>16. coverage_complete(g, t, o) <=> coverage_complete(e, s, o)
    <2>1. Issues(g) = Issues(e) /\ g.gaps = e.gaps /\ g.discovery = e.discovery
      BY DoubtedGraph DEF Doubted
    <2> QED
      BY <1>6, <1>15, <2>1 DEF coverage_complete
  <1>17. \A b \in DOMAIN e.blocks : IssuesSettled(g, b) <=> IssuesSettled(e, b)
    BY <1>15 DEF IssuesSettled, Doubted
  <1>18. signatures_complete(g, t, o) <=> signatures_complete(e, s, o)
    <2>1. \A b \in DOMAIN e.blocks : b \in Nodes(e)
      BY DEF Nodes
    <2> QED
      BY <1>2, <1>17, <2>1 DEF signatures_complete, Doubted
  <1>19. g.blocks[o] = e.blocks[o]
    BY DEF Doubted, physical
  <1>20. clean(g, o) <=> clean(e, o)
    BY <1>19 DEF clean
  <1> QED
    BY <1>9, <1>11, <1>14, <1>16, <1>18, <1>19, <1>20 DEF Status, s, t

-----------------------------------------------------------------------------
(* Worse evidence. *)

\* The evidence speaks against disks where it did not, and for none.  A source that
\* had withdrawn its coverage has given no lists since, and backing is only added to
\* what has some, or should have none.
Worse(g, e) ==
    /\ DOMAIN g.blocks = DOMAIN e.blocks
    /\ \A b \in DOMAIN e.blocks :
        /\ g.blocks[b].role = e.blocks[b].role /\ g.blocks[b].parent = e.blocks[b].parent
        /\ g.blocks[b].kind = e.blocks[b].kind
        /\ g.blocks[b].reciprocal => e.blocks[b].reciprocal
        /\ g.blocks[b].resolved => e.blocks[b].resolved
        /\ g.blocks[b].path => e.blocks[b].path
        /\ g.blocks[b].sized => e.blocks[b].sized
        /\ g.blocks[b].scope = "WholeDevice" => e.blocks[b].scope = "WholeDevice"
        /\ e.blocks[b].readOnly = "yes" => g.blocks[b].readOnly = "yes"
        /\ g.blocks[b].readOnly = "no" => e.blocks[b].readOnly = "no"
        /\ g.blocks[b].issues = e.blocks[b].issues \/ "observation" \in g.blocks[b].issues
    /\ g.nodes = e.nodes /\ g.fresh = e.fresh /\ g.loops = e.loops /\ g.mounts = e.mounts
    /\ g.swaps = e.swaps /\ g.covered = e.covered
    /\ e.twice \subseteq g.twice /\ e.claims \subseteq g.claims
    /\ e.issues \subseteq g.issues /\ e.discovery \subseteq g.discovery
    /\ e.gaps \subseteq g.gaps
    /\ \A gap \in g.gaps : gap \in e.gaps \/ MayListGaps(e, gap.source)
    /\ e.edges \subseteq g.edges
    /\ \A edge \in g.edges :
        edge \in e.edges \/ parents(e, edge[1]) # {} \/ edge[1] \in physical(e)

\* What is in no field about backing is kept.
LEMMA WorseNodes ==
    ASSUME NEW e, NEW g, Worse(g, e)
    PROVE  /\ Nodes(g) = Nodes(e) /\ physical(g) = physical(e)
           /\ Partitions(g) = Partitions(e)
           /\ Claims(e) \subseteq Claims(g) /\ MembershipClaims(g) = MembershipClaims(e)
  <1>1. /\ Nodes(g) = Nodes(e) /\ physical(g) = physical(e)
        /\ Partitions(g) = Partitions(e)
    BY DEF Worse, Nodes, physical, Partitions
  <1>2. MembershipClaims(g) = MembershipClaims(e)
    BY DEF MembershipClaims, Worse
  <1>3. MountClaims(g) = MountClaims(e) /\ SwapClaims(g) = SwapClaims(e)
    BY DEF MountClaims, SwapClaims, Worse
  <1>4. e.claims \subseteq g.claims
    BY DEF Worse
  <1> QED
    BY <1>1, <1>2, <1>3, <1>4 DEF Claims

\* If no edge is lost, no owner is.
LEMMA OwnersStay ==
    ASSUME NEW e, NEW g, Worse(g, e), Edges(e) \subseteq Edges(g), NEW n \in Nodes(e)
    PROVE  /\ DOMAIN Graph(e).onward \subseteq DOMAIN Graph(g).onward
           /\ \A m \in DOMAIN Graph(e).onward : Graph(e).onward[m] \subseteq Graph(g).onward[m]
           /\ Reached(Graph(e).onward, n) \subseteq Reached(Graph(g).onward, n)
           /\ Traces(e)[n].owners \subseteq Traces(g)[n].owners
  <1>1. Nodes(g) = Nodes(e) /\ physical(g) = physical(e)
    BY WorseNodes
  <1>2. DOMAIN Graph(e).onward = Nodes(e) \cup UNION {{edge[1], edge[2]} : edge \in Edges(e)}
    BY DEF Graph
  <1>3. DOMAIN Graph(g).onward = Nodes(g) \cup UNION {{edge[1], edge[2]} : edge \in Edges(g)}
    BY DEF Graph
  <1>4. DOMAIN Graph(e).onward \subseteq DOMAIN Graph(g).onward
    BY <1>1, <1>2, <1>3
  <1>5. \A m : parents(e, m) \subseteq parents(g, m)
    BY DEF parents
  <1>6. ASSUME NEW m \in DOMAIN Graph(e).onward
        PROVE  Graph(e).onward[m] \subseteq Graph(g).onward[m]
    <2>1. Graph(e).onward[m] = IF m \in physical(e) THEN {} ELSE parents(e, m)
      BY GraphIsClosed
    <2>2. Graph(g).onward[m] = IF m \in physical(g) THEN {} ELSE parents(g, m)
      BY <1>4, GraphIsClosed
    <2> QED
      BY <1>1, <1>5, <2>1, <2>2
  <1> DEFINE S == Reached(Graph(g).onward, n) \cap DOMAIN Graph(e).onward
  <1>7. n \in Nodes(g)
    BY <1>1
  <1>8. n \in S /\ S \in SUBSET DOMAIN Graph(e).onward
    BY <1>7, TraceOfNode
  <1>9. \A m \in S : Graph(e).onward[m] \subseteq S
    <2>1. \A m \in S : Graph(g).onward[m] \subseteq Reached(Graph(g).onward, n)
      BY <1>7, TraceOfNode
    <2>2. \A m \in DOMAIN Graph(e).onward : Graph(e).onward[m] \subseteq DOMAIN Graph(e).onward
      BY GraphIsClosed
    <2> QED
      BY <1>6, <2>1, <2>2
  <1>10. Reached(Graph(e).onward, n) \subseteq S
    <2> HIDE DEF S
    <2> QED
      BY <1>8, <1>9, ReachedIsLeast
  <1>11. Traces(e)[n].owners = Reached(Graph(e).onward, n) \cap physical(e)
    BY TraceOfNode
  <1>12. Traces(g)[n].owners = Reached(Graph(g).onward, n) \cap physical(g)
    BY <1>7, TraceOfNode
  <1> QED
    BY <1>1, <1>4, <1>6, <1>10, <1>11, <1>12

\* No protection is lost, if no partition is.
LEMMA WorseStaysProtected ==
    ASSUME NEW e, NEW g, Worse(g, e), NEW d \in physical(e),
           \A p \in Partitions(e) : e.blocks[p].reciprocal => g.blocks[p].reciprocal,
           Status(e, Traces(e), d) = "Protected"
    PROVE  Status(g, Traces(g), d) # "Busy"
  <1>1. \A p \in Partitions(e) : OnDisk(e, p) => OnDisk(g, p)
    BY WorseNodes DEF OnDisk, Worse, Partitions
  <1>2. Edges(e) \subseteq Edges(g)
    BY <1>1, WorseNodes DEF Edges, Worse, Partitions
  <1>3. \/ e.blocks[d].readOnly = "yes"
        \/ \E claim \in ClaimsOn(e, Traces(e), d) : protects(claim.use)
    BY DEF Status
  <1>4. CASE e.blocks[d].readOnly = "yes"
    <2>1. g.blocks[d].readOnly = "yes"
      BY <1>4 DEF Worse, physical
    <2> QED
      BY <2>1 DEF Status
  <1>5. CASE \E claim \in ClaimsOn(e, Traces(e), d) : protects(claim.use)
    <2>1. PICK claim \in ClaimsOn(e, Traces(e), d) : protects(claim.use)
      BY <1>5
    <2>2. /\ claim \in Claims(e) /\ claim.consumer \in Nodes(e)
          /\ d \in Traces(e)[claim.consumer].owners
      BY <2>1, TracesAreOfNodes DEF ClaimsOn
    <2>3. d \in Traces(g)[claim.consumer].owners
      BY <1>2, <2>2, OwnersStay
    <2>4. claim \in Claims(g) /\ claim.consumer \in DOMAIN Traces(g)
      BY <2>2, WorseNodes, TracesAreOfNodes
    <2>5. claim \in ClaimsOn(g, Traces(g), d)
      BY <2>3, <2>4 DEF ClaimsOn
    <2> QED
      BY <2>1, <2>5 DEF Status
  <1> QED
    BY <1>3, <1>4, <1>5

\* On evidence on which a disk is READY every issue is settled or about other disks,
\* so that no edge to a disk is missing and none comes from one.
LEMMA ReadyIsWellFormed ==
    ASSUME NEW g, NEW d \in physical(g), Status(g, Traces(g), d) = "Ready"
    PROVE  /\ \A p \in Partitions(g) : OnDisk(g, p)
           /\ \A o \in physical(g) : parents(g, o) = {}
  <1>1. \A issue \in Issues(g) :
            issue.source = "inactive_membership" \/ separateOwner(Traces(g), issue.node, d)
    BY ReadyRequires DEF coverage_complete
  <1>2. ASSUME NEW n \in Nodes(g), [node |-> n, source |-> "graph"] \in Issues(g)
        PROVE  FALSE
    <2>1. n \in Incomplete(g)
      BY <1>2 DEF Incomplete
    <2>2. n \in DOMAIN Graph(g).onward /\ n \in Reached(Graph(g).onward, n)
      BY TraceOfNode
    <2>3. n \in Broken(Graph(g))
      BY <2>1, <2>2, GraphIsClosed DEF Broken
    <2>4. ~Traces(g)[n].topology
      BY <2>2, <2>3, TraceOfNode
    <2>5. separateOwner(Traces(g), n, d)
      BY <1>1, <1>2
    <2> QED
      BY <2>4, <2>5 DEF separateOwner
  <1>3. ASSUME NEW p \in Partitions(g), ~OnDisk(g, p)
        PROVE  FALSE
    <2>1. [node |-> p, source |-> "graph"] \in Issues(g)
      BY <1>3 DEF Issues
    <2>2. p \in Nodes(g)
      BY DEF Partitions, Nodes
    <2> QED
      BY <1>2, <2>1, <2>2
  <1>4. ASSUME NEW o \in physical(g), parents(g, o) # {}
        PROVE  FALSE
    <2>1. [node |-> o, source |-> "graph"] \in Issues(g)
      BY <1>4 DEF Issues
    <2> QED
      BY <1>2, <2>1, TracesAreOfNodes
  <1> QED
    BY <1>3, <1>4

\* Then whatever breaks the topology of a trace on the better evidence breaks it on
\* the worse.
LEMMA ReadyKeepsBreaks ==
    ASSUME NEW e, NEW g, Worse(g, e), NEW d \in physical(g), Status(g, Traces(g), d) = "Ready"
    PROVE  /\ Edges(e) \subseteq Edges(g)
           /\ Issues(e) \subseteq Issues(g)
           /\ Broken(Graph(e)) \subseteq Broken(Graph(g))
           /\ Graph(e).unusable \subseteq Graph(g).unusable
  <1>1. /\ Nodes(g) = Nodes(e) /\ physical(g) = physical(e) /\ Partitions(g) = Partitions(e)
    BY WorseNodes
  <1>2. /\ \A p \in Partitions(g) : OnDisk(g, p)
        /\ \A o \in physical(g) : parents(g, o) = {}
    BY ReadyIsWellFormed
  <1>3. \A p \in Partitions(e) : OnDisk(e, p) /\ g.blocks[p].parent = e.blocks[p].parent
    BY <1>1, <1>2 DEF OnDisk, Worse, Partitions
  <1>4. {<<p, g.blocks[p].parent>> : p \in {q \in Partitions(g) : OnDisk(g, q)}}
            = {<<p, e.blocks[p].parent>> : p \in {q \in Partitions(e) : OnDisk(e, q)}}
    BY <1>1, <1>2, <1>3
  <1>5. /\ Edges(e) \subseteq Edges(g)
        /\ \A edge \in Edges(g) :
              edge \in Edges(e) \/ parents(e, edge[1]) # {} \/ edge[1] \in physical(e)
    BY <1>4 DEF Edges, Worse
  <1>6. ASSUME NEW n, n \notin physical(e), parents(e, n) = {}
        PROVE  parents(g, n) = {}
    BY <1>5, <1>6 DEF parents
  <1>7. Dangling(e) \subseteq Dangling(g) /\ duplicates(e) \subseteq duplicates(g)
    BY <1>1, <1>5 DEF Dangling, duplicates, Worse
  <1>8. \A o \in physical(e) : parents(e, o) = {}
    BY <1>1, <1>2, <1>5 DEF parents
  <1>9. Issues(e) \subseteq Issues(g)
    BY <1>3, <1>7, <1>8 DEF Issues, Worse
  <1>10. Incomplete(e) \subseteq Incomplete(g)
    <2>1. {issue.node : issue \in Issues(e)} \subseteq {issue.node : issue \in Issues(g)}
      BY <1>9
    <2>2. {edge[2] : edge \in Dangling(e)} \subseteq {edge[2] : edge \in Dangling(g)}
      BY <1>7
    <2> QED
      BY <2>1, <2>2 DEF Incomplete, Worse
  <1> DEFINE old == Graph(e)
             new == Graph(g)
  <1>11. /\ DOMAIN old.onward \subseteq DOMAIN new.onward
         /\ \A m \in DOMAIN old.onward : old.onward[m] \subseteq new.onward[m]
    <2>1. \A n \in Nodes(e) : DOMAIN old.onward \subseteq DOMAIN new.onward
      BY <1>5, OwnersStay
    <2>2. d \in Nodes(e)
      BY <1>1, TracesAreOfNodes
    <2> QED
      BY <1>5, <2>1, <2>2, OwnersStay
  <1>12. old.tainted \subseteq new.tainted
    <2>1. old.tainted = (DOMAIN old.onward \ Nodes(e)) \cup (DOMAIN old.onward \cap Incomplete(e))
      BY DEF Graph
    <2>2. new.tainted = (DOMAIN new.onward \ Nodes(g)) \cup (DOMAIN new.onward \cap Incomplete(g))
      BY DEF Graph
    <2> HIDE DEF old, new
    <2> QED
      BY <1>1, <1>10, <1>11, <2>1, <2>2
  <1>13. Rootless(old) \subseteq Rootless(new)
    <2> SUFFICES ASSUME NEW n \in Rootless(old)
                 PROVE  n \in Rootless(new)
      OBVIOUS
    <2>1. n \in DOMAIN old.onward /\ n \notin physical(e) /\ old.onward[n] = {}
      BY GraphIsClosed DEF Rootless
    <2>2. parents(e, n) = {}
      BY <2>1, GraphIsClosed
    <2>3. n \in DOMAIN new.onward /\ new.onward[n] = {}
      BY <1>6, <1>11, <2>1, <2>2, GraphIsClosed
    <2> QED
      BY <1>1, <2>1, <2>3, GraphIsClosed DEF Rootless
  <1>14. Circling(old.onward) \subseteq Circling(new.onward)
    <2> HIDE DEF old, new
    <2> SUFFICES ASSUME NEW S \in SUBSET DOMAIN old.onward, \A m \in S : old.onward[m] \cap S # {}
                 PROVE  S \in SUBSET DOMAIN new.onward /\ \A m \in S : new.onward[m] \cap S # {}
      BY DEF Circling
    <2> QED
      BY <1>11
  <1>15. old.unusable \subseteq new.unusable
    <2>1. old.unusable = {o \in physical(e) : ~(e.blocks[o].resolved /\ e.blocks[o].path)}
      BY DEF Graph
    <2>2. new.unusable = {o \in physical(g) : ~(g.blocks[o].resolved /\ g.blocks[o].path)}
      BY DEF Graph
    <2> HIDE DEF old, new
    <2> QED
      BY <1>1, <2>1, <2>2 DEF Worse, physical
  <1> HIDE DEF old, new
  <1>16. Broken(old) \subseteq Broken(new)
    BY <1>12, <1>13, <1>14 DEF Broken
  <1> QED
    BY <1>5, <1>9, <1>15, <1>16 DEF old, new

\* No disk is READY on worse evidence that is not READY on the better.
LEMMA WorseClearsNothing ==
    ASSUME NEW e, NEW g, NEW h, Known(e, h), Known(g, h), Worse(g, e),
           NEW d \in physical(e), Status(g, Traces(g), d) = "Ready"
    PROVE  Status(e, Traces(e), d) = "Ready"
  <1> DEFINE s == Traces(e)
             t == Traces(g)
  <1>1. /\ Nodes(g) = Nodes(e) /\ physical(g) = physical(e)
        /\ Claims(e) \subseteq Claims(g) /\ MembershipClaims(g) = MembershipClaims(e)
        /\ DOMAIN s = Nodes(e) /\ DOMAIN t = Nodes(e)
        /\ DOMAIN e.blocks \subseteq Nodes(e) /\ d \in Nodes(e)
    BY WorseNodes, TracesAreOfNodes DEF Nodes, physical
  <1>2. /\ Edges(e) \subseteq Edges(g) /\ Issues(e) \subseteq Issues(g)
        /\ Broken(Graph(e)) \subseteq Broken(Graph(g))
        /\ Graph(e).unusable \subseteq Graph(g).unusable
    BY <1>1, ReadyKeepsBreaks
  <1>3. ASSUME NEW n \in Nodes(e)
        PROVE  /\ s[n].owners \subseteq t[n].owners
               /\ s[n].faults \subseteq t[n].faults
               /\ t[n].topology => s[n].topology /\ s[n].owners # {}
    <2>1. /\ Reached(Graph(e).onward, n) \subseteq Reached(Graph(g).onward, n)
          /\ s[n].owners \subseteq t[n].owners
      BY <1>2, OwnersStay
    <2>2. /\ s[n].faults = Reached(Graph(e).onward, n) \cap (Broken(Graph(e)) \cup Graph(e).unusable)
          /\ s[n].topology <=> Reached(Graph(e).onward, n) \cap Broken(Graph(e)) = {}
      BY TraceOfNode
    <2>3. n \in Nodes(g)
      BY <1>1
    <2>4. /\ t[n].faults = Reached(Graph(g).onward, n) \cap (Broken(Graph(g)) \cup Graph(g).unusable)
          /\ t[n].topology <=> Reached(Graph(g).onward, n) \cap Broken(Graph(g)) = {}
      BY <2>3, TraceOfNode
    <2>5. s[n].topology => s[n].owners # {}
      BY CompleteHasOwners
    <2> HIDE DEF s, t
    <2> QED
      BY <1>2, <2>1, <2>2, <2>4, <2>5
  <1>4. /\ ~local_unknown(g, t, d) /\ ClaimsOn(g, t, d) = {} /\ coverage_complete(g, t, d)
        /\ ~unknown_usage(g, t) /\ signatures_complete(g, t, d) /\ clean(g, d)
        /\ g.blocks[d].scope = "WholeDevice"
    BY ReadyRequires
  <1> HIDE DEF s, t
  <1>5. \A n : separateOwner(t, n, d) => separateOwner(s, n, d)
    BY <1>1, <1>3 DEF separateOwner
  <1>6. ~local_unknown(e, s, d)
    <2>1. s[d].faults = {}
      BY <1>1, <1>3, <1>4 DEF local_unknown
    <2>2. \A n \in Nodes(e) : ownerReasons(s, n, d) \subseteq ownerReasons(t, n, d)
      BY <1>3, <1>5 DEF ownerReasons
    <2>3. \A n \in Nodes(e) : d \in s[n].owners => ownerReasons(s, n, d) = {}
      BY <1>1, <1>3, <1>4, <2>2 DEF local_unknown
    <2> QED
      BY <1>1, <1>3, <1>4, <2>1, <2>3 DEF local_unknown, Worse
  <1>7. ClaimsOn(e, s, d) = {}
    BY <1>1, <1>3, <1>4 DEF ClaimsOn
  <1>8. coverage_complete(e, s, d)
    <2>1. host_coverage(e)
      <3> SUFFICES ASSUME NEW source \in Sources \ {"inactive_membership"}
                   PROVE  source \in e.covered \/ \E gap \in e.gaps : gap.source = source
        BY DEF host_coverage
      <3>1. source \in g.covered \/ \E gap \in g.gaps : gap.source = source
        BY <1>4 DEF coverage_complete, host_coverage
      <3> QED
        BY <3>1 DEF Worse, MayListGaps, Gapless
    <2>2. \A gap \in e.gaps : separateOwner(s, gap.node, d)
      BY <1>4, <1>5 DEF coverage_complete, Worse
    <2>3. \A issue \in Issues(e) :
            issue.source = "inactive_membership" \/ separateOwner(s, issue.node, d)
      BY <1>2, <1>4, <1>5 DEF coverage_complete
    <2>4. \A issue : /\ harmlessMountIssue(g, issue) <=> harmlessMountIssue(e, issue)
                     /\ superseded(g, issue.node) <=> superseded(e, issue.node)
      BY DEF harmlessMountIssue, superseded, Worse
    <2>5. \A issue \in e.discovery :
            \/ harmlessMountIssue(e, issue)
            \/ issue.about = "signature" /\ superseded(e, issue.node)
            \/ separateOwner(s, issue.node, d)
      <3>1. e.discovery \subseteq g.discovery
        BY DEF Worse
      <3> QED
        BY <1>4, <1>5, <2>4, <3>1 DEF coverage_complete
    <2> QED
      BY <2>1, <2>2, <2>3, <2>5 DEF coverage_complete
  <1>9. ~unknown_usage(e, s)
    <2>1. \A n \in DOMAIN s \ e.loops : s[n].topology
      BY <1>1, <1>3, <1>4 DEF unknown_usage, Worse
    <2>2. \A i \in DOMAIN e.mounts : ~Unattributed(e, i)
      <3> SUFFICES ASSUME NEW i \in DOMAIN e.mounts, Unattributed(e, i)
                   PROVE  FALSE
        OBVIOUS
      <3>1. i \in 1..Len(e.mounts) /\ e.mounts[i].id = i
        BY LenProperties DEF Known
      <3>2. \A claim \in g.claims \cup MembershipClaims(g) : claim.row = 0
        BY DEF Known, MembershipClaims
      <3>3. g.mounts = e.mounts
        BY DEF Worse
      <3>4. Unattributed(g, i)
        <4>1. \A claim \in g.claims \cup MembershipClaims(g) : claim.row # g.mounts[i].id
          BY <3>1, <3>2, <3>3, LenProperties DEF Known
        <4> QED
          BY <3>3, <4>1 DEF Unattributed
      <3> QED
        BY <1>4, <3>3, <3>4 DEF unknown_usage
    <2>3. NoNode \notin e.swaps
      BY <1>4 DEF unknown_usage, Worse
    <2>4. \A claim \in Claims(e) : claim.consumer \in DOMAIN s /\ s[claim.consumer].topology
      BY <1>1, <1>3, <1>4 DEF unknown_usage
    <2> QED
      BY <2>1, <2>2, <2>3, <2>4 DEF unknown_usage
  <1>10. signatures_complete(e, s, d)
    <2> SUFFICES ASSUME NEW b \in DOMAIN e.blocks, d \in s[b].owners
                 PROVE  b \in DOMAIN e.fresh /\ e.fresh[b] \in {"None", "Filesystem"}
                        /\ IssuesSettled(e, b)
      BY DEF signatures_complete
    <2>1. b \in DOMAIN g.fresh /\ g.fresh[b] \in {"None", "Filesystem"} /\ IssuesSettled(g, b)
      BY <1>1, <1>3, <1>4 DEF signatures_complete, Worse
    <2>2. superseded(g, b) <=> superseded(e, b)
      BY DEF superseded, Worse
    <2>3. g.blocks[b].issues = e.blocks[b].issues \/ "observation" \in g.blocks[b].issues
      BY DEF Worse
    <2>4. IssuesSettled(e, b)
      BY <2>1, <2>2, <2>3 DEF IssuesSettled
    <2> QED
      BY <2>1, <2>4 DEF Worse
  <1>11. d \in DOMAIN e.blocks
    BY DEF physical
  <1>12. clean(e, d) /\ e.blocks[d].scope = "WholeDevice"
    BY <1>4, <1>11 DEF clean, Worse
  <1>13. e.blocks[d].readOnly # "yes" /\ ~\E claim \in ClaimsOn(e, s, d) : protects(claim.use)
    BY <1>7, <1>12 DEF clean
  <1> QED
    BY <1>6, <1>7, <1>8, <1>9, <1>10, <1>12, <1>13 DEF Status, s

-----------------------------------------------------------------------------
(* The reports. *)

\* One field more, or one block device that is known less of, is worse.
LEMMA ReportsAreWorse ==
    ASSUME NEW e, NEW h, Known(e, h)
    PROVE  /\ \A X : /\ Worse([e EXCEPT !.issues = @ \cup X], e)
                     /\ Worse([e EXCEPT !.discovery = @ \cup X], e)
                     /\ Worse([e EXCEPT !.twice = @ \cup X], e)
                     /\ Worse([e EXCEPT !.claims = @ \cup X], e)
           /\ \A X : (\A gap \in X : MayListGaps(e, gap.source)) =>
                Worse([e EXCEPT !.gaps = @ \cup X], e)
           /\ \A X : (\A edge \in X : parents(e, edge[1]) # {} \/ edge[1] \in physical(e)) =>
                Worse([e EXCEPT !.edges = @ \cup X], e)
           /\ \A b \in DOMAIN e.blocks :
                /\ Worse([e EXCEPT !.blocks[b].scope = "NvmeNamespace"], e)
                /\ Worse([e EXCEPT !.blocks[b].sized = FALSE], e)
                /\ Worse([e EXCEPT !.blocks[b].reciprocal = FALSE], e)
                /\ Worse([e EXCEPT !.blocks[b].resolved = FALSE], e)
                /\ Worse([e EXCEPT !.blocks[b].path = FALSE], e)
                /\ Worse([e EXCEPT !.blocks[b].issues = {"observation"}], e)
                /\ e.blocks[b].readOnly = "no" => \A r \in {"yes", "unknown"} :
                        Worse([e EXCEPT !.blocks[b].readOnly = r], e)
  <1> USE DEF Known, Fields
  <1>1. ASSUME NEW X
        PROVE  /\ Worse([e EXCEPT !.issues = @ \cup X], e)
               /\ Worse([e EXCEPT !.discovery = @ \cup X], e)
               /\ Worse([e EXCEPT !.twice = @ \cup X], e)
               /\ Worse([e EXCEPT !.claims = @ \cup X], e)
    BY DEF Worse
  <1>2. ASSUME NEW X, \A gap \in X : MayListGaps(e, gap.source)
        PROVE  Worse([e EXCEPT !.gaps = @ \cup X], e)
    BY <1>2 DEF Worse
  <1>3. ASSUME NEW X, \A edge \in X : parents(e, edge[1]) # {} \/ edge[1] \in physical(e)
        PROVE  Worse([e EXCEPT !.edges = @ \cup X], e)
    BY <1>3 DEF Worse
  <1>4. ASSUME NEW b \in DOMAIN e.blocks
        PROVE  /\ Worse([e EXCEPT !.blocks[b].scope = "NvmeNamespace"], e)
               /\ Worse([e EXCEPT !.blocks[b].sized = FALSE], e)
               /\ Worse([e EXCEPT !.blocks[b].reciprocal = FALSE], e)
               /\ Worse([e EXCEPT !.blocks[b].resolved = FALSE], e)
               /\ Worse([e EXCEPT !.blocks[b].path = FALSE], e)
               /\ Worse([e EXCEPT !.blocks[b].issues = {"observation"}], e)
               /\ e.blocks[b].readOnly = "no" => \A r \in {"yes", "unknown"} :
                        Worse([e EXCEPT !.blocks[b].readOnly = r], e)
    <2>1. ASSUME NEW block, block.role = e.blocks[b].role, block.parent = e.blocks[b].parent,
                 block.kind = e.blocks[b].kind,
                 block.reciprocal => e.blocks[b].reciprocal,
                 block.resolved => e.blocks[b].resolved,
                 block.path => e.blocks[b].path,
                 block.sized => e.blocks[b].sized,
                 block.scope = "WholeDevice" => e.blocks[b].scope = "WholeDevice",
                 e.blocks[b].readOnly = "yes" => block.readOnly = "yes",
                 block.readOnly = "no" => e.blocks[b].readOnly = "no",
                 block.issues = e.blocks[b].issues \/ "observation" \in block.issues
          PROVE  Worse([e EXCEPT !.blocks[b] = block], e)
      BY <2>1 DEF Worse
    <2>2. e.blocks[b] \in BlockType
      OBVIOUS
    <2> QED
      BY <2>1, <2>2, ZenonT(40) DEF BlockType
  <1> QED
    BY <1>1, <1>2, <1>3, <1>4

LEMMA AlarmsAreWorse ==
    ASSUME HonestInv, Alarm \/ \E d \in physical(evidence) : DoubtIdentity(d)
    PROVE  Worse(evidence', evidence)
  <1> DEFINE e == evidence
  <1>1. Known(e, host)
    BY DEF HonestInv
  <1>2. CASE AlarmIssue
    <2>1. \/ \E X : evidence' = [e EXCEPT !.issues = @ \cup X]
          \/ \E X : evidence' = [e EXCEPT !.discovery = @ \cup X]
          \/ \E X : evidence' = [e EXCEPT !.twice = @ \cup X]
          \/ \E n : /\ MayListGaps(e, "processes")
                    /\ evidence' = [e EXCEPT !.gaps = @ \cup {[node |-> n, source |-> "processes"]}]
      BY <1>2 DEF AlarmIssue, Assess
    <2>2. ASSUME NEW n, MayListGaps(e, "processes"),
                 evidence' = [e EXCEPT !.gaps = @ \cup {[node |-> n, source |-> "processes"]}]
          PROVE  Worse(evidence', e)
      <3> DEFINE X == {[node |-> n, source |-> "processes"]}
      <3>1. (\A gap \in X : MayListGaps(e, gap.source)) /\ evidence' = [e EXCEPT !.gaps = @ \cup X]
        BY <2>2
      <3> HIDE DEF X
      <3> QED
        BY <1>1, <3>1, ReportsAreWorse
    <2>3. \A X : /\ Worse([e EXCEPT !.issues = @ \cup X], e)
                 /\ Worse([e EXCEPT !.discovery = @ \cup X], e)
                 /\ Worse([e EXCEPT !.twice = @ \cup X], e)
      BY <1>1, ReportsAreWorse
    <2> QED
      BY <2>1, <2>2, <2>3
  <1>3. CASE AlarmUse
    <2>1. \E X : evidence' = [e EXCEPT !.claims = @ \cup X]
      BY <1>3 DEF AlarmUse, Assess
    <2>2. \A X : Worse([e EXCEPT !.claims = @ \cup X], e)
      BY <1>1, ReportsAreWorse
    <2> QED
      BY <2>1, <2>2
  <1>4. CASE AlarmEdge
    <2>1. PICK n, p : /\ parents(e, n) # {} \/ n \in physical(e)
                      /\ evidence' = [e EXCEPT !.edges = @ \cup {<<n, p>>}]
      BY <1>4 DEF AlarmEdge, Assess
    <2> DEFINE X == {<<n, p>>}
    <2>2. \A edge \in X : parents(e, edge[1]) # {} \/ edge[1] \in physical(e)
      BY <2>1
    <2>3. evidence' = [e EXCEPT !.edges = @ \cup X]
      BY <2>1
    <2> HIDE DEF X
    <2> QED
      BY <1>1, <2>2, <2>3, ReportsAreWorse
  <1>5. CASE AlarmBlock
    <2>1. PICK b \in DOMAIN e.blocks :
            \/ evidence' = [e EXCEPT !.blocks[b].scope = "NvmeNamespace"]
            \/ evidence' = [e EXCEPT !.blocks[b].sized = FALSE]
            \/ evidence' = [e EXCEPT !.blocks[b].reciprocal = FALSE]
            \/ evidence' = [e EXCEPT !.blocks[b].issues = {"observation"}]
            \/ /\ e.blocks[b].readOnly = "no"
               /\ \E r \in {"yes", "unknown"} : evidence' = [e EXCEPT !.blocks[b].readOnly = r]
      BY <1>5 DEF AlarmBlock, Assess
    <2>2. /\ Worse([e EXCEPT !.blocks[b].scope = "NvmeNamespace"], e)
          /\ Worse([e EXCEPT !.blocks[b].sized = FALSE], e)
          /\ Worse([e EXCEPT !.blocks[b].reciprocal = FALSE], e)
          /\ Worse([e EXCEPT !.blocks[b].issues = {"observation"}], e)
          /\ e.blocks[b].readOnly = "no" => \A r \in {"yes", "unknown"} :
                Worse([e EXCEPT !.blocks[b].readOnly = r], e)
      BY <1>1, ReportsAreWorse
    <2> QED
      BY <2>1, <2>2
  <1>6. CASE \E d \in physical(e) : DoubtIdentity(d)
    <2>1. PICK d \in physical(e) :
            \/ evidence' = [e EXCEPT !.blocks[d].resolved = FALSE]
            \/ evidence' = [e EXCEPT !.blocks[d].path = FALSE]
      BY <1>6 DEF DoubtIdentity, Assess
    <2>2. d \in DOMAIN e.blocks
      BY DEF physical
    <2>3. /\ Worse([e EXCEPT !.blocks[d].resolved = FALSE], e)
          /\ Worse([e EXCEPT !.blocks[d].path = FALSE], e)
      BY <1>1, <2>2, ReportsAreWorse
    <2> QED
      BY <2>1, <2>3
  <1> QED
    BY <1>2, <1>3, <1>4, <1>5, <1>6 DEF Alarm

LEMMA DoubtIsDoubt ==
    ASSUME HonestInv, NEW d \in physical(evidence), DoubtIdentity(d)
    PROVE  Doubted(evidence', evidence, d)
  <1> DEFINE e == evidence
  <1>1. Known(e, host) /\ d \in DOMAIN e.blocks
    BY DEF HonestInv, physical
  <1>2. \/ evidence' = [e EXCEPT !.blocks[d].resolved = FALSE]
        \/ evidence' = [e EXCEPT !.blocks[d].path = FALSE]
    BY DEF DoubtIdentity, Assess
  <1>3. ASSUME NEW block, block.role = e.blocks[d].role, block.parent = e.blocks[d].parent,
               block.reciprocal = e.blocks[d].reciprocal, block.kind = e.blocks[d].kind,
               block.scope = e.blocks[d].scope, block.readOnly = e.blocks[d].readOnly,
               block.sized = e.blocks[d].sized, block.issues = e.blocks[d].issues,
               ~(block.resolved /\ block.path)
        PROVE  Doubted([e EXCEPT !.blocks[d] = block], e, d)
    BY <1>1, <1>3 DEF Doubted, Known, Fields
  <1>4. e.blocks[d] \in BlockType
    BY <1>1 DEF Known
  <1>5. Doubted([e EXCEPT !.blocks[d].resolved = FALSE], e, d)
    BY <1>3, <1>4 DEF BlockType
  <1>6. Doubted([e EXCEPT !.blocks[d].path = FALSE], e, d)
    BY <1>3, <1>4 DEF BlockType
  <1> QED
    BY <1>2, <1>5, <1>6

\* The counters stay in their bounds.
CountersOK == losses \in Nat /\ alarms \in 0..MaxAlarms /\ losses + alarms <= MaxFaults

LEMMA CountersInitially ==
    ASSUME Init
    PROVE  CountersOK
  BY OwnershipCaptureAssumption DEF Init, CountersOK

LEMMA CountersAlways ==
    ASSUME CountersOK, [Next]_captureVars
    PROVE  CountersOK'
  <1> USE OwnershipCaptureAssumption DEF CountersOK
  <1>1. CASE ReadFact
    BY <1>1 DEF ReadFact
  <1>2. CASE LoseFact
    BY <1>2 DEF LoseFact
  <1>3. CASE Alarm
    BY <1>3 DEF Alarm
  <1>4. CASE \E d \in physical(evidence) : DoubtIdentity(d)
    BY <1>4 DEF DoubtIdentity
  <1>5. CASE UNCHANGED captureVars
    BY <1>5 DEF captureVars
  <1> QED
    BY <1>1, <1>2, <1>3, <1>4, <1>5 DEF Next

\* A step that counts a report is one, and HonestInv holds on both sides of it.
LEMMA ReportedSteps ==
    ASSUME HonestInv, CountersOK, [Next]_captureVars, alarms' > alarms
    PROVE  Alarm \/ \E d \in physical(evidence) : DoubtIdentity(d)
  BY DEF Next, ReadFact, LoseFact, captureVars, CountersOK

\* The verdict on every disk before and after a step.
LEMMA StatusOfVerdicts ==
    ASSUME HonestInv, HonestInv'
    PROVE  /\ \A d \in DOMAIN verdicts :
                d \in physical(evidence) /\ verdicts[d] = Status(evidence, Traces(evidence), d)
           /\ \A d \in DOMAIN verdicts' :
                d \in physical(evidence') /\ verdicts'[d] = Status(evidence', Traces(evidence'), d)
  <1>1. verdicts = Verdicts(evidence, Traces(evidence))
    BY DEF HonestInv
  <1>2. verdicts' = Verdicts(evidence', Traces(evidence'))
    BY DEF HonestInv
  <1>3. \A e : /\ DOMAIN Verdicts(e, Traces(e)) \subseteq physical(e)
               /\ \A d \in DOMAIN Verdicts(e, Traces(e)) :
                    Verdicts(e, Traces(e))[d] = Status(e, Traces(e), d)
    BY DEF Verdicts
  <1> QED
    BY <1>1, <1>2, <1>3

\* No report, of whatever kind, makes a disk READY, nor a PROTECTED one BUSY unless
\* a partition is no longer known to be its own (core/ownership_graph.cpp:376-460).
THEOREM WorseEvidenceClearsNothing == CaptureSpec => WorseEvidenceNeverClears
  <1>1. Init => HonestInv /\ CountersOK
    BY HonestInitially, CountersInitially
  <1>2. HonestInv /\ CountersOK /\ [Next]_captureVars => (HonestInv /\ CountersOK)'
    BY HonestAlways, CountersAlways
  <1>3. ASSUME HonestInv, CountersOK, HonestInv', [Next]_captureVars, alarms' > alarms,
               NEW d \in DOMAIN verdicts \cap DOMAIN verdicts'
        PROVE  /\ verdicts'[d] = "Ready" => verdicts[d] = "Ready"
               /\ verdicts'[d] = "Busy" =>
                    \/ verdicts[d] # "Protected"
                    \/ \E p \in Partitions(evidence) :
                            evidence.blocks[p].reciprocal /\ ~evidence'.blocks[p].reciprocal
    <2>1. Alarm \/ \E o \in physical(evidence) : DoubtIdentity(o)
      BY <1>3, ReportedSteps
    <2>2. Worse(evidence', evidence) /\ host' = host
      BY <1>3, <2>1, AlarmsAreWorse DEF Alarm, DoubtIdentity
    <2>3. Known(evidence, host) /\ Known(evidence', host)
      BY <1>3, <2>2 DEF HonestInv
    <2>4. /\ d \in physical(evidence) /\ verdicts[d] = Status(evidence, Traces(evidence), d)
          /\ verdicts'[d] = Status(evidence', Traces(evidence'), d)
      BY <1>3, StatusOfVerdicts
    <2>5. verdicts'[d] = "Ready" => verdicts[d] = "Ready"
      BY <2>2, <2>3, <2>4, WorseClearsNothing
    <2>6. ASSUME \A p \in Partitions(evidence) :
                    evidence.blocks[p].reciprocal => evidence'.blocks[p].reciprocal,
                 verdicts'[d] = "Busy"
          PROVE  verdicts[d] # "Protected"
      BY <2>2, <2>4, <2>6, WorseStaysProtected
    <2> QED
      BY <2>5, <2>6
  <1>4. HonestInv /\ CountersOK /\ HonestInv' /\ [Next]_captureVars =>
            [alarms' > alarms =>
                \A d \in DOMAIN verdicts \cap DOMAIN verdicts' :
                    /\ verdicts'[d] = "Ready" => verdicts[d] = "Ready"
                    /\ verdicts'[d] = "Busy" =>
                        \/ verdicts[d] # "Protected"
                        \/ \E p \in Partitions(evidence) :
                            evidence.blocks[p].reciprocal /\ ~evidence'.blocks[p].reciprocal
            ]_captureVars
    BY <1>3
  <1> QED
    BY <1>1, <1>2, <1>4, PTL DEF CaptureSpec, WorseEvidenceNeverClears

\* Doubt about the identity or the path of one disk changes the verdict on no other,
\* whatever they have in common (core/ownership_graph.cpp:279-293).
THEOREM DoubtStaysLocal == CaptureSpec => DoubtIsLocal
  <1>1. Init => HonestInv
    BY HonestInitially
  <1>2. HonestInv /\ [Next]_captureVars => HonestInv'
    BY HonestAlways
  <1>3. ASSUME HonestInv, HonestInv', NEW d \in physical(evidence), DoubtIdentity(d),
               NEW o \in DOMAIN verdicts \ {d}
        PROVE  verdicts'[o] = verdicts[o]
    <2>1. Doubted(evidence', evidence, d)
      BY <1>3, DoubtIsDoubt
    <2>2. o \in physical(evidence) /\ verdicts[o] = Status(evidence, Traces(evidence), o)
      BY <1>3, StatusOfVerdicts
    <2>3. o \in DOMAIN verdicts'
      <3>1. /\ verdicts = Verdicts(evidence, Traces(evidence))
            /\ verdicts' = Verdicts(evidence', Traces(evidence'))
        BY <1>3 DEF HonestInv
      <3>2. o \in physical(evidence') /\ evidence'.blocks[o] = evidence.blocks[o]
        BY <2>1, <2>2, DoubtedGraph DEF Doubted, physical
      <3>3. evidence.blocks[o].kind = "Disk"
        BY <1>3, <3>1 DEF Verdicts
      <3>4. o \in DOMAIN Verdicts(evidence', Traces(evidence'))
        BY <3>2, <3>3 DEF Verdicts
      <3> QED
        BY <3>1, <3>4
    <2>4. verdicts'[o] = Status(evidence', Traces(evidence'), o)
      BY <1>3, <2>3, StatusOfVerdicts
    <2>5. Status(evidence', Traces(evidence'), o) = Status(evidence, Traces(evidence), o)
      BY <2>1, <2>2, DoubtedVerdict
    <2> QED
      BY <2>2, <2>4, <2>5
  <1>4. HonestInv /\ HonestInv' /\ [Next]_captureVars =>
            [\A d \in physical(evidence) :
                DoubtIdentity(d) => \A o \in DOMAIN verdicts \ {d} : verdicts'[o] = verdicts[o]
            ]_captureVars
    BY <1>3
  <1> QED
    BY <1>1, <1>2, <1>4, PTL DEF CaptureSpec, DoubtIsLocal

-----------------------------------------------------------------------------
(* What the evidence shows. *)

\* The node is in use, or a member of an inactive group.
IsUsed(h, n) == \E f \in Used(h.facts) : f.node = n

\* Nothing but what is so was read.
Genuine(e, h) ==
    /\ e.blocks = h.blocks
    /\ \A edge \in e.edges : \E f \in Backing(h.facts) : edge = <<f.node, f.provider>>
    /\ \A claim \in e.claims : IsUsed(h, claim.consumer)
    /\ \A i \in DOMAIN e.mounts : e.mounts[i].node = NoNode \/ IsUsed(h, e.mounts[i].node)
    /\ \A n \in e.swaps : n = NoNode \/ IsUsed(h, n)
    /\ \A n \in DOMAIN e.fresh : e.fresh[n] = "Membership" => IsUsed(h, n)

\* The backing of a host has its facts and its partitions, and is closed.
LEMMA RealPairs ==
    ASSUME NEW h
    PROVE  /\ \A f \in Backing(h.facts) :
                f.node \in DOMAIN RealBacking(h) => f.provider \in RealBacking(h)[f.node]
           /\ \A p \in DOMAIN h.blocks :
                h.blocks[p].role = "Partition" /\ p \in DOMAIN RealBacking(h) =>
                    h.blocks[p].parent \in RealBacking(h)[p]
           /\ \A f \in Used(h.facts) : f.node \in DOMAIN RealBacking(h)
           /\ \A m \in DOMAIN RealBacking(h) : RealBacking(h)[m] \subseteq DOMAIN RealBacking(h)
  <1> DEFINE pairs == {<<f.node, f.provider>> : f \in Backing(h.facts)}
                        \cup {<<p, h.blocks[p].parent>> :
                                 p \in {b \in DOMAIN h.blocks : h.blocks[b].role = "Partition"}}
             keys == DOMAIN h.blocks \cup {f.node : f \in Used(h.facts)}
                        \cup UNION {{pair[1], pair[2]} : pair \in pairs}
  <1>1. RealBacking(h) = [m \in keys |-> {pair[2] : pair \in {q \in pairs : q[1] = m}}]
    BY DEF RealBacking
  <1>2. /\ \A f \in Backing(h.facts) : <<f.node, f.provider>> \in pairs
        /\ \A p \in DOMAIN h.blocks :
              h.blocks[p].role = "Partition" => <<p, h.blocks[p].parent>> \in pairs
        /\ \A f \in Used(h.facts) : f.node \in keys
        /\ \A pair \in pairs : pair[2] \in keys
    OBVIOUS
  <1> HIDE DEF pairs, keys
  <1>3. \A m \in keys : RealBacking(h)[m] \subseteq keys
    BY <1>1, <1>2
  <1>4. \A m \in keys : \A p : <<m, p>> \in pairs => p \in RealBacking(h)[m]
    BY <1>1
  <1> QED
    BY <1>1, <1>2, <1>3, <1>4

\* Every claim on genuine evidence is about something used.
LEMMA ClaimsAreOfUsed ==
    ASSUME NEW h, NEW e, Genuine(e, h), NEW claim \in Claims(e)
    PROVE  IsUsed(h, claim.consumer)
  <1>1. CASE claim \in e.claims
    BY <1>1 DEF Genuine
  <1>2. CASE claim \in MembershipClaims(e)
    BY <1>2 DEF MembershipClaims, Genuine
  <1>3. CASE claim \in MountClaims(e)
    BY <1>3 DEF MountClaims, Genuine
  <1>4. CASE claim \in SwapClaims(e)
    BY <1>4 DEF SwapClaims, Genuine
  <1> QED
    BY <1>1, <1>2, <1>3, <1>4 DEF Claims

\* A disk on which there is a claim on genuine evidence backs something used.
LEMMA ClaimsAreReal ==
    ASSUME NEW h, NEW e, Genuine(e, h), NEW d \in physical(e),
           NEW claim \in ClaimsOn(e, Traces(e), d)
    PROVE  ReallyUsed(h, d)
  <1> DEFINE n == claim.consumer
             real == RealBacking(h)
             onward == Graph(e).onward
             S == Reached(real, n) \cap DOMAIN onward
  <1>1. claim \in Claims(e) /\ n \in Nodes(e) /\ d \in Traces(e)[n].owners
    BY TracesAreOfNodes DEF ClaimsOn
  <1>2. IsUsed(h, n)
    BY <1>1, ClaimsAreOfUsed
  <1>3. PICK f \in Used(h.facts) : f.node = n
    BY <1>2 DEF IsUsed
  <1>4. n \in DOMAIN real /\ \A m \in DOMAIN real : real[m] \subseteq DOMAIN real
    BY <1>3, RealPairs
  <1>5. /\ n \in Reached(real, n) /\ Reached(real, n) \subseteq DOMAIN real
        /\ \A m \in Reached(real, n) : real[m] \subseteq Reached(real, n)
    BY <1>4, ReachedIsClosed
  <1>6. /\ n \in DOMAIN onward
        /\ \A m \in DOMAIN onward : /\ onward[m] \subseteq DOMAIN onward
                                    /\ onward[m] \subseteq parents(e, m)
    BY <1>1, GraphIsClosed
  <1>7. ASSUME NEW m \in DOMAIN real, NEW p \in parents(e, m)
        PROVE  p \in real[m]
    <2>1. PICK edge \in Edges(e) : edge[1] = m /\ p = edge[2]
      BY <1>7 DEF parents
    <2>2. CASE edge \in e.edges
      <3>1. PICK k \in Backing(h.facts) : edge = <<k.node, k.provider>>
        BY <2>2 DEF Genuine
      <3>2. k.node = m /\ k.provider = p
        BY <2>1, <3>1
      <3> QED
        BY <3>2, RealPairs
    <2>3. CASE edge \notin e.edges
      <3>1. PICK q \in Partitions(e) : edge = <<q, e.blocks[q].parent>>
        BY <2>3 DEF Edges
      <3>2. q = m /\ m \in DOMAIN h.blocks /\ h.blocks[m].role = "Partition"
            /\ p = h.blocks[m].parent
        BY <2>1, <3>1 DEF Partitions, Genuine
      <3> QED
        BY <3>2, RealPairs
    <2> QED
      BY <2>2, <2>3
  <1>8. n \in S /\ S \in SUBSET DOMAIN onward
    BY <1>5, <1>6
  <1>9. \A m \in S : onward[m] \subseteq S
    <2> TAKE m \in S
    <2>1. m \in DOMAIN real /\ m \in DOMAIN onward
      BY <1>5
    <2>2. onward[m] \subseteq real[m]
      BY <1>6, <1>7, <2>1
    <2> QED
      BY <1>5, <1>6, <2>1, <2>2
  <1>10. Reached(onward, n) \subseteq S
    <2> HIDE DEF S
    <2> QED
      BY <1>8, <1>9, ReachedIsLeast
  <1>11. d \in Reached(onward, n)
    BY <1>1, TraceOfNode
  <1> QED
    BY <1>3, <1>10, <1>11 DEF ReallyUsed, ReallyBacks

\* A disk is only BUSY or PROTECTED on genuine evidence if it is.
LEMMA GenuineUse ==
    ASSUME NEW h, NEW e, Genuine(e, h), NEW d \in physical(e),
           Status(e, Traces(e), d) \in {"Busy", "Protected"}
    PROVE  ReallyUsed(h, d) \/ h.blocks[d].readOnly = "yes"
  <1>1. e.blocks[d].readOnly = "yes" \/ ClaimsOn(e, Traces(e), d) # {}
    BY DEF Status
  <1>2. CASE e.blocks[d].readOnly = "yes"
    BY <1>2 DEF Genuine
  <1>3. ASSUME NEW claim \in ClaimsOn(e, Traces(e), d)
        PROVE  ReallyUsed(h, d)
    BY ClaimsAreReal
  <1> QED
    BY <1>1, <1>2, <1>3

-----------------------------------------------------------------------------
(* Reading keeps the evidence genuine, and everything its type. *)

Typed(e) ==
    /\ \A n \in DOMAIN e.fresh : e.fresh[n] \in FreshStates
    /\ \A claim \in e.claims : claim.use \in Uses

Keeps(g, e, h) ==
    /\ DOMAIN g = Fields
    /\ Typed(e) => Typed(g)
    /\ Genuine(e, h) => Genuine(g, h)

LEMMA KeepsTwice ==
    ASSUME NEW e, NEW f, NEW g, NEW h, Keeps(f, e, h), Keeps(g, f, h)
    PROVE  Keeps(g, e, h)
  BY DEF Keeps

\* Most fields are about neither.
LEMMA OtherFields ==
    ASSUME NEW e, NEW h, DOMAIN e = Fields, NEW X
    PROVE  \A g \in {[e EXCEPT !.nodes = X], [e EXCEPT !.twice = X], [e EXCEPT !.issues = X],
                     [e EXCEPT !.discovery = X], [e EXCEPT !.covered = X],
                     [e EXCEPT !.gaps = X]} : Keeps(g, e, h) /\ g.mounts = e.mounts
  <1> SUFFICES ASSUME NEW field \in {"nodes", "twice", "issues", "discovery", "covered", "gaps"},
                      NEW g, g = [e EXCEPT ![field] = X]
               PROVE  Keeps(g, e, h) /\ g.mounts = e.mounts
    OBVIOUS
  <1>1. DOMAIN g = Fields
    OBVIOUS
  <1>2. /\ g.blocks = e.blocks /\ g.edges = e.edges /\ g.claims = e.claims
        /\ g.mounts = e.mounts /\ g.swaps = e.swaps /\ g.fresh = e.fresh
    BY DEF Fields
  <1>3. Genuine(e, h) => Genuine(g, h)
    BY <1>2 DEF Genuine
  <1>4. Typed(e) => Typed(g)
    BY <1>2 DEF Typed
  <1> QED
    BY <1>1, <1>2, <1>3, <1>4 DEF Keeps

LEMMA NodesAreOther ==
    ASSUME NEW e, NEW h, DOMAIN e = Fields, NEW n, NEW complete
    PROVE  Keeps(WithNode(e, n, complete), e, h)
  <1> DEFINE X == [m \in DOMAIN e.nodes \cup {n} |->
                    (m \in DOMAIN e.nodes => e.nodes[m]) /\ (m = n => complete)]
  <1>1. WithNode(e, n, complete) = IF n \in DOMAIN e.blocks THEN e ELSE [e EXCEPT !.nodes = X]
    BY DEF WithNode
  <1> HIDE DEF X
  <1>2. Keeps([e EXCEPT !.nodes = X], e, h) /\ Keeps(e, e, h)
    BY OtherFields DEF Keeps
  <1> QED
    BY <1>1, <1>2

\* What is read is so, or is about nothing known.
LEMMA ReadingKeeps ==
    ASSUME NEW e, NEW h, DOMAIN e = Fields
    PROVE  /\ \A f \in Backing(h.facts) :
                Keeps([e EXCEPT !.edges = @ \cup {<<f.node, f.provider>>}], e, h)
           /\ \A n : n = NoNode \/ IsUsed(h, n) =>
                /\ Keeps([e EXCEPT !.swaps = @ \cup {n}], e, h)
                /\ (\E S : e.mounts \in Seq(S)) => Keeps(WithMount(e, n), e, h)
           /\ \A n : \A use \in Uses : IsUsed(h, n) =>
                Keeps([e EXCEPT !.claims = @ \cup {[consumer |-> n, use |-> use, row |-> 0]}], e, h)
           /\ \A n : \A state \in FreshStates : (state = "Membership" => IsUsed(h, n)) =>
                Keeps(WithSignature(e, n, state), e, h)
  <1>1. ASSUME NEW f \in Backing(h.facts)
        PROVE  Keeps([e EXCEPT !.edges = @ \cup {<<f.node, f.provider>>}], e, h)
    BY DEF Keeps, Typed, Genuine, Fields
  <1>2. ASSUME NEW n, n = NoNode \/ IsUsed(h, n)
        PROVE  Keeps([e EXCEPT !.swaps = @ \cup {n}], e, h)
    BY <1>2 DEF Keeps, Typed, Genuine, Fields
  <1>3. ASSUME NEW n, n = NoNode \/ IsUsed(h, n), NEW S, e.mounts \in Seq(S)
        PROVE  Keeps(WithMount(e, n), e, h)
    <2> DEFINE row == [id |-> Len(e.mounts) + 1, node |-> n, harmless |-> FALSE]
               g == WithMount(e, n)
    <2>1. /\ DOMAIN g = Fields /\ g.mounts = Append(e.mounts, row)
          /\ g.blocks = e.blocks /\ g.edges = e.edges /\ g.claims = e.claims
          /\ g.swaps = e.swaps /\ g.fresh = e.fresh
      BY DEF WithMount, Fields
    <2>2. row.node = n
      OBVIOUS
    <2> HIDE DEF row, g
    <2>3. /\ Len(e.mounts) \in Nat
          /\ DOMAIN g.mounts = 1..(Len(e.mounts) + 1) /\ DOMAIN e.mounts = 1..Len(e.mounts)
          /\ \A i \in DOMAIN e.mounts : g.mounts[i] = e.mounts[i]
          /\ g.mounts[Len(e.mounts) + 1] = row
      BY <1>3, <2>1
    <2>4. \A i \in DOMAIN g.mounts : i \in DOMAIN e.mounts \/ g.mounts[i] = row
      BY <2>3
    <2>5. Genuine(e, h) => Genuine(g, h)
      BY <1>3, <2>1, <2>2, <2>3, <2>4 DEF Genuine
    <2>6. Typed(e) => Typed(g)
      BY <2>1 DEF Typed
    <2> QED
      BY <2>1, <2>5, <2>6 DEF Keeps, g
  <1>4. ASSUME NEW n, NEW use \in Uses, IsUsed(h, n)
        PROVE  Keeps([e EXCEPT !.claims = @ \cup {[consumer |-> n, use |-> use, row |-> 0]}], e, h)
    BY <1>4 DEF Keeps, Typed, Genuine, Fields
  <1>5. ASSUME NEW n, NEW state \in FreshStates, state = "Membership" => IsUsed(h, n)
        PROVE  Keeps(WithSignature(e, n, state), e, h)
    BY <1>5 DEF Keeps, Typed, Genuine, Fields, WithSignature
  <1> QED
    BY <1>1, <1>2, <1>3, <1>4, <1>5

\* Whether facts are read or lost.
LEMMA FactsKeep ==
    ASSUME HonestInv, NEW f \in Range(host.facts),
           \/ ReadBacking(f) \/ ReadUse(f) \/ ReadSignature(f)
           \/ LoseBacking(f) \/ LoseUse(f) \/ LoseSignature(f)
    PROVE  Keeps(evidence', evidence, host)
  <1> DEFINE e == evidence
  <1>1. /\ HostAssumption(host) /\ DOMAIN e = Fields /\ \E S : e.mounts \in Seq(S)
    BY OwnershipCaptureAssumption DEF HonestInv, Known
  <1>2. /\ f.kind = "backing" => f \in Backing(host.facts)
        /\ f.kind = "use" => IsUsed(host, f.node) /\ f.use \in Uses
        /\ f.kind = "signature" /\ f.member => IsUsed(host, f.node)
    BY <1>1 DEF Backing, Used, IsUsed, HostAssumption
  <1>3. CASE ReadBacking(f)
    <2> DEFINE e1 == [e EXCEPT !.edges = @ \cup {<<f.node, f.provider>>}]
               e2 == WithNode(e1, f.node, TRUE)
               e3 == WithNode(e2, f.provider, TRUE)
    <2>1. f.kind = "backing" /\ evidence' = e3
      BY <1>3 DEF ReadBacking, Assess
    <2>2. Keeps(e1, e, host)
      BY <1>1, <1>2, <2>1, ReadingKeeps
    <2> HIDE DEF e1
    <2>3. Keeps(e2, e1, host)
      BY <2>2, NodesAreOther DEF Keeps
    <2> HIDE DEF e2
    <2>4. Keeps(e3, e2, host)
      BY <2>3, NodesAreOther DEF Keeps
    <2> HIDE DEF e3
    <2> QED
      BY <2>1, <2>2, <2>3, <2>4, KeepsTwice
  <1>4. CASE ReadUse(f)
    <2>1. /\ f.kind = "use"
          /\ \/ evidence' = WithMount(e, f.node)
             \/ evidence' = [e EXCEPT !.swaps = @ \cup {f.node}]
             \/ evidence' = [e EXCEPT
                    !.claims = @ \cup {[consumer |-> f.node, use |-> f.use, row |-> 0]}]
      BY <1>4 DEF ReadUse, Assess
    <2>2. \A n : IsUsed(host, n) =>
            /\ Keeps(WithMount(e, n), e, host)
            /\ Keeps([e EXCEPT !.swaps = @ \cup {n}], e, host)
      BY <1>1, ReadingKeeps
    <2>3. \A n : \A use \in Uses : IsUsed(host, n) =>
            Keeps([e EXCEPT !.claims = @ \cup {[consumer |-> n, use |-> use, row |-> 0]}], e, host)
      BY <1>1, ReadingKeeps
    <2>4. IsUsed(host, f.node) /\ f.use \in Uses
      BY <1>2, <2>1
    <2>5. CASE evidence' = WithMount(e, f.node)
      BY <2>2, <2>4, <2>5
    <2>6. CASE evidence' = [e EXCEPT !.swaps = @ \cup {f.node}]
      BY <2>2, <2>4, <2>6
    <2>7. CASE evidence' = [e EXCEPT
                  !.claims = @ \cup {[consumer |-> f.node, use |-> f.use, row |-> 0]}]
      BY <2>3, <2>4, <2>7
    <2> QED
      BY <2>1, <2>5, <2>6, <2>7
  <1>5. CASE ReadSignature(f)
    <2>1. /\ f.kind = "signature"
          /\ evidence' = WithSignature(e, f.node, IF f.member THEN "Membership" ELSE "Filesystem")
      BY <1>5 DEF ReadSignature, Assess
    <2>2. \A state \in FreshStates : (state = "Membership" => IsUsed(host, f.node)) =>
                Keeps(WithSignature(e, f.node, state), e, host)
      BY <1>1, ReadingKeeps
    <2>3. {"Membership", "Filesystem"} \subseteq FreshStates
      BY DEF FreshStates
    <2>4. CASE f.member
      BY <1>2, <2>1, <2>2, <2>3, <2>4
    <2>5. CASE ~f.member
      BY <2>1, <2>2, <2>3, <2>5
    <2> QED
      BY <2>4, <2>5
  <1>6. CASE LoseBacking(f)
    <2>1. CASE evidence' = [e EXCEPT !.covered = @ \ {"sysfs"},
                                     !.issues = @ \cup {[node |-> f.node, source |-> "sysfs"]}]
      <3> DEFINE X == e.covered \ {"sysfs"}
                 Y == e.issues \cup {[node |-> f.node, source |-> "sysfs"]}
                 e1 == [e EXCEPT !.covered = X]
                 e2 == [e1 EXCEPT !.issues = Y]
      <3>1. evidence' = e2
        BY <1>1, <2>1 DEF Fields
      <3> HIDE DEF X, Y
      <3>2. Keeps(e1, e, host)
        BY <1>1, OtherFields
      <3> HIDE DEF e1
      <3>3. Keeps(e2, e1, host)
        BY <3>2, OtherFields DEF Keeps
      <3> QED
        BY <3>1, <3>2, <3>3, KeepsTwice
    <2>2. CASE evidence' = WithNode([e EXCEPT
                    !.issues = @ \cup {[node |-> f.node, source |-> "zfs"]}], f.node, TRUE)
      <3> DEFINE Y == e.issues \cup {[node |-> f.node, source |-> "zfs"]}
                 e1 == [e EXCEPT !.issues = Y]
      <3>1. evidence' = WithNode(e1, f.node, TRUE)
        BY <2>2
      <3> HIDE DEF Y
      <3>2. Keeps(e1, e, host)
        BY <1>1, OtherFields
      <3> HIDE DEF e1
      <3>3. Keeps(WithNode(e1, f.node, TRUE), e1, host)
        BY <3>2, NodesAreOther DEF Keeps
      <3> QED
        BY <3>1, <3>2, <3>3, KeepsTwice
    <2>3. CASE evidence' = WithNode(e, f.node, FALSE)
      BY <1>1, <2>3, NodesAreOther
    <2> QED
      BY <1>6, <2>1, <2>2, <2>3 DEF LoseBacking, Assess
  <1>7. CASE LoseUse(f)
    <2>1. ASSUME NEW X, evidence' = WithMount([e EXCEPT !.discovery = X], NoNode)
          PROVE  Keeps(evidence', e, host)
      <3> DEFINE e1 == [e EXCEPT !.discovery = X]
      <3>1. Keeps(e1, e, host) /\ e1.mounts = e.mounts
        BY <1>1, OtherFields
      <3>2. evidence' = WithMount(e1, NoNode)
        BY <2>1
      <3> HIDE DEF e1
      <3>3. DOMAIN e1 = Fields /\ \E S : e1.mounts \in Seq(S)
        BY <1>1, <3>1 DEF Keeps
      <3>4. Keeps(WithMount(e1, NoNode), e1, host)
        BY <3>3, ReadingKeeps
      <3> QED
        BY <3>1, <3>2, <3>4, KeepsTwice
    <2>2. CASE evidence' = [e EXCEPT !.swaps = @ \cup {NoNode}]
      BY <1>1, <2>2, ReadingKeeps
    <2>3. CASE evidence' = [e EXCEPT !.covered = @ \ {f.source}]
      <3> DEFINE X == e.covered \ {f.source}
      <3>1. evidence' = [e EXCEPT !.covered = X]
        BY <2>3
      <3> HIDE DEF X
      <3> QED
        BY <1>1, <3>1, OtherFields
    <2>4. ASSUME NEW n, evidence' = [e EXCEPT !.covered = @ \ {f.source},
                                !.gaps = @ \cup {[node |-> n, source |-> f.source]}]
          PROVE  Keeps(evidence', e, host)
      <3> DEFINE X == e.covered \ {f.source}
                 Y == e.gaps \cup {[node |-> n, source |-> f.source]}
                 e1 == [e EXCEPT !.covered = X]
                 e2 == [e1 EXCEPT !.gaps = Y]
      <3>1. evidence' = e2
        BY <1>1, <2>4 DEF Fields
      <3> HIDE DEF X, Y
      <3>2. Keeps(e1, e, host)
        BY <1>1, OtherFields
      <3> HIDE DEF e1
      <3>3. Keeps(e2, e1, host)
        BY <3>2, OtherFields DEF Keeps
      <3> QED
        BY <3>1, <3>2, <3>3, KeepsTwice
    <2>5. CASE evidence' = WithMount([e EXCEPT
                    !.discovery = @ \cup {[node |-> NoNode, about |-> "mount",
                                           id |-> Len(e.mounts) + 1]}], NoNode)
      <3> DEFINE X == e.discovery \cup {[node |-> NoNode, about |-> "mount",
                                         id |-> Len(e.mounts) + 1]}
      <3>1. evidence' = WithMount([e EXCEPT !.discovery = X], NoNode)
        BY <2>5
      <3> HIDE DEF X
      <3> QED
        BY <2>1, <3>1
    <2> QED
      BY <1>7, <2>2, <2>3, <2>4, <2>5 DEF LoseUse, Assess
  <1>8. CASE LoseSignature(f)
    <2> DEFINE X == e.covered \ {"inactive_membership"}
               e1 == [e EXCEPT !.covered = X]
    <2>1. \/ evidence' = e1
          \/ \E state \in {"Unsupported", "Conflicting"} :
                evidence' = WithSignature(e1, f.node, state)
      BY <1>8 DEF LoseSignature, Assess
    <2> HIDE DEF X
    <2>2. Keeps(e1, e, host)
      BY <1>1, OtherFields
    <2> HIDE DEF e1
    <2>3. \A state \in {"Unsupported", "Conflicting"} :
                Keeps(WithSignature(e1, f.node, state), e1, host)
      BY <2>2, ReadingKeeps DEF Keeps, FreshStates
    <2> QED
      BY <2>1, <2>2, <2>3, KeepsTwice
  <1> QED
    BY <1>3, <1>4, <1>5, <1>6, <1>7, <1>8

\* A report keeps the types.
LEMMA ReportsKeepTypes ==
    ASSUME HonestInv, Typed(evidence), Alarm \/ \E d \in physical(evidence) : DoubtIdentity(d)
    PROVE  Typed(evidence')
  <1>1. Worse(evidence', evidence)
    BY AlarmsAreWorse
  <1>2. evidence'.fresh = evidence.fresh
    BY <1>1 DEF Worse
  <1>3. \A claim \in evidence'.claims : claim \in evidence.claims \/ claim.use \in Uses
    <2>1. DOMAIN evidence = Fields
      BY DEF HonestInv, Known
    <2>2. CASE AlarmUse
      <3>1. PICK use \in {"Held", "Mounted"} : \E n : evidence' = [evidence EXCEPT
                    !.claims = @ \cup {[consumer |-> n, use |-> use, row |-> 0]}]
        BY <2>2 DEF AlarmUse, Assess
      <3> QED
        BY <2>1, <3>1 DEF Uses, Fields
    <2>3. CASE AlarmIssue
      BY <2>1, <2>3 DEF AlarmIssue, Assess, Fields
    <2>4. CASE AlarmEdge
      BY <2>1, <2>4 DEF AlarmEdge, Assess, Fields
    <2>5. CASE AlarmBlock
      BY <2>1, <2>5 DEF AlarmBlock, Assess, Fields
    <2>6. CASE \E d \in physical(evidence) : DoubtIdentity(d)
      BY <2>1, <2>6 DEF DoubtIdentity, Assess, Fields
    <2> QED
      BY <2>2, <2>3, <2>4, <2>5, <2>6 DEF Alarm
  <1> QED
    BY <1>2, <1>3 DEF Typed

\* What is unread is the rest of the facts.
RestIsUnread ==
    unread \in {SubSeq(host.facts, i, Len(host.facts)) : i \in 1..(Len(host.facts) + 1)}

\* The invariant: as long as nothing is reported against disks, the evidence is genuine.
UseInv ==
    /\ HonestInv /\ CountersOK /\ RestIsUnread
    /\ Typed(evidence)
    /\ alarms = 0 => Genuine(evidence, host)

LEMMA UseInitially ==
    ASSUME Init
    PROVE  UseInv
  <1>1. HonestInv /\ CountersOK
    BY HonestInitially, CountersInitially
  <1>2. host.facts \in Seq(Range(host.facts)) /\ unread = host.facts
    BY OwnershipCaptureAssumption DEF Init
  <1>3. RestIsUnread
    <2>1. Len(host.facts) \in Nat /\ SubSeq(host.facts, 1, Len(host.facts)) = host.facts
      BY <1>2, SubSeqFull, LenProperties
    <2> QED
      BY <1>2, <2>1 DEF RestIsUnread
  <1>4. /\ evidence.blocks = host.blocks /\ evidence.edges = {} /\ evidence.claims = {}
        /\ evidence.mounts = <<>> /\ evidence.swaps = {} /\ evidence.fresh = <<>>
    BY DEF Init, Inventory
  <1>5. DOMAIN <<>> = {}
    OBVIOUS
  <1>6. Typed(evidence) /\ Genuine(evidence, host)
    BY <1>4, <1>5 DEF Typed, Genuine
  <1> QED
    BY <1>1, <1>3, <1>6 DEF UseInv

LEMMA UseAlways ==
    ASSUME UseInv, [Next]_captureVars
    PROVE  UseInv'
  <1>1. HonestInv' /\ CountersOK'
    BY HonestAlways, CountersAlways DEF UseInv
  <1>2. CASE ReadFact \/ LoseFact
    <2> DEFINE f == Head(unread)
    <2>1. /\ unread \in Seq(Range(host.facts)) /\ unread # <<>>
          /\ host' = host /\ unread' = Tail(unread) /\ alarms' = alarms
      BY <1>2 DEF UseInv, HonestInv, ReadFact, LoseFact
    <2>2. f \in Range(host.facts)
      BY <2>1, HeadTailProperties
    <2>3. \/ ReadBacking(f) \/ ReadUse(f) \/ ReadSignature(f)
          \/ LoseBacking(f) \/ LoseUse(f) \/ LoseSignature(f)
      BY <1>2 DEF ReadFact, LoseFact
    <2> HIDE DEF f
    <2>4. Keeps(evidence', evidence, host)
      BY <2>2, <2>3, FactsKeep DEF UseInv
    <2>5. RestIsUnread'
      <3>1. PICK i \in 1..(Len(host.facts) + 1) :
                unread = SubSeq(host.facts, i, Len(host.facts))
        BY DEF UseInv, RestIsUnread
      <3>2. host.facts \in Seq(Range(host.facts)) /\ Len(host.facts) \in Nat
        BY OwnershipCaptureAssumption, LenProperties DEF UseInv, HonestInv
      <3>3. i \in 1..Len(host.facts)
        <4> SUFFICES ASSUME i = Len(host.facts) + 1
                     PROVE  FALSE
          BY <3>1, <3>2
        <4> QED
          BY <2>1, <3>1, <3>2, SubSeqEmpty
      <3>4. Tail(unread) = SubSeq(host.facts, i + 1, Len(host.facts))
        BY <3>1, <3>2, <3>3, HeadTailOfSubSeq
      <3>5. i + 1 \in 1..(Len(host.facts) + 1)
        BY <3>2, <3>3
      <3> QED
        BY <2>1, <3>4, <3>5 DEF RestIsUnread
    <2> QED
      BY <1>1, <2>1, <2>4, <2>5 DEF UseInv, Keeps
  <1>3. CASE Alarm \/ \E d \in physical(evidence) : DoubtIdentity(d)
    <2>1. host' = host /\ unread' = unread /\ alarms' = alarms + 1
      BY <1>3 DEF Alarm, DoubtIdentity
    <2>2. alarms' # 0
      BY <2>1 DEF UseInv, CountersOK
    <2>3. Typed(evidence')
      BY <1>3, ReportsKeepTypes DEF UseInv
    <2> QED
      BY <1>1, <2>1, <2>2, <2>3 DEF UseInv, RestIsUnread
  <1>4. CASE UNCHANGED captureVars
    BY <1>1, <1>4 DEF captureVars, UseInv, RestIsUnread
  <1> QED
    BY <1>2, <1>3, <1>4 DEF Next

LEMMA GenuineMeansReal ==
    ASSUME UseInv
    PROVE  UseIsReal
  <1>1. /\ host \in Hosts /\ Known(evidence, host)
        /\ traces = Traces(evidence) /\ verdicts = Verdicts(evidence, traces)
    BY DEF UseInv, HonestInv
  <1>2. \A d \in DOMAIN verdicts :
            d \in physical(evidence) /\ verdicts[d] = Status(evidence, Traces(evidence), d)
    BY <1>1 DEF Verdicts
  <1>3. CaptureTypeOK
    <2>1. \A d \in DOMAIN verdicts : verdicts[d] \in {"Unknown", "Protected", "Busy", "Ready"}
      BY <1>2 DEF Status
    <2>2. DOMAIN traces = Nodes(evidence)
      BY <1>1, TracesAreOfNodes
    <2>3. \A b \in DOMAIN evidence.blocks : evidence.blocks[b] \in BlockType
      BY <1>1 DEF Known
    <2> QED
      BY <1>1, <2>1, <2>2, <2>3 DEF CaptureTypeOK, UseInv, CountersOK, RestIsUnread, Typed
  <1>4. ASSUME alarms = 0, NEW d \in DOMAIN verdicts, verdicts[d] \in {"Busy", "Protected"}
        PROVE  ReallyUsed(host, d) \/ host.blocks[d].readOnly = "yes"
    BY <1>2, <1>4, GenuineUse DEF UseInv
  <1> QED
    BY <1>3, <1>4 DEF UseIsReal

\* As long as nothing is reported against disks, a disk is BUSY or PROTECTED only if
\* it is read-only or something that it really backs is in use
\* (core/ownership_graph.cpp:346-357).
THEOREM ShownUseIsReal == CaptureSpec => []UseIsReal
  <1>1. Init => UseInv
    BY UseInitially
  <1>2. UseInv /\ [Next]_captureVars => UseInv'
    BY UseAlways
  <1>3. UseInv => UseIsReal
    BY GenuineMeansReal
  <1> QED
    BY <1>1, <1>2, <1>3, PTL DEF CaptureSpec

-----------------------------------------------------------------------------
(* The verdict when nothing is lost. *)

\* Nothing speaks against a disk, and all that is named is a node.
Flawless(e) ==
    /\ e.twice = {} /\ e.issues = {} /\ e.gaps = {} /\ e.discovery = {}
    /\ e.covered = Sources
    /\ \A n \in DOMAIN e.nodes : e.nodes[n] /\ n \notin DOMAIN e.blocks
    /\ \A n \in DOMAIN e.nodes : \E edge \in e.edges : n \in {edge[1], edge[2]}
    /\ \A edge \in e.edges : {edge[1], edge[2]} \subseteq Nodes(e)
    /\ \A i \in DOMAIN e.mounts : e.mounts[i].node # NoNode
    /\ NoNode \notin e.swaps
    /\ \A n \in DOMAIN e.fresh : e.fresh[n] \in {"Filesystem", "Membership"}

\* Only what is on the host was probed.
Probed(e, h) ==
    \A n \in DOMAIN e.fresh : \E f \in Range(h.facts) : f.kind = "signature" /\ f.node = n

\* A fact about backing or a probe is in the evidence.  (Uses are in HonestInv.)
Told(f, e) ==
    /\ f.kind = "backing" => <<f.node, f.provider>> \in e.edges
    /\ f.kind = "signature" => f.node \in DOMAIN e.fresh

\* What the evidence has once all facts of a regular host are read.
Finished(e, h) ==
    /\ HostAssumption(h) /\ Regular(h) /\ Known(e, h) /\ Genuine(e, h) /\ Flawless(e)
    /\ Probed(e, h) /\ \A f \in Range(h.facts) : Told(f, e)

\* Its graph is the backing of the host.
LEMMA FinishedGraph ==
    ASSUME NEW h, NEW e, Finished(e, h)
    PROVE  /\ physical(e) = physical(h) /\ Nodes(e) = DOMAIN RealBacking(h)
           /\ Graph(e).onward = RealBacking(h)
           /\ Issues(e) = {}
           /\ Broken(Graph(e)) \subseteq h.loops
           /\ \A n \in Nodes(e) \cap h.loops : RealBacking(h)[n] = {} /\ n \notin physical(e)
  <1> DEFINE pairs == {<<f.node, f.provider>> : f \in Backing(h.facts)}
                        \cup {<<p, h.blocks[p].parent>> :
                                 p \in {b \in DOMAIN h.blocks : h.blocks[b].role = "Partition"}}
             keys == DOMAIN h.blocks \cup {f.node : f \in Used(h.facts)}
                        \cup UNION {{pair[1], pair[2]} : pair \in pairs}
             real == RealBacking(h)
             graph == Graph(e)
             named == Nodes(e) \cup UNION {{edge[1], edge[2]} : edge \in Edges(e)}
  <1>1. real = [n \in keys |-> {pair[2] : pair \in {q \in pairs : q[1] = n}}]
    BY DEF RealBacking
  <1>2. e.blocks = h.blocks
    BY DEF Finished, Genuine
  <1>3. physical(e) = physical(h) /\ Partitions(e) = Partitions(h)
    BY <1>2 DEF physical, Partitions
  <1>4. \A p \in Partitions(e) : OnDisk(e, p)
    BY <1>2, <1>3 DEF Finished, Regular, OnDisk, Partitions
  <1>5. Edges(e) = pairs
    <2>1. {<<p, e.blocks[p].parent>> : p \in {q \in Partitions(e) : OnDisk(e, q)}}
            = {<<p, h.blocks[p].parent>> :
                  p \in {b \in DOMAIN h.blocks : h.blocks[b].role = "Partition"}}
      BY <1>2, <1>4 DEF Partitions
    <2>2. e.edges = {<<f.node, f.provider>> : f \in Backing(h.facts)}
      <3>1. \A f \in Backing(h.facts) : <<f.node, f.provider>> \in e.edges
        BY DEF Finished, Told, Backing
      <3>2. \A edge \in e.edges : \E f \in Backing(h.facts) : edge = <<f.node, f.provider>>
        BY DEF Finished, Genuine
      <3> QED
        BY <3>1, <3>2
    <2> QED
      BY <2>1, <2>2 DEF Edges
  <1>6. \A edge \in Edges(e) : {edge[1], edge[2]} \subseteq Nodes(e)
    <2> SUFFICES ASSUME NEW edge \in Edges(e), edge \notin e.edges
                 PROVE  {edge[1], edge[2]} \subseteq Nodes(e)
      BY DEF Finished, Flawless
    <2>1. PICK p \in Partitions(e) : OnDisk(e, p) /\ edge = <<p, e.blocks[p].parent>>
      BY DEF Edges
    <2>2. p \in DOMAIN e.blocks /\ e.blocks[p].parent \in DOMAIN e.blocks
      BY <2>1 DEF OnDisk, Partitions
    <2> QED
      BY <2>1, <2>2 DEF Nodes
  <1>7. Nodes(e) \subseteq keys
    <2>1. DOMAIN e.blocks \subseteq keys
      BY <1>2
    <2>2. ASSUME NEW n \in DOMAIN e.nodes
          PROVE  n \in keys
      <3>1. PICK edge \in e.edges : n \in {edge[1], edge[2]}
        BY DEF Finished, Flawless
      <3>2. edge \in pairs
        BY <1>5 DEF Edges
      <3> HIDE DEF pairs
      <3> QED
        BY <3>1, <3>2
    <2> HIDE DEF keys
    <2> QED
      BY <2>1, <2>2 DEF Nodes
  <1>8. \A pair \in pairs : {pair[1], pair[2]} \subseteq Nodes(e)
    BY <1>5, <1>6
  <1>9. ASSUME NEW f \in Used(h.facts)
        PROVE  f.node \in Nodes(e)
    <2>1. f \in Range(h.facts) /\ f.node \in keys
      BY DEF Used
    <2>2. f.node \notin h.loops
      BY <2>1 DEF Finished, HostAssumption
    <2>3. CASE real[f.node] = {}
      <3>1. f.node \in physical(h)
        BY <1>1, <2>1, <2>2, <2>3 DEF Finished, Regular
      <3> QED
        BY <1>2, <3>1 DEF physical, Nodes
    <2>4. CASE real[f.node] # {}
      <3>1. PICK pair \in pairs : pair[1] = f.node
        BY <1>1, <2>1, <2>4
      <3> QED
        BY <1>8, <3>1
    <2> QED
      BY <2>3, <2>4
  <1>10. keys = Nodes(e)
    <2>1. DOMAIN h.blocks \subseteq Nodes(e)
      BY <1>2 DEF Nodes
    <2> HIDE DEF pairs
    <2> QED
      BY <1>7, <1>8, <1>9, <2>1
  <1>11. named = Nodes(e)
    BY <1>6
  <1>12. graph.onward = [n \in named |-> IF n \in physical(e) THEN {} ELSE parents(e, n)]
    BY DEF Graph
  <1>13. \A n : parents(e, n) = {pair[2] : pair \in {q \in pairs : q[1] = n}}
    BY <1>5 DEF parents
  <1>14. ASSUME NEW d \in physical(e)
         PROVE  parents(e, d) = {}
    <2>1. d \in DOMAIN h.blocks /\ h.blocks[d].role = "Disk"
      BY <1>2 DEF physical
    <2>2. \A f \in Backing(h.facts) : f.node # d
      BY <2>1 DEF Finished, HostAssumption
    <2>3. \A pair \in pairs : pair[1] # d
      BY <2>1, <2>2
    <2> HIDE DEF pairs
    <2> QED
      BY <1>13, <2>3
  <1>22. ASSUME NEW n \in Nodes(e) \cap h.loops
         PROVE  real[n] = {} /\ n \notin physical(e)
    <2>1. \A f \in Backing(h.facts) : f.node # n
      BY DEF Finished, HostAssumption, Backing
    <2>2. n \in DOMAIN h.blocks => h.blocks[n].role = "Virtual"
      BY DEF Finished, Regular
    <2>3. \A pair \in pairs : pair[1] # n
      BY <2>1, <2>2
    <2>4. n \notin physical(e)
      BY <1>2, <2>2 DEF physical
    <2>5. n \in keys
      BY <1>10
    <2> HIDE DEF pairs, keys
    <2> QED
      BY <1>1, <2>3, <2>4, <2>5
  <1> HIDE DEF pairs, keys, named
  <1>15. graph.onward = real
    BY <1>1, <1>10, <1>11, <1>12, <1>13, <1>14
  <1>16. Dangling(e) = {} /\ duplicates(e) = {}
    BY <1>6 DEF Dangling, duplicates, Finished, Flawless
  <1>17. Issues(e) = {}
    BY <1>4, <1>14, <1>16 DEF Issues, Finished, Flawless
  <1>18. Incomplete(e) = {}
    BY <1>16, <1>17 DEF Incomplete, Finished, Flawless
  <1>19. graph.tainted = {}
    <2>1. graph.tainted = (named \ Nodes(e)) \cup (named \cap Incomplete(e))
      BY DEF Graph, named
    <2> QED
      BY <1>11, <1>18, <2>1
  <1>20. Rootless(graph) \subseteq h.loops
    <2>1. graph.physical = physical(h)
      BY <1>3, GraphIsClosed
    <2> QED
      BY <1>15, <2>1 DEF Rootless, Finished, Regular
  <1>21. Circling(graph.onward) = {}
    BY <1>15 DEF Finished, Regular
  <1> QED
    BY <1>1, <1>3, <1>10, <1>15, <1>17, <1>19, <1>20, <1>21, <1>22 DEF Broken

\* Walks from a loop device end there, and the others come to none.
LEMMA FinishedTraces ==
    ASSUME NEW h, NEW e, Finished(e, h), NEW n \in Nodes(e)
    PROVE  /\ \A d \in physical(e) : d \in Traces(e)[n].owners <=> ReallyBacks(h, d, n)
           /\ n \notin h.loops => Traces(e)[n].topology
           /\ n \in h.loops => Traces(e)[n].owners = {}
           /\ n \notin h.loops => Traces(e)[n].faults \subseteq Graph(e).unusable
  <1> DEFINE real == RealBacking(h)
             reached == Reached(real, n)
  <1>1. /\ Graph(e).onward = real /\ Nodes(e) = DOMAIN real
        /\ Broken(Graph(e)) \subseteq h.loops
        /\ n \in h.loops => real[n] = {} /\ n \notin physical(e)
    BY FinishedGraph
  <1>2. /\ Traces(e)[n].owners = reached \cap physical(e)
        /\ Traces(e)[n].faults = reached \cap (Broken(Graph(e)) \cup Graph(e).unusable)
        /\ Traces(e)[n].topology <=> reached \cap Broken(Graph(e)) = {}
    BY <1>1, TraceOfNode
  <1>3. ASSUME n \notin h.loops
        PROVE  reached \cap h.loops = {}
    <2> DEFINE S == DOMAIN real \ h.loops
    <2>1. \A m \in DOMAIN real : real[m] \subseteq DOMAIN real
      BY RealPairs
    <2>2. \A m \in DOMAIN real : real[m] \cap h.loops = {}
      BY DEF Finished, Regular
    <2>3. n \in S /\ S \in SUBSET DOMAIN real /\ \A m \in S : real[m] \subseteq S
      BY <1>1, <1>3, <2>1, <2>2
    <2> HIDE DEF S, real
    <2>4. reached \subseteq S
      BY <2>3, ReachedIsLeast
    <2> QED
      BY <2>4 DEF S
  <1>4. ASSUME n \in h.loops
        PROVE  reached \subseteq {n}
    <2> DEFINE S == {n}
    <2>1. n \in S /\ S \in SUBSET DOMAIN real /\ \A m \in S : real[m] \subseteq S
      BY <1>1, <1>4
    <2> HIDE DEF S, real
    <2>2. reached \subseteq S
      BY <2>1, ReachedIsLeast
    <2> QED
      BY <2>2 DEF S
  <1>5. \A d \in physical(e) : d \in Traces(e)[n].owners <=> ReallyBacks(h, d, n)
    BY <1>2 DEF ReallyBacks
  <1> HIDE DEF reached
  <1> QED
    BY <1>1, <1>2, <1>3, <1>4, <1>5

\* A READY disk is established and writable.
LEMMA ReadyIsEstablished ==
    ASSUME NEW h, NEW e, Finished(e, h), NEW d \in physical(e),
           Status(e, Traces(e), d) = "Ready"
    PROVE  Established(h, d) /\ h.blocks[d].readOnly = "no"
  <1>1. /\ ~local_unknown(e, Traces(e), d) /\ signatures_complete(e, Traces(e), d)
        /\ clean(e, d) /\ e.blocks[d].scope = "WholeDevice"
    BY ReadyRequires
  <1>2. e.blocks = h.blocks /\ DOMAIN e.blocks \subseteq Nodes(e)
    BY DEF Finished, Genuine, Nodes
  <1>3. h.blocks[d].resolved /\ h.blocks[d].path
    <2>1. d \in Nodes(e) /\ Traces(e)[d].faults = {}
      BY <1>1, TracesAreOfNodes DEF local_unknown
    <2>2. d \notin Graph(e).unusable
      BY <2>1, TraceOfNode
    <2>3. Graph(e).unusable = {o \in physical(e) : ~(e.blocks[o].resolved /\ e.blocks[o].path)}
      BY DEF Graph
    <2> QED
      BY <1>2, <2>2, <2>3
  <1>4. ASSUME NEW b \in DOMAIN h.blocks, ReallyBacks(h, d, b)
        PROVE  /\ h.blocks[b].issues \subseteq {"signature"}
               /\ \E f \in Range(h.facts) : f.kind = "signature" /\ f.node = b
    <2>1. d \in Traces(e)[b].owners
      BY <1>2, <1>4, FinishedTraces
    <2>2. b \in DOMAIN e.fresh /\ IssuesSettled(e, b)
      BY <1>1, <1>2, <2>1 DEF signatures_complete
    <2>3. \A n \in DOMAIN e.fresh : \E f \in Range(h.facts) : f.kind = "signature" /\ f.node = n
      BY DEF Finished, Probed
    <2> QED
      BY <1>2, <2>2, <2>3 DEF IssuesSettled
  <1> QED
    BY <1>1, <1>2, <1>3, <1>4 DEF Established, clean

\* An established disk is READY if it is not used.
LEMMA EstablishedIsReady ==
    ASSUME NEW h, NEW e, Finished(e, h), NEW d \in physical(e),
           Established(h, d), h.blocks[d].readOnly = "no", ~ReallyUsed(h, d)
    PROVE  Status(e, Traces(e), d) = "Ready"
  <1> DEFINE t == Traces(e)
  <1>1. /\ e.blocks = h.blocks /\ DOMAIN e.blocks \subseteq Nodes(e) /\ DOMAIN t = Nodes(e)
        /\ d \in Nodes(e) /\ d \in DOMAIN h.blocks /\ e.loops = h.loops
    BY TracesAreOfNodes DEF Finished, Known, Genuine, Nodes, physical
  <1>2. ClaimsOn(e, t, d) = {}
    BY ClaimsAreReal DEF Finished
  <1>3. d \notin h.loops /\ d \notin Graph(e).unusable
    <2>1. d \notin h.loops
      BY <1>1, FinishedGraph
    <2>2. Graph(e).unusable = {o \in physical(e) : ~(e.blocks[o].resolved /\ e.blocks[o].path)}
      BY DEF Graph
    <2> QED
      BY <1>1, <2>1, <2>2 DEF Established
  <1>4. t[d].faults = {}
    <2>1. t[d].faults \subseteq Graph(e).unusable
      BY <1>1, <1>3, FinishedTraces
    <2>2. t[d].faults \subseteq {d}
      BY <1>1, TraceOfNode, DisksBackThemselves
    <2> QED
      BY <1>3, <2>1, <2>2
  <1>5. ASSUME NEW n \in Nodes(e), d \in t[n].owners
        PROVE  n \notin h.loops /\ ownerReasons(t, n, d) = {}
    <2>1. n \notin h.loops /\ t[n].faults \subseteq Graph(e).unusable
      BY <1>5, FinishedTraces
    <2>2. Graph(e).unusable \subseteq physical(e)
      BY DEF Graph
    <2>3. ASSUME NEW m \in physical(e) \ {d}
          PROVE  separateOwner(t, m, d)
      <3>1. m \in Nodes(e)
        BY TracesAreOfNodes
      <3>2. m \notin h.loops
        BY <3>1, FinishedGraph
      <3>3. t[m].topology
        BY <3>1, <3>2, FinishedTraces
      <3>4. t[m].owners = {m}
        BY <3>1, TraceOfNode, DisksBackThemselves
      <3> QED
        BY <1>1, <3>1, <3>3, <3>4 DEF separateOwner
    <2> QED
      BY <1>3, <2>1, <2>2, <2>3 DEF ownerReasons
  <1>6. \A n \in DOMAIN e.fresh : e.fresh[n] \in {"Filesystem", "Membership"}
    BY DEF Finished, Flawless
  <1>7. ~local_unknown(e, t, d)
    BY <1>1, <1>4, <1>5, <1>6 DEF local_unknown
  <1>8. coverage_complete(e, t, d)
    BY FinishedGraph DEF coverage_complete, host_coverage, Finished, Flawless
  <1>9. \A claim \in Claims(e) : claim.consumer \in Nodes(e) /\ claim.consumer \notin h.loops
    <2> TAKE claim \in Claims(e)
    <2>1. PICK f \in Used(h.facts) : f.node = claim.consumer
      BY ClaimsAreOfUsed DEF Finished, IsUsed
    <2>2. f.node \in DOMAIN RealBacking(h)
      BY RealPairs
    <2>3. f.node \notin h.loops
      BY DEF Finished, HostAssumption, Used
    <2> QED
      BY <2>1, <2>2, <2>3, FinishedGraph
  <1>10. ~unknown_usage(e, t)
    <2>1. \A n \in Nodes(e) \ h.loops : t[n].topology
      BY FinishedTraces
    <2>2. \A i \in DOMAIN e.mounts : ~Unattributed(e, i)
      BY DEF Unattributed, Finished, Flawless
    <2>3. NoNode \notin e.swaps
      BY DEF Finished, Flawless
    <2> HIDE DEF t
    <2> QED
      BY <1>1, <1>9, <2>1, <2>2, <2>3 DEF unknown_usage
  <1>11. signatures_complete(e, t, d)
    <2> SUFFICES ASSUME NEW b \in DOMAIN e.blocks, d \in t[b].owners
                 PROVE  b \in DOMAIN e.fresh /\ e.fresh[b] \in {"None", "Filesystem"}
                        /\ IssuesSettled(e, b)
      BY DEF signatures_complete
    <2>1. ReallyBacks(h, d, b)
      BY <1>1, FinishedTraces
    <2>2. /\ h.blocks[b].issues \subseteq {"signature"}
          /\ \E f \in Range(h.facts) : f.kind = "signature" /\ f.node = b
      BY <1>1, <2>1 DEF Established
    <2>3. b \in DOMAIN e.fresh
      BY <2>2 DEF Finished, Told
    <2>4. e.fresh[b] # "Membership"
      <3> SUFFICES ASSUME e.fresh[b] = "Membership"
                   PROVE  FALSE
        OBVIOUS
      <3>1. IsUsed(h, b)
        BY <2>3 DEF Finished, Genuine
      <3> QED
        BY <2>1, <3>1 DEF IsUsed, ReallyUsed
    <2>5. e.fresh[b] = "Filesystem"
      BY <1>6, <2>3, <2>4
    <2>6. IssuesSettled(e, b)
      BY <1>1, <2>2, <2>3, <2>5 DEF IssuesSettled, superseded, freshSignatureComplete
    <2> QED
      BY <2>3, <2>5, <2>6
  <1>12. clean(e, d) /\ e.blocks[d].scope = "WholeDevice" /\ e.blocks[d].readOnly # "yes"
    BY <1>1 DEF clean, Established
  <1> HIDE DEF t
  <1>13. Status(e, t, d) = "Ready"
    BY <1>2, <1>7, <1>8, <1>10, <1>11, <1>12 DEF Status
  <1> QED
    BY <1>13 DEF t

-----------------------------------------------------------------------------
(* Reading keeps the evidence without flaws. *)

\* Reporting a node that is complete changes nothing else.
Listed(e, n) == WithNode(e, n, TRUE)

LEMMA NodeIsListed ==
    ASSUME NEW e, DOMAIN e = Fields, NEW n, NEW g, g = Listed(e, n)
    PROVE  /\ DOMAIN g = Fields /\ Nodes(g) = Nodes(e) \cup {n}
           /\ \A field \in Fields \ {"nodes"} : g[field] = e[field]
           /\ \A m \in DOMAIN g.nodes :
                (m \in DOMAIN e.nodes /\ (e.nodes[m] => g.nodes[m]))
                    \/ (m = n /\ n \notin DOMAIN e.blocks /\ g.nodes[m])
  <1>1. CASE n \in DOMAIN e.blocks
    BY <1>1 DEF Listed, WithNode, Nodes
  <1>2. CASE n \notin DOMAIN e.blocks
    <2> DEFINE X == [m \in DOMAIN e.nodes \cup {n} |->
                        (m \in DOMAIN e.nodes => e.nodes[m]) /\ (m = n => TRUE)]
    <2>1. g = [e EXCEPT !.nodes = X]
      BY <1>2 DEF Listed, WithNode
    <2>2. /\ DOMAIN X = DOMAIN e.nodes \cup {n}
          /\ \A m \in DOMAIN e.nodes : e.nodes[m] => X[m]
          /\ n \notin DOMAIN e.nodes => X[n]
      OBVIOUS
    <2> HIDE DEF X
    <2>3. /\ DOMAIN g = Fields /\ g.nodes = X
          /\ \A field \in Fields \ {"nodes"} : g[field] = e[field]
      BY <2>1 DEF Fields
    <2>4. g.blocks = e.blocks
      BY <2>3 DEF Fields
    <2>5. Nodes(g) = Nodes(e) \cup {n}
      BY <2>2, <2>3, <2>4 DEF Nodes
    <2> QED
      BY <1>2, <2>2, <2>3, <2>5
  <1> QED
    BY <1>1, <1>2

\* Backing that is read names two nodes: e1 is e with the edge.
Linked(e, e1, n, p) ==
    /\ DOMAIN e = Fields /\ DOMAIN e1 = Fields
    /\ e1.edges = e.edges \cup {<<n, p>>}
    /\ \A field \in Fields \ {"edges"} : e1[field] = e[field]

LEMMA BackingKeepsFlawless ==
    ASSUME NEW e, NEW e1, NEW n, NEW p, Linked(e, e1, n, p), Flawless(e),
           NEW g, g = Listed(Listed(e1, n), p)
    PROVE  Flawless(g) /\ g.edges = e.edges \cup {<<n, p>>} /\ g.fresh = e.fresh
  <1> DEFINE e2 == Listed(e1, n)
  <1>1. /\ DOMAIN e1 = Fields /\ e1.edges = e.edges \cup {<<n, p>>} /\ Nodes(e1) = Nodes(e)
        /\ \A field \in Fields \ {"edges"} : e1[field] = e[field]
        /\ DOMAIN e = Fields
    BY DEF Linked, Fields, Nodes
  <1>2. /\ DOMAIN e2 = Fields /\ Nodes(e2) = Nodes(e1) \cup {n}
        /\ \A field \in Fields \ {"nodes"} : e2[field] = e1[field]
        /\ \A m \in DOMAIN e2.nodes :
              (m \in DOMAIN e1.nodes /\ (e1.nodes[m] => e2.nodes[m]))
                  \/ (m = n /\ n \notin DOMAIN e1.blocks /\ e2.nodes[m])
    BY <1>1, NodeIsListed
  <1>3. g = Listed(e2, p)
    OBVIOUS
  <1> HIDE DEF e2
  <1>4. /\ DOMAIN g = Fields /\ Nodes(g) = Nodes(e2) \cup {p}
        /\ \A field \in Fields \ {"nodes"} : g[field] = e2[field]
        /\ \A m \in DOMAIN g.nodes :
              (m \in DOMAIN e2.nodes /\ (e2.nodes[m] => g.nodes[m]))
                  \/ (m = p /\ p \notin DOMAIN e2.blocks /\ g.nodes[m])
    BY <1>2, <1>3, NodeIsListed
  <1>5. /\ g.twice = e.twice /\ g.issues = e.issues /\ g.gaps = e.gaps
        /\ g.discovery = e.discovery /\ g.covered = e.covered /\ g.mounts = e.mounts
        /\ g.swaps = e.swaps /\ g.fresh = e.fresh /\ g.blocks = e.blocks
        /\ e1.blocks = e.blocks /\ e2.blocks = e.blocks /\ e1.nodes = e.nodes
        /\ g.edges = e.edges \cup {<<n, p>>}
    BY <1>1, <1>2, <1>4 DEF Fields
  <1>6. Nodes(g) = Nodes(e) \cup {n, p}
    BY <1>1, <1>2, <1>4
  <1>7. \A m \in DOMAIN g.nodes :
            /\ g.nodes[m] /\ m \notin DOMAIN e.blocks
            /\ m \in DOMAIN e.nodes \/ m \in {n, p}
    BY <1>2, <1>4, <1>5 DEF Flawless
  <1>8. \A m \in DOMAIN g.nodes : \E edge \in g.edges : m \in {edge[1], edge[2]}
    <2>1. <<n, p>> \in g.edges
      BY <1>5
    <2>2. \A m \in {n, p} : m \in {<<n, p>>[1], <<n, p>>[2]}
      OBVIOUS
    <2>3. \A m \in DOMAIN e.nodes : \E edge \in e.edges : m \in {edge[1], edge[2]}
      BY DEF Flawless
    <2> QED
      BY <1>5, <1>7, <2>1, <2>2, <2>3
  <1>9. \A edge \in g.edges : {edge[1], edge[2]} \subseteq Nodes(g)
    <2> TAKE edge \in g.edges
    <2>1. CASE edge \in e.edges
      BY <1>6, <2>1 DEF Flawless
    <2>2. CASE edge = <<n, p>>
      BY <1>6, <2>2
    <2> QED
      BY <1>5, <2>1, <2>2
  <1>10. /\ \A i \in DOMAIN g.mounts : g.mounts[i].node # NoNode
         /\ NoNode \notin g.swaps
         /\ \A m \in DOMAIN g.fresh : g.fresh[m] \in {"Filesystem", "Membership"}
         /\ g.covered = Sources
    BY <1>5 DEF Flawless
  <1>11. g.twice = {} /\ g.issues = {} /\ g.gaps = {} /\ g.discovery = {}
    BY <1>5 DEF Flawless
  <1>12. \A m \in DOMAIN g.nodes : g.nodes[m] /\ m \notin DOMAIN g.blocks
    BY <1>5, <1>7
  <1> QED
    BY <1>5, <1>8, <1>9, <1>10, <1>11, <1>12 DEF Flawless

WithBacking(e, f) ==
    Listed(Listed([e EXCEPT !.edges = @ \cup {<<f.node, f.provider>>}], f.node), f.provider)

LEMMA BackingIsFlawless ==
    ASSUME NEW e, DOMAIN e = Fields, Flawless(e), NEW f
    PROVE  /\ Flawless(WithBacking(e, f))
           /\ WithBacking(e, f).edges = e.edges \cup {<<f.node, f.provider>>}
           /\ WithBacking(e, f).fresh = e.fresh
  <1> DEFINE n == f.node
             p == f.provider
             e1 == [e EXCEPT !.edges = @ \cup {<<n, p>>}]
             g == WithBacking(e, f)
  <1>1. g = Listed(Listed(e1, n), p)
    BY DEF WithBacking
  <1>2. Linked(e, e1, n, p)
    BY DEF Linked, Fields
  <1> HIDE DEF n, p, e1, g
  <1>3. Flawless(g) /\ g.edges = e.edges \cup {<<n, p>>} /\ g.fresh = e.fresh
    BY <1>1, <1>2, BackingKeepsFlawless
  <1> QED
    BY <1>3 DEF n, p, g

LEMMA ReadingKeepsFlawless ==
    ASSUME HonestInv, Flawless(evidence), Probed(evidence, host), NEW f \in Range(host.facts),
           ReadBacking(f) \/ ReadUse(f) \/ ReadSignature(f)
    PROVE  /\ Flawless(evidence') /\ Probed(evidence', host) /\ Told(f, evidence')
           /\ \A k : Told(k, evidence) => Told(k, evidence')
  <1> DEFINE e == evidence
             g == evidence'
  <1>1. /\ DOMAIN e = Fields /\ \E S : e.mounts \in Seq(S)
        /\ f.node # NoNode
    BY OwnershipCaptureAssumption DEF HonestInv, Known, HostAssumption
  <1>2. CASE ReadBacking(f)
    <2>1. /\ f.kind = "backing"
          /\ g = WithBacking(e, f)
      BY <1>2 DEF ReadBacking, Assess, WithBacking, Listed
    <2>2. Flawless(g) /\ g.edges = e.edges \cup {<<f.node, f.provider>>} /\ g.fresh = e.fresh
      BY <1>1, <2>1, BackingIsFlawless
    <2> QED
      BY <2>1, <2>2 DEF Told, Probed
  <1>3. CASE ReadUse(f)
    <2>1. /\ f.kind = "use"
          /\ \/ g = WithMount(e, f.node)
             \/ g = [e EXCEPT !.swaps = @ \cup {f.node}]
             \/ g = [e EXCEPT !.claims = @ \cup {[consumer |-> f.node, use |-> f.use, row |-> 0]}]
      BY <1>3 DEF ReadUse, Assess
    <2>2. /\ g.twice = e.twice /\ g.issues = e.issues /\ g.gaps = e.gaps
          /\ g.discovery = e.discovery /\ g.covered = e.covered
          /\ g.fresh = e.fresh /\ g.blocks = e.blocks /\ g.nodes = e.nodes /\ g.edges = e.edges
      BY <1>1, <2>1 DEF WithMount, Fields
    <2>3. NoNode \notin g.swaps
      BY <1>1, <2>1 DEF WithMount, Fields, Flawless
    <2>4. \A i \in DOMAIN g.mounts : g.mounts[i].node # NoNode
      <3>1. CASE g = WithMount(e, f.node)
        <4> DEFINE row == [id |-> Len(e.mounts) + 1, node |-> f.node, harmless |-> FALSE]
        <4>1. g.mounts = Append(e.mounts, row) /\ row.node = f.node
          BY <1>1, <3>1 DEF WithMount, Fields
        <4> HIDE DEF row
        <4>2. /\ DOMAIN g.mounts = 1..(Len(e.mounts) + 1) /\ DOMAIN e.mounts = 1..Len(e.mounts)
              /\ Len(e.mounts) \in Nat
              /\ \A i \in DOMAIN e.mounts : g.mounts[i] = e.mounts[i]
              /\ g.mounts[Len(e.mounts) + 1] = row
          BY <1>1, <4>1
        <4>3. \A i \in DOMAIN g.mounts : i \in DOMAIN e.mounts \/ g.mounts[i] = row
          BY <4>2
        <4> QED
          BY <1>1, <4>1, <4>2, <4>3 DEF Flawless
      <3>2. CASE g.mounts = e.mounts
        BY <3>2 DEF Flawless
      <3> QED
        BY <1>1, <2>1, <3>1, <3>2 DEF Fields
    <2>5. Flawless(g)
      <3>1. Nodes(g) = Nodes(e)
        BY <2>2 DEF Nodes
      <3>2. Flawless(e)
        OBVIOUS
      <3> HIDE DEF g, e
      <3> QED
        BY <2>2, <2>3, <2>4, <3>1, <3>2 DEF Flawless
    <2> QED
      BY <2>1, <2>2, <2>5 DEF Told, Probed
  <1>4. CASE ReadSignature(f)
    <2> DEFINE state == IF f.member THEN "Membership" ELSE "Filesystem"
    <2>1. f.kind = "signature" /\ g = WithSignature(e, f.node, state)
      BY <1>4 DEF ReadSignature, Assess
    <2>2. state \in {"Filesystem", "Membership"}
      OBVIOUS
    <2> HIDE DEF state
    <2>3. /\ g.twice = e.twice /\ g.issues = e.issues /\ g.gaps = e.gaps
          /\ g.discovery = e.discovery /\ g.covered = e.covered /\ g.mounts = e.mounts
          /\ g.swaps = e.swaps /\ g.blocks = e.blocks /\ g.nodes = e.nodes /\ g.edges = e.edges
      BY <1>1, <2>1 DEF WithSignature, Fields
    <2>4. g.fresh = [c \in DOMAIN e.fresh \cup {f.node} |->
                        IF c = f.node THEN state ELSE e.fresh[c]]
      BY <1>1, <2>1 DEF WithSignature, Fields
    <2>5. \A n \in DOMAIN g.fresh : g.fresh[n] \in {"Filesystem", "Membership"}
      BY <2>2, <2>4 DEF Flawless
    <2>6. Flawless(g)
      <3>1. Nodes(g) = Nodes(e)
        BY <2>3 DEF Nodes
      <3>2. Flawless(e)
        OBVIOUS
      <3> HIDE DEF g, e
      <3> QED
        BY <2>3, <2>5, <3>1, <3>2 DEF Flawless
    <2> QED
      BY <2>1, <2>3, <2>4, <2>6 DEF Told, Probed
  <1> QED
    BY <1>2, <1>3, <1>4

\* The invariant: as long as nothing is lost or reported, the evidence is without flaws, and every
\* fact is still to be read or in it.
FaithInv ==
    /\ UseInv
    /\ losses = 0 /\ alarms = 0 =>
        /\ Flawless(evidence) /\ Probed(evidence, host)
        /\ \A f \in Range(host.facts) : f \in Range(unread) \/ Told(f, evidence)

LEMMA FaithInitially ==
    ASSUME Init
    PROVE  FaithInv
  <1>1. UseInv
    BY UseInitially
  <1>2. evidence = Inventory(host) /\ unread = host.facts
    BY DEF Init
  <1>3. DOMAIN <<>> = {}
    OBVIOUS
  <1>4. Flawless(Inventory(host)) /\ Probed(Inventory(host), host)
    BY <1>3 DEF Flawless, Probed, Inventory
  <1> QED
    BY <1>1, <1>2, <1>4 DEF FaithInv

LEMMA FaithAlways ==
    ASSUME FaithInv, [Next]_captureVars
    PROVE  FaithInv'
  <1>1. UseInv'
    BY UseAlways DEF FaithInv
  <1>2. CASE ReadFact
    <2> DEFINE f == Head(unread)
    <2>1. /\ unread \in Seq(Range(host.facts)) /\ unread # <<>> /\ HonestInv
          /\ host' = host /\ unread' = Tail(unread) /\ losses' = losses /\ alarms' = alarms
      BY <1>2 DEF FaithInv, UseInv, HonestInv, ReadFact
    <2>2. f \in Range(host.facts)
      BY <2>1, HeadTailProperties
    <2>3. ReadBacking(f) \/ ReadUse(f) \/ ReadSignature(f)
      BY <1>2 DEF ReadFact
    <2>4. \A k \in Range(unread) : k = f \/ k \in Range(Tail(unread))
      BY <2>1, HeadOrTail
    <2> HIDE DEF f
    <2>5. SUFFICES ASSUME losses = 0, alarms = 0
                   PROVE  /\ Flawless(evidence') /\ Probed(evidence', host)
                          /\ \A k \in Range(host.facts) :
                                k \in Range(Tail(unread)) \/ Told(k, evidence')
      BY <1>1, <2>1 DEF FaithInv
    <2>6. /\ Flawless(evidence) /\ Probed(evidence, host)
          /\ \A k \in Range(host.facts) : k \in Range(unread) \/ Told(k, evidence)
      BY <2>5 DEF FaithInv
    <2>7. /\ Flawless(evidence') /\ Probed(evidence', host) /\ Told(f, evidence')
          /\ \A k : Told(k, evidence) => Told(k, evidence')
      BY <2>1, <2>2, <2>3, <2>6, ReadingKeepsFlawless
    <2> QED
      BY <2>4, <2>6, <2>7
  <1>3. ASSUME LoseFact \/ Alarm \/ \E d \in physical(evidence) : DoubtIdentity(d)
        PROVE  FaithInv'
    <2>1. losses' = losses + 1 \/ alarms' = alarms + 1
      BY <1>3 DEF LoseFact, Alarm, DoubtIdentity
    <2>2. ~(losses' = 0 /\ alarms' = 0)
      BY <2>1 DEF FaithInv, UseInv, CountersOK
    <2> QED
      BY <1>1, <2>2 DEF FaithInv
  <1>4. CASE UNCHANGED captureVars
    BY <1>1, <1>4 DEF captureVars, FaithInv
  <1> QED
    BY <1>2, <1>3, <1>4 DEF Next

LEMMA FaithMeansExact ==
    ASSUME FaithInv
    PROVE  UnusedDisksAreReady
  <1> SUFFICES ASSUME unread = <<>>, losses = 0, alarms = 0, Regular(host),
                      NEW d \in DOMAIN verdicts
               PROVE  verdicts[d] = "Ready" <=> /\ ~ReallyUsed(host, d) /\ Established(host, d)
                                                /\ host.blocks[d].readOnly = "no"
    BY DEF UnusedDisksAreReady
  <1>1. /\ HostAssumption(host) /\ Known(evidence, host) /\ Genuine(evidence, host)
        /\ traces = Traces(evidence) /\ verdicts = Verdicts(evidence, traces)
    BY OwnershipCaptureAssumption DEF FaithInv, UseInv, HonestInv
  <1>2. d \in physical(evidence) /\ verdicts[d] = Status(evidence, Traces(evidence), d)
    BY <1>1 DEF Verdicts
  <1>3. Finished(evidence, host)
    <2>1. Range(unread) = {}
      BY DEF Range
    <2> QED
      BY <1>1, <2>1 DEF FaithInv, Finished
  <1>4. verdicts[d] = "Ready" => ~ReallyUsed(host, d)
    BY HonestMeansUnused DEF FaithInv, UseInv, ReadyMeansUnused
  <1> QED
    BY <1>2, <1>3, <1>4, ReadyIsEstablished, EstablishedIsReady

\* If nothing is lost and nothing reported, a disk of a regular host is READY just when it is
\* established, writable and not used (core/ownership_graph.cpp:376-460).
THEOREM UnusedDisksGetReady == CaptureSpec => []UnusedDisksAreReady
  <1>1. Init => FaithInv
    BY FaithInitially
  <1>2. FaithInv /\ [Next]_captureVars => FaithInv'
    BY FaithAlways
  <1>3. FaithInv => UnusedDisksAreReady
    BY FaithMeansExact
  <1> QED
    BY <1>1, <1>2, <1>3, PTL DEF CaptureSpec
=============================================================================
