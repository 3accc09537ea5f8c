--------------------------- MODULE OwnershipGraph ---------------------------
(***************************************************************************)
(* The verdict on the physical disks (assessOwnership,                     *)
(* core/ownership_graph.cpp), a function of the evidence of one scan.      *)
(*                                                                         *)
(* The evidence is a record, what the inventory and the ownership source   *)
(* found together:                                                         *)
(*   blocks     the block devices, each a record (BlockType)               *)
(*   nodes      the other nodes (groups, pools, guests), each complete or not *)
(*   twice      the keys that more than one record has                     *)
(*   edges      pairs of a consumer and a provider                         *)
(*   claims     uses of a consumer: [consumer, use, row], where row is the *)
(*              mount that the claim is about, or 0                        *)
(*   issues     [node, source]; gaps  [node, source]                       *)
(*   covered    the sources that say that they are complete                *)
(*   fresh      per block device that was probed, its fresh signature state *)
(*   loops      the inactive loop devices                                  *)
(*   mounts     the rows of mountinfo: [id, node, harmless]                *)
(*   swaps      the devices of the swaps                                   *)
(*   discovery  the issues of the inventory: [node, about, id]             *)
(* NoNode stands for a node that is not known.                             *)
(***************************************************************************)
EXTENDS OwnershipTrace, Naturals, Sequences

CONSTANTS
    Sources     \* the sources of evidence that report their coverage

NoNode == "no node"

Uses == {"Mounted", "Swap", "Zfs", "Guest", "Held", "OpenHandle"}
protects(use) == use \notin {"Held", "OpenHandle"}

FreshStates ==
    {"Unavailable", "None", "Filesystem", "Membership", "Unsupported",
     "PermissionDenied", "ReadFailure", "Disappeared", "Conflicting"}
freshSignatureComplete(state) == state \in {"None", "Filesystem", "Membership"}

\* A disk, a virtual device or a partition.  A partition is reciprocal when its
\* own record is clean and its parent lists it exactly once.  Issues are about
\* the observation, the cached signature or anything else.
BlockType ==
    [role : {"Disk", "Virtual", "Partition"}, parent : STRING, reciprocal : BOOLEAN,
     kind : {"Disk", "Other"}, resolved : BOOLEAN, path : BOOLEAN,
     scope : {"WholeDevice", "NvmeNamespace"}, readOnly : {"yes", "no", "unknown"},
     sized : BOOLEAN, issues : SUBSET {"observation", "signature", "other"}]

-----------------------------------------------------------------------------
(* The graph. *)

Nodes(e) == DOMAIN e.blocks \cup DOMAIN e.nodes

physical(e) == {b \in DOMAIN e.blocks : e.blocks[b].role = "Disk"}

duplicates(e) == e.twice \cup (DOMAIN e.blocks \cap DOMAIN e.nodes)

Partitions(e) == {b \in DOMAIN e.blocks : e.blocks[b].role = "Partition"}

OnDisk(e, p) ==
    /\ e.blocks[p].reciprocal
    /\ e.blocks[p].parent \in DOMAIN e.blocks \ Partitions(e)

Edges(e) == e.edges \cup {<<p, e.blocks[p].parent>> : p \in {q \in Partitions(e) : OnDisk(e, q)}}

parents(e, n) == {edge[2] : edge \in {f \in Edges(e) : f[1] = n}}

Dangling(e) == {edge \in Edges(e) : ~({edge[1], edge[2]} \subseteq Nodes(e))}

\* What is wrong with the graph is added to the issues of the sources.
Issues(e) ==
    e.issues \cup
    {[node |-> n, source |-> "graph"] :
        n \in duplicates(e)
              \cup {p \in Partitions(e) : ~OnDisk(e, p)}
              \cup {edge[1] : edge \in Dangling(e)}
              \cup {d \in physical(e) : parents(e, d) # {}}}

Incomplete(e) ==
    {n \in DOMAIN e.nodes : ~e.nodes[n]}
        \cup {issue.node : issue \in Issues(e)}
        \cup {edge[2] : edge \in Dangling(e)}

Graph(e) ==
    LET keys == Nodes(e) \cup UNION {{edge[1], edge[2]} : edge \in Edges(e)}
    IN  [onward   |-> [n \in keys |-> IF n \in physical(e) THEN {} ELSE parents(e, n)],
         physical |-> physical(e),
         tainted  |-> (keys \ Nodes(e)) \cup (keys \cap Incomplete(e)),
         unusable |-> {d \in physical(e) : ~(e.blocks[d].resolved /\ e.blocks[d].path)},
         nodes    |-> Nodes(e)]

Traces(e) ==
    LET graph == Graph(e)
    IN  [n \in graph.nodes |-> Trace(graph, n)]

-----------------------------------------------------------------------------
(* Usage. *)

MembershipClaims(e) ==
    {[consumer |-> b, use |-> "Zfs", row |-> 0] :
        b \in {c \in DOMAIN e.fresh \cap DOMAIN e.blocks : e.fresh[c] = "Membership"}}

MountClaims(e) ==
    {[consumer |-> row.node, use |-> "Mounted", row |-> row.id] :
        row \in {e.mounts[i] : i \in {j \in DOMAIN e.mounts : e.mounts[j].node # NoNode}}}

SwapClaims(e) ==
    {[consumer |-> s, use |-> "Swap", row |-> 0] : s \in e.swaps \ {NoNode}}

Claims(e) == e.claims \cup MembershipClaims(e) \cup MountClaims(e) \cup SwapClaims(e)

\* A row of an unknown device is accounted for by a claim with its number, or by an
\* earlier row.
Unattributed(e, i) ==
    /\ e.mounts[i].node = NoNode
    /\ ~e.mounts[i].harmless
    /\ \A claim \in e.claims \cup MembershipClaims(e) : claim.row # e.mounts[i].id
    /\ \A j \in 1..(i - 1) : ~(e.mounts[j].node # NoNode /\ e.mounts[j].id = e.mounts[i].id)

\* Mutant: detached loop devices count as unknown use.
LoopsAreUse(e, traces) ==
    \/ \E n \in DOMAIN traces : ~traces[n].topology
    \/ \E i \in DOMAIN e.mounts : Unattributed(e, i)
    \/ NoNode \in e.swaps
    \/ \E claim \in Claims(e) :
        claim.consumer \notin DOMAIN traces \/ ~traces[claim.consumer].topology

\* There is use of which it is not known what backs it: no disk can be ready.
unknown_usage(e, traces) ==
    \/ \E n \in DOMAIN traces \ e.loops : ~traces[n].topology
    \/ \E i \in DOMAIN e.mounts : Unattributed(e, i)
    \/ NoNode \in e.swaps
    \/ \E claim \in Claims(e) :
        claim.consumer \notin DOMAIN traces \/ ~traces[claim.consumer].topology

\* Mutant: a claim on a physical device is a claim on all of them.
ClaimsOnAny(e, traces, d) ==
    {claim \in Claims(e) :
        claim.consumer \in DOMAIN traces /\ (\/ d \in traces[claim.consumer].owners
                                            \/ claim.consumer \in physical(e))}

\* The claims on what the device backs.
ClaimsOn(e, traces, d) ==
    {claim \in Claims(e) :
        claim.consumer \in DOMAIN traces /\ d \in traces[claim.consumer].owners}

-----------------------------------------------------------------------------
(* Coverage. *)

host_coverage(e) ==
    \A s \in Sources \ {"inactive_membership"} :
        s \in e.covered \/ \E gap \in e.gaps : gap.source = s

harmlessMountIssue(e, issue) ==
    LET rows == {i \in DOMAIN e.mounts : e.mounts[i].id = issue.id}
    IN  /\ issue.about = "mount" /\ issue.node = NoNode
        /\ \E i \in rows : rows = {i} /\ e.mounts[i].node = NoNode /\ e.mounts[i].harmless

superseded(e, n) == n \in DOMAIN e.fresh /\ freshSignatureComplete(e.fresh[n])

\* Whatever is not known is known to be about other devices.
coverage_complete(e, traces, d) ==
    /\ host_coverage(e)
    /\ \A gap \in e.gaps : separateOwner(traces, gap.node, d)
    /\ \A issue \in Issues(e) :
        issue.source = "inactive_membership" \/ separateOwner(traces, issue.node, d)
    /\ \A issue \in e.discovery :
        \/ harmlessMountIssue(e, issue)
        \/ issue.about = "signature" /\ superseded(e, issue.node)
        \/ separateOwner(traces, issue.node, d)

IssuesSettled(e, b) ==
    e.blocks[b].issues \subseteq IF superseded(e, b) THEN {"signature"} ELSE {}

\* Mutant: only the disk itself has to be probed.
DiskIsProbed(e, traces, d) ==
    d \in DOMAIN e.fresh /\ e.fresh[d] \in {"None", "Filesystem"} /\ IssuesSettled(e, d)

\* Every block device on the disk, and the disk, was probed and is not a member.
signatures_complete(e, traces, d) ==
    \A b \in DOMAIN e.blocks :
        d \in traces[b].owners =>
            b \in DOMAIN e.fresh /\ e.fresh[b] \in {"None", "Filesystem"} /\ IssuesSettled(e, b)

\* The issues of the disk are among those that signatures_complete looks at.
clean(e, d) == e.blocks[d].sized /\ e.blocks[d].readOnly = "no"

-----------------------------------------------------------------------------
(* The verdict. *)

local_unknown(e, traces, d) ==
    \/ traces[d].faults # {}
    \/ \E n \in DOMAIN traces : d \in traces[n].owners /\ ownerReasons(traces, n, d) # {}
    \/ \E n \in DOMAIN e.fresh \cap DOMAIN traces :
        e.fresh[n] \in {"Disappeared", "Conflicting"} /\ d \in traces[n].owners

\* Mutant: a disk in use is busy, whatever the use.
BusyFirst(e, traces, d) ==
    IF local_unknown(e, traces, d) THEN "Unknown"
    ELSE IF \E claim \in ClaimsOn(e, traces, d) : ~protects(claim.use) THEN "Busy"
    ELSE IF e.blocks[d].readOnly = "yes" \/ ClaimsOn(e, traces, d) # {} THEN "Protected"
    ELSE IF /\ coverage_complete(e, traces, d)
            /\ ~unknown_usage(e, traces)
            /\ signatures_complete(e, traces, d)
            /\ clean(e, d)
            /\ e.blocks[d].scope = "WholeDevice" THEN "Ready"
    ELSE "Unknown"

Status(e, traces, d) ==
    IF local_unknown(e, traces, d) THEN "Unknown"
    ELSE IF \/ e.blocks[d].readOnly = "yes"
            \/ \E claim \in ClaimsOn(e, traces, d) : protects(claim.use) THEN "Protected"
    ELSE IF ClaimsOn(e, traces, d) # {} THEN "Busy"
    ELSE IF /\ coverage_complete(e, traces, d)
            /\ ~unknown_usage(e, traces)
            /\ signatures_complete(e, traces, d)
            /\ clean(e, d)
            /\ e.blocks[d].scope = "WholeDevice" THEN "Ready"
    ELSE "Unknown"

\* Production asks about the disks among the physical devices.
Verdicts(e, traces) ==
    [d \in {p \in physical(e) : e.blocks[p].kind = "Disk"} |-> Status(e, traces, d)]
=============================================================================
