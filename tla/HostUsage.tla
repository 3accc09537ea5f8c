------------------------------ MODULE HostUsage ------------------------------
(***************************************************************************)
(* What is used directly (platform/linux/linux_host_usage.cpp, with its    *)
(* parsers, proc_host_files.cpp and udev_signature_source.cpp): the mounts *)
(* of the own namespace and the swaps, by device number, and the cached    *)
(* signature of each node.  The path of a node must name its device before *)
(* and after the reads.                                                    *)
(*                                                                         *)
(* A file that is read as text comes whole or not at all.                  *)
(***************************************************************************)
EXTENDS InventoryScan, SequencesExt

VARIABLES
    inventory,  \* the nodes with their signatures, and the names that were lost
    mounts,     \* the rows of mountinfo [id, at, fs, source, subtree, node], by their numbers
    swaps,      \* the swaps [path, type, node]
    usage,      \* [covered, discovery]: the texts that were read, and the issues
    located     \* what was found at a path that is looked up twice, if anything

usageVars == <<inventory, mounts, swaps, usage>>

NoOne == "no node"

Discovery(node, about, id) == [node |-> node, about |-> about, id |-> id]

WithDiscovery(u, node, about, id) ==
    [u EXCEPT !.discovery = @ \cup {Discovery(node, about, id)}]

\* What a path leads to: a block device, or a file of a filesystem.
Stat(path) ==
    IF Place(path) \in Present(host) \/ path \notin Names
    THEN {[block |-> path \in Names, number |-> plan.number[Place(path)]]} ELSE {}

NumberOf(node) == Value(node.observation.known, "device_number")

matches(status, node) ==
    \E s \in status : s.block /\ NumberOf(node) = {s.number}

\* The one node that has a number.
correlate(number) ==
    LET found == {n \in DOMAIN inventory.nodes : NumberOf(inventory.nodes[n]) = {number}}
    IN  IF Cardinality(found) = 1 THEN CHOOSE n \in found : TRUE ELSE NoOne

Unsigned == [state |-> "Unavailable", type |-> Nothing]

WithIssue(node, code, field) == [node EXCEPT !.issues = @ \cup {Issue(code, field)}]
WithoutPath(node, field) == WithIssue([node EXCEPT !.path = {}], "SnapshotChanged", field)

-----------------------------------------------------------------------------
(* The raw scan is resolved; mountinfo and swaps are read. *)

Inventory(nodes, lost) ==
    [nodes |-> [n \in DOMAIN nodes |-> nodes[n] @@ [signature |-> Unsigned]], lost |-> lost]

BeginUsage ==
    /\ At("usage")
    /\ IF listed
       THEN LET raw == scan(records, issues)
            IN  /\ inventory' = Inventory(resolveBlockIdentities(raw.devices), raw.issues)
                /\ Then(<<Step("mountinfo", Own), Step("swaps", Own)>>)
       ELSE todo' = <<>> /\ UNCHANGED inventory
    /\ records' = <<>> /\ issues' = {}
    /\ UNCHANGED <<listed, open, faults, answered, mounts, swaps, usage, located>>

\* A row that is no record is dropped, and so is the coverage.  A namespace without
\* mounts is not believed.
parseMountInfo(rows) ==
    LET sorted == SetToSortSeq({row \in rows : ~row.garbled}, LAMBDA a, b : a.id < b.id)
    IN  [i \in 1..Len(sorted) |->
            [id |-> sorted[i].id, at |-> sorted[i].at, fs |-> sorted[i].fs,
             source |-> sorted[i].source, subtree |-> sorted[i].subtree, node |-> NoOne]]

ReadMountInfo ==
    /\ At("mountinfo")
    /\ \E ok \in BOOLEAN :
        LET rows == {row \in host.mounts : row.space = Own}
        IN  /\ Reads(ok)
            /\ mounts' = IF ok THEN parseMountInfo(rows) ELSE <<>>
            /\ usage' = IF ok /\ rows # {} /\ \A row \in rows : ~row.garbled
                        THEN [usage EXCEPT !.covered = @ \cup {"mountinfo"}]
                        ELSE WithDiscovery(usage, NoOne, "other", 0)
    /\ Done
    /\ UNCHANGED <<inventory, swaps, rawVars, answered, located>>

Twice(act, i) == <<Step(act, i), Step(act \o " again", i)>>

\* The swaps; whose they are is not known yet.
parseSwaps(rows) ==
    LET sorted == SetToSeq(rows)
    IN  [i \in 1..Len(sorted) |->
            [path |-> sorted[i].path, type |-> sorted[i].type, node |-> NoOne]]

\* The rest of the scan: every node, every mount, every swap, and every path again.
ReadSwaps ==
    /\ At("swaps")
    /\ \E ok \in BOOLEAN :
        LET names == InOrder(DOMAIN inventory.nodes)
            found == parseSwaps(IF ok THEN host.swaps ELSE {})
        IN  /\ Reads(ok)
            /\ swaps' = found
            /\ usage' = IF ok /\ \A s \in host.swaps : s.type \in {"partition", "file"}
                        THEN [usage EXCEPT !.covered = @ \cup {"swaps"}]
                        ELSE WithDiscovery(usage, NoOne, "other", 0)
            /\ Then(FlattenSeq([i \in 1..Len(names) |->
                                   <<Step("path", names[i]), Step("signature", names[i])>>])
                    \o [i \in 1..Len(mounts) |-> Step("mount", i)]
                    \o FlattenSeq([i \in 1..Len(found) |->
                           IF found[i].type = "partition" THEN Twice("swap", i)
                           ELSE <<Step("swap file", i)>>])
                    \o ForEach("path", names)
                    \o <<Step("relate", Own)>>)
    /\ UNCHANGED <<inventory, mounts, rawVars, answered, located>>

\* The path of a node still names its device number, before and after the other reads.
InspectPath ==
    /\ At("path")
    /\ LET n == Subject
           node == inventory.nodes[n]
       IN  \E ok \in BOOLEAN :
            /\ Reads(ok)
            /\ node.path = {} => ok
            /\ inventory' =
                IF \A p \in node.path : ok /\ matches(Stat(p), node) THEN inventory
                ELSE [inventory EXCEPT !.nodes[n] = WithoutPath(node, "current_path")]
    /\ Done
    /\ UNCHANGED <<mounts, swaps, usage, rawVars, answered, located>>

\* What udev noted of the node: one type, more of them, or something that is no type.
parseSignature(type) ==
    CASE type = "None" -> Unsigned
      [] type = "Ambivalent" -> [state |-> "Conflicting", type |-> Nothing]
      [] type = "Garbled" -> [state |-> "Malformed", type |-> Nothing]
      [] OTHER -> [state |-> "Reported", type |-> type]

\* udev is asked by the sysfs path, before and after, for a node of this name and number.
sameNode(name, node) ==
    name = node.observation.name /\ NumberOf(node) = {plan.number[name]}

ReadSignature ==
    /\ At("signature")
    /\ LET n == Subject
           node == inventory.nodes[n]
           missing == WithIssue(node, "MissingEvidence", "signature")
           at == Value(node.observation.known, "sysfs_path")
           there == \A name \in at : name \in Present(host)
           same == \A name \in at : sameNode(name, node)
           signature == parseSignature(host.cached[n])
       IN  \E ok \in BOOLEAN :
            /\ Reads(ok)
            /\ ~ok => at # {} /\ there /\ same
            /\ inventory' = [inventory EXCEPT !.nodes[n] =
                IF at = {} THEN missing
                ELSE IF ~there \/ ~same THEN WithoutPath(missing, "signature")
                ELSE IF ~ok THEN WithIssue(missing, "ReadFailure", "signature")
                ELSE IF signature.state = "Reported" THEN [node EXCEPT !.signature = signature]
                ELSE IF signature = Unsigned THEN missing
                ELSE WithIssue([node EXCEPT !.signature = signature],
                               signature.state, "signature")]
    /\ Done
    /\ UNCHANGED <<mounts, swaps, usage, rawVars, answered, located>>

-----------------------------------------------------------------------------
(* Use is attributed by number. *)

\* A cached signature does not go with the use that there is.
Corroborate(node, type) ==
    IF node.signature.state = "Reported" /\ node.signature.type # type
    THEN WithIssue([node EXCEPT !.signature.state = "Conflicting"], "Conflict", "signature")
    ELSE node

\* The source of a mount, if it is below /dev, is looked up besides.
CorrelateMount ==
    /\ At("mount")
    /\ LET i == Subject
           row == mounts[i]
           n == correlate(plan.number[row.at])
           unique == \A j \in DOMAIN mounts \ {i} : mounts[j].id # row.id
       IN  IF n = NoOne \/ ~unique
           THEN /\ usage' = WithDiscovery(usage, NoOne, "mount", row.id)
                /\ UNCHANGED <<inventory, mounts, faults>>
           ELSE \E ok \in BOOLEAN :
                /\ Reads(ok)
                /\ ~ok => row.source \in Names
                /\ mounts' = [mounts EXCEPT ![i].node = n]
                /\ usage' = IF \/ row.subtree
                               \/ row.source \in Names /\
                                  ~(ok /\ matches(Stat(row.source), inventory.nodes[n]))
                            THEN WithDiscovery(usage, n, "other", 0) ELSE usage
                /\ inventory' = [inventory EXCEPT !.nodes[n] = Corroborate(@, row.fs)]
    /\ Done
    /\ UNCHANGED <<swaps, rawVars, answered, located>>

\* A swap file is not attributed.
SkipSwapFile ==
    /\ At("swap file")
    /\ usage' = WithDiscovery(usage, NoOne, "other", 0)
    /\ Done
    /\ UNCHANGED <<inventory, mounts, swaps, faults, rawVars, answered, located>>

\* The path of a swap is looked up twice.
LocateSwap ==
    /\ At("swap")
    /\ \E ok \in BOOLEAN : Reads(ok) /\ located' = IF ok THEN Stat(swaps[Subject].path) ELSE {}
    /\ Done
    /\ UNCHANGED <<usageVars, rawVars, answered>>

\* Both looks found the same device.
CorrelateSwap ==
    /\ At("swap again")
    /\ LET i == Subject
           same(ok) == {s \in located : ok /\ s.block /\ Stat(swaps[i].path) = {s}}
           found(ok) == {correlate(s.number) : s \in same(ok)} \ {NoOne}
       IN  \E ok \in BOOLEAN :
            /\ Reads(ok)
            /\ IF found(ok) = {}
               THEN /\ usage' = WithDiscovery(usage, NoOne, "other", 0)
                    /\ UNCHANGED <<inventory, swaps>>
               ELSE \E n \in found(ok) :
                    /\ swaps' = [swaps EXCEPT ![i].node = n]
                    /\ inventory' = [inventory EXCEPT !.nodes[n] = Corroborate(@, "swap")]
                    /\ UNCHANGED usage
    /\ located' = {}
    /\ Done
    /\ UNCHANGED <<mounts, rawVars, answered>>

-----------------------------------------------------------------------------
(* Partitions belong to disks. *)

relationshipUsable(node) ==
    \A issue \in node.observation.issues :
        /\ issue.code \notin {"InvalidRelationship", "DeviceDisappeared"}
        /\ issue.field \notin {"parent_kernel_name", "partition_number"}

IsPartition(node) == Is(node.observation, "partition")

\* A partition is on the resolved disk that lists it.
HasParent(nodes, n) ==
    /\ relationshipUsable(nodes[n])
    /\ "partition_number" \in DOMAIN nodes[n].observation.known
    /\ \E p \in Value(nodes[n].observation.known, "parent_kernel_name") \cap DOMAIN nodes :
        /\ relationshipUsable(nodes[p])
        /\ Is(nodes[p].observation, "disk")
        /\ nodes[p].state = "Resolved"
        /\ nodes[p].observation.virtual # "virtual"
        /\ n \in nodes[p].observation.children

UsedNodes == {mounts[i].node : i \in DOMAIN mounts} \cup {swaps[i].node : i \in DOMAIN swaps}

\* A virtual node that is used has an issue; whatever the raw scan lost is one too.
RelateUsage ==
    /\ At("relate")
    /\ LET nodes == inventory.nodes
           orphans == {n \in DOMAIN nodes : IsPartition(nodes[n]) /\ ~HasParent(nodes, n)}
       IN  /\ inventory' = [inventory EXCEPT !.nodes = [n \in DOMAIN nodes |->
                IF n \in UsedNodes /\ nodes[n].observation.virtual = "virtual"
                THEN WithIssue(nodes[n], "UnsupportedTopology", "usage_parent") ELSE nodes[n]]]
           /\ usage' = [usage EXCEPT !.discovery =
                @ \cup {Discovery(n, "other", 0) : n \in orphans \cup inventory.lost}]
    /\ Done
    /\ UNCHANGED <<mounts, swaps, faults, rawVars, answered, located>>

UsageStep ==
    \/ BeginUsage \/ ReadMountInfo \/ ReadSwaps \/ InspectPath \/ ReadSignature
    \/ CorrelateMount \/ SkipSwapFile \/ LocateSwap \/ CorrelateSwap \/ RelateUsage
=============================================================================
