---------------------------- MODULE OwnershipRead ----------------------------
(***************************************************************************)
(* What is backed by what (LinuxOwnershipSource,                           *)
(* platform/linux/linux_ownership_source.cpp, with its reads in            *)
(* native_ownership_io.cpp and native_zfs_ownership.cpp): the links of     *)
(* /sys/class/block, the LVM volumes over them, and the imported pools.    *)
(* Every text and listing that was read is read again at the end.          *)
(*                                                                         *)
(* The texts and listings of one block device are read in one step.        *)
(***************************************************************************)
EXTENDS HostUsage

VARIABLES
    seen,       \* what was read, by <<kind, name>>, to be compared at the end
    evidence    \* what follows from it, see OwnershipGraph, and whether ZFS was consulted

\* A read has a value, or finds that there is nothing, or fails.
Found(v) == [value |-> {v}, absent |-> FALSE]
Absent == [value |-> {}, absent |-> TRUE]
Failed == [value |-> {}, absent |-> FALSE]
FoundIf(there, v) == IF there THEN Found(v) ELSE Absent

NoEvidence ==
    [nodes |-> <<>>, edges |-> {}, claims |-> {}, issues |-> {}, gaps |-> {},
     covered |-> {"sysfs"}, fresh |-> <<>>, loops |-> {}, control |-> FALSE]

Claim(consumer, use, row) == [consumer |-> consumer, use |-> use, row |-> row]
About(node, source) == [node |-> node, source |-> source]

WithIssues(e, nodes, source) ==
    [e EXCEPT !.issues = @ \cup {About(n, source) : n \in nodes},
              !.covered = IF source = "sysfs" /\ nodes # {} THEN @ \ {"sysfs"} ELSE @]

WithNodes(e, keys, complete) ==
    [e EXCEPT !.nodes = [k \in DOMAIN @ \cup keys |->
                            IF k \in keys THEN complete ELSE @[k]]]

-----------------------------------------------------------------------------
(* The files of the kernel. *)

\* The links between layers that sysfs shows.
Links(h) == {pair \in h.over : plan.layer[pair[1]].kind \in {"lvm", "dm", "md", "other"}}

\* The volumes of a pool are named in a directory of their own.
ZvolsOf(pool) ==
    {n \in DOMAIN plan.layer \cap Present(host) :
        plan.layer[n].kind = "zvol" /\ plan.layer[n].group = pool}

\* A loop device is a layer while it is attached.
IsSet(n) == plan.layer[n].kind = "loop" => \E pair \in host.over : pair[1] = n

Look(item) ==
    LET n == item[2]
        there == n \in Present(host)
    IN  CASE item[1] = "class" -> Found(Present(host))
          [] item[1] = "dev" -> FoundIf(there, plan.number[n])
          [] item[1] = "slaves" ->
                FoundIf(there /\ n \notin DOMAIN plan.parent,
                        {pair[2] : pair \in {q \in Links(host) : q[1] = n}})
          [] item[1] = "holders" ->
                FoundIf(there, {pair[1] : pair \in {q \in Links(host) : q[2] = n}})
          [] item[1] = "layer" -> FoundIf(there /\ n \in DOMAIN plan.layer /\ IsSet(n), n)
          [] item[1] \in {"zfs module", "control"} -> FoundIf(plan.zfs, n)
          [] item[1] = "zvols" -> FoundIf(ZvolsOf(n) # {}, ZvolsOf(n))

ItemsOf(name) == {<<kind, name>> : kind \in {"dev", "slaves", "holders", "layer"}}

\* Some of the items are read at once; one of them may fail.
ReadingsOf(items) ==
    {[i \in items |-> IF i \in failing THEN Failed ELSE Look(i)] :
        failing \in {f \in SUBSET items : Cardinality(f) <= 1}}

IsHonest(reading) == \A i \in DOMAIN reading : reading[i] = Look(i)

BlockNames == DOMAIN inventory.nodes

BeginOwnership ==
    /\ At("ownership")
    /\ evidence' = NoEvidence
    /\ \E reading \in ReadingsOf({<<"class", Own>>}) :
        Reads(IsHonest(reading)) /\ seen' = reading
    /\ Then(ForEach("block", InOrder(BlockNames)) \o <<Step("topology", Own)>>)
    /\ UNCHANGED <<usageVars, rawVars, answered, located>>

ReadBlock ==
    /\ At("block")
    /\ \E reading \in ReadingsOf(ItemsOf(Subject)) :
        Reads(IsHonest(reading)) /\ seen' = seen @@ reading
    /\ Done
    /\ UNCHANGED <<evidence, usageVars, rawVars, answered, located>>

-----------------------------------------------------------------------------
(* The topology: what follows from the links. *)

Listed(kind, n) == UNION seen[<<kind, n>>].value
Slaves(n) == IF n \in BlockNames THEN Listed("slaves", n) ELSE {}
Holders(n) == IF n \in BlockNames THEN Listed("holders", n) ELSE {}
IsLayer(n, kinds) ==
    n \in BlockNames /\ seen[<<"layer", n>>].value # {} /\ plan.layer[n].kind \in kinds

\* What could not be read, or is not what the inventory says.
Unread(n) ==
    \/ seen[<<"dev", n>>].value = {}
    \/ seen[<<"dev", n>>].value # NumberOf(inventory.nodes[n])
    \/ /\ seen[<<"slaves", n>>].value = {}
       /\ ~(seen[<<"slaves", n>>].absent /\ IsPartition(inventory.nodes[n]))
    \/ seen[<<"holders", n>>].value = {}
    \/ seen[<<"layer", n>>] = Failed

Unfounded(n) ==
    \/ IsLayer(n, {"lvm", "dm"}) /\ Slaves(n) = {}
    \/ IsLayer(n, {"md"}) /\ (Slaves(n) = {} \/ ~plan.layer[n].sound)
    \/ ~IsLayer(n, {"lvm", "dm", "md"}) /\ Slaves(n) # {}

\* A link must be seen from both ends; otherwise both are in doubt.
Asymmetric ==
    UNION {UNION {{n, s} : s \in {m \in Slaves(n) : n \notin Holders(m)}} : n \in BlockNames}
        \cup UNION {UNION {{n, h} : h \in {m \in Holders(n) : n \notin Slaves(m)}} : n \in BlockNames}

\* An active volume names its group; what the layers of the group are over backs it.
Volumes == {n \in BlockNames : IsLayer(n, {"lvm"}) /\ plan.layer[n].sound}
InGroup(n, group) == IsLayer(n, {"lvm"}) /\ plan.layer[n].group = group

Layers(n) ==
    [m \in BlockNames |-> IF m = n \/ InGroup(m, plan.layer[n].group)
                          THEN Slaves(m) \cap BlockNames ELSE {}]

leaves(n) ==
    {m \in Reached(Layers(n), n) \ {n} : ~InGroup(m, plan.layer[n].group)}

\* The chain below a volume ends where nothing backs it, leaves the inventory, or circles.
Unrooted(n) ==
    LET reached == Reached(Layers(n), n)
    IN  \/ \E m \in reached \ leaves(n) : Slaves(m) = {} \/ ~(Slaves(m) \subseteq BlockNames)
        \/ reached \cap Circling(Layers(n)) # {}

GroupOf(n) == plan.layer[n].group
Groups == {GroupOf(n) : n \in Volumes}
PvOf(group, leaf) == group \o ":" \o leaf
PvsOf(group) == UNION {leaves(n) : n \in {v \in Volumes : GroupOf(v) = group}}

\* Members of groups that no active layer is over.
Inactive ==
    {n \in BlockNames :
        LET type == inventory.nodes[n].signature.type
        IN  \/ type = "LVM2_member" /\ \A g \in Groups : n \notin PvsOf(g)
            \/ type = "linux_raid_member" /\ Holders(n) = {}}

TopologyIssues ==
    {n \in BlockNames : Unread(n) \/ Unfounded(n)}
        \cup {n \in BlockNames : IsLayer(n, {"lvm"}) /\ ~plan.layer[n].sound}
        \cup {n \in Volumes : Unrooted(n)}
        \cup Inactive \cup Asymmetric
        \cup IF seen[<<"class", Own>>].value = {BlockNames} THEN {} ELSE {NoOne}

\* A loop device that is detached and empty has nothing below it.
InactiveLoops ==
    {n \in BlockNames :
        /\ inventory.nodes[n].observation.virtual = "virtual"
        /\ \E number \in NumberOf(inventory.nodes[n]) : number[1] = 7
        /\ seen[<<"layer", n>>].absent
        /\ Value(inventory.nodes[n].observation.known, "capacity_bytes") = {0}
        /\ Slaves(n) = {} /\ Holders(n) = {}}

RelateLayers ==
    /\ At("topology")
    /\ LET held == {n \in BlockNames : Slaves(n) # {}}
           pvs == UNION {{<<g, leaf>> : leaf \in PvsOf(g)} : g \in Groups}
           edges == UNION {{<<n, s>> : s \in Slaves(n)} : n \in BlockNames}
                        \cup UNION {{<<h, n>> : h \in Holders(n)} : n \in BlockNames}
                        \cup UNION {{<<n, plan.layer[n].volume>>, <<plan.layer[n].volume, GroupOf(n)>>} :
                                       n \in Volumes}
                        \cup UNION {{<<p[1], PvOf(p[1], p[2])>>, <<PvOf(p[1], p[2]), p[2]>>} : p \in pvs}
           keys == {plan.layer[n].volume : n \in Volumes} \cup Groups \cup {PvOf(p[1], p[2]) : p \in pvs}
           claims == {Claim(n, "Held", 0) : n \in held} \cup {Claim(n, "Lvm", 0) : n \in Volumes}
                        \cup {Claim(n, "Raid", 0) : n \in {m \in BlockNames : IsLayer(m, {"md"})}}
       IN  evidence' = WithIssues(WithNodes([evidence EXCEPT !.edges = @ \cup edges,
                                                             !.claims = @ \cup claims,
                                                             !.loops = InactiveLoops],
                                            keys, TRUE),
                                  TopologyIssues, "sysfs")
    /\ Done
    /\ UNCHANGED <<seen, faults, usageVars, rawVars, answered, located>>

TopologyStep == BeginOwnership \/ ReadBlock \/ RelateLayers
=============================================================================
