---------------------------- MODULE ZfsOwnership ----------------------------
(***************************************************************************)
(* The imported ZFS pools (the ZFS part of LinuxOwnershipSource::read,     *)
(* platform/linux/linux_ownership_source.cpp, and native_zfs_ownership.cpp *)
(* below it).  The pools are captured twice and must not differ; a vdev is *)
(* attributed to what its path leads to, which is looked up twice.         *)
(*                                                                         *)
(* The groups of a pool (mirror, raidz) are merged with the pool, and the  *)
(* directories below /dev/zvol are flat.                                   *)
(***************************************************************************)
EXTENDS OwnershipRead

PoolItem == <<"pools", Own>>
Pools == IF PoolItem \in DOMAIN seen THEN UNION {DOMAIN p : p \in seen[PoolItem].value} ELSE {}
MembersOf(pool) == UNION {p[pool] : p \in seen[PoolItem].value}
VdevOf(pool, path) == pool \o ":" \o path

\* The mounts of a filesystem by its number: the block device, or the pool.
OwnersOfNumber(number) ==
    LET rows == {mounts[i] : i \in {j \in DOMAIN mounts : plan.number[mounts[j].at] = number}}
    IN  {row.node : row \in {r \in rows : r.node # NoOne}}
            \cup {row.source : row \in {r \in rows : r.node = NoOne /\ r.fs = "zfs" /\ r.source \in Pools}}

\* Whose a path is, by two looks at it: a block device by its number, a file by the
\* mounts of its filesystem.  It has one owner, or none that is known.
pathOwner(first, second) ==
    LET owners ==
            UNION {IF s.block THEN {n \in BlockNames : NumberOf(inventory.nodes[n]) = {s.number}}
                   ELSE OwnersOfNumber(s.number) : s \in IF first = second THEN first ELSE {}}
    IN  IF Cardinality(owners) = 1 THEN owners ELSE {}

CachedMembers == {n \in BlockNames : inventory.nodes[n].signature.type = "zfs_member"}

\* Without the module, and without anything that tells of ZFS, there are no pools.
BeginZfs ==
    /\ At("zfs")
    /\ LET observed == \/ \E i \in DOMAIN mounts : mounts[i].fs = "zfs"
                       \/ CachedMembers # {}
       IN  \E reading \in ReadingsOf({<<"zfs module", Own>>}) :
            /\ Reads(IsHonest(reading))
            /\ seen' = seen @@ reading
            /\ IF reading[<<"zfs module", Own>>].absent /\ ~observed
               THEN Done /\ evidence' = [evidence EXCEPT !.covered = @ \cup {"zfs"}]
               ELSE /\ Then(<<Step("capture", Own), Step("capture again", Own)>>)
                    /\ UNCHANGED evidence
    /\ UNCHANGED <<usageVars, rawVars, answered, located>>

\* A capture of the pools; it needs the control device, which holds the module.
Capture(ok) == IF ok /\ plan.zfs THEN Found(host.pools) ELSE Failed

CapturePools ==
    /\ At("capture")
    /\ \E ok \in BOOLEAN :
        /\ Reads(ok)
        /\ seen' = seen @@ (PoolItem :> Capture(ok))
    /\ Done
    /\ UNCHANGED <<evidence, usageVars, rawVars, answered, located>>

RecapturePools ==
    /\ At("capture again")
    /\ \E ok \in BOOLEAN, reading \in ReadingsOf({<<"control", Own>>}) :
        LET complete == Capture(ok) # Failed /\ Capture(ok) = seen[PoolItem]
            found == WithNodes([evidence EXCEPT !.claims = @ \cup {Claim(p, "Zfs", 0) : p \in Pools}],
                               Pools, complete)
            members == SetToSeq(UNION {{<<p, path>> : path \in MembersOf(p)} : p \in Pools})
        IN  /\ Reads(ok /\ IsHonest(reading))
            /\ ~complete => IsHonest(reading)
            /\ ok \/ IsHonest(reading)
            /\ seen' = IF complete /\ ~seen[<<"zfs module", Own>>].absent THEN seen @@ reading ELSE seen
            /\ evidence' = IF complete THEN [found EXCEPT !.covered = @ \cup {"zfs"}]
                           ELSE WithIssues(found, {NoOne}, "zfs")
            /\ Then(FlattenSeq([i \in 1..Len(members) |-> Twice("vdev", members[i])])
                    \o ForEach("zvols", SetToSeq(Pools)) \o <<Step("zfs use", Own)>>)
    /\ UNCHANGED <<usageVars, rawVars, answered, located>>

\* The path of a vdev.
LocateVdev ==
    /\ At("vdev")
    /\ \E ok \in BOOLEAN : Reads(ok) /\ located' = IF ok THEN Stat(Subject[2]) ELSE {}
    /\ Done
    /\ UNCHANGED <<seen, evidence, usageVars, rawVars, answered>>

AttributeVdev ==
    /\ At("vdev again")
    /\ LET pool == Subject[1]
           vdev == VdevOf(pool, Subject[2])
           owners(ok) == pathOwner(located, IF ok THEN Stat(Subject[2]) ELSE {})
           e == WithNodes([evidence EXCEPT !.edges = @ \cup {<<pool, vdev>>}], {vdev}, TRUE)
       IN  \E ok \in BOOLEAN :
            /\ Reads(ok)
            /\ evidence' = IF owners(ok) = {} THEN WithIssues(e, {NoOne, vdev}, "zfs")
                           ELSE [e EXCEPT !.edges = @ \cup {<<vdev, owner>> : owner \in owners(ok)}]
    /\ located' = {}
    /\ Done
    /\ UNCHANGED <<seen, usageVars, rawVars, answered>>

\* The volumes of a pool; each is the one virtual device with its number.
ReadZvols ==
    /\ At("zvols")
    /\ \E reading \in ReadingsOf({<<"zvols", Subject>>}) :
        LET found == reading[<<"zvols", Subject>>]
            volumes == SetToSeq(UNION found.value)
        IN  /\ Reads(IsHonest(reading))
            /\ seen' = seen @@ reading
            /\ evidence' = WithIssues(evidence, {p \in {Subject} : found = Failed}, "zvol")
            /\ Then(FlattenSeq([i \in 1..Len(volumes) |-> Twice("zvol", <<Subject, volumes[i]>>)]))
    /\ UNCHANGED <<usageVars, rawVars, answered, located>>

LocateZvol ==
    /\ At("zvol")
    /\ \E ok \in BOOLEAN : Reads(ok) /\ located' = IF ok THEN Stat(Subject[2]) ELSE {}
    /\ Done
    /\ UNCHANGED <<seen, evidence, usageVars, rawVars, answered>>

AttributeZvol ==
    /\ At("zvol again")
    /\ LET pool == Subject[1]
           volumes(ok) ==
               {n \in BlockNames :
                   /\ inventory.nodes[n].observation.virtual = "virtual"
                   /\ ok /\ located # {} /\ located = Stat(Subject[2])
                   /\ \E s \in located : NumberOf(inventory.nodes[n]) = {s.number}}
       IN  \E ok \in BOOLEAN :
            /\ Reads(ok)
            /\ evidence' = IF Cardinality(volumes(ok)) = 1
                           THEN [evidence EXCEPT !.edges = @ \cup {<<n, pool>> : n \in volumes(ok)}]
                           ELSE WithIssues(evidence, {pool}, "zvol")
    /\ located' = {}
    /\ Done
    /\ UNCHANGED <<seen, usageVars, rawVars, answered>>

\* A mount of a dataset is use of its pool.  A member that no pool accounts for is an issue.
RelatePools ==
    /\ At("zfs use")
    /\ LET accounted == {edge[2] : edge \in {f \in evidence.edges :
                            \E p \in Pools : \E path \in MembersOf(p) : f[1] = VdevOf(p, path)}}
           rows == {mounts[i] : i \in {j \in DOMAIN mounts :
                        mounts[j].fs = "zfs" /\ mounts[j].source \in Pools}}
       IN  evidence' = WithIssues([evidence EXCEPT !.claims =
                            @ \cup {Claim(row.source, "Mounted", row.id) : row \in rows}],
                            CachedMembers \ accounted, "zfs")
    /\ Done
    /\ UNCHANGED <<seen, faults, usageVars, rawVars, answered, located>>

ZfsStep ==
    \/ BeginZfs \/ CapturePools \/ RecapturePools \/ LocateVdev \/ AttributeVdev
    \/ ReadZvols \/ LocateZvol \/ AttributeZvol \/ RelatePools
=============================================================================
