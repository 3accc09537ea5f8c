------------------------------ MODULE HostScan ------------------------------
(***************************************************************************)
(* One production scan of a host that changes meanwhile (the reads of      *)
(* LinuxProductionSource, platform/linux/linux_production_source.cpp, in   *)
(* their order, and the verdict on what they found,                        *)
(* core/ownership_graph.cpp).                                              *)
(*                                                                         *)
(* The scan holds no lock on anything it reads.  What it promises, it      *)
(* promises of the host as it has been all the time since the scan began.  *)
(***************************************************************************)
EXTENDS FreshSignatures

VARIABLES
    verdicts,   \* the verdicts on the disks, when the scan has ended
    lately      \* the uses that there have been since the final recheck began (for the properties)

scanVars == <<todo, faults, rawVars, answered, usageVars, located, seen, evidence, pass, probe, verdicts>>
vars == <<hostVars, scanVars, lately>>

HostSources == {"mountinfo", "swaps", "sysfs", "zfs", "proxmox", "processes", "inactive_membership"}
Assessed == INSTANCE OwnershipGraph WITH Sources <- HostSources

-----------------------------------------------------------------------------
(* The end of the ownership read. *)

\* The processes are covered when neither collection left a gap; what is inactive is
\* covered when every probe was complete.  Then the topology is read again, and the
\* pools too if a task had their control device open.
BeginRecheck ==
    /\ At("recheck all")
    /\ LET probed == \A n \in Probed : freshSignatureComplete(evidence.fresh[n])
           subjects == {item[2] : item \in {i \in DOMAIN seen : i[1] \notin ConfigKinds /\ i # PoolItem}}
           rechecks == InOrder(subjects) \o SetToSeq(subjects \ BlockNames)
       IN  /\ evidence' = [evidence EXCEPT !.covered =
                @ \cup {"processes" : g \in {s \in {TRUE} : evidence.gaps = {}}}
                  \cup {"inactive_membership" : g \in {s \in {TRUE} : probed}}]
           /\ Then((IF evidence.control THEN Twice("pools", Own) ELSE <<>>)
                   \o ForEach("recheck", rechecks))
    /\ UNCHANGED <<seen, faults, pass, probe, usageVars, rawVars, answered, located>>

ForgetPools(e) == WithIssues([e EXCEPT !.covered = @ \ {"zfs"}], {NoOne}, "zfs")

\* The pools as they are now, by two captures that agree.
RereadPools ==
    /\ \/ At("pools")
       \/ At("pools again")
    /\ \E ok \in BOOLEAN :
        /\ Reads(ok)
        /\ evidence' = IF Capture(ok) = seen[PoolItem] THEN evidence ELSE ForgetPools(evidence)
    /\ Done
    /\ UNCHANGED <<seen, pass, probe, usageVars, rawVars, answered, located>>

\* Mutant: the topology is not compared with what it was.
TrustTopology ==
    /\ At("recheck")
    /\ Done
    /\ UNCHANGED <<seen, faults, evidence, pass, probe, usageVars, rawVars, answered, located>>

\* What is not as it was puts every device in doubt.
RecheckTopology ==
    /\ At("recheck")
    /\ LET items == {i \in DOMAIN seen : i[1] \notin ConfigKinds /\ i # PoolItem /\ i[2] = Subject}
       IN  \E reading \in ReadingsOf(items) :
            /\ Reads(IsHonest(reading))
            /\ evidence' = IF \A i \in items : reading[i] = seen[i] THEN evidence
                           ELSE WithIssues(evidence, {NoOne} \cup BlockNames, "sysfs")
    /\ Done
    /\ UNCHANGED <<seen, pass, probe, usageVars, rawVars, answered, located>>

-----------------------------------------------------------------------------
(* The verdict. *)

Block(node) ==
    LET raw == node.observation
        parents == Value(raw.known, "parent_kernel_name")
    IN  [role |-> IF IsPartition(node) THEN "Partition"
                  ELSE IF IsDisk(node) /\ raw.virtual # "virtual" THEN "Disk" ELSE "Virtual",
         parent |-> IF parents = {} THEN "" ELSE CHOOSE p \in parents : TRUE,
         reciprocal |->
            /\ \A issue \in raw.issues : issue.code \notin {"InvalidRelationship", "DeviceDisappeared"}
            /\ "partition_number" \in DOMAIN raw.known
            /\ \E p \in parents \cap BlockNames :
                IsDisk(inventory.nodes[p]) /\ raw.name \in inventory.nodes[p].observation.children,
         kind |-> IF raw.kind = "Disk" THEN "Disk" ELSE "Other",
         resolved |-> node.state = "Resolved",
         path |-> node.path # {},
         scope |-> node.scope,
         readOnly |-> IF Value(raw.known, "read_only") = {} THEN "unknown"
                      ELSE IF raw.known.read_only THEN "yes" ELSE "no",
         sized |-> \E size \in Value(raw.known, "capacity_bytes") : size > 0,
         issues |-> {"observation" : i \in raw.issues}
            \cup {IF issue = Issue("MissingEvidence", "signature") THEN "signature" ELSE "other" :
                    issue \in node.issues}]

\* Everything that was found, as the graph takes it.  What the raw scan lost is an issue
\* of the inventory.
EvidenceFound ==
    [blocks |-> [n \in BlockNames |-> Block(inventory.nodes[n])],
     nodes |-> evidence.nodes, twice |-> {}, edges |-> evidence.edges, claims |-> evidence.claims,
     issues |-> evidence.issues, gaps |-> evidence.gaps,
     covered |-> evidence.covered \cup usage.covered,
     fresh |-> evidence.fresh, loops |-> evidence.loops,
     mounts |-> [i \in DOMAIN mounts |->
        [id |-> mounts[i].id, node |-> mounts[i].node, harmless |-> IsHarmless(mounts[i])]],
     swaps |-> {swaps[i].node : i \in DOMAIN swaps},
     discovery |-> usage.discovery]

Assess ==
    /\ At("assess")
    /\ \E found \in {EvidenceFound} :
        \E traces \in {Assessed!Traces(found)} : verdicts' = Assessed!Verdicts(found, traces)
    /\ Done
    /\ UNCHANGED <<faults, rawVars, answered, usageVars, located, seen, evidence, pass, probe>>

-----------------------------------------------------------------------------
(* The scan. *)

HostSteps ==
    <<Step("enumerate", Own), Step("usage", Own), Step("ownership", Own), Step("zfs", Own),
      Step("proxmox", Own)>>
FreshSteps == <<Step("enumerate", Own), Step("fresh", Own)>>
FinalSteps == <<Step("recheck all", Own), Step("assess", Own)>>

\* Mutant: the tasks are not looked at again after the probes.
LooksAtTasksOnce == HostSteps \o PassSteps(1) \o FreshSteps \o FinalSteps

ScanSteps == HostSteps \o PassSteps(1) \o FreshSteps \o PassSteps(1) \o FinalSteps

Init ==
    /\ HostInit
    /\ todo = ScanSteps
    /\ faults = 0
    /\ listed = FALSE /\ records = <<>> /\ issues = {} /\ open = <<>>
    /\ answered = [n \in Names |-> {}]
    /\ inventory = [nodes |-> <<>>, lost |-> {}] /\ mounts = <<>> /\ swaps = <<>>
    /\ usage = [covered |-> {}, discovery |-> {}]
    /\ located = {} /\ seen = <<>> /\ evidence = NoEvidence
    /\ pass = NewPass(1, {}) /\ probe = NoProbe
    /\ verdicts = <<>> /\ lately = {}

RecheckStep == BeginRecheck \/ RereadPools \/ RecheckTopology

\* Each part of the scan leaves alone what belongs to those that come after it.
ScanStep ==
    /\ \/ RawScanStep /\ UNCHANGED <<usageVars, located, seen, evidence, pass, probe, verdicts>>
       \/ UsageStep /\ UNCHANGED <<seen, evidence, pass, probe, verdicts>>
       \/ TopologyStep /\ UNCHANGED <<pass, probe, verdicts>>
       \/ ZfsStep /\ UNCHANGED <<pass, probe, verdicts>>
       \/ ProxmoxStep /\ UNCHANGED <<pass, probe, verdicts>>
       \/ ProcessStep /\ UNCHANGED <<probe, verdicts>>
       \/ FreshStep /\ UNCHANGED verdicts
       \/ RecheckStep /\ UNCHANGED verdicts
       \/ Assess
    /\ UNCHANGED hostVars

Ended == todo = <<>>

Next ==
    \/ ScanStep /\ lately' = IF At("recheck all") THEN UsesOfDrives(host) ELSE lately
    \/ HostChange /\ ~Ended /\ lately' = lately \cap UsesOfDrives(host') /\ UNCHANGED scanVars
    \/ Ended /\ UNCHANGED vars

Spec == Init /\ [][Next]_vars

-----------------------------------------------------------------------------
(* What a verdict promises. *)

UsesOf(uses, d) == {use \in uses : use[2] = d}

\* A disk that is READY was not used all through the scan: by a mount, a swap, a layer,
\* a pool, a guest or a storage of the configuration, a membership, or a task.  Only a use
\* that was handed on twice or more may have gone unseen: a descriptor that went from a task
\* not yet read to one read already in both collections of the tasks, a label that was
\* moved from a region not yet read to one read already in both captures.  And no layer may
\* have been there since before the final recheck: the links that were read long ago, and
\* cleared the disk, are not the last that is known of it.
ReadyWasUnused ==
    \A d \in DOMAIN verdicts : verdicts[d] = "Ready" =>
        /\ \A use \in UsesOf(DOMAIN lasting, d) : lasting[use].handed >= 2
        /\ \A use \in UsesOf(lately, d) : use[1][1] # "held"

\* The drive of a disk that is READY is the one that answered whenever the disk was
\* read: no verdict is put together from two drives.
ReadyIsOneDrive ==
    \A d \in DOMAIN verdicts :
        verdicts[d] = "Ready" => Cardinality(answered[d]) = 1

\* The drives that have answered at a disk and have the identity that it was given.
IdentifiedAs(d) ==
    {drive \in answered[d] :
        \A i \in {j \in DOMAIN plan.entries : plan.entries[j].name = d} :
            "wwn" \in DOMAIN plan.entries[i].of[drive] =>
                plan.entries[i].of[drive].wwn
                    = {Plain(wwn) : wwn \in Value(inventory.nodes[d].observation.known, "wwn")}}

\* A disk is BUSY or PROTECTED for a use that there was of the drive that it has been
\* identified as, or of one that took its place after the last raw scan, at which the
\* topology alone is looked at again: never of one that any scan has seen at its name.
UseWasReal ==
    \A d \in DOMAIN verdicts : verdicts[d] \in {"Busy", "Protected"} =>
        \E use \in UsesOf(ever, d) : use[3] \in IdentifiedAs(d) \/ use[3] \notin answered[d]

\* The identifiers that were reported at a name.
Reported(n) ==
    UNION {UNION {UNION {{<<f, text>> : text \in SaysOf(e, drive)[f] \ {Garbage}} :
                            f \in DOMAIN e.says \cap {"wwn", "nvme_eui", "nvme_nguid"}} :
                    drive \in answered[n]} :
              e \in {plan.entries[i] : i \in {j \in DOMAIN plan.entries : plan.entries[j].name = n}}}

\* All sources and all entries of a name report the same of a field, or nothing.  Two
\* spellings of a model that its encoded bytes give are the same.
Agreed(n, f) ==
    LET entries == {plan.entries[i] : i \in {j \in DOMAIN plan.entries : plan.entries[j].name = n}}
        said(e, drive) == UNION Value(SaysOf(e, drive), f)
    IN  \A drive \in answered[n], d, e \in entries :
            /\ said(d, drive) = said(e, drive)
            /\ Cardinality(said(d, drive)) <= 1 \/ (f = "model" /\ said(d, drive) = d.encodes)

\* No node is given an identity while what it may rest on is in dispute: an identifier, the
\* serial number, the model or the capacity, if two sources or two entries of the node
\* report different things or one entry is silent, or an identifier that was also reported of
\* another node that is given an identity.  A name of which an entry was lost is excused.
IdentityIsUndisputed ==
    At("mountinfo") =>
        LET identified == {n \in BlockNames \ inventory.lost : inventory.nodes[n].state = "Resolved"}
        IN  \A n \in identified :
                /\ \A f \in {"wwn", "nvme_eui", "nvme_nguid", "serial", "model", "capacity_sectors_512"} :
                    Agreed(n, f)
                /\ \A m \in identified \ {n} : Reported(n) \cap Reported(m) = {}

Partitioned == {d \in Names : \E p \in DOMAIN plan.parent : plan.parent[p] = d}

\* Nothing has changed but the numbers of tasks, and that less often than a collection
\* of the tasks is begun again.
Undisturbed ==
    /\ Ended /\ plan.quiet /\ faults = 0
    /\ changes < MaxAttempts
    /\ changes = 0 \/ \A c \in plan.may : c.kind \in {"fork", "exit"}
    /\ ever = DOMAIN lasting /\ \A use \in ever : lasting[use].handed = 0

\* A scan of a host on which nothing changes but that tasks without a use come and go, and
\* of which everything can be read and nothing is odd, decides for every disk but the
\* unused ones that have partitions.
QuietScansDecide ==
    Undisturbed =>
        \A d \in DOMAIN verdicts :
            verdicts[d] \in IF UsesOf(ever, d) # {} THEN {"Busy", "Protected"}
                            ELSE IF d \in Partitioned THEN {"Unknown"} ELSE {"Ready"}

\* As test_native_fresh_signatures.cpp:801 has it, a disk with a partition that is not
\* used is READY.
PartitionedDisksCanBeReady ==
    Undisturbed => \A d \in DOMAIN verdicts \cap Partitioned :
        UsesOf(ever, d) = {} => verdicts[d] = "Ready"
=============================================================================
