--------------------------- MODULE FreshSignatures ---------------------------
(***************************************************************************)
(* The fresh signatures (NativeFreshSignatureSource::read,                 *)
(* platform/linux/native_fresh_signatures.cpp): each physical device is    *)
(* opened and probed, between two scans of the raw inventory that must     *)
(* both show what the inventory shows.  A probe captures the signature     *)
(* twice and looks at the path of the device again.                        *)
(*                                                                         *)
(* A capture is [state, type, table].  It is not atomic: the library reads *)
(* the start and the end of the device, in an order of its own, and the    *)
(* device may be written to in between.  That both regions can be read is  *)
(* checked with the first capture and at the end; what is wrong with a     *)
(* table (geometry, overlaps, flags) is the signature "BadTable".  A drive *)
(* keeps its capacity, so that another capacity is another drive.          *)
(***************************************************************************)
EXTENDS ProcessPass

VARIABLES
    probe       \* the probe that is running: where it opened which drive, the region that
                \* the running capture has read, and what was found

Captured(state, type, table) == [state |-> state, type |-> type, table |-> table]
failure(state) == Captured(state, Nothing, {})

Regions == {"start", "end"}
NoRegion == [region |-> Nothing, labels |-> {}, table |-> {}]

Probe(at, drive, read, found) == [at |-> at, drive |-> drive, read |-> read, found |-> found]
Unopened(at, state) == Probe(at, Gone, NoRegion, failure(state))
NoProbe == Unopened(Nothing, "Unavailable")

MinSectors == 8     \* bound: 4096 bytes, below which nothing is probed

freshSignatureComplete(state) == state \in {"None", "Filesystem", "Membership"}

IsDisk(node) == Is(node.observation, "disk")

\* Mutant: a raw scan that shows a device of that name shows the same.
ShowsName(nodes, lost, n) == n \in DOMAIN nodes

\* A raw scan shows the same device, and lost nothing on the way.
Shows(nodes, lost, n) ==
    LET identity(node) == <<node.id, node.state, node.scope, node.aliases, node.fallback>>
    IN  /\ Cardinality(DOMAIN nodes) = Cardinality(BlockNames)
        /\ lost \cap (issues \cup {"nothing", n}) = {}
        /\ n \in DOMAIN nodes
        /\ nodes[n].observation = inventory.nodes[n].observation
        /\ identity(nodes[n]) = identity(inventory.nodes[n])

SnapshotNow == scan(records, issues)

matchesSnapshot(n) ==
    /\ listed
    /\ Shows(resolveBlockIdentities(SnapshotNow.devices), SnapshotNow.issues, n)

\* A disk of the kind disk, or a partition of one that is no virtual device.
diskCandidate(n) ==
    LET node == inventory.nodes[n]
    IN  \/ IsDisk(node) /\ node.observation.kind = "Disk"
        \/ /\ IsPartition(node)
           /\ \E p \in Value(node.observation.known, "parent_kernel_name") \cap BlockNames :
                /\ IsDisk(inventory.nodes[p])
                /\ inventory.nodes[p].observation.kind = "Disk"
                /\ inventory.nodes[p].observation.virtual # "virtual"

Probed == {n \in BlockNames : inventory.nodes[n].observation.virtual # "virtual"}

\* Why a device is not probed at all.
Unprobed(n) ==
    IF ~diskCandidate(n) THEN "Unsupported"
    ELSE IF ~listed THEN "ReadFailure"
    ELSE IF ~matchesSnapshot(n) THEN "Disappeared"
    ELSE IF ~plan.decoders THEN "Unsupported"
    ELSE IF IsDisk(inventory.nodes[n]) /\ inventory.nodes[n].state # "Resolved" THEN "Unsupported"
    ELSE "Unavailable"

\* The raw scan before the probes has ended.
BeginFresh ==
    /\ At("fresh")
    /\ LET names == {n \in Probed : Unprobed(n) = "Unavailable"}
           probes(n) == Twice("probe", n) \o Twice("safeprobe", n) \o <<Step("close", n)>>
           sorted == InOrder(names)
       IN  /\ evidence' = [evidence EXCEPT !.fresh = [n \in Probed |-> Unprobed(n)]]
           /\ Then(FlattenSeq([i \in 1..Len(sorted) |-> probes(sorted[i])])
                   \o <<Step("enumerate", Own), Step("fresh end", Own)>>)
    /\ records' = <<>> /\ issues' = {}
    /\ UNCHANGED <<listed, open, seen, faults, pass, probe, usageVars, answered, located>>

-----------------------------------------------------------------------------
(* One device. *)

\* What a region of a place shows of labels and, at its start, of a table.
ReadRegion(at, region) ==
    [region |-> region, labels |-> LabelsIn(host, at, region),
     table |-> IF region = "start" /\ at \in DOMAIN host.table THEN host.table[at] ELSE {}]

\* What follows from both regions.
capture(read, rest) ==
    LET labels == read.labels \cup rest.labels
        table == read.table \cup rest.table
        type == CHOOSE l \in labels : TRUE
    IN  IF labels = {} THEN Captured("None", "None", table)
        ELSE IF Cardinality(labels) > 1 \/ type = "Ambivalent" \/ table # {} THEN failure("Conflicting")
        ELSE IF type \in Memberships THEN Captured("Membership", type, table)
        ELSE IF type = "ext4" THEN Captured("Filesystem", type, table)
        ELSE failure("Unsupported")

Locatable(node) ==
    /\ node.path # {} /\ NumberOf(node) # {}
    /\ \E size \in Value(node.observation.known, "capacity_bytes") : size >= MinSectors

\* The device is opened by its path and checked by its number; the first capture begins.
OpenDevice ==
    /\ At("probe")
    /\ LET node == inventory.nodes[Subject]
           at == CHOOSE p \in node.path : TRUE
       IN  IF ~Locatable(node) THEN Reads(TRUE) /\ probe' = Unopened(Nothing, "Unsupported")
           ELSE \E ok \in BOOLEAN, region \in Regions :
                /\ Reads(ok)
                /\ probe' = IF ~ok THEN Unopened(at, "ReadFailure")
                            ELSE IF ~matches(Stat(at), node) THEN Unopened(at, "Disappeared")
                            ELSE Probe(at, host.drive[at], ReadRegion(at, region), failure("Unfinished"))
    /\ Done
    /\ UNCHANGED <<evidence, seen, pass, usageVars, rawVars, answered, located>>

\* A drive that is no longer there cannot be read.
Readable(ok) == ok /\ host.drive[probe.at] = probe.drive

\* What a capture finds that reads the other region now.
CaptureNow == capture(probe.read, ReadRegion(probe.at, CHOOSE r \in Regions \ {probe.read.region} : TRUE))

FinishCapture ==
    /\ At("probe again")
    /\ IF probe.found # failure("Unfinished") THEN UNCHANGED <<probe, faults>>
       ELSE \E ok \in BOOLEAN :
            /\ Reads(ok)
            /\ probe' = [probe EXCEPT !.read = NoRegion,
                                      !.found = IF Readable(ok) THEN CaptureNow ELSE failure("ReadFailure")]
    /\ Done
    /\ UNCHANGED <<evidence, seen, pass, usageVars, rawVars, answered, located>>

\* What is complete is captured once more.
CaptureAgain ==
    /\ At("safeprobe")
    /\ IF ~freshSignatureComplete(probe.found.state) THEN UNCHANGED <<probe, faults>>
       ELSE \E ok \in BOOLEAN, region \in Regions :
            /\ Reads(ok)
            /\ probe' = IF Readable(ok) THEN [probe EXCEPT !.read = ReadRegion(probe.at, region)]
                        ELSE [probe EXCEPT !.found = failure("ReadFailure")]
    /\ Done
    /\ UNCHANGED <<evidence, seen, pass, usageVars, rawVars, answered, located>>

\* Mutant: the second capture is not compared with the first.
TrustFirst(again) == probe.found

\* A second capture must find the same; what it cannot complete replaces the first.
Compared(again) ==
    IF ~freshSignatureComplete(again.state) THEN again
    ELSE IF again = probe.found THEN again ELSE failure("Conflicting")

FinishAgain ==
    /\ At("safeprobe again")
    /\ IF ~freshSignatureComplete(probe.found.state) THEN UNCHANGED <<probe, faults>>
       ELSE \E ok \in BOOLEAN :
            /\ Reads(ok)
            /\ probe' = [probe EXCEPT !.read = NoRegion,
                                      !.found = IF Readable(ok) THEN Compared(CaptureNow)
                                                ELSE failure("ReadFailure")]
    /\ Done
    /\ UNCHANGED <<evidence, seen, pass, usageVars, rawVars, answered, located>>

\* The table of a disk has the partitions that the kernel knows, at the same places.
FitsKernel(n) ==
    LET children == {c \in BlockNames :
            Value(inventory.nodes[c].observation.known, "parent_kernel_name") = {n}}
    IN  /\ children = probe.found.table
        /\ Cardinality(inventory.nodes[n].observation.children) = Cardinality(children)
        /\ \A c \in children : "partition_number" \in DOMAIN inventory.nodes[c].observation.known

\* What udev noted is not another signature, and no doubtful one.
FitsCache(signature) ==
    /\ signature.state \notin {"Conflicting", "Malformed"}
    /\ signature.type \in {Nothing, probe.found.type}

\* What was captured must fit what is known, the labels be readable once more, and the
\* path of the device still name it.
CloseDevice ==
    /\ At("close")
    /\ LET n == Subject
           node == inventory.nodes[n]
           fits == (IsDisk(node) => FitsKernel(n)) /\ FitsCache(node.signature)
           found == IF ~freshSignatureComplete(probe.found.state) THEN probe.found.state
                    ELSE IF ~fits THEN "Conflicting"
                    ELSE IF host.drive[probe.at] # probe.drive THEN "ReadFailure"
                    ELSE probe.found.state
       IN  \E ok \in BOOLEAN :
            /\ Reads(ok)
            /\ probe.at = Nothing => ok
            /\ evidence' = [evidence EXCEPT !.fresh[n] =
                    IF probe.at = Nothing THEN found
                    ELSE IF ~ok THEN "ReadFailure"
                    ELSE IF ~matches(Stat(probe.at), node) THEN "Disappeared"
                    ELSE found]
    /\ probe' = NoProbe
    /\ Done
    /\ UNCHANGED <<seen, pass, usageVars, rawVars, answered, located>>

-----------------------------------------------------------------------------
(* After the probes. *)

\* Mutant: the inventory is not scanned again.
TrustProbes ==
    /\ At("fresh end")
    /\ records' = <<>> /\ issues' = {}
    /\ Done
    /\ UNCHANGED <<evidence, listed, open, seen, faults, pass, probe, usageVars, answered, located>>

\* What the raw scan after the probes does not confirm has not been probed.
EndFresh ==
    /\ At("fresh end")
    /\ evidence' = [evidence EXCEPT !.fresh =
            [n \in Probed |-> IF ~listed THEN "ReadFailure"
                              ELSE IF ~matchesSnapshot(n) THEN "Disappeared" ELSE @[n]]]
    /\ records' = <<>> /\ issues' = {}
    /\ Done
    /\ UNCHANGED <<listed, open, seen, faults, pass, probe, usageVars, answered, located>>

FreshStep ==
    \/ BeginFresh \/ OpenDevice \/ FinishCapture \/ CaptureAgain \/ FinishAgain \/ CloseDevice \/ EndFresh
=============================================================================
