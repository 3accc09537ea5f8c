---------------------------- MODULE ProxmoxConfig ----------------------------
(***************************************************************************)
(* What the Proxmox configuration uses (readProxmoxOwnership,              *)
(* platform/linux/proxmox_ownership.cpp): the storages of this host and    *)
(* the disks of its guests, running or not.  The configuration is read     *)
(* once, and everything that was read is read again at the end.            *)
(*                                                                         *)
(* A line of a guest is [kind, at]: the path of a raw disk, a "volume" of  *)
(* a storage, the disk behind a "pci" function, or a "custom" mechanism.   *)
(* A line without a disk is left out.                                      *)
(***************************************************************************)
EXTENDS ZfsOwnership

ConfigKinds == {"local", "storage.cfg", "guests", "guest", "pci"}

LookAtConfig(item) ==
    CASE item[1] = "storage.cfg" -> Found(LocalStorages)
      [] item[1] = "guests" -> Found(DOMAIN host.guests)
      [] item[1] = "guest" -> FoundIf(item[2] \in DOMAIN host.guests,
                                      IF item[2] \in DOMAIN host.guests THEN host.guests[item[2]] ELSE {})
      [] item[1] \in {"local", "pci"} -> Found(Own)

ReadConfig(item, r) == (r = Failed /\ Reads(FALSE)) \/ (r = LookAtConfig(item) /\ Reads(TRUE))
ConfigReads(item) == {Failed, LookAtConfig(item)}

Problems(e, nodes) ==
    LET found == WithIssues(e, nodes, "proxmox")
    IN  IF nodes = {} THEN found ELSE [found EXCEPT !.covered = @ \ {"proxmox"}]

\* Without /etc/pve nothing is configured; without a local node nothing can be read.
BeginProxmox ==
    /\ At("proxmox")
    /\ LET covered == [evidence EXCEPT !.covered = @ \cup {"proxmox"}]
       IN  IF ~plan.pve.present
           THEN Reads(TRUE) /\ evidence' = covered /\ Done /\ UNCHANGED seen
           ELSE \E ok \in BOOLEAN :
                /\ Reads(ok)
                /\ evidence' = IF ok THEN covered ELSE Problems(covered, {NoOne})
                /\ seen' = IF ok THEN seen @@ (<<"local", Own>> :> Found(Own)) ELSE seen
                /\ Then(IF ok THEN <<Step("storage.cfg", Own), Step("guests", Own)>> ELSE <<>>)
    /\ UNCHANGED <<usageVars, rawVars, answered, located>>

\* A storage of a directory is looked up twice; the others are known by name.
ReadStorages ==
    /\ At("storage.cfg")
    /\ \E r \in ConfigReads(<<"storage.cfg", Own>>) :
        LET ids == SetToSeq(UNION r.value)
        IN  /\ ReadConfig(<<"storage.cfg", Own>>, r)
            /\ seen' = seen @@ (<<"storage.cfg", Own>> :> r)
            /\ evidence' = Problems(evidence, {n \in {NoOne} : r = Failed})
            /\ Then(FlattenSeq([i \in 1..Len(ids) |->
                        IF plan.pve.storages[ids[i]].type = "dir" THEN Twice("storage", ids[i])
                        ELSE <<Step("storage again", ids[i])>>]))
    /\ UNCHANGED <<usageVars, rawVars, answered, located>>

LocateStorage ==
    /\ At("storage")
    /\ \E ok \in BOOLEAN :
        Reads(ok) /\ located' = IF ok THEN Stat(plan.pve.storages[Subject].at) ELSE {}
    /\ Done
    /\ UNCHANGED <<seen, evidence, usageVars, rawVars, answered>>

\* An lvm storage is on its group, a zfspool on its pool; others are not understood.
StorageOwner(storage, second) ==
    CASE storage.type = "dir" -> pathOwner(located, second)
      [] storage.type = "lvm" -> {storage.at} \cap Groups
      [] storage.type = "zfspool" -> {storage.at} \cap Pools
      [] OTHER -> {}

AttributeStorage ==
    /\ At("storage again")
    /\ LET id == Subject
           storage == plan.pve.storages[id]
           dir == storage.type = "dir"
           e == WithNodes([evidence EXCEPT !.claims = @ \cup {Claim(id, "Configured", 0)}],
                          {id}, storage.valid)
           owners(ok) == StorageOwner(storage, IF ok /\ dir THEN Stat(storage.at) ELSE {})
           lost(ok) == {n \in {id} : owners(ok) = {} \/ ~storage.valid}
                            \cup {n \in {NoOne} : dir /\ owners(ok) = {}}
       IN  \E ok \in BOOLEAN :
            /\ Reads(ok)
            /\ dir \/ ok
            /\ evidence' = Problems([e EXCEPT !.edges = @ \cup {<<id, o>> : o \in owners(ok)}], lost(ok))
    /\ located' = {}
    /\ Done
    /\ UNCHANGED <<seen, usageVars, rawVars, answered>>

-----------------------------------------------------------------------------
(* The guests. *)

ReadGuests ==
    /\ At("guests")
    /\ \E r \in ConfigReads(<<"guests", Own>>) :
        /\ ReadConfig(<<"guests", Own>>, r)
        /\ seen' = seen @@ (<<"guests", Own>> :> r)
        /\ evidence' = Problems(evidence, {n \in {NoOne} : r = Failed})
        /\ Then(ForEach("guest", SetToSeq(UNION r.value)) \o <<Step("config again", Own)>>)
    /\ UNCHANGED <<usageVars, rawVars, answered, located>>

\* A guest that has storage claims it.  One without is no consumer.
ReadGuest ==
    /\ At("guest")
    /\ \E r \in ConfigReads(<<"guest", Subject>>) :
        LET g == Subject
            lines == SetToSeq(UNION r.value)
            e == WithNodes(evidence, {n \in {g} : r.value # {{}}}, r.value # {})
        IN  /\ ReadConfig(<<"guest", g>>, r)
            /\ seen' = seen @@ (<<"guest", g>> :> r)
            /\ evidence' = IF r.value = {} THEN Problems(e, {g})
                           ELSE [e EXCEPT !.claims = @ \cup {Claim(n, "Guest", 0) : n \in {m \in {g} : lines # <<>>}}]
            /\ Then(FlattenSeq([i \in 1..Len(lines) |->
                        IF lines[i].kind = "path" THEN Twice("assign", <<g, lines[i]>>)
                        ELSE <<Step("assign again", <<g, lines[i]>>)>>]))
    /\ UNCHANGED <<usageVars, rawVars, answered, located>>

LocateDisk ==
    /\ At("assign")
    /\ \E ok \in BOOLEAN : Reads(ok) /\ located' = IF ok THEN Stat(Subject[2].at) ELSE {}
    /\ Done
    /\ UNCHANGED <<seen, evidence, usageVars, rawVars, answered>>

\* The devices below a PCI function are those with their sysfs path there.
BehindPci(disk) ==
    {n \in BlockNames :
        /\ "sysfs_path" \in DOMAIN inventory.nodes[n].observation.known
        /\ n = disk \/ (n \in DOMAIN plan.parent /\ plan.parent[n] = disk)}

LineOwners(line, second) ==
    CASE line.kind = "path" -> pathOwner(located, second)
      [] line.kind = "volume" -> {line.at} \cap UNION seen[<<"storage.cfg", Own>>].value
      [] line.kind = "pci" -> IF second = {} THEN {} ELSE BehindPci(line.at)
      [] OTHER -> {}

AttributeDisk ==
    /\ At("assign again")
    /\ LET g == Subject[1]
           line == Subject[2]
           read == line.kind \in {"path", "pci"}
           owners(ok) == LineOwners(line, IF ok /\ read THEN Stat(line.at) ELSE {})
           lost(ok) == {n \in {g, NoOne} : owners(ok) = {} /\ (n = g \/ line.kind = "path")}
       IN  \E ok \in BOOLEAN :
            /\ Reads(ok)
            /\ read \/ ok
            /\ evidence' = Problems([evidence EXCEPT !.edges = @ \cup {<<g, o>> : o \in owners(ok)}], lost(ok))
            /\ seen' = IF line.kind = "pci"
                       THEN seen @@ (<<"pci", Own>> :> IF ok THEN Found(Own) ELSE Failed) ELSE seen
    /\ located' = {}
    /\ Done
    /\ UNCHANGED <<usageVars, rawVars, answered>>

\* Everything again.  A change puts all storages and guests in doubt.
BeginConfigAgain ==
    /\ At("config again")
    /\ Then([i \in 1..Cardinality({item \in DOMAIN seen : item[1] \in ConfigKinds}) |->
                Step("recheck config", SetToSeq({item \in DOMAIN seen : item[1] \in ConfigKinds})[i])])
    /\ UNCHANGED <<seen, evidence, faults, usageVars, rawVars, answered, located>>

RecheckConfig ==
    /\ At("recheck config")
    /\ \E r \in ConfigReads(Subject) :
        /\ ReadConfig(Subject, r)
        /\ evidence' =
            IF r = seen[Subject] THEN evidence
            ELSE Problems(evidence, {NoOne} \cup
                    {k \in DOMAIN evidence.nodes : k \in LocalStorages \/ <<"guest", k>> \in DOMAIN seen})
    /\ Done
    /\ UNCHANGED <<seen, usageVars, rawVars, answered, located>>

ProxmoxStep ==
    \/ BeginProxmox \/ ReadStorages \/ LocateStorage \/ AttributeStorage \/ ReadGuests
    \/ ReadGuest \/ LocateDisk \/ AttributeDisk \/ BeginConfigAgain \/ RecheckConfig
=============================================================================
