---------------------------- MODULE InventoryScan ----------------------------
(***************************************************************************)
(* The scan of the block devices through udev and sysfs                    *)
(* (platform/linux/udev_sysfs_inventory_source.cpp).  The nodes are listed *)
(* once and read one after the other, and each is looked up again after it *)
(* was read.  The scan is not atomic: devices come and go meanwhile.       *)
(*                                                                         *)
(* What a scan still has to do is a sequence of steps; each step is an     *)
(* action that reads the host as it is then.  Any read may fail.           *)
(*                                                                         *)
(* For every name the plan has the entries that udev lists for it, each    *)
(* [name, virtual, says, of, failed, facts, encodes]: says has the one or   *)
(* two texts that sysfs and udev have for a field, of what is said of a    *)
(* drive instead, failed the fields that cannot be read, and encodes the   *)
(* spellings that the encoded bytes of the model give.                     *)
(***************************************************************************)
EXTENDS Host, BlockIdentity

VARIABLES
    todo,       \* the steps of the scan that are left
    faults,     \* counter of the reads that failed
    listed,     \* whether the nodes could be listed
    records,    \* the records of the raw scan that is running, with how many there are
    issues,     \* the names of the nodes that were lost
    open,       \* the record that has been read and not been confirmed
    answered    \* per name the drives that have answered, from the first read on

rawVars == <<listed, records, issues, open>>

Step(act, at) == [act |-> act, at |-> at]

At(act) == todo # <<>> /\ Head(todo).act = act
Subject == Head(todo).at

\* The step is done, and others come first.
Done == todo' = Tail(todo)
Then(steps) == todo' = steps \o Tail(todo)

\* A read succeeds or fails.
Reads(ok) ==
    IF ok THEN UNCHANGED faults
    ELSE faults < plan.maxFaults /\ faults' = faults + 1

\* One step for each name, in their order.
ForEach(act, names) == [i \in 1..Len(names) |-> Step(act, names[i])]

InOrder(names) == SelectSeq(plan.order, LAMBDA n : n \in names)

-----------------------------------------------------------------------------
(* One record. *)

\* Sources that both report a field must agree.  Only of an ATA model it is known how
\* the two spellings relate: the encoded bytes must give both.
Disagreeing(entry, says) ==
    {f \in {"vendor", "model", "serial"} \cap DOMAIN says :
        /\ Cardinality(says[f]) > 1
        /\ ~(f = "model" /\ entry.encodes = says[f] /\ f \notin entry.failed
             /\ "transport" \in DOMAIN says /\ says["transport"] = {Plain("ata")})}

\* A partition has a parent that is a disk.
Orphan(says) ==
    "node_type" \in DOMAIN says /\ says["node_type"] = {Plain("partition")}
        /\ "parent_kernel_name" \notin DOMAIN says

HasKind(entry, says) ==
    /\ "node_type" \in DOMAIN says /\ says["node_type"] = {Plain("disk")}
    /\ "sysfs_path" \in DOMAIN says /\ ~entry.virtual

\* A field that is read with an error has no text, whatever the other source says.
readRecord(entry, says, failed) ==
    LET conflicts == Disagreeing(entry, says)
    IN  [name |-> entry.name,
         text |-> [f \in DOMAIN says \ (conflicts \cup failed) |-> CHOOSE t \in says[f] : TRUE],
         issues |-> {Issue("SourceReadFailure", f) : f \in failed}
            \cup {Issue("ConflictingAttribute", f) : f \in conflicts \ failed}
            \cup {i \in {Issue("SourceReadFailure", "parent_kernel_name")} : Orphan(says)},
         facts |-> IF HasKind(entry, says) THEN entry.facts ELSE {},
         virtual |-> IF entry.virtual /\ "sysfs_path" \in DOMAIN says THEN "virtual" ELSE "unknown"]

\* What udev says of an entry while a drive is at its name.
SaysOf(entry, drive) ==
    [f \in DOMAIN entry.says |->
        IF f \in DOMAIN entry.of[drive] THEN entry.of[drive][f] ELSE entry.says[f]]

-----------------------------------------------------------------------------
(* A raw scan. *)

\* The nodes of the block subsystem are listed.  Without a list there is no inventory.
Enumerate ==
    /\ At("enumerate")
    /\ records' = <<>> /\ issues' = {} /\ open' = <<>>
    /\ listed' \in BOOLEAN
    /\ Reads(listed')
    /\ LET entries == SelectSeq(plan.entries, LAMBDA e : host.drive[e.name] # Gone)
       IN  Then([i \in 1..(IF listed' THEN 2 * Len(entries) ELSE 0) |->
                    Step(IF i % 2 = 1 THEN "read" ELSE "confirm", entries[(i + 1) \div 2])])
    /\ UNCHANGED answered

\* A node that is gone when it is opened is an issue of the inventory.  A field that
\* cannot be read is an issue of the record; if the error says that the device is
\* gone, the record is dropped with it.
ReadNode ==
    /\ At("read")
    /\ LET e == Subject
           drive == host.drive[e.name]
           says == SaysOf(e, drive)
       IN  IF drive = Gone
           THEN /\ issues' = issues \cup {e.name}
                /\ todo' = Tail(Tail(todo))
                /\ UNCHANGED <<open, faults, answered>>
           ELSE \E failing \in SUBSET (plan.failing \cap DOMAIN says), lost \in BOOLEAN :
                /\ Cardinality(failing) <= 1 /\ (lost => failing # {})
                /\ Reads(failing = {})
                /\ open' = IF lost THEN <<>> ELSE <<readRecord(e, says, e.failed \cup failing)>>
                /\ issues' = issues \cup {n \in {e.name} : lost}
                /\ answered' = [answered EXCEPT ![e.name] = @ \cup {drive}]
                /\ Done
    /\ UNCHANGED <<listed, records>>

WithRecord(bag, record) ==
    [r \in DOMAIN bag \cup {record} |->
        (IF r \in DOMAIN bag THEN bag[r] ELSE 0) + (IF r = record THEN 1 ELSE 0)]

\* A node is kept if it is still there.
ConfirmNode ==
    /\ At("confirm")
    /\ IF host.drive[Subject.name] = Gone \/ open = <<>>
       THEN /\ issues' = issues \cup {Subject.name}
            /\ UNCHANGED records
       ELSE /\ records' = WithRecord(records, Head(open))
            /\ UNCHANGED issues
    /\ open' = <<>>
    /\ Done
    /\ UNCHANGED <<listed, faults, answered>>

RawScanStep == Enumerate \/ ReadNode \/ ConfirmNode
=============================================================================
