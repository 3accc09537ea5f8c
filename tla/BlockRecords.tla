----------------------------- MODULE BlockRecords -----------------------------
(***************************************************************************)
(* The raw block inventory (platform/linux/linux_inventory_provider.cpp):  *)
(* what udev and sysfs say of every block node is parsed, merged by kernel *)
(* name, and related to the nodes it belongs to.                           *)
(*                                                                         *)
(* A source record is [name, text, issues, facts, virtual]: the text of    *)
(* the fields that were reported (a function on some of TextFields), the   *)
(* issues [code, field] of reading it, the facts [source, value] about its *)
(* kind, and whether it is "virtual" or of an "unknown" kind.              *)
(* A text is well formed (Plain), a number or an identifier of its field   *)
(* that is out of range (Excess), or not what the field holds (Garbage).   *)
(*                                                                         *)
(* An observation is [name, known, issues, facts, kind, virtual, children] *)
(* where known is a function on the fields whose value is established.     *)
(***************************************************************************)
EXTENDS FiniteSets, Functions, Naturals

Plain(value) == [form |-> "plain", value |-> value]
Garbage == [form |-> "garbage"]
Excess == [form |-> "excess"]

TextFields ==
    {"current_path", "sysfs_path", "node_type", "major_number", "minor_number",
     "capacity_sectors_512", "vendor", "model", "serial", "wwn", "nvme_eui", "nvme_nguid",
     "rotational", "removable", "read_only", "transport", "parent_kernel_name",
     "partition_number"}

Fields ==
    (TextFields \ {"major_number", "minor_number", "capacity_sectors_512"})
        \cup {"device_number", "capacity_bytes"}

Issue(code, field) == [code |-> code, field |-> field]

\* What was read with an error, or does not agree, is not used.
unreliable(issues, field) ==
    \E issue \in issues :
        /\ issue.field = field
        /\ issue.code \in {"SourceReadFailure", "DeviceDisappeared", "ConflictingAttribute",
                           "MalformedAttribute", "CapacityOverflow"}

-----------------------------------------------------------------------------
(* One record. *)

\* The fields of a record that are parsed: reported, and read without an error.
Usable(record) == {f \in DOMAIN record.text : ~unreliable(record.issues, f)}

\* A capacity out of range is told from one that is not a number.  Every other field
\* that is not what it should be is malformed: a text that is empty or has control
\* characters, a number that is none or too large, a boolean other than 0 and 1, a
\* path outside its directory, an identifier of another length or of zeros.
Unparsed(record) ==
    {Issue(IF f = "capacity_sectors_512" /\ record.text[f] = Excess THEN "CapacityOverflow"
           ELSE "MalformedAttribute", f) :
        f \in {g \in Usable(record) : record.text[g].form # "plain"}}

parseText(record) ==
    [f \in {g \in Usable(record) : record.text[g].form = "plain"} |-> record.text[f].value]

parseNodeType(record) ==
    IF unreliable(record.issues, "node_type") \/ "node_type" \in DOMAIN record.text THEN {}
    ELSE {Issue("MissingRequiredField", "node_type")}

\* Both halves of the device number must have been reported.
NumberIsReported(record) ==
    /\ ~unreliable(record.issues, "device_number")
    /\ {"major_number", "minor_number"} \subseteq DOMAIN record.text

parseDeviceNumber(record) ==
    IF NumberIsReported(record) \/ unreliable(record.issues, "device_number") THEN {}
    ELSE {Issue("MissingRequiredField", "device_number")}

\* What a fact says the device is.  Numbers and flags are not parsed when the facts were
\* read with an error; the conflict that would be noted besides is left out.
Says(fact) ==
    CASE fact.source = "sysfs:scsi/type" ->
            IF fact.value \in {"0", "14", "20"} THEN {"disk"}
            ELSE IF fact.value \in {"4", "5", "7", "15"} THEN {"optical"} ELSE {"unknown"}
      [] fact.source \in {"udev:ID_TYPE", "udev:ID_USB_TYPE"} ->
            IF fact.value = "disk" THEN {"disk"}
            ELSE IF fact.value \in {"cd", "optical"} THEN {"optical"}
            ELSE IF fact.value = "floppy" THEN {"floppy"} ELSE {"unknown"}
      [] fact.source \in {"udev:ID_CDROM", "udev:ID_DRIVE_FLOPPY"} ->
            IF fact.value = "0" THEN {}
            ELSE IF fact.value # "1" THEN {"unknown"}
            ELSE {IF fact.source = "udev:ID_CDROM" THEN "optical" ELSE "floppy"}
      [] fact.source = "sysfs:parent/subsystem" /\ fact.value = "nvme" -> {"nvme", "disk"}
      [] OTHER -> {"unknown"}

\* A value that is no number or flag is an issue besides.
IllFormed(fact) ==
    \/ fact.source = "sysfs:scsi/type" /\ fact.value = "x"
    \/ fact.source \in {"udev:ID_CDROM", "udev:ID_DRIVE_FLOPPY"} /\ fact.value \notin {"0", "1"}

KindsDisagree(said) ==
    \/ "optical" \in said /\ said \cap {"disk", "floppy"} # {}
    \/ {"nvme", "floppy"} \subseteq said

KindIssues(record) ==
    LET said == UNION {Says(fact) : fact \in record.facts}
    IN  {Issue("MalformedAttribute", "physical_kind") : fact \in {f \in record.facts : IllFormed(f)}}
            \cup IF KindsDisagree(said)
                 THEN {Issue("ConflictingAttribute", "physical_kind")} ELSE {}

\* More specific evidence narrows a disk to a floppy.
physicalKind(record) ==
    LET said == UNION {Says(fact) : fact \in record.facts}
    IN  IF \/ KindsDisagree(said) \/ "unknown" \in said
           \/ unreliable(record.issues \cup KindIssues(record), "physical_kind")
        THEN "UnknownPhysical"
        ELSE IF "floppy" \in said THEN "Floppy"
        ELSE IF "optical" \in said THEN "Optical"
        ELSE IF "disk" \in said THEN "Disk" ELSE "UnknownPhysical"

\* A partition number is positive and belongs to a partition.
Numbered(known) ==
    "partition_number" \in DOMAIN known =>
        known.partition_number > 0 /\ "node_type" \in DOMAIN known /\ known.node_type = "partition"

mapRecord(record) ==
    LET parsed == parseText(record)
        number == IF NumberIsReported(record) /\ {"major_number", "minor_number"} \subseteq DOMAIN parsed
                  THEN [f \in {"device_number"} |-> <<parsed.major_number, parsed.minor_number>>]
                  ELSE <<>>
        size == [f \in {"capacity_bytes" : g \in {"capacity_sectors_512"} \cap DOMAIN parsed} |->
                    parsed.capacity_sectors_512]
        known == [f \in (DOMAIN parsed \cap Fields) \cup DOMAIN number \cup DOMAIN size |->
                    CASE f = "device_number" -> number[f]
                      [] f = "capacity_bytes" -> size[f]
                      [] OTHER -> parsed[f]]
        halves == IF NumberIsReported(record) THEN {} ELSE {"major_number", "minor_number"}
    IN  [name |-> record.name,
         known |-> Restrict(known, DOMAIN known \ (IF Numbered(known) THEN {} ELSE {"partition_number"})),
         issues |-> record.issues \cup KindIssues(record) \cup parseNodeType(record)
                        \cup parseDeviceNumber(record)
                        \cup {issue \in Unparsed(record) : issue.field \notin halves}
                        \cup IF Numbered(known) THEN {}
                             ELSE {Issue("InvalidRelationship", "partition_number")},
         facts |-> record.facts,
         kind |-> physicalKind(record),
         virtual |-> record.virtual,
         children |-> {}]

-----------------------------------------------------------------------------
(* The records of one name. *)

\* Mutant: what one of the records knows is taken for what all do.
KnownToOne(observations, f) == \E o \in observations : f \in DOMAIN o.known

\* A field is established when all records know it, and know the same.
mergeOptional(observations, f) ==
    /\ \A o \in observations : f \in DOMAIN o.known
    /\ \A o, p \in observations : o.known[f] = p.known[f]

Mentioned(observations) == UNION {DOMAIN o.known : o \in observations}

mergeEnum(values, unknown) ==
    IF Cardinality(values) = 1 THEN CHOOSE v \in values : TRUE ELSE unknown

\* Records are kept in a bag: how many there are of the name matters.
mergeRecords(name, observations, count) ==
    LET fields == Mentioned(observations)
        agreed == {f \in fields : mergeOptional(observations, f)}
        kinds == {o.kind : o \in observations}
        virtuals == {o.virtual : o \in observations}
    IN  [name |-> name,
         known |-> [f \in agreed |-> (CHOOSE o \in observations : f \in DOMAIN o.known).known[f]],
         issues |-> UNION {o.issues : o \in observations}
            \cup {Issue("DuplicateRecord", f) :
                    f \in (fields \ agreed)
                          \cup {g \in {"kernel_name"} : count > 1}
                          \cup {g \in {"physical_kind"} : Cardinality(kinds) > 1}
                          \cup {g \in {"observation_kind"} : Cardinality(virtuals) > 1}},
         facts |-> UNION {o.facts : o \in observations},
         kind |-> mergeEnum(kinds, "UnknownPhysical"),
         virtual |-> mergeEnum(virtuals, "unknown"),
         children |-> {}]

-----------------------------------------------------------------------------
(* All names. *)

\* A locator that nodes of different names report belongs to none of them.
Colliding(devices, f) ==
    {n \in DOMAIN devices :
        /\ f \in DOMAIN devices[n].known
        /\ \E m \in DOMAIN devices \ {n} :
            f \in DOMAIN devices[m].known /\ devices[m].known[f] = devices[n].known[f]}

rejectLocatorCollisions(devices) ==
    [n \in DOMAIN devices |->
        LET lost == {f \in {"current_path", "sysfs_path", "device_number"} : n \in Colliding(devices, f)}
        IN  [devices[n] EXCEPT
                !.known = Restrict(@, DOMAIN @ \ lost),
                !.issues = @ \cup {Issue("DuplicateRecord", f) : f \in lost}]]

Is(observation, type) ==
    "node_type" \in DOMAIN observation.known /\ observation.known.node_type = type

\* Only a partition has a parent, which is a disk of this inventory.
constructRelationships(devices) ==
    LET claimed == {n \in DOMAIN devices : "parent_kernel_name" \in DOMAIN devices[n].known}
        parent(n) == devices[n].known.parent_kernel_name
        present == {n \in claimed : Is(devices[n], "partition") /\ parent(n) \in DOMAIN devices}
        accepted == {n \in present : Is(devices[parent(n)], "disk")}
        rejected == {n \in claimed : ~Is(devices[n], "partition")} \cup (present \ accepted)
    IN  [n \in DOMAIN devices |->
            [devices[n] EXCEPT
                !.known = Restrict(@, DOMAIN @ \ {f \in {"parent_kernel_name"} : n \in rejected}),
                !.issues = @ \cup {i \in {Issue("InvalidRelationship", "parent_kernel_name")} :
                                     n \in claimed \ accepted},
                !.children = {c \in accepted : parent(c) = n}]]

BadNames == {"", "."}

\* The inventory of a bag of source records (a function to how often each was read).
\* A record without a usable name is dropped with an issue about the inventory.
scan(records, issues) ==
    LET named == {r \in DOMAIN records : r.name \notin BadNames}
        times(n) == LET of == {r \in named : r.name = n}
                    IN  IF Cardinality(of) = 1 THEN records[CHOOSE r \in of : TRUE] ELSE 2
        merged == [n \in {r.name : r \in named} |->
                     mergeRecords(n, {mapRecord(r) : r \in {q \in named : q.name = n}}, times(n))]
        about(r) == IF r.name = "" THEN "nothing" ELSE r.name
    IN  [devices |-> constructRelationships(rejectLocatorCollisions(merged)),
         issues |-> issues \cup {about(r) : r \in DOMAIN records \ named}]
=============================================================================
