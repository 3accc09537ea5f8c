------------------------------ MODULE MCHostScan ------------------------------
(***************************************************************************)
(* Small hosts for HostScan: each has a few devices and a few things that  *)
(* may happen to it.                                                       *)
(***************************************************************************)
EXTENDS HostScan

Numbers ==
    [n \in {"sda", "sda1", "sdb", "dm-0", "md0", "zd0", "loop0",
            "rootfs", "tankfs", "pvefs"} |->
        CASE n = "sda" -> <<8, 0>> [] n = "sda1" -> <<8, 1>> [] n = "sdb" -> <<8, 16>>
          [] n = "dm-0" -> <<253, 0>> [] n = "md0" -> <<9, 0>> [] n = "zd0" -> <<230, 0>>
          [] n = "loop0" -> <<7, 0>> [] n = "rootfs" -> <<0, 30>>
          [] n = "tankfs" -> <<0, 40>> [] n = "pvefs" -> <<0, 50>>]

VirtualLayers ==
    ("dm-0" :> [kind |-> "lvm", group |-> "vg", volume |-> "lv", sound |-> TRUE])
        @@ ("md0" :> [kind |-> "md", group |-> Nothing, volume |-> Nothing, sound |-> TRUE])
        @@ ("zd0" :> [kind |-> "zvol", group |-> "tank", volume |-> Nothing, sound |-> TRUE])
        @@ ("loop0" :> [kind |-> "loop", group |-> Nothing, volume |-> Nothing, sound |-> TRUE])

Files ==
    ("swapfile" :> "sda1") @@ ("db" :> "sda1") @@ ("directory" :> "sdb") @@ ("config" :> "sdb")
        @@ ("image" :> "rootfs")

-----------------------------------------------------------------------------
(* What udev says of a device. *)

Texts(name, type, size) ==
    [current_path |-> {Plain(name)}, sysfs_path |-> {Plain(name)}, node_type |-> {Plain(type)},
     major_number |-> {Plain(Numbers[name][1])}, minor_number |-> {Plain(Numbers[name][2])},
     capacity_sectors_512 |-> {Plain(size)}, read_only |-> {Plain(FALSE)}]

Wwn(hex) == [prefix |-> "", digits |-> 16, hex |-> hex]

Drives == {"a", "b", "x", "mapped", "loop"}

Entry(name, virtual, says, facts) ==
    [name |-> name, virtual |-> virtual, says |-> says,
     of |-> [d \in Drives |-> IF "wwn" \in DOMAIN says THEN [wwn |-> {Plain(Wwn(d))}] ELSE <<>>],
     failed |-> {}, facts |-> facts, encodes |-> {}]

Disk(name) ==
    Entry(name, FALSE,
          Texts(name, "disk", 64) @@ [wwn |-> {Garbage}, transport |-> {Plain("ata")}],
          {[source |-> "udev:ID_TYPE", value |-> "disk"]})

Part(name, parent) ==
    Entry(name, FALSE,
          Texts(name, "partition", 32)
              @@ [parent_kernel_name |-> {Plain(parent)}, partition_number |-> {Plain(Numbers[name][2])}],
          {})

Virtual(name, size) == Entry(name, TRUE, Texts(name, "disk", size), {})

-----------------------------------------------------------------------------
(* Hosts. *)

Task(fd, map) == [space |-> Own, fd |-> fd, map |-> map, cwd |-> "rootfs", kernel |-> FALSE]
Idle == Task(NoHandle, Nothing)
KernelThread == [Idle EXCEPT !.cwd = Nothing, !.kernel = TRUE]

Row(id, at, fs) ==
    [id |-> id, space |-> Own, at |-> at, fs |-> fs,
     source |-> IF fs = "ext4" THEN at ELSE IF fs = "zfs" THEN "tank" ELSE Nothing,
     garbled |-> FALSE, subtree |-> FALSE]
RootRow == Row(1, "rootfs", "tmpfs")
Mounted(n) == Row(2, n, "ext4")

Swap(path, type) == [path |-> path, type |-> type]

\* The names, the drives at them, and the signatures; nothing is used.
HostOf(drive, signature) ==
    [drive |-> drive,
     signature |-> signature @@ [n \in DOMAIN drive |-> "None"],
     cached |-> signature @@ [n \in DOMAIN drive |-> "None"],
     table |-> [n \in {"sda", "sdb"} \cap DOMAIN drive |->
                   IF n = "sda" /\ "sda1" \in DOMAIN drive THEN {"sda1"} ELSE {}],
     over |-> {}, mounts |-> {RootRow}, swaps |-> {},
     tasks |-> (1 :> Idle), pools |-> <<>>, guests |-> <<>>]

EntryOf(n) ==
    CASE n \in {"sda", "sdb"} -> Disk(n)
      [] n = "sda1" -> Part(n, "sda")
      [] n = "loop0" -> [Virtual(n, 64) EXCEPT
                            !.of = [d \in Drives |-> IF d = "loop" THEN [capacity_sectors_512 |-> {Plain(0)}]
                                                     ELSE <<>>]]
      [] OTHER -> Virtual(n, 64)

NoPve == [present |-> FALSE, storages |-> <<>>, database |-> "db"]

Within(f, names) == Restrict(f, DOMAIN f \cap names)

\* A plan for a host, with its names in order; two things may happen.
PlanOf(host0, order, may) ==
    [host |-> host0, parent |-> Within("sda1" :> "sda", DOMAIN host0.drive),
     layer |-> Within(VirtualLayers, DOMAIN host0.drive), number |-> Numbers, on |-> Files,
     may |-> may, maxChanges |-> 2, maxFaults |-> 0,
     entries |-> [i \in DOMAIN order |-> EntryOf(order[i])], order |-> order, failing |-> {},
     zfs |-> FALSE, decoders |-> TRUE, pve |-> NoPve, restricted |-> FALSE, quiet |-> TRUE]

Plugs(drives) == [kind |-> "plug", drives |-> drives]
Mounts(row) == [kind |-> "mount", row |-> row]
Unmounts(row) == [kind |-> "unmount", row |-> row]
Writes(at, signature) == [kind |-> "write", at |-> at, signature |-> signature]
Opens(task, handle) == [kind |-> "open", task |-> task, handle |-> handle]

-----------------------------------------------------------------------------
(* The plans. *)

\* A disk with a partition and a disk without; nothing is used at first.
TwoDisks ==
    [HostOf("sda" :> "a" @@ "sda1" :> "a" @@ "sdb" :> "b", "sda1" :> "ext4")
        EXCEPT !.tasks = (1 :> Idle) @@ (2 :> KernelThread)]
Unused ==
    PlanOf(TwoDisks, <<"sda", "sda1", "sdb">>,
           {Plugs("sdb" :> "x"), Plugs("sdb" :> Gone), Plugs("sda" :> Gone @@ "sda1" :> Gone),
            Mounts(Mounted("sda1")), [kind |-> "swapon", swap |-> Swap("sdb", "partition")],
            Writes("sdb", "LVM2_member"),
            [kind |-> "partition", at |-> "sdb", table |-> {"sdb1"}],
            Opens(1, Handle("block", "sdb"))})


\* Used in every way that a namespace and the tasks show: a mount here and another in a
\* namespace of a task, a swap, a kernel thread.
Other(row) == [row EXCEPT !.space = "other"]
BusyDisks ==
    [HostOf("sda" :> "a" @@ "sda1" :> "a" @@ "sdb" :> "b", "sda1" :> "ext4" @@ "sdb" :> "swap")
        EXCEPT !.mounts = {RootRow, Mounted("sda1"), Other(RootRow), Other(Mounted("sda1"))},
               !.swaps = {Swap("sdb", "partition")},
               !.tasks = (1 :> Task(Handle("block", "sdb"), "sda1"))
                            @@ (2 :> [Task(Handle("pipe", Nothing), Nothing) EXCEPT !.space = "other"])
                            @@ (3 :> KernelThread)]
Busy ==
    PlanOf(BusyDisks, <<"sda", "sda1", "sdb">>,
           {Unmounts(Mounted("sda1")), [kind |-> "swapoff", swap |-> Swap("sdb", "partition")],
            [kind |-> "exit", task |-> 2], [kind |-> "unshare", task |-> 2, space |-> "new"],
            Opens(1, Handle("mnt", "other"))})

\* A descriptor goes from task to task while the tasks are read in their order: once, or
\* in both collections; and a collection begins again because a task is gone.
Passes(from, to) == [kind |-> "pass", task |-> from, to |-> to]
Sends(from, to) == [kind |-> "send", task |-> from, to |-> to]
Forks(task, new) == [kind |-> "fork", task |-> task, new |-> new]
Exits(task) == [kind |-> "exit", task |-> task]
Opener == Task(Handle("block", "sdb"), Nothing)
Relay ==
    PlanOf([HostOf("sdb" :> "b", "sdb" :> "None") EXCEPT !.tasks = (1 :> Idle) @@ (2 :> Opener)],
           <<"sdb">>, {Passes(2, 1), Sends(2, 1), Forks(2, 3)})
Relays ==
    PlanOf([HostOf("sdb" :> "b", "sdb" :> "None")
                EXCEPT !.tasks = (1 :> Idle) @@ (2 :> Idle) @@ (3 :> Opener)],
           <<"sdb">>, {Passes(3, 2), Passes(2, 1), Exits(1), Forks(1, 4)})

\* Tasks come and go that use nothing, beside one that has a disk open.
Churning ==
    PlanOf([HostOf("sda" :> "a" @@ "sdb" :> "b", "sdb" :> "None")
                EXCEPT !.tasks = (1 :> Idle) @@ (2 :> Idle) @@ (3 :> Opener)],
           <<"sda", "sdb">>, {Forks(1, 4), Exits(2)})

\* A label that is moved on a disk, of which udev has noted nothing.
Relabelled ==
    [PlanOf([HostOf("sdb" :> "b", "sdb" :> "LVM2_member") EXCEPT !.cached["sdb"] = "None"], <<"sdb">>,
            {Writes("sdb", "linux_raid_member"), Writes("sdb", "LVM2_member")})
        EXCEPT !.quiet = FALSE]

\* udev still notes that a disk, which is blank now, is part of a pool.
Wiped ==
    [PlanOf([HostOf("sda" :> "a" @@ "sdb" :> "b", "sdb" :> "None") EXCEPT !.cached["sdb"] = "zfs_member"],
            <<"sda", "sdb">>, {[kind |-> "import", pools |-> "tank" :> {"sda"}]})
        EXCEPT !.zfs = TRUE, !.quiet = FALSE]

\* A volume over a partition, used or not.
Volume ==
    [HostOf("sda" :> "a" @@ "sda1" :> "a" @@ "dm-0" :> "mapped", "sda1" :> "LVM2_member")
        EXCEPT !.over = {<<"dm-0", "sda1">>}]
Stacked ==
    PlanOf([Volume EXCEPT !.mounts = @ \cup {Mounted("dm-0")}], <<"sda", "sda1", "dm-0">>,
           {[kind |-> "unstack", upper |-> "dm-0"], Unmounts(Mounted("dm-0"))})
\* That a group is not active leaves its member undecided.
Unstacked ==
    [PlanOf([Volume EXCEPT !.over = {}, !.drive["dm-0"] = Gone], <<"sda", "sda1", "dm-0">>,
            {[kind |-> "stack", upper |-> "dm-0", lower |-> "sda1"], Mounts(Mounted("sda1"))})
        EXCEPT !.quiet = FALSE]

\* A mapped device over a disk that grows over another.
Growing ==
    [PlanOf([HostOf("sda" :> "a" @@ "sdb" :> "b" @@ "dm-0" :> "mapped", "sdb" :> "None")
                EXCEPT !.over = {<<"dm-0", "sda">>}],
            <<"sda", "sdb", "dm-0">>, {[kind |-> "stack", upper |-> "dm-0", lower |-> "sdb"]})
        EXCEPT !.layer["dm-0"].kind = "dm", !.maxChanges = 1]

\* An array over two disks.
Array ==
    PlanOf([HostOf("sda" :> "a" @@ "sdb" :> "b" @@ "md0" :> "mapped",
                   "sda" :> "linux_raid_member" @@ "sdb" :> "linux_raid_member")
                EXCEPT !.over = {<<"md0", "sda">>, <<"md0", "sdb">>}],
           <<"sda", "sdb", "md0">>,
           {Mounts(Mounted("md0")), Opens(1, Handle("block", "md0"))})

\* A pool with a volume, storages and guests.
Line(kind, at) == [kind |-> kind, at |-> at]
Storage(type, at) == [type |-> type, at |-> at, local |-> TRUE, valid |-> TRUE]
Pooled ==
    [HostOf("sda" :> "a" @@ "sdb" :> "b" @@ "zd0" :> "mapped", "sda" :> "zfs_member" @@ "sdb" :> "ext4")
        EXCEPT !.mounts = {RootRow, Row(2, "tankfs", "zfs"), Row(3, "sdb", "ext4")},
               !.pools = "tank" :> {"sda"},
               !.tasks = 1 :> Task(Handle("zfs", Nothing), "tankfs"),
               !.guests = "100" :> {Line("path", "zd0"), Line("volume", "images")}]
Virtualized ==
    [PlanOf(Pooled, <<"sda", "sdb", "zd0">>,
            {[kind |-> "import", pools |-> <<>>], [kind |-> "import", pools |-> "tank" :> {"sda", "sdb"}],
             [kind |-> "assign", guests |-> <<>>], [kind |-> "assign", guests |-> "100" :> {}]})
        EXCEPT !.zfs = TRUE,
               !.pve = [present |-> TRUE, database |-> "config",
                        storages |-> ("images" :> Storage("dir", "directory"))
                            @@ ("disks" :> Storage("zfspool", "tank"))]]

\* A guest that is given a whole disk, and others that cannot be told apart.
Assigned ==
    [PlanOf([HostOf("sda" :> "a" @@ "sdb" :> "b", "sdb" :> "None")
                EXCEPT !.guests = "100" :> {Line("pci", "sda")},
                       !.mounts = {RootRow, Row(4, "pvefs", "pmxcfs"), Row(2, "sdb", "ext4")}],
            <<"sda", "sdb">>,
            {[kind |-> "assign", guests |-> ("100" :> {Line("pci", "sda")}) @@ ("101" :> {Line("custom", "sdb")})],
             [kind |-> "assign", guests |-> "100" :> {Line("path", "sdb")}]})
        EXCEPT !.pve = [present |-> TRUE, database |-> "config",
                        storages |-> "group" :> [Storage("lvm", "vg") EXCEPT !.local = FALSE]]]

\* A detached loop device, a swap file, and tasks that cannot be seen.
Restricted ==
    [PlanOf([HostOf("sda" :> "a" @@ "sda1" :> "a" @@ "loop0" :> "loop", "sda1" :> "ext4")
                EXCEPT !.mounts = {RootRow, [Mounted("sda1") EXCEPT !.subtree = TRUE]},
                       !.swaps = {Swap("swapfile", "file")}],
            <<"sda", "sda1", "loop0">>,
            {[kind |-> "stack", upper |-> "loop0", lower |-> "sda1"],
             Mounts([Row(3, "rootfs", "tmpfs") EXCEPT !.garbled = TRUE])})
        EXCEPT !.restricted = TRUE, !.quiet = FALSE]

\* Devices that two sources, two entries or two names disagree about.  Whether the
\* second disk has its identifiers from the first is up to the entry.
OddEntries ==
    LET says(name, texts) == [Disk(name) EXCEPT !.says = texts @@ @, !.of = [d \in Drives |-> <<>>]]
        nguid == [Wwn("x") EXCEPT !.digits = 32]
        nvme == [transport |-> {Plain("nvme")}, nvme_nguid |-> {Plain(nguid)},
                 nvme_eui |-> {Plain(Wwn("y"))}, wwn |-> {Plain([Wwn("y") EXCEPT !.prefix = "eui."])}]
        serial == [serial |-> {Plain("s")}, model |-> {Plain("m")}]
        bare(texts) == LET e == says("sda", texts) IN [e EXCEPT !.says = Restrict(@, DOMAIN @ \ {"wwn"})]
    IN  {<<Disk("sda"), says("sda", [wwn |-> {Plain(Wwn("z"))}]), Disk("sdb")>>,
         <<Disk("sda"), bare(<<>>), Disk("sdb")>>,
         <<says("sda", [wwn |-> {Plain(Wwn("a"))}]), says("sdb", [wwn |-> {Plain(Wwn("a"))}])>>,
         <<says("sda", nvme),
           [says("sdb", [transport |-> {Plain("nvme")}, nvme_eui |-> {Plain(Wwn("y"))}])
                EXCEPT !.says = Restrict(@, DOMAIN @ \ {"wwn"})]>>,
         <<bare(serial), [bare(serial) EXCEPT !.name = "sdb", !.says = Texts("sdb", "disk", 64) @@ @]>>,
         <<bare([serial |-> {Plain("s")}, model |-> {Plain("m"), Plain("M")}]), Disk("sdb")>>,
         <<[bare(serial) EXCEPT !.says = [model |-> {Plain("m"), Plain("m_")}] @@ @,
                                !.encodes = {Plain("m"), Plain("m_")}], Disk("sdb")>>,
         <<says("sda", [current_path |-> {Plain("sdb")}]), Disk("sdb")>>,
         <<says("sda", [wwn |-> {Garbage}]), says("sdb", [capacity_sectors_512 |-> {Excess}])>>,
         <<[Disk("sda") EXCEPT !.facts = @ \cup {[source |-> "udev:ID_CDROM", value |-> "1"]}],
           [Disk("sdb") EXCEPT !.says = Restrict(@, DOMAIN @ \ {"node_type", "major_number"})]>>,
         <<[Disk("sda") EXCEPT !.facts = {[source |-> "sysfs:scsi/type", value |-> "x"]},
                               !.failed = {"serial"}],
           [Part("sdb", "sda") EXCEPT !.says.partition_number = {Plain(0)}]>>}
Odd ==
    {[PlanOf(HostOf("sda" :> "a" @@ "sdb" :> "b", "sdb" :> "None"), <<"sda", "sdb">>, {})
        EXCEPT !.entries = entries, !.quiet = FALSE, !.maxChanges = 0] : entries \in OddEntries}

\* Hosts of which a read fails, which may be that of a field: some change once besides,
\* others do not.
Failing ==
    {[p EXCEPT !.maxChanges = 1, !.maxFaults = 1, !.failing = {"wwn", "read_only"}] :
        p \in {Relay, Stacked, Assigned}}
    \cup {[p EXCEPT !.maxChanges = 0, !.maxFaults = 1, !.failing = {"wwn", "read_only"}] :
        p \in {Unused, Busy, Virtualized}}

\* A host whose library does not know all labels decides nothing.
Undecoded == [Unused EXCEPT !.maxChanges = 0, !.decoders = FALSE, !.quiet = FALSE]

MCPlans ==
    {Unused, Busy, Relay, Relays, Churning, Relabelled, Stacked, Unstacked, Growing, Array,
     Virtualized, Assigned, Restricted, Wiped, Undecoded}
        \cup Failing \cup Odd

\* Nothing happens to a disk with a partition.
PartitionedPlans == {[Unused EXCEPT !.maxChanges = 0]}
=============================================================================
