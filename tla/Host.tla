-------------------------------- MODULE Host --------------------------------
(***************************************************************************)
(* The host that a production scan reads, external to the program: which   *)
(* drive answers at each name, and what uses the names.  The device number *)
(* and the path of a name stay with the name when another drive takes it.  *)
(*                                                                         *)
(* A plan is a host and what may happen to it while it is scanned:         *)
(*   host       the host at first, see below                               *)
(*   parent     the disk of every partition                                *)
(*   layer      the virtual devices: [kind, group, volume, sound]          *)
(*   number     the device number of every block device and filesystem     *)
(*   on         the filesystem that a file is on                           *)
(*   may        the changes, records with the kind of the change           *)
(*   maxChanges, maxFaults   bounds on changes and on reads that fail      *)
(*   entries, order, failing what udev lists, see InventoryScan            *)
(*   zfs        whether the ZFS module is there                            *)
(*   decoders   whether libblkid knows the labels of all members           *)
(*   pve        [present, storages, database]: the Proxmox configuration,  *)
(*              a storage being [type, at, local, valid]                   *)
(*   restricted whether /proc hides the tasks of others                    *)
(*   quiet      whether nothing about the host is odd                      *)
(***************************************************************************)
EXTENDS OwnershipTrace, Naturals, Sequences, Functions

CONSTANTS
    Plans       \* the hosts and their changes

VARIABLES
    plan,       \* the plan of this behaviour
    host,       \* the host as it is
    changes,    \* counter of what happened to it
    lasting,    \* the uses of drives that there have been since the scan began, see Lasting
    ever        \* the uses of drives that there were at any time since

hostVars == <<plan, host, changes, lasting, ever>>

Gone == "gone"
Nothing == "nothing"
\* The signatures of devices that are part of something.
Memberships == {"LVM2_member", "linux_raid_member", "zfs_member"}

\* Where on a device the label of a type is, and what one may find there.
RegionOf(type) == IF type = "linux_raid_member" THEN "end" ELSE "start"
LabelsIn(h, n, region) ==
    {type \in {h.signature[n]} \ {"None"} : type = "Ambivalent" \/ RegionOf(type) = region}

Own == "own"                \* the mount namespace of the program

\* What a descriptor is open on.  A socket may have another descriptor in its queue.
Handle(kind, at) == [kind |-> kind, at |-> at, rights |-> Nothing]
NoHandle == Handle("none", Nothing)
Socket(at) == [kind |-> "socket", at |-> Nothing, rights |-> at]

(* The host is a record of                                                          *)
(*   drive      per name the drive that is there, or Gone                           *)
(*   signature, cached   what a name is a member of, and what udev noted of it      *)
(*   table      per disk the partitions in its table                                *)
(*   over       pairs of a layer and a device below it                              *)
(*   mounts     rows [id, space, at, fs, source, garbled, subtree]                  *)
(*   swaps      [path, type]                                                        *)
(*   tasks      per number [space, fd, map, cwd, kernel]                            *)
(*   pools      per imported pool the paths of its members                          *)
(*   guests     per guest the lines [kind, at] of its configuration                 *)

\* A plan counts what may happen, and knows every place by its number.
PlanAssumption(p) ==
    /\ p.maxChanges \in Nat /\ p.maxFaults \in Nat
    /\ DOMAIN p.parent \subseteq DOMAIN p.host.drive
    /\ DOMAIN p.host.signature = DOMAIN p.host.drive
    /\ DOMAIN p.host.cached = DOMAIN p.host.drive
    /\ DOMAIN p.host.drive \subseteq DOMAIN p.number

ASSUME HostAssumption == \A p \in Plans : PlanAssumption(p)

Names == DOMAIN plan.host.drive
Present(h) == {n \in DOMAIN h.drive : h.drive[n] # Gone}

\* Where a path leads: to the block device, or to the filesystem of the file.
Place(path) == IF path \in Names THEN path ELSE plan.on[path]

\* What a name is on: the device of a partition, and those below a layer.
Below(h) ==
    [n \in DOMAIN h.drive |->
        {pair[2] : pair \in {q \in h.over : q[1] = n}}
            \cup IF n \in DOMAIN plan.parent THEN {plan.parent[n]} ELSE {}]

DisksOf(h, n) ==
    {d \in Reached(Below(h), n) : d \notin DOMAIN plan.parent \cup DOMAIN plan.layer}

OpenOf(task) == {task.fd.at, task.fd.rights, task.map, task.cwd} \ {Nothing}

\* Where a storage is, and what a line of a guest is about.
StoragePlace(id) ==
    LET storage == plan.pve.storages[id]
    IN  IF storage.type = "dir" THEN Place(storage.at) ELSE storage.at

PlaceOf(line) ==
    CASE line.kind = "path" -> Place(line.at)
      [] line.kind = "volume" -> StoragePlace(line.at)
      [] OTHER -> line.at

LocalStorages == {id \in DOMAIN plan.pve.storages : plan.pve.storages[id].local}

\* Every use that there is of a place, and who has it: the namespace of a mount, the
\* path of a swap, the layer above, the label of a member, a storage, a guest, a pool,
\* or a task.
Holdings(h) ==
    {<<<<"mounted", row.at>>, row.space>> : row \in h.mounts}
        \cup {<<<<"swap", Place(s.path)>>, s.path>> : s \in h.swaps}
        \cup {<<<<"held", pair[2]>>, pair[1]>> : pair \in h.over}
        \cup {<<<<"member", n>>, h.signature[n]>> :
                 n \in {m \in DOMAIN h.drive : h.signature[m] \in Memberships}}
        \cup {<<<<"configured", StoragePlace(id)>>, id>> : id \in LocalStorages}
        \cup UNION {{<<<<"guest", PlaceOf(line)>>, g>> : line \in h.guests[g]} : g \in DOMAIN h.guests}
        \cup UNION {{<<<<"zfs", Place(path)>>, p>> : path \in h.pools[p]} : p \in DOMAIN h.pools}
        \cup UNION {{<<<<"open", n>>, t>> : n \in OpenOf(h.tasks[t])} : t \in DOMAIN h.tasks}

\* The uses of the drives that are at the names, and who has them.
UsesOfDrives(h) ==
    UNION {{<<use, d, h.drive[d]>> : d \in DisksOf(h, use[2])} :
              use \in {x[1] : x \in {y \in Holdings(h) : y[1][2] \in DOMAIN h.drive}}}

HoldersOf(h, use) == {x[2] : x \in {y \in Holdings(h) : y[1] = use[1]}}

\* A use lasts although it is handed on.  "by" are those who have had it since it was last
\* handed on, which happens when the last of them lets go.
Lasting(h) == [use \in UsesOfDrives(h) |-> [by |-> HoldersOf(h, use), handed |-> 0]]

StillLasting(h) ==
    [use \in DOMAIN lasting \cap UsesOfDrives(h) |->
        LET left == lasting[use].by \cap HoldersOf(h, use)
        IN  IF left # {} THEN [lasting[use] EXCEPT !.by = left]
            ELSE [by |-> HoldersOf(h, use), handed |-> lasting[use].handed + 1]]

HostInit ==
    /\ plan \in Plans
    /\ host = plan.host
    /\ changes = 0
    /\ lasting = Lasting(host)
    /\ ever = UsesOfDrives(host)

\* A namespace is no more when no task is in it or has it open.
Inhabited(tasks) ==
    {Own} \cup UNION {{tasks[t].space, tasks[t].fd.at} : t \in DOMAIN tasks}
Settled(h) == [h EXCEPT !.mounts = {row \in @ : row.space \in Inhabited(h.tasks)}]

\* Something of the plan happens to the host.
Becomes(next) ==
    LET h == Settled(next)
    IN  /\ changes < plan.maxChanges
        /\ h # host
        /\ host' = h
        /\ changes' = changes + 1
        /\ lasting' = StillLasting(h)
        /\ ever' = ever \cup UsesOfDrives(h)
        /\ UNCHANGED plan

-----------------------------------------------------------------------------
(* What can happen. *)

May(kind) == {c \in plan.may : c.kind = kind}

\* Drives are taken out, put in, or exchanged for others, which are blank.
Plug ==
    \E c \in May("plug") :
        LET at(f, value) == [n \in DOMAIN f |-> IF n \in DOMAIN c.drives THEN value ELSE f[n]]
        IN  Becomes([host EXCEPT
                !.drive = [n \in DOMAIN @ |-> IF n \in DOMAIN c.drives THEN c.drives[n] ELSE @[n]],
                !.signature = at(@, "None"), !.cached = at(@, "None"), !.table = at(@, {})])

\* A filesystem is mounted or unmounted in a namespace.
Mount == \E c \in May("mount") : Becomes([host EXCEPT !.mounts = @ \cup {c.row}])
Unmount == \E c \in May("unmount") : Becomes([host EXCEPT !.mounts = @ \ {c.row}])

\* The changes that a task makes, while there is one of that number.
Can(kind) == {c \in May(kind) : c.task \in DOMAIN host.tasks}

\* A task gets a namespace of its own, a copy of the one that it leaves.
Unshare ==
    \E c \in Can("unshare") :
        LET copies == {[row EXCEPT !.space = c.space] :
                          row \in {m \in host.mounts : m.space = host.tasks[c.task].space}}
        IN  Becomes([host EXCEPT !.tasks[c.task].space = c.space, !.mounts = copies \cup @])

SwapOn == \E c \in May("swapon") : Becomes([host EXCEPT !.swaps = @ \cup {c.swap}])
SwapOff == \E c \in May("swapoff") : Becomes([host EXCEPT !.swaps = @ \ {c.swap}])

\* A mapped device is put over another, or taken down.
Stack ==
    \E c \in May("stack") :
        Becomes([host EXCEPT !.over = @ \cup {<<c.upper, c.lower>>}, !.drive[c.upper] = "mapped"])
Unstack ==
    \E c \in May("unstack") :
        Becomes([host EXCEPT !.over = {p \in @ : p[1] # c.upper}, !.drive[c.upper] = Gone])

\* A device is written to; udev may not have noticed yet.  Or a disk gets a table that
\* the kernel has not read.
Write ==
    \E c \in May("write") :
        \/ Becomes([host EXCEPT !.signature[c.at] = c.signature])
        \/ Becomes([host EXCEPT !.signature[c.at] = c.signature, !.cached[c.at] = c.signature])
Partition == \E c \in May("partition") : Becomes([host EXCEPT !.table[c.at] = c.table])

\* A task opens or closes a descriptor, passes it on, or sends it into a socket queue.
Open == \E c \in Can("open") : Becomes([host EXCEPT !.tasks[c.task].fd = c.handle])
Pass ==
    \E c \in Can("pass") :
        Becomes([host EXCEPT !.tasks[c.to].fd = host.tasks[c.task].fd,
                             !.tasks[c.task].fd = NoHandle])
Send ==
    \E c \in Can("send") :
        Becomes([host EXCEPT !.tasks[c.to].fd = Socket(host.tasks[c.task].fd.at),
                             !.tasks[c.task].fd = NoHandle])

\* A task ends, or starts another that has the same open and then ends.
Exit == \E c \in Can("exit") : Becomes([host EXCEPT !.tasks = Restrict(@, DOMAIN @ \ {c.task})])
Fork ==
    \E c \in Can("fork") :
        Becomes([host EXCEPT !.tasks =
                [t \in (DOMAIN @ \ {c.task}) \cup {c.new} |-> IF t = c.new THEN @[c.task] ELSE @[t]]])

\* A pool is imported or exported; a guest is configured.
Import == \E c \in May("import") : Becomes([host EXCEPT !.pools = c.pools])
Assign == \E c \in May("assign") : Becomes([host EXCEPT !.guests = c.guests])

HostChange ==
    \/ Plug \/ Mount \/ Unmount \/ Unshare \/ SwapOn \/ SwapOff \/ Stack \/ Unstack
    \/ Write \/ Partition \/ Open \/ Pass \/ Send \/ Exit \/ Fork \/ Import \/ Assign
=============================================================================
