----------------------------- MODULE ProcessPass -----------------------------
(***************************************************************************)
(* What the tasks of the host hold (readProcessOwnership and its passes,   *)
(* platform/linux/proxmox_ownership.cpp): the mount namespaces, and what   *)
(* every task has mapped, open, or as its directory.  Tasks come and go    *)
(* and pass descriptors on, so that a pass looks at most things twice.     *)
(* What it could not collect makes it start again, up to MaxAttempts       *)
(* passes; what it has seen of storage stays, whatever happens later.      *)
(*                                                                         *)
(* A task has one thread, one descriptor, one mapped file, and the root    *)
(* directory of the task is its working directory.                         *)
(***************************************************************************)
EXTENDS ProxmoxConfig

VARIABLES
    pass        \* the pass over the tasks, see NewPass

MaxAttempts == 3

NewPass(attempt, rows) ==
    [attempt |-> attempt,
     lost    |-> FALSE,         \* whether something could not be collected
     spaces  |-> <<>>,          \* per namespace the task it was read of, and its rows
     rows    |-> rows,          \* the rows of all namespaces in all passes
     handles |-> {},            \* the namespaces that are held open
     backing |-> {},            \* what backs the configuration filesystem
     listed  |-> {},            \* the tasks
     task    |-> NoHandle,      \* what the task had at first: [space, map, fd]
     swaps   |-> {}]            \* the swaps at first

Gaps(e, nodes) == [e EXCEPT !.gaps = @ \cup {About(n, "processes") : n \in nodes}]
Claims(e, nodes, use) == [e EXCEPT !.claims = @ \cup {Claim(n, use, 0) : n \in nodes}]

blockOwners(number) == {n \in BlockNames : NumberOf(inventory.nodes[n]) = {number}}

\* A use of something with these owners: one owner is claimed; of several nobody knows.
Attributed(e, owners, use) ==
    IF Cardinality(owners) = 1 THEN Claims(e, owners, use)
    ELSE IF owners = {} THEN Gaps(e, {NoOne}) ELSE Gaps(e, owners)

Tasks == DOMAIN host.tasks
TaskOf(t) == IF t \in Tasks THEN {host.tasks[t]} ELSE {}

Self == 0       \* the program, among the tasks

SpaceOf(t) == IF t = Self THEN {Own} ELSE {task.space : task \in TaskOf(t)}
RowsOf(space) == {row \in host.mounts : row.space = space}

-----------------------------------------------------------------------------
(* Namespaces. *)

IsConfigMount(row) == row.fs = "pmxcfs"
IsHarmless(row) == row.fs \in {"tmpfs", "pmxcfs"}

RowEvidence(e, row) ==
    LET owners == blockOwners(plan.number[row.at])
        pools == {p \in Pools : row.fs = "zfs" /\ row.source = p}
    IN  IF row.garbled THEN Gaps(e, IF owners = {} THEN {NoOne} ELSE owners)
        ELSE IF owners = {} /\ pools = {} /\ IsHarmless(row) THEN e
        ELSE Attributed(e, IF owners = {} THEN pools ELSE owners, "Mounted")

\* The rows of a namespace are use; a namespace without rows hides them.
SpaceEvidence(e, rows) ==
    IF rows = {} THEN Gaps(e, {NoOne})
    ELSE FoldSet(LAMBDA row, x : RowEvidence(x, row), e, rows)

\* Every namespace is inspected once, by the first task that is in it.
inspectNamespace(p, spaces, task, ok) ==
    LET new == spaces \ DOMAIN p.spaces
        rows == IF ok THEN UNION {RowsOf(s) : s \in new} ELSE {}
    IN  [p EXCEPT !.spaces = @ @@ [s \in new |-> [task |-> task, rows |-> rows]],
                  !.rows = @ \cup {row \in rows : ~row.garbled},
                  !.lost = @ \/ (new # {} /\ ~ok)]

NamespaceEvidence(e, p, spaces, ok) ==
    IF ok /\ spaces \ DOMAIN p.spaces # {}
    THEN SpaceEvidence(e, UNION {RowsOf(s) : s \in spaces \ DOMAIN p.spaces}) ELSE e

\* The own namespace comes first; it tells how much of /proc can be seen.
BeginPass ==
    /\ At("pass")
    /\ \E ok \in BOOLEAN :
        LET p == NewPass(Subject, pass.rows)
            e == NamespaceEvidence(evidence, p, {Own}, ok)
        IN  /\ Reads(ok)
            /\ pass' = inspectNamespace(p, {Own}, Self, ok)
            /\ evidence' = IF plan.restricted \/ ~ok THEN Gaps(e, {NoOne}) ELSE e
    /\ Done
    /\ UNCHANGED <<seen, usageVars, rawVars, answered, located>>

\* The namespaces of all tasks are inspected before the first of their files.
ListTasks ==
    /\ At("tasks")
    /\ \E ok \in BOOLEAN :
        LET tasks == SetToSortSeq(IF ok THEN Tasks ELSE {}, <)
        IN  /\ Reads(ok)
            /\ pass' = [pass EXCEPT !.listed = Tasks, !.lost = @ \/ ~ok]
            /\ Then([i \in 1..Len(tasks) |-> Step("space", tasks[i])] \o <<Step("pmxcfs", Own)>>
                    \o [i \in 1..Len(tasks) |-> Step("enter", tasks[i])]
                    \o (IF ok THEN <<Step("tasks again", Own)>> ELSE <<>>)
                    \o <<Step("handles", Own)>>)
    /\ UNCHANGED <<seen, evidence, usageVars, rawVars, answered, located>>

\* A task that is gone is missed by the reads that follow.
ReadSpace ==
    /\ At("space")
    /\ \E ok \in BOOLEAN :
        LET spaces == SpaceOf(Subject)
        IN  /\ Reads(ok)
            /\ pass' = [inspectNamespace(pass, spaces, Subject, ok) EXCEPT !.lost = @ \/ spaces = {}]
            /\ evidence' = NamespaceEvidence(evidence, pass, spaces, ok)
    /\ Done
    /\ UNCHANGED <<seen, usageVars, rawVars, answered, located>>

PoolsAt(rows, number) ==
    {row.source : row \in {r \in rows :
        plan.number[r.at] = number /\ r.fs = "zfs" /\ r.source \in Pools}}

\* The configuration filesystem is kept in a database, which has one owner.
BackingOfConfig ==
    LET number == plan.number[Place(plan.pve.database)]
        owners == IF blockOwners(number) # {} THEN blockOwners(number)
                  ELSE PoolsAt(pass.rows, number)
        mine == {row \in pass.spaces[Own].rows : IsConfigMount(row)}
    IN  IF Cardinality(mine) = 1 /\ Cardinality(owners) = 1 THEN owners ELSE {}

InspectPmxcfs ==
    /\ At("pmxcfs")
    /\ IF \A row \in pass.rows : ~IsConfigMount(row)
       THEN UNCHANGED <<pass, evidence, faults>>
       ELSE \E ok \in BOOLEAN :
            LET backing == IF ok THEN BackingOfConfig ELSE {}
            IN  /\ Reads(ok)
                /\ pass' = [pass EXCEPT !.backing = backing]
                /\ evidence' = Attributed(evidence, backing, "Configured")
    /\ Done
    /\ UNCHANGED <<seen, usageVars, rawVars, answered, located>>

-----------------------------------------------------------------------------
(* Files and handles. *)

\* Whose a file is follows from the device number of its filesystem and from the rows
\* of all namespaces.  Its observation may be uncertain.
fileOwner(e, place, uncertain) ==
    LET number == plan.number[place]
        rows == {row \in pass.rows : plan.number[row.at] = number}
        devices == blockOwners(number)
        config == IF \E row \in rows : IsConfigMount(row) THEN pass.backing ELSE {}
        owners == devices \cup config \cup PoolsAt(rows, number)
        strange == {row \in rows :
            \/ IsConfigMount(row) /\ pass.backing = {}
            \/ row.fs = "zfs" /\ row.source \notin Pools
            \/ ~IsHarmless(row) /\ row.fs # "zfs" /\ devices = {}}
    IN  IF strange # {} THEN Gaps(e, {NoOne})
        ELSE IF Cardinality(owners) = 1
             THEN LET claimed == Claims(e, owners, "OpenHandle")
                  IN  IF uncertain THEN Gaps(claimed, owners) ELSE claimed
        ELSE IF owners # {} THEN Gaps(e, owners)
        ELSE IF \E row \in rows : IsHarmless(row) THEN e
        ELSE Gaps(e, {NoOne})

filesOwner(e, places, uncertain) ==
    FoldSet(LAMBDA place, x : fileOwner(x, place, uncertain), e, places \ {Nothing})

\* A handle on the ZFS control device is accounted for by the pools.
AccountsForZfs == <<"control", Own>> \in DOMAIN seen /\ seen[<<"control", Own>>].value # {}
                    /\ "zfs" \in evidence.covered

\* A pipe holds nothing; a ring or a socket may hold files that nobody can see, unless
\* the socket says that its queue has none.
HandleEvidence(e, handle) ==
    CASE handle.kind = "block" ->
            LET owners == blockOwners(plan.number[handle.at])
            IN  IF Cardinality(owners) = 1 THEN Claims(e, owners, "OpenHandle") ELSE Gaps(e, {NoOne})
      [] handle.kind = "file" -> fileOwner(e, handle.at, FALSE)
      [] handle.kind \in {"pipe", "mnt"} -> e
      [] handle.kind = "socket" -> IF handle.rights = Nothing THEN e ELSE Gaps(e, {NoOne})
      [] handle.kind = "zfs" -> IF AccountsForZfs THEN [e EXCEPT !.control = TRUE] ELSE Gaps(e, {NoOne})
      [] OTHER -> Gaps(e, {NoOne})

Handles(tasks) == {task.fd : task \in tasks} \ {NoHandle}
HandleOf(t) == Handles(TaskOf(t))

\* What stat tells of a handle.
Kind(handle) ==
    <<handle.kind, IF handle.kind \in {"block", "file"} THEN plan.number[handle.at] ELSE <<0, 0>>>>

\* The files that tasks have mapped.
mappings(tasks) == {task.map : task \in tasks} \ {Nothing}

\* The task, its namespace, its mappings and its descriptors.
EnterTask ==
    /\ At("enter")
    /\ LET t == Subject
           tasks == TaskOf(t)
       IN  \E failing \in {"", "space", "map", "fds"} :
            LET has(what) == IF failing = what THEN {} ELSE tasks
                spaces == {task.space : task \in has("space")}
                e == NamespaceEvidence(evidence, pass, spaces, TRUE)
            IN  /\ Reads(failing = "")
                /\ tasks = {} => failing = ""
                /\ pass' = [inspectNamespace(pass, spaces, t, TRUE) EXCEPT
                                !.lost = @ \/ failing # "" \/ tasks = {},
                                !.task = [space |-> spaces,
                                          map |-> mappings(has("map")),
                                          fd |-> Handles(has("fds")) # {}]]
                /\ evidence' = filesOwner(e, mappings(has("map")), FALSE)
                /\ IF tasks = {} \/ failing = "fds" THEN Done
                   ELSE Then(Twice("cwd", t)
                             \o (IF Handles(tasks) # {} THEN Twice("fd", t) ELSE <<>>)
                             \o <<Step("leave", t)>>)
    /\ UNCHANGED <<seen, usageVars, rawVars, answered, located>>

Cwd(t) == {task.cwd : task \in TaskOf(t)} \ {Nothing}

\* What failed is not absent.
FailedRead == "failed read"

LocateCwd ==
    /\ At("cwd")
    /\ \E ok \in BOOLEAN : Reads(ok) /\ located' = IF ok THEN Cwd(Subject) ELSE {FailedRead}
    /\ Done
    /\ UNCHANGED <<seen, evidence, pass, usageVars, rawVars, answered>>

\* Mutant: every task must have a directory.
NobodyIsOne(t) == FALSE

\* A kernel thread has no directory, no mappings and no descriptors, and says so.
IsKernelThread(t) ==
    (\E task \in TaskOf(t) : task.kernel) /\ pass.task.map = {} /\ ~pass.task.fd

ReadCwd ==
    /\ At("cwd again")
    /\ \E ok \in BOOLEAN :
        LET now == IF ok THEN Cwd(Subject) ELSE {FailedRead}
            both == located # {} /\ now # {} /\ FailedRead \notin located \cup now
            neither == located = {} /\ now = {}
        IN  /\ Reads(ok)
            /\ evidence' = IF both THEN filesOwner(evidence, located \cup now, located # now) ELSE evidence
            /\ pass' = [pass EXCEPT !.lost = @ \/ ~(both \/ (neither /\ IsKernelThread(Subject)))]
    /\ located' = {}
    /\ Done
    /\ UNCHANGED <<seen, usageVars, rawVars, answered>>

LocateFd ==
    /\ At("fd")
    /\ \E ok \in BOOLEAN : Reads(ok) /\ located' = IF ok THEN HandleOf(Subject) ELSE {}
    /\ Done
    /\ UNCHANGED <<seen, evidence, pass, usageVars, rawVars, answered>>

\* What a descriptor was and is, if it changed, is kept as far as it can be told.
ReadFd ==
    /\ At("fd again")
    /\ \E ok \in BOOLEAN :
        LET now == IF ok THEN HandleOf(Subject) ELSE {}
            stable == {h \in now : \E g \in located : Kind(g) = Kind(h)}
            rights == IF \E h \in now : h.kind = "socket" THEN {h.rights : h \in now} ELSE {"unknown"}
            known == {h \in located \cup now :
                        \/ h.kind = "block" \/ now # {}
                        \/ h.kind = "file" /\ blockOwners(plan.number[h.at]) # {}}
            told == {[h EXCEPT !.rights = r] : h \in {k \in known : k.kind = "socket"}, r \in rights}
                        \cup {h \in known : h.kind # "socket"}
            \* A namespace that is not held open all along is as good as any opaque handle.
            opaque == {NoOne : h \in {k \in known : k.kind = "mnt"}}
        IN  /\ Reads(ok)
            /\ evidence' = IF stable # {} THEN FoldSet(LAMBDA h, e : HandleEvidence(e, h), evidence, stable)
                           ELSE FoldSet(LAMBDA h, e : HandleEvidence(e, h), Gaps(evidence, opaque), told)
            /\ pass' = [pass EXCEPT
                    !.lost = @ \/ stable = {},
                    !.handles = @ \cup {h.at : h \in {g \in stable : g.kind = "mnt"}}]
    /\ located' = {}
    /\ Done
    /\ UNCHANGED <<seen, usageVars, rawVars, answered>>

\* The descriptors, the mappings and the namespace once more.
LeaveTask ==
    /\ At("leave")
    /\ \E ok \in BOOLEAN :
        LET tasks == IF ok THEN TaskOf(Subject) ELSE {}
            map == mappings(tasks)
            changed == (map \ pass.task.map) \cup (pass.task.map \ map)
        IN  /\ Reads(ok)
            /\ evidence' = filesOwner(evidence, changed, TRUE)
            /\ pass' = [pass EXCEPT !.lost =
                    @ \/ tasks = {} \/ (Handles(tasks) # {}) # pass.task.fd
                      \/ {task.space : task \in tasks} # pass.task.space]
    /\ Done
    /\ UNCHANGED <<seen, usageVars, rawVars, answered, located>>

-----------------------------------------------------------------------------
(* The end of a pass. *)

RelistTasks ==
    /\ At("tasks again")
    /\ \E ok \in BOOLEAN :
        /\ Reads(ok)
        /\ pass' = [pass EXCEPT !.lost = @ \/ ~ok \/ Tasks # pass.listed]
    /\ Done
    /\ UNCHANGED <<seen, evidence, usageVars, rawVars, answered, located>>

\* A namespace that is held open must have a task in it.
CheckHandles ==
    /\ At("handles")
    /\ evidence' = IF pass.handles \subseteq DOMAIN pass.spaces THEN evidence
                   ELSE Gaps(evidence, {NoOne})
    /\ Then(ForEach("space again", SetToSeq(DOMAIN pass.spaces)) \o <<Step("proc swaps", Own)>>)
    /\ UNCHANGED <<seen, pass, faults, usageVars, rawVars, answered, located>>

ReadSpaceAgain ==
    /\ At("space again")
    /\ \E ok \in BOOLEAN :
        LET before == pass.spaces[Subject]
        IN  /\ Reads(ok)
            /\ pass' = [pass EXCEPT !.lost =
                    \/ @ \/ ~ok
                    \/ SpaceOf(before.task) # {Subject}
                    \/ RowsOf(Subject) # before.rows]
    /\ Done
    /\ UNCHANGED <<seen, evidence, usageVars, rawVars, answered, located>>

\* The swaps must still be those of the inventory.  Their files are attributed here.
ReadSwapSet ==
    /\ At("proc swaps")
    /\ \E ok \in BOOLEAN :
        LET now == IF ok THEN host.swaps ELSE {}
            known == {[path |-> swaps[i].path, type |-> swaps[i].type] : i \in DOMAIN swaps}
            paths == SetToSeq({s.path : s \in now})
        IN  /\ Reads(ok)
            /\ pass' = [pass EXCEPT !.swaps = now, !.lost = @ \/ ~ok \/ now # known]
            /\ Then(FlattenSeq([i \in 1..Len(paths) |-> Twice("proc swap", paths[i])])
                    \o (IF ok THEN <<Step("swaps again", Own)>> ELSE <<>>)
                    \o <<Step("pass end", Own)>>)
    /\ UNCHANGED <<seen, evidence, usageVars, rawVars, answered, located>>

LocateProcSwap ==
    /\ At("proc swap")
    /\ \E ok \in BOOLEAN : Reads(ok) /\ located' = IF ok THEN Stat(Subject) ELSE {}
    /\ Done
    /\ UNCHANGED <<seen, evidence, pass, usageVars, rawVars, answered>>

AttributeSwap ==
    /\ At("proc swap again")
    /\ \E ok \in BOOLEAN :
        LET owners == pathOwner(located, IF ok THEN Stat(Subject) ELSE {})
        IN  /\ Reads(ok)
            /\ evidence' = IF owners = {} THEN Gaps(WithIssues(evidence, {NoOne}, "path"), {NoOne})
                           ELSE Claims(evidence, owners, "Swap")
    /\ located' = {}
    /\ Done
    /\ UNCHANGED <<seen, pass, usageVars, rawVars, answered>>

ReadSwapsAgain ==
    /\ At("swaps again")
    /\ \E ok \in BOOLEAN :
        /\ Reads(ok)
        /\ pass' = [pass EXCEPT !.lost = @ \/ ~ok \/ host.swaps # pass.swaps]
    /\ Done
    /\ UNCHANGED <<seen, evidence, usageVars, rawVars, answered, located>>

PassSteps(attempt) == <<Step("pass", attempt), Step("tasks", Own)>>

\* Mutant: what could not be collected is a gap, although there are more passes.
GivesUpAtOnce ==
    /\ At("pass end")
    /\ \E ok \in BOOLEAN :
        /\ Reads(ok)
        /\ pass.backing = {} => ok
        /\ evidence' = IF pass.lost \/ ~ok THEN Gaps(evidence, {NoOne}) ELSE evidence
        /\ Then(IF pass.lost /\ pass.attempt < MaxAttempts THEN PassSteps(pass.attempt + 1) ELSE <<>>)
    /\ UNCHANGED <<seen, pass, usageVars, rawVars, answered, located>>

\* Mutant: another pass starts without the claims of the one that is given up.
ForgetsClaims ==
    /\ At("pass end")
    /\ \E ok \in BOOLEAN :
        LET again == pass.lost /\ pass.attempt < MaxAttempts
            e == IF ok \/ pass.backing = {} THEN evidence ELSE Gaps(evidence, {NoOne})
        IN  /\ Reads(ok)
            /\ pass.backing = {} => ok
            /\ evidence' = IF again THEN [e EXCEPT !.claims = {c \in @ : c.use # "OpenHandle"}]
                           ELSE IF pass.lost THEN Gaps(e, {NoOne}) ELSE e
            /\ Then(IF again THEN PassSteps(pass.attempt + 1) ELSE <<>>)
    /\ UNCHANGED <<seen, pass, usageVars, rawVars, answered, located>>

\* What was not collected is a gap only when there are no more passes.
EndPass ==
    /\ At("pass end")
    /\ \E ok \in BOOLEAN :
        LET again == pass.lost /\ pass.attempt < MaxAttempts
            e == IF ok \/ pass.backing = {} THEN evidence ELSE Gaps(evidence, {NoOne})
        IN  /\ Reads(ok)
            /\ pass.backing = {} => ok
            /\ evidence' = IF pass.lost /\ ~again THEN Gaps(e, {NoOne}) ELSE e
            /\ Then(IF again THEN PassSteps(pass.attempt + 1) ELSE <<>>)
    /\ UNCHANGED <<seen, pass, usageVars, rawVars, answered, located>>

ProcessStep ==
    \/ BeginPass \/ ListTasks \/ ReadSpace \/ InspectPmxcfs \/ EnterTask \/ LocateCwd \/ ReadCwd
    \/ LocateFd \/ ReadFd \/ LeaveTask \/ RelistTasks \/ CheckHandles \/ ReadSpaceAgain
    \/ ReadSwapSet \/ LocateProcSwap \/ AttributeSwap \/ ReadSwapsAgain \/ EndPass
=============================================================================
