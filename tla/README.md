# A verification development for DriveLab

DriveLab discovers the drives of a Linux host, decides which of them are safe
to work on, and (so far only in its demo) runs jobs on them. This directory
models the parts of DriveLab 0.3.0 whose behaviour depends on order, on other
threads or on a world that changes meanwhile, checks them with TLC on small
instances and proves the properties of its core with TLAPS for every instance.

Paths below are relative to `src/0.3.0/source/`. The trees of 0.1.0 and 0.2.0
are former releases; the demo core of 0.2.0 is an earlier form of the same code.

## 1. The system

| Component | Code | State it keeps | Operations | What makes it correct |
|---|---|---|---|---|
| Job manager | `src/jobs/job_manager.cpp` | the jobs, a lock per active drive, the mode, the limit of parallel drives | submit, updateProgress, complete, markFailed, pause, resume, cancel, and serving the queue | one active job per drive, the limit, no idle drive, submission order, only verified drives, history kept |
| Safety policy | `src/safety/safety_policy.cpp` | none | authorize | the decision table the job manager relies on, asked at submission and again at the start |
| Mock providers | `src/providers/mock_providers.cpp` | a list of drives | scan, resolve, replace, plan | resolve says what is there now |
| Demo session | `src/app/demo_session.cpp` | two progress trackers, a remainder of time, an event log | runWorkflow, pauseJob, resumeJob, cancelJob, scanInventory, requestTermination, advance | trackers and log agree with the jobs, no time is lost |
| Demo screen | `prototype/demo_ui.cpp`, `src/ui/tui_layout.h` | dialogs, selection, focus, offsets, a held button | a loop: let time pass, draw, handle one key or click | modal dialogs, focus on what is shown, every control in reach, a click acts on what was pressed, no starved queue, safe termination |
| Production scan | `src/app/production_application.cpp` | the published snapshot, a running flag, a worker thread, two locks | start, wait, cancel, rescan; the worker's inventory, ownership, verdicts | generations never mix, no stale verdict, no stuck flag, no deadlock |
| Production screen | `src/ui/production_ui.cpp`, `src/ui/production_read_model.cpp` | a copy of the snapshot, the selection, the log, a dialog | a loop: refresh, draw, handle one key or click | READY is never stale, the selection never changes device, the end of a scan is told |
| Ownership graph | `src/core/ownership_graph.cpp` | none (pure) | assessOwnership | READY only on complete, unambiguous, negative evidence |
| Ownership source and host usage | `src/platform/linux/linux_ownership_source.cpp`, `linux_host_usage.cpp`, `proxmox_ownership.cpp`, `native_zfs_ownership.cpp` | what one scan has read, for the recheck at its end | mounts and swaps, topology, pools, Proxmox configuration, processes, recheck | what changed during the scan is not evidence; a task that passes a descriptor on once is not missed |
| Fresh signatures | `src/platform/linux/native_fresh_signatures.cpp` | two captures of a device, each of several regions, between two raw scans | probe, compare | a torn or partial read, or one of another drive, is never a negative |
| Block inventory | `src/platform/linux/udev_sysfs_inventory_source.cpp`, `linux_inventory_provider.cpp`, `src/core/resolved_inventory.cpp` | records of one scan | enumerate, read, merge, relate, resolve | a conflict never becomes an identity |
| Process runner | `src/process/posix_process_runner.cpp` | a child process, two pipes | run with a timeout | every child is reaped, output is drained, a timeout is told (only tests run it: the program links the runner that refuses) |
| The rest | command line, configuration, logger, report writer, capability catalog, layout | | | no state that a later step depends on |

How they interact. The demo screen calls the demo session through
`CoreApplication`; the session turns workflows into jobs, and its clock drives
them. The job manager asks the inventory provider and the safety policy again
whenever it starts a job. The production screen calls
`CoreApplication::startProductionScan`, whose worker thread reads the block
inventory, then the ownership evidence, gets a verdict per disk and publishes
immutable snapshots; the screen polls them through its read model.

What is hard. In the demo core nothing is concurrent, but the order of calls is
arbitrary, one call may end many jobs and start others, and the inventory
changes between a submission and a start. In production the worker, its
cancellation and the screen interleave, every read of the host may be out of
date when it is used, and sources fail in the middle of a scan. There is no
persistence, so there is no crash recovery. `PROJECT.json` lists each hazard
with its line and the properties that would catch it.

## 2. Modules

```
SafetyPolicy   DriveReservation (abstract)      SnapshotPublication (abstract)
     |               ^ implements                     ^ implements
     +--> JobManager-+                          ProductionScan
              |                                       |
          DemoSession                             ProductionUi
              |
          DemoScreen                            DemoUi (on its own)

OwnershipTrace --> OwnershipWalk
      |
OwnershipGraph --> OwnershipCapture

one scan of a changing host, each module extending those before it:

Host --+--> InventoryScan --> HostUsage --> OwnershipRead --> ZfsOwnership
       |                                                           |
BlockRecords --> BlockIdentity                               ProxmoxConfig
                                                                   |
OwnershipGraph (instance) --> HostScan <-- FreshSignatures <-- ProcessPass
```

An `MC...` module gives the constants of one of them their small values. Theorems are in
modules of their own, which extend the module they are about and the theorems they rest on:

```
JobManagerProofs --+--> ReservationProofs       (JobManager, DriveReservation)
                   +--> DemoSessionProofs       (DemoSession)
ProductionScanProofs --> ProductionUiProofs     (ProductionScan, ProductionUi)
OwnershipProofs                                 (OwnershipCapture)
OwnershipWalkProofs                             (OwnershipWalk)
DemoUiProofs                                    (DemoUi)
```

**SafetyPolicy** is `authorize` as one operator. A drive is what the policy looks
at: without a stable identity, protected, of unknown ownership, or usable.

**JobManager** has one action per operation. A job is its drive, its operation
(safety class and three controls), its state and its progress; its id is its
position in `jobs`. `inventory` is what `resolve()` would find of each drive
and is changed only by `ReplaceDrive`, the world outside. `start()` is
`StartOutcome`, the state it leaves a job in: the intermediate state `Starting`
is never seen between two calls, and no call overlaps another. The loop of
`startEligibleJobs()` is given in closed form: `Attempted` is the set of jobs the
loop calls `start()` on, `Winners` those that take their drive. That the closed
form is the loop is itself checked and proved: `LoopTurn` is a turn of the loop as it is
written, `Loop` as many turns as there are jobs, and `ServesLikeTheLoop` says that the two
do the same and that another turn would do nothing. The closed form is there because
what the other properties need, which job is started and what it waits for, can be read off it.

**DriveReservation** is what the manager promises, without its code: tickets, at
most one holder per drive, at most `Slots` held drives, ticket order per drive,
and nobody waits without a reason. `JobManager!Reservation` is the refinement
mapping: the holder of a drive is read off the job states, not the lock table.

**DemoSession** extends the job manager. A workflow is its feature, whether it
only inspects, and its operation. A tick is a recursive function over the jobs, of
which those take a turn that ran when the tick began; `advance` is one over the whole ticks that
have passed. The log
is the list of events the last call added. The fixture inventory of the demo
never changes, so what the session remembers of a drive is what the manager
resolves; `ReplaceDrive` is not an action here. There is a slot for every drive, because the
demo's manager gets the number of its fixtures when the configuration asks for fewer
(`src/app/core_application.cpp:41`): in the demo a job only ever waits for its drive.

**DemoScreen** adds the open dialog and how the loop was left. `tickCore`, the first
statement of the loop, is an action of its own and needs no closed dialog.

**DemoUi** is the same screen as one finds one's way in it, with the jobs reduced to
what decides which buttons a row has. A control is its kind and a value, as in the code, and a drawing is the set of
controls it registers: `drawMainTabs` and the rows of drives, workflows and jobs compute
it from the size of the terminal with the real heights and widths of `makeLayout`. One turn of the loop is one step, the handler and then the
drawing, because nothing is read between them and the drawing itself normalises
focus, offsets and what is held. `tickCore` ends and starts jobs, and is a
step of its own, so a button may be held while its row changes. The two capacities, how
many drives and how many queue rows fit (five each in the code), are constants.

**ProductionScan** models threads: one action is what happens between two points
where another thread can come in. The client that holds
`production_control_mutex_` is `control`; where it stands in its call is `call`.
The worker's program counter names its points: the inventory source, the two
publications, the ownership source and assessment, the exception handler, the
lowering of the flag. The checks for cancellation are the condition `~stop`
of the step that contains them; because a stop is never taken back, the
checks at lines 81, 89 and 105 come to the last one. A stop between that check and the
publication it precedes still publishes, as in the code. The sources are
external: they return any inventory of `Inventories`, any verdict per disk, an
error, or they throw.

**SnapshotPublication** is what a reader may rely on; `PublishesInOrder` states
that ProductionScan implements it, with the snapshot alone as the mapping.

**ProductionUi** composes the scan with its one client. A device is its
identity, the other facts `sameSelection` compares, and its kind. `log` is a set of
events tagged with the generation on the screen.

**OwnershipTrace** says in closed form what the walk over the graph of one consumer
finds: what it reaches, the owners among that, what is wrong on the way, and whether
the structure is complete. `Reached` is a least set, not a recursion, so that it can
be proved about.

**OwnershipWalk** is that walk as it is written, a depth-first search with a limit, one
action per branch of the code: `Refuse` (too deep, or in a circle), `Skip` (left
before), `Visit`, `GoOn` to the next provider, `Leave`. The code takes providers in
the order of their keys; the model in any order. `WalkIsExact` compares what it found
with the closed form when it is done.

**OwnershipGraph** is `assessOwnership` as a function of the evidence: one operator per
set or condition of the code (`Issues`, `Claims`, `unknown_usage`, `coverage_complete`,
`signatures_complete`), and `Status`, the decision list. Evidence is a record of what
the inventory and the sources found. Uses that weigh the same are one use; reasons are
the keys they are about.

**OwnershipCapture** puts the verdict between a real host and its readers. A host is a list
of facts: a consumer is backed by a provider, a consumer is used, a device is (not) a
member of an inactive group. Each fact is read, or it is lost and what the readers
do then is reported (`LoseBacking`: an issue or an incomplete node; `LoseUse`: an
unattributed mount or swap, withdrawn coverage, or a gap; `LoseSignature`: a probe that
failed). Then come reports against disks, true or not, and `DoubtIdentity`, which only
concerns the disk itself. The evidence is assessed after every step, so that two
assessments can be compared. What the model takes from the readers is their
contract, "Exhaustive source gap records" (`src/core/ownership_graph.h:95`): a source
whose summary is false is trusted once it lists a gap. The
only source that lists gaps sets its summary from the list
(`proxmox_ownership.cpp:722`), and so meets it. Without that contract a disk in use can become
READY, as TLC finds when `MayListGaps` is weakened.

**Host** is the machine a scan reads, which is not the program: the drive that answers at
each name, the layers, mounts, swaps, pools, guests and tasks, and one action,
`HostChange`, for everything that may happen to them (`plug`, `mount`, `swapon`, `stack`,
`import`, `assign`, `open`, `pass` a descriptor, `fork`, `exit`, `write`, ...). A *plan* is a
host with what may happen to it and how often. `lasting` holds the uses there have been
ever since the scan began, with who has each and how often it was handed on from the last who had it to
another; `ever` holds those there have been at all. The properties speak of these.

The scan itself is a sequence `todo` of steps, in the order of the code; each step is
an action that reads the host as it then is, and the host may change between any two. Any read may fail
(`Reads`), up to `maxFaults` times.

* **InventoryScan** lists the nodes, reads each and looks it up again; **BlockRecords** parses
  and merges what udev and sysfs say of one node and relates nodes to their disks;
  **BlockIdentity** resolves the identity of each. The last two are pure.
* **HostUsage** reads mountinfo, the swaps and the cached signatures.
* **OwnershipRead** reads the links below `/sys/class/block` and the LVM volumes, and
  keeps each text in `seen`; **ZfsOwnership** captures the pools twice; **ProxmoxConfig**
  reads the storages and guests.
* **ProcessPass** is a pass over mount namespaces and tasks, most of which is looked at
  twice, and its up to three attempts. It runs before and after the probes.
* **FreshSignatures** scans the raw inventory, opens and probes each device, captures it
  twice, and scans the raw inventory again. A capture reads the start and the end of the device in two
  steps, in any order, because the device may be written to in between.
* **HostScan** adds the final recheck of all that was `seen` and takes the verdict from
  OwnershipGraph, instantiated with the sources of the program: the evidence
  OwnershipCapture takes for granted is here what the reads leave. `lately` holds the uses there
  have been since that recheck began; only a property reads it.

Definitions named after a `\* Mutant:` comment are not part of any specification: each
is a plausible bug in the definition that follows it, and the
property beside it in `PROJECT.json` was seen to fail with it. Some properties have several.

## 3. What is checked

| Run | Instance | What it shows |
|---|---|---|
| `jobs` | 3 drives (symmetric), 2 slots, 4 jobs, all modes, all observations, drives exchanged | locks match jobs, limit, no idle drive, closed form = loop, only verified starts, history kept, implements DriveReservation |
| `demo_session` | 2 drives, one failing, 3 jobs, tick 2, times 0, 1, 3 | trackers, drives, failing self-tests, additive time, event log |
| `demo_screen` | 1 drive, 3 jobs, fairness | the queue drains |
| `demo_navigation` | 3 set-ups: panels, jobs, sizes; room for 2 drives and 1 job | the focus is on what is shown, every control of a panel can be reached, a click acts on the job it began on, dialogs are modal |
| `demo_terminate` | as above, 2 jobs | a violation, see below |
| `production_scan` | 2 clients, 3 generations, 3 inventories, fairness | implements SnapshotPublication, flag and snapshot agree, scans and calls end, cancelled scans fail |
| `production_ui` | 1 client, 2 generations, 4 inventories, fairness | READY is current, selection stays on its device or is reported lost, the end of a scan and of leaving is seen |
| `ownership_walk` | 6,144 graphs of three consumers and two disks, limits 1 and 5, fairness | the walk ends and equals the closed form; under its limit it errs only towards an incomplete topology |
| `ownership_capture` | 46 hosts with up to 5 block devices and a group, 2 faults of which 1 report | READY is sound and, with nothing lost, exact; use reaches its disks only; worse evidence never clears, doubt is local |
| `production_log` | as `production_ui` | a violation, see below |
| `host_scan` | 32 plans, below | READY had no use that lasted, unless it was handed on twice, and no layer since the final recheck, and is one drive; BUSY and PROTECTED are of a use there was; an identity is undisputed within its name and between names; a scan decides if nothing but idle tasks comes and goes |
| `host_partitioned` | the plan `Unused`, with no change | a violation, see below |

Bounds and why they are enough. Four jobs on three drives with two slots is the
first size at which a drive is free while every slot is taken, a job overtakes
another, and one release serves two drives (a failed start makes room for the
next). `Explored` keeps the observations of drives small: up to two jobs, at most one drive is
seen as absent, protected or unknown, so every outcome of a start is met; beyond, at most
one drive is exchanged, so that a start fails while others contend; the fourth job is
explored with none paused and none cancelled. `MaxJobs` and `MaxGenerations` only bound how long a behaviour is: no
action looks at them. In the demo a job takes two ticks and a self-test fails in the second: the code's fifty
and ten differ only in how often progress is added; `Elapsed` has a time below a
tick, none, and one that is no multiple of it. Two
generations are enough for the screen because it only ever relates one snapshot to
the next; three let the scan meet two former workers.

The walk starts at one of three consumers, each of which may have the others, itself
or a disk as provider: circles, diamonds and dead ends. The limit of the code
(256) is a constant there: 5 is never met, 1 is. The
hosts of the capture have the shapes on which the rules differ: a partition, a group over
a partition, over a whole disk and over both disks, a volume in the group, a detached
loop device, uses at each layer, an inactive member, and a read-only disk. Two faults
let a lost fact meet a report; the soundness of READY is proved for any number of both.

The demo screen is navigated in three set-ups that do not share their hard parts: `Panels`
(a hard disk, an SSD and a protected drive; three tabs in a terminal of 27 rows, so that drives, tabs
and workflows scroll), `Jobs` (two jobs of one drive, one row of queue) and `Sizes` (three sizes,
one too small to draw anything). With room for two drives and one job the lists scroll with three and
two entries, where the code needs six of each.

A plan of the host scan has two or three block devices and two changes, which is what it
takes to undo one. `Unused` and `Busy` are disks with and
without a partition; `Relay` has two tasks that pass a descriptor on, `Relays` three, one of which may end;
`Churning` has tasks that come and go beside one that has a disk open; `Stacked`, `Unstacked` and
`Array` have volumes and arrays; in `Growing` a mapped device grows over a second disk; `Relabelled` has a
label that is moved to the other end of its disk and back; `Virtualized` has a pool, storages and a guest; `Assigned`
guests that own a disk; `Restricted` hides tasks and has a loop device and a swap file;
`Wiped` has a stale signature; and on the host of `Undecoded` libblkid does not know every label. Six variants
of these have a read that fails. Eleven
hosts do not change but have entries two sources, two names, two entries of a name or two identifiers disagree
about. That is 218,182 states, up to 253 steps deep.

Known limits of what `host_scan` shows. `ReadyWasUnused` is as strong as the code allows and no stronger. The
code looks into the tasks one after the other (`src/platform/linux/proxmox_ownership.cpp:567-651`) and compares each
only with itself, so a descriptor that goes from a task not yet read to one read already changes nothing
that is compared. The second collection, after the probes (`linux_ownership_source.cpp:424-437`), sees what was so
handed on once; with three tasks it can happen once in each collection, and then a disk that was open all the
time is READY: with `FALSE` in the place of `lasting[use].handed >= 2`, TLC finds just that on the plan `Relays`.
A label that is moved in the middle of each of the two captures of a device escapes in the same way (`Relabelled`).
What the property says of the last moments is about layers only: a mount, a task or a guest that comes
after it was looked at for the last time is not seen, and no scan could promise it.
A drive that is exchanged after the last raw scan
is only noticed if the topology changes with it, so `UseWasReal` excuses a drive no raw
scan has seen. A disk that is a member of a group or array that
is not active stays UNKNOWN; so may one behind a stale cached signature, hidden tasks or odd entries. Such plans
are not `quiet`. `QuietScansDecide` covers fewer changes of tasks than a collection has attempts (three):
with more, every attempt may be disturbed and the disk stays UNKNOWN.

Fairness. `WF(tickCore)` on the demo screen: `getch` waits 30 ms at most, so the loop
always comes back to its first statement. `WF(WorkerStep)` in production: the
worker is a thread of its own, its loops are bounded, and its sources return, as
system calls do; nothing is assumed about which answer they give. `WF(CallStep)`:
a call that holds the control lock goes on when what it waits for has happened.
`WF(Next)` in the walk: it is one sequential function.
Nothing is assumed about who gets a lock that is free, and nothing about the user,
except in `QueueDrains`, which does not blame the program for a job that the user
leaves paused.

`CHECK_DEADLOCK FALSE` is given only where the program may be left. A scan that has
ended stutters.

### Three disagreements between the code and its documents

*Termination* (`demo_terminate`). `MANUAL-0.2.0.md:180` says that
non-cancellable firmware erase jobs can block the termination of the session. The
check is made when the dialog opens (`prototype/demo_ui.cpp:1500`), time goes on
behind the dialog (`:2279`), and the confirmation (`:1686`, `:2058`) does not
check again: an erase that was queued starts meanwhile, and the session is
terminated over it.

*The completion event* (`production_log`). `MANUAL-0.3.0.md:81` says that the
event log records completion or a scan error. The loop logs it when the phase
changes across its own refresh. R pressed just before a scan ends is refused,
but `ProductionReadModel::startScan` refreshes all the same; if the worker
has published by then, the loop finds the phase unchanged, and the log
only gets "Scan failed: A production scan is already running".

*Disks with partitions* (`host_partitioned`). `tests/test_native_fresh_signatures.cpp:801` expects
READY of a disk with one unused partition. The fixture of the test builds the
partition by hand, without issues. The inventory never does: `identify` (`src/core/resolved_inventory.cpp:66-72`)
gives every node that is not a hardware disk the issue `UnsupportedTopology`, and
`assessOwnership` (`src/core/ownership_graph.cpp:419-434`) wants every device on the disk to be
free of issues. So a disk with any partition, however idle, stays UNKNOWN. This errs to the
safe side, and `QuietScansDecide` states it as it is.

## 4. What is proved

Each theorem holds for all values of the constants that satisfy the named assumption of the
module it is about. The runs check the same properties on a small instance.

| Module | Theorems | Property |
|---|---|---|
| `JobManagerProofs` | `TypeCorrect`, `LocksAlwaysMatchJobs`, `SlotsAlwaysRespected`, `NoDriveIsIdle`, `ServesAsTheLoopDoes` | `TypeOK`, `LocksMatchJobs`, `SlotsRespected`, `NoIdleDrive`, `ServesLikeTheLoop` |
| `ReservationProofs` | `HistoryIsAlwaysKept`, `OnlyVerifiedJobsStart`, `ManagerReservesDrives` | `HistoryIsKept`, `OnlyVerifiedStarts`, `ReservesDrives` |
| `DemoSessionProofs` | `DrivesAlwaysInOrder`, `FailingDrivesAlwaysFail`, `TrackersAlwaysFollow`, `StoryIsAlwaysTold`, `TimeAlwaysAdds` | `DrivesInOrder`, `FailingDrivesFail`, `TrackersFollowJobs`, `EventsTellTheStory`, `TimeIsAdditive` |
| `ProductionScanProofs` | `FlagAlwaysTells`, `ReadersSeeScansInOrder` | `FlagTellsOfScan`, `PublishesInOrder` |
| `ProductionUiProofs` | `SelectionAlwaysFits`, `ShownReadyIsCurrent`, `SelectionNeverMoves`, `LossesAreReported` | `SelectionFitsSnapshot`, `ShownVerdictsAreCurrent`, `SelectionStaysOnDevice`, `LostSelectionIsReported` |
| `OwnershipProofs` | `ReadyDisksAreUnused`, `UnusedDisksGetReady`, `WorseEvidenceClearsNothing`, `DoubtStaysLocal`, `ShownUseIsReal` | `ReadyMeansUnused`, `UnusedDisksAreReady`, `WorseEvidenceNeverClears`, `DoubtIsLocal`, `UseIsReal` |
| `OwnershipWalkProofs` | `WalkIsAlwaysExact` | `WalkIsExact` |
| `DemoUiProofs` | `FocusAlwaysVisible`, `PanelAlwaysInReach`, `ClickNeverStrays`, `DialogsStayModal` | `FocusIsVisible`, `PanelIsInReach`, `ClickActsOnPressed`, `DialogsAreModal` |

Six more theorems state the inductive invariants: `AlwaysConsistent`, `AlwaysServed`,
`SessionStaysInOrder`, `ScanAlwaysInOrder`, `ScreenAlwaysFits` and `UiIsSound`.

### The job manager

For every set of drives and operations, every limit and any number of
jobs; `JobManagerAssumption` only types the constants
and makes `Drives` finite, because locked drives are counted.

`Consistent` (types, and the agreement of locks and jobs) is
inductive by itself. It has to be proved first, because releasing the lock of
a job only frees that job's drive when no other active job has it. The limit
and the absence of idle drives are inductive only together with it and with each other
(`Served`): serving the queue keeps the limit because the jobs that win are
counted by the heirs before them (`HeirCount`, `ServingFillsTheSlots`), and
leaves no drive idle because a free drive with a waiting job always has a first contender
(`ContendersHaveAnHeir`, from `LeastElement`) that is served unless the slots
run out. `WinnersAreExclusive` is what makes the new lock table well defined, and
`AtMostOneWinner` what makes counting locks count jobs. Each operation then has one
lemma-sized step, and the three handlers that end a job share the lemmas
`EndJobIsConsistent` and `EndJobIsServed` over `EndJob`.

That serving the queue in closed form is what the loop of the code does (`LoopServes`) is
an induction over its turns. A turn starts the first startable job; what it changes for the
others is exactly what the closed form has taken into account, so the closed form of the state
after the turn is that of the state before it (`AttemptedAfterStart`, `ServingAfterStart`):
the started job was an heir, if it took its drive, and the one slot more that is taken is one heir
fewer to count (`SlotsAfterStart`). What can still be started comes after it (`TurnKeepsTheRest`), so
there are no more turns than jobs, and when none is left the closed form does nothing
either (`NothingToServe`).

`ReservationProofs` adds what a *step* may do. `Moves` lists what may become of one record;
`StepOfAJob` shows that every operation, with all the jobs it starts on the way, moves each
record by it or by nothing, and a record that begins to run has passed the policy
with the drive as it is then. The history and the verified starts are read off. For the refinement,
the holder of a drive, which the mapping takes from the job states, is shown to be the lock table
(`HolderIsLock`, from `Consistent`); the one hard step is that serving the queue gives free drives
to first contenders only and stops only at the limit or when nobody can be served
(`ServingReserves`); cancel, arrival and end are its preparation.

### The demo session

`DemoSessionAssumption` says what the program gives its session: workflows that the manager can
do, mode `Demo`, positive ticks, fixtures that are protected or usable, and no more
drives than slots.

A tick is a function defined by recursion over the jobs, and time one over ticks. That such
functions exist and what they keep is proved by `Recursion` and `UpTo`, induction as the absence of a
least counterexample, which needs no theorem with an operator as its parameter. `TickKeeps` and `RunKeeps`
then carry a set of states through any number of turns and ticks. Three such sets are used.

`Simulations` are the tables a manager may have made since a call began: in order (`InOrder`: types,
locks as jobs, no idle drive, no self-test complete on a failing drive) and with the same jobs
submitted. The end of a job keeps it (`EndingInOrder`): since there are slots for all drives, it starts at most the
first job that waits for the drive it freed. `Ticking` and `Told` relate the jobs when the call
began, when the tick began and now to the list of events: each start or end there was is in
it once, none other is, and a start on a drive follows the end that freed it. A turn adds an event
or joins the list of what was started (`AppendedOnce`, `JoinedOnce`).

`SessionInv` is then types, order, and trackers that follow their jobs, which every action keeps;
that each also tells its story gives the action property. For `TimeIsAdditive` the ticks of `a` and then of `b` are the
ticks of both (`TicksAdd`), and a carried remainder loses none and adds none
(`PiecesOfTime`, from the uniqueness of quotient and rest).

### The production scan and its screen

For any number of clients, inventories (each a sequence of devices that can be found) and
scans. `ScanInv` follows one scan through its hands: the client with the control lock publishes the
pending snapshot while the flag is up and no worker runs; the worker then carries that
generation, what it holds agrees with what it has published, and nobody else writes the snapshot
until the flag is down (`FlagRaised`, `StarterAlone`, `WorkerShows`, `OneHolder`).
`FlagTellsOfScan` is a consequence; for `PublishesInOrder` each of the scan's publications is the
matching step of SnapshotPublication and every other step leaves the snapshot.

The screen is one client (`Clients = {Screen}`), and what its thread does is a step of the scans
(`StepScans`), so `ScanInv` and the refinement are both available. `SeenIsFormer` says how far the copy
on the screen may lag: it is the newest snapshot or, of the same generation, a former one with the same
inventory (`Follows`). That makes it safe to keep a selection by its row while the
generation stays, and it is why an anchor only ever waits in an inventory phase (`SelectionFits`).

### Verdicts

`OwnershipCaptureAssumption`: disks are backed by
nothing, detached loop devices are neither backed nor used, a device is probed once, and
only sources that report coverage report uses. Any number of losses and reports.

*READY is sound.* `ReadyMeansUnused` only speaks of the end of a capture, so the
invariant (`HonestInv`) says what holds on the way: every fact is still to be read or
is accounted for (`Accounted`), that is, it is in the evidence or the evidence says that
something is missing; no probe denies a membership; and the evidence keeps the
inventory's idea of what is a disk or a partition. Each read and each loss accounts for its fact
(`FactsAreAccounted`), and evidence only grows, so that what is accounted for stays
so (`Grows`, `AccountedStays`; a gap may join a list but never start one
behind a withdrawn summary, which is where the contract of the gaps enters). From there on it is
about one assessment: a consumer of complete topology reaches
all that really backs it (`RealBackingIsReached`, with `ReachedIsClosed` and
`ReachedIsLeast`), hence a disk that backs a used consumer is among its owners, and
then READY fails at the claim, the gap, the unattributed row, the coverage
or the probe (`UsedIsNotReady`, `MemberIsNotReady`).

*READY is exact when nothing is lost.* `UnusedDisksAreReady` is the converse, and it takes the exact
evidence of a capture where the soundness took a bound on it. As long as nothing is lost and nothing reported
(`FaithInv`), the evidence is `Flawless` (no gap, no claim without an owner, no block with an issue the inventory did
not give it), and each fact is still to be read or told in the evidence. At the end the graph of the
evidence is therefore the host's, layer by layer (`FinishedGraph`, `FinishedTraces`), and
the decision list comes down to what the host is: `EstablishedIsReady` and `ReadyIsEstablished`. The
property is about `Regular` hosts, without circles, attached loop devices or backing that ends in nothing, because those count
against every disk below them; what it asks of one disk is `Established`: a resolved, sized, whole device
whose layers can all be probed. Every host of `ownership_capture` is regular, and some have a device that is never
probed.

*Use is real.* Backwards: until there is a false report, all that is in the evidence is of the
host (`Genuine`), so what is reached in the evidence is reached on the host, and a claim that makes a disk
BUSY or PROTECTED comes from a use there.

*Worse evidence.* `Worse` orders evidence by what reports do to it, and each condition of
the decision list is monotone in it. `WorseEvidenceNeverClears` is about the steps that report
something against a disk (`alarms`) and about no others: what a lost fact may not do is the subject
of `ReadyMeansUnused`. A report makes no disk READY, with no exception. The attempt to prove that it never
turns PROTECTED into BUSY failed, and was right to:
a partition whose disk turns out not to list it in return is no longer a partition of that disk,
so a protected use of it no longer protects the disk, while another use may still make it busy
(`src/core/ownership_graph.cpp:175-192`). The property states that exception, which is one about PROTECTED and BUSY only,
and two of the hosts of `ownership_capture` have such a pair of uses.

*Doubt is local.* An issue with the identity of one disk changes the graph only in `unusable`, and for
every other disk owners, claims and signatures are the same.

### The walk

For finite graphs that are closed under what a key goes on to, and any limit. `WalkInv`: the stack is a path from the
start whose keys are all different, so it is never longer than there are keys and the limit, if it is no less,
is not met; what was looked at is reached and its faults are recorded; nothing behind a key
that was left is forgotten; and, as long as nothing is wrong, a key is left only after all behind it,
so that none of them is on a circle. At the end the stack is empty, the visited keys are closed and contain the start,
and `Reached` is the least such set.

### The navigation of the demo screen

For any drives, terminal sizes, numbers of jobs and catalogs that satisfy `ScreenAssumption`. What that assumes is in the
code: the catalog and the tabs (`src/0.3.0/source/src/app/demo_model.cpp:5-147`), that only
a self-test may lack support, and only on a drive that is no hard disk
(`src/0.3.0/source/src/app/demo_session.cpp:229-240`), and that the second self-test is chosen at first
(`src/0.3.0/source/prototype/demo_ui.cpp:110`).

The invariant is `UiInv`. That the focus is shown is not inductive alone: closing a dialog
brings back a focus that was remembered before resizes and other drives, a new drive has fewer tabs, and
"Run Simulation" takes the workflow that was chosen before. `Sound` is what has to hold besides: types, a tab that
the drive has (`Placed`), of every feature a chosen workflow that exists and that the drive supports
(`Supported`), and a focus, now or remembered, that belongs to the panel when the panel has the keys (`Asked`).
`HeldJob` says that a held button still names its job by its place from the end of the list.

Each handler keeps `Sound` (the lemmas `...Keeps`), the jobs excepted as `Touches`, `Adds` and
`Passes` say, and the drawing that follows shows the focus or moves it to what it shows (`SettledIsVisible`).
The hard part is the panel. The code computes the row of a control twice, in `featureControlRow` for the scrolling and
in `drawMainContent` for the drawing; `RowsAgree` proves both the same and less than the
height of the content, from what the wrapping of buttons into rows does (`ButtonsGoDown`, `RowsAreInOrder`). So the
offset that `ensureFeatureFocusVisible` chooses survives the clamping of the drawing and has the control in view
(`ScrollingShows`), which is the case in which `normalizeFocusAfterDraw` would otherwise take the focus
away. `StepIs` then says what a step of the loop does, and the four theorems are read off.

Overlapping conditions of the code are nested `IF`s in this module, because an arm of a `CASE` whose
guard overlaps another's may be chosen in any order, which TLC does not show and a proof does.

### What is only model-checked

* Everything under fairness: `QueueDrains`, `ScansEnd`, `CallsReturn`, `CancelledScansFail`, `ShowsTheEnd`,
  `WalkEnds`. The prover has no rule for liveness.
* The properties of the host scan. An induction would have to relate four modules' collections to two earlier
  moments of the host each.

## 5. Plan

Done so far: the job manager with its abstract specification, the demo session and screen, the
production scan with its abstract specification, the production screen, the ownership graph
with its walk and its capture, the scan of a host (inventory, usage, ownership, processes,
fresh signatures) with verdicts taken from the graph, the navigation of the demo screen,
and the theorems above.

Next, theorems:

1. `IdentityIsUndisputed`, from the operators of BlockIdentity alone. What it compares are entries of
   one name across the drives that had it, so it first needs to be said for a host whose drives stay.

And one model: the focus, mode and dialog return of the production screen
(`src/ui/production_ui.cpp:280`), the hazard no property covers yet.

## 6. What is not modelled, and why

* Of the demo screen: hover, the offset of its event log, columns, texts and colours. Two of its
  habits are modelled but are no property: releasing the button over "Cancel" of a queued job that has
  started since pauses the job, because both buttons are of one kind; and the branches of `focusHit`
  for dialogs are never reached.
* Of the production screen: drawing, focus, cursor and scrolling.
* Time stamps and remaining-time estimates; the limits of the two event logs (the oldest events
  are dropped, nothing reads them).
* How the texts of kernel and configuration files are split: a file is what it says, and
  a field is well formed, out of range or garbage. Of the regions libblkid reads, the start and the
  end of a device are told apart, and no more. A drive keeps its capacity, so another capacity is another
  drive. `resolveCurrentPath`, which nothing in the program calls.
* In the ownership graph: the wording of reasons, the kinds of use that weigh the same,
  the limit on the depth of a walk (only OwnershipWalk has it), rows of mountinfo that a ZFS claim
  covers, and zvols whose pool is not found.
* The process runner: the program links the runner that refuses, and only tests run
  the other.
* The command line, configuration, logger, report writer and capability catalog, which have
  no behaviour over time.
* System calls and libblkid, which enter as nondeterministic answers.
* The former releases 0.1.0 and 0.2.0.
