--------------------------- MODULE ProductionScan ---------------------------
(***************************************************************************)
(* Production scans (app/production_application.cpp): clients start, await *)
(* and cancel scans under the control lock, held to the end of each call;  *)
(* a worker thread scans and publishes snapshots, which readers take       *)
(* without that lock.  One step is what happens between two points where   *)
(* another thread can come in.                                             *)
(*                                                                         *)
(* A device is its stable identity, the other facts observed of it, and    *)
(* whether it is a disk.  The inventory and ownership sources are external: *)
(* they answer, fail or throw.                                             *)
(***************************************************************************)
EXTENDS Naturals, Sequences, FiniteSets

CONSTANTS
    Clients,            \* the threads that call the application
    Inventories,        \* the device sequences a scan may find
    Verdicts,           \* the statuses assessOwnership gives to disks
    MaxGenerations      \* bound: the scans started in a behaviour

Phases == {"Idle", "Inventory", "Ownership", "Complete", "Failed"}
Over == {"Idle", "Complete", "Failed"}
Answers == {"None", "Success", "Refused", "Failure"}

DevicesFound == UNION {{inventory[i] : i \in DOMAIN inventory} : inventory \in Inventories}

ASSUME ProductionScanAssumption ==
    /\ "NoClient" \notin Clients
    /\ \A inventory \in Inventories : inventory \in Seq(DevicesFound)
    /\ "Unknown" \in Verdicts
    /\ MaxGenerations \in Nat

VARIABLES
    snapshot,       \* production_snapshot_: [generation, phase, rows]; phase
                    \* "Failed" stands for a scan_error as well
    running,        \* production_running_
    worker,         \* production_worker_: [pc, stop, local]
    control,        \* the client that holds production_control_mutex_
    call,           \* per client, the call it is in: [op, pc]
    answer          \* per client, what its last call returned

scanVars == <<snapshot, running, worker, control, call, answer>>

Snapshot(generation, phase, rows) ==
    [generation |-> generation, phase |-> phase, rows |-> rows]

Empty == Snapshot(0, "Idle", <<>>)
NoWorker == [pc |-> "none", stop |-> FALSE, local |-> Empty]
Idle == [op |-> "none", pc |-> "idle"]

RowType == [device : DevicesFound, pending : BOOLEAN, status : Verdicts]
SnapshotType(s) ==
    /\ s.generation \in 0..MaxGenerations
    /\ s.phase \in Phases
    /\ s.rows \in Seq(RowType)

ScanTypeOK ==
    /\ SnapshotType(snapshot)
    /\ running \in BOOLEAN
    /\ worker.pc \in {"none", "scan", "reveal", "prove", "publish", "throwing", "lower", "finished"}
    /\ worker.stop \in BOOLEAN /\ SnapshotType(worker.local)
    /\ control \in Clients \cup {"NoClient"}
    /\ call \in [Clients -> [op : {"none", "start", "wait", "cancel", "rescan"},
                             pc : {"idle", "joining", "spawning", "settling", "waiting", "reading"}]]
    /\ answer \in [Clients -> Answers]

-----------------------------------------------------------------------------
\* The worker thread.
Joinable == worker.pc # "none"
Ended == worker.pc \in {"none", "finished"}

\* inventoryRows: a row for every device; the proof of disks is pending.
inventoryRows(devices) ==
    [i \in DOMAIN devices |->
        [device |-> devices[i], pending |-> devices[i].kind = "Disk", status |-> "Unknown"]]

WorkerGoesTo(pc) == worker' = [worker EXCEPT !.pc = pc]

ClientsWait == UNCHANGED <<control, call, answer>>

\* The sources throw, checkScanCancelled among them, or a check that follows
\* them does, the last one just before the final publication.
WorkerThrows ==
    /\ worker.pc \in {"scan", "prove"}
    /\ WorkerGoesTo("throwing")
    /\ UNCHANGED <<snapshot, running>> /\ ClientsWait

ScanFails ==
    /\ worker.pc = "scan" /\ ~worker.stop
    /\ worker' = [worker EXCEPT !.pc = "publish", !.local.phase = "Failed"]
    /\ UNCHANGED <<snapshot, running>> /\ ClientsWait

ScanFinds(devices) ==
    /\ worker.pc = "scan" /\ ~worker.stop
    /\ worker' = [worker EXCEPT !.pc = "reveal", !.local.phase = "Ownership",
                                !.local.rows = inventoryRows(devices)]
    /\ UNCHANGED <<snapshot, running>> /\ ClientsWait

Reveal ==
    /\ worker.pc = "reveal"
    /\ snapshot' = worker.local
    /\ WorkerGoesTo("prove")
    /\ UNCHANGED running /\ ClientsWait

Decided(row, verdict) ==
    [row EXCEPT !.pending = FALSE,
                !.status = IF row.device.kind = "Disk" THEN verdict ELSE @]

\* Mutant: cancellation is not checked once the sources have answered.
AssessUnchecked(verdicts) ==
    /\ worker.pc = "prove"
    /\ worker' = [worker EXCEPT !.pc = "publish", !.local.phase = "Complete",
                                !.local.rows = [i \in DOMAIN @ |-> Decided(@[i], verdicts[i])]]
    /\ UNCHANGED <<snapshot, running>> /\ ClientsWait

\* readOwnership and assessOwnership decide about the disks; a disk without a
\* decision stays as it is.
Assess(verdicts) ==
    /\ worker.pc = "prove" /\ ~worker.stop
    /\ worker' = [worker EXCEPT !.pc = "publish", !.local.phase = "Complete",
                                !.local.rows = [i \in DOMAIN @ |-> Decided(@[i], verdicts[i])]]
    /\ UNCHANGED <<snapshot, running>> /\ ClientsWait

Publish ==
    /\ worker.pc = "publish"
    /\ snapshot' = worker.local
    /\ WorkerGoesTo("lower")
    /\ UNCHANGED running /\ ClientsWait

\* Mutant: an exception ends the worker without a final snapshot.
PublishFailureSilent ==
    /\ worker.pc = "throwing"
    /\ WorkerGoesTo("lower")
    /\ UNCHANGED <<snapshot, running>> /\ ClientsWait

\* The handlers of the exceptions publish an empty failed snapshot.
PublishFailure ==
    /\ worker.pc = "throwing"
    /\ snapshot' = Snapshot(worker.local.generation, "Failed", <<>>)
    /\ WorkerGoesTo("lower")
    /\ UNCHANGED running /\ ClientsWait

\* Mutant: the worker takes the control lock to lower the flag.
LowerFlagLocked ==
    /\ worker.pc = "lower" /\ control = "NoClient"
    /\ running' = FALSE
    /\ WorkerGoesTo("finished")
    /\ UNCHANGED snapshot /\ ClientsWait

LowerFlag ==
    /\ worker.pc = "lower"
    /\ running' = FALSE
    /\ WorkerGoesTo("finished")
    /\ UNCHANGED snapshot /\ ClientsWait

WorkerStep ==
    \/ WorkerThrows \/ ScanFails \/ Reveal \/ Publish \/ PublishFailure \/ LowerFlag
    \/ \E devices \in Inventories : ScanFinds(devices)
    \/ \E verdicts \in [DOMAIN worker.local.rows -> Verdicts] : Assess(verdicts)

-----------------------------------------------------------------------------
\* The clients' calls.
GoesTo(c, pc) == call' = [call EXCEPT ![c].pc = pc]
Returns(c, value) ==
    /\ call' = [call EXCEPT ![c] = Idle]
    /\ answer' = [answer EXCEPT ![c] = value]

Enters(c, op, pc) ==
    /\ control = "NoClient"
    /\ call[c].pc = "idle"
    /\ control' = c
    /\ call' = [call EXCEPT ![c] = [op |-> op, pc |-> pc]]

\* startProductionScan, alone or as the first half of rescanProduction.
RefuseStart(c) ==
    /\ control = "NoClient" /\ call[c].pc = "idle"
    /\ running
    /\ Returns(c, "Refused")
    /\ UNCHANGED <<snapshot, running, worker, control>>

BeginStart(c, op) ==
    /\ ~running
    /\ snapshot.generation < MaxGenerations
    /\ Enters(c, op, "joining")
    /\ UNCHANGED <<snapshot, running, worker, answer>>

\* Mutant: the flag is raised only once the worker exists.
PublishPendingUnflagged(c) ==
    /\ call[c].pc = "joining" /\ Ended
    /\ snapshot' = Snapshot(snapshot.generation + 1, "Inventory", <<>>)
    /\ worker' = NoWorker
    /\ GoesTo(c, "spawning")
    /\ UNCHANGED <<running, control, answer>>

\* Mutant: the pending snapshot keeps the former rows.
PublishPendingKeeping(c) ==
    /\ call[c].pc = "joining" /\ Ended
    /\ snapshot' = Snapshot(snapshot.generation + 1, "Inventory", snapshot.rows)
    /\ running' = TRUE
    /\ worker' = NoWorker
    /\ GoesTo(c, "spawning")
    /\ UNCHANGED <<control, answer>>

\* The former worker is joined before its successor's snapshot is published.
PublishPending(c) ==
    /\ call[c].pc = "joining" /\ Ended
    /\ snapshot' = Snapshot(snapshot.generation + 1, "Inventory", <<>>)
    /\ running' = TRUE
    /\ worker' = NoWorker
    /\ GoesTo(c, "spawning")
    /\ UNCHANGED <<control, answer>>

Spawn(c) ==
    /\ call[c].pc = "spawning"
    /\ worker' = [pc |-> "scan", stop |-> FALSE,
                  local |-> Snapshot(snapshot.generation, "Idle", <<>>)]
    /\ control' = "NoClient"
    /\ IF call[c].op = "rescan"
       THEN GoesTo(c, "settling") /\ UNCHANGED answer
       ELSE Returns(c, "Success")
    /\ UNCHANGED <<snapshot, running>>

SpawnFails(c) ==
    /\ call[c].pc = "spawning"
    /\ running' = FALSE
    /\ snapshot' = Snapshot(snapshot.generation, "Failed", <<>>)
    /\ control' = "NoClient"
    /\ Returns(c, "Failure")
    /\ UNCHANGED worker

\* waitForProductionScan, alone or as the second half of rescanProduction.
BeginWait(c) ==
    /\ \/ Enters(c, "wait", "waiting")
       \/ /\ call[c].pc = "settling" /\ control = "NoClient"
          /\ control' = c
          /\ GoesTo(c, "waiting")
    /\ UNCHANGED <<snapshot, running, worker, answer>>

BeginCancel(c) ==
    /\ Enters(c, "cancel", "waiting")
    /\ worker' = [worker EXCEPT !.stop = Joinable]
    /\ UNCHANGED <<snapshot, running, answer>>

EndWait(c) ==
    /\ call[c].pc = "waiting" /\ Ended
    /\ worker' = NoWorker
    /\ control' = "NoClient"
    /\ IF call[c].op = "rescan"
       THEN GoesTo(c, "reading") /\ UNCHANGED answer
       ELSE Returns(c, "Success")
    /\ UNCHANGED <<snapshot, running>>

\* The rescan's last look at the snapshot, outside the control lock.
ReportRescan(c) ==
    /\ call[c].pc = "reading"
    /\ Returns(c, IF snapshot.phase = "Failed" THEN "Failure" ELSE "Success")
    /\ UNCHANGED <<snapshot, running, worker, control>>

\* The steps of a call that has begun.
CallStep(c) ==
    \/ PublishPending(c) \/ Spawn(c) \/ SpawnFails(c)
    \/ EndWait(c) \/ ReportRescan(c)
    \/ call[c].pc = "settling" /\ BeginWait(c)

ScanInit ==
    /\ snapshot = Empty
    /\ running = FALSE
    /\ worker = NoWorker
    /\ control = "NoClient"
    /\ call = [c \in Clients |-> Idle]
    /\ answer = [c \in Clients |-> "None"]

ScanNext ==
    \/ WorkerStep
    \/ \E c \in Clients :
          \/ RefuseStart(c) \/ BeginWait(c) \/ BeginCancel(c) \/ CallStep(c)
          \/ \E op \in {"start", "rescan"} : BeginStart(c, op)

\* The worker's sources return (processes time out, system calls end), and a
\* call that has what it waits for goes on.
ScanFairness == WF_scanVars(WorkerStep) /\ \A c \in Clients : WF_scanVars(CallStep(c))

ScanSpec == ScanInit /\ [][ScanNext]_scanVars /\ ScanFairness

-----------------------------------------------------------------------------
\* What readers of the snapshot see, at whatever moments they look, is one
\* publication after the other: generations never overlap, go back or mix, and
\* a verdict is never shown before its own scan has proved it.
Publication == INSTANCE SnapshotPublication WITH
    shown <- [generation |-> snapshot.generation, phase |-> snapshot.phase,
              rows |-> snapshot.rows]

PublishesInOrder == Publication!Spec

\* The flag that refuses scans is up exactly while one is under way: never
\* down with a worker or a starting client behind it, never left up for good.
\* When it is down the snapshot is settled: whoever may start a scan finds the
\* former one's last word.  Everything keeps its type meanwhile.
FlagTellsOfScan ==
    /\ ScanTypeOK
    /\ running <=> \/ ~Ended
                   \/ \E c \in Clients : call[c].pc = "spawning"
    /\ ~running => snapshot.phase \in Over

\* A snapshot does not stay pending, and a call comes back once it has the lock.
ScansEnd == snapshot.phase \notin Over ~> snapshot.phase \in Over
CallsReturn == \A c \in Clients : control = c ~> control # c

\* A scan that is cancelled before its verdicts are ready ends as failed: what
\* a cancelled source returned is never taken for evidence.
CancelledScansFail ==
    \A g \in 1..MaxGenerations :
        (snapshot.generation = g /\ worker.stop /\ worker.pc \in {"scan", "reveal", "prove"})
            ~> (snapshot.generation = g /\ snapshot.phase = "Failed")
=============================================================================
