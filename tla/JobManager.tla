----------------------------- MODULE JobManager -----------------------------
(***************************************************************************)
(* The job manager (jobs/job_manager.cpp): one call at a time, each call   *)
(* run to its end.  A job is known by its id, which is also its position   *)
(* in jobs_: ids start at 1 and records are only ever appended.            *)
(*                                                                         *)
(* The inventory belongs to the outside world: between two calls a drive   *)
(* may disappear, be exchanged for another one, become protected or lose   *)
(* its known ownership (ReplaceDrive).                                     *)
(***************************************************************************)
EXTENDS Integers, Sequences, FiniteSets, SafetyPolicy

CONSTANTS
    Drives,               \* the physical drives, by DriveId: the lock keys
    Operations,           \* the operations that can be requested
    StartModes,           \* the execution modes the program may be started in
    MaxParallelDrives,    \* the constructor's max_parallel_drives argument
    HostObservations,     \* bound: what the outside world may show of a drive
    ReportedProgress,     \* the values updateProgress is called with
    MaxJobs               \* bound: the jobs submitted in a behaviour

JobStates == {"Planned", "Queued", "Starting", "Running", "Paused",
              "Completed", "Cancelled", "Failed"}
Active == {"Running", "Paused"}
Finished == {"Planned", "Completed", "Cancelled", "Failed"}

\* An operation is its safety class and its three OperationControls.
OperationType == [class : SafetyClasses, can_pause : BOOLEAN,
                  can_resume : BOOLEAN, can_cancel : BOOLEAN]

\* What InventoryProvider::resolve says of an identity: no such drive; a drive
\* with the same key that is not samePhysicalDevice; or the drive, as the
\* policy sees it.
Observations == {"Absent", "Other", "Protected", "Unknown", "Usable"}

ASSUME JobManagerAssumption ==
    /\ Operations \subseteq OperationType
    /\ StartModes \subseteq Modes
    /\ HostObservations \subseteq Observations
    /\ MaxParallelDrives \in Nat
    /\ ReportedProgress \subseteq Int
    /\ MaxJobs \in Nat
    /\ IsFiniteSet(Drives)

max_parallel_drives == IF MaxParallelDrives > 1 THEN MaxParallelDrives ELSE 1

NoJob == 0

VARIABLES
    mode,           \* mode_, fixed by the constructor
    inventory,      \* what resolve() finds for each drive
    jobs,           \* jobs_
    active_locks    \* active_locks_: the job that holds each drive, or NoJob

vars == <<mode, inventory, jobs, active_locks>>

JobType == [drive : Drives, op : Operations, state : JobStates, progress : 0..100]

TypeOK ==
    /\ mode \in StartModes
    /\ inventory \in [Drives -> Observations]
    /\ jobs \in Seq(JobType)
    /\ active_locks \in [Drives -> Nat]

-----------------------------------------------------------------------------
Locked(locks) == {d \in Drives : locks[d] # NoJob}

\* Mutant: the identity found is not compared with the one submitted.
StartOutcomeTrusting(job) ==
    IF inventory[job.drive] = "Absent"
    THEN "Failed"
    ELSE IF authorize(inventory[job.drive], job.op.class, mode) = "Refused" THEN "Failed"
    ELSE IF mode = "DryRun" THEN "Planned" ELSE "Running"

\* start(): the state in which it leaves a job, for the drive found now.
StartOutcome(job) ==
    LET verdict == authorize(inventory[job.drive], job.op.class, mode)
    IN  IF inventory[job.drive] \in {"Absent", "Other"} \/ verdict = "Refused"
        THEN "Failed"
        ELSE IF verdict = "PlannedOnly" THEN "Planned" ELSE "Running"

Contends(js, i) == js[i].state = "Queued" /\ StartOutcome(js[i]) = "Running"

\* The jobs that take their drive in the loop of startEligibleJobs() if the
\* slots last: on each free drive, the first queued job that can start.
Heirs(js, locks) ==
    {i \in DOMAIN js :
        /\ Contends(js, i)
        /\ locks[js[i].drive] = NoJob
        /\ \A k \in 1..(i - 1) : js[k].drive = js[i].drive => ~Contends(js, k)}

\* Mutant: the last queued job of a drive is preferred to the first.
AttemptedLastFirst(js, locks) ==
    {i \in DOMAIN js :
        /\ js[i].state = "Queued"
        /\ locks[js[i].drive] = NoJob
        /\ \A k \in (i + 1)..Len(js) : js[k].drive = js[i].drive => ~Contends(js, k)
        /\ Cardinality(Locked(locks)) + Cardinality({k \in Heirs(js, locks) : k > i})
              < max_parallel_drives}

\* Mutant: the limit is compared with <=.
AttemptedOneTooMany(js, locks) ==
    {i \in DOMAIN js :
        /\ js[i].state = "Queued"
        /\ locks[js[i].drive] = NoJob
        /\ \A k \in 1..(i - 1) : js[k].drive = js[i].drive => ~Contends(js, k)
        /\ Cardinality(Locked(locks)) + Cardinality({k \in Heirs(js, locks) : k < i})
              <= max_parallel_drives}

\* Mutant: the scan goes on after the last slot is taken.
AttemptedAll(js, locks) ==
    {i \in DOMAIN js :
        /\ js[i].state = "Queued"
        /\ locks[js[i].drive] = NoJob
        /\ \A k \in 1..(i - 1) : js[k].drive = js[i].drive => ~Contends(js, k)
        /\ Cardinality(Locked(locks)) < max_parallel_drives}

\* The jobs the loop calls start() on: it takes the first queued job whose
\* drive is free, again and again, until every slot is taken or no such job is
\* left.  The jobs before i that take a drive have taken it, and a slot, by
\* the time it comes to i.
Attempted(js, locks) ==
    {i \in DOMAIN js :
        /\ js[i].state = "Queued"
        /\ locks[js[i].drive] = NoJob
        /\ \A k \in 1..(i - 1) : js[k].drive = js[i].drive => ~Contends(js, k)
        /\ Cardinality(Locked(locks)) + Cardinality({k \in Heirs(js, locks) : k < i})
              < max_parallel_drives}

Winners(js, locks) == {i \in Attempted(js, locks) : StartOutcome(js[i]) = "Running"}

startEligibleJobs(js, locks) ==
    [jobs |-> [i \in DOMAIN js |->
                  IF i \in Attempted(js, locks)
                  THEN [js[i] EXCEPT !.state = StartOutcome(js[i])]
                  ELSE js[i]],
     locks |-> [d \in Drives |->
                  IF \E i \in Winners(js, locks) : js[i].drive = d
                  THEN CHOOSE i \in Winners(js, locks) : js[i].drive = d
                  ELSE locks[d]]]

\* startEligibleJobs() as it is written: one turn of its loop starts the first
\* queued job whose drive is not locked, if a slot is free, and the scan begins
\* again from the first job.  A turn that finds no such job ends the loop.
Startable(js, locks) ==
    {i \in DOMAIN js : js[i].state = "Queued" /\ locks[js[i].drive] = NoJob}

LoopTurn(s) ==
    LET next    == Startable(s.jobs, s.locks)
        i       == CHOOSE k \in next : \A l \in next : k <= l
        outcome == StartOutcome(s.jobs[i])
    IN  IF next = {} \/ Cardinality(Locked(s.locks)) >= max_parallel_drives
        THEN s
        ELSE [jobs  |-> [s.jobs EXCEPT ![i].state = outcome],
              locks |-> IF outcome = "Running"
                        THEN [s.locks EXCEPT ![s.jobs[i].drive] = i]
                        ELSE s.locks]

Loop(js, locks) ==
    LET After[n \in 0..Len(js)] ==
            IF n = 0 THEN [jobs |-> js, locks |-> locks] ELSE LoopTurn(After[n - 1])
    IN  After[Len(js)]

releaseLock(locks, i) ==
    [locks EXCEPT ![jobs[i].drive] = IF @ = i THEN NoJob ELSE @]

\* The common end of complete, markFailed and cancel: the job's record becomes
\* `ended`, its lock is released and the queue is served.
EndJob(i, ended) ==
    LET after == startEligibleJobs([jobs EXCEPT ![i] = ended], releaseLock(active_locks, i))
    IN  /\ jobs' = after.jobs
        /\ active_locks' = after.locks
        /\ UNCHANGED <<mode, inventory>>

-----------------------------------------------------------------------------
Init ==
    /\ mode \in StartModes
    /\ inventory \in [Drives -> HostObservations \ {"Absent", "Other"}]
    /\ jobs = <<>>
    /\ active_locks = [d \in Drives |-> NoJob]

\* The submission was authorised on the caller's view of the drive; start()
\* looks at the drive again.
submit(d, view, op) ==
    LET verdict == authorize(view, op.class, mode)
        id      == Len(jobs) + 1
        record  == [drive |-> d, op |-> op, progress |-> 0,
                    state |-> IF verdict = "PlannedOnly" THEN "Planned" ELSE "Queued"]
        mustWait == \/ active_locks[d] # NoJob
                    \/ Cardinality(Locked(active_locks)) >= max_parallel_drives
    IN  /\ Len(jobs) < MaxJobs
        /\ verdict # "Refused"
        /\ \/ /\ record.state = "Planned" \/ mustWait
              /\ jobs' = Append(jobs, record)
              /\ UNCHANGED active_locks
           \/ /\ record.state = "Queued" /\ ~mustWait
              /\ jobs' = Append(jobs, [record EXCEPT !.state = StartOutcome(record)])
              /\ active_locks' = IF StartOutcome(record) = "Running"
                                 THEN [active_locks EXCEPT ![d] = id]
                                 ELSE active_locks
        /\ UNCHANGED <<mode, inventory>>

\* Mutant: the range check is dropped.
updateProgressUnchecked(i, progress_percent) ==
    /\ jobs[i].state \in Active
    /\ jobs' = [jobs EXCEPT ![i].progress = progress_percent]
    /\ UNCHANGED <<mode, inventory, active_locks>>

updateProgress(i, progress_percent) ==
    /\ jobs[i].state \in Active
    /\ progress_percent \in 0..100
    /\ jobs' = [jobs EXCEPT ![i].progress = progress_percent]
    /\ UNCHANGED <<mode, inventory, active_locks>>

complete(i) ==
    /\ jobs[i].state \in Active
    /\ EndJob(i, [jobs[i] EXCEPT !.state = "Completed", !.progress = 100])

\* Mutant: a failure is recorded whatever the job's state.
markFailedAnyState(i) ==
    /\ jobs[i].state # "Queued"
    /\ EndJob(i, [jobs[i] EXCEPT !.state = "Failed"])

markFailed(i) ==
    /\ jobs[i].state \in Active \cup {"Starting"}
    /\ EndJob(i, [jobs[i] EXCEPT !.state = "Failed"])

\* Mutant: a paused job gives its drive back.
pauseReleasing(i) ==
    /\ jobs[i].state = "Running"
    /\ jobs[i].op.can_pause
    /\ jobs' = [jobs EXCEPT ![i].state = "Paused"]
    /\ active_locks' = releaseLock(active_locks, i)
    /\ UNCHANGED <<mode, inventory>>

pause(i) ==
    /\ jobs[i].state = "Running"
    /\ jobs[i].op.can_pause
    /\ jobs' = [jobs EXCEPT ![i].state = "Paused"]
    /\ UNCHANGED <<mode, inventory, active_locks>>

resume(i) ==
    /\ jobs[i].state = "Paused"
    /\ jobs[i].op.can_resume
    /\ jobs' = [jobs EXCEPT ![i].state = "Running"]
    /\ UNCHANGED <<mode, inventory, active_locks>>

\* A queued job holds nothing, so nothing is released and the queue not served.
cancelQueued(i) ==
    /\ jobs[i].state = "Queued"
    /\ jobs' = [jobs EXCEPT ![i].state = "Cancelled"]
    /\ UNCHANGED <<mode, inventory, active_locks>>

\* Mutant: cancelling releases the lock but does not serve the queue.
cancelActiveUnserved(i) ==
    /\ jobs[i].state \in Active
    /\ jobs[i].op.can_cancel
    /\ jobs' = [jobs EXCEPT ![i].state = "Cancelled"]
    /\ active_locks' = releaseLock(active_locks, i)
    /\ UNCHANGED <<mode, inventory>>

cancelActive(i) ==
    /\ jobs[i].state \in Active
    /\ jobs[i].op.can_cancel
    /\ EndJob(i, [jobs[i] EXCEPT !.state = "Cancelled"])

\* The world outside: what the next resolve() of drive d will find.
ReplaceDrive(d, observed) ==
    /\ inventory[d] # observed
    /\ inventory' = [inventory EXCEPT ![d] = observed]
    /\ UNCHANGED <<mode, jobs, active_locks>>

Next ==
    \/ \E d \in Drives, view \in Views, op \in Operations : submit(d, view, op)
    \/ \E i \in DOMAIN jobs :
          \/ \E p \in ReportedProgress : updateProgress(i, p)
          \/ complete(i) \/ markFailed(i)
          \/ pause(i) \/ resume(i)
          \/ cancelQueued(i) \/ cancelActive(i)
    \/ \E d \in Drives, observed \in HostObservations : ReplaceDrive(d, observed)

Spec == Init /\ [][Next]_vars

-----------------------------------------------------------------------------
\* The lock table and the job table, two structures updated at different lines
\* of each handler, tell the same story: a drive is locked by job i exactly
\* when i is running or paused on it.  In particular two jobs are never active
\* on one physical drive, and no finished job leaves its lock behind.
Agree(js, locks) ==
    \A d \in Drives :
        /\ locks[d] \in 0..Len(js)
        /\ \A i \in 1..Len(js) : locks[d] = i <=> js[i].drive = d /\ js[i].state \in Active

LocksMatchJobs == Agree(jobs, active_locks)

\* No more drives are locked than the constructor's limit.
SlotsRespected == Cardinality(Locked(active_locks)) <= max_parallel_drives

\* Between two calls, a job is queued only because its drive is locked or every
\* slot is taken: a release, a failed start or a withdrawn job never leaves a
\* free drive idle with a job waiting for it.
NoIdleDrive ==
    \A i \in 1..Len(jobs) :
        jobs[i].state = "Queued" =>
            \/ active_locks[jobs[i].drive] # NoJob
            \/ Cardinality(Locked(active_locks)) >= max_parallel_drives

\* startEligibleJobs, the closed form above, starts exactly the jobs the loop at
\* job_manager.cpp:220 starts and leaves the same locks, whichever active job
\* ends; and the loop ends, within a turn for each job: another turn would
\* change nothing.
ServesLikeTheLoop ==
    \A i \in 1..Len(jobs) :
        jobs[i].state \in Active =>
            LET js    == [jobs EXCEPT ![i].state = "Completed"]
                locks == releaseLock(active_locks, i)
                ended == Loop(js, locks)
            IN  startEligibleJobs(js, locks) = ended /\ LoopTurn(ended) = ended

\* A job starts to run only on the drive it was submitted for, found in the
\* inventory by the very call that starts it, however long it was queued and
\* whatever the drive was at submission: not on a drive that has since been
\* removed or exchanged, become protected or lost its known ownership.
OnlyVerifiedStarts ==
    [][\A i \in 1..Len(jobs') :
          /\ jobs'[i].state = "Running"
          /\ i <= Len(jobs) => jobs[i].state \notin Active
          => /\ inventory[jobs'[i].drive] \notin {"Absent", "Other"}
             /\ inventory[jobs'[i].drive] # "Usable" => jobs'[i].op.class = "StatusOnly"
             /\ mode # "DryRun"
             /\ mode = "Real" => jobs'[i].op.class \notin {"Destructive", "Irreversible"}]_vars

\* A job that is over stays as it is, whatever is called with its id, and no
\* job is ever dropped from the table or given another drive or operation.
HistoryIsKept ==
    [][\A i \in 1..Len(jobs) :
          /\ i <= Len(jobs')
          /\ jobs'[i].drive = jobs[i].drive /\ jobs'[i].op = jobs[i].op
          /\ jobs[i].state \in Finished => jobs'[i] = jobs[i]]_vars

\* The jobs that are active hold their drives, the queued ones wait for them.
ActiveOn(d) == {i \in 1..Len(jobs) : jobs[i].drive = d /\ jobs[i].state \in Active}
QueuedOn(d) == {i \in 1..Len(jobs) : jobs[i].drive = d /\ jobs[i].state = "Queued"}

Holder ==
    [d \in Drives |-> IF ActiveOn(d) = {} THEN NoJob ELSE CHOOSE i \in ActiveOn(d) : TRUE]
Waiting == [d \in Drives |-> QueuedOn(d)]

Reservation == INSTANCE DriveReservation WITH
    Slots <- max_parallel_drives, issued <- Len(jobs), holder <- Holder, waiting <- Waiting

\* The job manager implements DriveReservation: a drive goes to the queued jobs
\* in submission order, skipping only jobs that can no longer start, the limit
\* holds, and no slot is wasted.
ReservesDrives == Reservation!Spec
=============================================================================
