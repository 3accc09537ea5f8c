------------------------- MODULE ReservationProofs -------------------------
(***************************************************************************)
(* Theorems about the steps of the job manager: what a call may do to a    *)
(* job, which drives a call may start jobs on, and that the job manager    *)
(* implements DriveReservation.                                            *)
(*                                                                         *)
(* All three come from one lemma, StepOfAJob: every call, however many     *)
(* jobs it starts on its way, leaves each job as it is, or starts it, or   *)
(* moves it as the call itself says.                                       *)
(***************************************************************************)
EXTENDS JobManagerProofs

-----------------------------------------------------------------------------
(* What a step does to one job. *)

\* The job may run on the drive that is found in the inventory now.
Verified(job) ==
    /\ inventory[job.drive] \notin {"Absent", "Other"}
    /\ inventory[job.drive] # "Usable" => job.op.class = "StatusOnly"
    /\ mode # "DryRun"
    /\ mode = "Real" => job.op.class \notin {"Destructive", "Irreversible"}

\* start() of a job in the state that it finds.
Started(job) == [job EXCEPT !.state = StartOutcome(job)]

\* What one call does to a record that is in the table: nothing, its start, or the
\* progress of a job or the end of one that is not over.
Moves(before, after) ==
    \/ after = before
    \/ before.state = "Queued" /\ after = Started(before)
    \/ /\ before.state \in Active
       /\ after.state \in Active \cup Finished
       /\ after.drive = before.drive /\ after.op = before.op
    \/ before.state = "Queued" /\ after = [before EXCEPT !.state = "Cancelled"]

\* start() leaves a job running only if it is verified.
LEMMA RunningIsVerified ==
    ASSUME NEW job, StartOutcome(job) = "Running", job.op.class \in SafetyClasses,
           inventory[job.drive] \in Observations, mode \in Modes
    PROVE  Verified(job)
  BY DEF StartOutcome, authorize, Verified, Observations, Modes, SafetyClasses

\* startEligibleJobs leaves a job as it is, or starts it if it is queued.
LEMMA ServedRecords ==
    ASSUME NEW js \in Seq(JobType), NEW locks \in [Drives -> Nat], NEW i \in 1..Len(js)
    PROVE  \/ startEligibleJobs(js, locks).jobs[i] = js[i]
           \/ /\ js[i].state = "Queued"
              /\ startEligibleJobs(js, locks).jobs[i] = Started(js[i])
  <1>1. DOMAIN js = 1..Len(js)
    BY LenProperties
  <1>2. i \in Attempted(js, locks) => js[i].state = "Queued"
    BY DEF Attempted
  <1> QED
    BY <1>1, <1>2 DEF startEligibleJobs, Started

\* A record that replaces one that is queued, or that is not over, moves it.
LEMMA RecordMoves ==
    ASSUME NEW i \in 1..Len(jobs), NEW job \in JobType, Consistent,
           Moves(jobs[i], job), Len(jobs') = Len(jobs),
           \A k \in 1..Len(jobs) : jobs'[k] = IF k = i THEN job ELSE jobs[k]
    PROVE  \A k \in 1..Len(jobs) : Moves(jobs[k], jobs'[k])
  BY DEF Moves

\* The end of a job, and what serving the queue does to the others.
LEMMA EndJobMoves ==
    ASSUME Consistent,
           NEW i \in 1..Len(jobs), jobs[i].state \in Active,
           NEW ended \in JobType, ended.drive = jobs[i].drive, ended.op = jobs[i].op,
           ended.state \in Finished,
           EndJob(i, ended)
    PROVE  /\ Len(jobs') = Len(jobs)
           /\ \A k \in 1..Len(jobs) : Moves(jobs[k], jobs'[k])
  <1> DEFINE js    == [jobs EXCEPT ![i] = ended]
             locks == releaseLock(active_locks, i)
  <1>1. locks \in [Drives -> Nat] /\ js \in Seq(JobType)
    BY EndingFits
  <1>2. /\ Len(js) = Len(jobs)
        /\ \A k \in 1..Len(jobs) : js[k] = IF k = i THEN ended ELSE jobs[k]
    BY UpdatedJobs DEF Consistent, TypeOK
  <1>3. jobs' = startEligibleJobs(js, locks).jobs
    BY DEF EndJob
  <1> HIDE DEF js, locks
  <1>4. Len(jobs') = Len(js)
    BY <1>1, <1>3, ServedJobs
  <1>5. ASSUME NEW k \in 1..Len(jobs)
        PROVE  Moves(jobs[k], jobs'[k])
    <2>1. \/ jobs'[k] = js[k]
          \/ js[k].state = "Queued" /\ jobs'[k] = Started(js[k])
      BY <1>1, <1>2, <1>3, ServedRecords
    <2>2. CASE k = i
      <3>1. jobs'[k] = ended
        BY <1>2, <2>1, <2>2 DEF Finished
      <3> QED
        BY <2>2, <3>1 DEF Moves
    <2>3. CASE k # i
      BY <1>2, <2>1, <2>3 DEF Moves
    <2> QED
      BY <2>2, <2>3
  <1> QED
    BY <1>2, <1>4, <1>5

\* A submission leaves the table as it is and adds one record, which is not
\* active unless it was started there and then.
LEMMA SubmitAppends ==
    ASSUME Consistent, NEW d \in Drives, NEW view \in Views, NEW op \in Operations,
           submit(d, view, op)
    PROVE  /\ Len(jobs') = Len(jobs) + 1
           /\ \A k \in 1..Len(jobs) : jobs'[k] = jobs[k]
           /\ LET new == jobs'[Len(jobs')]
              IN  /\ new \in JobType /\ new.drive = d /\ new.op = op
                  /\ \/ new.state \in {"Queued", "Planned"}
                     \/ new.state = StartOutcome(new)
  <1> DEFINE state    == IF authorize(view, op.class, mode) = "PlannedOnly"
                         THEN "Planned" ELSE "Queued"
             record   == [drive |-> d, op |-> op, progress |-> 0, state |-> state]
             start    == [record EXCEPT !.state = StartOutcome(record)]
  <1>1. jobs \in Seq(JobType) /\ Len(jobs) \in Nat
    BY LenProperties DEF Consistent, TypeOK
  <1>2. /\ record \in JobType /\ record.drive = d /\ record.op = op
        /\ record.state \in {"Queued", "Planned"}
    BY JobManagerAssumption DEF JobType, JobStates
  <1>3. /\ start \in JobType /\ start.drive = d /\ start.op = op
        /\ start.state = StartOutcome(record)
    BY <1>2, StartOutcomes DEF JobType, JobStates
  <1>4. StartOutcome(start) = StartOutcome(record)
    BY <1>2, <1>3 DEF StartOutcome
  <1>5. \E new \in {record, start} : jobs' = Append(jobs, new)
    BY DEF submit
  <1> HIDE DEF record, start
  <1>6. PICK new \in {record, start} : jobs' = Append(jobs, new)
    BY <1>5
  <1>7. new \in JobType
    BY <1>2, <1>3
  <1>8. /\ Len(jobs') = Len(jobs) + 1 /\ jobs'[Len(jobs) + 1] = new
        /\ \A k \in 1..Len(jobs) : jobs'[k] = jobs[k]
    BY <1>1, <1>6, <1>7, AppendProperties
  <1> QED
    BY <1>2, <1>3, <1>4, <1>6, <1>8

\* Every step moves each job of the table, or leaves it, and at most adds one
\* at its end, which runs only if it was started there and then.
LEMMA StepOfAJob ==
    ASSUME Consistent, [Next]_vars
    PROVE  /\ Len(jobs') \in {Len(jobs), Len(jobs) + 1}
           /\ \A k \in 1..Len(jobs) : Moves(jobs[k], jobs'[k])
           /\ Len(jobs') = Len(jobs) + 1 =>
                 LET new == jobs'[Len(jobs')]
                 IN  /\ new \in JobType
                     /\ new.state = "Running" => StartOutcome(new) = "Running"
  <1> DEFINE Kept == /\ Len(jobs') = Len(jobs)
                     /\ \A k \in 1..Len(jobs) : Moves(jobs[k], jobs'[k])
             Goal == /\ Len(jobs') \in {Len(jobs), Len(jobs) + 1}
                     /\ \A k \in 1..Len(jobs) : Moves(jobs[k], jobs'[k])
                     /\ Len(jobs') = Len(jobs) + 1 =>
                           LET new == jobs'[Len(jobs')]
                           IN  /\ new \in JobType
                               /\ new.state = "Running" => StartOutcome(new) = "Running"
  <1>1. jobs \in Seq(JobType) /\ Len(jobs) \in Nat /\ DOMAIN jobs = 1..Len(jobs)
    BY LenProperties DEF Consistent, TypeOK
  <1>2. \A i \in 1..Len(jobs) : jobs[i] \in JobType
    BY <1>1, ElementOfSeq
  <1>3. Kept => Goal
    <2> SUFFICES ASSUME Kept PROVE Goal
      OBVIOUS
    <2>1. Len(jobs') # Len(jobs) + 1
      BY <1>1
    <2>2. Len(jobs') \in {Len(jobs), Len(jobs) + 1}
      OBVIOUS
    <2> QED
      BY <2>1, <2>2
  <1>4. ASSUME NEW d \in Drives, NEW view \in Views, NEW op \in Operations, submit(d, view, op)
        PROVE  Goal
    <2>1. \A k \in 1..Len(jobs) : jobs'[k] = jobs[k]
      BY <1>4, SubmitAppends
    <2>2. \A k \in 1..Len(jobs) : Moves(jobs[k], jobs'[k])
      BY <2>1 DEF Moves
    <2> QED
      BY <1>4, <2>2, SubmitAppends
  <1> HIDE DEF Goal
  <1>5. ASSUME NEW i \in 1..Len(jobs), NEW s \in JobStates
        PROVE  /\ [jobs[i] EXCEPT !.state = s] \in JobType
               /\ [jobs[i] EXCEPT !.state = s].drive = jobs[i].drive
               /\ [jobs[i] EXCEPT !.state = s].op = jobs[i].op
               /\ [jobs[i] EXCEPT !.state = s].state = s
               /\ [jobs EXCEPT ![i].state = s] = [jobs EXCEPT ![i] = [jobs[i] EXCEPT !.state = s]]
    BY <1>1, <1>2, StateChanges, StateOfJobChanges
  <1>6. ASSUME NEW i \in 1..Len(jobs), NEW job \in JobType, Moves(jobs[i], job),
               jobs' = [jobs EXCEPT ![i] = job]
        PROVE  Goal
    <2>1. /\ Len(jobs') = Len(jobs)
          /\ \A k \in 1..Len(jobs) : jobs'[k] = IF k = i THEN job ELSE jobs[k]
      BY <1>1, <1>6, UpdatedJobs
    <2> QED
      BY <1>3, <1>6, <2>1, RecordMoves
  <1>7. ASSUME NEW i \in 1..Len(jobs), NEW p \in ReportedProgress, updateProgress(i, p)
        PROVE  Goal
    <2> DEFINE job == [jobs[i] EXCEPT !.progress = p]
    <2>1. /\ job \in JobType /\ job.drive = jobs[i].drive /\ job.op = jobs[i].op
          /\ job.state = jobs[i].state /\ jobs[i].state \in Active
          /\ jobs' = [jobs EXCEPT ![i] = job]
      BY <1>1, <1>2, <1>7 DEF updateProgress, JobType
    <2>2. Moves(jobs[i], job)
      BY <2>1 DEF Moves
    <2> QED
      BY <1>6, <2>1, <2>2
  <1>8. ASSUME NEW i \in 1..Len(jobs), complete(i)
        PROVE  Goal
    <2> DEFINE ended == [jobs[i] EXCEPT !.state = "Completed"]
               job   == [ended EXCEPT !.progress = 100]
    <2>1. /\ ended \in JobType /\ ended.drive = jobs[i].drive /\ ended.op = jobs[i].op
          /\ ended.state = "Completed"
          /\ job = [jobs[i] EXCEPT !.state = "Completed", !.progress = 100]
      BY <1>2 DEF JobType, JobStates
    <2> HIDE DEF ended
    <2>2. /\ job \in JobType /\ job.drive = jobs[i].drive /\ job.op = jobs[i].op
          /\ job.state = "Completed"
      BY <2>1 DEF JobType
    <2>3. jobs[i].state \in Active /\ EndJob(i, job)
      BY <1>8, <2>1 DEF complete
    <2> HIDE DEF job
    <2> QED
      BY <1>3, <2>2, <2>3, EndJobMoves DEF Finished
  <1>9. ASSUME NEW i \in 1..Len(jobs), markFailed(i)
        PROVE  Goal
    <2>1. jobs[i].state \in Active
      BY <1>9 DEF markFailed, Consistent, Settled
    <2> QED
      BY <1>3, <1>5, <1>9, <2>1, EndJobMoves DEF markFailed, Finished, JobStates
  <1>10. ASSUME NEW i \in 1..Len(jobs), cancelActive(i)
         PROVE  Goal
    BY <1>3, <1>5, <1>10, EndJobMoves DEF cancelActive, Finished, JobStates
  <1>11. ASSUME NEW i \in 1..Len(jobs), pause(i)
         PROVE  Goal
    BY <1>5, <1>6, <1>11 DEF pause, Moves, Active, JobStates
  <1>12. ASSUME NEW i \in 1..Len(jobs), resume(i)
         PROVE  Goal
    BY <1>5, <1>6, <1>12 DEF resume, Moves, Active, JobStates
  <1>13. ASSUME NEW i \in 1..Len(jobs), cancelQueued(i)
         PROVE  Goal
    BY <1>5, <1>6, <1>13 DEF cancelQueued, Moves, JobStates
  <1>14. ASSUME jobs' = jobs
         PROVE  Goal
    BY <1>3, <1>14 DEF Moves
  <1>15. ASSUME NEW d \in Drives, NEW observed \in HostObservations, ReplaceDrive(d, observed)
         PROVE  Goal
    <2>1. jobs' = jobs
      BY <1>15 DEF ReplaceDrive
    <2> QED
      BY <1>14, <2>1
  <1>16. ASSUME UNCHANGED vars
         PROVE  Goal
    <2>1. jobs' = jobs
      BY <1>16 DEF vars
    <2> QED
      BY <1>14, <2>1
  <1> QED
    BY <1>1, <1>4, <1>7, <1>8, <1>9, <1>10, <1>11, <1>12, <1>13, <1>15, <1>16 DEF Next, Goal

-----------------------------------------------------------------------------
\* No call, however many jobs it starts or ends, changes a job that is over,
\* drops one, or gives one another drive or operation.
THEOREM HistoryIsAlwaysKept == Spec => HistoryIsKept
  <1>1. Consistent /\ [Next]_vars =>
           [\A i \in 1..Len(jobs) :
               /\ i <= Len(jobs')
               /\ jobs'[i].drive = jobs[i].drive /\ jobs'[i].op = jobs[i].op
               /\ jobs[i].state \in Finished => jobs'[i] = jobs[i]]_vars
    <2> SUFFICES ASSUME Consistent, [Next]_vars, NEW i \in 1..Len(jobs)
                 PROVE  /\ i <= Len(jobs')
                        /\ jobs'[i].drive = jobs[i].drive /\ jobs'[i].op = jobs[i].op
                        /\ jobs[i].state \in Finished => jobs'[i] = jobs[i]
      OBVIOUS
    <2>1. Len(jobs) \in Nat /\ jobs[i] \in JobType
      BY LenProperties, ElementOfSeq DEF Consistent, TypeOK
    <2>2. /\ Len(jobs') \in {Len(jobs), Len(jobs) + 1}
          /\ Moves(jobs[i], jobs'[i])
      BY StepOfAJob
    <2>3. \A s : /\ [jobs[i] EXCEPT !.state = s].drive = jobs[i].drive
                 /\ [jobs[i] EXCEPT !.state = s].op = jobs[i].op
      BY <2>1 DEF JobType
    <2>4. jobs'[i].drive = jobs[i].drive /\ jobs'[i].op = jobs[i].op
      BY <2>2, <2>3 DEF Moves, Started
    <2>5. jobs[i].state \in Finished => jobs'[i] = jobs[i]
      BY <2>2 DEF Moves, Finished, Active
    <2> QED
      BY <2>1, <2>2, <2>4, <2>5
  <1> QED
    BY <1>1, AlwaysConsistent, PTL DEF Spec, HistoryIsKept

\* Whichever call starts a job, a submission or the end of another job, the job
\* runs only on the drive it was submitted for, seen by that very call.
THEOREM OnlyVerifiedJobsStart == Spec => OnlyVerifiedStarts
  <1>1. Consistent /\ [Next]_vars =>
           [\A i \in 1..Len(jobs') :
               /\ jobs'[i].state = "Running"
               /\ i <= Len(jobs) => jobs[i].state \notin Active
               => /\ inventory[jobs'[i].drive] \notin {"Absent", "Other"}
                  /\ inventory[jobs'[i].drive] # "Usable" => jobs'[i].op.class = "StatusOnly"
                  /\ mode # "DryRun"
                  /\ mode = "Real" => jobs'[i].op.class \notin {"Destructive", "Irreversible"}]_vars
    <2> SUFFICES ASSUME Consistent, [Next]_vars, NEW i \in 1..Len(jobs'),
                        jobs'[i].state = "Running",
                        i <= Len(jobs) => jobs[i].state \notin Active
                 PROVE  Verified(jobs'[i])
      BY DEF Verified
    <2>1. Len(jobs) \in Nat /\ \A k \in 1..Len(jobs) : jobs[k] \in JobType
      BY LenProperties, ElementOfSeq DEF Consistent, TypeOK
    <2>2. Len(jobs') \in {Len(jobs), Len(jobs) + 1}
      BY StepOfAJob
    <2>3. ASSUME NEW job \in JobType, StartOutcome(job) = "Running"
          PROVE  Verified(job)
      <3>1. job.drive \in Drives /\ job.op.class \in SafetyClasses
        BY JobManagerAssumption DEF JobType, OperationType
      <3>2. inventory[job.drive] \in Observations /\ mode \in Modes
        BY <3>1, JobManagerAssumption DEF Consistent, TypeOK
      <3> QED
        BY <2>3, <3>1, <3>2, RunningIsVerified
    <2>4. CASE i \in 1..Len(jobs)
      <3>1. Moves(jobs[i], jobs'[i]) /\ jobs[i] \in JobType
        BY <2>1, <2>4, StepOfAJob
      <3>2. jobs[i].state \notin Active
        BY <2>1, <2>4
      <3>3. \A s : /\ [jobs[i] EXCEPT !.state = s].state = s
                   /\ [jobs[i] EXCEPT !.state = s].drive = jobs[i].drive
                   /\ [jobs[i] EXCEPT !.state = s].op = jobs[i].op
        BY <3>1 DEF JobType
      <3>4. jobs'[i] = Started(jobs[i]) /\ jobs'[i].state = StartOutcome(jobs[i])
        BY <3>1, <3>2, <3>3 DEF Moves, Started, Active
      <3>5. Verified(jobs[i])
        BY <2>3, <3>1, <3>4
      <3> QED
        BY <3>3, <3>4, <3>5 DEF Verified, Started
    <2>5. CASE i \notin 1..Len(jobs)
      <3>1. i = Len(jobs') /\ Len(jobs') = Len(jobs) + 1
        BY <2>1, <2>2, <2>5
      <3>2. jobs'[i] \in JobType /\ StartOutcome(jobs'[i]) = "Running"
        BY <3>1, StepOfAJob
      <3> QED
        BY <2>3, <3>2
    <2> QED
      BY <2>4, <2>5
  <1> QED
    BY <1>1, AlwaysConsistent, PTL DEF Spec, OnlyVerifiedStarts

-----------------------------------------------------------------------------
(* The implementation of DriveReservation. *)

\* The holder of each drive, read off the states of the jobs, is what the lock
\* table says.
LEMMA HolderIsLock ==
    ASSUME NEW js \in Seq(JobType), NEW locks \in [Drives -> Nat], Agree(js, locks)
    PROVE  locks = [d \in Drives |->
                      LET active == {i \in 1..Len(js) : js[i].drive = d /\ js[i].state \in Active}
                      IN  IF active = {} THEN NoJob ELSE CHOOSE i \in active : TRUE]
  <1> DEFINE active(d) == {i \in 1..Len(js) : js[i].drive = d /\ js[i].state \in Active}
  <1>1. ASSUME NEW d \in Drives
        PROVE  locks[d] = IF active(d) = {} THEN NoJob ELSE CHOOSE i \in active(d) : TRUE
    <2>1. /\ locks[d] \in 0..Len(js) /\ Len(js) \in Nat
          /\ \A i \in 1..Len(js) : locks[d] = i <=> i \in active(d)
      BY LenProperties DEF Agree
    <2>2. CASE active(d) = {}
      BY <2>1, <2>2 DEF NoJob
    <2>3. CASE active(d) # {}
      <3>1. (CHOOSE i \in active(d) : TRUE) \in active(d)
        BY <2>3, Zenon
      <3> QED
        BY <2>1, <2>3, <3>1
    <2> QED
      BY <2>2, <2>3
  <1> QED
    BY <1>1, Zenon

LEMMA MappedState ==
    ASSUME Consistent
    PROVE  /\ Holder = active_locks
           /\ \A d \in Drives : Waiting[d] = QueuedOn(d)
           /\ DOMAIN Waiting = Drives /\ Waiting = [d \in Drives |-> Waiting[d]]
  BY HolderIsLock DEF Holder, Waiting, ActiveOn, Consistent, TypeOK, LocksMatchJobs

LEMMA MappedNextState ==
    ASSUME Consistent'
    PROVE  /\ Holder' = active_locks'
           /\ \A d \in Drives : Waiting'[d] = QueuedOn(d)'
           /\ DOMAIN Waiting' = Drives /\ Waiting' = [d \in Drives |-> Waiting'[d]]
  BY HolderIsLock DEF Holder, Waiting, ActiveOn, Consistent, TypeOK, LocksMatchJobs, JobType

\* A call that changes no lock and leaves the queued jobs queued is a stutter.
LEMMA Stutters ==
    ASSUME Consistent, Consistent', UNCHANGED active_locks, Len(jobs') = Len(jobs),
           \A k \in 1..Len(jobs) :
              /\ jobs'[k].drive = jobs[k].drive
              /\ jobs'[k].state = "Queued" <=> jobs[k].state = "Queued"
    PROVE  UNCHANGED Reservation!vars
  <1>1. \A d \in Drives : QueuedOn(d)' = QueuedOn(d)
    BY DEF QueuedOn
  <1>2. Waiting' = Waiting /\ Holder' = Holder
    BY <1>1, MappedState, MappedNextState DEF Waiting
  <1> QED
    BY <1>2 DEF Reservation!vars


\* The drives that are held are those that are locked.
LEMMA HeldIsLocked ==
    ASSUME NEW locks
    PROVE  /\ Reservation!Held(locks) = Locked(locks)
           /\ Reservation!Full(locks) <=> Cardinality(Locked(locks)) >= max_parallel_drives
  <1>1. Reservation!Held(locks) = Locked(locks)
    BY DEF Reservation!Held, Reservation!Nobody, Locked, NoJob
  <1>2. \A S : Reservation!Cardinality(S) = Cardinality(S)
    BY DEF Reservation!Cardinality, Cardinality
  <1> QED
    BY <1>1, <1>2 DEF Reservation!Full

\* A submission issues a ticket: one that is refused a place, or waits for its
\* drive or a slot, or holds its drive.
LEMMA SubmitArrives ==
    ASSUME Consistent, Consistent', NEW d \in Drives, NEW view \in Views, NEW op \in Operations,
           submit(d, view, op)
    PROVE  Reservation!Arrive(d)
  <1> DEFINE new      == jobs'[Len(jobs')]
             mustWait == \/ active_locks[d] # NoJob
                         \/ Cardinality(Locked(active_locks)) >= max_parallel_drives
             id       == Len(jobs) + 1
  <1>1. /\ Len(jobs) \in Nat /\ Len(jobs') = id
        /\ \A k \in 1..Len(jobs) : jobs'[k] = jobs[k]
        /\ new \in JobType /\ new.drive = d
    BY LenProperties, SubmitAppends DEF Consistent, TypeOK
  <1>2. \/ UNCHANGED active_locks /\ (new.state = "Queued" => mustWait)
        \/ /\ new.state = "Running" /\ ~mustWait
           /\ active_locks' = [active_locks EXCEPT ![d] = id]
    <2> DEFINE state    == IF authorize(view, op.class, mode) = "PlannedOnly"
                           THEN "Planned" ELSE "Queued"
               record   == [drive |-> d, op |-> op, progress |-> 0, state |-> state]
               start    == [record EXCEPT !.state = StartOutcome(record)]
    <2>1. record \in JobType /\ record.state = state
      BY JobManagerAssumption DEF JobType, JobStates
    <2>2. start \in JobType /\ start.state = StartOutcome(record)
      BY <2>1, StartOutcomes DEF JobType, JobStates
    <2>3. jobs \in Seq(JobType)
      BY DEF Consistent, TypeOK
    <2>4. CASE (state = "Planned" \/ mustWait) /\ jobs' = Append(jobs, record) /\ UNCHANGED active_locks
      <3>1. new = record
        BY <2>1, <2>3, <2>4, AppendProperties
      <3> HIDE DEF record, new, mustWait
      <3> QED
        BY <2>1, <2>4, <3>1
    <2>5. CASE /\ ~mustWait /\ jobs' = Append(jobs, start)
               /\ active_locks' = IF StartOutcome(record) = "Running"
                                  THEN [active_locks EXCEPT ![d] = id] ELSE active_locks
      <3>1. new = start
        BY <2>2, <2>3, <2>5, AppendProperties
      <3> HIDE DEF record, start, new, mustWait
      <3> QED
        BY <2>2, <2>5, <3>1, StartOutcomes
    <2> QED
      BY <2>4, <2>5 DEF submit
  <1> HIDE DEF new, mustWait
  <1>3. /\ new.state = "Queued" => QueuedOn(d)' = QueuedOn(d) \cup {id}
        /\ \A e \in Drives : e # d \/ new.state # "Queued" => QueuedOn(e)' = QueuedOn(e)
    BY <1>1 DEF QueuedOn, new
  <1>4. /\ Holder = active_locks /\ Holder' = active_locks'
        /\ Waiting = [e \in Drives |-> Waiting[e]] /\ Waiting' = [e \in Drives |-> Waiting'[e]]
        /\ \A e \in Drives : Waiting[e] = QueuedOn(e) /\ Waiting'[e] = QueuedOn(e)'
    BY MappedState, MappedNextState
  <1>5. CASE new.state # "Queued"
    <2>1. Waiting' = Waiting
      BY <1>3, <1>4, <1>5
    <2>2. CASE UNCHANGED active_locks
      BY <1>1, <1>4, <2>1, <2>2 DEF Reservation!Arrive
    <2>3. CASE ~mustWait /\ active_locks' = [active_locks EXCEPT ![d] = id]
      BY <1>1, <1>4, <2>1, <2>3, HeldIsLocked DEF Reservation!Arrive, Reservation!Nobody, NoJob, mustWait
    <2> QED
      BY <1>2, <2>2, <2>3
  <1>6. CASE new.state = "Queued"
    <2>1. UNCHANGED active_locks /\ mustWait
      BY <1>2, <1>6
    <2>2. Waiting' = [Waiting EXCEPT ![d] = @ \cup {id}]
      <3>1. /\ Waiting'[d] = Waiting[d] \cup {id}
            /\ \A e \in Drives : e # d => Waiting'[e] = Waiting[e]
        BY <1>3, <1>4, <1>6
      <3> QED
        BY <1>4, <3>1
    <2> QED
      BY <1>1, <1>4, <2>1, <2>2, HeldIsLocked DEF Reservation!Arrive, Reservation!Nobody, NoJob, mustWait
  <1> QED
    BY <1>5, <1>6

\* A queued job that is cancelled withdraws its ticket.
LEMMA CancelWithdraws ==
    ASSUME Consistent, Consistent', NEW i \in 1..Len(jobs), cancelQueued(i)
    PROVE  \E d \in Drives : \E t \in Waiting[d] : Reservation!Withdraw(d, t)
  <1>1. jobs \in Seq(JobType) /\ jobs[i] \in JobType
    BY ElementOfSeq DEF Consistent, TypeOK
  <1> DEFINE job == [jobs[i] EXCEPT !.state = "Cancelled"]
             d   == jobs[i].drive
  <1>2. /\ job \in JobType /\ job.drive = d /\ job.state = "Cancelled" /\ d \in Drives
        /\ jobs' = [jobs EXCEPT ![i] = job]
    BY <1>1 DEF cancelQueued, JobType, JobStates
  <1>3. /\ Len(jobs') = Len(jobs)
        /\ \A k \in 1..Len(jobs) : jobs'[k] = IF k = i THEN job ELSE jobs[k]
    BY <1>1, <1>2, UpdatedJobs
  <1>4. jobs[i].state = "Queued" /\ UNCHANGED active_locks
    BY DEF cancelQueued
  <1> HIDE DEF job
  <1>5. /\ \A e \in Drives : QueuedOn(e)' = IF e = d THEN QueuedOn(e) \ {i} ELSE QueuedOn(e)
        /\ i \in QueuedOn(d)
    BY <1>2, <1>3, <1>4 DEF QueuedOn
  <1> HIDE DEF d
  <1>6. Waiting' = [Waiting EXCEPT ![d] = @ \ {i}] /\ i \in Waiting[d] /\ Holder' = Holder
    BY <1>2, <1>4, <1>5, MappedState, MappedNextState
  <1> QED
    BY <1>2, <1>3, <1>6 DEF Reservation!Withdraw

\* Serving the queue queues no job, leaves the drives that are locked alone, and
\* gives a free one to the first of its queued jobs that is left: whoever was
\* before it could not start, and was not passed over.
LEMMA ServingReserves ==
    ASSUME NEW js \in Seq(JobType), NEW locks \in [Drives -> Nat]
    PROVE  LET after == startEligibleJobs(js, locks)
           IN  /\ \A k \in 1..Len(js) : after.jobs[k].state = "Queued" => js[k].state = "Queued"
               /\ \A d \in Drives :
                     locks[d] # NoJob =>
                        /\ after.locks[d] = locks[d]
                        /\ \A k \in 1..Len(js) : js[k].drive = d => after.jobs[k] = js[k]
               /\ \A d \in Drives :
                     locks[d] = NoJob /\ after.locks[d] # NoJob =>
                        \E w \in 1..Len(js) :
                           /\ after.locks[d] = w /\ js[w].drive = d /\ js[w].state = "Queued"
                           /\ \A k \in 1..Len(js) :
                                 js[k].drive = d /\ after.jobs[k].state = "Queued" => w < k
  <1> DEFINE js2       == startEligibleJobs(js, locks).jobs
             locks2    == startEligibleJobs(js, locks).locks
             W         == Winners(js, locks)
             A         == Attempted(js, locks)
             Before(i) == {k \in Heirs(js, locks) : k < i}
  <1>1. /\ Len(js) \in Nat /\ DOMAIN js = 1..Len(js)
        /\ \A k \in 1..Len(js) : js[k] \in JobType
    BY LenProperties, ElementOfSeq
  <1>2. ASSUME NEW k \in 1..Len(js)
        PROVE  /\ k \notin A => js2[k] = js[k]
               /\ k \in A => /\ js[k].state = "Queued" /\ locks[js[k].drive] = NoJob
                             /\ js2[k].state # "Queued"
    <2>1. js2[k] = IF k \in A THEN [js[k] EXCEPT !.state = StartOutcome(js[k])] ELSE js[k]
      BY <1>1 DEF startEligibleJobs
    <2>2. [js[k] EXCEPT !.state = StartOutcome(js[k])].state = StartOutcome(js[k])
      BY <1>1 DEF JobType
    <2>3. k \in A => js[k].state = "Queued" /\ locks[js[k].drive] = NoJob
      BY DEF Attempted
    <2> QED
      BY <2>1, <2>2, <2>3, StartOutcomes
  <1>3. /\ \A i \in W : locks2[js[i].drive] = i
        /\ \A d \in Drives : (\E i \in W : js[i].drive = d) \/ locks2[d] = locks[d]
    BY ServedLocks
  <1>4. \A i \in W : /\ i \in 1..Len(js) /\ i \in A /\ js[i].state = "Queued"
                     /\ locks[js[i].drive] = NoJob
    BY WinnersAreExclusive DEF Winners
  <1>5. ASSUME NEW w \in W, NEW k \in 1..Len(js), js[k].drive = js[w].drive,
               js2[k].state = "Queued"
        PROVE  w < k
    <2>1. /\ w \in 1..Len(js) /\ locks[js[w].drive] = NoJob
          /\ \A l \in 1..(w - 1) : js[l].drive = js[w].drive => ~Contends(js, l)
          /\ Cardinality(Locked(locks)) + Cardinality(Before(w)) < max_parallel_drives
      BY <1>4 DEF Attempted
    <2>2. k \notin A /\ js[k].state = "Queued"
      BY <1>2, <1>5
    <2>3. k # w
      BY <1>4, <2>2
    <2>4. SUFFICES ASSUME k < w PROVE FALSE
      BY <1>1, <2>1, <2>3
    <2>5. \A l \in 1..(k - 1) : js[l].drive = js[k].drive => ~Contends(js, l)
      BY <1>1, <1>5, <2>1, <2>4
    <2>6. Cardinality(Before(k)) <= Cardinality(Before(w))
      <3>1. \A h \in Heirs(js, locks) : h \in Nat
        BY <1>1 DEF Heirs
      <3>2. Before(k) \subseteq Before(w)
        BY <1>1, <2>1, <2>4, <3>1
      <3>3. IsFiniteSet(Before(w))
        BY <2>1, HeirCount
      <3> HIDE DEF Before
      <3> QED
        BY <3>2, <3>3, FS_Subset
    <2>7. /\ Cardinality(Before(k)) \in Nat /\ Cardinality(Before(w)) \in Nat
          /\ Cardinality(Locked(locks)) \in Nat /\ max_parallel_drives \in Nat
      BY <2>1, HeirCount, LockedCount
    <2>8. Cardinality(Locked(locks)) + Cardinality(Before(k)) < max_parallel_drives
      <3> HIDE DEF Before
      <3> QED
        BY <2>1, <2>6, <2>7
    <2>9. k \in A
      BY <1>1, <1>5, <2>1, <2>2, <2>5, <2>8 DEF Attempted
    <2> QED
      BY <2>2, <2>9
  <1> HIDE DEF js2, locks2, W, A, Before
  <1>6. \A k \in 1..Len(js) : js2[k].state = "Queued" => js[k].state = "Queued"
    BY <1>2
  <1>7. \A d \in Drives : locks[d] # NoJob =>
           locks2[d] = locks[d] /\ \A k \in 1..Len(js) : js[k].drive = d => js2[k] = js[k]
    BY <1>2, <1>3, <1>4
  <1>8. ASSUME NEW d \in Drives, locks[d] = NoJob, locks2[d] # NoJob
        PROVE  \E w \in 1..Len(js) :
                  /\ locks2[d] = w /\ js[w].drive = d /\ js[w].state = "Queued"
                  /\ \A k \in 1..Len(js) : js[k].drive = d /\ js2[k].state = "Queued" => w < k
    <2>1. PICK w \in W : js[w].drive = d
      BY <1>3, <1>8
    <2> QED
      BY <1>3, <1>4, <1>5, <2>1
  <1> QED
    BY <1>6, <1>7, <1>8 DEF js2, locks2

\* The end of a job finishes its ticket and serves those that wait.
LEMMA EndJobFinishes ==
    ASSUME Consistent, Consistent', Served',
           NEW i \in 1..Len(jobs), jobs[i].state \in Active,
           NEW ended \in JobType, ended.drive = jobs[i].drive, ended.state \in Finished,
           EndJob(i, ended)
    PROVE  \E d \in Drives : Reservation!Finish(d)
  <1> DEFINE js    == [jobs EXCEPT ![i] = ended]
             locks == releaseLock(active_locks, i)
             d     == jobs[i].drive
  <1>1. locks \in [Drives -> Nat] /\ js \in Seq(JobType)
    BY EndingFits
  <1>2. /\ jobs \in Seq(JobType) /\ Len(js) = Len(jobs)
        /\ \A k \in 1..Len(jobs) : js[k] = IF k = i THEN ended ELSE jobs[k]
    BY UpdatedJobs DEF Consistent, TypeOK
  <1>3. d \in Drives
    <2>1. jobs[i] \in JobType
      BY <1>2, ElementOfSeq
    <2> QED
      BY <2>1 DEF JobType
  <1>4. active_locks[d] = i /\ active_locks[d] # NoJob /\ active_locks \in [Drives -> Nat]
    BY <1>2, <1>3, LenProperties DEF Consistent, TypeOK, LocksMatchJobs, Agree, NoJob
  <1>5. locks = [active_locks EXCEPT ![d] = NoJob]
    BY <1>4 DEF releaseLock
  <1>6. jobs' = startEligibleJobs(js, locks).jobs /\ active_locks' = startEligibleJobs(js, locks).locks
    BY DEF EndJob
  <1> HIDE DEF js, locks, d
  <1>7. /\ Len(jobs') = Len(js)
        /\ \A k \in 1..Len(js) : jobs'[k].drive = js[k].drive
    BY <1>1, <1>6, ServedJobs
  <1>8. \A e \in Drives : QueuedOn(e) = {k \in 1..Len(js) : js[k].drive = e /\ js[k].state = "Queued"}
    BY <1>2 DEF QueuedOn, Active, Finished
  <1>9. \A e \in Drives : QueuedOn(e)' = {k \in 1..Len(js) : js[k].drive = e /\ jobs'[k].state = "Queued"}
    BY <1>7 DEF QueuedOn
  <1>10. \A e \in Drives : QueuedOn(e)' \subseteq QueuedOn(e)
    BY <1>1, <1>6, <1>8, <1>9, ServingReserves
  <1>11. ASSUME NEW e \in Drives, locks[e] # NoJob
         PROVE  active_locks'[e] = locks[e] /\ QueuedOn(e)' = QueuedOn(e)
    <2>1. /\ active_locks'[e] = locks[e]
          /\ \A k \in 1..Len(js) : js[k].drive = e => jobs'[k] = js[k]
      BY <1>1, <1>6, <1>11, ServingReserves
    <2>2. {k \in 1..Len(js) : js[k].drive = e /\ jobs'[k].state = "Queued"}
             = {k \in 1..Len(js) : js[k].drive = e /\ js[k].state = "Queued"}
      BY <2>1
    <2> QED
      BY <1>8, <1>9, <2>1, <2>2, Zenon
  <1>12. ASSUME NEW e \in Drives, locks[e] = NoJob, active_locks'[e] # NoJob
         PROVE  active_locks'[e] \in QueuedOn(e) /\ \A t \in QueuedOn(e)' : active_locks'[e] < t
    <2>1. PICK w \in 1..Len(js) :
             /\ active_locks'[e] = w /\ js[w].drive = e /\ js[w].state = "Queued"
             /\ \A k \in 1..Len(js) : js[k].drive = e /\ jobs'[k].state = "Queued" => w < k
      BY <1>1, <1>6, <1>12, ServingReserves
    <2> QED
      BY <1>8, <1>9, <2>1
  <1>13. \A e \in Drives : QueuedOn(e)' # {} =>
            active_locks'[e] # NoJob \/ Cardinality(Locked(active_locks')) >= max_parallel_drives
    <2>1. \A e \in Drives : \A k \in QueuedOn(e)' :
             k \in 1..Len(jobs') /\ jobs'[k].drive = e /\ jobs'[k].state = "Queued"
      BY DEF QueuedOn
    <2> QED
      BY <2>1 DEF Served, NoIdleDrive, Locked, max_parallel_drives
  <1>14. Cardinality(Locked(active_locks')) <= max_parallel_drives
    BY DEF Served, SlotsRespected, Locked, max_parallel_drives
  <1>15. /\ Holder = active_locks /\ Holder' = active_locks'
         /\ \A e \in Drives : Waiting[e] = QueuedOn(e) /\ Waiting'[e] = QueuedOn(e)'
    BY MappedState, MappedNextState
  <1>16. /\ \A e \in Drives : e \in Locked(locks) <=> locks[e] # NoJob
         /\ \A e \in Drives : e \in Locked(active_locks') <=> active_locks'[e] # NoJob
         /\ Locked(locks) \subseteq Drives /\ Locked(active_locks') \subseteq Drives
    BY DEF Locked
  <1>17. \A S : Reservation!Cardinality(S) = Cardinality(S)
    BY DEF Reservation!Cardinality, Cardinality
  <1>18. Reservation!Serve(locks)
    BY <1>10, <1>11, <1>12, <1>13, <1>14, <1>15, <1>16, <1>17, HeldIsLocked
       DEF Reservation!Serve, Reservation!Nobody, NoJob
  <1>19. Len(jobs') = Len(jobs)
    BY <1>2, <1>7
  <1> QED
    BY <1>3, <1>4, <1>5, <1>15, <1>18, <1>19 DEF Reservation!Finish, Reservation!Nobody, NoJob

LEMMA ReservationStarts == Init => Reservation!Init
  <1> SUFFICES ASSUME Init PROVE Reservation!Init
    OBVIOUS
  <1>1. Len(jobs) = 0 /\ active_locks = [d \in Drives |-> NoJob]
    BY DEF Init
  <1>2. \A d \in Drives : QueuedOn(d) = {}
    BY <1>1 DEF QueuedOn
  <1>3. Waiting = [d \in Drives |-> {}]
    BY <1>2 DEF Waiting
  <1>4. Holder = active_locks
    BY InitIsConsistent, MappedState
  <1> QED
    BY <1>1, <1>3, <1>4 DEF Reservation!Init, Reservation!Nobody, NoJob

\* A call that changes one record, and neither its drive nor whether it is
\* queued, stutters.
LEMMA RecordStutters ==
    ASSUME Consistent, Consistent', UNCHANGED active_locks,
           NEW i \in 1..Len(jobs), NEW job \in JobType, job.drive = jobs[i].drive,
           job.state # "Queued", jobs[i].state # "Queued",
           jobs' = [jobs EXCEPT ![i] = job]
    PROVE  UNCHANGED Reservation!vars
  <1>1. /\ Len(jobs') = Len(jobs)
        /\ \A k \in 1..Len(jobs) : jobs'[k] = IF k = i THEN job ELSE jobs[k]
    BY UpdatedJobs DEF Consistent, TypeOK
  <1> QED
    BY <1>1, Stutters

\* Every step of the job manager is a step of DriveReservation, or changes
\* nothing that it sees.
LEMMA StepReserves ==
    ASSUME Consistent, Consistent', Served', [Next]_vars
    PROVE  [Reservation!Next]_(Reservation!vars)
  <1> DEFINE Goal == [Reservation!Next]_(Reservation!vars)
  <1>1. jobs \in Seq(JobType) /\ Len(jobs) \in Nat /\ DOMAIN jobs = 1..Len(jobs)
    BY LenProperties DEF Consistent, TypeOK
  <1>2. \A i \in 1..Len(jobs) : jobs[i] \in JobType
    BY <1>1, ElementOfSeq
  <1>3. ASSUME NEW i \in 1..Len(jobs), NEW s \in JobStates
        PROVE  /\ [jobs[i] EXCEPT !.state = s] \in JobType
               /\ [jobs[i] EXCEPT !.state = s].drive = jobs[i].drive
               /\ [jobs[i] EXCEPT !.state = s].state = s
               /\ [jobs EXCEPT ![i].state = s] = [jobs EXCEPT ![i] = [jobs[i] EXCEPT !.state = s]]
    BY <1>1, <1>2, StateChanges, StateOfJobChanges
  <1>4. ASSUME \E d \in Drives : Reservation!Finish(d)
        PROVE  Goal
    BY <1>4 DEF Reservation!Next
  <1>5. ASSUME UNCHANGED Reservation!vars
        PROVE  Goal
    BY <1>5
  <1>6. ASSUME NEW d \in Drives, NEW view \in Views, NEW op \in Operations, submit(d, view, op)
        PROVE  Goal
    BY <1>6, SubmitArrives DEF Reservation!Next
  <1>7. ASSUME NEW i \in 1..Len(jobs), cancelQueued(i)
        PROVE  Goal
    BY <1>7, CancelWithdraws DEF Reservation!Next
  <1> HIDE DEF Goal
  <1>8. ASSUME NEW i \in 1..Len(jobs), NEW p \in ReportedProgress, updateProgress(i, p)
        PROVE  Goal
    <2> DEFINE job == [jobs[i] EXCEPT !.progress = p]
    <2>1. /\ job \in JobType /\ job.drive = jobs[i].drive /\ job.state = jobs[i].state
          /\ jobs' = [jobs EXCEPT ![i] = job]
      BY <1>1, <1>2, <1>8 DEF updateProgress, JobType
    <2>2. jobs[i].state # "Queued" /\ UNCHANGED active_locks
      BY <1>8 DEF updateProgress, Active
    <2> HIDE DEF job
    <2> QED
      BY <1>5, <2>1, <2>2, RecordStutters
  <1>9. ASSUME NEW i \in 1..Len(jobs), complete(i)
        PROVE  Goal
    <2> DEFINE ended == [jobs[i] EXCEPT !.state = "Completed"]
               job   == [ended EXCEPT !.progress = 100]
    <2>1. /\ ended \in JobType /\ ended.drive = jobs[i].drive /\ ended.state = "Completed"
          /\ job = [jobs[i] EXCEPT !.state = "Completed", !.progress = 100]
      BY <1>2 DEF JobType, JobStates
    <2> HIDE DEF ended
    <2>2. job \in JobType /\ job.drive = jobs[i].drive /\ job.state = "Completed"
      BY <2>1 DEF JobType
    <2>3. jobs[i].state \in Active /\ EndJob(i, job)
      BY <1>9, <2>1 DEF complete
    <2> HIDE DEF job
    <2> QED
      BY <1>4, <2>2, <2>3, EndJobFinishes DEF Finished
  <1>10. ASSUME NEW i \in 1..Len(jobs), markFailed(i)
         PROVE  Goal
    <2>1. jobs[i].state \in Active
      BY <1>10 DEF markFailed, Consistent, Settled
    <2> QED
      BY <1>3, <1>4, <1>10, <2>1, EndJobFinishes DEF markFailed, Finished, JobStates
  <1>11. ASSUME NEW i \in 1..Len(jobs), cancelActive(i)
         PROVE  Goal
    BY <1>3, <1>4, <1>11, EndJobFinishes DEF cancelActive, Finished, JobStates
  <1>12. ASSUME NEW i \in 1..Len(jobs), pause(i)
         PROVE  Goal
    BY <1>3, <1>5, <1>12, RecordStutters DEF pause, JobStates
  <1>13. ASSUME NEW i \in 1..Len(jobs), resume(i)
         PROVE  Goal
    BY <1>3, <1>5, <1>13, RecordStutters DEF resume, JobStates
  <1>14. ASSUME UNCHANGED <<jobs, active_locks>>
         PROVE  Goal
    BY <1>5, <1>14, Stutters
  <1>15. ASSUME NEW d \in Drives, NEW observed \in HostObservations, ReplaceDrive(d, observed)
         PROVE  Goal
    BY <1>14, <1>15 DEF ReplaceDrive
  <1>16. ASSUME UNCHANGED vars
         PROVE  Goal
    BY <1>14, <1>16 DEF vars
  <1>17. Goal
    BY <1>1, <1>6, <1>7, <1>8, <1>9, <1>10, <1>11, <1>12, <1>13, <1>15, <1>16 DEF Next
  <1> QED
    BY <1>17 DEF Goal

\* The job manager implements DriveReservation, for any number of drives and
\* jobs: a drive goes to the jobs queued for it in submission order.
THEOREM ManagerReservesDrives == Spec => ReservesDrives
  <1>1. Init => Reservation!Init
    BY ReservationStarts
  <1>2. Consistent /\ Consistent' /\ Served' /\ [Next]_vars
           => [Reservation!Next]_(Reservation!vars)
    BY StepReserves
  <1> QED
    BY <1>1, <1>2, AlwaysConsistent, AlwaysServed, PTL DEF Spec, ReservesDrives, Reservation!Spec
=============================================================================
