-------------------------- MODULE JobManagerProofs --------------------------
(***************************************************************************)
(* Theorems about the job manager, for any set of drives, any operations,  *)
(* any limit and any number of jobs.                                       *)
(*                                                                         *)
(* Consistent is the inductive invariant: LocksMatchJobs speaks of records *)
(* and locks that have to have their types, and markFailed, which accepts  *)
(* a job that is Starting, keeps it only because no call ever leaves a job *)
(* in that state.                                                          *)
(***************************************************************************)
EXTENDS JobManager, TLAPS, SequenceTheorems, FiniteSetTheorems, WellFoundedInduction

Settled == \A i \in 1..Len(jobs) : jobs[i].state # "Starting"

Consistent == TypeOK /\ LocksMatchJobs /\ Settled

\* start() leaves a job failed, planned or running, never queued or starting.
LEMMA StartOutcomes ==
    ASSUME NEW job
    PROVE  StartOutcome(job) \in {"Failed", "Planned", "Running"}
  BY DEF StartOutcome

\* A job whose state or progress is changed is still a job, in the same place.
LEMMA UpdatedJobs ==
    ASSUME NEW js \in Seq(JobType), NEW i \in 1..Len(js), NEW job \in JobType
    PROVE  /\ [js EXCEPT ![i] = job] \in Seq(JobType)
           /\ Len([js EXCEPT ![i] = job]) = Len(js)
           /\ \A k \in 1..Len(js) :
                 [js EXCEPT ![i] = job][k] = IF k = i THEN job ELSE js[k]
  BY ExceptSeq

\* What changes when the state of a job does.
LEMMA StateChanges ==
    ASSUME NEW job \in JobType, NEW s \in JobStates
    PROVE  /\ [job EXCEPT !.state = s] \in JobType
           /\ [job EXCEPT !.state = s].drive = job.drive
           /\ [job EXCEPT !.state = s].op = job.op
           /\ [job EXCEPT !.state = s].state = s
  <1>1. job = [drive |-> job.drive, op |-> job.op, state |-> job.state, progress |-> job.progress]
    BY DEF JobType
  <1>2. [job EXCEPT !.state = s]
            = [drive |-> job.drive, op |-> job.op, state |-> s, progress |-> job.progress]
    BY <1>1
  <1>3. job.drive \in Drives /\ job.op \in Operations /\ job.progress \in 0..100
    BY DEF JobType
  <1> QED
    BY <1>2, <1>3 DEF JobType

LEMMA StateOfJobChanges ==
    ASSUME NEW js \in Seq(JobType), NEW i \in 1..Len(js), NEW s \in JobStates
    PROVE  [js EXCEPT ![i].state = s] = [js EXCEPT ![i] = [js[i] EXCEPT !.state = s]]
  OBVIOUS

\* The jobs startEligibleJobs starts to run: queued, on a free drive, and the
\* only one it starts on that drive.
LEMMA WinnersAreExclusive ==
    ASSUME NEW js \in Seq(JobType), NEW locks \in [Drives -> Nat]
    PROVE  /\ \A i \in Winners(js, locks) :
                 /\ i \in 1..Len(js)
                 /\ js[i].state = "Queued"
                 /\ StartOutcome(js[i]) = "Running"
                 /\ locks[js[i].drive] = NoJob
           /\ \A i, k \in Winners(js, locks) : js[i].drive = js[k].drive => i = k
  <1>1. DOMAIN js = 1..Len(js) /\ Len(js) \in Nat
    BY LenProperties
  <1>2. \A i \in Winners(js, locks) :
           /\ i \in 1..Len(js)
           /\ js[i].state = "Queued"
           /\ StartOutcome(js[i]) = "Running"
           /\ locks[js[i].drive] = NoJob
    BY <1>1 DEF Winners, Attempted
  <1>3. ASSUME NEW i \in Winners(js, locks), NEW k \in Winners(js, locks),
               js[i].drive = js[k].drive, k < i
        PROVE  FALSE
    <2>1. i \in 1..Len(js) /\ k \in 1..(i - 1)
      BY <1>1, <1>2, <1>3
    <2>2. Contends(js, k)
      BY <1>2 DEF Contends
    <2>3. ~Contends(js, k)
      BY <1>3, <2>1 DEF Winners, Attempted
    <2> QED
      BY <2>2, <2>3
  <1>4. \A i, k \in Winners(js, locks) : i \in Int /\ k \in Int
    BY <1>1, <1>2
  <1> QED
    BY <1>2, <1>3, <1>4

\* What startEligibleJobs does to one job: nothing, or its start.
LEMMA ServedJobs ==
    ASSUME NEW js \in Seq(JobType), NEW locks \in [Drives -> Nat]
    PROVE  LET after == startEligibleJobs(js, locks)
           IN  /\ after.jobs \in Seq(JobType)
               /\ Len(after.jobs) = Len(js)
               /\ \A i \in 1..Len(js) :
                     /\ after.jobs[i].drive = js[i].drive
                     /\ i \in Winners(js, locks) => after.jobs[i].state = "Running"
                     /\ i \notin Winners(js, locks) =>
                           \/ after.jobs[i] = js[i]
                           \/ /\ js[i].state = "Queued"
                              /\ after.jobs[i].state \in {"Failed", "Planned", "Queued"}
  <1> DEFINE after == startEligibleJobs(js, locks).jobs
             Then(i) == IF i \in Attempted(js, locks)
                        THEN [js[i] EXCEPT !.state = StartOutcome(js[i])] ELSE js[i]
  <1>1. DOMAIN js = 1..Len(js) /\ Len(js) \in Nat
    BY LenProperties
  <1>2. after = [i \in 1..Len(js) |-> Then(i)]
    BY <1>1 DEF startEligibleJobs
  <1>3. \A i \in 1..Len(js) : js[i] \in JobType
    BY ElementOfSeq
  <1>4. \A i \in 1..Len(js) : Then(i) \in JobType /\ Then(i).drive = js[i].drive
    <2>1. \A i \in 1..Len(js) : StartOutcome(js[i]) \in JobStates
      BY <1>3, StartOutcomes DEF JobStates
    <2> QED
      BY <1>3, <2>1, StateChanges
  <1>5. after \in Seq(JobType) /\ Len(after) = Len(js)
    <2>1. after \in [1..Len(js) -> JobType]
      BY <1>2, <1>4
    <2> QED
      BY <2>1, <1>1
  <1>6. \A i \in Attempted(js, locks) :
           /\ i \in 1..Len(js) /\ js[i].state = "Queued"
           /\ Then(i).state = StartOutcome(js[i])
    BY <1>1, <1>3 DEF Attempted, JobType
  <1>7. \A i \in 1..Len(js) : after[i] = Then(i)
    BY <1>2
  <1>8. ASSUME NEW i \in Winners(js, locks)
        PROVE  after[i].state = "Running"
    <2>1. i \in Attempted(js, locks) /\ i \in 1..Len(js)
      BY <1>6 DEF Winners
    <2>2. StartOutcome(js[i]) = "Running"
      BY WinnersAreExclusive
    <2> QED
      BY <1>6, <1>7, <2>1, <2>2
  <1>9. ASSUME NEW i \in 1..Len(js), i \notin Winners(js, locks), i \in Attempted(js, locks)
        PROVE  /\ js[i].state = "Queued"
               /\ after[i].state \in {"Failed", "Planned"}
    <2>1. js[i].state = "Queued" /\ after[i].state = StartOutcome(js[i])
      BY <1>6, <1>7, <1>9
    <2>2. StartOutcome(js[i]) # "Running"
      BY <1>9 DEF Winners
    <2> QED
      BY <2>1, <2>2, StartOutcomes
  <1>10. \A i \in 1..Len(js) : i \notin Attempted(js, locks) => after[i] = js[i]
    BY <1>7
  <1> HIDE DEF after
  <1> QED
    BY <1>4, <1>5, <1>7, <1>8, <1>9, <1>10 DEF after

\* startEligibleJobs gives the lock of each winner's drive to the winner.
LEMMA ServedLocks ==
    ASSUME NEW js \in Seq(JobType), NEW locks \in [Drives -> Nat]
    PROVE  LET after == startEligibleJobs(js, locks).locks
           IN  /\ after \in [Drives -> Nat]
               /\ \A i \in Winners(js, locks) : after[js[i].drive] = i
               /\ \A d \in Drives :
                     \/ \E i \in Winners(js, locks) : js[i].drive = d
                     \/ after[d] = locks[d]
  <1> DEFINE after == startEligibleJobs(js, locks).locks
             One(d) == CHOOSE i \in Winners(js, locks) : js[i].drive = d
  <1>1. Len(js) \in Nat /\ \A i \in 1..Len(js) : js[i].drive \in Drives
    <2>1. Len(js) \in Nat /\ \A i \in 1..Len(js) : js[i] \in JobType
      BY LenProperties, ElementOfSeq
    <2> QED
      BY <2>1 DEF JobType
  <1>2. \A i \in Winners(js, locks) : i \in 1..Len(js)
    BY WinnersAreExclusive
  <1>3. \A d \in Drives :
           after[d] = IF \E i \in Winners(js, locks) : js[i].drive = d
                      THEN One(d)
                      ELSE locks[d]
    BY DEF startEligibleJobs
  <1>4. DOMAIN after = Drives /\ after = [d \in Drives |-> after[d]]
    BY DEF startEligibleJobs
  <1>5. ASSUME NEW d \in Drives, NEW i \in Winners(js, locks), js[i].drive = d
        PROVE  after[d] = i
    <2>1. One(d) \in Winners(js, locks) /\ js[One(d)].drive = d
      BY <1>5, Zenon
    <2>2. after[d] = One(d)
      BY <1>3, <1>5, Zenon
    <2> HIDE DEF One
    <2> QED
      BY <1>5, <2>1, <2>2, WinnersAreExclusive
  <1>6. \A d \in Drives :
           \/ \E i \in Winners(js, locks) : js[i].drive = d
           \/ after[d] = locks[d]
    BY <1>3
  <1>7. ASSUME NEW d \in Drives
        PROVE  after[d] \in Nat
    <2>1. CASE \E i \in Winners(js, locks) : js[i].drive = d
      <3>1. after[d] \in Winners(js, locks)
        BY <1>5, <2>1
      <3> QED
        BY <1>1, <1>2, <3>1
    <2>2. CASE after[d] = locks[d]
      BY <2>2
    <2> QED
      BY <1>6, <2>1, <2>2
  <1> HIDE DEF after
  <1> QED
    BY <1>1, <1>2, <1>4, <1>5, <1>6, <1>7 DEF after

\* startEligibleJobs keeps the lock table and the job table in agreement.
LEMMA ServingAgrees ==
    ASSUME NEW js \in Seq(JobType), NEW locks \in [Drives -> Nat], Agree(js, locks)
    PROVE  Agree(startEligibleJobs(js, locks).jobs, startEligibleJobs(js, locks).locks)
  <1> DEFINE js2    == startEligibleJobs(js, locks).jobs
             locks2 == startEligibleJobs(js, locks).locks
             W      == Winners(js, locks)
  <1>1. Len(js) \in Nat /\ Len(js2) = Len(js)
    BY ServedJobs, LenProperties
  <1>2. /\ \A i \in W : i \in 1..Len(js) /\ js[i].state = "Queued"
                        /\ locks[js[i].drive] = NoJob
        /\ \A i, k \in W : js[i].drive = js[k].drive => i = k
    BY WinnersAreExclusive
  <1>3. \A i \in 1..Len(js) :
           /\ js2[i].drive = js[i].drive
           /\ i \in W => js2[i].state = "Running"
           /\ i \notin W => \/ js2[i] = js[i]
                            \/ /\ js[i].state = "Queued"
                               /\ js2[i].state \in {"Failed", "Planned", "Queued"}
    BY ServedJobs
  <1>4. /\ \A i \in W : locks2[js[i].drive] = i
        /\ \A d \in Drives : (\E i \in W : js[i].drive = d) \/ locks2[d] = locks[d]
    BY ServedLocks
  <1> HIDE DEF js2, locks2, W
  <1>5. ASSUME NEW d \in Drives
        PROVE  /\ locks2[d] \in 0..Len(js2)
               /\ \A i \in 1..Len(js2) :
                     locks2[d] = i <=> js2[i].drive = d /\ js2[i].state \in Active
    <2>1. CASE \E i \in W : js[i].drive = d
      <3>1. PICK w \in W : js[w].drive = d
        BY <2>1
      <3>2. locks2[d] = w /\ locks[d] = NoJob /\ w \in 1..Len(js)
        BY <1>2, <1>4, <3>1
      <3>3. js2[w].drive = d /\ js2[w].state = "Running"
        BY <1>3, <3>1, <3>2
      <3>4. ASSUME NEW i \in 1..Len(js), i # w, js[i].drive = d
            PROVE  js2[i].state \notin Active
        <4>1. i \notin W
          BY <1>2, <3>1, <3>4
        <4>2. js[i].state \notin Active
          BY <3>2, <3>4 DEF Agree, NoJob
        <4> QED
          BY <1>3, <3>4, <4>1, <4>2 DEF Active
      <3> QED
        BY <1>1, <1>3, <3>2, <3>3, <3>4 DEF Active
    <2>2. CASE ~\E i \in W : js[i].drive = d
      <3>1. locks2[d] = locks[d]
        BY <1>4, <2>2
      <3>2. \A i \in 1..Len(js) :
               js[i].drive = d => (js2[i].state \in Active <=> js[i].state \in Active)
        BY <1>3, <2>2 DEF Active
      <3> QED
        BY <1>1, <1>3, <3>1, <3>2 DEF Agree
    <2> QED
      BY <2>1, <2>2
  <1> QED
    BY <1>5 DEF Agree, js2, locks2

-----------------------------------------------------------------------------
\* A table of jobs and one of locks that agree, and in which no drive is idle.  They are
\* the manager's between two calls, and within a call whatever it has made of them.
Fits(js, locks) == js \in Seq(JobType) /\ locks \in [Drives -> Nat] /\ Agree(js, locks)

Busied(js, locks) ==
    /\ Cardinality(Locked(locks)) <= max_parallel_drives
    /\ \A i \in 1..Len(js) :
          js[i].state = "Queued" =>
             \/ locks[js[i].drive] # NoJob
             \/ Cardinality(Locked(locks)) >= max_parallel_drives

\* What releaseLock does.
Freed(js, locks, i) == [locks EXCEPT ![js[i].drive] = IF @ = i THEN NoJob ELSE @]

\* When an active job ends, releaseLock frees its drive and no other.
LEMMA Releasing ==
    ASSUME NEW js0, NEW locks0, Fits(js0, locks0),
           NEW i \in 1..Len(js0), js0[i].state \in Active,
           NEW ended \in JobType, ended.drive = js0[i].drive, ended.state \in Finished
    PROVE  Fits([js0 EXCEPT ![i] = ended], Freed(js0, locks0, i))
  <1> DEFINE js    == [js0 EXCEPT ![i] = ended]
             locks == Freed(js0, locks0, i)
  <1>1. js0 \in Seq(JobType) /\ locks0 \in [Drives -> Nat]
    BY DEF Fits
  <1>2. /\ js \in Seq(JobType) /\ Len(js) = Len(js0) /\ Len(js0) \in Nat
        /\ \A k \in 1..Len(js0) : js[k] = IF k = i THEN ended ELSE js0[k]
    BY <1>1, UpdatedJobs, LenProperties
  <1>3. js0[i].drive \in Drives
    <2>1. js0[i] \in JobType
      BY <1>1, ElementOfSeq
    <2> QED
      BY <2>1 DEF JobType
  <1>4. locks0[js0[i].drive] = i
    BY <1>3 DEF Fits, Agree
  <1>5. /\ locks \in [Drives -> Nat]
        /\ \A d \in Drives : locks[d] = IF d = js0[i].drive THEN NoJob ELSE locks0[d]
    BY <1>1, <1>3, <1>4 DEF Freed, NoJob
  <1> HIDE DEF js, locks
  <1>6. ASSUME NEW d \in Drives
        PROVE  /\ locks[d] \in 0..Len(js)
               /\ \A k \in 1..Len(js) :
                     locks[d] = k <=> js[k].drive = d /\ js[k].state \in Active
    <2>1. /\ locks0[d] \in 0..Len(js0)
          /\ \A k \in 1..Len(js0) :
                locks0[d] = k <=> js0[k].drive = d /\ js0[k].state \in Active
      BY DEF Fits, Agree
    <2>2. ended.state \notin Active
      BY DEF Active, Finished
    <2>3. CASE d = js0[i].drive
      BY <1>2, <1>4, <1>5, <2>1, <2>2, <2>3 DEF NoJob
    <2>4. CASE d # js0[i].drive
      BY <1>2, <1>5, <2>1, <2>2, <2>4
    <2> QED
      BY <2>3, <2>4
  <1> QED
    BY <1>2, <1>5, <1>6 DEF Fits, Agree, js, locks

\* The same of the manager's own tables.
LEMMA EndingFits ==
    ASSUME Consistent,
           NEW i \in 1..Len(jobs), jobs[i].state \in Active,
           NEW ended \in JobType, ended.drive = jobs[i].drive, ended.state \in Finished
    PROVE  /\ releaseLock(active_locks, i) = Freed(jobs, active_locks, i)
           /\ releaseLock(active_locks, i) \in [Drives -> Nat]
           /\ [jobs EXCEPT ![i] = ended] \in Seq(JobType)
           /\ Agree([jobs EXCEPT ![i] = ended], releaseLock(active_locks, i))
  <1> DEFINE js    == [jobs EXCEPT ![i] = ended]
             locks == releaseLock(active_locks, i)
  <1>1. Fits(jobs, active_locks) /\ locks = Freed(jobs, active_locks, i)
    BY DEF Consistent, TypeOK, LocksMatchJobs, Fits, releaseLock, Freed
  <1>2. Fits(js, Freed(jobs, active_locks, i))
    BY <1>1, Releasing
  <1> QED
    BY <1>1, <1>2 DEF Fits

\* complete, markFailed and cancel: whatever record the ended job is left with.
LEMMA EndJobIsConsistent ==
    ASSUME Consistent,
           NEW i \in 1..Len(jobs), jobs[i].state \in Active,
           NEW ended \in JobType, ended.drive = jobs[i].drive, ended.state \in Finished,
           EndJob(i, ended)
    PROVE  Consistent'
  <1> DEFINE js    == [jobs EXCEPT ![i] = ended]
             locks == releaseLock(active_locks, i)
             after == startEligibleJobs(js, locks)
  <1>1. locks \in [Drives -> Nat] /\ js \in Seq(JobType) /\ Agree(js, locks)
    BY EndingFits
  <1>2. /\ jobs' = after.jobs /\ active_locks' = after.locks
        /\ UNCHANGED <<mode, inventory>>
    BY DEF EndJob
  <1> HIDE DEF js, locks
  <1>3. jobs' \in Seq(JobType) /\ active_locks' \in [Drives -> Nat]
    BY <1>1, <1>2, ServedJobs, ServedLocks
  <1>4. Agree(after.jobs, after.locks)
    BY <1>1, ServingAgrees
  <1> HIDE DEF after
  <1>5. Agree(jobs', active_locks')
    BY <1>2, <1>4
  <1>6. LocksMatchJobs'
    BY <1>5 DEF LocksMatchJobs, Agree
  <1>7. Settled'
    <2>1. /\ Len(js) = Len(jobs) /\ Len(jobs) \in Nat
          /\ \A k \in 1..Len(jobs) : js[k] = IF k = i THEN ended ELSE jobs[k]
      BY UpdatedJobs, LenProperties DEF js, Consistent, TypeOK
    <2>2. \A k \in 1..Len(js) : js[k].state # "Starting"
      BY <2>1 DEF Consistent, Settled, Finished
    <2>3. /\ Len(jobs') = Len(js)
          /\ \A k \in 1..Len(js) : \/ jobs'[k].state \in {"Running", "Failed", "Planned", "Queued"}
                                   \/ jobs'[k] = js[k]
      BY <1>1, <1>2, ServedJobs DEF after
    <2> QED
      BY <2>2, <2>3 DEF Settled
  <1> QED
    BY <1>2, <1>3, <1>6, <1>7 DEF Consistent, TypeOK, JobType

\* A call that changes one record, no lock, and not whether the job is active.
LEMMA UpdateIsConsistent ==
    ASSUME Consistent,
           NEW i \in 1..Len(jobs), NEW job \in JobType, job.drive = jobs[i].drive,
           job.state \in Active <=> jobs[i].state \in Active, job.state # "Starting",
           jobs' = [jobs EXCEPT ![i] = job],
           UNCHANGED <<mode, inventory, active_locks>>
    PROVE  Consistent'
  <1>1. jobs \in Seq(JobType) /\ active_locks \in [Drives -> Nat]
    BY DEF Consistent, TypeOK
  <1>2. /\ jobs' \in Seq(JobType) /\ Len(jobs') = Len(jobs) /\ Len(jobs) \in Nat
        /\ \A k \in 1..Len(jobs) : jobs'[k] = IF k = i THEN job ELSE jobs[k]
    BY <1>1, UpdatedJobs, LenProperties
  <1>3. TypeOK'
    BY <1>2 DEF Consistent, TypeOK, JobType
  <1>4. LocksMatchJobs'
    BY <1>2 DEF Consistent, LocksMatchJobs, Agree
  <1>5. Settled'
    BY <1>2 DEF Consistent, Settled
  <1> QED
    BY <1>3, <1>4, <1>5 DEF Consistent

LEMMA SubmitIsConsistent ==
    ASSUME Consistent, NEW d \in Drives, NEW view \in Views, NEW op \in Operations,
           submit(d, view, op)
    PROVE  Consistent'
  <1> DEFINE Lands(job) ==
                /\ job \in JobType /\ job.drive = d /\ job.state # "Starting"
                /\ jobs' = Append(jobs, job)
                /\ UNCHANGED <<mode, inventory>>
  <1>1. jobs \in Seq(JobType) /\ active_locks \in [Drives -> Nat] /\ Len(jobs) \in Nat
    BY LenProperties DEF Consistent, TypeOK
  <1>2. \E job \in JobType :
           /\ Lands(job)
           /\ \/ job.state \notin Active /\ UNCHANGED active_locks
              \/ /\ job.state = "Running" /\ active_locks[d] = NoJob
                 /\ active_locks' = [active_locks EXCEPT ![d] = Len(jobs) + 1]
    <2> DEFINE state  == IF authorize(view, op.class, mode) = "PlannedOnly"
                         THEN "Planned" ELSE "Queued"
               record == [drive |-> d, op |-> op, progress |-> 0, state |-> state]
               start  == [record EXCEPT !.state = StartOutcome(record)]
    <2>1. record \in JobType /\ record.drive = d /\ record.state = state
      BY DEF JobType, JobStates
    <2>2. /\ start \in JobType /\ start.drive = d /\ start.state = StartOutcome(record)
          /\ start.state \in {"Failed", "Planned", "Running"}
      BY <2>1, StartOutcomes DEF JobType, JobStates
    <2>3. state \notin Active
      BY DEF Active
    <2>4. UNCHANGED <<mode, inventory>>
      BY DEF submit
    <2>5. CASE jobs' = Append(jobs, record) /\ UNCHANGED active_locks
      BY <2>1, <2>3, <2>4, <2>5
    <2>6. CASE /\ active_locks[d] = NoJob
               /\ jobs' = Append(jobs, start)
               /\ active_locks' = IF StartOutcome(record) = "Running"
                                  THEN [active_locks EXCEPT ![d] = Len(jobs) + 1]
                                  ELSE active_locks
      <3>1. CASE StartOutcome(record) = "Running"
        BY <2>2, <2>4, <2>6, <3>1
      <3>2. CASE StartOutcome(record) # "Running"
        BY <2>2, <2>4, <2>6, <3>2 DEF Active
      <3> QED
        BY <3>1, <3>2
    <2> QED
      BY <2>5, <2>6 DEF submit
  <1>3. PICK job \in JobType :
           /\ Lands(job)
           /\ \/ job.state \notin Active /\ UNCHANGED active_locks
              \/ /\ job.state = "Running" /\ active_locks[d] = NoJob
                 /\ active_locks' = [active_locks EXCEPT ![d] = Len(jobs) + 1]
    BY <1>2
  <1>4. /\ jobs' \in Seq(JobType) /\ Len(jobs') = Len(jobs) + 1
        /\ \A k \in 1..Len(jobs) : jobs'[k] = jobs[k]
        /\ jobs'[Len(jobs) + 1] = job
    BY <1>1, <1>3, AppendProperties
  <1>5. active_locks' \in [Drives -> Nat]
    BY <1>1, <1>3
  <1>6. ASSUME NEW e \in Drives
        PROVE  /\ active_locks'[e] \in 0..Len(jobs')
               /\ \A k \in 1..Len(jobs') :
                     active_locks'[e] = k <=> jobs'[k].drive = e /\ jobs'[k].state \in Active
    <2>1. /\ active_locks[e] \in 0..Len(jobs)
          /\ \A k \in 1..Len(jobs) :
                active_locks[e] = k <=> jobs[k].drive = e /\ jobs[k].state \in Active
      BY DEF Consistent, LocksMatchJobs, Agree
    <2>2. job.drive = d
      BY <1>3
    <2>3. CASE job.state \notin Active /\ UNCHANGED active_locks
      BY <1>1, <1>4, <2>1, <2>3
    <2>4. CASE /\ job.state = "Running" /\ active_locks[d] = NoJob
               /\ active_locks' = [active_locks EXCEPT ![d] = Len(jobs) + 1]
      <3>1. CASE e = d
        BY <1>1, <1>4, <2>1, <2>2, <2>4, <3>1 DEF NoJob, Active
      <3>2. CASE e # d
        BY <1>1, <1>4, <2>1, <2>2, <2>4, <3>2
      <3> QED
        BY <3>1, <3>2
    <2> QED
      BY <1>3, <2>3, <2>4
  <1> QED
    BY <1>1, <1>3, <1>4, <1>5, <1>6
       DEF Consistent, TypeOK, LocksMatchJobs, Settled, Agree, JobType

LEMMA NextIsConsistent ==
    ASSUME Consistent, [Next]_vars
    PROVE  Consistent'
  <1>1. jobs \in Seq(JobType) /\ Len(jobs) \in Nat /\ DOMAIN jobs = 1..Len(jobs)
    BY LenProperties DEF Consistent, TypeOK
  <1>2. \A i \in 1..Len(jobs) : jobs[i] \in JobType
    BY <1>1, ElementOfSeq
  <1>3. ASSUME NEW i \in 1..Len(jobs), NEW s \in JobStates
        PROVE  /\ [jobs[i] EXCEPT !.state = s] \in JobType
               /\ [jobs[i] EXCEPT !.state = s].drive = jobs[i].drive
               /\ [jobs[i] EXCEPT !.state = s].state = s
               /\ [jobs EXCEPT ![i].state = s] = [jobs EXCEPT ![i] = [jobs[i] EXCEPT !.state = s]]
    BY <1>1, <1>2, StateChanges, StateOfJobChanges
  <1>4. ASSUME NEW d \in Drives, NEW view \in Views, NEW op \in Operations, submit(d, view, op)
        PROVE  Consistent'
    BY <1>4, SubmitIsConsistent
  <1>5. ASSUME NEW i \in 1..Len(jobs), NEW p \in ReportedProgress, updateProgress(i, p)
        PROVE  Consistent'
    <2> DEFINE job == [jobs[i] EXCEPT !.progress = p]
    <2>1. /\ job \in JobType /\ job.drive = jobs[i].drive
          /\ job.state = jobs[i].state /\ job.state # "Starting"
          /\ jobs' = [jobs EXCEPT ![i] = job]
      BY <1>1, <1>2, <1>5 DEF updateProgress, JobType, Consistent, Settled
    <2> QED
      BY <1>5, <2>1, UpdateIsConsistent DEF updateProgress
  <1>6. ASSUME NEW i \in 1..Len(jobs), complete(i)
        PROVE  Consistent'
    <2> DEFINE ended == [jobs[i] EXCEPT !.state = "Completed"]
               job   == [ended EXCEPT !.progress = 100]
    <2>1. /\ ended \in JobType /\ ended.drive = jobs[i].drive /\ ended.state = "Completed"
          /\ job = [jobs[i] EXCEPT !.state = "Completed", !.progress = 100]
      BY <1>2 DEF JobType, JobStates
    <2> HIDE DEF ended
    <2>2. job \in JobType /\ job.drive = jobs[i].drive /\ job.state = "Completed"
      BY <2>1 DEF JobType
    <2>3. jobs[i].state \in Active /\ EndJob(i, job)
      BY <1>6, <2>1 DEF complete
    <2> HIDE DEF job
    <2> QED
      BY <2>2, <2>3, EndJobIsConsistent DEF Finished
  <1>7. ASSUME NEW i \in 1..Len(jobs), markFailed(i)
        PROVE  Consistent'
    <2>1. jobs[i].state \in Active
      BY <1>7 DEF markFailed, Consistent, Settled
    <2> QED
      BY <1>3, <1>7, <2>1, EndJobIsConsistent DEF markFailed, Finished, JobStates
  <1>8. ASSUME NEW i \in 1..Len(jobs), pause(i)
        PROVE  Consistent'
    BY <1>3, <1>8, UpdateIsConsistent DEF pause, Active, JobStates
  <1>9. ASSUME NEW i \in 1..Len(jobs), resume(i)
        PROVE  Consistent'
    BY <1>3, <1>9, UpdateIsConsistent DEF resume, Active, JobStates
  <1>10. ASSUME NEW i \in 1..Len(jobs), cancelQueued(i)
         PROVE  Consistent'
    BY <1>3, <1>10, UpdateIsConsistent DEF cancelQueued, Active, JobStates
  <1>11. ASSUME NEW i \in 1..Len(jobs), cancelActive(i)
         PROVE  Consistent'
    BY <1>3, <1>11, EndJobIsConsistent DEF cancelActive, Finished, JobStates
  <1>12. ASSUME NEW d \in Drives, NEW observed \in HostObservations, ReplaceDrive(d, observed)
         PROVE  Consistent'
    <2>1. inventory' \in [Drives -> Observations]
      BY <1>12, JobManagerAssumption DEF ReplaceDrive, Consistent, TypeOK
    <2> QED
      BY <1>12, <2>1
         DEF ReplaceDrive, Consistent, TypeOK, LocksMatchJobs, Settled, Agree, JobType
  <1>13. CASE UNCHANGED vars
    BY <1>13 DEF vars, Consistent, TypeOK, LocksMatchJobs, Settled, Agree, JobType
  <1> QED
    BY <1>1, <1>4, <1>5, <1>6, <1>7, <1>8, <1>9, <1>10, <1>11, <1>12, <1>13 DEF Next

LEMMA InitIsConsistent == Init => Consistent
  <1> SUFFICES ASSUME Init PROVE Consistent
    OBVIOUS
  <1>1. jobs = <<>> /\ jobs \in Seq(JobType) /\ Len(jobs) = 0
    BY DEF Init
  <1>2. inventory \in [Drives -> Observations]
    BY JobManagerAssumption DEF Init
  <1> QED
    BY <1>1, <1>2 DEF Init, Consistent, TypeOK, LocksMatchJobs, Settled, Agree, NoJob

\* The inductive invariant holds of every behaviour.
THEOREM AlwaysConsistent == Spec => []Consistent
  <1>1. Init => Consistent
    BY InitIsConsistent
  <1>2. Consistent /\ [Next]_vars => Consistent'
    BY NextIsConsistent
  <1> QED
    BY <1>1, <1>2, PTL DEF Spec

\* Every record and every lock keeps its type: TypeOK.
THEOREM TypeCorrect == Spec => []TypeOK
  <1>1. Consistent => TypeOK
    BY DEF Consistent
  <1> QED
    BY <1>1, AlwaysConsistent, PTL

\* The lock table and the job table agree, so two jobs are never active on one
\* physical drive and no lock outlives its job.
THEOREM LocksAlwaysMatchJobs == Spec => []LocksMatchJobs
  <1>1. Consistent => LocksMatchJobs
    BY DEF Consistent
  <1> QED
    BY <1>1, AlwaysConsistent, PTL

-----------------------------------------------------------------------------
\* A non-empty set of naturals has a least element.
LEMMA LeastElement ==
    ASSUME NEW T \in SUBSET Nat, T # {}
    PROVE  \E x \in T : \A y \in T : x <= y
  <1> DEFINE R == OpToRel(<, Nat)
  <1>1. IsWellFoundedOn(R, Nat)
    BY NatLessThanWellFounded
  <1>2. \A x, y \in Nat : <<x, y>> \in R <=> x < y
    BY DEF OpToRel
  <1> HIDE DEF R
  <1>3. PICK x \in T : \A y \in T : ~(<<y, x>> \in R)
    BY <1>1, WFMin
  <1>4. \A y \in T : y \in Nat /\ x \in Nat /\ ~(y < x)
    BY <1>2, <1>3
  <1>5. \A y \in T : x <= y
    BY <1>4
  <1> QED
    BY <1>5

LEMMA AtMostOne ==
    ASSUME NEW S, NEW x, S \subseteq {x}
    PROVE  Cardinality(S) <= 1
  <1>1. S = {} \/ S = {x}
    OBVIOUS
  <1>2. Cardinality({}) = 0 /\ Cardinality({x}) = 1
    BY FS_EmptySet, FS_Singleton
  <1> QED
    BY <1>1, <1>2

\* The limit is a positive number, and the drives that are locked can be counted.
LEMMA LockedCount ==
    ASSUME NEW locks
    PROVE  /\ IsFiniteSet(Locked(locks)) /\ Cardinality(Locked(locks)) \in Nat
           /\ max_parallel_drives \in Nat /\ max_parallel_drives >= 1
  <1>1. Locked(locks) \subseteq Drives
    BY DEF Locked
  <1>2. IsFiniteSet(Locked(locks))
    BY <1>1, FS_Subset, JobManagerAssumption
  <1>3. MaxParallelDrives \in Nat
    BY JobManagerAssumption
  <1> QED
    BY <1>2, <1>3, FS_CardinalityType DEF max_parallel_drives

\* The heirs before a job can be counted.
LEMMA HeirCount ==
    ASSUME NEW js \in Seq(JobType), NEW locks, NEW i \in 1..Len(js)
    PROVE  /\ IsFiniteSet({k \in Heirs(js, locks) : k < i})
           /\ Cardinality({k \in Heirs(js, locks) : k < i}) \in Nat
  <1>1. Len(js) \in Nat /\ DOMAIN js = 1..Len(js)
    BY LenProperties
  <1>2. Heirs(js, locks) \subseteq 1..Len(js)
    BY <1>1 DEF Heirs
  <1>3. IsFiniteSet(1..Len(js))
    BY <1>1, FS_Interval
  <1>4. IsFiniteSet({k \in Heirs(js, locks) : k < i})
    BY <1>2, <1>3, FS_Subset
  <1> QED
    BY <1>2, <1>4, FS_CardinalityType

\* A queued job that could run on a free drive has an heir of that drive before
\* it, or is one.
LEMMA ContendersHaveAnHeir ==
    ASSUME NEW js \in Seq(JobType), NEW locks, NEW i \in 1..Len(js),
           Contends(js, i), locks[js[i].drive] = NoJob
    PROVE  \E h \in Heirs(js, locks) : h <= i /\ js[h].drive = js[i].drive
  <1> DEFINE T == {k \in 1..Len(js) : Contends(js, k) /\ js[k].drive = js[i].drive}
  <1>1. Len(js) \in Nat /\ DOMAIN js = 1..Len(js)
    BY LenProperties
  <1>2. T \in SUBSET Nat /\ i \in T
    BY <1>1
  <1>3. PICK h \in T : \A k \in T : h <= k
    <2> HIDE DEF T
    <2> QED
      BY <1>2, LeastElement
  <1>4. h \in 1..Len(js) /\ Contends(js, h) /\ js[h].drive = js[i].drive /\ h <= i
    BY <1>2, <1>3
  <1>5. ASSUME NEW k \in 1..(h - 1), js[k].drive = js[h].drive, Contends(js, k)
        PROVE  FALSE
    <2>1. k \in 1..Len(js) /\ k < h
      BY <1>1, <1>4
    <2>2. k \in T
      BY <1>4, <1>5, <2>1
    <2> QED
      BY <1>3, <1>4, <2>1, <2>2
  <1>6. h \in Heirs(js, locks)
    BY <1>1, <1>4, <1>5 DEF Heirs
  <1> QED
    BY <1>4, <1>6

\* If at most one job takes a drive, serving the queue keeps the limit and
\* leaves no job waiting for a free drive and a free slot.
LEMMA ServingFillsTheSlots ==
    ASSUME NEW js \in Seq(JobType), NEW locks \in [Drives -> Nat],
           Cardinality(Locked(locks)) < max_parallel_drives,
           \A a, b \in Winners(js, locks) : a = b
    PROVE  LET after == startEligibleJobs(js, locks)
           IN  /\ Cardinality(Locked(after.locks)) <= max_parallel_drives
               /\ \A i \in 1..Len(js) :
                     after.jobs[i].state = "Queued" =>
                        \/ after.locks[js[i].drive] # NoJob
                        \/ Cardinality(Locked(after.locks)) >= max_parallel_drives
  <1> DEFINE js2       == startEligibleJobs(js, locks).jobs
             locks2    == startEligibleJobs(js, locks).locks
             W         == Winners(js, locks)
             H         == Heirs(js, locks)
             Before(i) == {k \in H : k < i}
             taken     == Cardinality(Locked(locks))
             max       == max_parallel_drives
  <1>1. taken \in Nat /\ max \in Nat /\ taken < max
    BY LockedCount
  <1>2. Len(js) \in Nat /\ DOMAIN js = 1..Len(js)
    BY LenProperties
  <1>3. \A i \in 1..Len(js) : js[i] \in JobType
    BY ElementOfSeq
  <1>4. \A i \in 1..Len(js) : js[i].drive \in Drives
    BY <1>3 DEF JobType
  <1>5. /\ \A h \in H : h \in 1..Len(js) /\ h \in Nat
        /\ \A i \in 1..Len(js) : Cardinality(Before(i)) \in Nat
    <2>1. \A h \in H : h \in 1..Len(js)
      BY <1>2 DEF Heirs
    <2>2. \A h \in H : h \in Nat
      BY <1>2, <2>1
    <2> QED
      BY <2>1, <2>2, HeirCount
  <1>6. /\ locks2 \in [Drives -> Nat]
        /\ \A i \in W : locks2[js[i].drive] = i
        /\ \A d \in Drives : (\E i \in W : js[i].drive = d) \/ locks2[d] = locks[d]
    BY ServedLocks
  <1>7. \A i \in W : i \in 1..Len(js) /\ locks[js[i].drive] = NoJob
    BY WinnersAreExclusive
  \* An heir for which a slot is left takes its drive.
  <1>8. \A i \in H : taken + Cardinality(Before(i)) < max => i \in W
    BY <1>2 DEF Winners, Attempted, Heirs, Contends
  \* A job that is still queued had no slot left for it, or an heir before it,
  \* or its drive was not free.
  <1>9. ASSUME NEW i \in 1..Len(js), js2[i].state = "Queued", locks[js[i].drive] = NoJob
        PROVE  \/ \E h \in H : js[h].drive = js[i].drive
               \/ taken + Cardinality(Before(i)) >= max
    <2>1. i \notin Attempted(js, locks) /\ js[i].state = "Queued"
      <3>1. js2[i] = IF i \in Attempted(js, locks)
                     THEN [js[i] EXCEPT !.state = StartOutcome(js[i])] ELSE js[i]
        BY <1>2 DEF startEligibleJobs
      <3>2. [js[i] EXCEPT !.state = StartOutcome(js[i])].state = StartOutcome(js[i])
        BY <1>3 DEF JobType
      <3> QED
        BY <1>9, <3>1, <3>2, StartOutcomes
    <2>2. CASE \E k \in 1..(i - 1) : js[k].drive = js[i].drive /\ Contends(js, k)
      <3>1. PICK k \in 1..(i - 1) : js[k].drive = js[i].drive /\ Contends(js, k)
        BY <2>2
      <3>2. k \in 1..Len(js) /\ locks[js[k].drive] = NoJob
        BY <1>2, <1>9, <3>1
      <3>3. \E h \in Heirs(js, locks) : h <= k /\ js[h].drive = js[k].drive
        BY <3>1, <3>2, ContendersHaveAnHeir, ZenonT(40)
      <3> QED
        BY <3>1, <3>3
    <2>3. CASE ~\E k \in 1..(i - 1) : js[k].drive = js[i].drive /\ Contends(js, k)
      <3>1. ~(taken + Cardinality(Before(i)) < max)
        BY <1>2, <1>9, <2>1, <2>3 DEF Attempted
      <3> QED
        BY <1>1, <1>5, <3>1
    <2> QED
      BY <2>2, <2>3
  <1> HIDE DEF js2, locks2, W, H, taken, max
  <1>10. ASSUME NEW T \in SUBSET H, T # {}
         PROVE  \E x \in T : \A y \in T : x <= y
    <2>1. T \in SUBSET Nat
      BY <1>5
    <2> QED
      BY <1>10, <2>1, LeastElement
  <1>11. CASE W = {}
    <2>1. H = {}
      <3>1. SUFFICES ASSUME H # {} PROVE FALSE
        OBVIOUS
      <3>2. PICK h \in H : \A y \in H : h <= y
        BY <1>10, <3>1
      <3>3. Before(h) = {}
        <4>1. \A y \in H : ~(y < h)
          BY <1>5, <3>2
        <4> QED
          BY <4>1
      <3>4. Cardinality(Before(h)) = 0
        BY <3>3, FS_EmptySet
      <3> QED
        BY <1>1, <1>8, <1>11, <3>4
    <2>2. \A d \in Drives : locks2[d] = locks[d]
      BY <1>6, <1>11
    <2>3. Locked(locks2) = Locked(locks)
      BY <2>2 DEF Locked
    <2>4. \A i \in 1..Len(js) : Cardinality(Before(i)) = 0
      BY <2>1, FS_EmptySet
    <2> QED
      BY <1>1, <1>4, <1>9, <2>1, <2>2, <2>3, <2>4 DEF js2, locks2, taken, max
  <1>12. CASE W # {}
    <2>1. PICK w \in W : W = {w}
      BY <1>12 DEF W
    <2>2. w \in 1..Len(js) /\ js[w].drive \in Drives /\ locks[js[w].drive] = NoJob
      BY <1>4, <1>7
    <2>3. locks2[js[w].drive] # NoJob
      BY <1>2, <1>6, <2>2 DEF NoJob
    <2>4. Locked(locks2) = Locked(locks) \cup {js[w].drive}
      BY <1>6, <2>1, <2>2, <2>3 DEF Locked
    <2>5. Cardinality(Locked(locks2)) = taken + 1
      <3>1. js[w].drive \notin Locked(locks) /\ IsFiniteSet(Locked(locks))
        BY <2>2, LockedCount DEF Locked
      <3> QED
        BY <2>4, <3>1, FS_AddElement DEF taken
    \* If a slot is left after w's, w is the only heir.
    <2>6. ASSUME taken + 1 < max
          PROVE  H \subseteq {w}
      <3>1. SUFFICES ASSUME H \ {w} # {} PROVE FALSE
        OBVIOUS
      <3>2. PICK h \in H \ {w} : \A y \in H \ {w} : h <= y
        BY <1>10, <3>1
      <3>3. h \in 1..Len(js) /\ Before(h) \subseteq {w}
        <4>1. \A y \in H \ {w} : ~(y < h)
          BY <1>5, <3>2
        <4> QED
          BY <1>5, <3>2, <4>1
      <3>4. Cardinality(Before(h)) <= 1
        BY <3>3, AtMostOne
      <3>5. taken + Cardinality(Before(h)) < max
        BY <1>1, <1>5, <2>6, <3>3, <3>4
      <3> QED
        BY <1>8, <2>1, <3>2, <3>5
    <2>7. ASSUME NEW i \in 1..Len(js), js2[i].state = "Queued", locks2[js[i].drive] = NoJob
          PROVE  taken + 1 >= max
      <3>1. SUFFICES ASSUME taken + 1 < max PROVE FALSE
        BY <1>1
      <3>2. H \subseteq {w}
        BY <2>6, <3>1
      <3>3. js[i].drive # js[w].drive /\ locks[js[i].drive] = NoJob
        BY <1>4, <1>6, <2>1, <2>3, <2>7
      <3>4. taken + Cardinality(Before(i)) >= max
        BY <1>9, <2>7, <3>2, <3>3
      <3>5. Before(i) \subseteq {w}
        BY <3>2
      <3>6. Cardinality(Before(i)) <= 1
        BY <3>5, AtMostOne
      <3> QED
        BY <1>1, <1>5, <3>1, <3>4, <3>6
    <2> QED
      BY <1>1, <2>5, <2>7 DEF js2, locks2, taken, max
  <1> QED
    BY <1>11, <1>12

Served == SlotsRespected /\ NoIdleDrive

\* An active job that ends gives up one drive and one slot, so at most one
\* queued job can follow it: a job of that drive if other slots were free
\* already, any one job if they were not.
LEMMA AtMostOneWinner ==
    ASSUME NEW js0, NEW locks0, Fits(js0, locks0), Busied(js0, locks0),
           NEW i \in 1..Len(js0), js0[i].state \in Active,
           NEW ended \in JobType, ended.drive = js0[i].drive, ended.state \in Finished
    PROVE  LET js    == [js0 EXCEPT ![i] = ended]
               locks == Freed(js0, locks0, i)
           IN  /\ Cardinality(Locked(locks)) < max_parallel_drives
               /\ \A a, b \in Winners(js, locks) : a = b
  <1> DEFINE js    == [js0 EXCEPT ![i] = ended]
             locks == Freed(js0, locks0, i)
             d     == js0[i].drive
             taken == Cardinality(Locked(locks))
             held  == Cardinality(Locked(locks0))
  <1>1. js0 \in Seq(JobType) /\ locks0 \in [Drives -> Nat] /\ Len(js0) \in Nat
    BY LenProperties DEF Fits
  <1>2. /\ js \in Seq(JobType) /\ Len(js) = Len(js0)
        /\ \A k \in 1..Len(js0) : js[k] = IF k = i THEN ended ELSE js0[k]
    BY <1>1, UpdatedJobs
  <1>3. d \in Drives
    <2>1. js0[i] \in JobType
      BY <1>1, ElementOfSeq
    <2> QED
      BY <2>1 DEF JobType
  <1>4. locks0[d] = i /\ locks0[d] # NoJob
    BY <1>1, <1>3 DEF Fits, Agree, NoJob
  <1>5. /\ locks \in [Drives -> Nat] /\ locks[d] = NoJob
        /\ \A e \in Drives : e # d => locks[e] = locks0[e]
    BY <1>1, <1>3, <1>4 DEF Freed, NoJob
  <1>6. d \in Locked(locks0) /\ Locked(locks) = Locked(locks0) \ {d}
    BY <1>3, <1>4, <1>5 DEF Locked
  <1>7. held = taken + 1 /\ taken \in Nat /\ held \in Nat
    <2>1. /\ IsFiniteSet(Locked(locks0)) /\ held \in Nat /\ taken \in Nat
      BY LockedCount
    <2>2. Cardinality(Locked(locks0) \ {d}) = held - 1
      <3>1. Cardinality(Locked(locks0) \ {d})
              = IF d \in Locked(locks0) THEN held - 1 ELSE held
        <4> HIDE DEF d
        <4> QED
          BY <2>1, FS_RemoveElement
      <3> QED
        BY <1>6, <3>1
    <2>3. taken = held - 1
      BY <1>6, <2>2
    <2> QED
      BY <2>1, <2>3
  <1>8. held <= max_parallel_drives /\ max_parallel_drives \in Nat
    BY LockedCount DEF Busied
  <1> HIDE DEF js, locks, d, taken, held
  <1>9. ASSUME NEW a \in Winners(js, locks), NEW b \in Winners(js, locks), a # b
        PROVE  FALSE
    <2>1. /\ a \in 1..Len(js) /\ b \in 1..Len(js) /\ js[a].drive # js[b].drive
          /\ js[a].state = "Queued" /\ js[b].state = "Queued"
          /\ locks[js[a].drive] = NoJob /\ locks[js[b].drive] = NoJob
      BY <1>2, <1>5, <1>9, WinnersAreExclusive
    <2>2. js0[a] = js[a] /\ js0[b] = js[b]
      BY <1>2, <2>1 DEF Finished
    <2>3. js[a].drive \in Drives /\ js[b].drive \in Drives
      <3>1. js[a] \in JobType /\ js[b] \in JobType
        BY <1>2, <2>1, ElementOfSeq
      <3> QED
        BY <3>1 DEF JobType
    <2>4. CASE held < max_parallel_drives
      <3>1. locks0[js[a].drive] # NoJob /\ locks0[js[b].drive] # NoJob
        BY <1>2, <1>7, <1>8, <2>1, <2>2, <2>4 DEF Busied, held
      <3> QED
        BY <1>5, <2>1, <2>3, <3>1
    <2>5. CASE held = max_parallel_drives
      <3>1. ASSUME NEW x \in Winners(js, locks), NEW y \in Winners(js, locks), x < y
            PROVE  FALSE
        <4>1. x \in Heirs(js, locks) /\ y \in 1..Len(js)
          <5>1. DOMAIN js = 1..Len(js)
            BY <1>2, LenProperties
          <5>2. x \in Heirs(js, locks)
            BY DEF Winners, Attempted, Heirs, Contends
          <5>3. y \in DOMAIN js
            BY DEF Winners, Attempted
          <5> QED
            BY <5>1, <5>2, <5>3
        <4>2. x \in {k \in Heirs(js, locks) : k < y}
          BY <3>1, <4>1
        <4>3. Cardinality({k \in Heirs(js, locks) : k < y}) # 0
          BY <1>2, <4>1, <4>2, HeirCount, FS_EmptySet
        <4>4. taken + Cardinality({k \in Heirs(js, locks) : k < y}) < max_parallel_drives
          BY DEF Winners, Attempted, taken
        <4>5. Cardinality({k \in Heirs(js, locks) : k < y}) \in Nat
          BY <1>2, <4>1, HeirCount
        <4> QED
          BY <1>7, <1>8, <2>5, <4>3, <4>4, <4>5
      <3>2. a \in Int /\ b \in Int
        BY <1>1, <1>2, <2>1
      <3> QED
        BY <1>9, <3>1, <3>2
    <2> QED
      BY <1>7, <1>8, <2>4, <2>5
  <1>10. taken < max_parallel_drives /\ \A a, b \in Winners(js, locks) : a = b
    BY <1>7, <1>8, <1>9
  <1> QED
    BY <1>10 DEF js, locks, taken

LEMMA EndJobIsServed ==
    ASSUME Consistent, Served,
           NEW i \in 1..Len(jobs), jobs[i].state \in Active,
           NEW ended \in JobType, ended.drive = jobs[i].drive, ended.state \in Finished,
           EndJob(i, ended)
    PROVE  Served'
  <1> DEFINE js    == [jobs EXCEPT ![i] = ended]
             locks == releaseLock(active_locks, i)
             after == startEligibleJobs(js, locks)
  <1>0. /\ Fits(jobs, active_locks) /\ Busied(jobs, active_locks)
        /\ locks = Freed(jobs, active_locks, i)
    BY DEF Consistent, TypeOK, LocksMatchJobs, Served, SlotsRespected, NoIdleDrive,
           Fits, Busied, releaseLock, Freed
  <1>1. locks \in [Drives -> Nat] /\ js \in Seq(JobType)
    BY EndingFits
  <1>2. /\ Cardinality(Locked(locks)) < max_parallel_drives
        /\ \A a, b \in Winners(js, locks) : a = b
    BY <1>0, AtMostOneWinner
  <1>3. jobs' = after.jobs /\ active_locks' = after.locks
    BY DEF EndJob
  <1> HIDE DEF js, locks
  <1>4. /\ Cardinality(Locked(after.locks)) <= max_parallel_drives
        /\ \A k \in 1..Len(js) :
              after.jobs[k].state = "Queued" =>
                 \/ after.locks[js[k].drive] # NoJob
                 \/ Cardinality(Locked(after.locks)) >= max_parallel_drives
    BY <1>1, <1>2, ServingFillsTheSlots
  <1>5. /\ Len(after.jobs) = Len(js)
        /\ \A k \in 1..Len(js) : after.jobs[k].drive = js[k].drive
    BY <1>1, ServedJobs
  <1> HIDE DEF after
  <1>6. Locked(active_locks)' = Locked(after.locks)
    BY <1>3 DEF Locked
  <1> QED
    BY <1>3, <1>4, <1>5, <1>6 DEF Served, SlotsRespected, NoIdleDrive, Locked, max_parallel_drives

\* A change of jobs' records that queues none and touches no lock.
LEMMA UpdateIsServed ==
    ASSUME Served, UNCHANGED active_locks, Len(jobs') = Len(jobs),
           \A k \in 1..Len(jobs) :
              /\ jobs'[k].drive = jobs[k].drive
              /\ jobs'[k].state = "Queued" => jobs[k].state = "Queued"
    PROVE  Served'
  <1>1. Locked(active_locks)' = Locked(active_locks)
    BY DEF Locked
  <1> QED
    BY <1>1 DEF Served, SlotsRespected, NoIdleDrive, max_parallel_drives

LEMMA SubmitIsServed ==
    ASSUME Consistent, Served, NEW d \in Drives, NEW view \in Views, NEW op \in Operations,
           submit(d, view, op)
    PROVE  Served'
  <1> DEFINE state    == IF authorize(view, op.class, mode) = "PlannedOnly"
                         THEN "Planned" ELSE "Queued"
             record   == [drive |-> d, op |-> op, progress |-> 0, state |-> state]
             start    == [record EXCEPT !.state = StartOutcome(record)]
             held     == Cardinality(Locked(active_locks))
             mustWait == active_locks[d] # NoJob \/ held >= max_parallel_drives
  <1>1. jobs \in Seq(JobType) /\ active_locks \in [Drives -> Nat] /\ Len(jobs) \in Nat
    BY LenProperties DEF Consistent, TypeOK
  <1>2. held \in Nat /\ max_parallel_drives \in Nat
    BY LockedCount
  <1>3. record \in JobType /\ record.drive = d /\ record.state = state
    BY DEF JobType, JobStates
  <1>4. start \in JobType /\ start.drive = d /\ start.state # "Queued"
    BY <1>3, StartOutcomes DEF JobType, JobStates
  <1>5. max_parallel_drives' = max_parallel_drives
    BY DEF max_parallel_drives
  <1>6. CASE /\ jobs' = Append(jobs, record) /\ UNCHANGED active_locks
             /\ state = "Planned" \/ mustWait
    <2>1. /\ Len(jobs') = Len(jobs) + 1 /\ jobs'[Len(jobs) + 1] = record
          /\ \A k \in 1..Len(jobs) : jobs'[k] = jobs[k]
      BY <1>1, <1>3, <1>6, AppendProperties
    <2>2. Locked(active_locks)' = Locked(active_locks)
      BY <1>6 DEF Locked
    <2>3. \A k \in 1..Len(jobs') : k \in 1..Len(jobs) \/ k = Len(jobs) + 1
      BY <1>1, <2>1
    <2>4. state = "Queued" => mustWait
      BY <1>6
    <2> HIDE DEF record, state
    <2> QED
      BY <1>3, <1>5, <1>6, <2>1, <2>2, <2>3, <2>4 DEF Served, SlotsRespected, NoIdleDrive
  <1>7. ASSUME jobs' = Append(jobs, start),
               \/ UNCHANGED active_locks
               \/ /\ ~mustWait
                  /\ active_locks' = [active_locks EXCEPT ![d] = Len(jobs) + 1]
        PROVE  Served'
    <2>1. /\ Len(jobs') = Len(jobs) + 1 /\ jobs'[Len(jobs) + 1] = start
          /\ \A k \in 1..Len(jobs) : jobs'[k] = jobs[k]
      BY <1>1, <1>4, <1>7, AppendProperties
    <2>2. \A k \in 1..Len(jobs') : k \in 1..Len(jobs) \/ k = Len(jobs) + 1
      BY <1>1, <2>1
    <2>3. \A k \in 1..Len(jobs') :
             jobs'[k].state = "Queued" => k \in 1..Len(jobs) /\ jobs'[k] = jobs[k]
      BY <1>4, <2>1, <2>2
    <2>4. CASE UNCHANGED active_locks
      <3>1. Locked(active_locks)' = Locked(active_locks)
        BY <2>4 DEF Locked
      <3> QED
        BY <1>5, <2>3, <2>4, <3>1 DEF Served, SlotsRespected, NoIdleDrive
    <2>5. CASE /\ ~mustWait
               /\ active_locks' = [active_locks EXCEPT ![d] = Len(jobs) + 1]
      <3>1. \A e \in Drives : active_locks'[e] = IF e = d THEN Len(jobs) + 1 ELSE active_locks[e]
        BY <1>1, <2>5
      <3>2. Locked(active_locks)' = Locked(active_locks) \cup {d}
        BY <1>1, <3>1 DEF Locked, NoJob
      <3>3. d \notin Locked(active_locks) /\ IsFiniteSet(Locked(active_locks))
        BY <2>5, LockedCount DEF Locked
      <3>4. Cardinality(Locked(active_locks))' = held + 1
        BY <3>2, <3>3, FS_AddElement
      <3>5. Cardinality(Locked(active_locks))' <= max_parallel_drives
        BY <1>2, <2>5, <3>4
      <3>6. \A k \in 1..Len(jobs') :
               jobs'[k].state = "Queued" => active_locks'[jobs'[k].drive] # NoJob
        <4>1. \A k \in 1..Len(jobs) : jobs[k].drive \in Drives
          <5>1. \A k \in 1..Len(jobs) : jobs[k] \in JobType
            BY <1>1, ElementOfSeq
          <5> QED
            BY <5>1 DEF JobType
        <4>2. \A k \in 1..Len(jobs) : jobs[k].state = "Queued" => active_locks[jobs[k].drive] # NoJob
          BY <1>2, <2>5 DEF Served, NoIdleDrive
        <4> QED
          BY <1>1, <2>3, <3>1, <4>1, <4>2 DEF NoJob
      <3> QED
        BY <1>5, <3>5, <3>6 DEF Served, SlotsRespected, NoIdleDrive
    <2> QED
      BY <1>7, <2>4, <2>5
  <1> QED
    BY <1>6, <1>7 DEF submit

LEMMA NextIsServed ==
    ASSUME Consistent, Served, [Next]_vars
    PROVE  Served'
  <1>1. jobs \in Seq(JobType) /\ Len(jobs) \in Nat /\ DOMAIN jobs = 1..Len(jobs)
    BY LenProperties DEF Consistent, TypeOK
  <1>2. \A i \in 1..Len(jobs) : jobs[i] \in JobType
    BY <1>1, ElementOfSeq
  <1>3. ASSUME NEW i \in 1..Len(jobs), NEW s \in JobStates
        PROVE  /\ [jobs[i] EXCEPT !.state = s] \in JobType
               /\ [jobs[i] EXCEPT !.state = s].drive = jobs[i].drive
               /\ [jobs[i] EXCEPT !.state = s].state = s
               /\ [jobs EXCEPT ![i].state = s] = [jobs EXCEPT ![i] = [jobs[i] EXCEPT !.state = s]]
    BY <1>1, <1>2, StateChanges, StateOfJobChanges
  <1>4. ASSUME NEW i \in 1..Len(jobs), NEW job \in JobType, job.drive = jobs[i].drive,
               job.state # "Queued", jobs' = [jobs EXCEPT ![i] = job], UNCHANGED active_locks
        PROVE  Served'
    <2>1. /\ Len(jobs') = Len(jobs)
          /\ \A k \in 1..Len(jobs) : jobs'[k] = IF k = i THEN job ELSE jobs[k]
      BY <1>1, <1>4, UpdatedJobs
    <2> QED
      BY <1>4, <2>1, UpdateIsServed
  <1>5. ASSUME NEW d \in Drives, NEW view \in Views, NEW op \in Operations, submit(d, view, op)
        PROVE  Served'
    BY <1>5, SubmitIsServed
  <1>6. ASSUME NEW i \in 1..Len(jobs), NEW p \in ReportedProgress, updateProgress(i, p)
        PROVE  Served'
    <2> DEFINE job == [jobs[i] EXCEPT !.progress = p]
    <2>1. /\ job \in JobType /\ job.drive = jobs[i].drive
          /\ job.state = jobs[i].state /\ job.state # "Queued"
          /\ jobs' = [jobs EXCEPT ![i] = job]
      BY <1>1, <1>2, <1>6 DEF updateProgress, JobType, Active
    <2> QED
      BY <1>4, <1>6, <2>1 DEF updateProgress
  <1>7. ASSUME NEW i \in 1..Len(jobs), complete(i)
        PROVE  Served'
    <2> DEFINE ended == [jobs[i] EXCEPT !.state = "Completed"]
               job   == [ended EXCEPT !.progress = 100]
    <2>1. /\ ended \in JobType /\ ended.drive = jobs[i].drive /\ ended.state = "Completed"
          /\ job = [jobs[i] EXCEPT !.state = "Completed", !.progress = 100]
      BY <1>2 DEF JobType, JobStates
    <2> HIDE DEF ended
    <2>2. job \in JobType /\ job.drive = jobs[i].drive /\ job.state = "Completed"
      BY <2>1 DEF JobType
    <2>3. jobs[i].state \in Active /\ EndJob(i, job)
      BY <1>7, <2>1 DEF complete
    <2> HIDE DEF job
    <2> QED
      BY <2>2, <2>3, EndJobIsServed DEF Finished
  <1>8. ASSUME NEW i \in 1..Len(jobs), markFailed(i)
        PROVE  Served'
    <2>1. jobs[i].state \in Active
      BY <1>8 DEF markFailed, Consistent, Settled
    <2> QED
      BY <1>3, <1>8, <2>1, EndJobIsServed DEF markFailed, Finished, JobStates
  <1>9. ASSUME NEW i \in 1..Len(jobs), pause(i)
        PROVE  Served'
    BY <1>3, <1>4, <1>9 DEF pause, JobStates
  <1>10. ASSUME NEW i \in 1..Len(jobs), resume(i)
         PROVE  Served'
    BY <1>3, <1>4, <1>10 DEF resume, JobStates
  <1>11. ASSUME NEW i \in 1..Len(jobs), cancelQueued(i)
         PROVE  Served'
    BY <1>3, <1>4, <1>11 DEF cancelQueued, JobStates
  <1>12. ASSUME NEW i \in 1..Len(jobs), cancelActive(i)
         PROVE  Served'
    BY <1>3, <1>12, EndJobIsServed DEF cancelActive, Finished, JobStates
  <1>13. CASE UNCHANGED <<jobs, active_locks>>
    BY <1>13, UpdateIsServed
  <1>14. ASSUME NEW d \in Drives, NEW observed \in HostObservations, ReplaceDrive(d, observed)
         PROVE  Served'
    BY <1>13, <1>14 DEF ReplaceDrive
  <1>15. CASE UNCHANGED vars
    BY <1>13, <1>15 DEF vars
  <1> QED
    BY <1>1, <1>5, <1>6, <1>7, <1>8, <1>9, <1>10, <1>11, <1>12, <1>14, <1>15 DEF Next

LEMMA InitIsServed == Init => Served
  <1> SUFFICES ASSUME Init PROVE Served
    OBVIOUS
  <1>1. Len(jobs) = 0
    BY DEF Init
  <1>2. Locked(active_locks) = {}
    BY DEF Init, Locked
  <1>3. Cardinality(Locked(active_locks)) = 0
    BY <1>2, FS_EmptySet
  <1> QED
    BY <1>1, <1>3, LockedCount DEF Served, SlotsRespected, NoIdleDrive

\* The limit holds and no drive is left idle, together with the consistency
\* they rest on.
THEOREM AlwaysServed == Spec => []Served
  <1>1. Init => Served
    BY InitIsServed
  <1>2. Consistent /\ Served /\ [Next]_vars => Served'
    BY NextIsServed
  <1> QED
    BY <1>1, <1>2, AlwaysConsistent, PTL DEF Spec

\* However many drives and jobs there are, no more than max_parallel_drives
\* drives are ever locked.
THEOREM SlotsAlwaysRespected == Spec => []SlotsRespected
  <1>1. Served => SlotsRespected
    BY DEF Served
  <1> QED
    BY <1>1, AlwaysServed, PTL

\* Between two calls a job is queued only for a locked drive or a taken slot.
THEOREM NoDriveIsIdle == Spec => []NoIdleDrive
  <1>1. Served => NoIdleDrive
    BY DEF Served
  <1> QED
    BY <1>1, AlwaysServed, PTL

-----------------------------------------------------------------------------
(* Recursion and induction up to a number. *)

LEMMA UpTo ==
    ASSUME NEW n \in Nat, NEW T, 0 \in T,
           \A m \in 0..(n - 1) : m \in T => m + 1 \in T
    PROVE  \A m \in 0..n : m \in T
  <1> DEFINE Left == {m \in 0..n : m \notin T}
  <1>1. SUFFICES ASSUME Left # {} PROVE FALSE
    OBVIOUS
  <1>2. Left \in SUBSET Nat
    OBVIOUS
  <1> HIDE DEF Left
  <1>3. PICK x \in Left : \A y \in Left : x <= y
    BY <1>1, <1>2, LeastElement
  <1>4. x \in 0..n /\ x \notin T
    BY <1>3 DEF Left
  <1>5. x # 0
    BY <1>4
  <1>6. x - 1 \in 0..(n - 1) /\ x - 1 \in 0..n /\ x - 1 + 1 = x /\ ~(x <= x - 1)
    BY <1>4, <1>5
  <1>7. x - 1 \in T
    BY <1>3, <1>6 DEF Left
  <1> QED
    BY <1>4, <1>6, <1>7

\* What can be done to a member of S in its n steps, and what a run of the steps is.
Steppings(S, n) == [(S \X (1..n)) -> S]

StepsOf(F, base, n, S) ==
    {g \in [0..n -> S] : g[0] = base /\ \A k \in 1..n : g[k] = F[<<g[k - 1], k>>]}

LEMMA Recursion ==
    ASSUME NEW S, NEW base \in S, NEW n \in Nat, NEW F \in Steppings(S, n)
    PROVE  \E g : g \in StepsOf(F, base, n, S)
  <1> DEFINE Follows(g, m) == g[0] = base /\ \A k \in 1..m : g[k] = F[<<g[k - 1], k>>]
             T == {m \in 0..n : \E g \in [0..m -> S] : Follows(g, m)}
  <1>0. F \in [(S \X (1..n)) -> S]
    BY DEF Steppings
  <1>1. 0 \in T
    <2> DEFINE h == [k \in 0..0 |-> base]
    <2>1. h \in [0..0 -> S] /\ h[0] = base /\ 0 \in 0..n
      OBVIOUS
    <2>2. \A k \in 1..0 : FALSE
      OBVIOUS
    <2> HIDE DEF h
    <2> QED
      BY <2>1, <2>2
  <1>2. ASSUME NEW m \in 0..(n - 1), m \in T PROVE m + 1 \in T
    <2>1. PICK g \in [0..m -> S] : Follows(g, m)
      BY <1>2
    <2> DEFINE h == [k \in 0..(m + 1) |-> IF k = m + 1 THEN F[<<g[m], m + 1>>] ELSE g[k]]
    <2>2. m + 1 \in 1..n /\ m + 1 \in 0..n /\ m \in 0..m /\ g[m] \in S
      OBVIOUS
    <2>3. F[<<g[m], m + 1>>] \in S
      BY <1>0, <2>2
    <2>4. h \in [0..(m + 1) -> S]
      BY <2>1, <2>3
    <2>5. h[0] = base
      BY <2>1
    <2>6. \A k \in 1..(m + 1) : h[k] = F[<<h[k - 1], k>>]
      <3>1. ASSUME NEW k \in 1..(m + 1) PROVE h[k] = F[<<h[k - 1], k>>]
        <4>1. k - 1 \in 0..(m + 1) /\ k - 1 # m + 1 /\ h[k - 1] = g[k - 1]
          OBVIOUS
        <4>2. CASE k = m + 1
          <5>1. k - 1 = m /\ h[k] = F[<<g[m], m + 1>>]
            BY <4>2
          <5> QED
            BY <4>1, <4>2, <5>1
        <4>3. CASE k # m + 1
          <5>1. k \in 1..m /\ h[k] = g[k]
            BY <4>3
          <5> QED
            BY <2>1, <4>1, <5>1
        <4> QED
          BY <4>2, <4>3
      <3> QED
        BY <3>1
    <2> QED
      BY <2>2, <2>4, <2>5, <2>6
  <1> HIDE DEF T
  <1>3. n \in T
    BY <1>1, <1>2, UpTo
  <1> QED
    BY <1>3 DEF T, StepsOf

-----------------------------------------------------------------------------
(* The loop.  A turn of it changes nothing that startEligibleJobs would do of *)
(* the rest, and when no turn is left startEligibleJobs would do nothing.     *)

\* The jobs and the locks after job i has been started.
AfterStart(js, i) == [js EXCEPT ![i].state = StartOutcome(js[i])]

Taken(js, locks, i) ==
    IF StartOutcome(js[i]) = "Running" THEN [locks EXCEPT ![js[i].drive] = i] ELSE locks

First(i, S) == i \in S /\ \A k \in S : i <= k

LEMMA StartedJobs ==
    ASSUME NEW js \in Seq(JobType), NEW i \in 1..Len(js)
    PROVE  /\ AfterStart(js, i) \in Seq(JobType) /\ Len(AfterStart(js, i)) = Len(js)
           /\ AfterStart(js, i)[i] = [js[i] EXCEPT !.state = StartOutcome(js[i])]
           /\ AfterStart(js, i)[i].state = StartOutcome(js[i])
           /\ \A k \in 1..Len(js) :
                 /\ AfterStart(js, i)[k].drive = js[k].drive
                 /\ StartOutcome(AfterStart(js, i)[k]) = StartOutcome(js[k])
                 /\ k # i => AfterStart(js, i)[k] = js[k]
  <1> DEFINE job == [js[i] EXCEPT !.state = StartOutcome(js[i])]
  <1>1. js[i] \in JobType
    BY ElementOfSeq
  <1>2. StartOutcome(js[i]) \in JobStates
    BY StartOutcomes DEF JobStates
  <1>3. job \in JobType /\ job.drive = js[i].drive /\ job.op = js[i].op
        /\ job.state = StartOutcome(js[i])
    BY <1>1, <1>2, StateChanges
  <1>4. StartOutcome(job) = StartOutcome(js[i])
    <2> HIDE DEF job
    <2> QED
      BY <1>3 DEF StartOutcome
  <1>5. AfterStart(js, i) = [js EXCEPT ![i] = job]
    BY <1>2, StateOfJobChanges DEF AfterStart
  <1> HIDE DEF job
  <1>6. /\ AfterStart(js, i) \in Seq(JobType) /\ Len(AfterStart(js, i)) = Len(js)
        /\ \A k \in 1..Len(js) : AfterStart(js, i)[k] = IF k = i THEN job ELSE js[k]
    BY <1>3, <1>5, UpdatedJobs
  <1>7. AfterStart(js, i)[i] = job
    BY <1>6
  <1>8. ASSUME NEW k \in 1..Len(js)
        PROVE  /\ AfterStart(js, i)[k].drive = js[k].drive
               /\ StartOutcome(AfterStart(js, i)[k]) = StartOutcome(js[k])
               /\ k # i => AfterStart(js, i)[k] = js[k]
    <2>1. CASE k = i
      BY <1>3, <1>4, <1>7, <2>1
    <2>2. CASE k # i
      <3>1. AfterStart(js, i)[k] = js[k]
        BY <1>6, <2>2
      <3> QED
        BY <2>2, <3>1
    <2> QED
      BY <2>1, <2>2
  <1> QED
    BY <1>3, <1>6, <1>7, <1>8 DEF job

LEMMA TakenLocks ==
    ASSUME NEW js \in Seq(JobType), NEW locks \in [Drives -> Nat], NEW i \in 1..Len(js)
    PROVE  /\ Taken(js, locks, i) \in [Drives -> Nat]
           /\ js[i].drive \in Drives
           /\ \A d \in Drives :
                 Taken(js, locks, i)[d] =
                    IF StartOutcome(js[i]) = "Running" /\ d = js[i].drive THEN i ELSE locks[d]
           /\ i # NoJob /\ i \in Nat
  <1>1. js[i] \in JobType
    BY ElementOfSeq
  <1>2. js[i].drive \in Drives
    BY <1>1 DEF JobType
  <1>3. i \in Nat /\ i # NoJob
    <2>1. Len(js) \in Nat
      BY LenProperties
    <2> QED
      BY <2>1 DEF NoJob
  <1> QED
    BY <1>2, <1>3 DEF Taken

\* Once the first startable job is started it contends for nothing more, and
\* the other jobs contend as they did.
LEMMA ContendersAfterStart ==
    ASSUME NEW js \in Seq(JobType), NEW i \in 1..Len(js), NEW k \in 1..Len(js)
    PROVE  Contends(AfterStart(js, i), k) <=> Contends(js, k) /\ k # i
  <1>1. CASE k = i
    <2>1. AfterStart(js, i)[k].state = StartOutcome(js[i])
      BY <1>1, StartedJobs
    <2>2. AfterStart(js, i)[k].state # "Queued"
      BY <2>1, StartOutcomes
    <2> QED
      BY <1>1, <2>2 DEF Contends
  <1>2. CASE k # i
    <2>1. AfterStart(js, i)[k] = js[k]
      BY <1>2, StartedJobs
    <2> QED
      BY <1>2, <2>1 DEF Contends
  <1> QED
    BY <1>1, <1>2

\* The drives of the jobs that come after the first startable one are their own.
LEMMA FirstIsAlone ==
    ASSUME NEW js \in Seq(JobType), NEW locks \in [Drives -> Nat],
           NEW i \in 1..Len(js), First(i, Startable(js, locks)), NEW k \in 1..Len(js),
           k # i, js[k].state = "Queued", locks[js[k].drive] = NoJob
    PROVE  /\ i \in 1..(k - 1)
           /\ (\A l \in 1..(k - 1) : js[l].drive = js[k].drive => ~Contends(js, l))
              => Taken(js, locks, i)[js[k].drive] = NoJob
  <1>1. Len(js) \in Nat /\ DOMAIN js = 1..Len(js)
    BY LenProperties
  <1>2. k \in Startable(js, locks) /\ i \in Startable(js, locks)
    BY <1>1 DEF Startable, First
  <1>3. i <= k
    BY <1>2 DEF First
  <1>4. i \in 1..(k - 1)
    BY <1>1, <1>3
  <1>5. ASSUME \A l \in 1..(k - 1) : js[l].drive = js[k].drive => ~Contends(js, l)
        PROVE  Taken(js, locks, i)[js[k].drive] = NoJob
    <2>1. js[i].drive = js[k].drive => ~Contends(js, i)
      BY <1>4, <1>5
    <2>2. js[i].state = "Queued"
      BY <1>2 DEF Startable
    <2>3. ~(StartOutcome(js[i]) = "Running" /\ js[k].drive = js[i].drive)
      BY <2>1, <2>2 DEF Contends
    <2>4. js[k].drive \in Drives
      <3>1. js[k] \in JobType
        BY ElementOfSeq
      <3> QED
        BY <3>1 DEF JobType
    <2> QED
      BY <2>3, <2>4, TakenLocks
  <1> QED
    BY <1>4, <1>5

\* What is free after a start was free before it, on another drive.
LEMMA FreeAfterStart ==
    ASSUME NEW js \in Seq(JobType), NEW locks \in [Drives -> Nat],
           NEW i \in 1..Len(js), NEW d \in Drives, Taken(js, locks, i)[d] = NoJob
    PROVE  /\ locks[d] = NoJob
           /\ StartOutcome(js[i]) = "Running" => d # js[i].drive
  BY TakenLocks

LEMMA HeirsAfterStart ==
    ASSUME NEW js \in Seq(JobType), NEW locks \in [Drives -> Nat],
           NEW i \in 1..Len(js), First(i, Startable(js, locks))
    PROVE  Heirs(AfterStart(js, i), Taken(js, locks, i)) = Heirs(js, locks) \ {i}
  <1> DEFINE after == AfterStart(js, i)
             taken == Taken(js, locks, i)
  <1>1. Len(js) \in Nat /\ DOMAIN js = 1..Len(js)
    BY LenProperties
  <1>2. after \in Seq(JobType) /\ Len(after) = Len(js) /\ DOMAIN after = 1..Len(js)
    <2>1. after \in Seq(JobType) /\ Len(after) = Len(js)
      BY StartedJobs
    <2> HIDE DEF after
    <2> QED
      BY <2>1, LenProperties
  <1>3. \A k \in 1..Len(js) : after[k].drive = js[k].drive /\ js[k].drive \in Drives
    <2>1. \A k \in 1..Len(js) : js[k] \in JobType
      BY ElementOfSeq
    <2>2. \A k \in 1..Len(js) : js[k].drive \in Drives
      BY <2>1 DEF JobType
    <2>3. \A k \in 1..Len(js) : after[k].drive = js[k].drive
      BY StartedJobs
    <2> QED
      BY <2>2, <2>3
  <1>4. \A k \in 1..Len(js) : Contends(after, k) <=> Contends(js, k) /\ k # i
    BY ContendersAfterStart
  <1>5. ASSUME NEW k \in 1..Len(js), k \in Heirs(after, taken)
        PROVE  k \in Heirs(js, locks) \ {i}
    <2>1. /\ Contends(after, k) /\ taken[js[k].drive] = NoJob
          /\ \A l \in 1..(k - 1) : after[l].drive = after[k].drive => ~Contends(after, l)
      BY <1>3, <1>5 DEF Heirs
    <2>2. Contends(js, k) /\ k # i
      BY <1>4, <2>1
    <2>3. js[k].drive \in Drives
      BY <1>3
    <2>4. StartOutcome(js[i]) = "Running" => js[k].drive # js[i].drive
      BY <2>1, <2>3, FreeAfterStart
    <2>5. locks[js[k].drive] = NoJob
      BY <2>1, <2>3, <2>4, FreeAfterStart
    <2>6. ASSUME NEW l \in 1..(k - 1), js[l].drive = js[k].drive, Contends(js, l)
          PROVE  FALSE
      <3>1. l \in 1..Len(js)
        BY <1>1
      <3>2. l # i
        BY <2>4, <2>6 DEF Contends
      <3>3. Contends(after, l) /\ after[l].drive = after[k].drive
        BY <1>3, <1>4, <2>6, <3>1, <3>2
      <3> QED
        BY <2>1, <3>3
    <2> QED
      BY <1>1, <2>2, <2>5, <2>6 DEF Heirs
  <1>6. ASSUME NEW k \in 1..Len(js), k \in Heirs(js, locks), k # i
        PROVE  k \in Heirs(after, taken)
    <2>1. /\ Contends(js, k) /\ locks[js[k].drive] = NoJob
          /\ \A l \in 1..(k - 1) : js[l].drive = js[k].drive => ~Contends(js, l)
      BY <1>6 DEF Heirs
    <2>2. js[k].state = "Queued"
      BY <2>1 DEF Contends
    <2>3. taken[js[k].drive] = NoJob
      BY <1>6, <2>1, <2>2, FirstIsAlone
    <2>4. Contends(after, k) /\ taken[after[k].drive] = NoJob
      BY <1>3, <1>4, <1>6, <2>1, <2>3
    <2>5. \A l \in 1..(k - 1) : after[l].drive = after[k].drive => ~Contends(after, l)
      <3>1. \A l \in 1..(k - 1) : l \in 1..Len(js)
        BY <1>1
      <3> QED
        BY <1>3, <1>4, <2>1, <3>1
    <2> HIDE DEF after, taken
    <2> QED
      BY <1>2, <2>4, <2>5 DEF Heirs
  <1>7. Heirs(after, taken) \subseteq 1..Len(js) /\ Heirs(js, locks) \subseteq 1..Len(js)
    <2> HIDE DEF after, taken
    <2> QED
      BY <1>1, <1>2 DEF Heirs
  <1> HIDE DEF after, taken
  <1>8. Heirs(after, taken) = Heirs(js, locks) \ {i}
    BY <1>5, <1>6, <1>7
  <1> QED
    BY <1>8 DEF after, taken

\* What start() takes is a slot: with the drive it takes one more is locked and
\* one fewer is left to the heirs after it.
LEMMA SlotsAfterStart ==
    ASSUME NEW js \in Seq(JobType), NEW locks \in [Drives -> Nat],
           NEW i \in 1..Len(js), First(i, Startable(js, locks)),
           NEW k \in 1..Len(js), i < k
    PROVE  Cardinality(Locked(Taken(js, locks, i)))
              + Cardinality({h \in Heirs(AfterStart(js, i), Taken(js, locks, i)) : h < k})
           = Cardinality(Locked(locks)) + Cardinality({h \in Heirs(js, locks) : h < k})
  <1> DEFINE taken == Taken(js, locks, i)
             Before == {h \in Heirs(js, locks) : h < k}
             After == {h \in Heirs(AfterStart(js, i), taken) : h < k}
  <1>1. Len(js) \in Nat /\ DOMAIN js = 1..Len(js)
    BY LenProperties
  <1>2. i \in Startable(js, locks) /\ js[i].state = "Queued" /\ locks[js[i].drive] = NoJob
    BY DEF First, Startable
  <1>3. After = Before \ {i}
    BY HeirsAfterStart
  <1>4. IsFiniteSet(Before) /\ Cardinality(Before) \in Nat
    BY HeirCount
  <1>5. IsFiniteSet(Locked(locks)) /\ Cardinality(Locked(locks)) \in Nat
    BY LockedCount
  <1>6. CASE StartOutcome(js[i]) = "Running"
    <2>1. i \in Before
      <3>1. Contends(js, i)
        BY <1>2, <1>6 DEF Contends
      <3>2. ASSUME NEW l \in 1..(i - 1), js[l].drive = js[i].drive, Contends(js, l)
            PROVE  FALSE
        <4>1. l \in 1..Len(js) /\ ~(i <= l)
          BY <1>1
        <4>2. l \in Startable(js, locks)
          BY <1>1, <1>2, <3>2, <4>1 DEF Startable, Contends
        <4> QED
          BY <4>1, <4>2 DEF First
      <3> QED
        BY <1>1, <1>2, <3>1, <3>2 DEF Heirs
    <2>2. Cardinality(After) = Cardinality(Before) - 1
      BY <1>3, <1>4, <2>1, FS_RemoveElement
    <2>3. Locked(taken) = Locked(locks) \cup {js[i].drive}
      <3>1. \A d \in Drives : taken[d] # NoJob <=> locks[d] # NoJob \/ d = js[i].drive
        BY <1>6, TakenLocks
      <3>2. js[i].drive \in Drives
        BY TakenLocks
      <3> HIDE DEF taken
      <3> QED
        BY <3>1, <3>2 DEF Locked
    <2>4. js[i].drive \notin Locked(locks)
      BY <1>2 DEF Locked
    <2>5. Cardinality(Locked(taken)) = Cardinality(Locked(locks)) + 1
      BY <1>5, <2>3, <2>4, FS_AddElement
    <2> HIDE DEF Before, After, taken
    <2>6. Cardinality(Locked(taken)) + Cardinality(After)
             = Cardinality(Locked(locks)) + Cardinality(Before)
      BY <1>4, <1>5, <2>2, <2>5
    <2> QED
      BY <2>6 DEF Before, After, taken
  <1>7. CASE StartOutcome(js[i]) # "Running"
    <2>1. i \notin Before
      BY <1>7 DEF Heirs, Contends
    <2>2. After = Before
      BY <1>3, <2>1
    <2>3. taken = locks
      BY <1>7 DEF Taken
    <2> QED
      BY <2>2, <2>3
  <1> QED
    BY <1>6, <1>7

\* With a slot free, the first startable job is one that startEligibleJobs starts.
LEMMA FirstIsAttempted ==
    ASSUME NEW js \in Seq(JobType), NEW locks \in [Drives -> Nat],
           NEW i \in 1..Len(js), First(i, Startable(js, locks)),
           Cardinality(Locked(locks)) < max_parallel_drives
    PROVE  i \in Attempted(js, locks)
  <1>1. Len(js) \in Nat /\ DOMAIN js = 1..Len(js)
    BY LenProperties
  <1>2. js[i].state = "Queued" /\ locks[js[i].drive] = NoJob
    BY DEF First, Startable
  <1>3. ASSUME NEW l \in 1..Len(js), l < i, Contends(js, l), locks[js[l].drive] = NoJob
        PROVE  FALSE
    <2>1. l \in Startable(js, locks) /\ ~(i <= l)
      BY <1>1, <1>3 DEF Startable, Contends
    <2> QED
      BY <2>1 DEF First
  <1>4. \A l \in 1..(i - 1) : js[l].drive = js[i].drive => ~Contends(js, l)
    <2>1. \A l \in 1..(i - 1) : l \in 1..Len(js) /\ l < i
      BY <1>1
    <2> QED
      BY <1>2, <1>3, <2>1
  <1>5. {h \in Heirs(js, locks) : h < i} = {}
    BY <1>1, <1>3 DEF Heirs
  <1>6. Cardinality({h \in Heirs(js, locks) : h < i}) = 0
    BY <1>5, FS_EmptySet
  <1>7. Cardinality(Locked(locks)) + Cardinality({h \in Heirs(js, locks) : h < i})
           < max_parallel_drives
    <2>1. Cardinality(Locked(locks)) \in Nat
      BY LockedCount
    <2>2. \A c : c = 0 => Cardinality(Locked(locks)) + c = Cardinality(Locked(locks))
      BY <2>1
    <2> QED
      BY <1>6, <2>2
  <1> QED
    BY <1>1, <1>2, <1>4, <1>7 DEF Attempted

LEMMA AttemptedAfterStart ==
    ASSUME NEW js \in Seq(JobType), NEW locks \in [Drives -> Nat],
           NEW i \in 1..Len(js), First(i, Startable(js, locks))
    PROVE  Attempted(AfterStart(js, i), Taken(js, locks, i)) = Attempted(js, locks) \ {i}
  <1> DEFINE after == AfterStart(js, i)
             taken == Taken(js, locks, i)
             Slots(k) == Cardinality(Locked(locks))
                            + Cardinality({h \in Heirs(js, locks) : h < k})
             SlotsAfter(k) == Cardinality(Locked(taken))
                            + Cardinality({h \in Heirs(after, taken) : h < k})
  <1>1. Len(js) \in Nat /\ DOMAIN js = 1..Len(js)
    BY LenProperties
  <1>2. after \in Seq(JobType) /\ Len(after) = Len(js) /\ DOMAIN after = 1..Len(js)
    <2>1. after \in Seq(JobType) /\ Len(after) = Len(js)
      BY StartedJobs
    <2> HIDE DEF after
    <2> QED
      BY <2>1, LenProperties
  <1>3. \A k \in 1..Len(js) : after[k].drive = js[k].drive /\ js[k].drive \in Drives
    <2>1. \A k \in 1..Len(js) : js[k] \in JobType
      BY ElementOfSeq
    <2>2. \A k \in 1..Len(js) : js[k].drive \in Drives
      BY <2>1 DEF JobType
    <2>3. \A k \in 1..Len(js) : after[k].drive = js[k].drive
      BY StartedJobs
    <2> QED
      BY <2>2, <2>3
  <1>4. \A k \in 1..Len(js) : Contends(after, k) <=> Contends(js, k) /\ k # i
    BY ContendersAfterStart
  <1>5. \A k \in 1..Len(js) : k # i => after[k] = js[k]
    BY StartedJobs
  <1>6. after[i].state # "Queued"
    <2>1. after[i].state = StartOutcome(js[i])
      BY StartedJobs
    <2> QED
      BY <2>1, StartOutcomes
  <1>7. \A k \in 1..Len(js) : i < k => SlotsAfter(k) = Slots(k)
    BY SlotsAfterStart
  <1>8. ASSUME NEW k \in 1..Len(js), k \in Attempted(after, taken)
        PROVE  k \in Attempted(js, locks) \ {i}
    <2>1. /\ after[k].state = "Queued" /\ taken[js[k].drive] = NoJob
          /\ \A l \in 1..(k - 1) : after[l].drive = after[k].drive => ~Contends(after, l)
          /\ SlotsAfter(k) < max_parallel_drives
      BY <1>3, <1>8 DEF Attempted
    <2>2. k # i /\ js[k].state = "Queued"
      BY <1>5, <1>6, <2>1
    <2>3. js[k].drive \in Drives
      BY <1>3
    <2>4. StartOutcome(js[i]) = "Running" => js[k].drive # js[i].drive
      BY <2>1, <2>3, FreeAfterStart
    <2>5. locks[js[k].drive] = NoJob
      BY <2>1, <2>3, FreeAfterStart
    <2>6. ASSUME NEW l \in 1..(k - 1), js[l].drive = js[k].drive, Contends(js, l)
          PROVE  FALSE
      <3>1. l \in 1..Len(js)
        BY <1>1
      <3>2. l # i
        BY <2>4, <2>6 DEF Contends
      <3>3. Contends(after, l) /\ after[l].drive = after[k].drive
        BY <1>3, <1>4, <2>6, <3>1, <3>2
      <3> QED
        BY <2>1, <3>3
    <2>7. i < k
      <3>1. i \in 1..(k - 1)
        BY <2>2, <2>5, FirstIsAlone
      <3> QED
        BY <1>1, <3>1
    <2>8. Slots(k) < max_parallel_drives
      <3>1. SlotsAfter(k) = Slots(k)
        BY <1>7, <2>7
      <3> HIDE DEF SlotsAfter, Slots
      <3> QED
        BY <2>1, <3>1
    <2>9. k \in DOMAIN js
      BY <1>1
    <2>10. k \in Attempted(js, locks)
      BY <2>2, <2>5, <2>6, <2>8, <2>9 DEF Attempted
    <2> QED
      BY <2>2, <2>10
  <1>9. ASSUME NEW k \in 1..Len(js), k \in Attempted(js, locks), k # i
        PROVE  k \in Attempted(after, taken)
    <2>1. /\ js[k].state = "Queued" /\ locks[js[k].drive] = NoJob
          /\ \A l \in 1..(k - 1) : js[l].drive = js[k].drive => ~Contends(js, l)
          /\ Slots(k) < max_parallel_drives
      BY <1>9 DEF Attempted
    <2>2. i \in 1..(k - 1) /\ taken[js[k].drive] = NoJob
      BY <1>9, <2>1, FirstIsAlone
    <2>3. i < k
      BY <1>1, <2>2
    <2>4. after[k].state = "Queued" /\ taken[after[k].drive] = NoJob
      BY <1>3, <1>5, <1>9, <2>1, <2>2
    <2>5. \A l \in 1..(k - 1) : after[l].drive = after[k].drive => ~Contends(after, l)
      <3>1. \A l \in 1..(k - 1) : l \in 1..Len(js)
        BY <1>1
      <3> QED
        BY <1>3, <1>4, <2>1, <3>1
    <2>6. SlotsAfter(k) < max_parallel_drives
      <3>1. SlotsAfter(k) = Slots(k)
        BY <1>7, <2>3
      <3> HIDE DEF SlotsAfter, Slots
      <3> QED
        BY <2>1, <3>1
    <2>7. k \in DOMAIN after
      BY <1>2
    <2> HIDE DEF after, taken
    <2> QED
      BY <2>4, <2>5, <2>6, <2>7 DEF Attempted
  <1>10. Attempted(after, taken) \subseteq 1..Len(js) /\ Attempted(js, locks) \subseteq 1..Len(js)
    <2> HIDE DEF after, taken
    <2> QED
      BY <1>1, <1>2 DEF Attempted
  <1> HIDE DEF after, taken, Slots, SlotsAfter
  <1>11. Attempted(after, taken) = Attempted(js, locks) \ {i}
    BY <1>8, <1>9, <1>10
  <1> QED
    BY <1>11 DEF after, taken


\* What startEligibleJobs does after the first start is the rest of what it
\* would have done before it.
LEMMA ServingAfterStart ==
    ASSUME NEW js \in Seq(JobType), NEW locks \in [Drives -> Nat],
           NEW i \in 1..Len(js), First(i, Startable(js, locks)),
           Cardinality(Locked(locks)) < max_parallel_drives
    PROVE  startEligibleJobs(AfterStart(js, i), Taken(js, locks, i)) = startEligibleJobs(js, locks)
  <1> DEFINE after == AfterStart(js, i)
             taken == Taken(js, locks, i)
             Then(q, A, k) == IF k \in A THEN [q[k] EXCEPT !.state = StartOutcome(q[k])] ELSE q[k]
             Lock(q, W, l, d) == IF \E k \in W : q[k].drive = d
                                 THEN CHOOSE k \in W : q[k].drive = d ELSE l[d]
             A == Attempted(js, locks)
             B == Attempted(after, taken)
             W == Winners(js, locks)
             V == Winners(after, taken)
  <1>1. Len(js) \in Nat /\ DOMAIN js = 1..Len(js)
    BY LenProperties
  <1>2. after \in Seq(JobType) /\ Len(after) = Len(js) /\ DOMAIN after = 1..Len(js)
    <2>1. after \in Seq(JobType) /\ Len(after) = Len(js)
      BY StartedJobs
    <2> HIDE DEF after
    <2> QED
      BY <2>1, LenProperties
  <1>3. B = A \ {i} /\ i \in A
    BY AttemptedAfterStart, FirstIsAttempted
  <1>4. A \subseteq 1..Len(js) /\ W \subseteq A
    BY <1>1 DEF Attempted, Winners
  <1>5. /\ after[i] = [js[i] EXCEPT !.state = StartOutcome(js[i])]
        /\ \A k \in 1..Len(js) : k # i => after[k] = js[k]
    BY StartedJobs
  <1>6. V = W \ {i}
    <2>1. \A k \in A : StartOutcome(after[k]) = StartOutcome(js[k])
      BY <1>4, StartedJobs
    <2>2. V = {k \in B : StartOutcome(after[k]) = "Running"}
      BY DEF Winners
    <2>3. W = {k \in A : StartOutcome(js[k]) = "Running"}
      BY DEF Winners
    <2> HIDE DEF A, B, V, W, after, taken
    <2> QED
      BY <1>3, <2>1, <2>2, <2>3
  <1>7. startEligibleJobs(js, locks) =
           [jobs |-> [k \in 1..Len(js) |-> Then(js, A, k)],
            locks |-> [d \in Drives |-> Lock(js, W, locks, d)]]
    BY <1>1 DEF startEligibleJobs
  <1>8. startEligibleJobs(after, taken) =
           [jobs |-> [k \in 1..Len(js) |-> Then(after, B, k)],
            locks |-> [d \in Drives |-> Lock(after, V, taken, d)]]
    <2> HIDE DEF after, taken
    <2> QED
      BY <1>2 DEF startEligibleJobs
  <1>9. \A k \in 1..Len(js) : Then(after, B, k) = Then(js, A, k)
    <2> HIDE DEF A, B, after
    <2> QED
      BY <1>3, <1>5
  <1>10. \A d \in Drives : Lock(after, V, taken, d) = Lock(js, W, locks, d)
    <2>1. \A k \in W : after[k].drive = js[k].drive
      BY <1>4, StartedJobs
    <2>2. \A k, l \in W : js[k].drive = js[l].drive => k = l
      BY WinnersAreExclusive
    <2>3. \A d \in Drives : taken[d] =
             IF StartOutcome(js[i]) = "Running" /\ d = js[i].drive THEN i ELSE locks[d]
      BY TakenLocks
    <2>4. i \in W <=> StartOutcome(js[i]) = "Running"
      BY <1>3 DEF Winners
    <2> HIDE DEF A, B, V, W, after, taken
    <2>5. ASSUME NEW d \in Drives PROVE Lock(after, V, taken, d) = Lock(js, W, locks, d)
      <3>1. CASE \E k \in V : js[k].drive = d
        <4>1. PICK k \in V : js[k].drive = d
          BY <3>1
        <4>2. k \in W /\ after[k].drive = d
          BY <1>6, <2>1, <4>1
        <4>3. \A l \in W : js[l].drive = d => l = k
          BY <2>2, <4>1, <4>2
        <4>4. \A l \in V : after[l].drive = d => l = k
          BY <1>6, <2>1, <4>3
        <4>5. Lock(js, W, locks, d) = k
          BY <4>1, <4>2, <4>3
        <4>6. Lock(after, V, taken, d) = k
          BY <4>1, <4>2, <4>4
        <4> QED
          BY <4>5, <4>6
      <3>2. CASE (~\E k \in V : js[k].drive = d) /\ i \in W /\ js[i].drive = d
        <4>1. \A l \in W : js[l].drive = d => l = i
          BY <2>2, <3>2
        <4>2. Lock(js, W, locks, d) = i
          BY <3>2, <4>1
        <4>3. ~\E k \in V : after[k].drive = d
          BY <1>6, <2>1, <3>2
        <4>4. Lock(after, V, taken, d) = taken[d]
          BY <4>3
        <4> QED
          BY <2>3, <2>4, <3>2, <4>2, <4>4
      <3>3. CASE (~\E k \in V : js[k].drive = d) /\ ~(i \in W /\ js[i].drive = d)
        <4>1. ~\E k \in V : after[k].drive = d
          BY <1>6, <2>1, <3>3
        <4>2. ~\E k \in W : js[k].drive = d
          BY <1>6, <3>3
        <4> QED
          BY <2>3, <2>4, <3>3, <4>1, <4>2
      <3> QED
        BY <3>1, <3>2, <3>3
    <2> QED
      BY <2>5
  <1> HIDE DEF Then, Lock, A, B, V, W, after, taken
  <1>11. startEligibleJobs(after, taken) = startEligibleJobs(js, locks)
    BY <1>7, <1>8, <1>9, <1>10
  <1> QED
    BY <1>11 DEF after, taken

\* When no slot is free, or no job is startable, startEligibleJobs does nothing.
LEMMA NothingToServe ==
    ASSUME NEW js \in Seq(JobType), NEW locks \in [Drives -> Nat],
           Startable(js, locks) = {} \/ Cardinality(Locked(locks)) >= max_parallel_drives
    PROVE  startEligibleJobs(js, locks) = [jobs |-> js, locks |-> locks]
  <1>1. Len(js) \in Nat /\ DOMAIN js = 1..Len(js)
    BY LenProperties
  <1>2. Attempted(js, locks) = {}
    <2>1. SUFFICES ASSUME NEW i \in Attempted(js, locks) PROVE FALSE
      OBVIOUS
    <2>2. /\ i \in 1..Len(js) /\ js[i].state = "Queued" /\ locks[js[i].drive] = NoJob
          /\ Cardinality(Locked(locks)) + Cardinality({h \in Heirs(js, locks) : h < i})
                < max_parallel_drives
      BY <1>1 DEF Attempted
    <2>3. i \in Startable(js, locks)
      BY <1>1, <2>2 DEF Startable
    <2>4. Cardinality(Locked(locks)) >= max_parallel_drives
      BY <2>3
    <2>5. Cardinality({h \in Heirs(js, locks) : h < i}) \in Nat
      BY <2>2, HeirCount
    <2>6. Cardinality(Locked(locks)) \in Nat /\ max_parallel_drives \in Nat
      BY LockedCount
    <2> QED
      BY <2>2, <2>4, <2>5, <2>6
  <1>3. Winners(js, locks) = {}
    BY <1>2 DEF Winners
  <1>4. startEligibleJobs(js, locks) =
           [jobs |-> [k \in 1..Len(js) |-> js[k]], locks |-> [d \in Drives |-> locks[d]]]
    BY <1>1, <1>2, <1>3 DEF startEligibleJobs
  <1>5. js = [k \in 1..Len(js) |-> js[k]]
    BY <1>1
  <1>6. locks = [d \in Drives |-> locks[d]]
    OBVIOUS
  <1> QED
    BY <1>4, <1>5, <1>6

\* What a turn finds: nothing to start, or the first startable job.
AtRest(s) ==
    Startable(s.jobs, s.locks) = {} \/ Cardinality(Locked(s.locks)) >= max_parallel_drives

LoopStates(n) == {s \in [jobs : Seq(JobType), locks : [Drives -> Nat]] : Len(s.jobs) = n}

LEMMA TurnOfTheLoop ==
    ASSUME NEW n \in Nat, NEW s \in LoopStates(n), ~AtRest(s)
    PROVE  \E i \in 1..n :
              /\ First(i, Startable(s.jobs, s.locks))
              /\ LoopTurn(s) = [jobs |-> AfterStart(s.jobs, i), locks |-> Taken(s.jobs, s.locks, i)]
  <1> DEFINE js == s.jobs
             locks == s.locks
             S == Startable(js, locks)
             i == CHOOSE k \in S : \A l \in S : k <= l
  <1>1. js \in Seq(JobType) /\ Len(js) = n /\ DOMAIN js = 1..n
    BY LenProperties DEF LoopStates
  <1>2. S # {} /\ ~(Cardinality(Locked(locks)) >= max_parallel_drives)
    BY DEF AtRest
  <1>3. S \subseteq 1..n
    BY <1>1 DEF Startable
  <1>4. \E k \in S : \A l \in S : k <= l
    <2>1. S \in SUBSET Nat
      BY <1>3
    <2> HIDE DEF S
    <2> QED
      BY <1>2, <2>1, LeastElement
  <1>5. First(i, S)
    <2> HIDE DEF S
    <2> QED
      BY <1>4 DEF First
  <1>6. i \in 1..n
    <2> HIDE DEF i, S
    <2> QED
      BY <1>3, <1>5 DEF First
  <1>7. LoopTurn(s) = [jobs |-> AfterStart(js, i), locks |-> Taken(js, locks, i)]
    BY <1>2, Zenon DEF LoopTurn, AfterStart, Taken
  <1> HIDE DEF i
  <1> QED
    BY <1>5, <1>6, <1>7

\* A turn of the loop leaves startEligibleJobs what it did before, and the jobs
\* that can still be started are later ones.
LEMMA TurnKeepsTheRest ==
    ASSUME NEW n \in Nat, NEW s \in LoopStates(n)
    PROVE  LET t == LoopTurn(s)
           IN  /\ t \in LoopStates(n)
               /\ startEligibleJobs(t.jobs, t.locks) = startEligibleJobs(s.jobs, s.locks)
               /\ AtRest(s) => t = s
               /\ ~AtRest(s) => \E i \in Startable(s.jobs, s.locks) :
                     \A k \in Startable(t.jobs, t.locks) : i < k
  <1>1. CASE AtRest(s)
    BY <1>1 DEF AtRest, LoopTurn
  <1>2. CASE ~AtRest(s)
    <2>1. PICK i \in 1..n :
             /\ First(i, Startable(s.jobs, s.locks))
             /\ LoopTurn(s) = [jobs |-> AfterStart(s.jobs, i), locks |-> Taken(s.jobs, s.locks, i)]
      BY <1>2, TurnOfTheLoop
    <2> DEFINE js == s.jobs
               locks == s.locks
               after == AfterStart(js, i)
               taken == Taken(js, locks, i)
    <2>2. /\ js \in Seq(JobType) /\ locks \in [Drives -> Nat]
          /\ Len(js) = n /\ i \in 1..Len(js) /\ First(i, Startable(js, locks))
      BY <2>1 DEF LoopStates
    <2>3. Cardinality(Locked(locks)) < max_parallel_drives
      <3>1. ~(Cardinality(Locked(locks)) >= max_parallel_drives)
        BY <1>2 DEF AtRest
      <3>2. Cardinality(Locked(locks)) \in Nat /\ max_parallel_drives \in Nat
        BY LockedCount
      <3> QED
        BY <3>1, <3>2
    <2> HIDE DEF js, locks
    <2>4. after \in Seq(JobType) /\ Len(after) = n /\ taken \in [Drives -> Nat]
      BY <2>2, StartedJobs, TakenLocks
    <2>5. startEligibleJobs(after, taken) = startEligibleJobs(js, locks)
      BY <2>2, <2>3, ServingAfterStart
    <2>6. ASSUME NEW k \in Startable(after, taken) PROVE i < k
      <3>1. k \in 1..n /\ after[k].state = "Queued" /\ taken[after[k].drive] = NoJob
        <4> HIDE DEF after, taken
        <4> QED
          BY <2>4, LenProperties DEF Startable
      <3>2. k # i
        <4>1. after[i].state = StartOutcome(js[i])
          BY <2>2, StartedJobs
        <4> QED
          BY <3>1, <4>1, StartOutcomes
      <3>3. after[k] = js[k]
        BY <2>2, <3>1, <3>2, StartedJobs
      <3>4. js[k].drive \in Drives
        <4>1. js[k] \in JobType
          BY <2>2, <3>1, ElementOfSeq
        <4> QED
          BY <4>1 DEF JobType
      <3>5. locks[js[k].drive] = NoJob
        BY <2>2, <3>1, <3>3, <3>4, FreeAfterStart
      <3>6. i \in 1..(k - 1)
        BY <2>2, <3>1, <3>2, <3>3, <3>5, FirstIsAlone
      <3> QED
        BY <3>1, <3>6
    <2>7. LoopTurn(s) = [jobs |-> after, locks |-> taken]
      BY <2>1 DEF js, locks
    <2>8. i \in Startable(js, locks)
      BY <2>2 DEF First
    <2> HIDE DEF after, taken
    <2>9. LoopTurn(s) \in LoopStates(n)
      BY <2>4, <2>7 DEF LoopStates
    <2> QED
      BY <1>2, <2>5, <2>6, <2>7, <2>8, <2>9 DEF js, locks
  <1> QED
    BY <1>1, <1>2

\* The loop ends, after a turn for each job at the latest, and has done what
\* startEligibleJobs does.
LEMMA LoopServes ==
    ASSUME NEW js \in Seq(JobType), NEW locks \in [Drives -> Nat]
    PROVE  /\ startEligibleJobs(js, locks) = Loop(js, locks)
           /\ LoopTurn(Loop(js, locks)) = Loop(js, locks)
  <1> DEFINE n == Len(js)
             s == [jobs |-> js, locks |-> locks]
             S == LoopStates(n)
             Step(f, k) == IF k = 0 THEN s ELSE LoopTurn(f[k - 1])
             After == CHOOSE f : f = [k \in 0..n |-> Step(f, k)]
  <1>0. n \in Nat /\ s \in S
    BY LenProperties DEF LoopStates
  <1>1. Loop(js, locks) = After[n]
    BY Zenon DEF Loop
  <1>2. \A t \in S : LoopTurn(t) \in S
    BY <1>0, TurnKeepsTheRest
  <1>3. s.jobs = js /\ s.locks = locks
    OBVIOUS
  <1> HIDE DEF n, s, S
  <1>4. \E f : f = [k \in 0..n |-> Step(f, k)]
    <2> DEFINE F == [p \in S \X (1..n) |-> LoopTurn(p[1])]
    <2>1. F \in Steppings(S, n)
      BY <1>2 DEF Steppings
    <2> HIDE DEF F
    <2>2. PICK g : g \in StepsOf(F, s, n, S)
      BY <1>0, <2>1, Recursion
    <2>3. \A k \in 0..n : g[k] = Step(g, k)
      <3>1. ASSUME NEW k \in 1..n PROVE g[k] = LoopTurn(g[k - 1])
        <4>1. g[k - 1] \in S /\ g[k] = F[<<g[k - 1], k>>]
          BY <1>0, <2>2 DEF StepsOf
        <4>2. F[<<g[k - 1], k>>] = LoopTurn(g[k - 1])
          BY <4>1 DEF F
        <4> QED
          BY <4>1, <4>2
      <3>2. \A k \in 0..n : k = 0 \/ (k # 0 /\ k \in 1..n)
        BY <1>0
      <3> QED
        BY <2>2, <3>1, <3>2 DEF StepsOf
    <2>4. g = [k \in 0..n |-> Step(g, k)]
      BY <2>2, <2>3 DEF StepsOf
    <2> QED
      BY <2>4
  <1>5. After = [k \in 0..n |-> Step(After, k)]
    <2> HIDE DEF Step
    <2> QED
      BY <1>4
  <1> HIDE DEF After
  <1> DEFINE Rest(t) == startEligibleJobs(t.jobs, t.locks)
             Left(t, k) == AtRest(t) \/ \A i \in Startable(t.jobs, t.locks) : k < i
             T == {k \in 0..n : /\ After[k] \in S /\ Left(After[k], k)
                                /\ Rest(After[k]) = startEligibleJobs(js, locks)}
  <1>6. 0 \in T
    <2>1. 0 \in 0..n /\ After[0] = s
      BY <1>0, <1>5
    <2>2. \A i \in Startable(js, locks) : 0 < i
      BY <1>0, LenProperties DEF Startable, n
    <2> QED
      BY <1>0, <1>3, <2>1, <2>2
  <1>7. ASSUME NEW m \in 0..(n - 1), m \in T PROVE m + 1 \in T
    <2>1. m + 1 \in 0..n /\ m + 1 # 0 /\ m + 1 - 1 = m /\ m \in 0..n
      BY <1>0
    <2> DEFINE t == After[m]
               u == After[m + 1]
    <2>2. u = LoopTurn(t)
      <3>1. \A k \in 0..n : k # 0 => After[k] = LoopTurn(After[k - 1])
        BY <1>5, Zenon
      <3> DEFINE k == m + 1
      <3>2. k \in 0..n /\ k # 0 /\ k - 1 = m
        BY <2>1
      <3> HIDE DEF k
      <3>3. After[k] = LoopTurn(After[m])
        BY <3>1, <3>2
      <3> QED
        BY <3>3 DEF k
    <2>3. t \in S /\ Left(t, m) /\ Rest(t) = startEligibleJobs(js, locks)
      BY <1>7
    <2> HIDE DEF t, u
    <2>4. u \in S /\ Rest(u) = Rest(t) /\ (AtRest(t) => u = t)
      BY <1>0, <2>2, <2>3, TurnKeepsTheRest DEF S
    <2>5. ~AtRest(t) => \E i \in Startable(t.jobs, t.locks) :
                          \A k \in Startable(u.jobs, u.locks) : i < k
      BY <1>0, <2>2, <2>3, TurnKeepsTheRest DEF S
    <2>6. Left(u, m + 1)
      <3>1. CASE AtRest(t)
        BY <2>4, <3>1
      <3>2. CASE ~AtRest(t)
        <4>1. PICK i \in Startable(t.jobs, t.locks) :
                 \A k \in Startable(u.jobs, u.locks) : i < k
          BY <2>5, <3>2
        <4>2. m < i
          BY <2>3, <3>2
        <4>3. i \in 1..n /\ \A k \in Startable(u.jobs, u.locks) : k \in 1..n
          BY <2>3, <2>4, LenProperties DEF S, LoopStates, Startable
        <4>4. \A k \in Startable(u.jobs, u.locks) : m + 1 < k
          BY <1>0, <4>1, <4>2, <4>3
        <4> QED
          BY <4>4
      <3> QED
        BY <3>1, <3>2
    <2> HIDE DEF Rest, Left
    <2> QED
      BY <2>1, <2>3, <2>4, <2>6 DEF t, u
  <1> HIDE DEF T
  <1>8. n \in T
    <2>1. \A m \in 0..n : m \in T
      BY <1>0, <1>6, <1>7, UpTo
    <2> QED
      BY <1>0, <2>1
  <1> DEFINE t == After[n]
  <1>9. t \in S /\ Left(t, n) /\ Rest(t) = startEligibleJobs(js, locks)
    BY <1>8 DEF T
  <1> HIDE DEF t
  <1>10. AtRest(t)
    <2>1. \A k \in Startable(t.jobs, t.locks) : k \in 1..n
      BY <1>9, LenProperties DEF S, LoopStates, Startable
    <2>2. (\A k \in Startable(t.jobs, t.locks) : n < k) => Startable(t.jobs, t.locks) = {}
      BY <1>0, <2>1
    <2> QED
      BY <1>9, <2>2 DEF AtRest
  <1>11. LoopTurn(t) = t
    BY <1>0, <1>9, <1>10, TurnKeepsTheRest DEF S
  <1>12. Rest(t) = [jobs |-> t.jobs, locks |-> t.locks]
    <2>1. t.jobs \in Seq(JobType) /\ t.locks \in [Drives -> Nat]
      BY <1>9 DEF S, LoopStates
    <2> QED
      BY <1>10, <2>1, NothingToServe DEF AtRest
  <1>13. [jobs |-> t.jobs, locks |-> t.locks] = t
    BY <1>9 DEF S, LoopStates
  <1> QED
    BY <1>1, <1>9, <1>11, <1>12, <1>13 DEF t

\* In every state the manager reaches, whichever active job ends, serving the
\* queue starts the jobs the loop of startEligibleJobs() starts, and the loop
\* ends.
THEOREM ServesAsTheLoopDoes == Spec => []ServesLikeTheLoop
  <1>1. ASSUME Consistent PROVE ServesLikeTheLoop
    <2>1. SUFFICES ASSUME NEW i \in 1..Len(jobs), jobs[i].state \in Active
                   PROVE  LET js    == [jobs EXCEPT ![i].state = "Completed"]
                              locks == releaseLock(active_locks, i)
                          IN  /\ startEligibleJobs(js, locks) = Loop(js, locks)
                              /\ LoopTurn(Loop(js, locks)) = Loop(js, locks)
      BY DEF ServesLikeTheLoop
    <2> DEFINE js == [jobs EXCEPT ![i].state = "Completed"]
               locks == releaseLock(active_locks, i)
    <2>2. jobs \in Seq(JobType) /\ active_locks \in [Drives -> Nat]
      BY <1>1 DEF Consistent, TypeOK
    <2>3. js \in Seq(JobType)
      <3>1. jobs[i] \in JobType
        BY <2>2, ElementOfSeq
      <3>2. [jobs[i] EXCEPT !.state = "Completed"] \in JobType
        BY <3>1, StateChanges DEF JobStates
      <3>3. js = [jobs EXCEPT ![i] = [jobs[i] EXCEPT !.state = "Completed"]]
        BY <2>2, StateOfJobChanges DEF JobStates
      <3> QED
        BY <2>2, <3>2, <3>3, UpdatedJobs
    <2>4. locks \in [Drives -> Nat]
      BY <2>2 DEF releaseLock, NoJob
    <2> HIDE DEF js, locks
    <2>5. startEligibleJobs(js, locks) = Loop(js, locks) /\ LoopTurn(Loop(js, locks)) = Loop(js, locks)
      BY <2>3, <2>4, LoopServes
    <2> QED
      BY <2>5 DEF js, locks
  <1> QED
    BY <1>1, AlwaysConsistent, PTL
=============================================================================
