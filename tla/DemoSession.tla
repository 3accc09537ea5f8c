---------------------------- MODULE DemoSession ----------------------------
(***************************************************************************)
(* The demo session (app/demo_session.cpp): workflows become jobs of the   *)
(* job manager, simulated time makes them progress, and two trackers and   *)
(* the event log report them.  The fixture inventory never changes, so     *)
(* what the session remembers of a drive is what the manager resolves.     *)
(***************************************************************************)
EXTENDS JobManager

CONSTANTS
    FailingDrives,      \* the drives whose status is Failing
    Workflows,          \* the catalog entries that can be requested
    Tick,               \* kDemoTick, in the unit of Elapsed
    Elapsed,            \* the times advance is called with
    TickProgress,       \* what a tick adds to a job's progress, in percent
    FailAt              \* the progress at which a simulated self-test fails

Features == {"Smart", "AtaHpa", "Benchmark", "Sanitize"}
Tracked == {"Smart", "Benchmark"}

WorkflowType == [feature : Features, inspection : BOOLEAN, op : OperationType]

ASSUME DemoSessionAssumption ==
    /\ FailingDrives \subseteq Drives
    /\ Workflows \subseteq WorkflowType
    /\ {w.op : w \in Workflows} \subseteq Operations
    /\ StartModes = {"Demo"}
    /\ Cardinality(Drives) <= MaxParallelDrives
    /\ HostObservations \subseteq {"Protected", "Usable"}
    /\ Tick \in Nat \ {0}
    /\ Elapsed \subseteq Int
    /\ TickProgress \in 1..100
    /\ FailAt \in 1..100

VARIABLES
    trackers,           \* smart_progress_ and benchmark_progress_
    tick_remainder,     \* tick_remainder_
    news                \* the events the last call added to the log, in order

sessionVars == <<trackers, tick_remainder, news>>
demoVars == <<vars, sessionVars>>

EventKinds == {"Scanned", "Inspected", "Created", "Paused", "Resumed", "Withdrawn",
               "Stopped", "Started", "Failed", "Completed", "Blocked"}

Event(kind, i) == [kind |-> kind, job |-> i]

SessionTypeOK ==
    /\ TypeOK
    /\ trackers \in [Tracked -> [job : Nat, state : JobStates, progress : 0..100]]
    /\ tick_remainder \in 0..(Tick - 1)
    /\ news \in Seq([kind : EventKinds, job : Nat])

-----------------------------------------------------------------------------
\* The controls and classes the mock providers give their operations.
Plan(class, pausable, cancellable) ==
    [class |-> class, can_pause |-> pausable, can_resume |-> pausable,
     can_cancel |-> cancellable]

SelfTest   == Plan("FirmwareSelfTest", FALSE, TRUE)
RawData    == Plan("StatusOnly", FALSE, FALSE)
Inspect    == Plan("ReadOnly", FALSE, FALSE)
Benchmark  == Plan("ReadOnly", TRUE, TRUE)
Overwrite  == Plan("Destructive", TRUE, TRUE)
ErasePlan  == Plan("Irreversible", FALSE, FALSE)

\* The catalog, up to the names of workflows that behave alike.
demoWorkflowCatalog ==
    {[feature |-> "Smart",     inspection |-> FALSE, op |-> SelfTest],
     [feature |-> "Smart",     inspection |-> TRUE,  op |-> RawData],
     [feature |-> "AtaHpa",    inspection |-> TRUE,  op |-> Inspect],
     [feature |-> "AtaHpa",    inspection |-> FALSE, op |-> ErasePlan],
     [feature |-> "Benchmark", inspection |-> FALSE, op |-> Benchmark],
     [feature |-> "Sanitize",  inspection |-> FALSE, op |-> ErasePlan],
     [feature |-> "Sanitize",  inspection |-> FALSE, op |-> Overwrite]}

isHealthOperation(op) == op.class = "FirmwareSelfTest"

canTerminate ==
    \A i \in DOMAIN jobs : jobs[i].state \in Active => jobs[i].op.can_cancel

-----------------------------------------------------------------------------
\* Mutant: only the tracker whose job is active is copied again.
SyncedActive(js) ==
    [f \in Tracked |->
        LET i == trackers[f].job
        IN  IF i = NoJob THEN trackers[f]
            ELSE IF js[i].state \notin Active THEN trackers[f]
            ELSE [job |-> i, state |-> js[i].state, progress |-> js[i].progress]]

\* syncTrackedProgress: the trackers copy the jobs they follow.
Synced(js) ==
    [f \in Tracked |->
        LET i == trackers[f].job
        IN  IF i = NoJob THEN trackers[f]
            ELSE [job |-> i, state |-> js[i].state, progress |-> js[i].progress]]

\* The events for the jobs queued in js that run in after, in the order of their ids.
Starts(js, after) ==
    LET Before[i \in 0..Len(js)] ==
            IF i = 0 THEN <<>>
            ELSE IF js[i].state = "Queued" /\ after[i].state = "Running"
            THEN Append(Before[i - 1], Event("Started", i))
            ELSE Before[i - 1]
    IN  Before[Len(js)]

Simulated == [jobs |-> jobs, locks |-> active_locks, events |-> <<>>]

Recorded(js, i, record) == [k \in DOMAIN js |-> IF k = i THEN record ELSE js[k]]

\* Mutant: a completed job keeps its drive and the queue is not served.
EndsSilently(s, i, state, progress) ==
    LET record == [s.jobs[i] EXCEPT !.state = state, !.progress = progress]
    IN  [jobs |-> Recorded(s.jobs, i, record), locks |-> s.locks,
         events |-> Append(s.events, Event(state, i))]

\* A job that ends during a tick; the queue is served at once.
Ends(s, i, state, progress) ==
    LET record == [s.jobs[i] EXCEPT !.state = state, !.progress = progress]
        after  == startEligibleJobs(Recorded(s.jobs, i, record), releaseLock(s.locks, i))
    IN  [jobs |-> after.jobs, locks |-> after.locks,
         events |-> Append(s.events, Event(state, i))]

\* Mutant: completion is looked at before the simulated failure.
TickJobCompleting(s, i) ==
    LET reached  == s.jobs[i].progress + TickProgress
        progress == IF reached < 100 THEN reached ELSE 100
    IN  IF progress = 100
        THEN Ends(s, i, "Completed", 100)
        ELSE [s EXCEPT !.jobs = Recorded(@, i, [@[i] EXCEPT !.progress = progress])]

\* One running job's share of a tick.
TickJob(s, i) ==
    LET reached  == s.jobs[i].progress + TickProgress
        progress == IF reached < 100 THEN reached ELSE 100
    IN  IF /\ s.jobs[i].drive \in FailingDrives
           /\ isHealthOperation(s.jobs[i].op)
           /\ progress >= FailAt
        THEN Ends(s, i, "Failed", progress)
        ELSE IF progress = 100
        THEN Ends(s, i, "Completed", 100)
        ELSE [s EXCEPT !.jobs = Recorded(@, i, [@[i] EXCEPT !.progress = progress])]

\* The jobs running at the start of a tick progress, in the order of their ids, if they
\* still run when it is their turn.
RunningTicked(s) ==
    LET After[i \in 0..Len(s.jobs)] ==
            IF i = 0 THEN s
            ELSE LET now == After[i - 1]
                 IN  IF s.jobs[i].state = "Running" /\ now.jobs[i].state = "Running"
                     THEN TickJob(now, i)
                     ELSE now
    IN  After[Len(s.jobs)]

\* Mutant: jobs started earlier in the tick are reported by the next one.
TickOnceSilent(s) == RunningTicked(s)

\* tickOnce: the jobs started by the end of another are only reported.
TickOnce(s) ==
    LET after == RunningTicked(s)
    IN  [after EXCEPT !.events = @ \o Starts(s.jobs, after.jobs)]

\* Mutant: the time that does not fill a tick is dropped.
PassedForgetting(remainder, elapsed) ==
    [ticks |-> (remainder + elapsed) \div Tick, remainder |-> 0]

\* The whole ticks in the time that has passed, and what is left for the next.
Passed(remainder, elapsed) ==
    [ticks |-> (remainder + elapsed) \div Tick, remainder |-> (remainder + elapsed) % Tick]

\* What n ticks make of s.
Ticks(s, n) ==
    LET After[k \in 0..n] == IF k = 0 THEN s ELSE TickOnce(After[k - 1])
    IN  After[n]

-----------------------------------------------------------------------------
SessionInit ==
    /\ Init
    /\ trackers = [f \in Tracked |-> [job |-> NoJob, state |-> "Planned", progress |-> 0]]
    /\ tick_remainder = 0
    /\ news = <<>>

scanInventory ==
    /\ news' = <<Event("Scanned", NoJob)>>
    /\ UNCHANGED <<vars, trackers, tick_remainder>>

runWorkflow(d, w) ==
    /\ inventory[d] # "Protected"
    /\ UNCHANGED tick_remainder
    /\ \/ /\ w.inspection
          /\ news' = <<Event("Inspected", NoJob)>>
          /\ UNCHANGED <<vars, trackers>>
       \/ /\ ~w.inspection
          /\ submit(d, inventory[d], w.op)
          /\ news' = <<Event("Created", Len(jobs'))>>
          /\ trackers' = IF w.feature \in Tracked
                         THEN [trackers EXCEPT ![w.feature] =
                                 [job |-> Len(jobs'), state |-> jobs'[Len(jobs')].state,
                                  progress |-> 0]]
                         ELSE trackers

pauseJob(i) ==
    /\ pause(i)
    /\ news' = <<Event("Paused", i)>>
    /\ trackers' = Synced(jobs')
    /\ UNCHANGED tick_remainder

resumeJob(i) ==
    /\ resume(i)
    /\ news' = <<Event("Resumed", i)>>
    /\ trackers' = Synced(jobs')
    /\ UNCHANGED tick_remainder

cancelJob(i) ==
    /\ \/ cancelQueued(i) /\ news' = <<Event("Withdrawn", i)>>
       \/ cancelActive(i) /\ news' = <<Event("Stopped", i)>> \o Starts(jobs, jobs')
    /\ trackers' = Synced(jobs')
    /\ UNCHANGED tick_remainder

advance(elapsed) ==
    \E passed \in {Passed(tick_remainder, elapsed)} :
    \E after \in {Ticks(Simulated, passed.ticks)} :
        /\ elapsed > 0
        /\ tick_remainder' = passed.remainder
        /\ jobs' = after.jobs /\ active_locks' = after.locks
        /\ news' = after.events
        /\ trackers' = IF passed.ticks = 0 THEN trackers ELSE Synced(after.jobs)
        /\ UNCHANGED <<mode, inventory>>

requestTermination ==
    /\ news' = IF canTerminate THEN <<>> ELSE <<Event("Blocked", NoJob)>>
    /\ UNCHANGED <<vars, trackers, tick_remainder>>

Advance == \E elapsed \in Elapsed : advance(elapsed)

SessionNext ==
    \/ Advance
    \/ scanInventory
    \/ requestTermination
    \/ \E d \in Drives, w \in Workflows : runWorkflow(d, w)
    \/ \E i \in DOMAIN jobs : pauseJob(i) \/ resumeJob(i) \/ cancelJob(i)

SessionSpec == SessionInit /\ [][SessionNext]_demoVars

-----------------------------------------------------------------------------
\* Whatever was called last, a tracker shows the job it follows as the job
\* manager has it: no handler leaves it behind, and a workflow that takes a
\* tracker over leaves nothing of the former job in it.
TrackersFollowJobs ==
    \A f \in Tracked :
        trackers[f].job # NoJob =>
            /\ trackers[f].job \in DOMAIN jobs
            /\ trackers[f].state = jobs[trackers[f].job].state
            /\ trackers[f].progress = jobs[trackers[f].job].progress

\* The drives and the queue stay as the job manager leaves them even though a
\* tick ends many jobs, each of which serves the queue, in one call; and every
\* record keeps its type.
DrivesInOrder ==
    /\ SessionTypeOK
    /\ LocksMatchJobs
    /\ NoIdleDrive

\* A self-test never completes on a failing drive.
FailingDrivesFail ==
    \A i \in DOMAIN jobs :
        jobs[i].drive \in FailingDrives /\ isHealthOperation(jobs[i].op)
            => jobs[i].state # "Completed"

Occurs(kind, i) == {k \in DOMAIN news' : news'[k] = Event(kind, i)}

StoryTold ==
    /\ \A i \in DOMAIN jobs :
          LET left == jobs[i].state = "Queued" /\ jobs'[i].state \notin {"Queued", "Cancelled"}
              ended(state) == jobs[i].state # state /\ jobs'[i].state = state
          IN  /\ Cardinality(Occurs("Started", i)) = IF left THEN 1 ELSE 0
              /\ Cardinality(Occurs("Completed", i)) = IF ended("Completed") THEN 1 ELSE 0
              /\ Cardinality(Occurs("Failed", i)) = IF ended("Failed") THEN 1 ELSE 0
              /\ Cardinality(Occurs("Stopped", i) \cup Occurs("Withdrawn", i))
                    = IF ended("Cancelled") THEN 1 ELSE 0
    /\ \A k \in DOMAIN news' :
          news'[k].kind = "Started" =>
             \E l \in 1..(k - 1) :
                 /\ news'[l].kind \in {"Completed", "Failed", "Stopped"}
                 /\ jobs'[news'[l].job].drive = jobs'[news'[k].job].drive

\* The log tells every call's story: each job that ends, fails or leaves the
\* queue is reported exactly once by the call that does it, and its start comes
\* after the end of the job that had its drive.
EventsTellTheStory == [][StoryTold]_demoVars

\* Simulated time is never lost, whatever pieces it comes in: advancing by a
\* and then by b leaves what advancing by a + b leaves.
TimeIsAdditive ==
    \A a, b \in {e \in Elapsed : e > 0} :
        LET first  == Passed(tick_remainder, a)
            second == Passed(first.remainder, b)
            once   == Passed(tick_remainder, a + b)
        IN  /\ second.remainder = once.remainder
            /\ Ticks(Ticks(Simulated, first.ticks), second.ticks) = Ticks(Simulated, once.ticks)
=============================================================================
