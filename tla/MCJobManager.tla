---------------------------- MODULE MCJobManager ----------------------------
(***************************************************************************)
(* The job manager with one operation that has every control and one that  *)
(* has none, and one that even a protected drive allows.                   *)
(***************************************************************************)
EXTENDS JobManager, TLC

Op(class, controls) == [class |-> class, can_pause |-> controls,
                        can_resume |-> controls, can_cancel |-> controls]

MCOperations == {Op("Destructive", TRUE), Op("StatusOnly", FALSE)}

\* One value updateProgress rejects and one it records.
MCReportedProgress == {-1, 0}

\* What bounds a behaviour besides MaxJobs: up to two jobs, which meet every
\* outcome of a start, at most one drive is seen as anything but usable or
\* exchanged; beyond, one drive may be exchanged, so that a start fails while
\* others contend for the slots.  A fourth job is explored with none paused and
\* none cancelled.
Explored ==
    LET Seen(views) == Cardinality({d \in Drives : inventory[d] \in views})
    IN  /\ IF Len(jobs) <= 2
           THEN Seen(Observations \ {"Other", "Usable"}) <= 1
           ELSE Seen({"Other"}) <= 1 /\ Seen({"Other", "Usable"}) = Cardinality(Drives)
        /\ Len(jobs) = MaxJobs =>
              \A i \in DOMAIN jobs : jobs[i].state \notin {"Paused", "Cancelled"}

DriveSymmetry == Permutations(Drives)
=============================================================================
