----------------------------- MODULE DemoScreen -----------------------------
(***************************************************************************)
(* The demo screen (prototype/demo_ui.cpp): one thread that, until it is   *)
(* left, lets simulated time pass and handles one key or click at a time.  *)
(* At most one dialog is open; while it is, keys and clicks reach only it, *)
(* but time goes on.  Drawing, focus and scrolling are DemoUi's.           *)
(***************************************************************************)
EXTENDS DemoSession

VARIABLES
    dialog,         \* the dialog that is open: show_workflow, confirm_detach, ...
    left            \* how the loop was left: the last signal, or "No"

screenVars == <<dialog, left>>
allVars == <<demoVars, screenVars>>

Dialogs == {"None", "Workflow", "Settings", "Detach", "Terminate"}

-----------------------------------------------------------------------------
ScreenInit == SessionInit /\ dialog = "None" /\ left = "No"

\* Mutant: time stands still behind a dialog.
tickCoreModal ==
    /\ left = "No" /\ dialog = "None"
    /\ \E elapsed \in Elapsed : elapsed >= Tick /\ advance(elapsed)
    /\ UNCHANGED screenVars

\* The first statement of the loop, whatever dialog is open.
tickCore ==
    /\ left = "No"
    /\ \E elapsed \in Elapsed : elapsed >= Tick /\ advance(elapsed)
    /\ UNCHANGED screenVars

\* A key or a click outside any dialog.
Free == left = "No" /\ dialog = "None"

scanDemoInventory == Free /\ scanInventory /\ UNCHANGED screenVars

applyJobPrimary(i) ==
    /\ Free
    /\ \/ jobs[i].state = "Running" /\ pauseJob(i)
       \/ jobs[i].state = "Paused" /\ resumeJob(i)
       \/ jobs[i].state = "Queued" /\ cancelJob(i)
    /\ UNCHANGED screenVars

applyJobStop(i) == Free /\ cancelJob(i) /\ UNCHANGED screenVars

\* The workflow dialog opens for a drive that is not protected, the settings and
\* the detach dialog always.
openDialog(opened) ==
    /\ Free
    /\ opened = "Workflow" => \E d \in Drives : inventory[d] # "Protected"
    /\ dialog' = opened
    /\ UNCHANGED <<demoVars, left>>

openTerminateDialog ==
    /\ Free
    /\ requestTermination
    /\ dialog' = IF canTerminate THEN "Terminate" ELSE "None"
    /\ UNCHANGED left

closeDialog ==
    /\ left = "No" /\ dialog # "None"
    /\ dialog' = "None"
    /\ UNCHANGED <<demoVars, left>>

runSelectedWorkflowSimulation(d, w) ==
    /\ left = "No" /\ dialog = "Workflow"
    /\ dialog' = "None"
    /\ runWorkflow(d, w)
    /\ UNCHANGED left

\* Confirming Detach or Terminate ends the loop.
confirmLeaving ==
    /\ left = "No" /\ dialog \in {"Detach", "Terminate"}
    /\ left' = dialog
    /\ dialog' = "None"
    /\ UNCHANGED demoVars

ScreenNext ==
    \/ tickCore
    \/ scanDemoInventory
    \/ openTerminateDialog \/ closeDialog \/ confirmLeaving
    \/ \E opened \in {"Workflow", "Settings", "Detach"} : openDialog(opened)
    \/ \E d \in Drives, w \in Workflows : runSelectedWorkflowSimulation(d, w)
    \/ \E i \in DOMAIN jobs : applyJobPrimary(i) \/ applyJobStop(i)

\* getch waits 30 ms at most, so the loop comes back to tickCore again and again.
ScreenSpec == ScreenInit /\ [][ScreenNext]_allVars /\ WF_allVars(tickCore)

-----------------------------------------------------------------------------
\* If jobs do not stay paused, every queued job leaves the queue or the screen
\* is left: time passes whatever the user does, so the job that holds the drive
\* ends after enough ticks and hands the drive on.
QueueDrains ==
    <>[](\A i \in DOMAIN jobs : jobs[i].state # "Paused") =>
        \A i \in 1..MaxJobs :
            (i \in DOMAIN jobs /\ jobs[i].state = "Queued")
                ~> (left # "No" \/ (i \in DOMAIN jobs /\ jobs[i].state # "Queued"))

\* What the manual says of Shift+Q (MANUAL-0.2.0.md:180): a non-cancellable
\* firmware erase that is active blocks the termination of the session.
EraseBlocksTermination ==
    [][left' = "Terminate" /\ left = "No" => canTerminate]_allVars
=============================================================================
