----------------------------- MODULE ProductionUi -----------------------------
(***************************************************************************)
(* The production screen (ui/production_ui.cpp) and its read model         *)
(* (ui/production_read_model.cpp): one thread that refreshes its copy of   *)
(* the snapshot, draws, handles one key, and around that starts scans and, *)
(* at the end, cancels the last one.  The scan's worker runs beside it.    *)
(* Focus, scrolling and the cursor are left out; so is the log's limit.    *)
(***************************************************************************)
EXTENDS ProductionScan

CONSTANTS Screen        \* the screen's thread, the only client of the program

NoDevice == [id |-> "Unresolved", facts |-> "none", kind |-> "none"]

ASSUME ProductionUiAssumption == Clients = {Screen} /\ NoDevice \notin DevicesFound

VARIABLES
    seen,           \* the read model's snapshot_
    selected,       \* selected_: a row of seen, or NoRow
    anchor,         \* selection_anchor_: the device to find again, or NoDevice
    notice,         \* whether selection_notice_ has a text
    log,            \* the events: their kind and the generation seen
    modal,          \* the dialog that is open
    at              \* where the thread is in runProductionUi

modelVars == <<seen, selected, anchor, notice>>
uiVars == <<modelVars, log, modal, at>>
allVars == <<scanVars, uiVars>>

NoRow == 0

EventKinds == {"Scanning", "ScanComplete", "ScanFailed", "NotStarted", "SelectionCleared"}

UiTypeOK ==
    /\ ScanTypeOK
    /\ SnapshotType(seen)
    /\ selected \in Nat
    /\ anchor \in DevicesFound \cup {NoDevice}
    /\ notice \in BOOLEAN
    /\ log \subseteq [kind : EventKinds, generation : 0..MaxGenerations]
    /\ modal \in {"None", "Exit", "Settings"}
    /\ at \in {"scan", "calling", "loop", "input", "cancel", "cancelling", "left"}

-----------------------------------------------------------------------------
\* Mutant: the identity alone decides.
sameSelectionById(before, after) ==
    /\ before.id # "Unresolved"
    /\ before.id = after.id

\* A device is found again by its resolved identity and all its other facts.
sameSelection(before, after) ==
    /\ before.id # "Unresolved"
    /\ before = after

SelectedDevice ==
    IF selected \in DOMAIN seen.rows THEN seen.rows[selected].device ELSE NoDevice

\* The device refresh() looks for: the selected one once a scan has begun, or
\* the one that was selected when it began.
Sought(next) ==
    IF next.generation # seen.generation /\ SelectedDevice # NoDevice
    THEN SelectedDevice ELSE anchor

\* Its one match in the new rows.
Kept(next) ==
    LET matches == {i \in DOMAIN next.rows : sameSelection(Sought(next), next.rows[i].device)}
    IN  IF Cardinality(matches) = 1 THEN CHOOSE i \in matches : TRUE ELSE NoRow

Resolves(next) == next.phase # "Inventory" /\ Sought(next) # NoDevice

\* Mutant: an error leaves the selection alone.
refreshThroughErrors(next) ==
    /\ seen' = next
    /\ selected' = IF Resolves(next) THEN Kept(next)
                   ELSE IF next.generation # seen.generation THEN NoRow
                   ELSE selected
    /\ anchor' = IF next.phase # "Inventory" THEN NoDevice ELSE Sought(next)
    /\ notice' = (notice \/ (Resolves(next) /\ Kept(next) = NoRow))

\* Mutant: what is lost when a scan fails is not announced.
refreshSilent(next) ==
    /\ seen' = next
    /\ selected' = IF next.phase = "Failed" THEN NoRow
                   ELSE IF Resolves(next) THEN Kept(next)
                   ELSE IF next.generation # seen.generation THEN NoRow
                   ELSE selected
    /\ anchor' = IF next.phase # "Inventory" THEN NoDevice ELSE Sought(next)
    /\ notice' = (notice \/ (Resolves(next) /\ Kept(next) = NoRow))

\* refresh: a new generation takes the selection back until its devices are
\* known; then it goes to the one row that is the same device.  An error
\* clears it.
refresh(next) ==
    /\ seen' = next
    /\ selected' = IF next.phase = "Failed" THEN NoRow
                   ELSE IF Resolves(next) THEN Kept(next)
                   ELSE IF next.generation # seen.generation THEN NoRow
                   ELSE selected
    /\ anchor' = IF next.phase # "Inventory" THEN NoDevice ELSE Sought(next)
    /\ notice' = \/ notice
                 \/ Resolves(next) /\ Kept(next) = NoRow
                 \/ next.phase = "Failed" /\ selected # NoRow

\* select: not while an error is shown.
select(i) ==
    /\ seen.phase # "Failed"
    /\ selected' = i
    /\ anchor' = NoDevice
    /\ notice' = FALSE
    /\ UNCHANGED seen

Logged(kinds) == log' = log \cup [kind : kinds, generation : {seen'.generation}]

NoticeEvent == IF notice' THEN {"SelectionCleared"} ELSE {}

-----------------------------------------------------------------------------
Scanning == UNCHANGED <<modelVars, log, modal>>
Ui == UNCHANGED scanVars

\* The scan at the start and on R; startScan() is called, and may be refused.
startScan ==
    /\ \/ at = "scan"
       \/ at = "input" /\ modal = "None"
    /\ BeginStart(Screen, "start") \/ RefuseStart(Screen)
    /\ at' = "calling"
    /\ Scanning

\* The steps of the call itself, and of the cancellation at the end.
inCall ==
    /\ at \in {"calling", "cancelling"}
    /\ CallStep(Screen)
    /\ UNCHANGED at /\ Scanning

\* The rest of rescan(): the refresh after the call, and what is logged.
rescan ==
    /\ at = "calling" /\ call[Screen] = Idle
    /\ refresh(snapshot)
    /\ Logged(NoticeEvent \cup
          IF answer[Screen] = "Refused" THEN {"NotStarted"}
          ELSE IF answer[Screen] = "Failure" \/ snapshot.phase = "Failed" THEN {"ScanFailed"}
          ELSE IF snapshot.phase = "Complete" THEN {"ScanComplete"}
          ELSE {"Scanning"})
    /\ at' = "loop"
    /\ UNCHANGED modal /\ Ui

\* The head of the loop: what changed since the last turn is logged.
refreshTurn ==
    /\ at = "loop"
    /\ refresh(snapshot)
    /\ IF snapshot.phase = seen.phase THEN UNCHANGED log
       ELSE Logged(NoticeEvent \cup
               IF snapshot.phase = "Complete" THEN {"ScanComplete"}
               ELSE IF snapshot.phase = "Failed" THEN {"ScanFailed"}
               ELSE {})
    /\ at' = "input"
    /\ UNCHANGED modal /\ Ui

\* getch returns: nothing within 100 ms, or a key without an effect here.
noInput == at = "input" /\ at' = "loop" /\ Scanning /\ Ui

selectDrive(i) ==
    /\ at = "input" /\ modal = "None"
    /\ select(i)
    /\ at' = "loop"
    /\ UNCHANGED <<log, modal>> /\ Ui

openDialog(opened) ==
    /\ at = "input" /\ modal = "None"
    /\ modal' = opened
    /\ at' = "loop"
    /\ UNCHANGED <<modelVars, log>> /\ Ui

closeDialog ==
    /\ at = "input" /\ modal # "None"
    /\ modal' = "None"
    /\ at' = "loop"
    /\ UNCHANGED <<modelVars, log>> /\ Ui

confirmExit ==
    /\ at = "input" /\ modal = "Exit"
    /\ at' = "cancel"
    /\ Scanning /\ Ui

CancelOnExit ==
    /\ at = "cancel"
    /\ BeginCancel(Screen)
    /\ at' = "cancelling"
    /\ Scanning

leave ==
    /\ at = "cancelling" /\ call[Screen] = Idle
    /\ at' = "left"
    /\ Scanning /\ Ui

UiInit ==
    /\ ScanInit
    /\ seen = Empty
    /\ selected = NoRow /\ anchor = NoDevice /\ notice = FALSE
    /\ log = {}
    /\ modal = "None"
    /\ at = "scan"

\* What the thread does of its own, whatever the user does.
UiStep ==
    \/ at = "scan" /\ startScan
    \/ inCall \/ rescan \/ refreshTurn \/ noInput \/ CancelOnExit \/ leave

UiNext ==
    \/ WorkerStep /\ UNCHANGED uiVars
    \/ startScan
    \/ inCall \/ rescan \/ refreshTurn \/ noInput
    \/ closeDialog \/ confirmExit \/ CancelOnExit \/ leave
    \/ \E i \in DOMAIN seen.rows : selectDrive(i)
    \/ \E opened \in {"Exit", "Settings"} : openDialog(opened)

\* The loop never blocks: getch waits 100 ms at most.
UiSpec == UiInit /\ [][UiNext]_allVars /\ WF_allVars(WorkerStep /\ UNCHANGED uiVars) /\ WF_allVars(UiStep)

-----------------------------------------------------------------------------
\* A disk is shown as READY only by the newest snapshot, and not while a scan
\* that may take that back is under way.
ShownVerdictsAreCurrent ==
    at = "input" /\ (\E i \in DOMAIN seen.rows : seen.rows[i].status = "Ready")
        => seen = snapshot /\ worker.pc \in {"none", "lower", "finished"}

\* The index that is selected, and the device that is sought, always belong to
\* the snapshot that is shown: neither outlives its rows.  Everything keeps its
\* type meanwhile.
SelectionFitsSnapshot ==
    /\ UiTypeOK
    /\ selected # NoRow => selected \in DOMAIN seen.rows /\ seen.phase \in {"Ownership", "Complete"}
    /\ anchor # NoDevice => selected = NoRow /\ seen.phase = "Inventory"

\* The device that is selected, or that was when the scan began.
Carried == IF SelectedDevice # NoDevice THEN SelectedDevice ELSE anchor

\* Whatever row it is at, what is selected after a refresh is the device that
\* was selected before, with everything observed of it; from one scan to the
\* next it is so only by a resolved identity.  A new device never inherits it.
SelectionStaysOnDevice ==
    [][seen' # seen /\ selected' # NoRow =>
          /\ SelectedDevice' = Carried
          /\ (selected = NoRow \/ seen'.generation # seen.generation)
                => Carried.id # "Unresolved"]_allVars

\* A selection that could not be kept is reported in the log, in the same turn.
LostSelectionIsReported ==
    [][Carried # NoDevice /\ Carried' = NoDevice =>
          [kind |-> "SelectionCleared", generation |-> seen'.generation] \in log']_allVars

\* The screen does not stay with a scan that is over, and leaving it ends even
\* in the middle of one.
ShowsTheEnd ==
    /\ seen.phase \notin Over ~> (seen.phase \in Over \/ at = "left")
    /\ at = "cancel" ~> (at = "left" /\ Ended)

\* "The Event Log records completion or a scan error" (MANUAL-0.3.0.md:81): a
\* scan whose end is on the screen has its end in the log.
EndIsLogged ==
    at = "input" =>
        /\ seen.phase = "Complete" =>
              [kind |-> "ScanComplete", generation |-> seen.generation] \in log
        /\ seen.phase = "Failed" =>
              [kind |-> "ScanFailed", generation |-> seen.generation] \in log
=============================================================================
