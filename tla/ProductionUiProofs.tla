------------------------- MODULE ProductionUiProofs -------------------------
(***************************************************************************)
(* Theorems about the production screen: what it shows as selected or as   *)
(* READY belongs to the snapshot that is shown, a selection stays on its   *)
(* device from one snapshot to the next, and one that is lost is reported. *)
(*                                                                         *)
(* They rest on ScanInv, which holds for the screen's thread as for any    *)
(* client, and on one relation between the screen and the application:     *)
(* SeenIsFormer says how far the copy on the screen may lag behind.        *)
(***************************************************************************)
EXTENDS ProductionUi, ProductionScanProofs, FiniteSetTheorems

-----------------------------------------------------------------------------
(* The inductive invariant. *)

UiShapes ==
    /\ seen \in Snapshots
    /\ selected \in Nat
    /\ anchor \in DevicesFound \cup {NoDevice}
    /\ notice \in BOOLEAN
    /\ log \subseteq [kind : EventKinds, generation : 0..MaxGenerations]
    /\ modal \in {"None", "Exit", "Settings"}
    /\ at \in {"scan", "calling", "loop", "input", "cancel", "cancelling", "left"}

\* later is the snapshot former, or what the same scan published after it.
Follows(former, later) ==
    \/ later = former
    \/ former.phase = "Inventory"
    \/ former.phase = "Ownership" /\ later.phase = "Failed"
    \/ /\ former.phase = "Ownership" /\ later.phase = "Complete"
       /\ Publication!Judged(former.rows, later.rows)

SeenIsFormer ==
    /\ RowsFitPhase(seen)
    /\ seen.generation <= snapshot.generation
    /\ seen.generation = snapshot.generation => Follows(seen, snapshot)

\* The thread has a call under way only where it calls, and but for a scan that
\* it is starting it shows the newest generation.
ThreadInPlace ==
    /\ at \notin {"calling", "cancelling"} => call[Screen].pc = "idle"
    /\ at = "cancelling" =>
          call[Screen].pc = "idle" \/ call[Screen] = [op |-> "cancel", pc |-> "waiting"]
    /\ at # "calling" => seen.generation = snapshot.generation

SelectionFits ==
    /\ selected # NoRow => selected \in DOMAIN seen.rows /\ seen.phase \in {"Ownership", "Complete"}
    /\ anchor # NoDevice => selected = NoRow /\ seen.phase = "Inventory"

UiInv ==
    /\ ScanInv
    /\ UiShapes
    /\ SeenIsFormer
    /\ ThreadInPlace
    /\ SelectionFits

-----------------------------------------------------------------------------
(* The scans of the screen. *)

LEMMA ScreenIsClient == Screen \in Clients /\ \A c \in Clients : c = Screen
  BY ProductionUiAssumption

\* The screen's thread is a client: what it does to the scans, a client does.
LEMMA StepScans == [UiNext]_allVars => [ScanNext]_scanVars
  <1> SUFFICES ASSUME [UiNext]_allVars PROVE [ScanNext]_scanVars
    OBVIOUS
  <1>1. CASE UNCHANGED scanVars
    BY <1>1
  <1>2. CASE startScan
    BY <1>2, ScreenIsClient DEF startScan, ScanNext
  <1>3. CASE inCall
    BY <1>3, ScreenIsClient DEF inCall, ScanNext
  <1>4. CASE CancelOnExit
    BY <1>4, ScreenIsClient DEF CancelOnExit, ScanNext
  <1>5. CASE WorkerStep
    BY <1>5 DEF ScanNext
  <1> QED
    BY <1>1, <1>2, <1>3, <1>4, <1>5
       DEF UiNext, rescan, refreshTurn, noInput, closeDialog, confirmExit, leave,
           selectDrive, openDialog, Ui, allVars

\* Two snapshots with the same fields are the same.
LEMMA SameSnapshot ==
    ASSUME NEW s \in Snapshots, NEW t \in Snapshots,
           s.generation = t.generation, s.phase = t.phase, s.rows = t.rows
    PROVE  s = t
  BY DEF Snapshots

\* A publication follows what was shown of its scan before.
LEMMA LaterFollows ==
    ASSUME snapshot \in Snapshots, snapshot' \in Snapshots, [Publication!Next]_Shown,
           NEW former \in Snapshots, former.generation <= snapshot.generation,
           former.generation = snapshot.generation => Follows(former, snapshot)
    PROVE  /\ former.generation <= snapshot'.generation
           /\ former.generation = snapshot'.generation => Follows(former, snapshot')
  <1>1. /\ former.generation \in Nat /\ snapshot.generation \in Nat
        /\ snapshot'.generation \in Nat
    BY DEF Snapshots
  <1>2. CASE UNCHANGED Shown
    <2>1. snapshot' = snapshot
      BY <1>2, SameSnapshot DEF Shown
    <2> QED
      BY <2>1
  <1>3. CASE Publication!Begin
    <2>1. snapshot'.generation = snapshot.generation + 1
      BY <1>3 DEF Publication!Begin, Publication!Show
    <2> QED
      BY <1>1, <2>1
  <1>4. CASE Publication!Reveal
    <2>1. snapshot.phase = "Inventory" /\ snapshot'.generation = snapshot.generation
      BY <1>4 DEF Publication!Reveal, Publication!Show, Publication!Under
    <2> QED
      BY <1>1, <2>1 DEF Follows
  <1>5. CASE Publication!Conclude
    <2>1. /\ snapshot.phase = "Ownership" /\ snapshot'.generation = snapshot.generation
          /\ snapshot'.phase = "Complete" /\ Publication!Judged(snapshot.rows, snapshot'.rows)
      BY <1>5 DEF Publication!Conclude, Publication!Show, Publication!Under
    <2> QED
      BY <1>1, <2>1 DEF Follows
  <1>6. CASE Publication!Fail
    <2>1. /\ snapshot.phase \in {"Inventory", "Ownership"}
          /\ snapshot'.generation = snapshot.generation /\ snapshot'.phase = "Failed"
      BY <1>6 DEF Publication!Fail, Publication!Show, Publication!Under
    <2> QED
      BY <1>1, <2>1 DEF Follows
  <1> QED
    BY <1>2, <1>3, <1>4, <1>5, <1>6 DEF Publication!Next

\* The worker, and a client that waits, publish nothing of another generation.
LEMMA WorkerKeepsGeneration ==
    ASSUME ScanInv, WorkerStep
    PROVE  snapshot'.generation = snapshot.generation
  <1>1. Reveal \/ Publish \/ PublishFailure => snapshot'.generation = worker.local.generation
    BY DEF Reveal, Publish, PublishFailure, Snapshot
  <1>2. Reveal \/ Publish \/ PublishFailure => worker.local.generation = snapshot.generation
    BY DEF Reveal, Publish, PublishFailure, ScanInv, WorkerShows, Ended
  <1> QED
    BY <1>1, <1>2 DEF WorkerStep, WorkerThrows, ScanFails, ScanFinds, Assess, LowerFlag

-----------------------------------------------------------------------------
(* What a refresh does to the selection. *)

LEMMA RowsOfSnapshot ==
    ASSUME NEW s \in Snapshots
    PROVE  /\ \A i \in DOMAIN s.rows : s.rows[i].device \in DevicesFound /\ i \in Nat /\ i # NoRow
           /\ s.rows = <<>> => DOMAIN s.rows = {}
  <1>1. s.rows \in Seq(RowType)
    BY DEF Snapshots
  <1>2. DOMAIN s.rows = 1..Len(s.rows) /\ Len(s.rows) \in Nat
    BY <1>1, LenProperties
  <1>3. ASSUME NEW i \in DOMAIN s.rows
        PROVE  s.rows[i].device \in DevicesFound
    <2>1. s.rows[i] \in RowType
      BY <1>1, <1>2, ElementOfSeq
    <2> QED
      BY <2>1 DEF RowType
  <1> QED
    BY <1>2, <1>3 DEF NoRow

\* The device that is found again is the one that was sought.
LEMMA KeptIsSought ==
    ASSUME NEW next, Kept(next) # NoRow
    PROVE  /\ Kept(next) \in DOMAIN next.rows
           /\ next.rows[Kept(next)].device = Sought(next)
           /\ Sought(next).id # "Unresolved"
  <1> DEFINE matches == {i \in DOMAIN next.rows : sameSelection(Sought(next), next.rows[i].device)}
  <1>1. Cardinality(matches) = 1 /\ Kept(next) = CHOOSE i \in matches : TRUE
    BY DEF Kept
  <1>2. matches # {}
    BY <1>1, FS_EmptySet
  <1>3. Kept(next) \in matches
    BY <1>1, <1>2
  <1> QED
    BY <1>3 DEF sameSelection

\* The device that is carried from one refresh to the next: what is selected is
\* a device that was found, and nothing is carried but that or the anchor.
LEMMA CarriedDevice ==
    ASSUME UiInv
    PROVE  /\ selected # NoRow => /\ SelectedDevice = seen.rows[selected].device
                                  /\ SelectedDevice # NoDevice /\ SelectedDevice \in DevicesFound
                                  /\ anchor = NoDevice
           /\ selected = NoRow => SelectedDevice = NoDevice
           /\ SelectedDevice \in DevicesFound \cup {NoDevice}
  <1>1. seen \in Snapshots /\ SelectionFits
    BY DEF UiInv, UiShapes
  <1>2. selected = NoRow => selected \notin DOMAIN seen.rows
    BY <1>1, RowsOfSnapshot
  <1>3. selected # NoRow => /\ selected \in DOMAIN seen.rows /\ anchor = NoDevice
                            /\ seen.rows[selected].device \in DevicesFound
    BY <1>1, RowsOfSnapshot DEF SelectionFits
  <1> QED
    BY <1>2, <1>3, ProductionUiAssumption DEF SelectedDevice

\* Where a scan stands, the rows that were shown of it are still there, with
\* the same devices.
LEMMA RowsStay ==
    ASSUME UiInv, seen.generation = snapshot.generation,
           selected # NoRow, snapshot.phase # "Failed"
    PROVE  /\ selected \in DOMAIN snapshot.rows /\ snapshot.phase \in {"Ownership", "Complete"}
           /\ snapshot.rows[selected].device = seen.rows[selected].device
  <1>1. selected \in DOMAIN seen.rows /\ seen.phase \in {"Ownership", "Complete"}
    BY DEF UiInv, SelectionFits
  <1>2. Follows(seen, snapshot)
    BY DEF UiInv, SeenIsFormer
  <1>3. CASE snapshot = seen
    BY <1>1, <1>3
  <1>4. CASE snapshot.phase = "Complete" /\ Publication!Judged(seen.rows, snapshot.rows)
    BY <1>1, <1>4 DEF Publication!Judged
  <1> QED
    BY <1>1, <1>2, <1>3, <1>4 DEF Follows

\* After a refresh: the selection is gone, or is the row that was sought, or
\* stays at its row of the same scan.
LEMMA Refreshed ==
    ASSUME UiInv, refresh(snapshot)
    PROVE  /\ seen' = snapshot
           /\ \/ selected' = NoRow
              \/ /\ Resolves(snapshot) /\ selected' = Kept(snapshot)
                 /\ selected' \in DOMAIN snapshot.rows
                 /\ snapshot.rows[selected'].device = Sought(snapshot)
                 /\ Sought(snapshot).id # "Unresolved"
              \/ /\ ~Resolves(snapshot) /\ selected' = selected /\ selected # NoRow
                 /\ snapshot.phase # "Failed" /\ seen.generation = snapshot.generation
                 /\ selected \in DOMAIN snapshot.rows
                 /\ snapshot.rows[selected].device = seen.rows[selected].device
  BY KeptIsSought, RowsStay DEF refresh

LEMMA SoughtIsTyped ==
    ASSUME UiInv
    PROVE  Sought(snapshot) \in DevicesFound \cup {NoDevice}
  BY CarriedDevice DEF Sought, UiInv, UiShapes

LEMMA RefreshKeeps ==
    ASSUME UiInv, refresh(snapshot), UNCHANGED scanVars
    PROVE  /\ seen' \in Snapshots /\ selected' \in Nat
           /\ anchor' \in DevicesFound \cup {NoDevice} /\ notice' \in BOOLEAN
           /\ SeenIsFormer' /\ SelectionFits'
  <1>1. /\ snapshot \in Snapshots /\ RowsFitPhase(snapshot) /\ snapshot' = snapshot
        /\ seen' = snapshot
    BY DEF UiInv, ScanInv, Shapes, refresh, scanVars
  <1>2. selected' = NoRow \/ selected' \in DOMAIN snapshot.rows
    BY Refreshed
  <1>3. \A i \in DOMAIN snapshot.rows : i \in Nat
    BY <1>1, RowsOfSnapshot
  <1>4. selected' \in Nat
    BY <1>2, <1>3 DEF NoRow
  <1>5. anchor' \in DevicesFound \cup {NoDevice} /\ notice' \in BOOLEAN
    BY SoughtIsTyped DEF refresh, UiInv, UiShapes
  <1>6. SeenIsFormer'
    <2>1. snapshot.generation <= snapshot.generation
      BY <1>1 DEF Snapshots
    <2> QED
      BY <1>1, <2>1 DEF SeenIsFormer, Follows, RowsFitPhase
  <1>7. selected' # NoRow => snapshot.phase \in {"Ownership", "Complete"}
    BY <1>1, <1>2, RowsOfSnapshot DEF RowsFitPhase, Snapshots, Phases
  <1>8. anchor' # NoDevice => selected' = NoRow /\ snapshot.phase = "Inventory"
    BY <1>7 DEF refresh
  <1>9. SelectionFits'
    BY <1>1, <1>2, <1>7, <1>8 DEF SelectionFits
  <1> QED
    BY <1>1, <1>4, <1>5, <1>6, <1>9

-----------------------------------------------------------------------------
(* The steps of the screen. *)

LEMMA ModelKept ==
    ASSUME UiInv, ScanInv', [Publication!Next]_Shown, UNCHANGED modelVars
    PROVE  /\ seen' \in Snapshots /\ selected' \in Nat
           /\ anchor' \in DevicesFound \cup {NoDevice} /\ notice' \in BOOLEAN
           /\ SeenIsFormer' /\ SelectionFits'
  <1>1. /\ snapshot \in Snapshots /\ snapshot' \in Snapshots /\ seen \in Snapshots
        /\ UNCHANGED <<seen, selected, anchor, notice>>
    BY DEF UiInv, UiShapes, ScanInv, Shapes, modelVars
  <1>2. /\ seen.generation <= snapshot'.generation
        /\ seen.generation = snapshot'.generation => Follows(seen, snapshot')
    BY <1>1, LaterFollows DEF UiInv, SeenIsFormer
  <1>3. SeenIsFormer'
    BY <1>1, <1>2 DEF UiInv, SeenIsFormer, RowsFitPhase, Follows
  <1>4. SelectionFits'
    BY <1>1 DEF UiInv, SelectionFits
  <1> QED
    BY <1>1, <1>3, <1>4 DEF UiInv, UiShapes

\* What is logged has the generation that is shown.
LEMMA LoggedIsTyped ==
    ASSUME NEW kinds \in SUBSET EventKinds, Logged(kinds), seen' \in Snapshots,
           log \subseteq [kind : EventKinds, generation : 0..MaxGenerations]
    PROVE  log' \subseteq [kind : EventKinds, generation : 0..MaxGenerations]
  <1>1. seen'.generation \in 0..MaxGenerations
    BY DEF Snapshots
  <1> QED
    BY <1>1 DEF Logged

\* The thread's call under way: it goes on, or the call is over.
LEMMA InCallKeepsPlace ==
    ASSUME UiInv, inCall
    PROVE  ThreadInPlace'
  <1>1. at \in {"calling", "cancelling"} /\ at' = at /\ seen' = seen /\ CallStep(Screen)
    BY DEF inCall, Scanning, modelVars
  <1>2. CASE at = "calling"
    BY <1>1, <1>2 DEF ThreadInPlace
  <1>3. CASE at = "cancelling"
    <2>1. /\ call[Screen].pc = "idle" \/ call[Screen] = [op |-> "cancel", pc |-> "waiting"]
          /\ seen.generation = snapshot.generation
      BY <1>3 DEF UiInv, ThreadInPlace
    <2>2. call[Screen].op = "cancel" /\ EndWait(Screen)
      BY <1>1, <2>1
         DEF CallStep, PublishPending, Spawn, SpawnFails, EndWait, ReportRescan
    <2>3. call' = [call EXCEPT ![Screen] = Idle] /\ snapshot' = snapshot
      BY <2>2 DEF EndWait, Returns
    <2>4. call'[Screen].pc = "idle"
      BY <2>3, ScreenIsClient, IdleIsTyped DEF UiInv, ScanInv, Shapes
    <2> QED
      BY <1>1, <1>3, <2>1, <2>3, <2>4 DEF ThreadInPlace
  <1> QED
    BY <1>1, <1>2, <1>3

LEMMA UiKeeps ==
    ASSUME UiInv, [UiNext]_allVars
    PROVE  UiInv'
  <1>1. ScanInv' /\ [Publication!Next]_Shown
    BY StepScans, ScanKeeps, StepPublishes DEF UiInv
  <1>2. /\ seen \in Snapshots /\ at \in {"scan", "calling", "loop", "input", "cancel", "cancelling", "left"}
        /\ modal \in {"None", "Exit", "Settings"}
        /\ log \subseteq [kind : EventKinds, generation : 0..MaxGenerations]
        /\ call \in [Clients -> Calls] /\ Screen \in Clients
    BY ScreenIsClient DEF UiInv, UiShapes, ScanInv, Shapes
  <1> DEFINE ModelFits == /\ seen' \in Snapshots /\ selected' \in Nat
                          /\ anchor' \in DevicesFound \cup {NoDevice} /\ notice' \in BOOLEAN
                          /\ SeenIsFormer' /\ SelectionFits'
             Typed == /\ log' \subseteq [kind : EventKinds, generation : 0..MaxGenerations]
                      /\ modal' \in {"None", "Exit", "Settings"}
                      /\ at' \in {"scan", "calling", "loop", "input", "cancel", "cancelling", "left"}
  <1>3. ModelFits /\ Typed /\ ThreadInPlace' => UiInv'
    BY <1>1 DEF UiInv, UiShapes
  <1>4. UNCHANGED modelVars => ModelFits
    BY <1>1, ModelKept
  <1>5. UNCHANGED scanVars /\ refresh(snapshot) => ModelFits
    BY RefreshKeeps
  <1> HIDE DEF ModelFits
  <1>6. CASE WorkerStep /\ UNCHANGED uiVars
    <2>1. snapshot'.generation = snapshot.generation /\ UNCHANGED call
      BY <1>6, WorkerKeepsGeneration
         DEF UiInv, WorkerStep, WorkerThrows, ScanFails, ScanFinds, Assess, Reveal, Publish,
             PublishFailure, LowerFlag, ClientsWait
    <2>2. ThreadInPlace'
      BY <1>6, <2>1 DEF UiInv, ThreadInPlace, uiVars, modelVars
    <2> QED
      BY <1>2, <1>3, <1>4, <1>6, <2>2 DEF uiVars
  <1>7. CASE startScan
    <2>1. at' = "calling" /\ UNCHANGED <<modelVars, log, modal>>
      BY <1>7 DEF startScan, Scanning
    <2> QED
      BY <1>2, <1>3, <1>4, <2>1 DEF ThreadInPlace
  <1>8. CASE inCall
    <2>1. UNCHANGED <<modelVars, log, modal, at>>
      BY <1>8 DEF inCall, Scanning
    <2> QED
      BY <1>2, <1>3, <1>4, <1>8, <2>1, InCallKeepsPlace
  <1>9. ASSUME UNCHANGED scanVars, refresh(snapshot), call[Screen].pc = "idle"
        PROVE  /\ ModelFits /\ call'[Screen].pc = "idle"
               /\ seen'.generation = snapshot'.generation
    BY <1>5, <1>9 DEF scanVars, refresh
  <1>10. CASE rescan
    <2>1. /\ UNCHANGED scanVars /\ refresh(snapshot) /\ call[Screen].pc = "idle"
          /\ at' = "loop" /\ modal' = modal
      BY <1>10, IdleIsTyped DEF rescan, Ui
    <2>2. \E kinds \in SUBSET EventKinds : Logged(kinds)
      BY <1>10 DEF rescan, NoticeEvent, EventKinds
    <2>3. ModelFits /\ seen' \in Snapshots
      BY <1>9, <2>1 DEF ModelFits
    <2>4. log' \subseteq [kind : EventKinds, generation : 0..MaxGenerations]
      BY <1>2, <2>2, <2>3, LoggedIsTyped
    <2>5. ThreadInPlace'
      BY <1>9, <2>1 DEF ThreadInPlace
    <2> QED
      BY <1>2, <1>3, <2>1, <2>3, <2>4, <2>5
  <1>11. CASE refreshTurn
    <2>1. /\ UNCHANGED scanVars /\ refresh(snapshot) /\ call[Screen].pc = "idle"
          /\ at' = "input" /\ modal' = modal
      BY <1>11 DEF refreshTurn, Ui, UiInv, ThreadInPlace
    <2>2. UNCHANGED log \/ \E kinds \in SUBSET EventKinds : Logged(kinds)
      BY <1>11 DEF refreshTurn, NoticeEvent, EventKinds
    <2>3. ModelFits /\ seen' \in Snapshots
      BY <1>9, <2>1 DEF ModelFits
    <2>4. log' \subseteq [kind : EventKinds, generation : 0..MaxGenerations]
      BY <1>2, <2>2, <2>3, LoggedIsTyped
    <2>5. ThreadInPlace'
      BY <1>9, <2>1 DEF ThreadInPlace
    <2> QED
      BY <1>2, <1>3, <2>1, <2>3, <2>4, <2>5
  <1>12. ASSUME UNCHANGED <<scanVars, modelVars, log>>, modal' \in {"None", "Exit", "Settings"},
                \/ at' = at
                \/ at = "input" /\ at' \in {"loop", "cancel"}
                \/ at = "cancelling" /\ call[Screen] = Idle /\ at' = "left"
         PROVE  UiInv'
    <2>1. ThreadInPlace'
      BY <1>12, IdleIsTyped DEF UiInv, ThreadInPlace, scanVars, modelVars
    <2> QED
      BY <1>2, <1>3, <1>4, <1>12, <2>1
  <1>13. CASE noInput \/ closeDialog \/ confirmExit \/ leave
    BY <1>2, <1>12, <1>13 DEF noInput, closeDialog, confirmExit, leave, Scanning, Ui
  <1>14. ASSUME NEW opened \in {"Exit", "Settings"}, openDialog(opened)
         PROVE  UiInv'
    BY <1>12, <1>14 DEF openDialog, Ui
  <1>15. CASE UNCHANGED allVars
    BY <1>2, <1>12, <1>15 DEF allVars, uiVars
  <1>16. CASE CancelOnExit
    <2>1. /\ at' = "cancelling" /\ UNCHANGED <<modelVars, log, modal, snapshot>>
          /\ call' = [call EXCEPT ![Screen] = [op |-> "cancel", pc |-> "waiting"]] /\ at = "cancel"
      BY <1>16 DEF CancelOnExit, Scanning, BeginCancel, Enters
    <2>2. call'[Screen] = [op |-> "cancel", pc |-> "waiting"]
      BY <1>2, <2>1
    <2>3. ThreadInPlace'
      BY <2>1, <2>2 DEF UiInv, ThreadInPlace, modelVars
    <2> QED
      BY <1>2, <1>3, <1>4, <2>1, <2>3
  <1>17. ASSUME NEW i \in DOMAIN seen.rows, selectDrive(i)
         PROVE  UiInv'
    <2>1. /\ at = "input" /\ at' = "loop" /\ UNCHANGED <<scanVars, log, modal, seen>>
          /\ selected' = i /\ anchor' = NoDevice /\ notice' = FALSE /\ seen.phase # "Failed"
      BY <1>17 DEF selectDrive, select, Ui
    <2>2. i \in Nat /\ seen.rows # <<>>
      BY <1>2, RowsOfSnapshot
    <2>3. seen.phase \in {"Ownership", "Complete"}
      BY <1>2, <2>1, <2>2 DEF UiInv, SeenIsFormer, RowsFitPhase, Snapshots, Phases
    <2>4. SelectionFits'
      BY <2>1, <2>3 DEF SelectionFits
    <2>5. SeenIsFormer' /\ ThreadInPlace'
      BY <2>1 DEF UiInv, SeenIsFormer, ThreadInPlace, RowsFitPhase, Follows, scanVars
    <2> QED
      BY <1>2, <1>3, <2>1, <2>2, <2>4, <2>5 DEF ModelFits
  <1> QED
    BY <1>6, <1>7, <1>8, <1>10, <1>11, <1>13, <1>14, <1>15, <1>16, <1>17 DEF UiNext

LEMMA UiStarts == UiInit => UiInv
  <1> SUFFICES ASSUME UiInit PROVE UiInv
    OBVIOUS
  <1>1. /\ seen = Empty /\ snapshot = Empty /\ selected = NoRow /\ anchor = NoDevice
        /\ notice = FALSE /\ log = {} /\ modal = "None" /\ at = "scan"
        /\ call = [c \in Clients |-> Idle]
    BY DEF UiInit, ScanInit
  <1>2. ScanInv
    BY ScanStarts DEF UiInit
  <1>3. call[Screen].pc = "idle"
    BY <1>1, IdleIsTyped, ScreenIsClient
  <1>4. snapshot \in Snapshots /\ RowsFitPhase(snapshot) /\ snapshot.generation \in Nat
    BY <1>2 DEF ScanInv, Shapes, Snapshots
  <1>5. SeenIsFormer
    BY <1>1, <1>4 DEF SeenIsFormer, Follows
  <1>6. UiShapes
    BY <1>1, <1>4 DEF UiShapes, NoRow
  <1> QED
    BY <1>1, <1>2, <1>3, <1>5, <1>6 DEF UiInv, ThreadInPlace, SelectionFits

THEOREM ScreenAlwaysFits == UiSpec => []UiInv
  <1>1. UiInit => UiInv
    BY UiStarts
  <1>2. UiInv /\ [UiNext]_allVars => UiInv'
    BY UiKeeps
  <1> QED
    BY <1>1, <1>2, PTL DEF UiSpec

-----------------------------------------------------------------------------
(* What is shown. *)

\* The selected index and the device that is sought belong to the snapshot that
\* is shown, whatever is published meanwhile.
THEOREM SelectionAlwaysFits == UiSpec => []SelectionFitsSnapshot
  <1>1. UiInv => SelectionFitsSnapshot
    <2> SUFFICES ASSUME UiInv PROVE SelectionFitsSnapshot
      OBVIOUS
    <2>1. SnapshotType(seen)
      BY DEF UiInv, UiShapes, Snapshots, SnapshotType
    <2>2. ScanTypeOK
      BY FlagIsTold DEF UiInv, FlagTellsOfScan
    <2> QED
      BY <2>1, <2>2 DEF UiInv, UiShapes, UiTypeOK, SelectionFits, SelectionFitsSnapshot
  <1> QED
    BY <1>1, ScreenAlwaysFits, PTL

\* While the user may act on it, a row shown as READY comes from the newest
\* snapshot, and no worker is on its way to take it back.
THEOREM ShownReadyIsCurrent == UiSpec => []ShownVerdictsAreCurrent
  <1>1. UiInv => ShownVerdictsAreCurrent
    <2> SUFFICES ASSUME UiInv, at = "input",
                        NEW i \in DOMAIN seen.rows, seen.rows[i].status = "Ready"
                 PROVE  seen = snapshot /\ worker.pc \in {"none", "lower", "finished"}
      BY DEF ShownVerdictsAreCurrent
    <2>1. /\ seen \in Snapshots /\ RowsFitPhase(seen) /\ Follows(seen, snapshot)
          /\ worker \in Workers /\ WorkerShows
      BY DEF UiInv, UiShapes, SeenIsFormer, ThreadInPlace, ScanInv, Shapes
    <2>2. ~Revealed(seen.rows)
      BY FoundRows DEF Revealed
    <2>3. seen.rows # <<>>
      BY <2>1, RowsOfSnapshot
    <2>4. seen.phase = "Complete"
      BY <2>1, <2>2, <2>3 DEF RowsFitPhase, Snapshots, Phases
    <2>5. seen = snapshot
      BY <2>1, <2>4 DEF Follows
    <2> QED
      BY <2>1, <2>4, <2>5 DEF WorkerShows, Workers, WorkerPcs
  <1> QED
    BY <1>1, ScreenAlwaysFits, PTL

-----------------------------------------------------------------------------
(* What becomes of a selection. *)

LEMMA SeenChangesByRefresh ==
    ASSUME UiInv, [UiNext]_allVars, seen' # seen
    PROVE  refresh(snapshot)
  BY DEF UiNext, uiVars, allVars, modelVars, startScan, inCall, rescan, refreshTurn, noInput,
         closeDialog, confirmExit, CancelOnExit, leave, selectDrive, select, openDialog, Scanning

\* A selection that survives a refresh is on the same device, and from one scan
\* to the next only by a resolved identity.
THEOREM SelectionNeverMoves == UiSpec => SelectionStaysOnDevice
  <1>1. UiInv /\ UiInv' /\ [UiNext]_allVars =>
           [seen' # seen /\ selected' # NoRow =>
               /\ SelectedDevice' = Carried
               /\ (selected = NoRow \/ seen'.generation # seen.generation)
                     => Carried.id # "Unresolved"]_allVars
    <2> SUFFICES ASSUME UiInv, UiInv', [UiNext]_allVars, seen' # seen, selected' # NoRow
                 PROVE  /\ SelectedDevice' = Carried
                        /\ (selected = NoRow \/ seen'.generation # seen.generation)
                              => Carried.id # "Unresolved"
      OBVIOUS
    <2>1. refresh(snapshot)
      BY SeenChangesByRefresh
    <2>2. seen' = snapshot /\ SelectedDevice' = seen'.rows[selected'].device
      BY <2>1, Refreshed DEF UiInv, SelectionFits, SelectedDevice
    <2>3. CASE /\ Resolves(snapshot)
               /\ snapshot.rows[selected'].device = Sought(snapshot)
               /\ Sought(snapshot).id # "Unresolved"
      <3>1. Sought(snapshot) # NoDevice
        BY <2>3 DEF Resolves
      <3>2. Sought(snapshot) = Carried
        BY <3>1, CarriedDevice DEF Sought, Carried
      <3> QED
        BY <2>2, <2>3, <3>2
    <2>4. CASE /\ selected' = selected /\ selected # NoRow
               /\ seen.generation = snapshot.generation
               /\ snapshot.rows[selected].device = seen.rows[selected].device
      BY <2>2, <2>4, CarriedDevice DEF Carried
    <2> QED
      BY <2>1, <2>3, <2>4, Refreshed
  <1> QED
    BY <1>1, ScreenAlwaysFits, PTL DEF UiSpec, SelectionStaysOnDevice

\* What is selected after a step is a device that was found.
LEMMA NextSelection ==
    ASSUME UiInv', selected' # NoRow
    PROVE  SelectedDevice' # NoDevice /\ Carried' = SelectedDevice'
  <1>1. seen' \in Snapshots /\ selected' \in DOMAIN seen'.rows
    BY DEF UiInv, UiShapes, SelectionFits
  <1>2. SelectedDevice' = seen'.rows[selected'].device
    BY <1>1 DEF SelectedDevice
  <1>3. SelectedDevice' \in DevicesFound
    BY <1>1, <1>2, RowsOfSnapshot
  <1> QED
    BY <1>3, ProductionUiAssumption DEF Carried

\* A refresh that loses the selection raises the notice.
LEMMA LossIsNoticed ==
    ASSUME UiInv, UiInv', refresh(snapshot), Carried # NoDevice, Carried' = NoDevice
    PROVE  /\ notice'
           /\ seen.generation = snapshot.generation => seen.phase # snapshot.phase
  <1>1. selected' = NoRow
    BY NextSelection
  <1>2. anchor' = NoDevice
    <2>1. SelectedDevice' = NoDevice
      BY DEF Carried
    <2> QED
      BY <2>1 DEF Carried
  <1>3. CASE Resolves(snapshot)
    <2>1. Kept(snapshot) = NoRow
      <3>1. CASE snapshot.phase = "Failed"
        <4>1. DOMAIN snapshot.rows = {}
          BY <3>1, RowsOfSnapshot DEF UiInv, ScanInv, Shapes, RowsFitPhase
        <4> QED
          BY <4>1, KeptIsSought
      <3>2. CASE snapshot.phase # "Failed"
        BY <1>1, <1>3, <3>2 DEF refresh
      <3> QED
        BY <3>1, <3>2
    <2>2. seen.generation = snapshot.generation => seen.phase # snapshot.phase
      BY <1>3 DEF Resolves, Sought, UiInv, SelectionFits
    <2> QED
      BY <1>3, <2>1, <2>2 DEF refresh
  <1>4. CASE ~Resolves(snapshot)
    <2>1. Sought(snapshot) = NoDevice
      BY <1>2, <1>4 DEF refresh, Resolves
    <2>2. SelectedDevice # NoDevice /\ seen.generation = snapshot.generation
      BY <2>1 DEF Carried, Sought
    <2>3. selected # NoRow
      BY <2>2, CarriedDevice
    <2>4. snapshot.phase = "Failed"
      BY <1>1, <1>4, <2>2, <2>3 DEF refresh
    <2> QED
      BY <2>3, <2>4 DEF refresh, UiInv, SelectionFits
  <1> QED
    BY <1>3, <1>4

\* A selection that is lost, to a scan that failed or to a device that is no
\* longer there, is in the log when the step that lost it ends.
THEOREM LossesAreReported == UiSpec => LostSelectionIsReported
  <1>1. UiInv /\ UiInv' /\ [UiNext]_allVars =>
           [Carried # NoDevice /\ Carried' = NoDevice =>
               [kind |-> "SelectionCleared", generation |-> seen'.generation] \in log']_allVars
    <2> SUFFICES ASSUME UiInv, UiInv', [UiNext]_allVars,
                        Carried # NoDevice, Carried' = NoDevice
                 PROVE  [kind |-> "SelectionCleared", generation |-> seen'.generation] \in log'
      OBVIOUS
    <2>1. ASSUME NEW kinds, Logged(kinds), "SelectionCleared" \in kinds
          PROVE  [kind |-> "SelectionCleared", generation |-> seen'.generation] \in log'
      BY <2>1 DEF Logged
    <2>2. ~UNCHANGED modelVars
      BY DEF modelVars, Carried, SelectedDevice
    <2>3. CASE rescan
      <3>1. notice'
        BY <2>3, LossIsNoticed DEF rescan
      <3> QED
        BY <2>1, <2>3, <3>1 DEF rescan, NoticeEvent
    <2>4. CASE refreshTurn
      <3>1. notice' /\ snapshot.phase # seen.phase
        BY <2>4, LossIsNoticed DEF refreshTurn, UiInv, ThreadInPlace
      <3> QED
        BY <2>1, <2>4, <3>1 DEF refreshTurn, NoticeEvent
    <2>5. ASSUME NEW i \in DOMAIN seen.rows, selectDrive(i)
          PROVE  FALSE
      <3>1. selected' # NoRow
        BY <2>5, RowsOfSnapshot DEF selectDrive, select, UiInv, UiShapes
      <3> QED
        BY <3>1, NextSelection
    <2> QED
      BY <2>2, <2>3, <2>4, <2>5
         DEF UiNext, uiVars, allVars, startScan, inCall, noInput, closeDialog, confirmExit,
             CancelOnExit, leave, openDialog, Scanning
  <1> QED
    BY <1>1, ScreenAlwaysFits, PTL DEF UiSpec, LostSelectionIsReported
=============================================================================
