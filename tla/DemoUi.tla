------------------------------- MODULE DemoUi -------------------------------
(***************************************************************************)
(* Finding one's way in the demo screen (prototype/demo_ui.cpp): which     *)
(* controls a drawing puts on the screen, which of them has the focus, and *)
(* what a key, a click, the wheel or a resize does to that, with the jobs  *)
(* of the session running meanwhile.  A control is its kind and a value,   *)
(* and the options of a feature have the kind of its name.  One turn of    *)
(* the loop is one step: the handler, then the drawing, which itself puts  *)
(* things in order.  What only changes how the screen looks is left out:   *)
(* hover, the event log's offset, texts, colours and columns.              *)
(***************************************************************************)
EXTENDS Integers, Sequences, FiniteSets, SequencesExt

CONSTANTS
    BottomRows,   \* the rows of the job queue
    DriveRows,    \* the most drives that are shown at a time
    Screens,      \* the set of set-ups explored:
                  \*   drives    [protected, hdd], in their order
                  \*   features  the tabs, Overview and Smart first
                  \*   catalog   feature -> its workflows in their order:
                  \*             [width, hdd_only, job, pausable, cancellable]
                  \*   sizes     the [height, width] the terminal may take
                  \*   dialogs   bound: the dialogs that are opened
                  \*   jobs      bound: the jobs of a behaviour
    HeldKinds     \* bound: the controls on which the button is held for a while

Features == {"Overview", "Smart", "AtaHpa", "Benchmark", "Sanitize"}

Workflows ==
    [width : Nat \ {0}, hdd_only : BOOLEAN, job : BOOLEAN, pausable : BOOLEAN, cancellable : BOOLEAN]

\* There is a drive; every feature but the first tab has workflows.  Only of the
\* self-tests there is one that not every drive supports, and it is not the one
\* that is chosen at first.  Between 70 and 80 columns the numbers beside them
\* decide whether there is room for the scroll arrows of the bottom panel.
ScreenAssumption(screen) ==
    /\ screen.drives \in Seq([protected : BOOLEAN, hdd : BOOLEAN]) \ {<<>>}
    /\ screen.features \in Seq(Features) /\ Len(screen.features) >= 2
    /\ screen.features[1] = "Overview" /\ screen.features[2] = "Smart"
    /\ DOMAIN screen.catalog = ToSet(screen.features) \ {"Overview"}
    /\ \A f \in DOMAIN screen.catalog :
          /\ screen.catalog[f] \in Seq(Workflows) \ {<<>>}
          /\ f # "Smart" => \A i \in DOMAIN screen.catalog[f] : ~screen.catalog[f][i].hdd_only
    /\ Len(screen.catalog["Smart"]) >= 2 /\ ~screen.catalog["Smart"][2].hdd_only
    /\ screen.sizes \subseteq [height : Nat, width : Nat]
    /\ \A size \in screen.sizes : size.width <= 70 \/ size.width >= 80
    /\ screen.jobs \in Nat

ASSUME DemoUiAssumption ==
    /\ BottomRows \in Nat \ {0} /\ DriveRows \in Nat \ {0}
    /\ \A screen \in Screens : ScreenAssumption(screen)

VARIABLES
    plan,         \* the set-up
    ui,           \* DemoState, with the jobs of its snapshot and the layout
    pressed,      \* the control that the button went down on, and its job
    left          \* how the loop was left: the last signal, or "No"

vars == <<plan, ui, pressed, left>>

Dialogs == {"None", "Workflow", "Settings", "Detach", "Terminate"}

Control(kind, value) == [kind |-> kind, value |-> value]

\* Those of a sequence of controls that are chosen, in their order.
Kept(controls, chosen) ==
    LET UpTo[n \in 0..Len(controls)] ==
            IF n = 0 THEN <<>>
            ELSE IF controls[n] \in chosen THEN Append(UpTo[n - 1], controls[n])
            ELSE UpTo[n - 1]
    IN  UpTo[Len(controls)]

Clamp(x, low, high) == IF x < low THEN low ELSE IF x > high THEN high ELSE x
NotBelow(low, x) == IF x < low THEN low ELSE x

\* The geometry of a terminal.  One that is too small is not valid: it shows no
\* rows, and a dialog only if that fits.  content_rows is what is below one row
\* of tabs, width what a row of buttons has for itself.
makeLayout(size) ==
    LET main_bottom == size.height - (BottomRows + 5)
        left_divider == Clamp(size.width \div 3, 27, 34)
        help_lines == IF size.height >= 30 THEN 1 ELSE 0
        drive_space == main_bottom - help_lines - 7
    IN  IF size.height < 24 \/ size.width < 70
        THEN [valid |-> FALSE, dialogs |-> size.width >= 24 /\ size.height >= 10,
              visible_drives |-> 0, bottom_rows |-> 0, content_rows |-> 1, width |-> 1,
              arrows |-> FALSE]
        ELSE [valid |-> TRUE, dialogs |-> TRUE,
              visible_drives |-> Clamp(drive_space \div (IF size.height >= 34 THEN 3 ELSE 2),
                                       1, DriveRows),
              bottom_rows |-> BottomRows, content_rows |-> main_bottom - 9,
              width |-> size.width - left_divider - 3, arrows |-> size.width >= 80]

-----------------------------------------------------------------------------
(* What there is to choose from. *)

Drive(s) == plan.drives[s.selected_drive + 1]

LastDrive == Len(plan.drives) - 1

availableFeatures(s) ==
    IF Drive(s).protected THEN SubSeq(plan.features, 1, 2) ELSE plan.features

visibleTabCount(s) == Len(availableFeatures(s))

selectedFeature(s) ==
    availableFeatures(s)[Clamp(s.main_tab, 0, visibleTabCount(s) - 1) + 1]

featureWorkflows(s, f) ==
    IF Drive(s).protected \/ f = "Overview" THEN <<>> ELSE plan.catalog[f]

\* An option is the number of a workflow, from 0.
Supports(s, f, option) ==
    /\ option + 1 \in DOMAIN featureWorkflows(s, f)
    /\ featureWorkflows(s, f)[option + 1].hdd_only => Drive(s).hdd

-----------------------------------------------------------------------------
(* The jobs: newest first, as in the snapshot. *)

Active(job) == job.state \in {"Running", "Paused"}

\* What the queue does when a drive becomes free: its oldest job starts.
Served(jobs) ==
    [i \in DOMAIN jobs |->
        IF /\ jobs[i].state = "Queued"
           /\ \A j \in DOMAIN jobs :
                 jobs[j].drive = jobs[i].drive
                     => ~Active(jobs[j]) /\ (j > i => jobs[j].state # "Queued")
        THEN [jobs[i] EXCEPT !.state = "Running"]
        ELSE jobs[i]]

InState(jobs, chosen, state) ==
    Served([i \in DOMAIN jobs |->
               IF i \in chosen THEN [jobs[i] EXCEPT !.state = state] ELSE jobs[i]])

JobId(s, index) == Len(s.jobs) - index

\* The controls of a job: a queued one is withdrawn with its first control, an
\* active one has what its operation allows.
jobControls(job) ==
    {kind \in {"JobPrimary", "JobStop"} :
        IF kind = "JobPrimary"
        THEN job.state = "Queued" \/ (Active(job) /\ job.pausable)
        ELSE Active(job) /\ job.cancellable}

\* The loss of the control that has the focus, looked at after a tick or a command.
normalizeJobControlFocus(s) ==
    IF /\ s.focus.kind \in {"JobPrimary", "JobStop"}
       /\ s.focus.value + 1 \in DOMAIN s.jobs => jobControls(s.jobs[s.focus.value + 1]) = {}
    THEN [s EXCEPT !.mode = "DriveList", !.focus = Control("BottomTab", s.bottom_tab)]
    ELSE s

refreshCoreState(s, jobs) ==
    [s EXCEPT !.jobs = jobs, !.job_offset = Clamp(@, 0, NotBelow(0, Len(jobs) - 1))]

-----------------------------------------------------------------------------
(* The drawing: the rows of a feature's panel, and what is in view. *)

\* The row, from 0, in which a button ends up when a row holds width columns.
optionRow(buttons, option, width) ==
    LET After[i \in 0..Len(buttons)] ==
            IF i = 0 THEN [row |-> 0, used |-> 0]
            ELSE LET at == After[i - 1]
                     item == buttons[i].width
                 IN  IF at.used > 0 /\ at.used + item > width
                     THEN [row |-> at.row + 1, used |-> item + 1]
                     ELSE [row |-> at.row, used |-> at.used + item + 1]
    IN  After[Clamp(option + 1, 0, Len(buttons))].row

buttonRows(workflows, width) == 1 + optionRow(workflows, Len(workflows) - 1, width)

\* The row of a panel where its buttons start.
FirstRow(f) == CASE f = "Smart" -> 3 [] f = "AtaHpa" -> 4 [] OTHER -> 2

\* What is drawn between the description and "Open Workflow", with it.
RowsBelow(f) == CASE f = "Smart" -> 2 [] f = "AtaHpa" -> 1 [] f = "Benchmark" -> 3 [] OTHER -> 2

\* The row of a panel where the drawing puts a control.
DrawnRow(s, control) ==
    LET f == selectedFeature(s)
        workflows == featureWorkflows(s, f)
    IN  IF control.kind = f
        THEN FirstRow(f) + optionRow(workflows, control.value, s.layout.width)
        ELSE FirstRow(f) + buttonRows(workflows, s.layout.width) + 6 + RowsBelow(f)

mainContentHeight(s) ==
    LET f == selectedFeature(s)
    IN  IF Drive(s).protected THEN IF f = "Overview" THEN 8 ELSE 10
        ELSE IF f = "Overview" THEN 10
        ELSE buttonRows(featureWorkflows(s, f), s.layout.width)
                 + (IF f = "Sanitize" THEN 11 ELSE 12)

\* The rows that the tabs take besides their first; where there is room for
\* them, each shows its shortcut.
drawMainTabs(s) ==
    LET features == availableFeatures(s)
        shortcut == IF Len(features) <= 2 \/ s.layout.width >= 52 THEN 4 ELSE 0
        Tab(f) == [width |-> shortcut + IF f \in {"Overview", "Sanitize"} THEN 12 ELSE 13]
    IN  optionRow([i \in DOMAIN features |-> Tab(features[i])], Len(features) - 1, s.layout.width)

ViewportHeight(s) ==
    IF s.layout.valid THEN NotBelow(1, s.layout.content_rows - drawMainTabs(s)) ELSE 1

maxContentOffset(s) == NotBelow(0, mainContentHeight(s) - ViewportHeight(s))

\* The controls of the panel, those in view and those scrolled out of it.
featureTargets(s) ==
    LET f == selectedFeature(s)
        workflows == featureWorkflows(s, f)
        options == [i \in DOMAIN workflows |-> Control(f, i - 1)]
    IN  IF workflows = <<>>
        THEN <<Control("MainTab", s.main_tab)>>
        ELSE Kept(options, {control \in ToSet(options) : Supports(s, f, control.value)})
                 \o <<Control("OpenWorkflow", 0)>>

PanelHits(s) ==
    LET top == s.content_offsets[s.main_tab]
        bottom == top + ViewportHeight(s) - 1
    IN  {control \in ToSet(featureTargets(s)) :
            control.kind # "MainTab" /\ DrawnRow(s, control) \in top..bottom}

MainTabs(s) == [i \in 1..visibleTabCount(s) |-> Control("MainTab", i - 1)]

ShownDrives(s) ==
    [i \in 1..Clamp(Len(plan.drives) - s.drive_offset, 0, s.layout.visible_drives) |->
        Control("SelectDrive", s.drive_offset + i - 1)]

BottomControls(s) ==
    <<Control("BottomTab", 0), Control("BottomTab", 1)>>
        \o (IF s.layout.arrows THEN <<Control("BottomUp", 0), Control("BottomDown", 0)>> ELSE <<>>)

\* Row after row, the first control before the second.
JobHits(s) ==
    LET rows == IF s.bottom_tab = 0 THEN 0
                ELSE Clamp(Len(s.jobs) - s.job_offset, 0, s.layout.bottom_rows)
        shown == [k \in 1..(2 * rows) |->
                     Control(IF k % 2 = 1 THEN "JobPrimary" ELSE "JobStop",
                             s.job_offset + ((k - 1) \div 2))]
    IN  Kept(shown, {control \in ToSet(shown) :
                        control.kind \in jobControls(s.jobs[control.value + 1])})

\* A dialog removes every other control from the screen.
DialogHits(s) ==
    IF s.dialog = "Settings" THEN {Control("CloseSettings", 0)}
    ELSE {Control("Confirm", 0), Control("Cancel", 0)}

MainHits(s) ==
    {Control(kind, 0) : kind \in {"Scan", "DriveUp", "DriveDown", "Settings", "Detach"}}
        \cup ToSet(ShownDrives(s)) \cup ToSet(BottomControls(s)) \cup ToSet(JobHits(s))
        \cup ToSet(MainTabs(s)) \cup PanelHits(s)

\* Mutant: drawing a dialog leaves the controls behind it where they were.
HitsUncleared(s) ==
    IF s.layout.valid
    THEN MainHits(s) \cup (IF s.dialog = "None" THEN {} ELSE DialogHits(s))
    ELSE {}

\* The enabled controls on the screen.
Hits(s) ==
    IF s.dialog # "None"
    THEN IF s.layout.valid \/ s.layout.dialogs THEN DialogHits(s) ELSE {}
    ELSE IF s.layout.valid THEN MainHits(s) ELSE {}

normalizeDriveViewport(s) ==
    LET visible == s.layout.visible_drives
        inRange == Clamp(s.drive_offset, 0, NotBelow(0, Len(plan.drives) - visible))
        offset ==
            IF s.mode # "DriveList" \/ s.focus.kind # "SelectDrive" THEN inRange
            ELSE IF s.focus.value < inRange THEN s.focus.value
            ELSE IF s.focus.value >= inRange + visible THEN s.focus.value - visible + 1
            ELSE inRange
    IN  [s EXCEPT !.drive_offset = offset,
                  !.main_tab = IF Drive(s).protected /\ @ > 1 THEN 0 ELSE @]

\* What drawing does to the state it draws.
drawDemo(s) ==
    LET shown == normalizeDriveViewport(s)
        tab == Clamp(shown.main_tab, 0, visibleTabCount(shown) - 1)
        tabbed == [shown EXCEPT !.main_tab = tab]
        lastOffset == NotBelow(0, Len(s.jobs) - s.layout.bottom_rows)
    IN  IF ~s.layout.valid THEN s
        ELSE [tabbed EXCEPT
                 !.content_offsets[tab] = Clamp(@, 0, maxContentOffset(tabbed)),
                 !.job_offset = IF s.bottom_tab = 1 THEN Clamp(@, 0, lastOffset) ELSE @]

-----------------------------------------------------------------------------
(* The focus. *)

\* Mutant: the row that separates the buttons from the description is forgotten.
featureControlRowAbove(s, control) ==
    LET f == selectedFeature(s)
        workflows == featureWorkflows(s, f)
    IN  CASE control.kind = "OpenWorkflow" /\ f # "Overview" ->
                 buttonRows(workflows, s.layout.width) + (IF f = "Sanitize" THEN 9 ELSE 10)
          [] control.kind = f -> FirstRow(f) + optionRow(workflows, control.value, s.layout.width)
          [] OTHER -> 0

\* The row of a panel that scrolling takes a control to be in.
featureControlRow(s, control) ==
    LET f == selectedFeature(s)
        workflows == featureWorkflows(s, f)
    IN  CASE control.kind = "OpenWorkflow" /\ f # "Overview" ->
                 buttonRows(workflows, s.layout.width) + (IF f = "Sanitize" THEN 10 ELSE 11)
          [] control.kind = f -> FirstRow(f) + optionRow(workflows, control.value, s.layout.width)
          [] OTHER -> 0

ensureFeatureFocusVisible(s, control) ==
    LET row == featureControlRow(s, control)
        scrolled ==
            [s EXCEPT !.content_offsets[s.main_tab] =
                Clamp(IF row < @ THEN row
                      ELSE IF row >= @ + ViewportHeight(s) THEN row - ViewportHeight(s) + 1
                      ELSE @,
                      0, maxContentOffset(s))]
    IN  IF control.kind = "MainTab" THEN s ELSE scrolled

\* Mutant: a focus lost in the list is left where it was.
normalizeFocusOfTabs(s) ==
    LET scrolled == ensureFeatureFocusVisible(s, s.focus)
        onTab == [s EXCEPT !.focus = Control("MainTab", s.main_tab)]
    IN  IF ~s.layout.valid \/ s.focus \in Hits(s) \/ s.dialog # "None" THEN s
        ELSE IF s.mode = "FeaturePanel" /\ scrolled # s THEN scrolled
        ELSE IF s.mode \in {"FeaturePanel", "DriveTabs"} THEN onTab
        ELSE s

\* A focus that is no longer on the screen goes to the tab, or to Scan.
normalizeFocusAfterDraw(s) ==
    LET scrolled == ensureFeatureFocusVisible(s, s.focus)
        onTab == [s EXCEPT !.focus = Control("MainTab", s.main_tab)]
    IN  IF ~s.layout.valid \/ s.focus \in Hits(s) \/ s.dialog # "None" THEN s
        ELSE IF s.mode = "FeaturePanel" /\ scrolled # s THEN scrolled
        ELSE IF s.mode \in {"FeaturePanel", "DriveTabs"} THEN onTab
        ELSE [s EXCEPT !.focus = Control("Scan", 0)]

\* What the loop draws before it waits for the next key.
Settled(s) ==
    LET drawn == drawDemo(s)
        normalized == normalizeFocusAfterDraw(drawn)
    IN  IF normalized = drawn THEN drawn ELSE drawDemo(normalized)

\* Giving a control the focus also chooses it.
focusHit(s, control) ==
    LET focused == [s EXCEPT !.focus = control]
    IN  CASE control.kind = "MainTab" -> [focused EXCEPT !.main_tab = control.value]
          [] control.kind \in DOMAIN s.option -> [focused EXCEPT !.option[control.kind] = control.value]
          [] OTHER -> focused

\* The controls that Tab goes through.
focusableHits(s) ==
    IF s.dialog # "None" \/ ~s.layout.valid \/ s.mode = "FeaturePanel" THEN <<>>
    ELSE IF s.mode = "DriveTabs" THEN MainTabs(s)
    ELSE <<Control("Scan", 0)>> \o ShownDrives(s) \o BottomControls(s) \o JobHits(s)
             \o <<Control("Settings", 0), Control("Detach", 0)>>

\* The neighbour of the focus among controls, which go round, or an end of them.
Neighbour(controls, focus, direction) ==
    LET places == {i \in DOMAIN controls : controls[i] = focus}
        next == {i + direction : i \in places} \cap DOMAIN controls
    IN  IF next # {} THEN controls[CHOOSE k \in next : TRUE]
        ELSE controls[IF direction > 0 THEN 1 ELSE Len(controls)]

cycleFocus(s, direction) ==
    IF focusableHits(s) = <<>> THEN s
    ELSE focusHit(s, Neighbour(focusableHits(s), s.focus, direction))

cycleFeatureFocus(s, direction) ==
    LET target == Neighbour(featureTargets(s), s.focus, direction)
    IN  ensureFeatureFocusVisible(focusHit(s, target), target)

enterFeaturePanel(s) ==
    LET entered == [s EXCEPT !.mode = "FeaturePanel", !.content_offsets[s.main_tab] = 0]
        f == selectedFeature(s)
        targets == featureTargets(s)
        target == IF f \in DOMAIN s.option /\ Contains(targets, Control(f, s.option[f]))
                  THEN Control(f, s.option[f])
                  ELSE targets[1]
    IN  ensureFeatureFocusVisible(focusHit(entered, target), target)

returnToDriveList(s) ==
    [s EXCEPT !.mode = "DriveList", !.focus = Control("SelectDrive", s.selected_drive)]

OnTab(s, tab) ==
    [s EXCEPT !.mode = "DriveTabs", !.main_tab = tab, !.focus = Control("MainTab", tab)]

moveFeatureTab(s, delta) ==
    OnTab(s, (s.main_tab + delta + visibleTabCount(s)) % visibleTabCount(s))

selectFeatureShortcut(s, f) ==
    LET tabs == {tab \in 0..(visibleTabCount(s) - 1) : plan.features[tab + 1] = f}
    IN  IF tabs = {} THEN s ELSE OnTab(s, CHOOSE tab \in tabs : TRUE)

moveDriveFocus(s, delta) ==
    LET first == s.drive_offset
        last == Clamp(s.drive_offset + s.layout.visible_drives - 1, -1, LastDrive)
        index == IF s.focus.kind = "SelectDrive" THEN s.focus.value + delta
                 ELSE IF delta > 0 THEN first ELSE last
    IN  [s EXCEPT !.focus = Control("SelectDrive", Clamp(index, 0, LastDrive))]

-----------------------------------------------------------------------------
(* What the controls do. *)

\* Choosing a drive also replaces a self-test that it does not support.
selectDrive(s, index) ==
    LET selected == [s EXCEPT !.selected_drive = Clamp(index, 0, LastDrive)]
    IN  IF Drive(selected).protected
        THEN [selected EXCEPT !.main_tab = IF @ > 1 THEN 0 ELSE @]
        ELSE IF Supports(selected, "Smart", s.option["Smart"]) THEN selected
        ELSE [selected EXCEPT !.option["Smart"] =
                 IF Len(featureWorkflows(selected, "Smart")) > 1 THEN 1 ELSE 0]

enterDriveMode(s, index) == OnTab(selectDrive(s, index), 0)

\* A control out of view loses the focus to the tab of the panel.
scrollBottom(s, delta) ==
    LET rows == s.layout.bottom_rows
        offset == Clamp(s.job_offset + delta, 0, NotBelow(0, Len(s.jobs) - rows))
        scrolled == [s EXCEPT !.job_offset = offset]
    IN  IF s.bottom_tab = 0 THEN s
        ELSE IF /\ s.focus.kind \in {"JobPrimary", "JobStop"}
                /\ s.focus.value \notin offset..(offset + rows - 1)
             THEN [scrolled EXCEPT !.focus = Control("BottomTab", s.bottom_tab)]
        ELSE scrolled

scrollDriveViewport(s, delta) ==
    LET visible == s.layout.visible_drives
        offset == Clamp(s.drive_offset + delta, 0, NotBelow(0, Len(plan.drives) - visible))
        scrolled == [s EXCEPT !.drive_offset = offset]
    IN  IF s.mode = "DriveList" /\ s.focus.kind = "SelectDrive"
        THEN [scrolled EXCEPT !.focus.value = Clamp(@, offset, offset + visible - 1)]
        ELSE scrolled

scrollMainContent(s, delta) ==
    [s EXCEPT !.content_offsets[s.main_tab] = Clamp(@ + delta, 0, maxContentOffset(s))]

\* Opening a dialog remembers where the focus was and puts it on the safe answer.
openDialog(s, dialog) ==
    [s EXCEPT !.return = [mode |-> s.mode, focus |-> s.focus],
              !.dialog = dialog,
              !.choice = "Cancel",
              !.focus = Control(IF dialog = "Settings" THEN "CloseSettings" ELSE "Cancel", 0)]

openWorkflowDialog(s) ==
    IF selectedFeature(s) = "Overview" \/ Drive(s).protected THEN s ELSE openDialog(s, "Workflow")

\* An active job that cannot be cancelled keeps the session from being terminated.
openTerminateDialog(s) ==
    IF \E i \in DOMAIN s.jobs : Active(s.jobs[i]) /\ ~s.jobs[i].cancellable
    THEN [s EXCEPT !.bottom_tab = 0]
    ELSE openDialog(s, "Terminate")

\* What was remembered is not read again; forgetting it keeps the model small.
closeDialog(s) ==
    [s EXCEPT !.dialog = "None", !.mode = s.return.mode, !.focus = s.return.focus,
              !.choice = "Cancel", !.return = [mode |-> "DriveList", focus |-> Control("Scan", 0)]]

runSelectedWorkflowSimulation(s) ==
    LET f == selectedFeature(s)
        workflow == featureWorkflows(s, f)[s.option[f] + 1]
        job == [drive |-> s.selected_drive, state |-> "Queued",
                pausable |-> workflow.pausable, cancellable |-> workflow.cancellable]
    IN  IF f \notin DOMAIN s.option \/ ~Supports(s, f, s.option[f]) THEN s
        ELSE IF ~workflow.job THEN [s EXCEPT !.bottom_tab = 0]
        ELSE [refreshCoreState(s, Served(<<job>> \o s.jobs)) EXCEPT
                 !.bottom_tab = 1, !.job_offset = 0]

\* What the manager refuses changes nothing.
applyJobPrimary(s, index) ==
    LET job == s.jobs[index + 1]
        Becomes(state) == refreshCoreState(s, InState(s.jobs, {index + 1}, state))
    IN  IF index + 1 \notin DOMAIN s.jobs THEN s
        ELSE CASE job.state = "Running" /\ job.pausable -> Becomes("Paused")
               [] job.state = "Paused" /\ job.pausable -> Becomes("Running")
               [] job.state = "Queued" -> Becomes("Ended")
               [] OTHER -> s

applyJobStop(s, index) ==
    IF /\ index + 1 \in DOMAIN s.jobs
       /\ LET job == s.jobs[index + 1] IN job.state = "Queued" \/ (Active(job) /\ job.cancellable)
    THEN refreshCoreState(s, InState(s.jobs, {index + 1}, "Ended"))
    ELSE s

\* A click, or Enter in the list: a control acts from wherever the focus was.
applyHit(s, control) ==
    LET v == control.value
        focused == [s EXCEPT !.focus = control]
        InList(t) == [t EXCEPT !.mode = "DriveList"]
        list == InList(focused)
        panel == [focused EXCEPT !.mode = "FeaturePanel"]
        RowAt(index) == [list EXCEPT !.focus = Control("SelectDrive", Clamp(index, 0, LastDrive))]
    IN  CASE control.kind \in {"Settings", "Detach"} -> openDialog(s, control.kind)
          [] control.kind = "SelectDrive" -> enterDriveMode(focused, v)
          [] control.kind = "MainTab" -> OnTab(s, Clamp(v, 0, visibleTabCount(s) - 1))
          [] control.kind = "BottomTab" -> [list EXCEPT !.bottom_tab = v]
          [] control.kind = "Scan" -> list
          [] control.kind = "DriveUp" -> RowAt(s.drive_offset - 1)
          [] control.kind = "DriveDown" -> RowAt(s.drive_offset + s.layout.visible_drives)
          [] control.kind = "BottomUp" -> scrollBottom(list, -1)
          [] control.kind = "BottomDown" -> scrollBottom(list, 1)
          [] control.kind \in DOMAIN s.option -> [panel EXCEPT !.option[control.kind] = v]
          [] control.kind = "OpenWorkflow" -> openWorkflowDialog(panel)
          [] control.kind = "JobPrimary" -> normalizeJobControlFocus(applyJobPrimary(list, v))
          [] control.kind = "JobStop" -> normalizeJobControlFocus(applyJobStop(list, v))
          [] control.kind = "Confirm" -> runSelectedWorkflowSimulation(closeDialog(s))
          [] OTHER -> closeDialog(s)

-----------------------------------------------------------------------------
(* The keys. *)

Arrows == {"Left", "Right", "Up", "Down"}
Keys == Arrows \cup {"Tab", "BackTab", "Enter", "Esc", "PageUp", "PageDown",
                     "q", "Q", "r", "e", "j"}

DialogKey(s, key) ==
    LET other == IF s.choice = "Cancel" THEN "Confirm" ELSE "Cancel"
    IN  IF key = "Esc" \/ (key = "Enter" /\ s.choice = "Cancel") THEN closeDialog(s)
        ELSE IF s.dialog = "Settings" THEN s
        ELSE IF key = "Enter" THEN runSelectedWorkflowSimulation(closeDialog(s))
        ELSE IF key \in {"Left", "Right", "Tab", "BackTab"}
             THEN [s EXCEPT !.choice = other, !.focus = Control(other, 0)]
        ELSE s

\* The keys that mean the same in every mode.
CommonKey(s, key) ==
    CASE key = "q" -> openDialog(s, "Detach")
      [] key = "Q" -> openTerminateDialog(s)
      [] key = "PageUp" -> scrollBottom(s, -1)
      [] key = "PageDown" -> scrollBottom(s, 1)
      [] key = "r" -> [s EXCEPT !.mode = "DriveList", !.focus = Control("Scan", 0)]
      [] key = "e" -> [s EXCEPT !.mode = "DriveList", !.bottom_tab = 0, !.focus = Control("BottomTab", 0)]
      [] key = "j" -> [s EXCEPT !.mode = "DriveList", !.bottom_tab = 1, !.focus = Control("BottomTab", 1)]
      [] OTHER -> selectFeatureShortcut(s, key)

DriveListKey(s, key) ==
    LET delta == IF key = "Up" THEN -1 ELSE 1
    IN  CASE key = "Tab" -> cycleFocus(s, 1)
          [] key = "BackTab" -> cycleFocus(s, -1)
          [] key \in {"Up", "Down"} /\ s.focus.kind \in {"Scan", "SelectDrive", "DriveUp", "DriveDown"} ->
                 moveDriveFocus(s, delta)
          [] key \in {"Up", "Down"} /\ s.focus.kind \in
                 {"BottomTab", "BottomUp", "BottomDown", "JobPrimary", "JobStop"} ->
                 scrollBottom(s, delta)
          [] key = "Enter" /\ s.focus \in Hits(s) -> applyHit(s, s.focus)
          [] OTHER -> s

DriveTabsKey(s, key) ==
    CASE key = "Tab" -> cycleFocus(s, 1)
      [] key = "BackTab" -> cycleFocus(s, -1)
      [] key = "Left" -> moveFeatureTab(s, -1)
      [] key = "Right" -> moveFeatureTab(s, 1)
      [] key = "Enter" -> enterFeaturePanel(s)
      [] key = "Esc" -> returnToDriveList(s)
      [] OTHER -> s

FeaturePanelKey(s, key) ==
    CASE key \in {"Tab", "Down"} -> cycleFeatureFocus(s, 1)
      [] key \in {"BackTab", "Up"} -> cycleFeatureFocus(s, -1)
      [] key = "Enter" /\ s.focus.kind \in {"OpenWorkflow"} \cup DOMAIN s.option -> openWorkflowDialog(s)
      [] key = "Esc" -> OnTab(s, s.main_tab)
      [] OTHER -> s

handleKey(s, key) ==
    IF s.dialog # "None" THEN DialogKey(s, key)
    ELSE IF key \notin Arrows \cup {"Tab", "BackTab", "Enter", "Esc"} THEN CommonKey(s, key)
    ELSE CASE s.mode = "DriveList" -> DriveListKey(s, key)
           [] s.mode = "DriveTabs" -> DriveTabsKey(s, key)
           [] OTHER -> FeaturePanelKey(s, key)

-----------------------------------------------------------------------------
Nothing == [control |-> Control("None", 0), job |-> 0]

Init ==
    /\ plan \in Screens
    /\ \E size \in plan.sizes :
          ui = Settled([selected_drive |-> 0, drive_offset |-> 0, main_tab |-> 0, bottom_tab |-> 0,
                        job_offset |-> 0,
                        content_offsets |-> [tab \in 0..(Len(plan.features) - 1) |-> 0],
                        mode |-> "DriveList", focus |-> Control("Scan", 0),
                        option |-> [f \in DOMAIN plan.catalog |-> IF f = "Smart" THEN 1 ELSE 0],
                        dialog |-> "None", choice |-> "Cancel",
                        return |-> [mode |-> "DriveList", focus |-> Control("Scan", 0)],
                        jobs |-> <<>>, layout |-> makeLayout(size)])
    /\ pressed = Nothing
    /\ left = "No"

\* A turn of the loop ends with the drawing of what the handler left.
Turn(s) ==
    /\ Len(s.jobs) <= plan.jobs /\ s.dialog \in {"None"} \cup plan.dialogs
    /\ ui' = Settled(s)
    /\ UNCHANGED <<plan, left>>

\* The answer that ends the loop.
Leave ==
    /\ left' = ui.dialog
    /\ UNCHANGED <<plan, ui>>

AnswersLeaving(control) == control.kind = "Confirm" /\ ui.dialog \in {"Detach", "Terminate"}

Activate(control) ==
    IF AnswersLeaving(control) THEN Leave ELSE Turn(applyHit(ui, control))

\* Time passes whatever is on the screen: jobs end, others start.
tickCore ==
    /\ left = "No"
    /\ \E ended \in SUBSET {i \in DOMAIN ui.jobs : ui.jobs[i].state = "Running"} :
          /\ ended # {}
          /\ Turn(normalizeJobControlFocus(refreshCoreState(ui, InState(ui.jobs, ended, "Ended"))))
    /\ UNCHANGED pressed

KeyTurn(key) ==
    /\ left = "No"
    /\ IF key = "Enter" /\ AnswersLeaving(Control(ui.choice, 0))
       THEN Leave ELSE Turn(handleKey(ui, key))

\* Mutant: a key leaves the button held down.
KeyHolding(key) == KeyTurn(key) /\ UNCHANGED pressed

\* A key also forgets a button that is held down.
Key(key) == KeyTurn(key) /\ pressed' = Nothing

\* The button goes down on a control that is on the screen, and up again with
\* nothing in between.
Click(control) ==
    /\ left = "No"
    /\ Activate(control)
    /\ pressed' = Nothing

Press(control) ==
    /\ left = "No"
    /\ control.kind \in HeldKinds
    /\ pressed' = [control |-> control, job |-> JobId(ui, control.value)]
    /\ UNCHANGED <<plan, ui, left>>

\* It acts if that control is still, or again, on the screen where it goes up.
Release ==
    /\ left = "No"
    /\ pressed.control \in Hits(ui)
    /\ Activate(pressed.control)
    /\ pressed' = Nothing

ReleaseElsewhere ==
    /\ left = "No"
    /\ pressed # Nothing
    /\ pressed' = Nothing
    /\ UNCHANGED <<plan, ui, left>>

\* The wheel is deaf behind a dialog, and leaves a held button alone.
handleMouseWheel ==
    /\ left = "No"
    /\ ui.dialog = "None" /\ ui.layout.valid
    /\ \E delta \in {-1, 1} :
          \/ Turn(scrollBottom(ui, delta))
          \/ Turn(scrollDriveViewport(ui, delta))
          \/ Turn(scrollMainContent(ui, delta))
    /\ UNCHANGED pressed

Resize ==
    /\ left = "No"
    /\ \E size \in plan.sizes : Turn([ui EXCEPT !.layout = makeLayout(size)])
    /\ pressed' = Nothing

Next ==
    \/ tickCore
    \/ \E key \in Keys \cup ToSet(plan.features) : Key(key)
    \/ \E control \in Hits(ui) : Click(control) \/ Press(control)
    \/ Release \/ ReleaseElsewhere
    \/ handleMouseWheel
    \/ Resize

Spec == Init /\ [][Next]_vars

-----------------------------------------------------------------------------
\* Whatever the jobs, the scrolling and the size of the terminal took away, the
\* focus is on an enabled control on the screen whenever the loop waits for a
\* key, and in a dialog on the answer that Enter gives.
FocusIsVisible ==
    left = "No" /\ ui.layout.valid =>
        /\ ui.focus \in Hits(ui)
        /\ ui.dialog \in {"Workflow", "Detach", "Terminate"} => ui.focus.kind = ui.choice

\* Down and Tab go through the whole panel: the control they go to is scrolled
\* into view and keeps the focus through the drawing, so none is out of reach.
\* (The scrolling computes the rows in one place, the drawing in another.)
PanelIsInReach ==
    left = "No" /\ ui.mode = "FeaturePanel" /\ ui.dialog = "None" /\ ui.layout.valid =>
        \A key \in {"Tab", "Down", "BackTab", "Up"} :
            Settled(handleKey(ui, key)).focus =
                Neighbour(featureTargets(ui), ui.focus, IF key \in {"Tab", "Down"} THEN 1 ELSE -1)

\* Letting the button go acts on the job it went down on, although jobs are
\* known to the screen by their place in a list that grows at its front.
ClickActsOnPressed ==
    [][pressed # Nothing /\ Release =>
          \A id \in 1..Len(ui.jobs) :
              LET Job(s) == s.jobs[Len(s.jobs) - id + 1]
              IN  Job(ui') # Job(ui) =>
                      \/ id = pressed.job
                      \/ Job(ui).state = "Queued" /\ Job(ui').state = "Running"]_vars

\* A dialog asks about one thing and does that: while it stays open nothing else
\* that can be chosen changes, jobs only end or start, and its answer alone can
\* create one.  "Run Simulation" is offered only for a workflow that the chosen
\* drive supports, from the panel that closing the dialog leads back to.
DialogsAreModal ==
    [][/\ ui.dialog # "None" /\ ui'.dialog # "None" =>
             /\ ui'.dialog = ui.dialog
             /\ \A field \in {"selected_drive", "main_tab", "bottom_tab", "option", "return"} :
                    ui'[field] = ui[field]
             /\ Len(ui'.jobs) = Len(ui.jobs)
       /\ Len(ui'.jobs) > Len(ui.jobs) => ui.dialog = "Workflow"
       /\ ui.dialog # "None" =>
             \A id \in 1..Len(ui.jobs) :
                LET Before == ui.jobs[Len(ui.jobs) - id + 1]
                    After == ui'.jobs[Len(ui'.jobs) - id + 1]
                IN  After.state # Before.state =>
                        Before.state # "Paused" /\ After.state \in {"Running", "Ended"}
       /\ ui'.dialog = "Workflow" =>
             LET f == selectedFeature(ui')
             IN  /\ f \in DOMAIN ui'.option
                 /\ Supports(ui', f, ui'.option[f])
                 /\ ui'.return.mode = "FeaturePanel"]_vars
=============================================================================
