CONSTANTS
    BottomRows = 1
    DriveRows = 2
    Screens <- MCScreens
    HeldKinds = {"JobPrimary", "JobStop"}
SPECIFICATION Spec
INVARIANTS FocusIsVisible PanelIsInReach
PROPERTIES ClickActsOnPressed DialogsAreModal
CHECK_DEADLOCK FALSE
