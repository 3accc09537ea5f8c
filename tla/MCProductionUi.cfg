CONSTANTS
    Screen = screen
    Clients = {screen}
    Inventories <- MCInventories
    Verdicts = {"Ready", "Unknown"}
    MaxGenerations = 2
SPECIFICATION UiSpec
INVARIANTS ShownVerdictsAreCurrent SelectionFitsSnapshot
PROPERTIES SelectionStaysOnDevice LostSelectionIsReported ShowsTheEnd
CHECK_DEADLOCK FALSE
