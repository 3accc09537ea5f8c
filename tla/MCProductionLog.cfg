CONSTANTS
    Screen = screen
    Clients = {screen}
    Inventories <- MCInventories
    Verdicts = {"Ready", "Unknown"}
    MaxGenerations = 2
SPECIFICATION UiSpec
INVARIANTS EndIsLogged
CHECK_DEADLOCK FALSE
