CONSTANTS
    Clients = {c1, c2}
    Inventories <- MCInventories
    Verdicts = {"Ready", "Unknown"}
    MaxGenerations = 3
SPECIFICATION ScanSpec
INVARIANT FlagTellsOfScan
PROPERTIES PublishesInOrder ScansEnd CallsReturn CancelledScansFail
