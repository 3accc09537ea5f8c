CONSTANTS
    Drives = {d1}
    FailingDrives = {}
    Operations <- MCOperations
    Workflows <- MCWorkflows
    StartModes = {"Demo"}
    HostObservations = {"Usable"}
    MaxParallelDrives = 1
    ReportedProgress = {}
    MaxJobs = 2
    Tick = 2
    Elapsed = {2, 3}
    TickProgress = 60
    FailAt = 80
SPECIFICATION ScreenSpec
PROPERTIES EraseBlocksTermination
CHECK_DEADLOCK FALSE
