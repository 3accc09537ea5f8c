CONSTANTS
    Drives = {d1}
    FailingDrives = {}
    Operations <- MCOperations
    Workflows <- MCWorkflows
    StartModes = {"Demo"}
    HostObservations = {"Usable"}
    MaxParallelDrives = 1
    ReportedProgress = {}
    MaxJobs = 3
    Tick = 2
    Elapsed = {2, 3}
    TickProgress = 60
    FailAt = 80
SPECIFICATION ScreenSpec
PROPERTY QueueDrains
CHECK_DEADLOCK FALSE
