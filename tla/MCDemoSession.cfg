CONSTANTS
    Drives = {d1, d2}
    FailingDrives = {d2}
    Operations <- MCOperations
    Workflows <- MCWorkflows
    StartModes = {"Demo"}
    HostObservations = {"Protected", "Usable"}
    MaxParallelDrives = 2
    ReportedProgress = {}
    MaxJobs = 3
    Tick = 2
    Elapsed = {0, 1, 3}
    TickProgress = 60
    FailAt = 80
SPECIFICATION SessionSpec
INVARIANTS TrackersFollowJobs DrivesInOrder FailingDrivesFail TimeIsAdditive
PROPERTIES EventsTellTheStory
