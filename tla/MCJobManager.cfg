CONSTANTS
    Drives = {d1, d2, d3}
    Operations <- MCOperations
    StartModes = {"Demo", "DryRun", "Real"}
    MaxParallelDrives = 2
    HostObservations = {"Absent", "Other", "Protected", "Unknown", "Usable"}
    ReportedProgress <- MCReportedProgress
    MaxJobs = 4
SPECIFICATION Spec
CONSTRAINT Explored
SYMMETRY DriveSymmetry
INVARIANTS TypeOK LocksMatchJobs SlotsRespected NoIdleDrive ServesLikeTheLoop
PROPERTIES OnlyVerifiedStarts HistoryIsKept ReservesDrives
