CONSTANTS
    Sources = {"sysfs", "zfs", "proxmox", "processes", "mountinfo", "swaps", "inactive_membership"}
    Hosts <- MCHosts
    MaxAlarms = 1
    MaxFaults = 2
SPECIFICATION CaptureSpec
INVARIANTS ReadyMeansUnused UseIsReal UnusedDisksAreReady
PROPERTIES WorseEvidenceNeverClears DoubtIsLocal
CHECK_DEADLOCK FALSE
