---------------------------- MODULE SafetyPolicy ----------------------------
(***************************************************************************)
(* The decision SafetyPolicy::authorize takes for one drive, one class of  *)
(* operation and one execution mode.  A drive is abstracted to what the    *)
(* policy looks at: whether it has a stable identity, whether it is        *)
(* protected, and whether its ownership is unknown.                        *)
(***************************************************************************)

Modes == {"Real", "DryRun", "Demo"}

SafetyClasses ==
    {"StatusOnly", "ReadOnly", "FirmwareSelfTest", "Destructive", "Irreversible"}

\* What an observer can see of a drive.
Views == {"NoIdentity", "Protected", "Unknown", "Usable"}

Verdicts == {"Refused", "PlannedOnly", "MayExecute"}

authorize(view, class, mode) ==
    IF \/ view = "NoIdentity"
       \/ view \in {"Protected", "Unknown"} /\ class # "StatusOnly"
       \/ mode = "Real" /\ class \in {"Destructive", "Irreversible"}
    THEN "Refused"
    ELSE IF mode = "DryRun" THEN "PlannedOnly" ELSE "MayExecute"
=============================================================================
