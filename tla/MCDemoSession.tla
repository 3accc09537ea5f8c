---------------------------- MODULE MCDemoSession ----------------------------
(***************************************************************************)
(* A demo session with one workflow for each way a job can be controlled   *)
(* and one inspection.  Progress takes two ticks instead of fifty, and a   *)
(* self-test fails in its second tick instead of its tenth.                *)
(***************************************************************************)
EXTENDS DemoSession

MCOperations == {w.op : w \in demoWorkflowCatalog}

OfClass(class) == {w \in demoWorkflowCatalog : w.op.class = class}

MCWorkflows ==
    OfClass("FirmwareSelfTest") \cup OfClass("ReadOnly")
        \cup {w \in OfClass("Irreversible") : w.feature = "Sanitize"}
=============================================================================
