---------------------------- MODULE MCProductionUi ----------------------------
(***************************************************************************)
(* The screen over scans in which a disk moves to another row, keeps its   *)
(* identity but not its other facts, or is not resolved.                   *)
(***************************************************************************)
EXTENDS ProductionUi

Disk(id, facts) == [id |-> id, facts |-> facts, kind |-> "Disk"]
Drive == [id |-> "optical", facts |-> "same", kind |-> "Other"]

MCInventories == {<<Disk("a", "same"), Drive>>,
                  <<Drive, Disk("a", "same")>>,
                  <<Disk("a", "changed")>>,
                  <<Disk("Unresolved", "same")>>}
=============================================================================
