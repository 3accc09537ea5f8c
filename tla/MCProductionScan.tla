-------------------------- MODULE MCProductionScan --------------------------
(***************************************************************************)
(* Production scans that find nothing, a disk, or a disk and a device of   *)
(* another kind.                                                           *)
(***************************************************************************)
EXTENDS ProductionScan, TLC

Device(kind) == [id |-> kind, facts |-> "same", kind |-> kind]

MCInventories == {<<>>, <<Device("Disk")>>, <<Device("Disk"), Device("Other")>>}

ClientSymmetry == Permutations(Clients)
=============================================================================
