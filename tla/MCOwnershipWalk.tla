-------------------------- MODULE MCOwnershipWalk ---------------------------
(***************************************************************************)
(* Walks from the first of three consumers, in all graphs in which the     *)
(* others have each other, the first and disks as providers; nothing       *)
(* is tainted, or a consumer is, or a disk is unusable.                    *)
(***************************************************************************)
EXTENDS OwnershipWalk

Disks == {"d1", "d2"}

Graph(onward, tainted, unusable) ==
    [onward |-> onward, physical |-> Disks, nodes |-> {"a"},
     tainted |-> tainted, unusable |-> unusable]

MCGraphs ==
    {Graph([n \in {"a", "b", "c"} \cup Disks |->
                CASE n = "a" -> ofA [] n = "b" -> ofB [] n = "c" -> ofC [] OTHER -> {}],
           wrong[1], wrong[2]) :
        ofA \in SUBSET {"b", "c", "d1"},
        ofB \in SUBSET {"a", "b", "c", "d1"},
        ofC \in SUBSET ({"a", "b"} \cup Disks),
        wrong \in {<<{}, {}>>, <<{"b"}, {}>>, <<{}, {"d1"}>>}}
=============================================================================
