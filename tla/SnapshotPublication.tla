------------------------ MODULE SnapshotPublication ------------------------
(***************************************************************************)
(* What a reader of the production snapshot may rely on, without threads   *)
(* and locks: scans are numbered and never overlap, each first shows       *)
(* nothing, then the devices it found with the disks' verdicts pending,    *)
(* then the same devices with a verdict for every disk; a scan that fails, *)
(* at whatever point, leaves nothing of what it or a former scan found.    *)
(***************************************************************************)
EXTENDS Naturals, Sequences

CONSTANTS Inventories, Verdicts

VARIABLE shown      \* [generation, phase, rows]

Under(phases) == shown.phase \in phases

Nothing == <<>>

Show(generation, phase, rows) ==
    shown' = [generation |-> generation, phase |-> phase, rows |-> rows]

Init == shown = [generation |-> 0, phase |-> "Idle", rows |-> Nothing]

Begin ==
    /\ Under({"Idle", "Complete", "Failed"})
    /\ Show(shown.generation + 1, "Inventory", Nothing)

Found(devices) ==
    [i \in DOMAIN devices |->
        [device |-> devices[i], pending |-> devices[i].kind = "Disk", status |-> "Unknown"]]

Reveal ==
    /\ Under({"Inventory"})
    /\ \E devices \in Inventories : Show(shown.generation, "Ownership", Found(devices))

\* Only the verdicts of disks are added to what was revealed.
Judged(rows, after) ==
    /\ DOMAIN after = DOMAIN rows
    /\ \A i \in DOMAIN rows :
          /\ after[i].device = rows[i].device
          /\ ~after[i].pending
          /\ after[i].status \in IF rows[i].pending THEN Verdicts ELSE {"Unknown"}

Conclude ==
    /\ Under({"Ownership"})
    /\ Judged(shown.rows, shown'.rows)
    /\ Show(shown.generation, "Complete", shown'.rows)

Fail ==
    /\ Under({"Inventory", "Ownership"})
    /\ Show(shown.generation, "Failed", Nothing)

Next == Begin \/ Reveal \/ Conclude \/ Fail

Spec == Init /\ [][Next]_shown
=============================================================================
