------------------------- MODULE MCOwnershipCapture -------------------------
(***************************************************************************)
(* Hosts with two disks, the first with a partition, a volume group on the *)
(* partition, the second disk or both, a volume in the group, and an       *)
(* inactive loop device.  Two of them may be used, as a disk that is held  *)
(* open while its partition is mounted; or the partition is a member of an *)
(* inactive group and the second disk is read-only; or nothing is used and *)
(* one device, the volume or the second disk, is never probed.             *)
(***************************************************************************)
EXTENDS OwnershipCapture

Block(role, parent, readOnly) ==
    [role |-> role, parent |-> parent, reciprocal |-> TRUE, kind |-> "Disk",
     resolved |-> TRUE, path |-> TRUE, scope |-> "WholeDevice", readOnly |-> readOnly,
     sized |-> TRUE, issues |-> {}]

Backed(n, p) == [kind |-> "backing", node |-> n, provider |-> p]
Use(n, use, source) == [kind |-> "use", node |-> n, use |-> use, source |-> source]
Signature(n, member) == [kind |-> "signature", node |-> n, member |-> member]

\* With a group or without one.
Layers == {<<>>,
           <<Backed("dm", "vg"), Backed("vg", "sda1")>>,
           <<Backed("dm", "vg"), Backed("vg", "sdb")>>,
           <<Backed("dm", "vg"), Backed("vg", "sda1"), Backed("vg", "sdb")>>}

UsesOf(layers) ==
    {<<>>, <<Use("sda1", "Mounted", "mountinfo")>>, <<Use("sdb", "Swap", "swaps")>>}
        \cup IF layers = <<>> THEN {<<Use("sdb", "OpenHandle", "processes")>>,
                                   <<Use("sda1", "Mounted", "mountinfo"),
                                     Use("sda", "OpenHandle", "processes")>>}
             ELSE {<<Use("dm", "Mounted", "mountinfo")>>,
                   <<Use("vg", "Guest", "proxmox")>>,
                   <<Use("sda1", "OpenHandle", "processes"), Use("dm", "OpenHandle", "processes")>>}

Host(layers, uses, member, readOnly, probed) ==
    LET blocks == [b \in {"sda", "sda1", "sdb", "loop0"}
                            \cup IF layers = <<>> THEN {} ELSE {"dm"} |->
                    CASE b = "sda" -> Block("Disk", "", "no")
                      [] b = "sdb" -> Block("Disk", "", readOnly)
                      [] b = "sda1" -> Block("Partition", "sda", "no")
                      [] OTHER -> Block("Virtual", "", "no")]
        last == Signature(IF layers = <<>> THEN "sdb" ELSE "dm", FALSE)
    IN  [blocks |-> blocks, loops |-> {"loop0"},
         facts |-> uses \o layers
                   \o <<Signature("sda", FALSE), Signature("sda1", member)>>
                   \o (IF layers = <<>> THEN <<>> ELSE <<Signature("sdb", FALSE)>>)
                   \o (IF probed THEN <<last>> ELSE <<>>)]

MCHosts ==
    UNION {{Host(layers, <<>>, FALSE, "no", FALSE)}
              \cup {Host(layers, uses, FALSE, "no", TRUE) : uses \in UsesOf(layers)}
              \cup {Host(layers, uses, TRUE, "yes", TRUE) :
                         uses \in {us \in UsesOf(layers) : Len(us) <= 1}} :
              layers \in Layers}

\* The hosts are regular: what is said of them is said of these.
ASSUME MCHostsAreRegular == \A h \in Hosts : Regular(h)
=============================================================================
