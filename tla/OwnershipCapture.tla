-------------------------- MODULE OwnershipCapture --------------------------
(***************************************************************************)
(* A host whose devices are used, the sources that read it, and the        *)
(* verdict on what they read.  The sources are external here and honest:   *)
(* what they do not find they say is missing, as the contract of           *)
(* OwnershipEvidence demands (core/ownership_graph.h).  A lost backing     *)
(* taints the consumer, a lost use is a gap at the consumer or without a   *)
(* node, or the coverage of its source is withdrawn.  Besides, the sources *)
(* may report anything that speaks against a disk.                         *)
(*                                                                         *)
(* The facts of a host are read in their order; the model assesses the     *)
(* evidence after every step, so that assessments can be compared.         *)
(***************************************************************************)
EXTENDS OwnershipGraph, Functions

CONSTANTS
    Hosts,          \* the hosts, see HostType
    MaxAlarms,      \* bound: the reports against disks
    MaxFaults       \* bound: these and the facts that are lost

VARIABLES
    host,           \* blocks, loops, and facts in the order in which they are read
    unread,         \* the facts still to be read
    losses, alarms, \* counters
    evidence,       \* what was read
    traces, verdicts \* the assessment of the evidence

assessment == <<traces, verdicts>>
captureVars == <<host, unread, losses, alarms, evidence, assessment>>

\* A fact: a consumer is backed by a provider, a consumer is used, or a block
\* device is (not) a member of an inactive group.
FactKinds == {"backing", "use", "signature"}

Backing(facts) == {f \in Range(facts) : f.kind = "backing"}
Used(facts) == {f \in Range(facts) : f.kind = "use" \/ (f.kind = "signature" /\ f.member)}

\* What really backs what.  Partitions are known from the inventory.
RealBacking(h) ==
    LET pairs == {<<f.node, f.provider>> : f \in Backing(h.facts)}
                    \cup {<<p, h.blocks[p].parent>> :
                             p \in {b \in DOMAIN h.blocks : h.blocks[b].role = "Partition"}}
        keys == DOMAIN h.blocks \cup {f.node : f \in Used(h.facts)}
                    \cup UNION {{pair[1], pair[2]} : pair \in pairs}
    IN  [n \in keys |-> {pair[2] : pair \in {q \in pairs : q[1] = n}}]

ReallyBacks(h, d, n) == d \in Reached(RealBacking(h), n)

ReallyUsed(h, d) == \E f \in Used(h.facts) : ReallyBacks(h, d, f.node)

\* Disks are backed by nothing, and inactive loop devices are neither backed nor
\* used (linux_ownership_source.cpp:217-226).  A block device is probed once.
HostAssumption(h) ==
    /\ NoNode \notin DOMAIN h.blocks /\ h.blocks \in [DOMAIN h.blocks -> BlockType]
    /\ \A f \in Range(h.facts) :
        f.kind \in FactKinds /\ f.node \in STRING \ {NoNode} /\ f.node \notin h.loops
    /\ \A f \in Backing(h.facts) :
        /\ f.provider \in STRING \ {NoNode}
        /\ ~(f.node \in DOMAIN h.blocks /\ h.blocks[f.node].role = "Disk")
    /\ \A f \in Range(h.facts) :
        f.kind = "use" => f.source \in Sources \ {"inactive_membership"} /\ f.use \in Uses
    /\ \A f, g \in Range(h.facts) :
        f.kind = "signature" =>
            /\ f.node \in DOMAIN h.blocks
            /\ g.kind = "signature" /\ g.node = f.node => g = f

ASSUME OwnershipCaptureAssumption ==
    /\ MaxAlarms \in Nat /\ MaxFaults \in Nat
    /\ \A h \in Hosts : h.facts \in Seq(Range(h.facts)) /\ HostAssumption(h)

Assess(e) ==
    /\ evidence' = e
    /\ traces' = Traces(e)
    /\ verdicts' = Verdicts(e, traces')

\* The evidence before the first fact is read: the inventory.
Inventory(h) ==
    [blocks |-> h.blocks, nodes |-> <<>>, twice |-> {}, edges |-> {}, claims |-> {},
     issues |-> {}, gaps |-> {}, covered |-> Sources, fresh |-> <<>>, loops |-> h.loops,
     mounts |-> <<>>, swaps |-> {}, discovery |-> {}]

Init ==
    /\ host \in Hosts
    /\ unread = host.facts
    /\ losses = 0 /\ alarms = 0
    /\ evidence = Inventory(host)
    /\ traces = Traces(evidence)
    /\ verdicts = Verdicts(evidence, traces)

-----------------------------------------------------------------------------
(* Reading the next fact. *)

\* A node is reported with what is reported of it.
WithNode(e, n, complete) ==
    IF n \in DOMAIN e.blocks THEN e
    ELSE [e EXCEPT !.nodes = [m \in DOMAIN e.nodes \cup {n} |->
                                (m \in DOMAIN e.nodes => e.nodes[m]) /\ (m = n => complete)]]

WithSignature(e, b, state) ==
    [e EXCEPT !.fresh = [c \in DOMAIN e.fresh \cup {b} |-> IF c = b THEN state ELSE e.fresh[c]]]

WithMount(e, n) ==
    [e EXCEPT !.mounts = Append(@, [id |-> Len(@) + 1, node |-> n, harmless |-> FALSE])]

\* The gaps of a source take the place of its summary, so that a source which lists
\* gaps lists all of them (ownership_graph.h:123-125).
Gapless(e, s) == \A gap \in e.gaps : gap.source # s
MayListGaps(e, s) == s \in e.covered \/ ~Gapless(e, s)

ReadBacking(f) ==
    /\ f.kind = "backing"
    /\ Assess(WithNode(WithNode([evidence EXCEPT !.edges = @ \cup {<<f.node, f.provider>>}],
                                f.node, TRUE), f.provider, TRUE))

ReadUse(f) ==
    /\ f.kind = "use"
    /\ \/ f.source = "mountinfo" /\ Assess(WithMount(evidence, f.node))
       \/ f.source = "swaps" /\ Assess([evidence EXCEPT !.swaps = @ \cup {f.node}])
       \/ /\ f.source \notin {"mountinfo", "swaps"}
          /\ Assess([evidence EXCEPT
                !.claims = @ \cup {[consumer |-> f.node, use |-> f.use, row |-> 0]}])

ReadSignature(f) ==
    /\ f.kind = "signature"
    /\ Assess(WithSignature(evidence, f.node, IF f.member THEN "Membership" ELSE "Filesystem"))

\* What honest sources report when they do not find a fact.  Backing that is lost
\* taints the consumer: by an issue about it, with which sysfs withdraws its coverage
\* and zfs does not, or because the consumer is reported incomplete.
LoseBacking(f) ==
    /\ f.kind = "backing"
    /\ \/ /\ f.node \in DOMAIN evidence.blocks
          /\ Assess([evidence EXCEPT !.covered = @ \ {"sysfs"},
                                     !.issues = @ \cup {[node |-> f.node, source |-> "sysfs"]}])
       \/ /\ f.node \notin DOMAIN evidence.blocks
          /\ \/ Assess(WithNode([evidence EXCEPT
                        !.issues = @ \cup {[node |-> f.node, source |-> "zfs"]}], f.node, TRUE))
             \/ Assess(WithNode(evidence, f.node, FALSE))

\* A use that is lost is a mount (with an issue about it) or a swap of an unknown
\* device, coverage that is withdrawn, or a gap at the consumer or without a node.
LoseUse(f) ==
    /\ f.kind = "use"
    /\ \/ /\ f.source = "mountinfo"
          /\ Assess(WithMount([evidence EXCEPT
                !.discovery = @ \cup {[node |-> NoNode, about |-> "mount",
                                       id |-> Len(evidence.mounts) + 1]}], NoNode))
       \/ f.source = "swaps" /\ Assess([evidence EXCEPT !.swaps = @ \cup {NoNode}])
       \/ /\ Gapless(evidence, f.source)
          /\ Assess([evidence EXCEPT !.covered = @ \ {f.source}])
       \/ /\ MayListGaps(evidence, f.source)
          /\ \E n \in {f.node, NoNode} :
                Assess([evidence EXCEPT !.covered = @ \ {f.source},
                                        !.gaps = @ \cup {[node |-> n, source |-> f.source]}])

LoseSignature(f) ==
    /\ f.kind = "signature"
    /\ LET e == [evidence EXCEPT !.covered = @ \ {"inactive_membership"}]
       IN  \/ Assess(e)
           \/ \E state \in {"Unsupported", "Conflicting"} : Assess(WithSignature(e, f.node, state))

ReadFact ==
    /\ unread # <<>>
    /\ \E f \in {Head(unread)} : ReadBacking(f) \/ ReadUse(f) \/ ReadSignature(f)
    /\ unread' = Tail(unread)
    /\ UNCHANGED <<host, losses, alarms>>

LoseFact ==
    /\ unread # <<>>
    /\ losses + alarms < MaxFaults
    /\ \E f \in {Head(unread)} : LoseBacking(f) \/ LoseUse(f) \/ LoseSignature(f)
    /\ unread' = Tail(unread)
    /\ losses' = losses + 1
    /\ UNCHANGED <<host, alarms>>

-----------------------------------------------------------------------------
(* Reports against disks, true or not.  They come last: evidence is a set. *)

Named == DOMAIN traces \cup {NoNode, "unnamed"}

\* An issue or a gap of a source, at a node or at none; a duplicate record.
AlarmIssue ==
    \/ \E n \in Named :
        \/ Assess([evidence EXCEPT !.issues = @ \cup {[node |-> n, source |-> "zfs"]}])
        \/ Assess([evidence EXCEPT
                !.discovery = @ \cup {[node |-> n, about |-> "other", id |-> 0]}])
        \/ /\ MayListGaps(evidence, "processes")
           /\ Assess([evidence EXCEPT !.gaps = @ \cup {[node |-> n, source |-> "processes"]}])
    \/ \E n \in DOMAIN traces : Assess([evidence EXCEPT !.twice = @ \cup {n}])

\* A use, attributed or not.
AlarmUse ==
    \E n \in Named \ {NoNode}, use \in {"Held", "Mounted"} :
        Assess([evidence EXCEPT !.claims = @ \cup {[consumer |-> n, use |-> use, row |-> 0]}])

\* A further provider of a consumer that has one already, or of a disk.
AlarmEdge ==
    \E n \in DOMAIN traces, p \in DOMAIN traces \cup {"unnamed"} :
        /\ parents(evidence, n) # {} \/ n \in physical(evidence)
        /\ Assess([evidence EXCEPT !.edges = @ \cup {<<n, p>>}])

\* A block device about which the inventory knows less, or worse.
AlarmBlock ==
    \E b \in DOMAIN evidence.blocks :
        \/ Assess([evidence EXCEPT !.blocks[b].scope = "NvmeNamespace"])
        \/ Assess([evidence EXCEPT !.blocks[b].sized = FALSE])
        \/ Assess([evidence EXCEPT !.blocks[b].reciprocal = FALSE])
        \/ Assess([evidence EXCEPT !.blocks[b].issues = {"observation"}])
        \/ /\ evidence.blocks[b].readOnly = "no"
           /\ \E r \in {"yes", "unknown"} : Assess([evidence EXCEPT !.blocks[b].readOnly = r])

Alarm ==
    /\ unread = <<>>
    /\ alarms < MaxAlarms
    /\ losses + alarms < MaxFaults
    /\ AlarmIssue \/ AlarmUse \/ AlarmEdge \/ AlarmBlock
    /\ alarms' = alarms + 1
    /\ UNCHANGED <<host, unread, losses>>

\* The identity or the current path of a disk is not established.
DoubtIdentity(d) ==
    /\ unread = <<>>
    /\ alarms < MaxAlarms
    /\ losses + alarms < MaxFaults
    /\ \/ Assess([evidence EXCEPT !.blocks[d].resolved = FALSE])
       \/ Assess([evidence EXCEPT !.blocks[d].path = FALSE])
    /\ alarms' = alarms + 1
    /\ UNCHANGED <<host, unread, losses>>

Next ==
    \/ ReadFact
    \/ LoseFact
    \/ Alarm
    \/ \E d \in physical(evidence) : DoubtIdentity(d)

CaptureSpec == Init /\ [][Next]_captureVars

-----------------------------------------------------------------------------
(* PROPERTIES *)

CaptureTypeOK ==
    /\ host \in Hosts
    /\ unread \in {SubSeq(host.facts, i, Len(host.facts)) : i \in 1..(Len(host.facts) + 1)}
    /\ losses \in Nat /\ alarms \in 0..MaxAlarms /\ losses + alarms <= MaxFaults
    /\ \A b \in DOMAIN evidence.blocks : evidence.blocks[b] \in BlockType
    /\ \A n \in DOMAIN evidence.fresh : evidence.fresh[n] \in FreshStates
    /\ \A claim \in evidence.claims : claim.use \in Uses
    /\ DOMAIN traces = Nodes(evidence)
    /\ \A d \in DOMAIN verdicts : verdicts[d] \in {"Unknown", "Protected", "Busy", "Ready"}

\* A disk is READY only if nothing that it backs, over any number of layers, is
\* used and nothing on it is a member of an inactive group, whatever the sources
\* have lost, as long as they say so (ownership_graph.cpp:391-455).
ReadyMeansUnused ==
    unread = <<>> => \A d \in DOMAIN verdicts : verdicts[d] = "Ready" => ~ReallyUsed(host, d)

\* A disk is BUSY or PROTECTED only because it is read-only or really used: a
\* consumer that shares nothing with it cannot make it so (ownership_graph.cpp:346-357).
\* Everything keeps its type meanwhile.
UseIsReal ==
    /\ CaptureTypeOK
    /\ alarms = 0 => \A d \in DOMAIN verdicts :
          verdicts[d] \in {"Busy", "Protected"} =>
              ReallyUsed(host, d) \/ host.blocks[d].readOnly = "yes"

\* A host without oddities: no backing is circular, ends in anything but disks and detached
\* loop devices, or has a loop device that is attached; partitions lie on a device.
Regular(h) ==
    /\ Circling(RealBacking(h)) = {}
    /\ \A n \in DOMAIN RealBacking(h) :
        /\ RealBacking(h)[n] \cap h.loops = {}
        /\ RealBacking(h)[n] = {} => n \in h.loops \cup physical(h)
    /\ \A b \in h.loops \cap DOMAIN h.blocks : h.blocks[b].role = "Virtual"
    /\ \A p \in Partitions(h) : OnDisk(h, p)

\* The disk is a known and whole device, and each device that it backs can be probed.
Established(h, d) ==
    /\ h.blocks[d].resolved /\ h.blocks[d].path /\ h.blocks[d].sized
    /\ h.blocks[d].scope = "WholeDevice"
    /\ \A b \in DOMAIN h.blocks : ReallyBacks(h, d, b) =>
        /\ h.blocks[b].issues \subseteq {"signature"}
        /\ \E f \in Range(h.facts) : f.kind = "signature" /\ f.node = b

\* If nothing is lost and nothing speaks against it, a disk of a regular host is READY just
\* when it is established, unused and writable: the demands on the evidence are not
\* impossible to meet, and none of them is about other disks (ownership_graph.cpp:410-455).
UnusedDisksAreReady ==
    unread = <<>> /\ losses = 0 /\ alarms = 0 /\ Regular(host) =>
        \A d \in DOMAIN verdicts :
            verdicts[d] = "Ready" <=>
                ~ReallyUsed(host, d) /\ Established(host, d) /\ host.blocks[d].readOnly = "no"

\* No report against a disk makes a disk READY, or a PROTECTED one BUSY, of whatever
\* kind the report is and whatever was known (ownership_graph.cpp:376-460).  The only
\* exception: a partition that its disk no longer lists is no part of the disk, and what
\* protected it does not protect the disk (ownership_graph.cpp:174-187).
WorseEvidenceNeverClears ==
    [][alarms' > alarms =>
        \A d \in DOMAIN verdicts \cap DOMAIN verdicts' :
            /\ verdicts'[d] = "Ready" => verdicts[d] = "Ready"
            /\ verdicts'[d] = "Busy" =>
                \/ verdicts[d] # "Protected"
                \/ \E p \in Partitions(evidence) :
                        evidence.blocks[p].reciprocal /\ ~evidence'.blocks[p].reciprocal
      ]_captureVars

\* Doubt about the identity of one disk stays with that disk: the verdicts on
\* others with which it shares consumers do not change (ownership_graph.cpp:279-293).
DoubtIsLocal ==
    [][\A d \in physical(evidence) :
        DoubtIdentity(d) => \A o \in DOMAIN verdicts \ {d} : verdicts'[o] = verdicts[o]
      ]_captureVars
=============================================================================
