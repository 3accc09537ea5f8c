------------------------ MODULE ProductionScanProofs ------------------------
(***************************************************************************)
(* Theorems about production scans, for every number of clients and every  *)
(* inventory: the flag tells whether a scan is under way, and readers see  *)
(* one publication after the other.                                        *)
(*                                                                         *)
(* The inductive invariant ScanInv follows one scan through its hands: the *)
(* client that holds the control lock publishes the pending snapshot, the  *)
(* worker carries that generation to its last word, and nobody else writes *)
(* the snapshot meanwhile.                                                 *)
(***************************************************************************)
EXTENDS ProductionScan, SequenceTheorems, TLAPS

-----------------------------------------------------------------------------
(* The inductive invariant. *)

Snapshots == [generation : 0..MaxGenerations, phase : Phases, rows : Seq(RowType)]
WorkerPcs == {"none", "scan", "reveal", "prove", "publish", "throwing", "lower", "finished"}
Workers == [pc : WorkerPcs, stop : BOOLEAN, local : Snapshots]
Calls == [op : {"none", "start", "wait", "cancel", "rescan"},
          pc : {"idle", "joining", "spawning", "settling", "waiting", "reading"}]

Shapes ==
    /\ snapshot \in Snapshots
    /\ running \in BOOLEAN
    /\ worker \in Workers
    /\ control \in Clients \cup {"NoClient"}
    /\ call \in [Clients -> Calls]
    /\ answer \in [Clients -> Answers]

\* The rows of an inventory before any verdict.
Revealed(rows) == \E devices \in Inventories : rows = inventoryRows(devices)

\* What the rows of a snapshot say depends on its phase.
RowsFitPhase(s) ==
    /\ s.phase \in {"Idle", "Inventory", "Failed"} => s.rows = <<>>
    /\ s.phase = "Ownership" => Revealed(s.rows)

\* A client has the control lock exactly between the two ends of its calls.
OneHolder ==
    \A c \in Clients : control = c <=> call[c].pc \in {"joining", "spawning", "waiting"}

Starting == \E c \in Clients : call[c].pc = "spawning"

FlagRaised ==
    /\ running <=> ~Ended \/ Starting
    /\ ~running => snapshot.phase \in Over

\* The starting client finds no scan under way until it has begun its own.
StarterAlone ==
    \A c \in Clients :
        /\ call[c].pc = "joining" => ~running /\ snapshot.generation < MaxGenerations
        /\ call[c].pc = "spawning" => worker = NoWorker /\ snapshot.phase = "Inventory"

\* How far the worker has come, and what it has shown.
WorkerShows ==
    /\ ~Ended => worker.local.generation = snapshot.generation
    /\ worker.pc = "scan" => snapshot.phase = "Inventory" /\ worker.local.rows = <<>>
    /\ worker.pc = "reveal" =>
          /\ snapshot.phase = "Inventory" /\ worker.local.phase = "Ownership"
          /\ Revealed(worker.local.rows)
    /\ worker.pc = "prove" => snapshot = worker.local /\ snapshot.phase = "Ownership"
    /\ worker.pc = "publish" =>
          \/ /\ snapshot.phase = "Inventory" /\ worker.local.phase = "Failed"
             /\ worker.local.rows = <<>>
          \/ /\ snapshot.phase = "Ownership" /\ worker.local.phase = "Complete"
             /\ Publication!Judged(snapshot.rows, worker.local.rows)
    /\ worker.pc = "throwing" => snapshot.phase \in {"Inventory", "Ownership"}
    /\ worker.pc = "lower" => snapshot.phase \in Over

ScanInv ==
    /\ Shapes
    /\ RowsFitPhase(snapshot)
    /\ OneHolder
    /\ FlagRaised
    /\ StarterAlone
    /\ WorkerShows

-----------------------------------------------------------------------------
(* What the operators of the model make. *)

LEMMA FoundRows ==
    ASSUME NEW devices \in Inventories
    PROVE  /\ inventoryRows(devices) \in Seq(RowType)
           /\ DOMAIN inventoryRows(devices) = DOMAIN devices
           /\ \A i \in DOMAIN devices :
                 /\ inventoryRows(devices)[i].pending <=> devices[i].kind = "Disk"
                 /\ inventoryRows(devices)[i].device = devices[i]
                 /\ inventoryRows(devices)[i].status = "Unknown"
           /\ inventoryRows(devices) = Publication!Found(devices)
  <1>1. devices \in Seq(DevicesFound)
    BY ProductionScanAssumption
  <1>2. DOMAIN devices = 1..Len(devices) /\ Len(devices) \in Nat
    BY <1>1, LenProperties
  <1>3. \A i \in DOMAIN devices : devices[i] \in DevicesFound
    BY DEF DevicesFound
  <1>4. ASSUME NEW i \in DOMAIN devices
        PROVE  inventoryRows(devices)[i] \in RowType
    BY <1>3, ProductionScanAssumption DEF inventoryRows, RowType
  <1>5. inventoryRows(devices) \in Seq(RowType)
    BY <1>2, <1>4, IsASeq DEF inventoryRows
  <1> QED
    BY <1>5 DEF inventoryRows, Publication!Found

\* The verdicts on the rows of an inventory are a judgement of them.
LEMMA JudgedRows ==
    ASSUME NEW rows \in Seq(RowType), Revealed(rows),
           NEW verdicts \in [DOMAIN rows -> Verdicts]
    PROVE  LET after == [i \in DOMAIN rows |-> Decided(rows[i], verdicts[i])]
           IN  after \in Seq(RowType) /\ Publication!Judged(rows, after)
  <1> DEFINE after == [i \in DOMAIN rows |-> Decided(rows[i], verdicts[i])]
  <1>1. PICK devices \in Inventories : rows = inventoryRows(devices)
    BY DEF Revealed
  <1>2. /\ DOMAIN rows = 1..Len(rows) /\ Len(rows) \in Nat
        /\ \A i \in DOMAIN rows : rows[i] \in RowType
    BY LenProperties, ElementOfSeq
  <1>3. ASSUME NEW i \in DOMAIN rows
        PROVE  /\ after[i] \in RowType
               /\ after[i].device = rows[i].device /\ ~after[i].pending
               /\ after[i].status \in IF rows[i].pending THEN Verdicts ELSE {"Unknown"}
    <2>1. /\ rows[i] \in RowType /\ rows[i].status = "Unknown"
          /\ rows[i].pending <=> rows[i].device.kind = "Disk"
      BY <1>1, <1>2, FoundRows
    <2>2. verdicts[i] \in Verdicts /\ after[i] = Decided(rows[i], verdicts[i])
      OBVIOUS
    <2> HIDE DEF after
    <2>3. CASE rows[i].device.kind = "Disk"
      BY <2>1, <2>2, <2>3 DEF Decided, RowType
    <2>4. CASE rows[i].device.kind # "Disk"
      BY <2>1, <2>2, <2>4 DEF Decided, RowType
    <2> QED
      BY <2>3, <2>4
  <1>4. after \in Seq(RowType)
    BY <1>2, <1>3, IsASeq
  <1> QED
    BY <1>3, <1>4 DEF Publication!Judged

LEMMA NoRows == <<>> \in Seq(RowType)
  BY EmptySeq

LEMMA SnapshotIsTyped ==
    ASSUME NEW generation \in 0..MaxGenerations, NEW phase \in Phases, NEW rows \in Seq(RowType)
    PROVE  /\ Snapshot(generation, phase, rows) \in Snapshots
           /\ Snapshot(generation, phase, rows).generation = generation
           /\ Snapshot(generation, phase, rows).phase = phase
           /\ Snapshot(generation, phase, rows).rows = rows
  BY DEF Snapshot, Snapshots

\* The worker that goes to another step keeps the rest.
LEMMA WorkerMoved ==
    ASSUME worker \in Workers, NEW pc \in WorkerPcs
    PROVE  /\ [worker EXCEPT !.pc = pc] \in Workers
           /\ [worker EXCEPT !.pc = pc].pc = pc
           /\ [worker EXCEPT !.pc = pc].local = worker.local
  BY DEF Workers

\* No worker: what Init, PublishPending and EndWait leave.
LEMMA NoWorkerIsTyped ==
    NoWorker \in Workers /\ NoWorker.pc = "none" /\ ~NoWorker.stop /\ Empty \in Snapshots
  <1>1. 0 \in 0..MaxGenerations
    BY ProductionScanAssumption
  <1>2. Empty \in Snapshots
    BY <1>1, NoRows, SnapshotIsTyped DEF Empty, Phases
  <1> HIDE DEF Empty
  <1> QED
    BY <1>2 DEF NoWorker, Workers, WorkerPcs

-----------------------------------------------------------------------------
(* The worker's steps. *)

\* A worker that runs is alone with the snapshot: no client is starting a scan.
LEMMA WorkerAlone ==
    ASSUME ScanInv, ~Ended
    PROVE  running /\ \A c \in Clients : call[c].pc \notin {"joining", "spawning"}
  BY DEF ScanInv, FlagRaised, StarterAlone, Ended, NoWorker

LEMMA WorkerKeeps ==
    ASSUME ScanInv, ~Ended, UNCHANGED <<control, call, answer>>,
           snapshot' \in Snapshots, worker' \in Workers, running' \in BOOLEAN,
           RowsFitPhase(snapshot'), WorkerShows',
           running' <=> ~Ended', ~running' => snapshot'.phase \in Over
    PROVE  ScanInv'
  <1>1. \A c \in Clients : call'[c].pc \notin {"joining", "spawning"}
    BY WorkerAlone
  <1> QED
    BY <1>1 DEF ScanInv, Shapes, OneHolder, FlagRaised, Starting, StarterAlone, RowsFitPhase

LEMMA WorkerStepKeeps ==
    ASSUME ScanInv, WorkerStep
    PROVE  ScanInv'
  <1>1. /\ snapshot \in Snapshots /\ worker \in Workers /\ running \in BOOLEAN
        /\ RowsFitPhase(snapshot) /\ WorkerShows /\ worker.local \in Snapshots
    BY DEF ScanInv, Shapes, Workers
  <1>2. worker.pc \notin {"none", "finished"} => ~Ended
    BY DEF Ended
  <1>3. /\ worker.local.generation \in 0..MaxGenerations
        /\ worker.local.rows \in Seq(RowType)
    BY <1>1 DEF Snapshots
  <1>4. CASE WorkerThrows
    <2>1. ~Ended /\ running
      BY <1>2, <1>4, WorkerAlone DEF WorkerThrows
    <2>2. /\ worker' \in Workers /\ worker'.pc = "throwing" /\ worker'.local = worker.local
          /\ UNCHANGED <<snapshot, running, control, call, answer>>
      BY <1>1, <1>4, WorkerMoved DEF WorkerThrows, WorkerGoesTo, ClientsWait, WorkerPcs
    <2>3. snapshot.phase \in {"Inventory", "Ownership"}
      BY <1>1, <1>4 DEF WorkerThrows, WorkerShows
    <2>4. WorkerShows' /\ ~Ended'
      BY <1>1, <2>1, <2>2, <2>3 DEF WorkerShows, Ended
    <2> QED
      BY <1>1, <2>1, <2>2, <2>4, WorkerKeeps
  <1>5. CASE ScanFails
    <2>1. ~Ended /\ running /\ worker.pc = "scan"
      BY <1>2, <1>5, WorkerAlone DEF ScanFails
    <2>2. /\ worker' \in Workers /\ worker'.pc = "publish"
          /\ worker'.local.generation = worker.local.generation
          /\ worker'.local.phase = "Failed" /\ worker'.local.rows = worker.local.rows
          /\ UNCHANGED <<snapshot, running, control, call, answer>>
      BY <1>1, <1>5 DEF ScanFails, ClientsWait, Workers, WorkerPcs, Snapshots, Phases
    <2>3. snapshot.phase = "Inventory" /\ worker.local.rows = <<>>
      BY <1>1, <2>1 DEF WorkerShows
    <2>4. WorkerShows' /\ ~Ended'
      BY <1>1, <2>1, <2>2, <2>3 DEF WorkerShows, Ended
    <2> QED
      BY <1>1, <2>1, <2>2, <2>4, WorkerKeeps
  <1>6. ASSUME NEW devices \in Inventories, ScanFinds(devices)
        PROVE  ScanInv'
    <2>1. ~Ended /\ running /\ worker.pc = "scan"
      BY <1>2, <1>6, WorkerAlone DEF ScanFinds
    <2>2. inventoryRows(devices) \in Seq(RowType)
      BY FoundRows
    <2>3. /\ worker' \in Workers /\ worker'.pc = "reveal"
          /\ worker'.local.generation = worker.local.generation
          /\ worker'.local.phase = "Ownership" /\ worker'.local.rows = inventoryRows(devices)
          /\ UNCHANGED <<snapshot, running, control, call, answer>>
      BY <1>1, <1>6, <2>2 DEF ScanFinds, ClientsWait, Workers, WorkerPcs, Snapshots, Phases
    <2>4. snapshot.phase = "Inventory" /\ Revealed(worker'.local.rows)
      BY <1>1, <2>1, <2>3 DEF WorkerShows, Revealed
    <2>5. WorkerShows' /\ ~Ended'
      BY <1>1, <2>1, <2>3, <2>4 DEF WorkerShows, Ended, Revealed
    <2> QED
      BY <1>1, <2>1, <2>3, <2>5, WorkerKeeps
  <1>7. CASE Reveal
    <2>1. ~Ended /\ running /\ worker.pc = "reveal"
      BY <1>2, <1>7, WorkerAlone DEF Reveal
    <2>2. /\ worker' \in Workers /\ worker'.pc = "prove" /\ worker'.local = worker.local
          /\ snapshot' = worker.local /\ UNCHANGED <<running, control, call, answer>>
      BY <1>1, <1>7, WorkerMoved DEF Reveal, WorkerGoesTo, ClientsWait, WorkerPcs
    <2>3. worker.local.phase = "Ownership" /\ Revealed(worker.local.rows)
      BY <1>1, <2>1 DEF WorkerShows
    <2>4. WorkerShows' /\ ~Ended' /\ RowsFitPhase(snapshot')
      BY <2>2, <2>3 DEF WorkerShows, Ended, RowsFitPhase
    <2> QED
      BY <1>1, <2>1, <2>2, <2>4, WorkerKeeps
  <1>8. ASSUME NEW verdicts \in [DOMAIN worker.local.rows -> Verdicts], Assess(verdicts)
        PROVE  ScanInv'
    <2> DEFINE after == [i \in DOMAIN worker.local.rows |-> Decided(worker.local.rows[i], verdicts[i])]
    <2>1. ~Ended /\ running /\ worker.pc = "prove"
      BY <1>2, <1>8, WorkerAlone DEF Assess
    <2>2. snapshot = worker.local /\ snapshot.phase = "Ownership" /\ Revealed(worker.local.rows)
      BY <1>1, <2>1 DEF WorkerShows, RowsFitPhase
    <2>3. after \in Seq(RowType) /\ Publication!Judged(worker.local.rows, after)
      BY <1>3, <2>2, JudgedRows
    <2>4. /\ worker' = [worker EXCEPT !.pc = "publish", !.local.phase = "Complete",
                                      !.local.rows = after]
          /\ UNCHANGED <<snapshot, running, control, call, answer>>
      BY <1>1, <1>8 DEF Assess, ClientsWait, Workers, Snapshots
    <2> HIDE DEF after
    <2>5. /\ worker' \in Workers /\ worker'.pc = "publish"
          /\ worker'.local.generation = worker.local.generation
          /\ worker'.local.phase = "Complete" /\ worker'.local.rows = after
      BY <1>1, <2>3, <2>4 DEF Workers, WorkerPcs, Snapshots, Phases
    <2>6. WorkerShows' /\ ~Ended'
      BY <2>2, <2>3, <2>4, <2>5 DEF WorkerShows, Ended
    <2> QED
      BY <1>1, <2>1, <2>4, <2>5, <2>6, WorkerKeeps
  <1>9. CASE Publish
    <2>1. ~Ended /\ running /\ worker.pc = "publish"
      BY <1>2, <1>9, WorkerAlone DEF Publish
    <2>2. /\ worker' \in Workers /\ worker'.pc = "lower" /\ worker'.local = worker.local
          /\ snapshot' = worker.local /\ UNCHANGED <<running, control, call, answer>>
      BY <1>1, <1>9, WorkerMoved DEF Publish, WorkerGoesTo, ClientsWait, WorkerPcs
    <2>3. \/ worker.local.phase = "Failed" /\ worker.local.rows = <<>>
          \/ worker.local.phase = "Complete"
      BY <1>1, <2>1 DEF WorkerShows
    <2>4. WorkerShows' /\ ~Ended' /\ RowsFitPhase(snapshot')
      BY <2>2, <2>3 DEF WorkerShows, Ended, RowsFitPhase, Over
    <2> QED
      BY <1>1, <2>1, <2>2, <2>4, WorkerKeeps
  <1>10. CASE PublishFailure
    <2>1. ~Ended /\ running /\ worker.pc = "throwing"
      BY <1>2, <1>10, WorkerAlone DEF PublishFailure
    <2>2. /\ worker' \in Workers /\ worker'.pc = "lower" /\ worker'.local = worker.local
          /\ UNCHANGED <<running, control, call, answer>>
      BY <1>1, <1>10, WorkerMoved DEF PublishFailure, WorkerGoesTo, ClientsWait, WorkerPcs
    <2>3. /\ snapshot' \in Snapshots /\ snapshot'.generation = worker.local.generation
          /\ snapshot'.phase = "Failed" /\ snapshot'.rows = <<>>
      <3>1. snapshot' = Snapshot(worker.local.generation, "Failed", <<>>)
        BY <1>10 DEF PublishFailure
      <3>2. "Failed" \in Phases
        BY DEF Phases
      <3> QED
        BY <1>3, <3>1, <3>2, NoRows DEF Snapshot, Snapshots
    <2>4. WorkerShows' /\ ~Ended' /\ RowsFitPhase(snapshot')
      BY <2>2, <2>3 DEF WorkerShows, Ended, RowsFitPhase, Over
    <2> QED
      BY <1>1, <2>1, <2>2, <2>3, <2>4, WorkerKeeps
  <1>11. CASE LowerFlag
    <2>1. ~Ended /\ running /\ worker.pc = "lower"
      BY <1>2, <1>11, WorkerAlone DEF LowerFlag
    <2>2. /\ worker' \in Workers /\ worker'.pc = "finished" /\ worker'.local = worker.local
          /\ running' = FALSE /\ UNCHANGED <<snapshot, control, call, answer>>
      BY <1>1, <1>11, WorkerMoved DEF LowerFlag, WorkerGoesTo, ClientsWait, WorkerPcs
    <2>3. snapshot.phase \in Over
      BY <1>1, <2>1 DEF WorkerShows
    <2>4. WorkerShows' /\ Ended'
      BY <2>2 DEF WorkerShows, Ended
    <2> QED
      BY <1>1, <2>1, <2>2, <2>3, <2>4, WorkerKeeps
  <1> QED
    BY <1>4, <1>5, <1>6, <1>7, <1>8, <1>9, <1>10, <1>11 DEF WorkerStep

-----------------------------------------------------------------------------
(* The clients' steps. *)

Holding == {"joining", "spawning", "waiting"}

\* A client that goes on in its call takes the control lock, gives it back or
\* does without; the other clients stay where they are.
LEMMA CallMoves ==
    ASSUME ScanInv, NEW c \in Clients, NEW to \in Calls, call' = [call EXCEPT ![c] = to],
           \/ UNCHANGED control /\ call[c].pc \notin Holding /\ to.pc \notin Holding
           \/ /\ control \in {c, "NoClient"}
              /\ control' = IF to.pc \in Holding THEN c ELSE "NoClient"
    PROVE  /\ OneHolder'
           /\ call' \in [Clients -> Calls]
           /\ control' \in Clients \cup {"NoClient"}
           /\ call'[c] = to
           /\ \A e \in Clients \ {c} : call'[e] = call[e]
  <1>1. "NoClient" \notin Clients
    BY ProductionScanAssumption
  <1>2. call \in [Clients -> Calls]
    BY DEF ScanInv, Shapes
  <1>3. \A e \in Clients : control = e <=> call[e].pc \in Holding
    BY DEF ScanInv, OneHolder, Holding
  <1>4. call' \in [Clients -> Calls] /\ call'[c] = to /\ \A e \in Clients \ {c} : call'[e] = call[e]
    BY <1>2
  <1>5. \A e \in Clients : control' = e <=> call'[e].pc \in Holding
    BY <1>1, <1>3, <1>4
  <1>6. control' \in Clients \cup {"NoClient"}
    BY DEF ScanInv, Shapes
  <1> QED
    BY <1>4, <1>5, <1>6 DEF OneHolder, Holding

\* What is at a client's hand when it goes to another step of its call.
LEMMA CallMoved ==
    ASSUME ScanInv, NEW c \in Clients, NEW pc \in {"joining", "spawning", "settling", "waiting", "reading"}
    PROVE  /\ [call[c] EXCEPT !.pc = pc] \in Calls
           /\ [call[c] EXCEPT !.pc = pc].pc = pc
           /\ [call EXCEPT ![c].pc = pc] = [call EXCEPT ![c] = [call[c] EXCEPT !.pc = pc]]
  BY DEF ScanInv, Shapes, Calls

LEMMA IdleIsTyped == Idle \in Calls /\ Idle.pc = "idle"
  BY DEF Idle, Calls

\* The holder of the lock keeps the others from starting a scan.
LEMMA OthersWait ==
    ASSUME ScanInv, NEW c \in Clients, control \in {c, "NoClient"}
    PROVE  \A e \in Clients \ {c} : call[e].pc \notin Holding
  BY ProductionScanAssumption DEF ScanInv, OneHolder, Holding

LEMMA RefuseStartKeeps ==
    ASSUME ScanInv, NEW c \in Clients, RefuseStart(c)
    PROVE  ScanInv'
  <1>1. /\ call[c].pc = "idle" /\ call' = [call EXCEPT ![c] = Idle]
        /\ answer' = [answer EXCEPT ![c] = "Refused"]
        /\ UNCHANGED <<snapshot, running, worker, control>>
    BY DEF RefuseStart, Returns
  <1>2. /\ OneHolder' /\ call' \in [Clients -> Calls] /\ call'[c] = Idle
        /\ \A e \in Clients \ {c} : call'[e] = call[e]
    BY <1>1, CallMoves, IdleIsTyped DEF Holding
  <1>3. \A e \in Clients : call'[e].pc = call[e].pc
    BY <1>1, <1>2, IdleIsTyped
  <1>4. answer' \in [Clients -> Answers]
    BY <1>1 DEF ScanInv, Shapes, Answers
  <1> QED
    BY <1>1, <1>2, <1>3, <1>4
       DEF ScanInv, Shapes, RowsFitPhase, FlagRaised, Ended, Starting, StarterAlone, WorkerShows

\* What a client that has, takes or gives back the control lock must leave.
LEMMA HolderKeeps ==
    ASSUME ScanInv, NEW c \in Clients, NEW to \in Calls, call' = [call EXCEPT ![c] = to],
           control \in {c, "NoClient"}, control' = IF to.pc \in Holding THEN c ELSE "NoClient",
           snapshot' \in Snapshots, worker' \in Workers, running' \in BOOLEAN,
           answer' \in [Clients -> Answers],
           RowsFitPhase(snapshot'), WorkerShows',
           running' <=> ~Ended' \/ to.pc = "spawning",
           ~running' => snapshot'.phase \in Over,
           to.pc = "joining" => ~running' /\ snapshot'.generation < MaxGenerations,
           to.pc = "spawning" => worker' = NoWorker /\ snapshot'.phase = "Inventory"
    PROVE  ScanInv'
  <1>1. /\ OneHolder' /\ call' \in [Clients -> Calls] /\ control' \in Clients \cup {"NoClient"}
        /\ call'[c] = to /\ \A e \in Clients \ {c} : call'[e] = call[e]
    BY CallMoves
  <1>2. \A e \in Clients \ {c} : call'[e].pc \notin {"joining", "spawning"}
    BY <1>1, OthersWait DEF Holding
  <1>3. Starting' <=> to.pc = "spawning"
    BY <1>1, <1>2 DEF Starting
  <1>4. StarterAlone'
    BY <1>1, <1>2 DEF StarterAlone
  <1> QED
    BY <1>1, <1>3, <1>4 DEF ScanInv, Shapes, FlagRaised, RowsFitPhase

LEMMA BeginStartKeeps ==
    ASSUME ScanInv, NEW c \in Clients, NEW op \in {"start", "rescan"}, BeginStart(c, op)
    PROVE  ScanInv'
  <1> DEFINE to == [op |-> op, pc |-> "joining"]
  <1>1. to \in Calls /\ to.pc = "joining"
    BY DEF Calls
  <1>2. /\ call' = [call EXCEPT ![c] = to] /\ control = "NoClient" /\ control' = c
        /\ ~running /\ snapshot.generation < MaxGenerations
        /\ UNCHANGED <<snapshot, running, worker, answer>>
    BY DEF BeginStart, Enters
  <1> HIDE DEF to
  <1>3. WorkerShows' /\ RowsFitPhase(snapshot')
    BY <1>2 DEF ScanInv, WorkerShows, Ended, RowsFitPhase
  <1>4. Ended /\ Ended'
    BY <1>2 DEF ScanInv, FlagRaised, Ended
  <1>5. snapshot.phase \in Over
    BY <1>2 DEF ScanInv, FlagRaised
  <1> QED
    BY <1>1, <1>2, <1>3, <1>4, <1>5, HolderKeeps DEF ScanInv, Shapes, Holding

LEMMA PublishPendingKeeps ==
    ASSUME ScanInv, NEW c \in Clients, PublishPending(c)
    PROVE  ScanInv'
  <1> DEFINE to == [call[c] EXCEPT !.pc = "spawning"]
  <1>1. to \in Calls /\ to.pc = "spawning" /\ call' = [call EXCEPT ![c] = to]
    BY CallMoved DEF PublishPending, GoesTo
  <1> HIDE DEF to
  <1>2. /\ call[c].pc = "joining" /\ running' = TRUE /\ worker' = NoWorker
        /\ snapshot' = Snapshot(snapshot.generation + 1, "Inventory", <<>>)
        /\ UNCHANGED <<control, answer>>
    BY DEF PublishPending
  <1>3. control = c
    BY <1>2 DEF ScanInv, OneHolder
  <1>4. snapshot.generation + 1 \in 0..MaxGenerations
    BY <1>2, ProductionScanAssumption DEF ScanInv, Shapes, Snapshots, StarterAlone
  <1>5. snapshot' \in Snapshots /\ snapshot'.phase = "Inventory" /\ snapshot'.rows = <<>>
    BY <1>2, <1>4, NoRows DEF Snapshot, Snapshots, Phases
  <1>6. worker' \in Workers /\ worker'.pc = "none" /\ Ended'
    BY <1>2, NoWorkerIsTyped DEF Ended
  <1>7. WorkerShows' /\ RowsFitPhase(snapshot')
    BY <1>5, <1>6 DEF WorkerShows, RowsFitPhase
  <1> QED
    BY <1>1, <1>2, <1>3, <1>5, <1>6, <1>7, HolderKeeps DEF ScanInv, Shapes, Holding

LEMMA SpawnKeeps ==
    ASSUME ScanInv, NEW c \in Clients, Spawn(c)
    PROVE  ScanInv'
  <1> DEFINE local == Snapshot(snapshot.generation, "Idle", <<>>)
  <1>1. /\ call[c].pc = "spawning" /\ control' = "NoClient"
        /\ worker' = [pc |-> "scan", stop |-> FALSE, local |-> local]
        /\ UNCHANGED <<snapshot, running>>
    BY DEF Spawn
  <1>2. control = c /\ running /\ snapshot.phase = "Inventory"
    BY <1>1 DEF ScanInv, OneHolder, FlagRaised, Starting, StarterAlone
  <1>3. local \in Snapshots /\ local.generation = snapshot.generation /\ local.rows = <<>>
    BY NoRows DEF Snapshot, Snapshots, Phases, ScanInv, Shapes
  <1> HIDE DEF local
  <1>4. /\ worker' \in Workers /\ worker'.pc = "scan" /\ worker'.local = local /\ ~Ended'
    BY <1>1, <1>3 DEF Workers, WorkerPcs, Ended
  <1>5. WorkerShows' /\ RowsFitPhase(snapshot')
    BY <1>1, <1>2, <1>3, <1>4 DEF WorkerShows, ScanInv, RowsFitPhase
  <1>6. \E to \in Calls : call' = [call EXCEPT ![c] = to] /\ to.pc \in {"settling", "idle"}
    <2>1. CASE call[c].op = "rescan"
      BY <2>1, CallMoved DEF Spawn, GoesTo
    <2>2. CASE call[c].op # "rescan"
      BY <2>2, IdleIsTyped DEF Spawn, Returns
    <2> QED
      BY <2>1, <2>2
  <1>7. PICK to \in Calls : call' = [call EXCEPT ![c] = to] /\ to.pc \in {"settling", "idle"}
    BY <1>6
  <1>8. answer' \in [Clients -> Answers]
    BY DEF Spawn, Returns, ScanInv, Shapes, Answers
  <1> QED
    BY <1>1, <1>2, <1>4, <1>5, <1>7, <1>8, HolderKeeps DEF ScanInv, Shapes, Holding

LEMMA SpawnFailsKeeps ==
    ASSUME ScanInv, NEW c \in Clients, SpawnFails(c)
    PROVE  ScanInv'
  <1>1. /\ call[c].pc = "spawning" /\ control' = "NoClient" /\ running' = FALSE
        /\ snapshot' = Snapshot(snapshot.generation, "Failed", <<>>)
        /\ call' = [call EXCEPT ![c] = Idle] /\ answer' = [answer EXCEPT ![c] = "Failure"]
        /\ UNCHANGED worker
    BY DEF SpawnFails, Returns
  <1>2. control = c /\ worker = NoWorker
    BY <1>1 DEF ScanInv, OneHolder, StarterAlone
  <1>3. snapshot' \in Snapshots /\ snapshot'.phase = "Failed" /\ snapshot'.rows = <<>>
    BY <1>1, NoRows DEF Snapshot, Snapshots, Phases, ScanInv, Shapes
  <1>4. worker' \in Workers /\ worker'.pc = "none" /\ Ended'
    BY <1>1, <1>2, NoWorkerIsTyped DEF Ended
  <1>5. WorkerShows' /\ RowsFitPhase(snapshot')
    BY <1>3, <1>4 DEF WorkerShows, RowsFitPhase
  <1>6. answer' \in [Clients -> Answers]
    BY <1>1 DEF ScanInv, Shapes, Answers
  <1> QED
    BY <1>1, <1>2, <1>3, <1>4, <1>5, <1>6, IdleIsTyped, HolderKeeps DEF Holding, Over

\* A call that begins to wait takes the control lock, and no more.
LEMMA BeginWaitKeeps ==
    ASSUME ScanInv, NEW c \in Clients, BeginWait(c)
    PROVE  ScanInv'
  <1>1. UNCHANGED <<snapshot, running, worker, answer>> /\ control = "NoClient" /\ control' = c
    BY DEF BeginWait, Enters
  <1>2. \E to \in Calls : call' = [call EXCEPT ![c] = to] /\ to.pc = "waiting"
    <2>1. CASE Enters(c, "wait", "waiting")
      <3>1. [op |-> "wait", pc |-> "waiting"] \in Calls
        BY DEF Calls
      <3> QED
        BY <2>1, <3>1 DEF Enters
    <2>2. CASE GoesTo(c, "waiting")
      BY <2>2, CallMoved DEF GoesTo
    <2> QED
      BY <2>1, <2>2 DEF BeginWait
  <1>3. PICK to \in Calls : call' = [call EXCEPT ![c] = to] /\ to.pc = "waiting"
    BY <1>2
  <1>4. WorkerShows' /\ RowsFitPhase(snapshot') /\ Ended' = Ended
    BY <1>1 DEF ScanInv, WorkerShows, Ended, RowsFitPhase
  <1>5. ~Starting
    BY <1>1, ProductionScanAssumption DEF Starting, ScanInv, OneHolder
  <1> QED
    BY <1>1, <1>3, <1>4, <1>5, HolderKeeps DEF ScanInv, Shapes, FlagRaised, Holding

LEMMA BeginCancelKeeps ==
    ASSUME ScanInv, NEW c \in Clients, BeginCancel(c)
    PROVE  ScanInv'
  <1> DEFINE to == [op |-> "cancel", pc |-> "waiting"]
  <1>1. to \in Calls /\ to.pc = "waiting"
    BY DEF Calls
  <1>2. /\ call' = [call EXCEPT ![c] = to] /\ control = "NoClient" /\ control' = c
        /\ UNCHANGED <<snapshot, running, answer>>
    BY DEF BeginCancel, Enters
  <1> HIDE DEF to
  <1>3. worker' \in Workers /\ worker'.pc = worker.pc /\ worker'.local = worker.local
    BY DEF BeginCancel, Joinable, ScanInv, Shapes, Workers
  <1>4. WorkerShows' /\ RowsFitPhase(snapshot') /\ Ended' = Ended
    BY <1>2, <1>3 DEF ScanInv, WorkerShows, Ended, RowsFitPhase
  <1>5. ~Starting
    BY <1>2, ProductionScanAssumption DEF Starting, ScanInv, OneHolder
  <1> QED
    BY <1>1, <1>2, <1>3, <1>4, <1>5, HolderKeeps DEF ScanInv, Shapes, FlagRaised, Holding

LEMMA EndWaitKeeps ==
    ASSUME ScanInv, NEW c \in Clients, EndWait(c)
    PROVE  ScanInv'
  <1>1. /\ call[c].pc = "waiting" /\ Ended /\ worker' = NoWorker /\ control' = "NoClient"
        /\ UNCHANGED <<snapshot, running>>
    BY DEF EndWait
  <1>2. control = c /\ ~Starting
    BY <1>1 DEF ScanInv, OneHolder, Starting
  <1>3. ~running /\ snapshot.phase \in Over
    BY <1>1, <1>2 DEF ScanInv, FlagRaised
  <1>4. worker' \in Workers /\ worker'.pc = "none" /\ Ended'
    BY <1>1, NoWorkerIsTyped DEF Ended
  <1>5. WorkerShows' /\ RowsFitPhase(snapshot')
    BY <1>1, <1>4 DEF WorkerShows, ScanInv, RowsFitPhase
  <1>6. \E to \in Calls : call' = [call EXCEPT ![c] = to] /\ to.pc \in {"reading", "idle"}
    <2>1. CASE call[c].op = "rescan"
      BY <2>1, CallMoved DEF EndWait, GoesTo
    <2>2. CASE call[c].op # "rescan"
      BY <2>2, IdleIsTyped DEF EndWait, Returns
    <2> QED
      BY <2>1, <2>2
  <1>7. PICK to \in Calls : call' = [call EXCEPT ![c] = to] /\ to.pc \in {"reading", "idle"}
    BY <1>6
  <1>8. answer' \in [Clients -> Answers]
    BY DEF EndWait, Returns, ScanInv, Shapes, Answers
  <1> QED
    BY <1>1, <1>2, <1>3, <1>4, <1>5, <1>7, <1>8, HolderKeeps DEF ScanInv, Shapes, Holding

\* The rescan's last look needs no lock: another client may hold it.
LEMMA ReportRescanKeeps ==
    ASSUME ScanInv, NEW c \in Clients, ReportRescan(c)
    PROVE  ScanInv'
  <1>1. /\ call[c].pc = "reading" /\ call' = [call EXCEPT ![c] = Idle]
        /\ UNCHANGED <<snapshot, running, worker, control>>
    BY DEF ReportRescan, Returns
  <1>2. /\ OneHolder' /\ call' \in [Clients -> Calls] /\ call'[c] = Idle
        /\ \A e \in Clients \ {c} : call'[e] = call[e]
    BY <1>1, CallMoves, IdleIsTyped DEF Holding
  <1>3. /\ Starting' = Starting
        /\ \A e \in Clients : call'[e].pc \in {"joining", "spawning"} => call'[e].pc = call[e].pc
    BY <1>1, <1>2, IdleIsTyped DEF Starting
  <1>4. answer' \in [Clients -> Answers]
    BY DEF ReportRescan, Returns, ScanInv, Shapes, Answers
  <1> QED
    BY <1>1, <1>2, <1>3, <1>4
       DEF ScanInv, Shapes, RowsFitPhase, FlagRaised, Ended, StarterAlone, WorkerShows

-----------------------------------------------------------------------------
(* The flag and the snapshot. *)

LEMMA ScanStarts == ScanInit => ScanInv
  <1> SUFFICES ASSUME ScanInit PROVE ScanInv
    OBVIOUS
  <1>1. /\ snapshot = Empty /\ running = FALSE /\ worker = NoWorker /\ control = "NoClient"
        /\ call = [c \in Clients |-> Idle] /\ answer = [c \in Clients |-> "None"]
    BY DEF ScanInit
  <1>2. \A c \in Clients : call[c].pc = "idle" /\ control # c
    BY <1>1, IdleIsTyped, ProductionScanAssumption
  <1>3. snapshot.phase = "Idle" /\ snapshot.rows = <<>> /\ worker.pc = "none"
    BY <1>1, NoWorkerIsTyped DEF Empty, Snapshot
  <1>4. Shapes
    BY <1>1, NoWorkerIsTyped, IdleIsTyped DEF Shapes, Answers
  <1> QED
    BY <1>1, <1>2, <1>3, <1>4
       DEF ScanInv, RowsFitPhase, OneHolder, FlagRaised, Ended, Starting, StarterAlone,
           WorkerShows, Over

LEMMA ScanKeeps ==
    ASSUME ScanInv, [ScanNext]_scanVars
    PROVE  ScanInv'
  <1>1. ASSUME NEW c \in Clients, CallStep(c)
        PROVE  ScanInv'
    BY <1>1, PublishPendingKeeps, SpawnKeeps, SpawnFailsKeeps, EndWaitKeeps,
       ReportRescanKeeps, BeginWaitKeeps DEF CallStep
  <1>2. CASE UNCHANGED scanVars
    BY <1>2
       DEF scanVars, ScanInv, Shapes, RowsFitPhase, OneHolder, FlagRaised, Ended, Starting,
           StarterAlone, WorkerShows
  <1> QED
    BY <1>1, <1>2, WorkerStepKeeps, RefuseStartKeeps, BeginWaitKeeps, BeginCancelKeeps,
       BeginStartKeeps DEF ScanNext

THEOREM ScanAlwaysInOrder == ScanSpec => []ScanInv
  <1>1. ScanInit => ScanInv
    BY ScanStarts
  <1>2. ScanInv /\ [ScanNext]_scanVars => ScanInv'
    BY ScanKeeps
  <1> QED
    BY <1>1, <1>2, PTL DEF ScanSpec

\* The flag that refuses scans is up exactly while a worker runs or a client is
\* about to start one, for any number of clients; when it is down the snapshot
\* is settled.
LEMMA FlagIsTold == ScanInv => FlagTellsOfScan
  <1> SUFFICES ASSUME ScanInv PROVE FlagTellsOfScan
    OBVIOUS
  <1>1. SnapshotType(snapshot) /\ SnapshotType(worker.local)
    BY DEF ScanInv, Shapes, Workers, Snapshots, SnapshotType
  <1>2. ScanTypeOK
    BY <1>1 DEF ScanInv, Shapes, Workers, WorkerPcs, Calls, ScanTypeOK
  <1> QED
    BY <1>2 DEF ScanInv, FlagRaised, Starting, FlagTellsOfScan

THEOREM FlagAlwaysTells == ScanSpec => []FlagTellsOfScan
  <1>1. ScanInv => FlagTellsOfScan
    BY FlagIsTold
  <1> QED
    BY <1>1, ScanAlwaysInOrder, PTL

-----------------------------------------------------------------------------
(* The implementation of SnapshotPublication. *)

Shown == [generation |-> snapshot.generation, phase |-> snapshot.phase,
          rows |-> snapshot.rows]

\* A new scan begins only after the former one's last word.
LEMMA PendingBegins ==
    ASSUME ScanInv, NEW c \in Clients, PublishPending(c)
    PROVE  Publication!Begin
  <1>1. snapshot.phase \in Over
    BY DEF PublishPending, ScanInv, StarterAlone, FlagRaised
  <1>2. /\ snapshot'.generation = snapshot.generation + 1
        /\ snapshot'.phase = "Inventory" /\ snapshot'.rows = <<>>
    BY DEF PublishPending, Snapshot
  <1> QED
    BY <1>1, <1>2 DEF Publication!Begin, Publication!Under, Publication!Show,
                      Publication!Nothing, Over

LEMMA RevealReveals ==
    ASSUME ScanInv, Reveal
    PROVE  Publication!Reveal
  <1>1. /\ snapshot.phase = "Inventory" /\ snapshot' = worker.local
        /\ worker.local.generation = snapshot.generation
        /\ worker.local.phase = "Ownership" /\ Revealed(worker.local.rows)
    BY DEF Reveal, ScanInv, WorkerShows, Ended
  <1>2. PICK devices \in Inventories : worker.local.rows = Publication!Found(devices)
    BY <1>1, FoundRows DEF Revealed
  <1> QED
    BY <1>1, <1>2 DEF Publication!Reveal, Publication!Under, Publication!Show

LEMMA PublishConcludesOrFails ==
    ASSUME ScanInv, Publish
    PROVE  Publication!Conclude \/ Publication!Fail
  <1>1. /\ snapshot' = worker.local /\ worker.local.generation = snapshot.generation
        /\ \/ /\ snapshot.phase = "Inventory" /\ worker.local.phase = "Failed"
              /\ worker.local.rows = <<>>
           \/ /\ snapshot.phase = "Ownership" /\ worker.local.phase = "Complete"
              /\ Publication!Judged(snapshot.rows, worker.local.rows)
    BY DEF Publish, ScanInv, WorkerShows, Ended
  <1> QED
    BY <1>1 DEF Publication!Conclude, Publication!Fail, Publication!Under, Publication!Show,
                Publication!Nothing

LEMMA FailureFails ==
    ASSUME ScanInv,
           \/ PublishFailure
           \/ \E c \in Clients : SpawnFails(c)
    PROVE  Publication!Fail
  <1>1. /\ snapshot' = Snapshot(snapshot.generation, "Failed", <<>>)
        /\ snapshot.phase \in {"Inventory", "Ownership"}
    BY DEF PublishFailure, SpawnFails, ScanInv, WorkerShows, StarterAlone, Ended
  <1> QED
    BY <1>1 DEF Publication!Fail, Publication!Under, Publication!Show, Publication!Nothing,
                Snapshot

\* Every step of a scan is a publication, or shows nothing new.
LEMMA StepPublishes ==
    ASSUME ScanInv, [ScanNext]_scanVars
    PROVE  [Publication!Next]_Shown
  <1>1. CASE UNCHANGED snapshot
    BY <1>1 DEF Shown
  <1>2. CASE WorkerStep
    BY <1>1, <1>2, RevealReveals, PublishConcludesOrFails, FailureFails
       DEF WorkerStep, WorkerThrows, ScanFails, ScanFinds, Assess, LowerFlag, Publication!Next
  <1>3. ASSUME NEW c \in Clients, CallStep(c)
        PROVE  [Publication!Next]_Shown
    BY <1>1, <1>3, PendingBegins, FailureFails
       DEF CallStep, Spawn, EndWait, ReportRescan, BeginWait, Publication!Next
  <1> QED
    BY <1>1, <1>2, <1>3
       DEF ScanNext, scanVars, RefuseStart, BeginWait, BeginCancel, BeginStart

\* Readers of the snapshot, at whatever moments they look, see the publications
\* of one scan after the other, for any number of clients and any inventory.
THEOREM ReadersSeeScansInOrder == ScanSpec => PublishesInOrder
  <1>1. ScanInit => Publication!Init
    BY DEF ScanInit, Publication!Init, Publication!Nothing, Empty, Snapshot
  <1>2. ScanInv /\ [ScanNext]_scanVars => [Publication!Next]_Shown
    BY StepPublishes
  <1> QED
    BY <1>1, <1>2, ScanAlwaysInOrder, PTL
       DEF ScanSpec, PublishesInOrder, Publication!Spec, Shown
=============================================================================
