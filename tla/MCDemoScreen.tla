---------------------------- MODULE MCDemoScreen ----------------------------
(***************************************************************************)
(* The screen with one drive and two jobs: a benchmark that can be paused  *)
(* and a firmware erase that cannot even be cancelled.                     *)
(***************************************************************************)
EXTENDS DemoScreen

MCOperations == {w.op : w \in demoWorkflowCatalog}

MCWorkflows ==
    {w \in demoWorkflowCatalog :
        \/ w.feature = "Benchmark"
        \/ w.feature = "Sanitize" /\ w.op.class = "Irreversible"}
=============================================================================
