------------------------------ MODULE MCDemoUi ------------------------------
(***************************************************************************)
(* The demo screen in three set-ups, with workflows and drives taken from  *)
(* the program's, and room for two drives and one job, so that all that    *)
(* scrolls does scroll: panels, where nothing but inspections run; jobs of *)
(* one drive; and sizes, where the terminal is resized.                    *)
(***************************************************************************)
EXTENDS DemoUi

Hdd == [protected |-> FALSE, hdd |-> TRUE]
Ssd == [protected |-> FALSE, hdd |-> FALSE]
System == [protected |-> TRUE, hdd |-> FALSE]

Workflow(width, job, pausable, cancellable) ==
    [width |-> width, hdd_only |-> FALSE, job |-> job,
     pausable |-> pausable, cancellable |-> cancellable]

ShortTest == Workflow(14, TRUE, FALSE, TRUE)
ExtendedTest == Workflow(17, TRUE, FALSE, TRUE)
Conveyance == [Workflow(19, TRUE, FALSE, TRUE) EXCEPT !.hdd_only = TRUE]
RawData == Workflow(22, FALSE, FALSE, FALSE)
QuickRead == Workflow(20, TRUE, TRUE, TRUE)
SecureErase == Workflow(20, TRUE, FALSE, FALSE)

Small == [height |-> 26, width |-> 70]
Medium == [height |-> 27, width |-> 70]
Roomy == [height |-> 34, width |-> 100]
Tiny == [height |-> 12, width |-> 40]

Panels ==
    [drives |-> <<Hdd, Ssd, System>>,
     features |-> <<"Overview", "Smart", "Sanitize">>,
     catalog |-> [Smart |-> <<ShortTest, ExtendedTest, Conveyance>>,
                  Sanitize |-> <<SecureErase>>],
     sizes |-> {Medium}, dialogs |-> {"Workflow"}, jobs |-> 0]

Jobs ==
    [drives |-> <<Hdd>>, features |-> <<"Overview", "Smart", "Benchmark">>,
     catalog |-> [Smart |-> <<ShortTest, RawData>>, Benchmark |-> <<QuickRead>>],
     sizes |-> {Roomy}, dialogs |-> {"Workflow", "Terminate"}, jobs |-> 2]

Sizes ==
    [drives |-> <<Hdd, System>>, features |-> <<"Overview", "Smart", "Sanitize">>,
     catalog |-> [Smart |-> <<ShortTest, RawData>>, Sanitize |-> <<SecureErase>>],
     sizes |-> {Small, Roomy, Tiny}, dialogs |-> {"Settings", "Detach"}, jobs |-> 0]

MCScreens == {Panels, Jobs, Sizes}
=============================================================================
