-------------------------- MODULE MCExecutionNumbers --------------------------
(* Instances of ExecutionNumbers for TLC.                                   *)
EXTENDS ExecutionNumbers, TLC

Scene(seeded, serial, deletes) == [seeded |-> seeded, serial |-> serial, deletes |-> deletes]

(* With and without the document, at the same time or one after the other;  *)
(* and one after the other while the test or a suite of its name is deleted.*)
LostOrDeleted ==
    {Scene(seeded, serial, "none") : seeded \in BOOLEAN, serial \in BOOLEAN}
        \cup {Scene(seeded, TRUE, deletes) : seeded \in BOOLEAN, deletes \in {"test", "suite"}}

(* The runs differ in nothing but their names.                              *)
AnyRun == Permutations(Runs)
=============================================================================
