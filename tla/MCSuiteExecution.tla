--------------------------- MODULE MCSuiteExecution ---------------------------
(* Instances of SuiteExecution for TLC.                                       *)
EXTENDS SuiteExecution

CONSTANT a1

OneAborter == {a1}

Scene(kinds, stops, aborts, timeout, reconciler, f, c) ==
    [kinds |-> kinds, stops |-> stops, aborts |-> aborts, timeout |-> timeout,
     reconciler |-> reconciler, faults |-> f, crashes |-> c]

(* A runner that is left alone, with every message: where a failure stops the *)
(* suite, and where a call fails; with steps of no type, where both happen;   *)
(* and one that may be lost, with a reconciler: where calls fail, and where   *)
(* the tests are aborted.                                                     *)
EndOrRecovery ==
    {Scene({{"test"}, {"delay"}}, BOOLEAN, {"suite"}, TRUE, FALSE, 0, 0),
     Scene({{"test"}, {"delay"}}, {FALSE}, {"suite"}, TRUE, FALSE, 1, 0),
     Scene({{"test"}, {"untyped"}, {"test", "untyped"}}, BOOLEAN, {}, FALSE, FALSE, 1, 0),
     Scene({{"test"}}, {FALSE}, {}, FALSE, TRUE, 1, 1),
     Scene({{"test"}}, {FALSE}, {"test"}, FALSE, TRUE, 0, 1)}
OnlyReconciler ==
    {Scene({{"test"}, {"delay"}, {"test", "delay"}}, BOOLEAN, {}, FALSE, TRUE, 0, 0)}
=============================================================================
