-------------------------- MODULE MCTestExecution --------------------------
(* Instances of TestExecution for TLC.                                      *)
EXTENDS TestExecution

CONSTANT a1

OneAborter == {a1}

Scene(sync, negative, deadline, abort, reconciler, f, c) ==
    [sync |-> sync, negative |-> negative, deadline |-> deadline, aborts |-> abort,
     reconciler |-> reconciler, faults |-> f, crashes |-> c]

(* Races: an asynchronous execution with a deadline and an abort.           *)
(* Recovery: a failed call or a restart of an asynchronous execution, both    *)
(* of a synchronous one, with and without the reconciler.                     *)
RacesOrRecovery ==
    {Scene(FALSE, FALSE, TRUE, TRUE, FALSE, 0, 0), Scene(FALSE, FALSE, FALSE, FALSE, TRUE, 0, 1),
     Scene(FALSE, FALSE, FALSE, FALSE, FALSE, 1, 0)}
        \cup {Scene(TRUE, n, FALSE, FALSE, r, 1, 1) : n \in BOOLEAN, r \in BOOLEAN}

Undisturbed == {Scene(FALSE, FALSE, FALSE, FALSE, FALSE, 0, 0)}
=============================================================================
