------------------------ MODULE MCContainerExecution ------------------------
(* Instances of ContainerExecution for TLC.                                   *)
EXTENDS ContainerExecution

CONSTANT a1

OneAborter == {a1}
Says(type, status) == <<[type |-> type, status |-> status, text |-> TRUE]>>

(* Nothing that decides or a result, which may contradict the pod's phase.    *)
SomeOutputs == {<<>>, Says("result", "passed")}
(* A scraper that is silent or reports an error: the logs then fail an        *)
(* execution whose pod succeeded.                                             *)
SomeErrors  == {<<>>, Says("error", "none")}

Scene(sync1, scrapes, abort, informer1, reconciler1, f, c) ==
    [sync |-> sync1, artifacts |-> scrapes, aborts |-> abort, informer |-> informer1,
     reconciler |-> reconciler1, faults |-> f, crashes |-> c]

(* Each with a caller that waits and one that does not, and with and without  *)
(* artifacts: an abort against the informer of the pods; the informer alone   *)
(* with a failed call; the reconciler after a restart, with a failed call     *)
(* unless nobody waits and there are artifacts.  And an abort with a failed   *)
(* call, without artifacts.                                                   *)
AbortsOrRecovery ==
    UNION {{Scene(s, a, TRUE, TRUE, FALSE, 0, 0), Scene(s, a, FALSE, TRUE, FALSE, 1, 0),
            Scene(s, a, FALSE, FALSE, TRUE, IF a /\ ~s THEN 0 ELSE 1, 1),
            Scene(s, FALSE, TRUE, FALSE, FALSE, 1, 0)}
              : s, a \in BOOLEAN}
=============================================================================
