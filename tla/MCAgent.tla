------------------------------- MODULE MCAgent -------------------------------
(* Instances of Agent for TLC.                                              *)
EXTENDS Agent

Scene(c, l, f) == [command |-> c, log |-> l, faults |-> f]

(* One lane is busy, or both are a little; the connection breaks twice.     *)
OneBusyLane == {Scene(3, 0, 2), Scene(0, 3, 1), Scene(1, 1, 2)}
OneFailure  == {Scene(2, 0, 1)}
=============================================================================
