------------------------------ MODULE MCEmitter ------------------------------
(* Instances of Emitter for TLC.                                            *)
EXTENDS Emitter

(* "my-hook" and "myhook" have one name, "other" has another.               *)
TwoNames == <<"myhook", "myhook", "other">>
=============================================================================
