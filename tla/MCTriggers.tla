----------------------------- MODULE MCTriggers -----------------------------
(* Instances of Triggers for TLC.                                             *)
EXTENDS Triggers

CONSTANTS t1, s1, s2

OneTrigger  == {t1}
TwoSources  == {s1, s2}

Case(p, ss, w1, w2) ==
    [policy |-> [t \in Triggers |-> p], suites |-> ss,
     watch  |-> [s \in Sources |-> IF s = s1 THEN w1 ELSE w2]]

(* One trigger of tests or of suites, fed by one informer or by two.          *)
OneOfEach == {Case("forbid", {}, {t1}, {t1}), Case("forbid", {t1}, {t1}, {t1}),
              Case("forbid", {t1}, {t1}, {}), Case("replace", {}, {t1}, {}),
              Case("replace", {t1}, {t1}, {t1})}
=============================================================================
