---------------------------- MODULE RunnerOutput ----------------------------
(* The line of the logs that decides the result of an execution, for the    *)
(* runners of Testkube and for containers of any kind.  The texts of the    *)
(* lines are left out, except whether there is one; so are the times, which *)
(* choose between lines of one type only: results carry none, and any error *)
(* gives the same verdict.                                                  *)
EXTENDS Naturals, Sequences

Severe == {"result", "error"}
Types  == Severe \cup {"line", "event", "parsing-error", "unknown"}
Line   == [type : Types, status : {"none", "running", "passed", "failed"}, text : BOOLEAN]

MoreSevere(a, b) ==
    /\ a # b
    /\ \/ a = "result"
       \/ a = "error" /\ b # "result"
       \/ a \notin Severe /\ b \notin Severe

(* A line replaces one that is no more severe, so that of equals the last   *)
(* remains.                                                                 *)
BetterMut(best, l) ==   \* mutant: of equal lines the first remains
    IF MoreSevere(l.type, best.type) THEN l ELSE best
Better(best, l) ==
    IF MoreSevere(l.type, best.type) \/ l.type = best.type THEN l ELSE best

NoLine == [type |-> "line", status |-> "none", text |-> FALSE]

Deciding(logs, ignored) ==
    LET best[i \in 0..Len(logs)] ==
            IF i = 0 THEN NoLine
            ELSE IF logs[i].type = "result" /\ logs[i].status \in ignored THEN best[i - 1]
            ELSE Better(best[i - 1], logs[i])
    IN  best[Len(logs)]

(* ParseRunnerOutput.  A deciding line without a text is given up for the   *)
(* last line of the logs, a result with an empty output too.                *)
RunnerLine(logs) ==
    LET best == Deciding(logs, {"running"})
    IN  IF best.text THEN best ELSE logs[Len(logs)]

RunnerVerdict(logs) ==
    IF logs # <<>> /\ RunnerLine(logs).type = "result" THEN RunnerLine(logs).status
    ELSE "failed"

(* ParseContainerOutput: "none" leaves the verdict to the pod's phase.      *)
ContainerVerdict(logs) ==
    LET best == Deciding(logs, {"none", "running"})
    IN  CASE best.type = "result" -> best.status
          [] best.type = "error"  -> "failed"
          [] OTHER                -> "none"

-----------------------------------------------------------------------------
(* What the parsers promise, over the logs of up to n lines: a result that  *)
(* is not that of an init container decides, and of several the last; only  *)
(* where there is none an error fails the execution.  The exceptions of the *)
(* runners' parser: a result whose text is empty yields to the last line,   *)
(* and one without a status is not survived (getResultMessage).             *)
Results(logs) ==
    {i \in DOMAIN logs : logs[i].type = "result" /\ logs[i].status \in {"passed", "failed"}}
LastLine(logs) == logs[CHOOSE i \in Results(logs) : \A j \in Results(logs) : j <= i]
Saying(l) == l.type = "result" \/ (l.text /\ l.status = "none")
LogsUpTo(n) == UNION {[1..k -> {l \in Line : Saying(l)}] : k \in 0..n}
Survived(logs) == \A i \in DOMAIN logs : logs[i].type = "result" => logs[i].status # "none"

LastResultDecides(n) ==
    \A logs \in LogsUpTo(n) :
        LET none == Results(logs) = {}  last == LastLine(logs) IN
        /\ ~none => ContainerVerdict(logs) = last.status
        /\ none => (ContainerVerdict(logs) = "failed"
                        <=> \E i \in DOMAIN logs : logs[i].type = "error")
        /\ Survived(logs) /\ ~none /\ last.text => RunnerVerdict(logs) = last.status
        /\ Survived(logs) /\ RunnerVerdict(logs) = "passed" => ~none /\ last.status = "passed"
=============================================================================
