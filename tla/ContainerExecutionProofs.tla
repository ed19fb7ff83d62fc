---------------------- MODULE ContainerExecutionProofs ----------------------
(* Proofs about ContainerExecution, for all logs, every set of abort        *)
(* requests and every bound: first what the loop over the lines of the logs *)
(* computes, by an induction on its length, then the execution.             *)
EXTENDS ContainerExecution, FiniteSetTheorems, WellFoundedInduction, TLAPS

-----------------------------------------------------------------------------
(* Induction: a set of numbers that has 0, and with each number the next,   *)
(* has all, since the intervals 1..n are well-founded.                      *)
LEMMA Induction ==
    ASSUME NEW S \in SUBSET Nat, 0 \in S, \A n \in S : n + 1 \in S
    PROVE  S = Nat
<1> DEFINE Missing == {n \in Nat : n \notin S}
           Initial == {1..n : n \in Missing}
<1> SUFFICES ASSUME Missing # {} PROVE FALSE
  OBVIOUS
<1>1. \A n \in Nat : 1..n \in FiniteSubsetsOf(Nat)
  BY FS_Interval DEF FiniteSubsetsOf
<1>2. Initial \subseteq FiniteSubsetsOf(Nat) /\ Initial # {}
  BY <1>1
<1>3. PICK x \in Initial : \A y \in Initial : ~(<<y, x>> \in StrictSubsetOrdering(Nat))
  <2> HIDE DEF Initial
  <2> QED
    BY <1>2, FS_StrictSubsetOrderingWellFounded, WFMin
<1>4. PICK n \in Missing : x = 1..n
  OBVIOUS
<1>5. n # 0 /\ n - 1 \in Missing
  OBVIOUS
<1>6. <<1..(n - 1), 1..n>> \in StrictSubsetOrdering(Nat)
  BY <1>5 DEF StrictSubsetOrdering
<1> QED
  BY <1>3, <1>4, <1>5, <1>6

(* A function of 0..n that is given at 0 and from each number to the next.  *)
Iterates(f, n, x, step) == f = [i \in 0..n |-> IF i = 0 THEN x ELSE step[i][f[i - 1]]]

LEMMA Recursion ==
    ASSUME NEW n \in Nat, NEW X, NEW x \in X, NEW step \in [1..n -> [X -> X]]
    PROVE  \E f \in [0..n -> X] : Iterates(f, n, x, step)
<1> DEFINE Upto(k, f) == f = [i \in 0..k |-> IF i = 0 THEN x ELSE step[i][f[i - 1]]]
           Exists(k) == \E f \in [0..k -> X] : Upto(k, f)
           S == {k \in Nat : k <= n => Exists(k)}
<1>1. Exists(0)
  <2>1. Upto(0, [i \in 0..0 |-> x])
    OBVIOUS
  <2> QED
    BY <2>1
<1>2. ASSUME NEW k \in Nat, k + 1 <= n, Exists(k) PROVE Exists(k + 1)
  <2>1. PICK f \in [0..k -> X] : Upto(k, f)
    BY <1>2
  <2> DEFINE g == [i \in 0..(k + 1) |-> IF i = k + 1 THEN step[i][f[k]] ELSE f[i]]
  <2>2. f[k] \in X /\ step[k + 1][f[k]] \in X
    BY <1>2
  <2>3. g \in [0..(k + 1) -> X]
    BY <2>2
  <2>4. \A i \in 0..k : f[i] = IF i = 0 THEN x ELSE step[i][f[i - 1]]
    BY <2>1, Zenon
  <2>5. \A i \in 0..(k + 1) : g[i] = IF i = 0 THEN x ELSE step[i][g[i - 1]]
    BY <2>4
  <2>6. Upto(k + 1, g)
    BY <2>5
  <2> QED
    BY <2>3, <2>6
<1>3. S = Nat
  <2> HIDE DEF Exists
  <2>1. 0 \in S /\ \A k \in S : k + 1 \in S
    BY <1>1, <1>2
  <2> HIDE DEF S
  <2>2. S \in SUBSET Nat
    BY DEF S
  <2> QED
    BY <2>1, <2>2, Induction
<1> QED
  BY <1>3 DEF Iterates

-----------------------------------------------------------------------------
(* One line more, over the best so far.                                     *)
Later(best, l, ignored) ==
    IF l.type = "result" /\ l.status \in ignored THEN best ELSE Better(best, l)

(* The loop of the parsers: the best line of every prefix of the logs.      *)
LEMMA Loop ==
    ASSUME NEW logs \in Seq(Line), NEW ignored
    PROVE  \E best \in [0..Len(logs) -> Line] :
              /\ best[0] = NoLine
              /\ \A i \in 1..Len(logs) : best[i] = Later(best[i - 1], logs[i], ignored)
              /\ Deciding(logs, ignored) = best[Len(logs)]
<1> DEFINE n == Len(logs)
           Fix(best) ==
              best = [i \in 0..n |->
                         IF i = 0 THEN NoLine
                         ELSE IF logs[i].type = "result" /\ logs[i].status \in ignored
                              THEN best[i - 1]
                         ELSE Better(best[i - 1], logs[i])]
           step == [i \in 1..n |-> [b \in Line |-> Later(b, logs[i], ignored)]]
<1>1. n \in Nat /\ NoLine \in Line /\ \A i \in 1..n : logs[i] \in Line
  <2>1. NoLine \in Line
    BY DEF NoLine, Line, Types, Severe
  <2> QED
    BY <2>1
<1>2. \A b, l \in Line : Later(b, l, ignored) \in Line
  BY DEF Later, Better
<1>3. step \in [1..n -> [Line -> Line]]
  BY <1>1, <1>2
<1>4. PICK f \in [0..n -> Line] : Iterates(f, n, NoLine, step)
  <2> HIDE DEF step, n
  <2>1. n \in Nat
    BY <1>1
  <2>2. NoLine \in Line
    BY <1>1
  <2> QED
    BY <2>1, <2>2, <1>3, Recursion
<1>5. f[0] = NoLine /\ \A i \in 1..n : f[i] = Later(f[i - 1], logs[i], ignored)
  <2>1. \A i \in 0..n : f[i] = IF i = 0 THEN NoLine ELSE step[i][f[i - 1]]
    BY <1>4, Zenon DEF Iterates
  <2>2. \A i \in 1..n : i \in 0..n /\ i # 0 /\ f[i - 1] \in Line
    BY <1>1
  <2>3. 0 \in 0..n
    BY <1>1
  <2> QED
    BY <2>1, <2>2, <2>3
<1>6. \E best : Fix(best)
  <2>1. \A i \in 0..n : f[i] = IF i = 0 THEN NoLine
                         ELSE IF logs[i].type = "result" /\ logs[i].status \in ignored
                              THEN f[i - 1]
                         ELSE Better(f[i - 1], logs[i])
    BY <1>1, <1>5 DEF Later
  <2>2. Fix(f)
    BY <2>1
  <2> QED
    BY <2>2
<1> DEFINE best == CHOOSE b : Fix(b)
<1>7. Fix(best) /\ Deciding(logs, ignored) = best[n]
  BY <1>6 DEF Deciding
<1>8. best = [i \in 0..n |-> best[i]]
  BY <1>7
<1>9. \A i \in 0..n : best[i] = IF i = 0 THEN NoLine
                         ELSE IF logs[i].type = "result" /\ logs[i].status \in ignored
                              THEN best[i - 1]
                         ELSE Better(best[i - 1], logs[i])
  <2> HIDE DEF best
  <2> QED
    BY <1>7, Zenon
<1>10. best[0] = NoLine /\ \A i \in 1..n : best[i] = Later(best[i - 1], logs[i], ignored)
  <2> HIDE DEF best
  <2>1. 0 \in 0..n /\ \A i \in 1..n : i \in 0..n /\ i # 0
    BY <1>1
  <2> QED
    BY <1>9, <2>1 DEF Later
<1> DEFINE S == {i \in Nat : i <= n => best[i] \in Line}
<1>11. S = Nat
  <2> HIDE DEF best
  <2>1. 0 \in S
    BY <1>1, <1>10
  <2>2. ASSUME NEW i \in S PROVE i + 1 \in S
    <3>1. i \in Nat /\ (i + 1 <= n => best[i + 1] = Later(best[i], logs[i + 1], ignored))
      BY <1>1, <1>10
    <3> QED
      BY <1>1, <1>2, <3>1
  <2>3. S \in SUBSET Nat
    OBVIOUS
  <2> HIDE DEF S
  <2> QED
    BY <2>1, <2>2, <2>3, Induction
<1>12. best \in [0..n -> Line]
  <2> HIDE DEF best
  <2>1. \A i \in 0..n : best[i] \in Line
    BY <1>1, <1>11
  <2> QED
    BY <1>8, <2>1
<1> QED
  <2> HIDE DEF best, Fix
  <2> QED
    BY <1>7, <1>10, <1>12

Speaks(l, ignored) == l.type = "result" /\ l.status \notin ignored

(* What is known of the best of the first k lines.                          *)
Known(best, k, logs, ignored) ==
    /\ \A i \in 1..k : Speaks(logs[i], ignored)
           /\ (\A j \in 1..k : Speaks(logs[j], ignored) => j <= i) => best = logs[i]
    /\ best.type = "result" <=> \E i \in 1..k : Speaks(logs[i], ignored)
    /\ (\E i \in 1..k : logs[i].type = "error") => best.type \in Severe
    /\ best.type = "error" => \E i \in 1..k : logs[i].type = "error"

LEMMA KnownStep ==
    ASSUME NEW logs \in Seq(Line), NEW ignored, NEW k \in Nat, k + 1 <= Len(logs),
           NEW best \in Line, Known(best, k, logs, ignored)
    PROVE  Known(Later(best, logs[k + 1], ignored), k + 1, logs, ignored)
<1> DEFINE l == logs[k + 1]
<1>1. l \in Line /\ 1..(k + 1) = 1..k \cup {k + 1} /\ k + 1 \notin 1..k
  OBVIOUS
<1>2. \A i \in 1..k : i <= k /\ i <= k + 1 /\ ~(k + 1 <= i)
  OBVIOUS
<1>3. CASE l.type = "result" /\ l.status \in ignored
  <2>1. Later(best, l, ignored) = best /\ ~Speaks(l, ignored) /\ l.type # "error"
    BY <1>3 DEF Later, Speaks
  <2> HIDE DEF l
  <2>2. \A i \in 1..k : (\A j \in 1..(k + 1) : Speaks(logs[j], ignored) => j <= i)
                           => \A j \in 1..k : Speaks(logs[j], ignored) => j <= i
    BY <1>1
  <2> QED
    BY <1>1, <1>2, <2>1, <2>2 DEF Known, l
<1>4. CASE Speaks(l, ignored)
  <2>1. Later(best, l, ignored) = l
    BY <1>4 DEF Later, Speaks, Better, MoreSevere
  <2>2. l.type = "result" /\ l.type \in Severe
    BY <1>4 DEF Speaks, Severe
  <2> QED
    BY <1>1, <1>2, <1>4, <2>1, <2>2 DEF Known
<1>5. CASE l.type # "result"
  <2>1. Later(best, l, ignored) = Better(best, l) /\ ~Speaks(l, ignored)
    BY <1>5 DEF Later, Speaks
  <2>2. best.type = "result" => Better(best, l) = best
    BY <1>5 DEF Better, MoreSevere, Severe
  <2>3. best.type # "result" =>
            /\ Better(best, l).type # "result"
            /\ l.type = "error" \/ best.type = "error" <=> Better(best, l).type = "error"
    BY <1>1, <1>5 DEF Better, MoreSevere, Severe, Line, Types
  <2>4. \A i \in 1..k : (\A j \in 1..(k + 1) : Speaks(logs[j], ignored) => j <= i)
                           => \A j \in 1..k : Speaks(logs[j], ignored) => j <= i
    BY <1>1
  <2> QED
    BY <1>1, <1>2, <2>1, <2>2, <2>3, <2>4 DEF Known, Severe
<1> QED
  BY <1>3, <1>4, <1>5 DEF Speaks

(* The line that decides is the last result that counts, else an error.     *)
LEMMA Decided ==
    ASSUME NEW logs \in Seq(Line), NEW ignored
    PROVE  /\ Deciding(logs, ignored) \in Line
           /\ Known(Deciding(logs, ignored), Len(logs), logs, ignored)
<1>1. PICK best \in [0..Len(logs) -> Line] :
              /\ best[0] = NoLine
              /\ \A i \in 1..Len(logs) : best[i] = Later(best[i - 1], logs[i], ignored)
              /\ Deciding(logs, ignored) = best[Len(logs)]
  BY Loop
<1> DEFINE S == {k \in Nat : k <= Len(logs) => Known(best[k], k, logs, ignored)}
<1>2. 0 \in S
  <2>1. best[0] = NoLine
    BY <1>1
  <2> QED
    BY <2>1 DEF Known, NoLine
<1>3. ASSUME NEW k \in S PROVE k + 1 \in S
  <2> SUFFICES ASSUME k + 1 <= Len(logs) PROVE Known(best[k + 1], k + 1, logs, ignored)
    OBVIOUS
  <2>1. k \in Nat /\ best[k] \in Line /\ Known(best[k], k, logs, ignored)
    OBVIOUS
  <2>2. best[k + 1] = Later(best[k], logs[k + 1], ignored)
    BY <1>1
  <2> QED
    BY <2>1, <2>2, KnownStep
<1>4. S = Nat
  <2>1. S \in SUBSET Nat
    OBVIOUS
  <2> HIDE DEF S
  <2> QED
    BY <1>2, <1>3, <2>1, Induction
<1>5. Len(logs) \in S /\ best[Len(logs)] \in Line
  BY <1>4
<1> QED
  BY <1>1, <1>5

LEMMA Greatest ==
    ASSUME NEW n \in Nat, NEW T \in SUBSET (1..n), T # {}
    PROVE  \E i \in T : \A j \in T : j <= i
<1> DEFINE S == {k \in Nat : (\E i \in T : i <= k)
                                => \E i \in T : i <= k /\ \A j \in T : j <= k => j <= i}
<1>1. 0 \in S
  OBVIOUS
<1>2. ASSUME NEW k \in S PROVE k + 1 \in S
  <2>1. CASE k + 1 \in T
    BY <2>1
  <2>2. CASE k + 1 \notin T
    <3>1. \A i \in T : i <= k + 1 <=> i <= k
      BY <2>2
    <3> QED
      BY <3>1
  <2> QED
    BY <2>1, <2>2
<1>3. S = Nat
  <2>1. S \in SUBSET Nat
    OBVIOUS
  <2> HIDE DEF S
  <2> QED
    BY <1>1, <1>2, <2>1, Induction
<1>4. \A i \in T : i \in Nat /\ i <= n
  OBVIOUS
<1> QED
  BY <1>3, <1>4

(* The last result among logs that have one.                                *)
LEMMA LastResult ==
    ASSUME NEW logs \in Seq(Line), Results(logs) # {}
    PROVE  \E i \in Results(logs) : LastLine(logs) = logs[i] /\ \A j \in Results(logs) : j <= i
<1>1. Results(logs) \in SUBSET (1..Len(logs)) /\ Len(logs) \in Nat
  BY DEF Results
<1>2. \E i \in Results(logs) : \A j \in Results(logs) : j <= i
  BY <1>1, Greatest
<1> QED
  BY <1>2 DEF LastLine

(* The parsers promise what LastResultDecides says for logs of any length.  *)
LEMMA ContainersLast ==
    ASSUME NEW logs \in Seq(Line)
    PROVE  /\ Results(logs) # {} => ContainerVerdict(logs) = LastLine(logs).status
           /\ Results(logs) = {} => (ContainerVerdict(logs) = "failed"
                        <=> \E i \in DOMAIN logs : logs[i].type = "error")
<1> DEFINE ignored == {"none", "running"}
           best == Deciding(logs, ignored)
<1>1. best \in Line /\ Known(best, Len(logs), logs, ignored)
  BY Decided
<1>2. DOMAIN logs = 1..Len(logs) /\ \A i \in 1..Len(logs) : logs[i] \in Line
  OBVIOUS
<1>3. \A i \in 1..Len(logs) : i \in Results(logs) <=> Speaks(logs[i], ignored)
  BY <1>2 DEF Results, Speaks, Line
<1>4. ContainerVerdict(logs) = IF best.type = "result" THEN best.status
                               ELSE IF best.type = "error" THEN "failed" ELSE "none"
  BY DEF ContainerVerdict
<1> HIDE DEF best
<1>5. ASSUME Results(logs) # {} PROVE ContainerVerdict(logs) = LastLine(logs).status
  <2>1. PICK i \in Results(logs) : LastLine(logs) = logs[i] /\ \A j \in Results(logs) : j <= i
    BY <1>5, LastResult
  <2>2. i \in 1..Len(logs)
    BY <1>2 DEF Results
  <2>3. best = logs[i] /\ best.type = "result"
    BY <1>1, <1>3, <2>1, <2>2 DEF Known
  <2> QED
    BY <1>4, <2>1, <2>3
<1>6. ASSUME Results(logs) = {}
      PROVE  ContainerVerdict(logs) = "failed" <=> \E i \in DOMAIN logs : logs[i].type = "error"
  <2>1. best.type # "result"
    BY <1>1, <1>3, <1>6 DEF Known
  <2>2. best.type = "error" <=> \E i \in DOMAIN logs : logs[i].type = "error"
    BY <1>1, <1>2, <2>1 DEF Known, Severe
  <2> QED
    BY <1>4, <2>1, <2>2
<1> QED
  BY <1>5, <1>6

(* The verdict of the logs is one, or none.                                  *)
LEMMA VerdictType ==
    ASSUME NEW logs \in Seq(Line)
    PROVE  ContainerVerdict(logs) \in {"none", "passed", "failed"}
<1>1. CASE Results(logs) # {}
  <2>1. PICK i \in Results(logs) : LastLine(logs) = logs[i]
    BY <1>1, LastResult
  <2>2. logs[i].status \in {"passed", "failed"}
    BY DEF Results
  <2> QED
    BY <1>1, <2>1, <2>2, ContainersLast
<1>2. CASE Results(logs) = {}
  <2> DEFINE best == Deciding(logs, {"none", "running"})
  <2>1. \A i \in 1..Len(logs) : ~Speaks(logs[i], {"none", "running"})
    <3>1. DOMAIN logs = 1..Len(logs) /\ \A i \in 1..Len(logs) : logs[i] \in Line
      OBVIOUS
    <3> QED
      BY <1>2, <3>1 DEF Results, Speaks, Line
  <2>2. best.type # "result"
    BY <2>1, Decided DEF Known
  <2> QED
    BY <2>2 DEF ContainerVerdict
<1> QED
  BY <1>1, <1>2

LEMMA RunnersLast ==
    ASSUME NEW logs \in Seq(Line), Survived(logs)
    PROVE  /\ Results(logs) # {} /\ LastLine(logs).text => RunnerVerdict(logs) = LastLine(logs).status
           /\ RunnerVerdict(logs) = "passed"
                => Results(logs) # {} /\ LastLine(logs).status = "passed"
<1> DEFINE ignored == {"running"}
           best == Deciding(logs, ignored)
<1>1. best \in Line /\ Known(best, Len(logs), logs, ignored)
  BY Decided
<1>2. DOMAIN logs = 1..Len(logs) /\ \A i \in 1..Len(logs) : logs[i] \in Line
  OBVIOUS
<1>3. \A i \in 1..Len(logs) : i \in Results(logs) <=> Speaks(logs[i], ignored)
  BY <1>2 DEF Results, Speaks, Line, Survived
<1>4. RunnerLine(logs) = IF best.text THEN best ELSE logs[Len(logs)]
  BY DEF RunnerLine
<1> HIDE DEF best
<1>5. ASSUME Results(logs) # {} PROVE best = LastLine(logs) /\ best.type = "result" /\ logs # <<>>
  <2>1. PICK i \in Results(logs) : LastLine(logs) = logs[i] /\ \A j \in Results(logs) : j <= i
    BY <1>5, LastResult
  <2>2. i \in 1..Len(logs)
    BY <1>2 DEF Results
  <2>3. best = logs[i] /\ best.type = "result"
    BY <1>1, <1>3, <2>1, <2>2 DEF Known
  <2> QED
    BY <2>1, <2>2, <2>3
<1>6. ASSUME RunnerVerdict(logs) = "passed"
      PROVE  Results(logs) # {} /\ LastLine(logs).status = "passed"
  <2>1. logs # <<>> /\ RunnerLine(logs).type = "result" /\ RunnerLine(logs).status = "passed"
    BY <1>6 DEF RunnerVerdict
  <2>2. CASE best.text
    <3>1. best.type = "result" /\ best.status = "passed"
      BY <1>4, <2>1, <2>2
    <3>2. Results(logs) # {}
      BY <1>1, <1>3, <3>1 DEF Known
    <3> QED
      BY <1>5, <3>1, <3>2
  <2>3. CASE ~best.text
    <3>1. Len(logs) \in Results(logs) /\ logs[Len(logs)].status = "passed"
      BY <1>2, <1>4, <2>1, <2>3 DEF Results
    <3>2. PICK i \in Results(logs) : LastLine(logs) = logs[i] /\ \A j \in Results(logs) : j <= i
      BY <3>1, LastResult
    <3>3. i \in 1..Len(logs) /\ Len(logs) <= i
      BY <1>2, <3>1, <3>2 DEF Results
    <3> QED
      BY <3>1, <3>2, <3>3
  <2> QED
    BY <2>2, <2>3
<1> QED
  BY <1>4, <1>5, <1>6 DEF RunnerVerdict

(* What the parsers of the logs promise, whatever the length of the logs.   *)
THEOREM ResultsDecide == \A n \in Nat : LastResultDecides(n)
<1> SUFFICES ASSUME NEW n \in Nat, NEW k \in 0..n, NEW logs \in [1..k -> {l \in Line : Saying(l)}]
             PROVE  /\ Results(logs) # {} => ContainerVerdict(logs) = LastLine(logs).status
                    /\ Results(logs) = {} => (ContainerVerdict(logs) = "failed"
                            <=> \E i \in DOMAIN logs : logs[i].type = "error")
                    /\ Survived(logs) /\ Results(logs) # {} /\ LastLine(logs).text
                            => RunnerVerdict(logs) = LastLine(logs).status
                    /\ Survived(logs) /\ RunnerVerdict(logs) = "passed"
                            => Results(logs) # {} /\ LastLine(logs).status = "passed"
  BY DEF LastResultDecides, LogsUpTo
<1>1. logs \in Seq(Line)
  OBVIOUS
<1> QED
  BY <1>1, ContainersLast, RunnersLast

(* Logs without a line leave the verdict to the pod.                        *)
LEMMA Silence == ContainerVerdict(<<>> \o <<>>) = "none"
<1> DEFINE best == Deciding(<<>>, {"none", "running"})
<1>1. Known(best, 0, <<>>, {"none", "running"})
  <2>1. <<>> \in Seq(Line) /\ Len(<<>>) = 0
    OBVIOUS
  <2> QED
    BY <2>1, Decided
<1>2. best.type # "result" /\ best.type # "error"
  BY <1>1 DEF Known
<1>3. <<>> \o <<>> = <<>>
  OBVIOUS
<1> QED
  BY <1>2, <1>3 DEF ContainerVerdict

-----------------------------------------------------------------------------
(* Type correctness, in parts: what is given and what the logs say, what is *)
(* stored or held, where everybody is, and what is noted.                   *)
Inputs ==
    /\ scene \in Scenes
    /\ out \in Outputs \cup {<<>>} /\ sout \in ScraperOutputs \cup {<<>>}

Stored ==
    /\ rec \in Final \cup {"none", "running"} /\ cr \in Final \cup {"none", "running"}
    /\ objects \in [{"r0", "rp"} -> {"running", "passed", "failed"}] /\ cur \in {"r0", "rp"}
    /\ sret \in {"r0", "rp"} /\ scopy \in {"running", "passed", "failed"}
    /\ ares \in [Aborters -> {"aborted", "failed"}]
    /\ events \subseteq {"success", "failed", "aborted"}
Places ==
    /\ pod \in {"none", "pending", "running", "gone"} \cup Finished
    /\ spod \in {"none", "starting", "pending", "running", "gone"} \cup Finished
    /\ spc \in {"insert", "create", "list", "watching", "assign", "write", "done"}
    /\ wpc \in {"off", "poll", "get", "scrape", "slist", "swait", "slogs", "verdict",
                "write", "end", "report", "done"}
    /\ phase \in {"none", "pending", "running"} \cup Finished
    /\ saw \in {"nothing", "running", "gone", "ended", "lost"}
    /\ apc \in [Aborters -> {"request", "read", "write", "report", "done"}]
    /\ ipc \in {"idle", "write"} /\ rpc \in {"idle", "pods", "write"}

Flags ==
    /\ job \in BOOLEAN /\ pvc \in BOOLEAN /\ serr \in BOOLEAN
    /\ werr \in BOOLEAN /\ due \in BOOLEAN

Budgets == faults \in 0..scene.faults /\ crashes \in 0..scene.crashes

LEMMA TypeParts == TypeOK <=> Inputs /\ Stored /\ Places /\ Flags /\ Budgets
BY DEF TypeOK, Inputs, Stored, Places, Flags, Budgets

LEMMA LogsOfLines == Inputs => out \o sout \in Seq(Line)
<1> SUFFICES ASSUME Inputs PROVE out \o sout \in Seq(Line)
  OBVIOUS
<1>1. out \in Seq(Line) /\ sout \in Seq(Line)
  <2>1. <<>> \in Seq(Line)
    OBVIOUS
  <2> QED
    BY <2>1, OutputsAssumption DEF Inputs
<1> QED
  BY <1>1

LEMMA TypeInit == Init => TypeOK
<1> SUFFICES ASSUME Init PROVE TypeOK
  OBVIOUS
<1>1. Inputs /\ Budgets
  BY ScenesAssumption DEF Init, Inputs, Budgets
<1>2. Stored
  BY DEF Init, Stored, Final
<1>3. Places /\ Flags
  BY DEF Init, Places, Flags
<1> QED
  BY <1>1, <1>2, <1>3, TypeParts

LEMMA SceneStays == [Next]_vars => UNCHANGED scene
BY DEF Next, Sched, Watch, Abort, Informer, Recon, Cluster, vars, Quiet,
    SchedInsert, SchedCreate, SchedList, SchedReturn, SchedAssign, SchedWrite,
    WatchPoll, WatchGet, ScrapeStart, ScrapeList, ScrapeEnd, ScrapeLogs, WatchVerdict, WatchWrite,
    WatchEnd, WatchReport, AbortKill, AbortRead, AbortWrite, AbortReport, InformerRead,
    InformerWrite, ReconList, ReconPods, ReconWrite, PodStart, PodRun, PodFinish, JobGo, PodGo,
    ScraperStep, Crash

LEMMA InputsStep == Inputs /\ [Next]_vars => Inputs'
<1> SUFFICES ASSUME Inputs, [Next]_vars PROVE Inputs'
  OBVIOUS
<1>1. UNCHANGED scene
  BY SceneStays
<1>2. out' = out \/ out' \in Outputs
  BY DEF Next, Sched, Watch, Abort, Informer, Recon, Cluster, vars, cluster, Quiet,
         SchedInsert, SchedCreate, SchedList, SchedReturn, SchedAssign, SchedWrite,
         WatchPoll, WatchGet, ScrapeStart, ScrapeList, ScrapeEnd, ScrapeLogs, WatchVerdict, WatchWrite,
         WatchEnd, WatchReport, AbortKill, AbortRead, AbortWrite, AbortReport, InformerRead,
         InformerWrite, ReconList, ReconPods, ReconWrite, PodStart, PodRun, PodFinish, JobGo, PodGo,
         ScraperStep, Crash
<1>3. sout' = sout \/ sout' \in ScraperOutputs
  BY DEF Next, Sched, Watch, Abort, Informer, Recon, Cluster, vars, watch, Quiet,
         SchedInsert, SchedCreate, SchedList, SchedReturn, SchedAssign, SchedWrite,
         WatchPoll, WatchGet, ScrapeStart, ScrapeList, ScrapeEnd, ScrapeLogs, WatchVerdict, WatchWrite,
         WatchEnd, WatchReport, AbortKill, AbortRead, AbortWrite, AbortReport, InformerRead,
         InformerWrite, ReconList, ReconPods, ReconWrite, PodStart, PodRun, PodFinish, JobGo, PodGo,
         ScraperStep, Crash
<1> QED
  BY <1>1, <1>2, <1>3 DEF Inputs

LEMMA BudgetsStep == Inputs /\ Budgets /\ [Next]_vars => Budgets'
<1> SUFFICES ASSUME Inputs, Budgets, [Next]_vars PROVE Budgets'
  OBVIOUS
<1>1. UNCHANGED scene
  BY SceneStays
<1>2. NoFault \/ Fault
  BY DEF Next, Sched, Watch, Abort, Informer, Recon, Cluster, vars, budget, NoFault, Quiet,
         SchedInsert, SchedCreate, SchedList, SchedReturn, SchedAssign, SchedWrite,
         WatchPoll, WatchGet, ScrapeStart, ScrapeList, ScrapeEnd, ScrapeLogs, WatchVerdict, WatchWrite,
         WatchEnd, WatchReport, AbortKill, AbortRead, AbortWrite, AbortReport, InformerRead,
         InformerWrite, ReconList, ReconPods, ReconWrite, PodStart, PodRun, PodFinish, JobGo, PodGo,
         ScraperStep, Crash
<1>3. UNCHANGED crashes \/ (crashes < scene.crashes /\ crashes' = crashes + 1)
  BY DEF Next, Sched, Watch, Abort, Informer, Recon, Cluster, vars, budget, Quiet,
         SchedInsert, SchedCreate, SchedList, SchedReturn, SchedAssign, SchedWrite,
         WatchPoll, WatchGet, ScrapeStart, ScrapeList, ScrapeEnd, ScrapeLogs, WatchVerdict, WatchWrite,
         WatchEnd, WatchReport, AbortKill, AbortRead, AbortWrite, AbortReport, InformerRead,
         InformerWrite, ReconList, ReconPods, ReconWrite, PodStart, PodRun, PodFinish, JobGo, PodGo,
         ScraperStep, Crash
<1>4. scene.faults \in Nat /\ scene.crashes \in Nat
  BY ScenesAssumption DEF Inputs
<1> QED
  BY <1>1, <1>2, <1>3, <1>4 DEF Budgets, NoFault, Fault

LEMMA StoredStep == Inputs /\ Stored /\ [Next]_vars => Stored'
<1> SUFFICES ASSUME Inputs, Stored, [Next]_vars PROVE Stored'
  OBVIOUS
<1> USE DEF Stored, Finished, Final, NoFault, Fault, store, cluster, heap, sched, watch, aborts, others, budget
<1>1. CASE Sched
  <2>1. CASE SchedInsert
    BY <2>1 DEF SchedInsert, SetCur, Notify
  <2>2. CASE SchedCreate
    BY <2>2 DEF SchedCreate, ExecuteErr
  <2>3. CASE SchedList
    BY <2>3 DEF SchedList, ExecuteErr
  <2>4. CASE SchedReturn
    BY <2>4 DEF SchedReturn
  <2>5. CASE SchedAssign
    BY <2>5 DEF SchedAssign
  <2>6. CASE SchedWrite
    BY <2>6 DEF SchedWrite, SetCur, Notify
  <2> QED
    BY <1>1, <2>1, <2>2, <2>3, <2>4, <2>5, <2>6 DEF Sched
<1>2. CASE Watch
  <2>1. CASE WatchPoll
    BY <2>1 DEF WatchPoll, SetCur
  <2>2. CASE WatchGet
    BY <2>2 DEF WatchGet, Return
  <2>3. CASE ScrapeStart
    BY <2>3 DEF ScrapeStart, Return
  <2>4. CASE ScrapeList
    BY <2>4 DEF ScrapeList, Return
  <2>5. CASE ScrapeEnd
    BY <2>5 DEF ScrapeEnd, Return, Scraped, SetCur
  <2>5a. CASE ScrapeLogs
    BY <2>5a DEF ScrapeLogs, Return
  <2>6. CASE WatchVerdict
    <3> DEFINE verdict == ContainerVerdict(out \o sout)
    <3>1. verdict \in {"none", "passed", "failed"}
      BY VerdictType, LogsOfLines
    <3> HIDE DEF verdict
    <3>2. UNCHANGED <<rec, cr, events, scopy, sret, ares>>
      BY <2>6 DEF WatchVerdict
    <3>3. \/ /\ cur' \in {cur, "rp"}
             /\ objects' = [[objects EXCEPT ![cur] = Phase(@)] EXCEPT
                            !["rp"] = IF verdict = "none" THEN @ ELSE verdict]
          \/ SetCur("failed") /\ UNCHANGED cur
      BY <2>6 DEF WatchVerdict, verdict
    <3>4. \A st \in {"running", "passed", "failed"} : Phase(st) \in {"running", "passed", "failed"}
      BY DEF Phase
    <3> QED
      BY <3>1, <3>2, <3>3, <3>4 DEF SetCur
  <2>7. CASE WatchWrite
    BY <2>7 DEF WatchWrite, Return
  <2>8. CASE WatchEnd
    BY <2>8 DEF WatchEnd
  <2>9. CASE WatchReport
    BY <2>9 DEF WatchReport, Notify, EndKind
  <2> QED
    BY <1>2, <2>1, <2>2, <2>3, <2>4, <2>5, <2>5a, <2>6, <2>7, <2>8, <2>9 DEF Watch
<1>3. CASE Informer
  BY <1>3 DEF Informer, InformerRead, InformerWrite
<1>4. CASE Recon
  BY <1>4 DEF Recon, ReconList, ReconPods, ReconWrite
<1>5. CASE Cluster
  <2>1. UNCHANGED <<store, heap, sched, aborts, events>>
    BY <1>5 DEF Cluster, PodStart, PodRun, PodFinish, JobGo, PodGo, ScraperStep, Quiet
  <2> QED
    BY <2>1
<1>6. CASE Crash
  BY <1>6 DEF Crash
<1>7. ASSUME NEW a \in Aborters, Abort(a) PROVE Stored'
  BY <1>7 DEF Abort, AbortKill, AbortRead, AbortWrite, AbortReport, At, Notify, EndKind
<1>8. CASE UNCHANGED vars
  BY <1>8 DEF vars
<1> QED
  BY <1>1, <1>2, <1>3, <1>4, <1>5, <1>6, <1>7, <1>8 DEF Next

LEMMA PlacesStep == Places /\ [Next]_vars => Places'
<1> SUFFICES ASSUME Places, [Next]_vars PROVE Places'
  OBVIOUS
<1> USE DEF Places, Finished, Final, NoFault, Fault, store, cluster, heap, sched, watch, aborts, others, budget
<1>1. CASE Sched
  <2>1. CASE SchedInsert
    BY <2>1 DEF SchedInsert, SetCur, Notify
  <2>2. CASE SchedCreate
    <3>1. spc' \in {"list", "assign"}
      BY <2>2 DEF SchedCreate, ExecuteErr
    <3>2. UNCHANGED <<pod, spod, wpc, phase, saw, apc, ipc, rpc>>
      BY <2>2 DEF SchedCreate
    <3> QED
      BY <3>1, <3>2
  <2>3. CASE SchedList
    BY <2>3 DEF SchedList, ExecuteErr
  <2>4. CASE SchedReturn
    BY <2>4 DEF SchedReturn
  <2>5. CASE SchedAssign
    BY <2>5 DEF SchedAssign
  <2>6. CASE SchedWrite
    BY <2>6 DEF SchedWrite, SetCur, Notify
  <2> QED
    BY <1>1, <2>1, <2>2, <2>3, <2>4, <2>5, <2>6 DEF Sched
<1>2. CASE Watch
  BY <1>2 DEF Watch, WatchPoll, WatchGet, ScrapeStart, ScrapeList, ScrapeEnd, ScrapeLogs, WatchVerdict,
         WatchWrite, WatchEnd, WatchReport, Return, SetCur, Scraped, Phase, Notify, EndKind, PodExists, Lives
<1>3. CASE Informer
  BY <1>3 DEF Informer, InformerRead, InformerWrite
<1>4. CASE Recon
  BY <1>4 DEF Recon, ReconList, ReconPods, ReconWrite
<1>5. CASE Cluster
  BY <1>5 DEF Cluster, PodStart, PodRun, PodFinish, JobGo, PodGo, ScraperStep, Quiet
<1>6. CASE Crash
  BY <1>6 DEF Crash
<1>7. ASSUME NEW a \in Aborters, Abort(a) PROVE Places'
  BY <1>7 DEF Abort, AbortKill, AbortRead, AbortWrite, AbortReport, At, Notify, EndKind
<1>8. CASE UNCHANGED vars
  BY <1>8 DEF vars
<1> QED
  BY <1>1, <1>2, <1>3, <1>4, <1>5, <1>6, <1>7, <1>8 DEF Next

LEMMA FlagsStep == Inputs /\ Flags /\ [Next]_vars => Flags'
<1> SUFFICES ASSUME Inputs, Flags, [Next]_vars PROVE Flags'
  OBVIOUS
<1>0. artifacts \in BOOLEAN
  BY ScenesAssumption DEF Inputs, artifacts
<1> USE DEF Flags, Finished, Final, NoFault, Fault, store, cluster, heap, sched, watch, aborts, others, budget
<1>1. CASE Sched
  BY <1>0, <1>1 DEF Sched, SchedInsert, SchedCreate, SchedList, SchedReturn, SchedAssign, SchedWrite,
         ExecuteErr, SetCur, Notify
<1>2. CASE Watch
  BY <1>2 DEF Watch, WatchPoll, WatchGet, ScrapeStart, ScrapeList, ScrapeEnd, ScrapeLogs, WatchVerdict,
         WatchWrite, WatchEnd, WatchReport, Return, SetCur, Scraped, Phase, Notify, EndKind, PodExists, Lives
<1>3. CASE Informer
  BY <1>3 DEF Informer, InformerRead, InformerWrite
<1>4. CASE Recon
  BY <1>4 DEF Recon, ReconList, ReconPods, ReconWrite
<1>5. CASE Cluster
  BY <1>5 DEF Cluster, PodStart, PodRun, PodFinish, JobGo, PodGo, ScraperStep, Quiet
<1>6. CASE Crash
  BY <1>6 DEF Crash
<1>7. ASSUME NEW a \in Aborters, Abort(a) PROVE Flags'
  BY <1>7 DEF Abort, AbortKill, AbortRead, AbortWrite, AbortReport, At, Notify, EndKind
<1>8. CASE UNCHANGED vars
  BY <1>8 DEF vars
<1> QED
  BY <1>1, <1>2, <1>3, <1>4, <1>5, <1>6, <1>7, <1>8 DEF Next

(* Every variable keeps its type; the verdict of the logs is one that a     *)
(* result can have.                                                         *)
THEOREM TypeSafe == Spec => []TypeOK
<1>1. TypeOK /\ [Next]_vars => TypeOK'
  <2> SUFFICES ASSUME TypeOK, [Next]_vars PROVE TypeOK'
    OBVIOUS
  <2>1. Inputs /\ Stored /\ Places /\ Flags /\ Budgets
    BY TypeParts
  <2>2. Inputs' /\ Stored' /\ Places' /\ Flags' /\ Budgets'
    BY <2>1, InputsStep, StoredStep, PlacesStep, FlagsStep, BudgetsStep
  <2> QED
    BY <2>2 DEF TypeOK, Inputs, Stored, Places, Flags, Budgets
<1> QED
  BY <1>1, TypeInit, PTL DEF Spec

-----------------------------------------------------------------------------
Objects  == {"r0", "rp"}
Shape ==
    /\ faults \in Nat /\ sync \in BOOLEAN /\ artifacts \in BOOLEAN
    /\ objects = [o \in Objects |-> objects[o]] /\ cur \in Objects /\ sret \in Objects
    /\ apc \in [Aborters -> {"request", "read", "write", "report", "done"}]
    /\ ares \in [Aborters -> {"aborted", "failed"}]

(* The pod has ended: its logs are what they will be.                       *)
Settled == pod \in Finished \cup {"gone"}
Failing == faults > 0

Early    == {"off", "poll", "get", "scrape", "slist", "swait"}
Scraping == {"scrape", "slist", "swait", "slogs"}
Judging  == {"slogs", "verdict"}
Closing  == {"write", "end", "report"}

Passed == \E o \in Objects : objects[o] = "passed"

(* The order of the steps, and what each of them has found.                 *)
Order ==
    /\ spc \in {"insert", "create"} => pod = "none" /\ ~job
    /\ spc \in {"insert", "create", "list"} => wpc = "off"
    /\ sync /\ wpc \notin {"off", "done"} => spc = "watching"
    /\ wpc \in Early \cup Judging => cur = "r0" /\ sret = "r0"
    /\ wpc \in {"off", "poll", "get"} => phase = "none"
    /\ wpc \in Scraping => artifacts
Found ==
    /\ out # <<>> => Settled
    /\ sout # <<>> => artifacts
    /\ wpc \in (Early \ {"off", "poll"}) \cup Judging \cup Closing => Settled \/ Failing
    /\ wpc \in Scraping \cup {"verdict"} => phase \in Finished \/ Failing

(* Nothing is called passed before the scraper has ended; its success       *)
(* stands until the verdict.                                                *)
NotYet ==
    /\ wpc \in Early => ~Passed /\ cr # "passed" /\ rec # "passed" /\ scopy # "passed"
    /\ wpc = "slogs" => cr # "passed" /\ (sync => rec # "passed" /\ scopy # "passed")
    /\ wpc \in Judging => objects["rp"] # "passed" /\ (Passed => artifacts)

(* What calls an execution passed for good, or will, and what justifies it. *)
Calls ==
    \/ cr = "passed" \/ (sync /\ (rec = "passed" \/ scopy = "passed"))
    \/ Passed /\ (wpc \in Closing \/ (sync /\ spc \in {"watching", "assign"} /\ wpc = "done"))
Justified ==
    \/ phase = "succeeded" \/ ContainerVerdict(out \o sout) = "passed"
    \/ artifacts /\ (faults > 0 \/ saw = "lost")

CallsJustified == Calls => Justified /\ (Settled \/ Failing)

Steady == Shape /\ Order /\ Found /\ NotYet /\ CallsJustified

(* Every variable that matters keeps its type.                              *)
LEMMA SteadyInit == Init => Steady
BY ScenesAssumption
DEF Init, Steady, Shape, Objects, Order, Found, NotYet, CallsJustified, Calls, Passed, Early,
    Scraping, Judging, Closing, sync, artifacts

LEMMA ShapeStep == Shape /\ [Next]_vars => Shape'
<1> SUFFICES ASSUME Shape, [Next]_vars PROVE Shape'
  OBVIOUS
<1> USE DEF PodExists, Lives, sync, artifacts, Shape, Objects, store, cluster, heap, sched, watch, aborts, others, budget
<1>1. CASE SchedInsert
  BY <1>1 DEF SchedInsert, SetCur, Notify, NoFault, Fault
<1>2. CASE SchedCreate
  <2>1. UNCHANGED <<scene, cur, sret, aborts>> /\ (UNCHANGED objects \/ ExecuteErr)
    BY <1>2, Zenon DEF SchedCreate
  <2>2. NoFault \/ Fault
    BY <1>2, Zenon DEF SchedCreate
  <2>3. QED
    BY <2>1, <2>2 DEF ExecuteErr, NoFault, Fault
<1>3. CASE SchedList
  BY <1>3 DEF SchedList, ExecuteErr, NoFault, Fault
<1>4. CASE SchedReturn
  BY <1>4 DEF SchedReturn
<1>5. CASE SchedAssign
  BY <1>5 DEF SchedAssign
<1>6. CASE SchedWrite
  BY <1>6 DEF SchedWrite, SetCur, Notify, NoFault, Fault
<1>7. CASE WatchPoll
  BY <1>7 DEF WatchPoll, SetCur, NoFault, Fault
<1>8. CASE WatchGet
  BY <1>8 DEF WatchGet, Return, NoFault, Fault
<1>9. CASE ScrapeStart
  BY <1>9 DEF ScrapeStart, Return, NoFault, Fault
<1>10. CASE ScrapeList
  BY <1>10 DEF ScrapeList, Return, NoFault, Fault
<1>11. CASE ScrapeEnd
  BY <1>11 DEF ScrapeEnd, Return, Scraped, SetCur, NoFault, Fault
<1>11a. CASE ScrapeLogs
  BY <1>11a DEF ScrapeLogs, Return, NoFault, Fault
<1>12. CASE WatchVerdict
  BY <1>12 DEF WatchVerdict, SetCur, Phase, NoFault, Fault
<1>13. CASE WatchWrite
  BY <1>13 DEF WatchWrite, Return, NoFault, Fault
<1>14. CASE WatchEnd
  BY <1>14 DEF WatchEnd
<1>15. CASE WatchReport
  BY <1>15 DEF WatchReport, Notify, NoFault, Fault
<1>16. CASE InformerRead
  BY <1>16 DEF InformerRead
<1>17. CASE InformerWrite
  BY <1>17 DEF InformerWrite, NoFault, Fault
<1>18. CASE ReconList
  BY <1>18 DEF ReconList
<1>19. CASE ReconPods
  BY <1>19 DEF ReconPods, NoFault, Fault
<1>20. CASE ReconWrite
  BY <1>20 DEF ReconWrite, NoFault, Fault
<1>20a. CASE PodStart
  BY <1>20a DEF PodStart, Quiet, NoFault
<1>21. CASE PodRun
  BY <1>21 DEF PodRun, Quiet, NoFault, Fault
<1>22. CASE PodFinish
  BY <1>22 DEF PodFinish, Quiet, NoFault, Fault
<1>22a. CASE JobGo
  BY <1>22a DEF JobGo, Quiet, NoFault
<1>23. CASE PodGo
  BY <1>23 DEF PodGo, Quiet, NoFault, Fault
<1>24. CASE ScraperStep
  BY <1>24 DEF ScraperStep, Quiet, NoFault, Fault
<1>25. CASE Crash
  BY <1>25 DEF Crash
<1>26. ASSUME NEW a \in Aborters, AbortKill(a) PROVE Shape'
  BY <1>26 DEF AbortKill, NoFault, Fault, At
<1>27. ASSUME NEW a \in Aborters, AbortRead(a) PROVE Shape'
  BY <1>27 DEF AbortRead, NoFault, Fault, At
<1>28. ASSUME NEW a \in Aborters, AbortWrite(a) PROVE Shape'
  BY <1>28 DEF AbortWrite, NoFault, Fault, At
<1>29. ASSUME NEW a \in Aborters, AbortReport(a) PROVE Shape'
  BY <1>29 DEF AbortReport, NoFault, Fault, Notify, At
<1>30. CASE UNCHANGED vars
  BY <1>30 DEF vars
<1>31. QED
  BY <1>1, <1>2, <1>3, <1>4, <1>5, <1>6, <1>7, <1>8, <1>9, <1>10, <1>11, <1>11a, <1>12, <1>13, <1>14, <1>15, <1>16, <1>17, <1>18, <1>19, <1>20, <1>20a, <1>21, <1>22, <1>22a, <1>23, <1>24, <1>25, <1>26, <1>27, <1>28, <1>29, <1>30
  DEF Next, Sched, Watch, Abort, Informer, Recon, Cluster

(* The program counters follow each other.                                  *)
LEMMA OrderStep == Shape /\ Order /\ [Next]_vars => Order'
<1> SUFFICES ASSUME Shape, Order, [Next]_vars PROVE Order'
  OBVIOUS
<1> USE DEF sync, artifacts, Shape, Order, Early, Scraping, Judging, PodExists, Lives, Finished, store, cluster, heap, sched, watch, aborts, others, budget
<1>1. CASE SchedInsert
  BY <1>1 DEF SchedInsert, SetCur, Notify, NoFault, Fault
<1>2. CASE SchedCreate
  BY <1>2 DEF SchedCreate, ExecuteErr, NoFault, Fault
<1>3. CASE SchedList
  BY <1>3 DEF SchedList, ExecuteErr, NoFault, Fault
<1>4. CASE SchedReturn
  BY <1>4 DEF SchedReturn
<1>5. CASE SchedAssign
  BY <1>5 DEF SchedAssign
<1>6. CASE SchedWrite
  BY <1>6 DEF SchedWrite, SetCur, Notify, NoFault, Fault
<1>7. CASE WatchPoll
  BY <1>7 DEF WatchPoll, SetCur, NoFault, Fault
<1>8. CASE WatchGet
  BY <1>8 DEF WatchGet, Return, NoFault, Fault
<1>9. CASE ScrapeStart
  BY <1>9 DEF ScrapeStart, Return, NoFault, Fault
<1>10. CASE ScrapeList
  BY <1>10 DEF ScrapeList, Return, NoFault, Fault
<1>11. CASE ScrapeEnd
  BY <1>11 DEF ScrapeEnd, Return, Scraped, SetCur, NoFault, Fault
<1>11a. CASE ScrapeLogs
  BY <1>11a DEF ScrapeLogs, Return, NoFault, Fault
<1>12. CASE WatchVerdict
  BY <1>12 DEF WatchVerdict, SetCur, Phase, NoFault, Fault
<1>13. CASE WatchWrite
  BY <1>13 DEF WatchWrite, Return, NoFault, Fault
<1>14. CASE WatchEnd
  BY <1>14 DEF WatchEnd
<1>15. CASE WatchReport
  BY <1>15 DEF WatchReport, Notify, NoFault, Fault
<1>16. CASE InformerRead
  BY <1>16 DEF InformerRead
<1>17. CASE InformerWrite
  BY <1>17 DEF InformerWrite, NoFault, Fault
<1>18. CASE ReconList
  BY <1>18 DEF ReconList
<1>19. CASE ReconPods
  BY <1>19 DEF ReconPods, NoFault, Fault
<1>20. CASE ReconWrite
  BY <1>20 DEF ReconWrite, NoFault, Fault
<1>20a. CASE PodStart
  BY <1>20a DEF PodStart, Quiet, NoFault
<1>21. CASE PodRun
  BY <1>21 DEF PodRun, Quiet, NoFault, Fault
<1>22. CASE PodFinish
  BY <1>22 DEF PodFinish, Quiet, NoFault, Fault
<1>22a. CASE JobGo
  BY <1>22a DEF JobGo, Quiet, NoFault
<1>23. CASE PodGo
  BY <1>23 DEF PodGo, Quiet, NoFault, Fault
<1>24. CASE ScraperStep
  BY <1>24 DEF ScraperStep, Quiet, NoFault, Fault
<1>25. CASE Crash
  BY <1>25 DEF Crash
<1>26. ASSUME NEW a \in Aborters, AbortKill(a) PROVE Order'
  BY <1>26 DEF AbortKill, NoFault, Fault
<1>27. ASSUME NEW a \in Aborters, AbortRead(a) PROVE Order'
  BY <1>27 DEF AbortRead, NoFault, Fault
<1>28. ASSUME NEW a \in Aborters, AbortWrite(a) PROVE Order'
  BY <1>28 DEF AbortWrite, NoFault, Fault
<1>29. ASSUME NEW a \in Aborters, AbortReport(a) PROVE Order'
  BY <1>29 DEF AbortReport, NoFault, Fault, Notify
<1>30. CASE UNCHANGED vars
  BY <1>30 DEF vars
<1>31. QED
  BY <1>1, <1>2, <1>3, <1>4, <1>5, <1>6, <1>7, <1>8, <1>9, <1>10, <1>11, <1>11a, <1>12, <1>13, <1>14, <1>15, <1>16, <1>17, <1>18, <1>19, <1>20, <1>20a, <1>21, <1>22, <1>22a, <1>23, <1>24, <1>25, <1>26, <1>27, <1>28, <1>29, <1>30
  DEF Next, Sched, Watch, Abort, Informer, Recon, Cluster

(* What a step has found remains.                                           *)
LEMMA FoundStep == Shape /\ Order /\ Found /\ [Next]_vars => Found'
<1> SUFFICES ASSUME Shape, Order, Found, [Next]_vars PROVE Found'
  OBVIOUS
<1> USE DEF sync, artifacts, Shape, Order, Found, Early, Scraping, Judging, Closing, Settled, Failing, PodExists, Lives, Finished, store, cluster, heap, sched, watch, aborts, others, budget
<1>1. CASE SchedInsert
  BY <1>1 DEF SchedInsert, SetCur, Notify, NoFault, Fault
<1>2. CASE SchedCreate
  BY <1>2 DEF SchedCreate, ExecuteErr, NoFault, Fault
<1>3. CASE SchedList
  BY <1>3 DEF SchedList, ExecuteErr, NoFault, Fault
<1>4. CASE SchedReturn
  BY <1>4 DEF SchedReturn
<1>5. CASE SchedAssign
  BY <1>5 DEF SchedAssign
<1>6. CASE SchedWrite
  BY <1>6 DEF SchedWrite, SetCur, Notify, NoFault, Fault
<1>7. CASE WatchPoll
  BY <1>7 DEF WatchPoll, SetCur, NoFault, Fault
<1>8. CASE WatchGet
  BY <1>8 DEF WatchGet, Return, NoFault, Fault
<1>9. CASE ScrapeStart
  BY <1>9 DEF ScrapeStart, Return, NoFault, Fault
<1>10. CASE ScrapeList
  BY <1>10 DEF ScrapeList, Return, NoFault, Fault
<1>11. CASE ScrapeEnd
  BY <1>11 DEF ScrapeEnd, Return, Scraped, SetCur, NoFault, Fault
<1>11a. CASE ScrapeLogs
  BY <1>11a DEF ScrapeLogs, Return, NoFault, Fault
<1>12. CASE WatchVerdict
  BY <1>12 DEF WatchVerdict, SetCur, Phase, NoFault, Fault
<1>13. CASE WatchWrite
  BY <1>13 DEF WatchWrite, Return, NoFault, Fault
<1>14. CASE WatchEnd
  BY <1>14 DEF WatchEnd
<1>15. CASE WatchReport
  BY <1>15 DEF WatchReport, Notify, NoFault, Fault
<1>16. CASE InformerRead
  BY <1>16 DEF InformerRead
<1>17. CASE InformerWrite
  BY <1>17 DEF InformerWrite, NoFault, Fault
<1>18. CASE ReconList
  BY <1>18 DEF ReconList
<1>19. CASE ReconPods
  BY <1>19 DEF ReconPods, NoFault, Fault
<1>20. CASE ReconWrite
  BY <1>20 DEF ReconWrite, NoFault, Fault
<1>20a. CASE PodStart
  BY <1>20a DEF PodStart, Quiet, NoFault
<1>21. CASE PodRun
  BY <1>21 DEF PodRun, Quiet, NoFault, Fault
<1>22. CASE PodFinish
  BY <1>22 DEF PodFinish, Quiet, NoFault, Fault
<1>22a. CASE JobGo
  BY <1>22a DEF JobGo, Quiet, NoFault
<1>23. CASE PodGo
  BY <1>23 DEF PodGo, Quiet, NoFault, Fault
<1>24. CASE ScraperStep
  BY <1>24 DEF ScraperStep, Quiet, NoFault, Fault
<1>25. CASE Crash
  BY <1>25 DEF Crash
<1>26. ASSUME NEW a \in Aborters, AbortKill(a) PROVE Found'
  BY <1>26 DEF AbortKill, NoFault, Fault
<1>27. ASSUME NEW a \in Aborters, AbortRead(a) PROVE Found'
  BY <1>27 DEF AbortRead, NoFault, Fault
<1>28. ASSUME NEW a \in Aborters, AbortWrite(a) PROVE Found'
  BY <1>28 DEF AbortWrite, NoFault, Fault
<1>29. ASSUME NEW a \in Aborters, AbortReport(a) PROVE Found'
  BY <1>29 DEF AbortReport, NoFault, Fault, Notify
<1>30. CASE UNCHANGED vars
  BY <1>30 DEF vars
<1>31. QED
  BY <1>1, <1>2, <1>3, <1>4, <1>5, <1>6, <1>7, <1>8, <1>9, <1>10, <1>11, <1>11a, <1>12, <1>13, <1>14, <1>15, <1>16, <1>17, <1>18, <1>19, <1>20, <1>20a, <1>21, <1>22, <1>22a, <1>23, <1>24, <1>25, <1>26, <1>27, <1>28, <1>29, <1>30
  DEF Next, Sched, Watch, Abort, Informer, Recon, Cluster

(* Only the scraper's success comes before the verdict.                     *)
LEMMA NotYetStep == Shape /\ Order /\ NotYet /\ [Next]_vars => NotYet'
<1> SUFFICES ASSUME Shape, Order, NotYet, [Next]_vars PROVE NotYet'
  OBVIOUS
<1> USE DEF PodExists, Lives, sync, artifacts, Shape, Objects, Order, NotYet, Passed, Early, Scraping, Judging, store, cluster, heap, sched, watch, aborts, others, budget
<1>1. CASE SchedInsert
  BY <1>1 DEF SchedInsert, SetCur, Notify, NoFault, Fault
<1>2. CASE SchedCreate
  BY <1>2 DEF SchedCreate, ExecuteErr, NoFault, Fault
<1>3. CASE SchedList
  BY <1>3 DEF SchedList, ExecuteErr, NoFault, Fault
<1>4. CASE SchedReturn
  BY <1>4 DEF SchedReturn
<1>5. CASE SchedAssign
  BY <1>5 DEF SchedAssign
<1>6. CASE SchedWrite
  BY <1>6 DEF SchedWrite, SetCur, Notify, NoFault, Fault
<1>7. CASE WatchPoll
  BY <1>7 DEF WatchPoll, SetCur, NoFault, Fault
<1>8. CASE WatchGet
  BY <1>8 DEF WatchGet, Return, NoFault, Fault
<1>9. CASE ScrapeStart
  BY <1>9 DEF ScrapeStart, Return, NoFault, Fault
<1>10. CASE ScrapeList
  BY <1>10 DEF ScrapeList, Return, NoFault, Fault
<1>11. CASE ScrapeEnd
  BY <1>11 DEF ScrapeEnd, Return, Scraped, SetCur, NoFault, Fault
<1>11a. CASE ScrapeLogs
  BY <1>11a DEF ScrapeLogs, Return, NoFault, Fault
<1>12. CASE WatchVerdict
  BY <1>12 DEF WatchVerdict, SetCur, Phase, NoFault, Fault
<1>13. CASE WatchWrite
  BY <1>13 DEF WatchWrite, Return, NoFault, Fault
<1>14. CASE WatchEnd
  BY <1>14 DEF WatchEnd
<1>15. CASE WatchReport
  BY <1>15 DEF WatchReport, Notify, NoFault, Fault
<1>16. CASE InformerRead
  BY <1>16 DEF InformerRead
<1>17. CASE InformerWrite
  BY <1>17 DEF InformerWrite, NoFault, Fault
<1>18. CASE ReconList
  BY <1>18 DEF ReconList
<1>19. CASE ReconPods
  BY <1>19 DEF ReconPods, NoFault, Fault
<1>20. CASE ReconWrite
  BY <1>20 DEF ReconWrite, NoFault, Fault
<1>20a. CASE PodStart
  BY <1>20a DEF PodStart, Quiet, NoFault
<1>21. CASE PodRun
  BY <1>21 DEF PodRun, Quiet, NoFault, Fault
<1>22. CASE PodFinish
  BY <1>22 DEF PodFinish, Quiet, NoFault, Fault
<1>22a. CASE JobGo
  BY <1>22a DEF JobGo, Quiet, NoFault
<1>23. CASE PodGo
  BY <1>23 DEF PodGo, Quiet, NoFault, Fault
<1>24. CASE ScraperStep
  BY <1>24 DEF ScraperStep, Quiet, NoFault, Fault
<1>25. CASE Crash
  BY <1>25 DEF Crash
<1>26. ASSUME NEW a \in Aborters, AbortKill(a) PROVE NotYet'
  BY <1>26 DEF AbortKill, NoFault, Fault
<1>27. ASSUME NEW a \in Aborters, AbortRead(a) PROVE NotYet'
  BY <1>27 DEF AbortRead, NoFault, Fault
<1>28. ASSUME NEW a \in Aborters, AbortWrite(a) PROVE NotYet'
  BY <1>28 DEF AbortWrite, NoFault, Fault
<1>29. ASSUME NEW a \in Aborters, AbortReport(a) PROVE NotYet'
  BY <1>29 DEF AbortReport, NoFault, Fault, Notify
<1>30. CASE UNCHANGED vars
  BY <1>30 DEF vars
<1>31. QED
  BY <1>1, <1>2, <1>3, <1>4, <1>5, <1>6, <1>7, <1>8, <1>9, <1>10, <1>11, <1>11a, <1>12, <1>13, <1>14, <1>15, <1>16, <1>17, <1>18, <1>19, <1>20, <1>20a, <1>21, <1>22, <1>22a, <1>23, <1>24, <1>25, <1>26, <1>27, <1>28, <1>29, <1>30
  DEF Next, Sched, Watch, Abort, Informer, Recon, Cluster

(* Nothing else is called passed without a reason.                          *)
LEMMA CallsStep == Steady /\ [Next]_vars => CallsJustified'
<1> SUFFICES ASSUME Steady, [Next]_vars PROVE CallsJustified'
  OBVIOUS
<1> USE DEF sync, artifacts, Steady, Shape, Objects, Order, Found, NotYet, CallsJustified, Calls, Justified, Passed, Settled,
       Failing, Early, Scraping, Judging, Closing, PodExists, Lives, Finished, store, cluster, heap, sched, watch, aborts, others, budget
<1>1. CASE SchedInsert
  BY <1>1 DEF SchedInsert, SetCur, Notify, NoFault, Fault
<1>2. CASE SchedCreate
  BY <1>2 DEF SchedCreate, ExecuteErr, NoFault, Fault
<1>3. CASE SchedList
  BY <1>3 DEF SchedList, ExecuteErr, NoFault, Fault
<1>4. CASE SchedReturn
  BY <1>4 DEF SchedReturn
<1>5. CASE SchedAssign
  BY <1>5 DEF SchedAssign
<1>6. CASE SchedWrite
  BY <1>6 DEF SchedWrite, SetCur, Notify, NoFault, Fault
<1>7. CASE WatchPoll
  BY <1>7 DEF WatchPoll, SetCur, NoFault, Fault
<1>8. CASE WatchGet
  BY <1>8 DEF WatchGet, Return, NoFault, Fault
<1>9. CASE ScrapeStart
  BY <1>9 DEF ScrapeStart, Return, NoFault, Fault
<1>10. CASE ScrapeList
  BY <1>10 DEF ScrapeList, Return, NoFault, Fault
<1>11. CASE ScrapeEnd
  BY <1>11 DEF ScrapeEnd, Return, Scraped, SetCur, NoFault, Fault
<1>11a. CASE ScrapeLogs
  BY <1>11a DEF ScrapeLogs, Return, NoFault, Fault
<1>12. CASE WatchVerdict
  BY <1>12 DEF WatchVerdict, SetCur, Phase, NoFault, Fault
<1>13. CASE WatchWrite
  BY <1>13 DEF WatchWrite, Return, NoFault, Fault
<1>14. CASE WatchEnd
  BY <1>14 DEF WatchEnd
<1>15. CASE WatchReport
  BY <1>15 DEF WatchReport, Notify, NoFault, Fault
<1>16. CASE InformerRead
  BY <1>16 DEF InformerRead
<1>17. CASE InformerWrite
  BY <1>17 DEF InformerWrite, NoFault, Fault
<1>18. CASE ReconList
  BY <1>18 DEF ReconList
<1>19. CASE ReconPods
  BY <1>19 DEF ReconPods, NoFault, Fault
<1>20. CASE ReconWrite
  BY <1>20 DEF ReconWrite, NoFault, Fault
<1>20a. CASE PodStart
  BY <1>20a DEF PodStart, Quiet, NoFault
<1>21. CASE PodRun
  BY <1>21 DEF PodRun, Quiet, NoFault, Fault
<1>22. CASE PodFinish
  <2> SUFFICES ASSUME Calls' PROVE Justified' /\ (Settled' \/ Failing')
    BY DEF CallsJustified
  <2>1. Calls /\ phase' = phase /\ artifacts' = artifacts /\ faults' = faults /\ sout' = sout
    BY <1>22 DEF PodFinish, NoFault, Quiet
  <2>2. out = <<>> /\ Settled'
    BY <1>22 DEF PodFinish
  <2>3. CASE artifacts
    BY <2>1, <2>2, <2>3, <1>22 DEF PodFinish
  <2>4. CASE ~artifacts
    <3>1. sout = <<>> /\ ContainerVerdict(out \o sout) = "none"
      BY <2>2, <2>4, Silence
    <3>2. phase = "succeeded"
      BY <2>1, <2>4, <3>1
    <3>3. QED
      BY <2>1, <2>2, <3>2
  <2>5. QED
    BY <2>3, <2>4
<1>22a. CASE JobGo
  BY <1>22a DEF JobGo, Quiet, NoFault
<1>23. CASE PodGo
  BY <1>23 DEF PodGo, Quiet, NoFault, Fault
<1>24. CASE ScraperStep
  BY <1>24 DEF ScraperStep, Quiet, NoFault, Fault
<1>25. CASE Crash
  BY <1>25 DEF Crash
<1>26. ASSUME NEW a \in Aborters, AbortKill(a) PROVE CallsJustified'
  BY <1>26 DEF AbortKill, NoFault, Fault
<1>27. ASSUME NEW a \in Aborters, AbortRead(a) PROVE CallsJustified'
  BY <1>27 DEF AbortRead, NoFault, Fault
<1>28. ASSUME NEW a \in Aborters, AbortWrite(a) PROVE CallsJustified'
  BY <1>28 DEF AbortWrite, NoFault, Fault
<1>29. ASSUME NEW a \in Aborters, AbortReport(a) PROVE CallsJustified'
  BY <1>29 DEF AbortReport, NoFault, Fault, Notify
<1>30. CASE UNCHANGED vars
  BY <1>30 DEF vars
<1>31. QED
  BY <1>1, <1>2, <1>3, <1>4, <1>5, <1>6, <1>7, <1>8, <1>9, <1>10, <1>11, <1>11a, <1>12, <1>13, <1>14, <1>15, <1>16, <1>17, <1>18, <1>19, <1>20, <1>20a, <1>21, <1>22, <1>22a, <1>23, <1>24, <1>25, <1>26, <1>27, <1>28, <1>29, <1>30
  DEF Next, Sched, Watch, Abort, Informer, Recon, Cluster
(* An execution is called passed only with a reason, as Honest says it.     *)
THEOREM PassesHonest == Spec => []Honest
<1>1. Steady /\ [Next]_vars => Steady'
  BY ShapeStep, OrderStep, FoundStep, NotYetStep, CallsStep DEF Steady
<1>2. Steady => Honest
  BY DEF Steady, CallsJustified, Calls, Justified, Honest
<1>3. QED
  BY <1>1, <1>2, SteadyInit, PTL DEF Spec

-----------------------------------------------------------------------------
(* While nothing fails: the claim is there for artifacts until the scraper's *)
(* end is seen, and then only where the watcher did not get that far.       *)
Claims ==
    /\ faults \in Nat /\ crashes \in Nat
    /\ pvc => artifacts
    /\ faults = 0 /\ crashes = 0 =>
          /\ wpc \in Early => saw = "nothing"
          /\ wpc \in Early /\ spc \notin {"insert", "create"} => (artifacts => pvc)
          /\ wpc = "slogs" => ~pvc /\ saw = "ended"
          /\ wpc \in {"verdict", "done"} \cup Closing /\ phase # "none"
                => (pvc <=> saw \in {"running", "gone"})

LEMMA ClaimsInit == Init => Claims
BY ScenesAssumption DEF Init, Claims, Closing, Early

LEMMA ClaimsStep == Order /\ Claims /\ [Next]_vars => Claims'
<1> SUFFICES ASSUME Order, Claims, [Next]_vars PROVE Claims'
  OBVIOUS
<1> USE DEF sync, artifacts, Order, Claims, Closing, Early, Scraping, Judging, PodExists, Lives, Finished, store, cluster, heap, sched, watch, aborts, others, budget
<1>1. CASE SchedInsert
  BY <1>1 DEF SchedInsert, SetCur, Notify, NoFault, Fault
<1>2. CASE SchedCreate
  <2>1. wpc = "off" /\ UNCHANGED <<scene, watch, crashes>>
    BY <1>2, Zenon DEF SchedCreate, Order
  <2>2. NoFault \/ Fault
    BY <1>2, Zenon DEF SchedCreate
  <2>3. faults' \in Nat
    BY <2>2 DEF NoFault, Fault
  <2>4. pvc' => artifacts
    BY <1>2, Zenon DEF SchedCreate
  <2>5. faults' = 0 => (artifacts => pvc')
    <3>1. Fault => faults' # 0
      BY DEF Fault
    <3>2. Fault \/ pvc' = artifacts
      BY <1>2, Zenon DEF SchedCreate
    <3> QED
      BY <3>1, <3>2, Zenon
  <2>6. spc = "create" /\ UNCHANGED artifacts /\ (faults' = 0 => faults = 0)
    BY <1>2, <2>1, <2>2 DEF SchedCreate, NoFault, Fault
  <2>7. QED
    BY <2>1, <2>3, <2>4, <2>5, <2>6 DEF Claims, Closing
<1>3. CASE SchedList
  BY <1>3 DEF SchedList, ExecuteErr, NoFault, Fault
<1>4. CASE SchedReturn
  BY <1>4 DEF SchedReturn
<1>5. CASE SchedAssign
  BY <1>5 DEF SchedAssign
<1>6. CASE SchedWrite
  BY <1>6 DEF SchedWrite, SetCur, Notify, NoFault, Fault
<1>7. CASE WatchPoll
  BY <1>7 DEF WatchPoll, SetCur, NoFault, Fault
<1>8. CASE WatchGet
  BY <1>8 DEF WatchGet, Return, NoFault, Fault
<1>9. CASE ScrapeStart
  BY <1>9 DEF ScrapeStart, Return, NoFault, Fault
<1>10. CASE ScrapeList
  BY <1>10 DEF ScrapeList, Return, NoFault, Fault
<1>11. CASE ScrapeEnd
  BY <1>11 DEF ScrapeEnd, Return, Scraped, SetCur, NoFault, Fault
<1>11a. CASE ScrapeLogs
  BY <1>11a DEF ScrapeLogs, Return, NoFault, Fault
<1>12. CASE WatchVerdict
  BY <1>12 DEF WatchVerdict, SetCur, Phase, NoFault, Fault
<1>13. CASE WatchWrite
  BY <1>13 DEF WatchWrite, Return, NoFault, Fault
<1>14. CASE WatchEnd
  BY <1>14 DEF WatchEnd
<1>15. CASE WatchReport
  BY <1>15 DEF WatchReport, Notify, NoFault, Fault
<1>16. CASE InformerRead
  BY <1>16 DEF InformerRead
<1>17. CASE InformerWrite
  BY <1>17 DEF InformerWrite, NoFault, Fault
<1>18. CASE ReconList
  BY <1>18 DEF ReconList
<1>19. CASE ReconPods
  BY <1>19 DEF ReconPods, NoFault, Fault
<1>20. CASE ReconWrite
  BY <1>20 DEF ReconWrite, NoFault, Fault
<1>20a. CASE PodStart
  BY <1>20a DEF PodStart, Quiet, NoFault
<1>21. CASE PodRun
  BY <1>21 DEF PodRun, Quiet, NoFault, Fault
<1>22. CASE PodFinish
  BY <1>22 DEF PodFinish, Quiet, NoFault, Fault
<1>22a. CASE JobGo
  BY <1>22a DEF JobGo, Quiet, NoFault
<1>23. CASE PodGo
  BY <1>23 DEF PodGo, Quiet, NoFault, Fault
<1>24. CASE ScraperStep
  BY <1>24 DEF ScraperStep, Quiet, NoFault, Fault
<1>25. CASE Crash
  BY <1>25 DEF Crash
<1>26. ASSUME NEW a \in Aborters, AbortKill(a) PROVE Claims'
  BY <1>26 DEF AbortKill, NoFault, Fault
<1>27. ASSUME NEW a \in Aborters, AbortRead(a) PROVE Claims'
  BY <1>27 DEF AbortRead, NoFault, Fault
<1>28. ASSUME NEW a \in Aborters, AbortWrite(a) PROVE Claims'
  BY <1>28 DEF AbortWrite, NoFault, Fault
<1>29. ASSUME NEW a \in Aborters, AbortReport(a) PROVE Claims'
  BY <1>29 DEF AbortReport, NoFault, Fault, Notify
<1>30. CASE UNCHANGED vars
  BY <1>30 DEF vars
<1>31. QED
  BY <1>1, <1>2, <1>3, <1>4, <1>5, <1>6, <1>7, <1>8, <1>9, <1>10, <1>11, <1>11a, <1>12, <1>13, <1>14, <1>15, <1>16, <1>17, <1>18, <1>19, <1>20, <1>20a, <1>21, <1>22, <1>22a, <1>23, <1>24, <1>25, <1>26, <1>27, <1>28, <1>29, <1>30
  DEF Next, Sched, Watch, Abort, Informer, Recon, Cluster

(* What the execution claimed is released.                                  *)
THEOREM ClaimsReleased == Spec => []ClaimReleased
<1>1. Claims => ClaimReleased
  BY DEF Claims, ClaimReleased
<1>2. Steady /\ [Next]_vars => Steady'
  BY ShapeStep, OrderStep, FoundStep, NotYetStep, CallsStep DEF Steady
<1>3. Steady => Order
  BY DEF Steady
<1>4. QED
  BY <1>1, <1>2, <1>3, SteadyInit, ClaimsInit, ClaimsStep, PTL DEF Spec

-----------------------------------------------------------------------------
LEMMA CancelStep == Shape /\ Aborted /\ [Next]_vars => Aborted'
<1> SUFFICES ASSUME Shape, Aborted, [Next]_vars PROVE Aborted'
  OBVIOUS
<1> USE DEF sync, artifacts, Shape, Aborted, PodExists, Lives, Finished, store, cluster, heap, sched, watch, aborts, others, budget
<1>1. CASE SchedInsert
  BY <1>1 DEF SchedInsert, SetCur, Notify, NoFault, Fault
<1>2. CASE SchedCreate
  BY <1>2 DEF SchedCreate, ExecuteErr, NoFault, Fault
<1>3. CASE SchedList
  BY <1>3 DEF SchedList, ExecuteErr, NoFault, Fault
<1>4. CASE SchedReturn
  BY <1>4 DEF SchedReturn
<1>5. CASE SchedAssign
  BY <1>5 DEF SchedAssign
<1>6. CASE SchedWrite
  BY <1>6 DEF SchedWrite, SetCur, Notify, NoFault, Fault
<1>7. CASE WatchPoll
  BY <1>7 DEF WatchPoll, SetCur, NoFault, Fault
<1>8. CASE WatchGet
  BY <1>8 DEF WatchGet, Return, NoFault, Fault
<1>9. CASE ScrapeStart
  BY <1>9 DEF ScrapeStart, Return, NoFault, Fault
<1>10. CASE ScrapeList
  BY <1>10 DEF ScrapeList, Return, NoFault, Fault
<1>11. CASE ScrapeEnd
  BY <1>11 DEF ScrapeEnd, Return, Scraped, SetCur, NoFault, Fault
<1>11a. CASE ScrapeLogs
  BY <1>11a DEF ScrapeLogs, Return, NoFault, Fault
<1>12. CASE WatchVerdict
  BY <1>12 DEF WatchVerdict, SetCur, Phase, NoFault, Fault
<1>13. CASE WatchWrite
  BY <1>13 DEF WatchWrite, Return, NoFault, Fault
<1>14. CASE WatchEnd
  BY <1>14 DEF WatchEnd
<1>15. CASE WatchReport
  BY <1>15 DEF WatchReport, Notify, NoFault, Fault
<1>16. CASE InformerRead
  BY <1>16 DEF InformerRead
<1>17. CASE InformerWrite
  BY <1>17 DEF InformerWrite, NoFault, Fault
<1>18. CASE ReconList
  BY <1>18 DEF ReconList
<1>19. CASE ReconPods
  BY <1>19 DEF ReconPods, NoFault, Fault
<1>20. CASE ReconWrite
  BY <1>20 DEF ReconWrite, NoFault, Fault
<1>20a. CASE PodStart
  BY <1>20a DEF PodStart, Quiet, NoFault
<1>21. CASE PodRun
  BY <1>21 DEF PodRun, Quiet, NoFault, Fault
<1>22. CASE PodFinish
  BY <1>22 DEF PodFinish, Quiet, NoFault, Fault
<1>22a. CASE JobGo
  BY <1>22a DEF JobGo, Quiet, NoFault
<1>23. CASE PodGo
  BY <1>23 DEF PodGo, Quiet, NoFault, Fault
<1>24. CASE ScraperStep
  BY <1>24 DEF ScraperStep, Quiet, NoFault, Fault
<1>25. CASE Crash
  BY <1>25 DEF Crash
<1>26. ASSUME NEW a \in Aborters, AbortKill(a) PROVE Aborted'
  BY <1>26 DEF AbortKill, NoFault, Fault, At
<1>27. ASSUME NEW a \in Aborters, AbortRead(a) PROVE Aborted'
  BY <1>27 DEF AbortRead, NoFault, Fault, At
<1>28. ASSUME NEW a \in Aborters, AbortWrite(a) PROVE Aborted'
  BY <1>28 DEF AbortWrite, NoFault, Fault, At
<1>29. ASSUME NEW a \in Aborters, AbortReport(a) PROVE Aborted'
  BY <1>29 DEF AbortReport, NoFault, Fault, Notify, At
<1>30. CASE UNCHANGED vars
  BY <1>30 DEF vars
<1>31. QED
  BY <1>1, <1>2, <1>3, <1>4, <1>5, <1>6, <1>7, <1>8, <1>9, <1>10, <1>11, <1>11a, <1>12, <1>13, <1>14, <1>15, <1>16, <1>17, <1>18, <1>19, <1>20, <1>20a, <1>21, <1>22, <1>22a, <1>23, <1>24, <1>25, <1>26, <1>27, <1>28, <1>29, <1>30
  DEF Next, Sched, Watch, Abort, Informer, Recon, Cluster

(* A stored abort that nobody was about to overwrite is not undone.         *)
THEOREM CancelsKept == Spec => CancelKept
<1>1. Shape /\ [Next]_vars => Shape'
  BY ShapeStep
<1>2. Shape /\ [Next]_vars => [Aborted => Aborted']_vars
  BY CancelStep
<1>3. Init => Shape
  BY SteadyInit DEF Steady
<1>4. QED
  BY <1>1, <1>2, <1>3, PTL DEF Spec, CancelKept
-----------------------------------------------------------------------------
(* A caller that waits, no failed call, no abort, no reconciler: the object *)
(* of the start settles the record, the Test and the event, unless the logs *)
(* say other than the pod.  The informer, too, only fails what has failed.  *)
Logged  == ContainerVerdict(out \o sout)
Agreed  == Logged \in {"none", objects["r0"]}
Looked  == phase # "none"
Reached == {"end", "report", "done"}
Cut     == saw \in {"gone", "lost"}

Counts == faults \in Nat /\ crashes \in Nat
Alone  == rpc = "idle" /\ \A a \in Aborters : apc[a] = "request"
Turns  == /\ wpc \notin {"off", "done"} => spc = "watching"
          /\ spc \notin {"done", "assign", "write"} /\ wpc # "done" => events = {}
Pods   == /\ phase \in {"none"} \cup Finished
          /\ wpc \in {"off", "poll", "get"} => ~Looked
          /\ wpc \in Scraping \cup {"verdict", "write"} => Looked
          /\ wpc = "get" \/ Looked => Settled
          /\ wpc = "get" /\ pod = "failed" => objects["r0"] = "failed"
          /\ wpc \in Scraping \ {"slogs"} /\ phase = "failed" => objects["r0"] = "failed"
Informed ==
    /\ pod \in {"pending", "running"} => job
    /\ pod \in {"none", "pending", "running", "succeeded"} => ~due /\ ipc = "idle"
    /\ phase = "succeeded" => pod \in {"succeeded", "gone"} /\ ~due /\ ipc = "idle"
Outcome ==
    Looked /\ ~Cut /\ wpc \in {"write"} \cup Reached =>
        /\ objects["r0"] \in {"passed", "failed"}
        /\ phase = "failed" => objects["r0"] = "failed"
        /\ wpc = "write" => cur = "r0" \/ (Logged # "none" /\ objects["rp"] = Logged)
        /\ wpc \in Reached => /\ ~werr /\ (Agreed => rec = objects["r0"])
                              /\ sret = "r0" \/ (Logged # "none" /\ objects["rp"] = Logged)
        /\ wpc = "done" => cr = objects["r0"] /\ events = {EndKind(objects["r0"])}
        /\ spc \in {"assign", "write"} => ~serr
        /\ spc = "write" /\ Agreed => scopy = objects["r0"]

(* A watch cut short by the scraper's pod ends with an error; the scheduler *)
(* announces it and stores the object of the start as it is.                *)
Broken ==
    Cut => /\ wpc \in Reached /\ werr
           /\ spc \in {"assign", "write"} => serr
           /\ spc = "done" => "failed" \in events
Undecided ==
    Looked /\ saw = "gone" =>
        /\ sret = "r0" /\ cur = "r0"
        /\ spc # "done" /\ phase = "failed" => objects["r0"] = "failed"
        /\ spc # "done" /\ wpc = "done" => cr = objects["r0"]
        /\ spc = "write" => scopy = objects["r0"]
        /\ spc = "done" => cr = rec /\ (phase = "failed" => rec = "failed")

Reports ==
    Counts /\ (Undisturbed => Alone /\ Turns /\ Pods /\ Informed /\ Outcome /\ Broken /\ Undecided)

LEMMA ReportsInit == Init => Reports
BY DEF Init, Reports, Counts, Alone, Turns, Pods, Informed, Outcome, Broken, Undecided, Cut, Looked, Reached, Finished, Scraping

LEMMA ReportsStep == Shape /\ Order /\ Reports /\ [Next]_vars => Reports'
<1> SUFFICES ASSUME Shape, Order, Reports, [Next]_vars PROVE Reports'
  OBVIOUS
<1> USE DEF sync, artifacts, Shape, Order, Early, Scraping, Judging, Settled, Reports, Undisturbed, Counts, Alone, Turns, Pods, Informed,
            Outcome, Broken, Undecided, Cut, Logged, Agreed, Looked, Reached, Objects, PodExists, Lives, Finished, EndKind,
            store, cluster, heap, sched, watch, aborts, others, budget
<1>1. CASE SchedInsert
  BY <1>1 DEF SchedInsert, SetCur, Notify, NoFault, Fault
<1>2. CASE SchedCreate
  <2>1. /\ spc = "create" /\ wpc = "off" /\ pod = "none" /\ spc' \in {"list", "assign"}
        /\ UNCHANGED <<scene, store, pod, out, cur, sret, scopy, watch, aborts, others, events, crashes>>
    BY <1>2, Zenon DEF SchedCreate, ExecuteErr, Order
  <2>2. (NoFault /\ job' = TRUE) \/ (Fault /\ UNCHANGED job)
    BY <1>2, Zenon DEF SchedCreate
  <2> QED
    BY <2>1, <2>2 DEF NoFault, Fault
<1>3. CASE SchedList
  BY <1>3 DEF SchedList, ExecuteErr, NoFault, Fault
<1>4. CASE SchedReturn
  BY <1>4 DEF SchedReturn
<1>5. CASE SchedAssign
  BY <1>5 DEF SchedAssign
<1>6. CASE SchedWrite
  BY <1>6 DEF SchedWrite, SetCur, Notify, NoFault, Fault
<1>7. CASE WatchPoll
  BY <1>7 DEF WatchPoll, SetCur, NoFault, Fault
<1>8. CASE WatchGet
  BY <1>8 DEF WatchGet, Return, NoFault, Fault
<1>9. CASE ScrapeStart
  BY <1>9 DEF ScrapeStart, Return, NoFault, Fault
<1>10. CASE ScrapeList
  BY <1>10 DEF ScrapeList, Return, NoFault, Fault
<1>11. CASE ScrapeEnd
  BY <1>11 DEF ScrapeEnd, Return, Scraped, SetCur, NoFault, Fault
<1>11a. CASE ScrapeLogs
  BY <1>11a DEF ScrapeLogs, Return, NoFault, Fault
<1>12. CASE WatchVerdict
  BY <1>12 DEF WatchVerdict, SetCur, Phase, NoFault, Fault
<1>13. CASE WatchWrite
  BY <1>13 DEF WatchWrite, Return, NoFault, Fault
<1>14. CASE WatchEnd
  BY <1>14 DEF WatchEnd
<1>15. CASE WatchReport
  BY <1>15 DEF WatchReport, Notify, NoFault, Fault
<1>16. CASE InformerRead
  BY <1>16 DEF InformerRead
<1>17. CASE InformerWrite
  BY <1>17 DEF InformerWrite, NoFault, Fault
<1>18. CASE ReconList
  BY <1>18 DEF ReconList
<1>19. CASE ReconPods
  BY <1>19 DEF ReconPods, NoFault, Fault
<1>20. CASE ReconWrite
  BY <1>20 DEF ReconWrite, NoFault, Fault
<1>20a. CASE PodStart
  BY <1>20a DEF PodStart, Quiet, NoFault
<1>21. CASE PodRun
  BY <1>21 DEF PodRun, Quiet, NoFault, Fault
<1>22. CASE PodFinish
  BY <1>22 DEF PodFinish, Quiet, NoFault, Fault
<1>22a. CASE JobGo
  BY <1>22a DEF JobGo, Quiet, NoFault
<1>23. CASE PodGo
  <2>1. pod' = "gone" /\ UNCHANGED <<job, out, spod>> /\ Quiet
    BY <1>23, Zenon DEF PodGo
  <2>2. (PodExists /\ ~job /\ NoFault) \/ Fault
    BY <1>23, Zenon DEF PodGo
  <2>3. pod # "failed" /\ ~due => ~due'
    BY <1>23, Zenon DEF PodGo
  <2> QED
    BY <2>1, <2>2, <2>3 DEF Quiet, NoFault, Fault
<1>24. CASE ScraperStep
  BY <1>24 DEF ScraperStep, Quiet, NoFault, Fault
<1>25. CASE Crash
  BY <1>25 DEF Crash
<1>26. ASSUME NEW a \in Aborters, AbortKill(a) PROVE Reports'
  BY <1>26 DEF AbortKill, NoFault, Fault, At
<1>27. ASSUME NEW a \in Aborters, AbortRead(a) PROVE Reports'
  BY <1>27 DEF AbortRead, NoFault, Fault, At
<1>28. ASSUME NEW a \in Aborters, AbortWrite(a) PROVE Reports'
  BY <1>28 DEF AbortWrite, NoFault, Fault, At
<1>29. ASSUME NEW a \in Aborters, AbortReport(a) PROVE Reports'
  BY <1>29 DEF AbortReport, NoFault, Fault, Notify, At
<1>30. CASE UNCHANGED vars
  BY <1>30 DEF vars
<1>31. QED
  BY <1>1, <1>2, <1>3, <1>4, <1>5, <1>6, <1>7, <1>8, <1>9, <1>10, <1>11, <1>11a, <1>12, <1>13, <1>14, <1>15, <1>16, <1>17, <1>18, <1>19, <1>20, <1>20a, <1>21, <1>22, <1>22a, <1>23, <1>24, <1>25, <1>26, <1>27, <1>28, <1>29, <1>30
  DEF Next, Sched, Watch, Abort, Informer, Recon, Cluster

(* Undisturbed, an execution is reported the same everywhere.              *)
THEOREM Reported == Spec => []ReportsAgree
<1>1. Reports => ReportsAgree
  BY DEF Reports, Outcome, Broken, Undecided, Cut, Looked, Reached, Agreed, Logged, ReportsAgree, Final
<1>2. Steady /\ [Next]_vars => Steady'
  BY ShapeStep, OrderStep, FoundStep, NotYetStep, CallsStep DEF Steady
<1>3. Steady => Shape /\ Order
  BY DEF Steady
<1>4. QED
  BY <1>1, <1>2, <1>3, SteadyInit, ReportsInit, ReportsStep, PTL DEF Spec

(* The parsers of the logs agree on what decides, for logs of any length.   *)
THEOREM ParsersDecide == Spec => []ParsersAgree
<1>1. ParsersAgree
  BY ResultsDecide DEF ParsersAgree
<1> QED
  BY <1>1, PTL
=============================================================================
