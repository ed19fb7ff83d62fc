------------------------- MODULE ContainerExecution -------------------------
(* One test execution run by the container executor: the scheduler that     *)
(* starts it, the goroutine that waits for the pod, scrapes the artifacts   *)
(* with a job of its own and takes the verdict from the logs, the abort     *)
(* requests, the informer of the pods, the reconciler, and what they all    *)
(* write.  It differs from the job executor (TestExecution) in its end: the *)
(* watcher stores the result itself and looks at nobody else's.             *)
EXTENDS RunnerOutput, FiniteSets

CONSTANTS
    Outputs,        \* logs of the test's pod to explore
    ScraperOutputs, \* logs of the scraper's pod
    Aborters,       \* abort requests that reach the API
    Scenes          \* what an execution is and meets: Options.Sync and an
                    \* ArtifactRequest with a storage class; whether it is aborted,
                    \* informer and reconciler run; and the bounds on failed calls,
                    \* timeouts and evictions and on restarts

ASSUME OutputsAssumption == Outputs \subseteq Seq(Line) /\ ScraperOutputs \subseteq Seq(Line)
ASSUME ScenesAssumption ==
    Scenes \subseteq [sync : BOOLEAN, artifacts : BOOLEAN,
                      aborts : BOOLEAN, informer : BOOLEAN, reconciler : BOOLEAN,
                      faults : Nat, crashes : Nat]

VARIABLES
    scene,
    rec, cr,            \* status of the stored record and of the Test resource
    job, pod, out,      \* the test's job exists; its pod; what its logs say
    spod, pvc,          \* the scraper's job and pod; the volume claim exists
    objects, cur,       \* status of the result objects; execution.ExecutionResult
    spc, sret, serr, scopy, \* scheduler: pc, what Execute returned, its copy
    wpc, phase, sout, werr, \* watcher: pc, latestExecutorPod, scraperLogs
    saw,                \* history: what the watcher came to see of the scraper's pod
    apc, ares,          \* abort requests: pc and result
    due, ipc,           \* a failed pod is to be told to the informer; its handler
    rpc,                \* reconciler
    events, faults, crashes

sync      == scene.sync
artifacts == scene.artifacts

store   == <<rec, cr>>
cluster == <<job, pod, out, spod, pvc>>
heap    == <<objects, cur>>
sched   == <<spc, sret, serr, scopy>>
watch   == <<wpc, phase, sout, werr, saw>>
aborts  == <<apc, ares>>
others  == <<due, ipc, rpc>>
budget  == <<faults, crashes>>
vars == <<scene, store, cluster, heap, sched, watch, aborts, others, events, budget>>

Final    == {"passed", "failed", "aborted", "timeout"}
Finished == {"succeeded", "failed"}
Lives(p) == p \in {"pending", "running"} \cup Finished
PodExists == Lives(pod)

(* A call to the storage or to Kubernetes may fail while the budget lasts.  *)
Fault   == faults < scene.faults /\ faults' = faults + 1
NoFault == faults' = faults

Init ==
    /\ scene \in Scenes
    /\ rec = "none" /\ cr = "none"
    /\ job = FALSE /\ pod = "none" /\ out = <<>> /\ spod = "none" /\ pvc = FALSE
    /\ objects = [o \in {"r0", "rp"} |-> "running"] /\ cur = "r0"
    /\ spc = "insert" /\ sret = "r0" /\ serr = FALSE /\ scopy = "running"
    /\ wpc = "off" /\ phase = "none" /\ sout = <<>> /\ werr = FALSE
    /\ saw = "nothing"
    /\ apc = [a \in Aborters |-> "request"] /\ ares = [a \in Aborters |-> "aborted"]
    /\ due = FALSE /\ ipc = "idle" /\ rpc = "idle"
    /\ events = {} /\ faults = 0 /\ crashes = 0

Notify(kind) == events' = events \cup {kind}
SetCur(st)   == objects' = [objects EXCEPT ![cur] = st]

-----------------------------------------------------------------------------
(* Scheduler.executeTest and ContainerExecutor.Execute.                     *)
SchedInsert ==
    /\ spc = "insert" /\ rec' = "running"
    /\ \/ spc' = "create" /\ NoFault /\ UNCHANGED <<events, objects>>
       \/ spc' = "done" /\ Fault /\ Notify("failed") /\ SetCur("failed")
    /\ UNCHANGED <<scene, cr, cluster, cur, sret, serr, scopy, watch, aborts, others, crashes>>

ExecuteErr == /\ objects' = [objects EXCEPT !["r0"] = "failed"]
              /\ spc' = "assign" /\ serr' = TRUE

(* createJob: a claim without a job stays when the second call fails.       *)
SchedCreate ==
    /\ spc = "create"
    /\ \/ /\ NoFault /\ pvc' = artifacts /\ job' = TRUE /\ spc' = "list"
          /\ UNCHANGED <<objects, serr>>
       \/ Fault /\ pvc' \in {FALSE, artifacts} /\ ExecuteErr /\ UNCHANGED job
    /\ UNCHANGED <<scene, store, pod, out, spod, cur, sret, scopy, watch, aborts, others,
                   events, crashes>>

(* A pod that is running already is not watched by anybody; where there is  *)
(* none, yet or any more, the retries end with an error.                    *)
SchedList ==
    /\ spc = "list"
    /\ \/ /\ PodExists /\ pod # "running" /\ NoFault /\ wpc' = "poll"
          /\ spc' = (IF sync THEN "watching" ELSE "assign") /\ UNCHANGED <<objects, serr>>
       \/ pod = "running" /\ NoFault /\ spc' = "assign" /\ UNCHANGED <<objects, serr, wpc>>
       \/ ((~PodExists /\ NoFault) \/ Fault) /\ ExecuteErr /\ UNCHANGED wpc
    /\ UNCHANGED <<scene, store, cluster, cur, sret, scopy, phase, sout, werr, saw,
                   aborts, others, events, crashes>>

SchedReturnMut ==   \* mutant: the caller does not wait
    /\ spc = "watching" /\ spc' = "assign" /\ serr' = werr
    /\ UNCHANGED <<scene, store, cluster, heap, sret, scopy, watch, aborts, others, events,
                   budget>>
SchedReturn ==
    /\ spc = "watching" /\ wpc = "done" /\ spc' = "assign" /\ serr' = werr
    /\ UNCHANGED <<scene, store, cluster, heap, sret, scopy, watch, aborts, others, events,
                   budget>>

SchedAssign ==
    /\ spc = "assign" /\ spc' = "write" /\ cur' = sret /\ scopy' = objects[sret]
    /\ UNCHANGED <<scene, store, cluster, objects, sret, serr, watch, aborts, others, events,
                   budget>>

SchedWrite ==
    /\ spc = "write" /\ spc' = "done" /\ scopy' = "running"
    /\ \/ /\ NoFault /\ rec' = scopy
          /\ IF serr THEN Notify("failed") /\ SetCur("failed") ELSE UNCHANGED <<events, objects>>
       \/ Fault /\ UNCHANGED rec /\ Notify("failed") /\ SetCur("failed")
    /\ UNCHANGED <<scene, cr, cluster, cur, sret, serr, watch, aborts, others, crashes>>

-----------------------------------------------------------------------------
(* ContainerExecutor.updateResultsFromPod.  A return hands the object that  *)
(* execution.ExecutionResult is then to the caller that waits.              *)
Return(e) == wpc' = "end" /\ werr' = e /\ sret' = IF sync THEN cur ELSE sret

WatchPoll ==
    /\ wpc = "poll" /\ wpc' = "get"
    /\ \/ pod = "succeeded" /\ NoFault /\ UNCHANGED objects
       \/ ((pod \in {"failed", "gone"} /\ NoFault) \/ Fault) /\ SetCur("failed")
    /\ UNCHANGED <<scene, store, cluster, cur, sched, phase, sout, werr, saw, aborts,
                   others, events, crashes>>

WatchGet ==
    /\ wpc = "get"
    /\ \/ /\ PodExists /\ NoFault /\ phase' = pod
          /\ wpc' = (IF artifacts THEN "scrape" ELSE "verdict") /\ UNCHANGED <<werr, sret>>
       \/ ((~PodExists /\ NoFault) \/ Fault) /\ Return(TRUE) /\ UNCHANGED phase
    /\ UNCHANGED <<scene, store, cluster, heap, spc, serr, scopy, sout, saw, aborts,
                   others, events, crashes>>

ScrapeStart ==
    /\ wpc = "scrape"
    /\ \/ NoFault /\ spod' = "starting" /\ wpc' = "slist" /\ UNCHANGED <<werr, sret>>
       \/ Fault /\ Return(TRUE) /\ UNCHANGED spod
    /\ UNCHANGED <<scene, store, job, pod, out, pvc, heap, spc, serr, scopy, phase, sout, saw,
                   aborts, others, events, crashes>>

(* The pod of the scraper is waited for unless it runs already: then its    *)
(* result and its logs are not taken, and the claim is left.  So it is where *)
(* there is no pod, yet or any more, when the retries end.                  *)
ScrapeList ==
    /\ wpc = "slist"
    /\ \/ /\ spod = "running" /\ NoFault /\ wpc' = "verdict" /\ saw' = "running"
          /\ UNCHANGED <<werr, sret>>
       \/ /\ Lives(spod) /\ spod # "running" /\ NoFault /\ wpc' = "swait"
          /\ UNCHANGED <<werr, sret, saw>>
       \/ ~Lives(spod) /\ NoFault /\ Return(TRUE) /\ saw' = "gone"
       \/ Fault /\ Return(TRUE) /\ UNCHANGED saw
    /\ UNCHANGED <<scene, store, cluster, heap, spc, serr, scopy, phase, sout, aborts,
                   others, events, crashes>>

(* The wait may time out, then the pod is what it is.  Its success is the   *)
(* result of the execution at first, even after an error of the poll.       *)
Scraped == CASE spod = "succeeded" -> SetCur("passed")
             [] spod = "failed"    -> SetCur("failed")
             [] OTHER              -> UNCHANGED objects

(* A pod that has gone in the meantime ends the watch before the claim is   *)
(* deleted.                                                                 *)
ScrapeEndMut ==     \* mutant: the claim is not deleted
    /\ wpc = "swait" /\ wpc' = "slogs" /\ saw' = "ended" /\ Scraped
    /\ (spod \in Finished /\ NoFault) \/ (Lives(spod) /\ Fault)
    /\ UNCHANGED <<scene, store, cluster, cur, sched, phase, sout, werr, aborts, others,
                   events, crashes>>
ScrapeEnd ==
    /\ wpc = "swait"
    /\ \/ /\ (spod \in Finished /\ NoFault) \/ (Lives(spod) /\ Fault)
          /\ pvc' = FALSE /\ Scraped /\ wpc' = "slogs" /\ saw' = "ended"
          /\ UNCHANGED <<werr, sret>>
       \/ /\ spod = "gone" /\ NoFault /\ Return(TRUE) /\ saw' = "gone"
          /\ UNCHANGED <<pvc, objects>>
       \/ Fault /\ Return(TRUE) /\ UNCHANGED <<pvc, objects, saw>>
    /\ UNCHANGED <<scene, store, job, pod, out, spod, cur, spc, serr, scopy, phase, sout,
                   aborts, others, events, crashes>>

(* Its logs are read after its result has been taken: where they cannot be  *)
(* had the watch ends with that result, without the test's own.             *)
ScrapeLogs ==
    /\ wpc = "slogs"
    /\ \/ /\ Lives(spod) /\ NoFault /\ wpc' = "verdict" /\ sout' \in ScraperOutputs
          /\ UNCHANGED <<werr, sret, saw>>
       \/ ~Lives(spod) /\ NoFault /\ Return(TRUE) /\ saw' = "lost" /\ UNCHANGED sout
       \/ Fault /\ Return(TRUE) /\ UNCHANGED <<sout, saw>>
    /\ UNCHANGED <<scene, store, cluster, heap, spc, serr, scopy, phase, aborts, others,
                   events, crashes>>

(* Unless the result says failed the phase of the pod decides, then a       *)
(* result or an error in the logs, if there is one.  Where the logs cannot  *)
(* be had an error of the store that follows is returned.                   *)
PhaseMut(st) ==     \* mutant: the phase does not correct the scraper's success
    IF st = "running" /\ phase \in Finished
        THEN IF phase = "succeeded" THEN "passed" ELSE "failed"
        ELSE st
Phase(st) == CASE st = "failed"         -> st
               [] phase = "succeeded"   -> "passed"
               [] phase = "failed"      -> "failed"
               [] OTHER                 -> st

WatchVerdict ==
    LET verdict == ContainerVerdict(out \o sout) IN
    /\ wpc = "verdict" /\ wpc' = "write"
    /\ \/ /\ PodExists /\ NoFault
          /\ cur' = IF verdict = "none" THEN cur ELSE "rp"
          /\ objects' = [[objects EXCEPT ![cur] = Phase(@)] EXCEPT
                            !["rp"] = IF verdict = "none" THEN @ ELSE verdict]
          /\ UNCHANGED werr
       \/ /\ ((~PodExists /\ NoFault) \/ Fault)
          /\ SetCur("failed") /\ UNCHANGED cur /\ werr' = TRUE
    /\ UNCHANGED <<scene, store, cluster, sched, phase, sout, saw, aborts,
                   others, events, crashes>>

WatchWrite ==
    /\ wpc = "write"
    /\ \/ NoFault /\ rec' = objects[cur] /\ Return(FALSE)
       \/ Fault /\ UNCHANGED rec /\ Return(werr)
    /\ UNCHANGED <<scene, cr, cluster, heap, spc, serr, scopy, phase, sout, saw, aborts,
                   others, events, crashes>>

(* ContainerExecutor.stopExecution, deferred with the object of the start.  *)
(* It looks at nothing that was stored, and goes on after every error.      *)
WatchEnd ==
    /\ wpc = "end" /\ wpc' = "report" /\ cur' = "r0"
    /\ UNCHANGED <<scene, store, cluster, objects, sched, phase, sout, werr, saw,
                   aborts, others, events, budget>>

EndKindMut(st) ==   \* mutant: what is not passed is reported as it is
    IF st = "passed" THEN "success" ELSE st
EndKind(st) == CASE st = "passed"  -> "success"
                 [] st = "timeout" -> "timeout"
                 [] st = "aborted" -> "aborted"
                 [] OTHER          -> "failed"

WatchReport ==
    /\ wpc = "report" /\ wpc' = "done" /\ Notify(EndKind(objects["r0"]))
    /\ \/ NoFault /\ cr' = objects["r0"]
       \/ Fault /\ UNCHANGED cr
    /\ UNCHANGED <<scene, rec, cluster, heap, sched, phase, sout, werr, saw, aborts,
                   others, crashes>>

-----------------------------------------------------------------------------
(* The API aborts executions of either kind through JobExecutor.Abort.      *)
At(a, pc) == apc' = [apc EXCEPT ![a] = pc]

(* The job is deleted; its pod, if it has one already, goes after it.       *)
AbortKill(a) ==
    /\ scene.aborts /\ apc[a] = "request" /\ rec # "none" /\ At(a, "read")
    /\ \/ job /\ NoFault /\ job' = FALSE /\ ares' = [ares EXCEPT ![a] = "aborted"]
       \/ ((~job /\ NoFault) \/ Fault) /\ UNCHANGED job /\ ares' = [ares EXCEPT ![a] = "failed"]
    /\ UNCHANGED <<scene, store, pod, out, spod, pvc, heap, sched, watch, others, events, crashes>>

AbortRead(a) ==
    /\ apc[a] = "read"
    /\ \/ At(a, IF rec \in {"aborted", "timeout"} THEN "done" ELSE "write") /\ NoFault
       \/ At(a, "done") /\ Fault
    /\ UNCHANGED <<scene, store, cluster, heap, sched, watch, ares, others, events, crashes>>

AbortWrite(a) ==
    /\ apc[a] = "write"
    /\ \/ NoFault /\ rec' = ares[a] /\ At(a, "report")
       \/ Fault /\ UNCHANGED rec /\ At(a, "done")
    /\ UNCHANGED <<scene, cr, cluster, heap, sched, watch, ares, others, events, crashes>>

AbortReport(a) ==
    /\ apc[a] = "report" /\ At(a, "done")
    /\ \/ NoFault /\ cr' = ares[a] /\ Notify(EndKind(ares[a]))
       \/ Fault /\ UNCHANGED <<cr, events>>
    /\ UNCHANGED <<scene, rec, cluster, heap, sched, watch, ares, others, crashes>>

-----------------------------------------------------------------------------
(* checkExecutionPodStatus, called by the informer of the pods.             *)
InformerReadMut ==  \* mutant: whatever the status that is stored
    /\ due /\ ipc = "idle" /\ due' = FALSE /\ ipc' = "write"
    /\ UNCHANGED <<scene, store, cluster, heap, sched, watch, aborts, rpc, events, budget>>
InformerRead ==
    /\ due /\ ipc = "idle" /\ due' = FALSE
    /\ ipc' = IF rec = "running" THEN "write" ELSE "idle"
    /\ UNCHANGED <<scene, store, cluster, heap, sched, watch, aborts, rpc, events, budget>>

InformerWrite ==
    /\ ipc = "write" /\ ipc' = "idle"
    /\ \/ NoFault /\ rec' = "failed"
       \/ Fault /\ UNCHANGED rec
    /\ UNCHANGED <<scene, cr, cluster, heap, sched, watch, aborts, due, rpc, events, crashes>>

(* reconciler.ProcessTests.  Where the test has no pod any more that of the *)
(* scraper counts.                                                          *)
Left == IF PodExists THEN pod
        ELSE IF artifacts /\ Lives(spod) THEN spod ELSE "none"

ReconList ==
    /\ scene.reconciler /\ rpc = "idle" /\ rec = "running" /\ rpc' = "pods"
    /\ UNCHANGED <<scene, store, cluster, heap, sched, watch, aborts, due, ipc, events, budget>>

ReconPodsMut ==     \* mutant: an execution without a pod is passed over
    /\ rpc = "pods"
    /\ NoFault /\ rpc' = IF Left = "failed" THEN "write" ELSE "idle"
    /\ UNCHANGED <<scene, store, cluster, heap, sched, watch, aborts, due, ipc, events, crashes>>
ReconPods ==
    /\ rpc = "pods"
    /\ \/ NoFault /\ rpc' = IF Left \in {"none", "failed"} THEN "write" ELSE "idle"
       \/ Fault /\ rpc' = "write"
    /\ UNCHANGED <<scene, store, cluster, heap, sched, watch, aborts, due, ipc, events, crashes>>

ReconWrite ==
    /\ rpc = "write" /\ rpc' = "idle"
    /\ \/ NoFault /\ rec' = "failed"
       \/ Fault /\ UNCHANGED rec
    /\ UNCHANGED <<scene, cr, cluster, heap, sched, watch, aborts, due, ipc, events, crashes>>

-----------------------------------------------------------------------------
(* The cluster.                                                             *)
Quiet == UNCHANGED <<scene, store, pvc, heap, sched, watch, aborts, ipc, rpc, events,
                     crashes>>

PodStart == job /\ pod = "none" /\ pod' = "pending" /\ NoFault /\ Quiet
            /\ UNCHANGED <<job, out, spod, due>>
PodRun  == pod = "pending" /\ pod' = "running" /\ NoFault /\ Quiet
           /\ UNCHANGED <<job, out, spod, due>>

PodFinish ==
    /\ pod \in {"pending", "running"} /\ pod' \in Finished /\ out' \in Outputs /\ NoFault
    /\ due' = (scene.informer /\ pod' = "failed")
    /\ Quiet /\ UNCHANGED <<job, spod>>

(* The job expires after its pod has ended.  The pod goes when there is no  *)
(* job any more, or before its end: a deadline, an eviction, a lost node.   *)
JobGo ==
    /\ job /\ pod \in Finished \cup {"gone"} /\ job' = FALSE /\ NoFault
    /\ Quiet /\ UNCHANGED <<pod, out, spod, due>>

PodGo ==
    /\ \/ PodExists /\ ~job /\ NoFault
       \/ pod \in {"pending", "running"} /\ Fault
    /\ pod' = "gone" /\ due' = (due \/ (scene.informer /\ pod = "failed"))
    /\ Quiet /\ UNCHANGED <<job, out, spod>>

(* The pod of the scraper is created after its job, and goes at any time:   *)
(* its job has a deadline and expires as the test's does.                   *)
ScraperStep ==
    /\ \/ spod = "starting" /\ spod' = "pending"
       \/ spod = "pending" /\ spod' \in {"running", "gone"} \cup Finished
       \/ spod = "running" /\ spod' \in {"gone"} \cup Finished
       \/ spod \in Finished /\ spod' = "gone"
    /\ NoFault /\ Quiet /\ UNCHANGED <<job, pod, out, due>>

(* A restart of the API server loses its goroutines and their memory.       *)
Crash ==
    /\ crashes < scene.crashes /\ crashes' = crashes + 1
    /\ spc' = "done" /\ wpc' = "done" /\ ipc' = "idle" /\ rpc' = "idle"
    /\ apc' = [a \in Aborters |-> IF apc[a] = "request" THEN "request" ELSE "done"]
    /\ UNCHANGED <<scene, store, cluster, heap, sret, serr, scopy, phase, sout, werr, saw,
                   ares, due, events, faults>>

Sched == \/ SchedInsert \/ SchedCreate \/ SchedList \/ SchedReturn \/ SchedAssign \/ SchedWrite
Watch == \/ WatchPoll \/ WatchGet \/ ScrapeStart \/ ScrapeList \/ ScrapeEnd \/ ScrapeLogs
         \/ WatchVerdict \/ WatchWrite \/ WatchEnd \/ WatchReport
Abort(a) == AbortKill(a) \/ AbortRead(a) \/ AbortWrite(a) \/ AbortReport(a)
Informer == InformerRead \/ InformerWrite
Recon    == ReconList \/ ReconPods \/ ReconWrite
Cluster  == PodStart \/ PodRun \/ PodFinish \/ JobGo \/ PodGo \/ ScraperStep

Next == Sched \/ Watch \/ (\E a \in Aborters : Abort(a)) \/ Informer \/ Recon \/ Cluster \/ Crash
Spec == Init /\ [][Next]_vars

(* Goroutines run, pods come to an end and expire; no fairness for aborts.  *)
Fairness == WF_vars(Sched) /\ WF_vars(Watch) /\ WF_vars(Informer) /\ WF_vars(Recon)
            /\ WF_vars(Cluster)
FairSpec == Spec /\ Fairness

-----------------------------------------------------------------------------
(* Every variable has its type; a result has a status that a container or   *)
(* its logs can give it.                                                    *)
TypeOK ==
    /\ scene \in Scenes
    /\ rec \in Final \cup {"none", "running"} /\ cr \in Final \cup {"none", "running"}
    /\ job \in BOOLEAN /\ pod \in {"none", "pending", "running", "gone"} \cup Finished
    /\ out \in Outputs \cup {<<>>}
    /\ spod \in {"none", "starting", "pending", "running", "gone"} \cup Finished
    /\ pvc \in BOOLEAN
    /\ objects \in [{"r0", "rp"} -> {"running", "passed", "failed"}] /\ cur \in {"r0", "rp"}
    /\ spc \in {"insert", "create", "list", "watching", "assign", "write", "done"}
    /\ sret \in {"r0", "rp"} /\ serr \in BOOLEAN
    /\ scopy \in {"running", "passed", "failed"}
    /\ wpc \in {"off", "poll", "get", "scrape", "slist", "swait", "slogs", "verdict",
                "write", "end", "report", "done"}
    /\ phase \in {"none", "pending", "running"} \cup Finished
    /\ sout \in ScraperOutputs \cup {<<>>} /\ werr \in BOOLEAN
    /\ saw \in {"nothing", "running", "gone", "ended", "lost"}
    /\ apc \in [Aborters -> {"request", "read", "write", "report", "done"}]
    /\ ares \in [Aborters -> {"aborted", "failed"}]
    /\ due \in BOOLEAN /\ ipc \in {"idle", "write"} /\ rpc \in {"idle", "pods", "write"}
    /\ events \subseteq {"success", "failed", "aborted"}
    /\ faults \in 0..scene.faults /\ crashes \in 0..scene.crashes

(* A Test is called passed, and the record of a caller that waits, only     *)
(* when the pod succeeded or the logs of the container or of the scraper    *)
(* said so.  The exception is that of the code: after a failed or timed out *)
(* call, or when its logs are gone, a scraper that succeeds passes an       *)
(* execution that failed or has not ended.  Where the caller does not wait  *)
(* the scheduler may store the success of the scraper, which the watcher    *)
(* then corrects.                                                           *)
Honest ==
    cr = "passed" \/ (sync /\ rec = "passed") =>
        \/ phase = "succeeded" \/ ContainerVerdict(out \o sout) = "passed"
        \/ artifacts /\ (faults > 0 \/ saw = "lost")

(* Where the caller waits and nothing fails or interferes, the record, the  *)
(* Test and the event say the same, provided that the pod lives until it is *)
(* looked at and its logs do not say other than the pods: the deferred end  *)
(* only knows the object of the start.  A scraper's pod that is gone when   *)
(* it is looked for ends the watch with an error and nothing is decided:    *)
(* record and Test still agree, but a failure is announced; and that is     *)
(* announced, too, after a success when the scraper's logs are gone.        *)
Undisturbed ==
    sync /\ faults = 0 /\ crashes = 0 /\ ~scene.aborts /\ ~scene.reconciler
ReportsAgree ==
    spc = "done" /\ wpc = "done" /\ phase # "none" /\ Undisturbed
      /\ ContainerVerdict(out \o sout) \in {"none", objects["r0"]}
        => /\ saw # "lost" => cr = rec
           /\ saw \notin {"gone", "lost"} => rec \in Final /\ events = {EndKind(rec)}
           /\ saw \in {"gone", "lost"} => "failed" \in events

(* Without failed calls the claim for the artifacts outlives the watcher    *)
(* only where it found the scraper's pod running already, or gone before    *)
(* its end: then it does, since nobody else deletes it.                     *)
ClaimReleased ==
    wpc = "done" /\ phase # "none" /\ faults = 0 /\ crashes = 0
        => (pvc <=> saw \in {"running", "gone"})

(* An abort stored for an execution whose caller did not wait is not undone *)
(* by the watcher that sees the pod gone, by the informer or by another     *)
(* abort: only by who is already about to write, or by a watcher whose pod  *)
(* ends before it is taken away.                                            *)
Aborted ==
    /\ rec = "aborted" /\ spc = "done"
    /\ wpc \in {"off", "end", "report", "done"} \/ (wpc \in {"poll", "get"} /\ pod = "gone")
    /\ ipc = "idle" /\ rpc = "idle" /\ \A a \in Aborters : apc[a] # "write"

CancelKept == [][Aborted => Aborted']_vars

(* Where the reconciler runs a record ends in a final status and stays.     *)
EventuallyFinal ==
    (rec # "none" /\ scene.reconciler) ~> [](rec \in Final)

(* The parsers of the logs agree on what decides (RunnerOutput).  Looked at *)
(* once, before there is an execution.                                      *)
ParsersAgree == rec = "none" => LastResultDecides(3)
=============================================================================
