--------------------------- MODULE TestExecution ---------------------------
(* One test execution run by the job executor: the scheduler that inserts   *)
(* and starts it, the goroutine that waits for the pod and reads its logs,  *)
(* the timeout monitor, the abort requests, the reconciler, the stored      *)
(* record they all write, the Test resource's status, the published events  *)
(* and, as environment, the Kubernetes job and its pod.                     *)
(*                                                                          *)
(* Objects shared by pointer in the Go code stay shared here: "objects" is  *)
(* the heap of ExecutionResult values and "cur" is the pointer              *)
(* execution.ExecutionResult of the execution the scheduler and the pod     *)
(* watcher hold together.                                                   *)
EXTENDS Naturals, FiniteSets

CONSTANTS
    Aborters,       \* abort requests that reach the API
    Scenes          \* what an execution meets: ExecuteOptions.Sync, a negative test,
                    \* an ActiveDeadlineSeconds, aborts, a running reconciler, and the
                    \* bounds on failed calls and on restarts of the API server

ASSUME AbortersAssumption ==
    Aborters \cap {"watch", "monitor", "r0", "rp", "rn", "sched"} = {}
ASSUME ScenesAssumption ==
    Scenes \subseteq [sync : BOOLEAN, negative : BOOLEAN, deadline : BOOLEAN, aborts : BOOLEAN,
                      reconciler : BOOLEAN, faults : Nat, crashes : Nat]

VARIABLES
    scene,              \* one of Scenes
    rec, cr,            \* the stored record; the status of the Test resource
    job, pod, out,      \* the Kubernetes job and pod; the result in the pod's logs
    deadlineHit, killed,\* history: deadline enforced; an abort deleted the job
    objects, cur,       \* ExecutionResult objects and execution.ExecutionResult
    spc, sret, serr, scopy, \* scheduler: pc, returned pointer and error, copy to store
    pc, ptr, ev, copy,  \* per caller of stopExecution: pc, result, event, copy to store
    werr, wret,         \* watcher: its error variable and the pointer it returns
    rpc, rended,        \* reconciler: pc and the end time in its copy of the record
    events,             \* end events published on the bus
    faults, crashes     \* budgets used

store   == <<rec, cr>>
cluster == <<job, pod, out, deadlineHit, killed>>
heap    == <<objects, cur>>
sched   == <<spc, sret, serr, scopy>>
stops   == <<pc, ptr, ev, copy>>
watch   == <<werr, wret>>
recon   == <<rpc, rended>>
budget  == <<faults, crashes>>
vars == <<scene, store, cluster, heap, sched, stops, watch, recon, events, budget>>

Stoppers == {"watch", "monitor"} \cup Aborters
Objects  == {"r0", "rp", "rn", "monitor"} \cup Aborters
Statuses == {"running", "passed", "failed", "aborted", "timeout"}
Kinds    == {"success", "failed", "aborted", "timeout"}
Final    == Statuses \ {"running"}

Finished == {"succeeded", "failed"}         \* pod phases that end a pod
JobExists == job \in {"active", "succeeded", "failed", "deadline"}
PodExists == pod \in {"pending", "running"} \cup Finished

(* A call to the storage or to Kubernetes may fail while the budget lasts.  *)
Fault   == faults < scene.faults /\ faults' = faults + 1
NoFault == faults' = faults

(* The memory of the goroutines before they run.                            *)
NoMemory(h, c, sr, se, sc, p, e, k, we, wr) ==
    /\ h = [o \in Objects |-> "running"] /\ c = "r0"
    /\ sr = "r0" /\ se = FALSE /\ sc = "running"
    /\ p = [s \in Stoppers |-> IF s = "watch" THEN "r0" ELSE s]
    /\ e = [s \in Stoppers |-> "success"] /\ k = [s \in Stoppers |-> "running"]
    /\ we = FALSE /\ wr = "r0"

Init ==
    /\ scene \in Scenes
    /\ rec = [status |-> "none", ended |-> FALSE] /\ cr = "none"
    /\ job = "none" /\ pod = "none" /\ out = "none"
    /\ deadlineHit = FALSE /\ killed = FALSE
    /\ NoMemory(objects, cur, sret, serr, scopy, ptr, ev, copy, werr, wret)
    /\ spc = "insert"
    /\ pc = [s \in Stoppers |-> IF s \in Aborters THEN "request" ELSE "off"]
    /\ rpc = (IF scene.reconciler THEN "idle" ELSE "off") /\ rended = FALSE
    /\ events = {} /\ faults = 0 /\ crashes = 0

-----------------------------------------------------------------------------
(* The repository: UpdateResult sets the result only; its last step stores  *)
(* the output and may fail after the record was changed.                    *)
UpdateResult(st) == rec' = [rec EXCEPT !.status = st]
EndExecution     == rec' = [rec EXCEPT !.ended = TRUE]

UpdateResultFails(st) == Fault /\ (UNCHANGED rec \/ UpdateResult(st))

Notify(actor, kind) == events' = events \cup {[by |-> actor, kind |-> kind]}

-----------------------------------------------------------------------------
(* Scheduler.executeTest and JobExecutor.Execute.                           *)

(* A request rejected before Insert, or an Insert that fails, stores nothing. *)
SchedReject ==
    /\ spc = "insert" /\ spc' = "done"
    /\ UNCHANGED <<scene, store, cluster, heap, sret, serr, scopy, stops, watch,
                   recon, events, budget>>

(* The record is stored before its output: the call may fail in between.    *)
SchedInsert ==
    /\ spc = "insert"
    /\ rec' = [status |-> "running", ended |-> FALSE]
    /\ \/ spc' = "start" /\ NoFault
       \/ spc' = "done" /\ Fault
    /\ UNCHANGED <<scene, cr, cluster, heap, sret, serr, scopy, stops, watch,
                   recon, events, crashes>>

SchedStart ==
    /\ spc = "start"
    /\ \/ spc' = "create" /\ NoFault /\ UNCHANGED <<events, objects>>
       \/ /\ spc' = "done" /\ Fault /\ Notify("sched", "failed")
          /\ objects' = [objects EXCEPT ![cur] = "failed"]
    /\ UNCHANGED <<scene, store, cluster, cur, sret, serr, scopy, stops, watch,
                   recon, crashes>>

(* Execute ends with an error: result.Err(err) on the object of line 199.   *)
ExecuteErr == /\ objects' = [objects EXCEPT !["r0"] = "failed"]
              /\ spc' = "assign" /\ sret' = "r0" /\ serr' = TRUE

SchedCreateJob ==
    /\ spc = "create"
    /\ \/ /\ NoFault /\ job' = "active" /\ spc' = "list"
          /\ pc' = [pc EXCEPT !["monitor"] = IF scene.sync THEN "off" ELSE "tick"]
          /\ UNCHANGED <<objects, sret, serr>>
       \/ Fault /\ ExecuteErr /\ UNCHANGED <<job, pc>>
    /\ UNCHANGED <<scene, store, pod, out, deadlineHit, killed, cur, scopy,
                   ptr, ev, copy, watch, recon, events, crashes>>

(* GetJobPods retries until a pod shows up; no pod at the last retry is an  *)
(* error.  A pod that is already Running is not watched by anybody.         *)
SchedListPods ==
    /\ spc = "list"
    /\ \/ /\ PodExists /\ pod # "running" /\ NoFault
          /\ pc' = [pc EXCEPT !["watch"] = "poll"]
          /\ IF scene.sync THEN spc' = "watching" /\ UNCHANGED <<sret, serr>>
                     ELSE spc' = "assign" /\ sret' = "r0" /\ serr' = FALSE
          /\ UNCHANGED objects
       \/ /\ pod = "running" /\ NoFault
          /\ spc' = "assign" /\ sret' = "rn" /\ serr' = FALSE
          /\ UNCHANGED <<objects, pc>>
       \/ ~PodExists /\ NoFault /\ ExecuteErr /\ UNCHANGED pc
       \/ Fault /\ ExecuteErr /\ UNCHANGED pc
    /\ UNCHANGED <<scene, store, cluster, cur, scopy, ptr, ev, copy, watch,
                   recon, events, crashes>>

(* Sync: updateResultsFromPod ran in the scheduler's own goroutine.         *)
SchedReturn ==
    /\ spc = "watching" /\ pc["watch"] = "done"
    /\ spc' = "assign" /\ sret' = wret /\ serr' = werr
    /\ UNCHANGED <<scene, store, cluster, heap, scopy, stops, watch, recon,
                   events, budget>>

SchedAssign ==
    /\ spc = "assign" /\ spc' = "copy" /\ cur' = sret
    /\ UNCHANGED <<scene, store, cluster, objects, sret, serr, scopy, stops,
                   watch, recon, events, budget>>

SchedCopy ==
    /\ spc = "copy" /\ spc' = "write" /\ scopy' = objects[cur]
    /\ UNCHANGED <<scene, store, cluster, heap, sret, serr, stops, watch, recon,
                   events, budget>>

SchedFails == /\ Notify("sched", "failed")
              /\ objects' = [objects EXCEPT ![cur] = "failed"]

SchedWrite ==
    /\ spc = "write" /\ spc' = "done" /\ scopy' = "running"
    /\ \/ /\ NoFault /\ UpdateResult(scopy)
          /\ IF serr THEN SchedFails ELSE UNCHANGED <<events, objects>>
       \/ UpdateResultFails(scopy) /\ SchedFails
    /\ UNCHANGED <<scene, cr, cluster, cur, sret, serr, stops, watch, recon,
                   crashes>>

-----------------------------------------------------------------------------
(* JobExecutor.updateResultsFromPod, up to its deferred stopExecution.      *)
WatchPoll ==
    /\ pc["watch"] = "poll" /\ pc' = [pc EXCEPT !["watch"] = "logs"]
    /\ \/ pod = "succeeded" /\ NoFault /\ UNCHANGED objects
       \/ /\ \/ pod \notin {"pending", "running", "succeeded"} /\ NoFault
             \/ Fault
          /\ objects' = [objects EXCEPT ![cur] = "failed"]
    /\ UNCHANGED <<scene, store, cluster, cur, sched, ptr, ev, copy, watch,
                   recon, events, crashes>>

(* ParseRunnerOutput: logs without a result line make a failed result.      *)
ParsedMut(o) ==     \* mutant: logs without a result line pass
    IF o = "failed" THEN "failed" ELSE "passed"
Parsed(o) == IF o = "passed" THEN "passed" ELSE "failed"

WatchLogs ==
    /\ pc["watch"] = "logs" /\ pc' = [pc EXCEPT !["watch"] = "return"]
    /\ \/ /\ PodExists /\ NoFault /\ werr' = FALSE
          /\ objects' = [objects EXCEPT !["rp"] = Parsed(out)] /\ cur' = "rp"
       \/ /\ (~PodExists /\ NoFault) \/ Fault
          /\ werr' = TRUE /\ UNCHANGED heap
    /\ UNCHANGED <<scene, store, cluster, sched, ptr, ev, copy, wret, recon,
                   events, crashes>>

(* The arguments of the deferred stopExecution are evaluated on return.     *)
WatchReturn ==
    /\ pc["watch"] = "return" /\ pc' = [pc EXCEPT !["watch"] = "read"]
    /\ wret' = cur /\ ptr' = [ptr EXCEPT !["watch"] = cur]
    /\ UNCHANGED <<scene, store, cluster, heap, sched, ev, copy, werr, recon,
                   events, budget>>

-----------------------------------------------------------------------------
(* JobExecutor.MonitorJobForTimeout and the head of Timeout.  An active job,*)
(* or one that hit its deadline before it had a pod, is looked at again.    *)
MonitorTick ==
    /\ pc["monitor"] = "tick"
    /\ \/ /\ \/ job \in {"deleted", "succeeded", "failed"} /\ NoFault
             \/ job = "deadline" /\ pod = "succeeded" /\ NoFault
             \/ Fault
          /\ pc' = [pc EXCEPT !["monitor"] = "done"] /\ UNCHANGED objects
       \/ /\ job = "deadline" /\ pod \in {"failed", "gone"} /\ NoFault
          /\ pc' = [pc EXCEPT !["monitor"] = "read"]
          /\ objects' = [objects EXCEPT !["monitor"] = "timeout"]
    /\ UNCHANGED <<scene, store, cluster, cur, sched, ptr, ev, copy, watch,
                   recon, events, crashes>>

(* AbortExecutionHandler, then JobExecutor.Abort up to its stopExecution.   *)
AbortRequest(a) ==
    /\ scene.aborts /\ pc[a] = "request" /\ rec.status # "none"
    /\ pc' = [pc EXCEPT ![a] = "kill"]
    /\ UNCHANGED <<scene, store, cluster, heap, sched, ptr, ev, copy, watch,
                   recon, events, budget>>

AbortJob(a) ==
    /\ pc[a] = "kill" /\ pc' = [pc EXCEPT ![a] = "read"]
    /\ \/ /\ JobExists /\ NoFault /\ job' = "deleted" /\ killed' = TRUE
          /\ objects' = [objects EXCEPT ![a] = "aborted"]
       \/ /\ (~JobExists /\ NoFault) \/ Fault
          /\ objects' = [objects EXCEPT ![a] = "failed"]
          /\ UNCHANGED <<job, killed>>
    /\ UNCHANGED <<scene, store, pod, out, deadlineHit, cur, sched, ptr, ev, copy,
                   watch, recon, events, crashes>>

-----------------------------------------------------------------------------
(* JobExecutor.stopExecution, called by the watcher, the monitor and the    *)
(* abort requests.  Only the watcher shares its execution with somebody.    *)
Current(s) == IF s = "watch" THEN cur ELSE ptr[s]

StopReadMut(s) ==   \* mutant: the saved status is not looked at
    /\ pc[s] = "read"
    /\ \/ pc' = [pc EXCEPT ![s] = "end"] /\ NoFault
       \/ pc' = [pc EXCEPT ![s] = "done"] /\ Fault
    /\ UNCHANGED <<scene, store, cluster, heap, sched, ptr, ev, copy, watch,
                   recon, events, crashes>>

StopRead(s) ==
    /\ pc[s] = "read"
    /\ \/ pc' = [pc EXCEPT ![s] = IF rec.status \in {"aborted", "timeout"}
                                  THEN "done" ELSE "end"] /\ NoFault
       \/ pc' = [pc EXCEPT ![s] = "done"] /\ Fault
    /\ UNCHANGED <<scene, store, cluster, heap, sched, ptr, ev, copy, watch,
                   recon, events, crashes>>

(* A negative test has its result reversed, whatever made it fail.          *)
Reversed(st) == IF st = "failed" THEN "passed" ELSE "failed"

StopEnd(s) ==
    /\ pc[s] = "end"
    /\ objects' = IF s = "watch" /\ scene.negative
                  THEN [o \in Objects |-> IF o \in {cur, ptr[s]}
                                          THEN Reversed(objects[ptr[s]])
                                          ELSE objects[o]]
                  ELSE objects
    /\ \/ EndExecution /\ NoFault /\ pc' = [pc EXCEPT ![s] = "assign"]
       \/ UNCHANGED rec /\ Fault /\ pc' = [pc EXCEPT ![s] = "done"]
    /\ UNCHANGED <<scene, cr, cluster, cur, sched, ptr, ev, copy, watch, recon,
                   events, crashes>>

EventKindMut(st) == \* mutant: the status itself for the kind of event
    st
EventKind(st) == CASE st = "aborted" -> "aborted"
                   [] st = "timeout" -> "timeout"
                   [] st = "failed"  -> "failed"
                   [] OTHER          -> "success"

StopAssignMut(s) == \* mutant: the event is chosen before the error is applied
    /\ pc[s] = "assign" /\ pc' = [pc EXCEPT ![s] = "copy"]
    /\ objects' = IF s = "watch" /\ werr
                  THEN [objects EXCEPT ![ptr[s]] = "failed"] ELSE objects
    /\ ev' = [ev EXCEPT ![s] = EventKind(objects[ptr[s]])]
    /\ cur' = IF s = "watch" THEN ptr[s] ELSE cur
    /\ UNCHANGED <<scene, store, cluster, sched, ptr, copy, watch, recon, events,
                   budget>>

StopAssign(s) ==
    /\ pc[s] = "assign" /\ pc' = [pc EXCEPT ![s] = "copy"]
    /\ objects' = IF s = "watch" /\ werr
                  THEN [objects EXCEPT ![ptr[s]] = "failed"] ELSE objects
    /\ ev' = [ev EXCEPT ![s] = EventKind(objects'[ptr[s]])]
    /\ cur' = IF s = "watch" THEN ptr[s] ELSE cur
    /\ UNCHANGED <<scene, store, cluster, sched, ptr, copy, watch, recon, events,
                   budget>>

StopCopy(s) ==
    /\ pc[s] = "copy" /\ pc' = [pc EXCEPT ![s] = "write"]
    /\ copy' = [copy EXCEPT ![s] = objects[Current(s)]]
    /\ UNCHANGED <<scene, store, cluster, heap, sched, ptr, ev, watch, recon,
                   events, budget>>

StopWrite(s) ==
    /\ pc[s] = "write"
    /\ \/ NoFault /\ UpdateResult(copy[s]) /\ pc' = [pc EXCEPT ![s] = "status"]
       \/ UpdateResultFails(copy[s]) /\ pc' = [pc EXCEPT ![s] = "done"]
    /\ UNCHANGED <<scene, cr, cluster, heap, sched, ptr, ev, copy, watch, recon,
                   events, crashes>>

(* The status of the Test, then of the TestExecution; an error in either    *)
(* returns before the event is sent.                                        *)
StopStatus(s) ==
    /\ pc[s] = "status"
    /\ \/ /\ NoFault /\ cr' = objects[Current(s)]
          /\ pc' = [pc EXCEPT ![s] = "notify"]
       \/ /\ Fault /\ cr' \in {cr, objects[Current(s)]}
          /\ pc' = [pc EXCEPT ![s] = "done"]
    /\ UNCHANGED <<scene, rec, cluster, heap, sched, ptr, ev, copy, watch, recon,
                   events, crashes>>

StopNotify(s) ==
    /\ pc[s] = "notify" /\ pc' = [pc EXCEPT ![s] = "done"]
    /\ Notify(s, ev[s])
    /\ UNCHANGED <<scene, store, cluster, heap, sched, ptr, ev, copy, watch,
                   recon, budget>>

-----------------------------------------------------------------------------
(* reconciler.ProcessTests: list the running records, look for the pod,     *)
(* replace the record by the copy that was listed, marked failed.           *)
ReconList ==
    /\ rpc = "idle" /\ rec.status = "running"
    /\ rpc' = "pods" /\ rended' = rec.ended
    /\ UNCHANGED <<scene, store, cluster, heap, sched, stops, watch, events, budget>>

ReconPodsMut ==     \* mutant: an execution without a pod is left alone
    /\ rpc = "pods"
    /\ \/ pod # "failed" /\ NoFault /\ rpc' = "idle"
       \/ pod = "failed" /\ NoFault /\ rpc' = "write"
       \/ Fault /\ rpc' = "idle"
    /\ UNCHANGED <<scene, store, cluster, heap, sched, stops, watch, rended,
                   events, crashes>>

(* A failing List of the pods counts like the absence of pods.              *)
ReconPods ==
    /\ rpc = "pods"
    /\ \/ pod \in {"pending", "running", "succeeded"} /\ NoFault /\ rpc' = "idle"
       \/ pod \notin {"pending", "running", "succeeded"} /\ NoFault /\ rpc' = "write"
       \/ Fault /\ rpc' = "write"
    /\ UNCHANGED <<scene, store, cluster, heap, sched, stops, watch, rended,
                   events, crashes>>

ReconWrite ==
    /\ rpc = "write" /\ rpc' = "idle"
    /\ \/ NoFault /\ rec' = [status |-> "failed", ended |-> rended]
       \/ Fault /\ UNCHANGED rec
    /\ UNCHANGED <<scene, cr, cluster, heap, sched, stops, watch, rended, events,
                   crashes>>

-----------------------------------------------------------------------------
(* Kubernetes, as the code uses it: backoffLimit 0 gives the job one pod.   *)
others == <<scene, store, heap, sched, stops, watch, recon, events, budget>>

PodCreate ==
    /\ job = "active" /\ pod = "none" /\ pod' = "pending"
    /\ UNCHANGED <<others, job, out, deadlineHit, killed>>

PodRun ==
    /\ pod = "pending" /\ pod' = "running"
    /\ UNCHANGED <<others, job, out, deadlineHit, killed>>

(* The logs may hold the runner's result or, when it broke, none.           *)
PodFinish ==
    /\ \/ pod = "running" /\ pod' \in Finished /\ out' \in {"none", "passed", "failed"}
       \/ pod = "pending" /\ pod' = "failed" /\ UNCHANGED out
    /\ UNCHANGED <<others, job, deadlineHit, killed>>

JobFinish ==
    /\ job = "active" /\ pod \in Finished /\ job' = pod
    /\ UNCHANGED <<others, pod, out, deadlineHit, killed>>

JobDeadline ==
    /\ scene.deadline /\ job = "active"
    /\ job' = "deadline" /\ deadlineHit' = TRUE
    /\ pod' = IF pod \in {"pending", "running"} THEN "gone" ELSE pod
    /\ UNCHANGED <<others, out, killed>>

(* ttlSecondsAfterFinished of the job template.                             *)
JobExpire ==
    /\ job \in {"succeeded", "failed", "deadline"} /\ job' = "deleted"
    /\ UNCHANGED <<others, pod, out, deadlineHit, killed>>

PodCollect ==
    /\ job = "deleted" /\ PodExists /\ pod' = "gone"
    /\ UNCHANGED <<others, job, out, deadlineHit, killed>>

-----------------------------------------------------------------------------
(* A restart of the API server loses its goroutines and their memory; the   *)
(* storage and the cluster stay, and the reconciler starts afresh.          *)
Crash ==
    /\ crashes < scene.crashes /\ crashes' = crashes + 1
    /\ spc' = "done" /\ rended' = FALSE
    /\ rpc' = IF rpc = "off" THEN "off" ELSE "idle"
    /\ pc' = [s \in Stoppers |-> IF pc[s] = "request" THEN "request" ELSE "done"]
    /\ NoMemory(objects', cur', sret', serr', scopy', ptr', ev', copy', werr', wret')
    /\ UNCHANGED <<scene, store, cluster, events, faults>>

Sched == \/ SchedReject \/ SchedInsert \/ SchedStart \/ SchedCreateJob
         \/ SchedListPods \/ SchedReturn \/ SchedAssign \/ SchedCopy \/ SchedWrite
Watch == WatchPoll \/ WatchLogs \/ WatchReturn
Stop(s) == \/ StopRead(s) \/ StopEnd(s) \/ StopAssign(s) \/ StopCopy(s)
           \/ StopWrite(s) \/ StopStatus(s) \/ StopNotify(s)
Abort(a) == AbortRequest(a) \/ AbortJob(a)
Recon == ReconList \/ ReconPods \/ ReconWrite
Cluster == \/ PodCreate \/ PodRun \/ PodFinish \/ JobFinish \/ JobDeadline
           \/ JobExpire \/ PodCollect

Next == \/ Sched \/ Watch \/ MonitorTick \/ Recon \/ Cluster \/ Crash
        \/ \E s \in Stoppers : Stop(s)
        \/ \E a \in Aborters : Abort(a)

Spec == Init /\ [][Next]_vars

(* Goroutines that are ready run; the cluster makes progress: pods are      *)
(* created, tests end, the controllers update and delete what is finished.  *)
(* No fairness for the deadline, for restarts and for new abort requests.   *)
Fairness ==
    /\ WF_vars(Sched) /\ WF_vars(Watch) /\ WF_vars(MonitorTick) /\ WF_vars(Recon)
    /\ \A s \in Stoppers : WF_vars(Stop(s))
    /\ \A a \in Aborters : WF_vars(AbortJob(a))
    /\ WF_vars(PodCreate) /\ WF_vars(PodRun) /\ WF_vars(PodFinish)
    /\ WF_vars(JobFinish) /\ WF_vars(JobExpire) /\ WF_vars(PodCollect)

FairSpec == Spec /\ Fairness

-----------------------------------------------------------------------------
PCs == {"off", "request", "kill", "tick", "poll", "logs", "return", "read", "end",
        "assign", "copy", "write", "status", "notify", "done"}

TypeOK ==
    /\ scene \in Scenes
    /\ rec \in [status : Statuses \cup {"none"}, ended : BOOLEAN]
    /\ cr \in Statuses \cup {"none"}
    /\ job \in {"none", "active", "succeeded", "failed", "deadline", "deleted"}
    /\ pod \in {"none", "pending", "running", "succeeded", "failed", "gone"}
    /\ out \in {"none", "passed", "failed"}
    /\ deadlineHit \in BOOLEAN /\ killed \in BOOLEAN
    /\ objects \in [Objects -> Statuses] /\ cur \in {"r0", "rp", "rn"}
    /\ spc \in {"insert", "start", "create", "list", "watching", "assign", "copy",
                "write", "done"}
    /\ sret \in {"r0", "rp", "rn"} /\ serr \in BOOLEAN /\ scopy \in Statuses
    /\ pc \in [Stoppers -> PCs]
    /\ ptr \in [Stoppers -> Objects] /\ ptr["watch"] \in {"r0", "rp", "rn"}
    /\ ev \in [Stoppers -> Kinds] /\ copy \in [Stoppers -> Statuses]
    /\ werr \in BOOLEAN /\ wret \in {"r0", "rp", "rn"}
    /\ rpc \in {"off", "idle", "pods", "write"} /\ rended \in BOOLEAN
    /\ events \subseteq [by : Stoppers \cup {"sched"}, kind : Kinds]
    /\ faults \in Nat /\ crashes \in Nat

(* A test that is not negative is recorded as passed, in the record or in   *)
(* the Test's status, only when the runner's own result in the pod's logs   *)
(* said passed: no fault, race, abort or restart turns into a pass.         *)
NoFalsePass ==
    ~scene.negative /\ "passed" \in {rec.status, cr} => out = "passed"

(* A record that says aborted was aborted: a request deleted the job.  One  *)
(* that says timeout timed out: Kubernetes enforced the deadline.           *)
CancelJustified ==
    /\ "aborted" \in {rec.status, cr} => killed
    /\ "timeout" \in {rec.status, cr} => deadlineHit

(* Both: a passed, aborted or timeout status has its reason in the pod.     *)
StatusJustified == NoFalsePass /\ CancelJustified

(* In a synchronous run (a step of a suite) that nobody aborts and no       *)
(* reconciler looks at, the event the watcher published, the record and the *)
(* Test's status say the same, whatever failed, whenever the server stopped.*)
KindOf(st) == IF st = "passed" THEN "success" ELSE st
Published(actor, kind) == [by |-> actor, kind |-> kind] \in events
ReportsAgree ==
    scene.sync /\ ~scene.aborts /\ rpc = "off" => \A k \in Kinds :
                Published("watch", k) => KindOf(rec.status) = k /\ cr = rec.status

(* Nobody who looked at the record before it changed is still to write it.  *)
NoPendingWriter ==
    /\ spc = "done" /\ rpc \in {"off", "idle"}
    /\ \A s \in Stoppers : pc[s] \notin {"end", "assign", "copy", "write"}
Settled(st) == rec.status = st /\ NoPendingWriter

(* An abort or a timeout that was stored is not undone by the watcher that  *)
(* later sees its pod disappear, by the monitor, or by another abort: only  *)
(* an actor that had read the record before can still overwrite it.         *)
CancelIsFinal ==
    [][\A st \in {"aborted", "timeout"} : Settled(st) => Settled(st)']_vars

(* Where the reconciler runs, a stored record ends in a final status and    *)
(* stays there, whoever crashed on the way and whatever call failed.        *)
EventuallyFinal ==
    (rec.status # "none" /\ rpc # "off") ~> [](rec.status \in Final)

(* job.go: the deferred stopExecution of the watcher is there to            *)
(* "save stop time and final state": what it stores is a final status.      *)
SavesFinalState == pc["watch"] \in {"status", "notify"} => copy["watch"] \in Final

=============================================================================
