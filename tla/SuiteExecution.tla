--------------------------- MODULE SuiteExecution ---------------------------
(* One execution of a test suite: the runner goroutine that goes through    *)
(* the batches, its subscription to the internal events, the timeout check, *)
(* the delays with their own subscriptions, the abort requests, the stored  *)
(* suite record and the reconciler.  A batch holds a test, a delay, a step  *)
(* of neither type, or several of them; a test's execution (module          *)
(* TestExecution) is one step that starts and one that ends it.             *)
EXTENDS Naturals, Sequences, FiniteSets

CONSTANTS
    N,              \* number of batches
    Aborters,       \* abort requests that reach the API
    Scenes          \* what a suite is and meets: the kinds of its batches and
                    \* their StopOnFailure, whether aborts of the suite or of
                    \* its tests arrive, it has a timeout, the reconciler
                    \* runs, and the bounds on failed calls to the storage
                    \* and on restarts

ASSUME BatchAssumption == N \in Nat \ {0}
ASSUME ScenesAssumption ==
    Scenes \subseteq [kinds : SUBSET SUBSET {"test", "delay", "untyped"},
                      stops : SUBSET BOOLEAN, aborts : SUBSET {"suite", "test"},
                      timeout : BOOLEAN, reconciler : BOOLEAN,
                      faults : Nat, crashes : Nat]

Batches == 1..N

VARIABLES
    scene,              \* what this suite meets
    kind, stopOn,       \* per batch: what it holds, Step.StopOnFailure
    mem,                \* the runner's TestSuiteExecution
    rec, cr,            \* the stored record; the status of the TestSuite resource
    exec,               \* per batch: the stored record of the test's execution
    val,                \* per batch: what executeTest returned
    rpc, idx,           \* runner: pc and batch
    failed, cancel, abortion, \* runner: hasFailedSteps, cancelSteps, abortionStatus
    sub, inbox, sending,\* runSteps' subscription: state, messages, blocked callback
    dsubs, dsend,       \* delay subscriptions alive; those whose callback is blocked
    dpc,                \* delayWithAbortionCheck of the current batch
    timer,              \* timeoutCheck
    asked,              \* abort requests that were accepted
    events,             \* end events published
    kpc, kidx, kcopy, kstatus, \* reconciler: pc, step, listed copy, computed status
    late,               \* history: tests aborted since the reconciler looked at them
    faults, crashes

suite   == <<scene, kind, stopOn>>
store   == <<rec, cr>>
tests   == <<exec, val>>
runner  == <<mem, rpc, idx, failed, cancel, abortion>>
bus     == <<sub, inbox, sending>>
delays  == <<dsubs, dsend, dpc>>
outside == <<timer, asked>>
recon   == <<kpc, kidx, kcopy, kstatus, late>>
budget  == <<faults, crashes>>
vars == <<suite, store, tests, runner, bus, delays, outside, events, recon, budget>>

HasTest(b)  == "test" \in kind[b]
HasDelay(b) == "delay" \in kind[b]
Untyped(b)  == "untyped" \in kind[b]

StepStatuses == {"queued", "running", "passed", "failed", "aborted", "timeout"}
Final   == {"passed", "failed", "aborted", "timeout"}
Record  == [status : Final \cup {"none", "running", "aborting"},
            test : [Batches -> StepStatuses], delay : [Batches -> StepStatuses],
            ended : BOOLEAN]

Fault   == faults < scene.faults /\ faults' = faults + 1
NoFault == faults' = faults

Queued == [b \in Batches |-> "queued"]
Empty  == [status |-> "none", test |-> Queued, delay |-> Queued, ended |-> FALSE]
Started == [Empty EXCEPT !.status = "running"]

(* What is in the memory of the API server before the suite is executed.    *)
NoMemory(m, i, f, c, ab, sb, ib, sd, ds, dn, dp, tm) ==
    /\ m = Started /\ i = 1 /\ f = FALSE /\ c = FALSE /\ ab = "none"
    /\ sb = "none" /\ ib = <<>> /\ sd = "none"
    /\ ds = {} /\ dn = {} /\ dp = "off" /\ tm = "off"

Init ==
    /\ scene \in Scenes
    /\ kind \in [Batches -> scene.kinds] /\ stopOn \in [Batches -> scene.stops]
    /\ rec = Empty /\ cr = "none"
    /\ exec = [b \in Batches |-> "none"] /\ val = [b \in Batches |-> "none"]
    /\ NoMemory(mem, idx, failed, cancel, abortion, sub, inbox, sending,
                dsubs, dsend, dpc, timer)
    /\ rpc = "insert" /\ asked = {} /\ events = {}
    /\ kpc = "idle" /\ kidx = 1 /\ kcopy = Empty /\ kstatus = "passed" /\ late = {}
    /\ faults = 0 /\ crashes = 0

-----------------------------------------------------------------------------
(* The repository replaces the whole record and creates none.               *)
Update(m) == rec' = IF rec.status = "none" THEN rec ELSE m

Notify(k) == events' = events \cup {k}

(* An event of this suite on the internal topic reaches the subscription of *)
(* runSteps and, of all delay subscriptions (one queue group), any one; a   *)
(* delay only reacts to aborts.  Nobody keeps it for later subscribers.     *)
Publish(k) ==
    /\ inbox' = IF sub = "live" THEN Append(inbox, k) ELSE inbox
    /\ IF k = "aborted" /\ dsubs # {}
       THEN \E b \in dsubs : dsend' = dsend \cup {b}
       ELSE dsend' = dsend

-----------------------------------------------------------------------------
(* Scheduler.executeTestSuite: an Insert that fails is only logged.         *)
SuiteInsert ==
    /\ rpc = "insert" /\ rpc' = "subscribe" /\ timer' = "started"
    /\ \/ rec' = mem /\ NoFault
       \/ UNCHANGED rec /\ Fault
    /\ UNCHANGED <<suite, cr, tests, mem, idx, failed, cancel, abortion, bus,
                   delays, asked, events, recon, crashes>>

(* Scheduler.runSteps.                                                      *)
Subscribe ==
    /\ rpc = "subscribe" /\ rpc' = "batch" /\ sub' = "live"
    /\ UNCHANGED <<suite, store, tests, mem, idx, failed, cancel, abortion,
                   inbox, sending, delays, outside, events, recon, budget>>

(* The status channel is looked at without waiting, once per batch.         *)
Received == IF sending = "none" THEN abortion ELSE sending
(* Mutant: the runner forgets stopOnFailure.                                *)
MustCancelMut == sending # "none"

MustCancel == cancel \/ sending # "none"

(* Mutant: the suite is not marked aborting.                                *)
BatchCancelMut ==
    /\ rpc = "batch" /\ idx <= N /\ MustCancel
    /\ abortion' = Received /\ cancel' = TRUE /\ sending' = "none"
    /\ mem' = [mem EXCEPT !.test[idx] = "aborted",
                          !.delay[idx] = "aborted"]
    /\ idx' = idx + 1
    /\ UNCHANGED <<suite, store, tests, rpc, failed, sub, inbox, delays, outside,
                   events, recon, budget>>

BatchCancel ==
    /\ rpc = "batch" /\ idx <= N /\ MustCancel
    /\ abortion' = Received /\ cancel' = TRUE /\ sending' = "none"
    /\ mem' = [mem EXCEPT !.status = "aborting", !.test[idx] = "aborted",
                          !.delay[idx] = "aborted"]
    /\ idx' = idx + 1
    /\ UNCHANGED <<suite, store, tests, rpc, failed, sub, inbox, delays, outside,
                   events, recon, budget>>

BatchStart ==
    /\ rpc = "batch" /\ idx <= N /\ ~MustCancel /\ rpc' = "exec"
    /\ mem' = [mem EXCEPT !.test[idx] = "running", !.delay[idx] = "running"]
    /\ \/ Update(mem') /\ NoFault
       \/ UNCHANGED rec /\ Fault
    /\ val' = [val EXCEPT ![idx] = IF HasTest(idx) THEN "pending" ELSE "none"]
    /\ dpc' = IF HasDelay(idx) THEN "subscribe" ELSE "off"
    /\ UNCHANGED <<suite, cr, exec, idx, failed, cancel, abortion, bus, dsubs,
                   dsend, outside, events, recon, crashes>>

-----------------------------------------------------------------------------
(* Scheduler.executeTest of the current batch, run by the worker pool.  It  *)
(* returns an error under the step's id, or under another id when the name  *)
(* of the execution is taken ("lost"), or the result of the execution; a    *)
(* pod found running leaves it running.  The stored result may become       *)
(* aborted by a request for the test that came too late for the scheduler.  *)
(* A step of no type is given an error instead (StepFailed).                *)
TestStart ==
    /\ rpc = "exec" /\ val[idx] = "pending"
    /\ \/ /\ exec' = [exec EXCEPT ![idx] = "running"]
          /\ val' = [val EXCEPT ![idx] = "executing"]
       \/ /\ \E v \in {"failed", "lost"} : val' = [val EXCEPT ![idx] = v]
          /\ UNCHANGED exec
    /\ UNCHANGED <<suite, store, runner, bus, delays, outside, events, recon, budget>>

TestEnd ==
    /\ rpc = "exec" /\ val[idx] = "executing"
    /\ \E v \in {"passed", "failed", "running"} : \E e \in {v, "aborted"} :
          /\ val' = [val EXCEPT ![idx] = v]
          /\ exec' = [exec EXCEPT ![idx] = e]
    /\ UNCHANGED <<suite, store, runner, bus, delays, outside, events, recon, budget>>

(* An execution nobody watches is marked failed by the tests' reconciler.   *)
Unwatched(b) == exec[b] = "running" /\ val[b] # "executing"
TestReconciled(b) ==
    /\ scene.reconciler /\ Unwatched(b) /\ exec' = [exec EXCEPT ![b] = "failed"]
    /\ UNCHANGED <<suite, store, val, runner, bus, delays, outside, events,
                   recon, budget>>

(* JobExecutor.Abort of a test's execution, which rewrites the stored result *)
(* of one that has ended too, unless it was aborted already; failed is what  *)
(* it stores when the job is gone.                                           *)
TestAborted(b) ==
    /\ "test" \in scene.aborts /\ exec[b] \in {"running", "passed", "failed"}
    /\ \E e \in {"aborted", "failed"} : exec' = [exec EXCEPT ![b] = e]
    /\ late' = IF kpc = "look" /\ b < kidx THEN late \cup {b} ELSE late
    /\ UNCHANGED <<suite, store, val, runner, bus, delays, outside, events,
                   kpc, kidx, kcopy, kstatus, budget>>

-----------------------------------------------------------------------------
(* Scheduler.delayWithAbortionCheck: it never unsubscribes.                 *)
DelaySubscribe ==
    /\ rpc = "exec" /\ dpc = "subscribe" /\ dpc' = "wait"
    /\ dsubs' = dsubs \cup {idx}
    /\ UNCHANGED <<suite, store, tests, runner, bus, dsend, outside, events,
                   recon, budget>>

DelayFinished ==
    /\ rpc = "exec" /\ dpc = "wait" /\ dpc' = "off"
    /\ mem' = [mem EXCEPT !.delay[idx] = "passed"]
    /\ UNCHANGED <<suite, store, tests, rpc, idx, failed, cancel, abortion, bus,
                   dsubs, dsend, outside, events, recon, budget>>

DelayAborted ==
    /\ rpc = "exec" /\ dpc = "wait" /\ idx \in dsend /\ dpc' = "off"
    /\ dsend' = dsend \ {idx}
    /\ mem' = [mem EXCEPT !.delay[idx] = "aborted"]
    /\ UNCHANGED <<suite, store, tests, rpc, idx, failed, cancel, abortion, bus,
                   dsubs, outside, events, recon, budget>>

-----------------------------------------------------------------------------
Returned == {"none", "passed", "failed", "running", "lost"}
StepFailed(m, b) == \/ Untyped(b)
                    \/ HasTest(b) /\ m.test[b] = "failed"
                    \/ HasDelay(b) /\ m.delay[b] = "failed"

(* Mutant: each batch forgets the failures of the batches before it.        *)
BatchEndMut ==
    /\ rpc = "exec" /\ dpc = "off" /\ val[idx] \in Returned
    /\ mem' = IF val[idx] \in {"none", "lost"} THEN mem
              ELSE [mem EXCEPT !.test[idx] = val[idx]]
    /\ rpc' = "batch" /\ idx' = idx + 1
    /\ \/ /\ Update(mem') /\ NoFault
          /\ failed' = StepFailed(mem', idx)
          /\ cancel' = (cancel \/ (StepFailed(mem', idx) /\ stopOn[idx]))
       \/ UNCHANGED <<rec, cancel>> /\ Fault /\ failed' = TRUE
    /\ UNCHANGED <<suite, cr, tests, abortion, bus, delays, outside, events,
                   recon, crashes>>

(* The rest of executeTestStep and of the loop body: responses are matched  *)
(* with steps by execution id, the record is saved, failures are counted;   *)
(* a failed save counts as a failure and skips StopOnFailure.               *)
BatchEnd ==
    /\ rpc = "exec" /\ dpc = "off" /\ val[idx] \in Returned
    /\ mem' = IF val[idx] \in {"none", "lost"} THEN mem
              ELSE [mem EXCEPT !.test[idx] = val[idx]]
    /\ rpc' = "batch" /\ idx' = idx + 1
    /\ \/ /\ Update(mem') /\ NoFault
          /\ failed' = (failed \/ StepFailed(mem', idx))
          /\ cancel' = (cancel \/ (StepFailed(mem', idx) /\ stopOn[idx]))
       \/ UNCHANGED <<rec, cancel>> /\ Fault /\ failed' = TRUE
    /\ UNCHANGED <<suite, cr, tests, abortion, bus, delays, outside, events,
                   recon, crashes>>

(* Mutant: the aborting status is never turned into aborted.                *)
VerdictMut == IF mem.status = "aborting"
           THEN IF abortion = "timeout" THEN "timeout" ELSE mem.status
           ELSE IF failed THEN "failed" ELSE "passed"

(* The verdict.  The event is published before the record is saved.         *)
Verdict == IF mem.status = "aborting"
           THEN IF abortion = "timeout" THEN "timeout" ELSE "aborted"
           ELSE IF failed THEN "failed" ELSE "passed"

(* Mutant: a timed out suite is saved as aborted.                           *)
RunnerVerdictMut ==
    /\ rpc = "batch" /\ idx = N + 1 /\ rpc' = "save"
    /\ Notify(Verdict) /\ mem' = [mem EXCEPT !.status = IF Verdict = "timeout" THEN "aborted"
                                             ELSE Verdict]
    /\ UNCHANGED <<suite, store, tests, idx, failed, cancel, abortion, bus,
                   delays, outside, recon, budget>>

RunnerVerdict ==
    /\ rpc = "batch" /\ idx = N + 1 /\ rpc' = "save"
    /\ Notify(Verdict) /\ mem' = [mem EXCEPT !.status = Verdict]
    /\ UNCHANGED <<suite, store, tests, idx, failed, cancel, abortion, bus,
                   delays, outside, recon, budget>>

(* Mutant: the runner waits until the subscription is drained.              *)
RunnerSaveMut ==
    /\ rpc = "save" /\ sending = "none" /\ inbox = <<>> /\ rpc' = "after"
    /\ \/ Update(mem) /\ NoFault
       \/ UNCHANGED rec /\ Fault
    /\ sub' = "drained"
    /\ UNCHANGED <<suite, cr, tests, mem, idx, failed, cancel, abortion, inbox,
                   sending, delays, outside, events, recon, crashes>>

RunnerSave ==
    /\ rpc = "save" /\ rpc' = "after"
    /\ \/ Update(mem) /\ NoFault
       \/ UNCHANGED rec /\ Fault
    /\ sub' = "drained"
    /\ UNCHANGED <<suite, cr, tests, mem, idx, failed, cancel, abortion, inbox,
                   sending, delays, outside, events, recon, crashes>>

(* runAfterEachStep: EndExecution, then the status of the resource.         *)
RunnerAfter ==
    /\ rpc = "after" /\ rpc' = "status"
    /\ mem' = [mem EXCEPT !.ended = TRUE]
    /\ \/ NoFault /\ rec' = IF rec.status = "none" THEN rec
                            ELSE [rec EXCEPT !.ended = TRUE]
       \/ UNCHANGED rec /\ Fault
    /\ UNCHANGED <<suite, cr, tests, idx, failed, cancel, abortion, bus, delays,
                   outside, events, recon, crashes>>

RunnerStatus ==
    /\ rpc = "status" /\ rpc' = "done"
    /\ \/ cr' = mem.status /\ NoFault
       \/ UNCHANGED cr /\ Fault
    /\ UNCHANGED <<suite, rec, tests, mem, idx, failed, cancel, abortion, bus,
                   delays, outside, events, recon, crashes>>

-----------------------------------------------------------------------------
(* Mutant: a timeout is taken for an abort.                                 *)
CallbackMut ==
    /\ sending = "none" /\ inbox # <<>>
    /\ sending' = "aborting"
    /\ inbox' = Tail(inbox)
    /\ UNCHANGED <<suite, store, tests, runner, sub, delays, outside, events,
                   recon, budget>>

(* The callback of the subscription blocks on the unbuffered channel until  *)
(* the runner looks; once the runner is done it blocks for ever.            *)
Callback ==
    /\ sending = "none" /\ inbox # <<>>
    /\ sending' = IF Head(inbox) = "timeout" THEN "timeout" ELSE "aborting"
    /\ inbox' = Tail(inbox)
    /\ UNCHANGED <<suite, store, tests, runner, sub, delays, outside, events,
                   recon, budget>>

(* timeoutCheck looks at the status once; then it waits for its timer only. *)
TimeoutArm ==
    /\ timer = "started"
    /\ timer' = IF mem.status = "running" THEN "armed" ELSE "done"
    /\ UNCHANGED <<suite, store, tests, runner, bus, delays, asked, events,
                   recon, budget>>

TimeoutFire ==
    /\ scene.timeout /\ timer = "armed" /\ timer' = "fired"
    /\ Publish("timeout")
    /\ UNCHANGED <<suite, store, tests, runner, sub, sending, dsubs, dpc, asked,
                   events, recon, budget>>

(* AbortTestSuiteExecutionHandler.                                          *)
AbortRequest(a) ==
    /\ "suite" \in scene.aborts /\ a \notin asked /\ rec.status # "none" /\ asked' = asked \cup {a}
    /\ Publish("aborted")
    /\ UNCHANGED <<suite, store, tests, runner, sub, sending, dsubs, dpc, timer,
                   events, recon, budget>>

-----------------------------------------------------------------------------
(* reconciler.ProcessTestSuites: list the running suites, look up the       *)
(* executions of their test steps one by one, replace the record.  Steps    *)
(* without a stored execution and delays are passed over.                   *)
SuiteList ==
    /\ scene.reconciler /\ kpc = "idle" /\ rec.status = "running"
    /\ kpc' = "look" /\ kcopy' = rec /\ kidx' = 1 /\ kstatus' = "passed"
    /\ UNCHANGED <<suite, store, tests, runner, bus, delays, outside, events, late,
                   budget>>

SuiteDone == /\ kpc' = "idle" /\ kidx' = 1 /\ kcopy' = Empty /\ kstatus' = "passed"
             /\ late' = {}

(* Mutant: a test that passed hides the failure of an earlier one.          *)
SuiteLookMut ==
    /\ kpc = "look" /\ kidx <= N /\ NoFault
    /\ LET e == IF HasTest(kidx) THEN exec[kidx] ELSE "none" IN
       IF e = "running" THEN SuiteDone
       ELSE /\ kstatus' = IF e \in {"failed", "aborted"} THEN e ELSE "passed"
            /\ kidx' = IF e = "aborted" THEN N + 1 ELSE kidx + 1
            /\ UNCHANGED <<kpc, kcopy, late>>
    /\ UNCHANGED <<suite, store, tests, runner, bus, delays, outside, events,
                   crashes>>

SuiteLook ==
    /\ kpc = "look" /\ kidx <= N /\ NoFault
    /\ LET e == IF HasTest(kidx) THEN exec[kidx] ELSE "none" IN
       IF e = "running" THEN SuiteDone
       ELSE /\ kstatus' = IF e \in {"failed", "aborted"} THEN e ELSE kstatus
            /\ kidx' = IF e = "aborted" THEN N + 1 ELSE kidx + 1
            /\ UNCHANGED <<kpc, kcopy, late>>
    /\ UNCHANGED <<suite, store, tests, runner, bus, delays, outside, events,
                   crashes>>

SuiteLookFails ==
    /\ kpc = "look" /\ kidx <= N /\ Fault /\ SuiteDone
    /\ UNCHANGED <<suite, store, tests, runner, bus, delays, outside, events,
                   crashes>>

(* Mutant: the computed status is not put on the record.                    *)
SuiteWriteMut ==
    /\ kpc = "look" /\ kidx = N + 1 /\ SuiteDone
    /\ LET mark(s) == [b \in Batches |-> IF s[b] = "running" THEN kstatus ELSE s[b]]
       IN \/ NoFault /\ rec' = [kcopy EXCEPT !.test = mark(@),
                                             !.delay = mark(@)]
          \/ Fault /\ UNCHANGED rec
    /\ UNCHANGED <<suite, cr, tests, runner, bus, delays, outside, events, crashes>>

SuiteWrite ==
    /\ kpc = "look" /\ kidx = N + 1 /\ SuiteDone
    /\ LET mark(s) == [b \in Batches |-> IF s[b] = "running" THEN kstatus ELSE s[b]]
       IN \/ NoFault /\ rec' = [kcopy EXCEPT !.status = kstatus, !.test = mark(@),
                                             !.delay = mark(@)]
          \/ Fault /\ UNCHANGED rec
    /\ UNCHANGED <<suite, cr, tests, runner, bus, delays, outside, events, crashes>>

-----------------------------------------------------------------------------
(* A restart of the API server; the executing test is no longer watched.    *)
Crash ==
    /\ crashes < scene.crashes /\ crashes' = crashes + 1
    /\ rpc' = "done" /\ SuiteDone
    /\ NoMemory(mem', idx', failed', cancel', abortion', sub', inbox', sending',
                dsubs', dsend', dpc', timer')
    /\ val' = [b \in Batches |-> IF val[b] \in {"pending", "executing"} THEN "gone"
                                 ELSE val[b]]
    /\ UNCHANGED <<suite, store, exec, asked, events, faults>>

Runner == \/ SuiteInsert \/ Subscribe \/ BatchCancel \/ BatchStart \/ BatchEnd
          \/ RunnerVerdict \/ RunnerSave \/ RunnerAfter \/ RunnerStatus
Test == TestStart \/ TestEnd
Delay == DelaySubscribe \/ DelayFinished \/ DelayAborted
Recon == SuiteList \/ SuiteLook \/ SuiteLookFails \/ SuiteWrite

Next == \/ Runner \/ Test \/ Delay \/ Callback \/ TimeoutArm \/ TimeoutFire
        \/ Recon \/ Crash
        \/ \E a \in Aborters : AbortRequest(a)
        \/ \E b \in Batches : TestReconciled(b) \/ TestAborted(b)

Spec == Init /\ [][Next]_vars

(* Goroutines run when they can, tests and delays end, timers fire.         *)
Fairness ==
    /\ WF_vars(Runner) /\ WF_vars(Test) /\ WF_vars(Delay) /\ WF_vars(Callback)
    /\ WF_vars(TimeoutArm) /\ WF_vars(TimeoutFire) /\ WF_vars(Recon)
    /\ \A b \in Batches : WF_vars(TestReconciled(b))
FairSpec == Spec /\ Fairness

-----------------------------------------------------------------------------
(* Every variable keeps its type; a suite that ends has one of the final    *)
(* statuses.                                                                *)
TypeOK ==
    /\ scene \in Scenes
    /\ kind \in [Batches -> scene.kinds] /\ stopOn \in [Batches -> BOOLEAN]
    /\ mem \in Record /\ rec \in Record /\ kcopy \in Record
    /\ cr \in Final \cup {"none"}
    /\ exec \in [Batches -> {"none", "running", "passed", "failed", "aborted"}]
    /\ val \in [Batches -> {"none", "pending", "executing", "passed", "failed",
                            "running", "lost", "gone"}]
    /\ rpc \in {"insert", "subscribe", "batch", "exec", "save", "after", "status", "done"}
    /\ idx \in 1..(N + 1) /\ kidx \in 1..(N + 1)
    /\ failed \in BOOLEAN /\ cancel \in BOOLEAN
    /\ abortion \in {"none", "aborting", "timeout"}
    /\ sub \in {"none", "live", "drained"}
    /\ inbox \in Seq({"aborted", "timeout"})
    /\ sending \in {"none", "aborting", "timeout"}
    /\ dsubs \subseteq Batches /\ dsend \subseteq Batches
    /\ dpc \in {"off", "subscribe", "wait"}
    /\ timer \in {"off", "started", "armed", "fired", "done"}
    /\ asked \subseteq Aborters /\ events \subseteq Final
    /\ kpc \in {"idle", "look"} /\ kstatus \in Final /\ late \subseteq Batches
    /\ faults \in 0..scene.faults /\ crashes \in 0..scene.crashes

(* What makes a batch a failed one: its test, or a step of no type in it.   *)
Failing(b) == val[b] = "failed" \/ Untyped(b)

(* A suite is announced as passed only when every one of its tests was      *)
(* started, none returned failed and every step has a type, and as failed   *)
(* only when a batch failed or a save did (the end of runSteps).            *)
VerdictJustified ==
    /\ "passed" \in events =>
          \A b \in Batches : /\ HasTest(b) => val[b] \in {"passed", "running", "lost"}
                              /\ ~Untyped(b)
    /\ "failed" \in events => (\E b \in Batches : Failing(b)) \/ faults > 0

(* A suite is announced as timed out only after its timeout, as aborted     *)
(* only on request or because a step with stopOnFailure failed, although    *)
(* both messages, the timer and the failure reach the runner in any order.  *)
CancelJustified ==
    /\ "timeout" \in events => timer = "fired" \/ crashes > 0
    /\ "aborted" \in events =>
          asked # {} \/ \E b \in Batches : stopOn[b] /\ Failing(b)

(* After a batch with stopOnFailure failed, no test of a later batch is ever *)
(* executed, unless the save of the failure failed too.                     *)
StopsOnFailure ==
    \A b, c \in Batches :
        b < c /\ stopOn[b] /\ Failing(b) => exec[c] = "none" \/ faults > 0

(* When the runner is done, no call failed and no reconciler interfered, the *)
(* stored record, the resource and the event tell one and the same end      *)
(* (runSteps and runAfterEachStep).                                         *)
EndReported ==
    rpc = "done" /\ faults = 0 /\ crashes = 0 /\ ~scene.reconciler =>
        rec.ended /\ events = {rec.status} /\ cr = rec.status

(* Whatever arrives on the channels, a suite ends.                          *)
SuiteEnds == <>(rpc = "done")

(* A message that reached the status channel while batches are left ends    *)
(* the suite as aborted or timed out, unless a save failed.                 *)
CancelHeeded ==
    (rpc = "batch" /\ idx <= N /\ sending # "none") ~>
        (rec.status \in {"aborted", "timeout"} \/ faults > 0)

(* Where the reconciler runs, no suite is left running, not by a restart    *)
(* either.                                                                  *)
EventuallyFinal ==
    (scene.reconciler /\ rec.status = "running") ~> (rec.status \in Final)

(* A suite that lost its runner in a restart is not marked passed by the    *)
(* reconciler while the stored execution of one of its tests failed, was    *)
(* aborted or runs, except by an abort that came after the look at it.      *)
AbandonedVerdict ==
    [][crashes > 0 /\ rec'.status # rec.status /\ rec'.status = "passed"
       => \A b \in Batches : HasTest(b) => exec[b] \in {"none", "passed"} \/ b \in late]_vars

(* reconciler.go: "test execution was abnormally terminated" is what the    *)
(* reconciler says of a suite it ends, so the suite has no live runner.     *)
OnlyAbandoned ==
    [][kpc = "look" /\ kpc' = "idle" /\ rec' # rec => rpc = "done"]_vars
=============================================================================
