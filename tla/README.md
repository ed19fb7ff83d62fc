# Testkube in TLA+

Testkube runs tests in a Kubernetes cluster: an API server takes requests,
starts a job per test execution, follows its pod, and stores and announces the
result; suites run tests batch by batch; triggers start tests when something in
the cluster changes.  The code is Go, and nearly all of what is hard about it is
concurrency: goroutines that share records by pointer or through MongoDB, several
instances of the server, and a cluster that acts on its own.

This directory specifies the parts where that matters, checks them with TLC on
small instances and proves the main safety properties with TLAPS.  Paths below are
those of the repository; `PROJECT.json` maps every definition to its lines.

## 1. Inventory

### 1.1 Components

| Component | State it keeps | Operations | Talks to | Hard behaviour | Correct when |
|---|---|---|---|---|---|
| Test scheduler (`pkg/scheduler/test_scheduler.go`) | an `Execution` it shares by pointer with the executor | `executeTest`: number, name check, insert, start, execute, store | numbers, results, executor, emitter | goes on writing after it started the goroutine that writes too | a stored result is one that somebody obtained; names are unique |
| Job executor (`pkg/executor/client/job.go`) | Kubernetes job and pod, `ExecutionResult` | `Execute`, the watcher `updateResultsFromPod`, `MonitorJobForTimeout`, `Abort`, `stopExecution` | Kubernetes, results, Test resource, emitter | four actors end one execution through three separate writes | status, resource and event agree; an abort or timeout stays; every execution ends |
| Container executor (`pkg/executor/containerexecutor`) | the same and a scraper job | the same, without monitor | the same | ends with the arguments of its start | the same |
| Output parser (`pkg/executor/output/parser.go`) | none | deciding line of the logs | executors | log lines that are no result | passed only when the runner said so |
| Suite scheduler (`pkg/scheduler/testsuite_scheduler.go`) | a `TestSuiteExecution`, a subscription, an unbuffered channel | `runSteps`, `timeoutCheck`, `delayWithAbortionCheck`, `runAfterEachStep` | pool, bus, suite results, emitter | abort, timeout and batches in any order; callbacks that block | the verdict follows from the steps; the suite ends; cancels are heeded |
| Worker pool (`pkg/workerpool/service.go`) | two channels, workers | `SendRequests`, `Run`, `GetResponses` | callers in the API, suites, triggers | closing, cancellation, full channels | one answer per request; the caller is never left waiting |
| Reconciler (`pkg/reconciler/reconciler.go`) | none, polls | `ProcessTests`, `ProcessTestSuites` | results, suite results, Kubernetes | acts on a list that is stale when it writes | finishes what was abandoned, and only that |
| Results and suite results (`pkg/repository/result`, `testresult`) | documents, outputs | insert, replace, set fields, query | MongoDB, minio | no transactions | - |
| Execution numbers (`pkg/repository/result/mongo_numbers.go`) | a document per test | `GetNextExecutionNumber`, deletions | MongoDB | concurrent callers, lost answers, missing document | numbers are unique |
| Event emitter, loader, bus (`pkg/event`) | listeners, subscriptions | `Notify`, `UpdateListeners`, `SubscribeTopic`, `Unsubscribe` | NATS, listeners | lists shared without lock, subscriptions overwritten | every registered listener hears of every event once |
| Event listeners (`pkg/event/kind`) | websocket connections | `Notify` | the outside | connections come and go while events are written | - |
| Trigger lease and watcher (`pkg/triggers/lease*.go`, `watcher.go`) | one document; per instance checker, watcher, informers | `TryAcquire`, `runLeaseChecker`, `runWatcher` | MongoDB, Kubernetes | read, judge, write by several instances | a loser stops; somebody watches |
| Trigger matcher, executor, status, scraper (`pkg/triggers`) | map of trigger statuses with running ids | `match`, `execute`, `abortExecutions`, scraper | pool, executor, results | policies judged and acted upon in two steps | Forbid runs one at a time, Replace leaves none behind |
| Cloud agent (`pkg/agent`) | buffers between stream and workers | command, event and log loops | gRPC stream, API handler | full buffers, timeouts, reconnect | one response per command; reconnects |
| API handlers (`internal/app/api/v1`) | none | execute, abort, query | all of the above | - | - |
| CLI, runners, mappers, CRD clients, storage, cloud clients, telemetry, GraphQL, migrations, generated types | none that outlives a call | - | - | - | - |

### 1.2 Interactions

1. An API handler, a suite's batch or a trigger builds requests and reads the
   responses of a **worker pool** whose workers call the **test scheduler**.
2. The scheduler takes a number, checks the name, inserts the record and calls the
   **executor**.  For a synchronous execution the executor watches the pod in the
   caller's goroutine; otherwise it starts two goroutines and returns "running".
3. Watcher, timeout monitor and abort requests all end an execution through
   `stopExecution`: read the saved status, store the end time, store the result,
   set the status of the Test resource, publish the event.
4. A **suite** runs in one goroutine.  Aborts and timeouts reach it over the **bus**;
   its subscription hands them over on an unbuffered channel.
5. The **reconciler** polls the stored executions and suites that say "running".
6. The **trigger** service of the instance that holds the lease watches the cluster.

## 2. Plan

| # | Module | Content | State |
|---|---|---|---|
| 1 | `TestExecution` | one execution: scheduler, job executor, reconciler, cluster | checked, safety proved |
| 2 | `SuiteExecution` | one suite: runner, bus, delays, timeout, aborts, reconciler | checked, safety proved |
| 3 | `WorkerPool`, `Pool` | the pool and the promise it implements | checked, refinement proved |
| 4 | `TriggerLease` | lease and watch of several instances | checked, safety proved |
| 5 | `ExecutionNumbers` | numbers and names of concurrent executions, deletion | checked, uniqueness proved |
| 6 | `ContainerExecution`, `RunnerOutput` | the other executor, its deferred end, the scraper job, the informer; the deciding line of the logs | checked, safety proved |
| 7 | `Triggers` | matching, policies, running ids, scraper, change of leader | checked, safety proved |
| 8 | `Emitter` | listeners, rounds of the reconciler, subscriptions by queue | checked, safety proved |
| 9 | `Agent` | buffers, workers, reconnect | checked, safety proved |
| 10 | loss of a worker pool's answer in the suite | status of an empty response | later |

Composition.  `ContainerExecution` uses `RunnerOutput` for what logs decide.
`WorkerPool` implements `Pool`, which is what `SuiteExecution` and `Triggers` take for
granted of the requests they send (each executed once, each answered once).
`SuiteExecution` holds a test's execution as a step that starts and one that ends it; the
interface (what `executeTest` may return and what may be stored meanwhile) is that of
`TestExecution`.  `Triggers` lets the lease come and go as `TriggerLease` allows.  A
product of these modules is beyond TLC: each alone has up to a million states.

## 3. Modules

### TestExecution

One execution from `Scheduler.executeTest` to its last write.  Objects that the Go
code shares stay shared: `objects` is the heap of `ExecutionResult` values and `cur`
the pointer `execution.ExecutionResult` of the execution that the scheduler and the
watcher hold together.  A call that takes a copy (`UpdateResult` copies with
`GetDeepCopy`) is two steps, the copy and the write.

* scheduler: `SchedInsert`, `SchedStart`, `SchedCreateJob`, `SchedListPods`,
  `SchedReturn`, `SchedAssign`, `SchedCopy`, `SchedWrite` are the statements of
  `executeTest` and `JobExecutor.Execute` that read or write what others see.
* watcher: `WatchPoll`, `WatchLogs`, `WatchReturn` (`updateResultsFromPod`).
* monitor: `MonitorTick`; abort requests: `AbortRequest`, `AbortJob`.
* all three end with `StopRead` ... `StopNotify`, the calls of `stopExecution`.
* reconciler: `ReconList`, `ReconPods`, `ReconWrite`.
* environment: job and pod (`PodCreate` ... `PodCollect`), external to the repository;
  `Crash` is a restart of the server.

`scene` chooses in the initial state whether the caller waits, whether the test is
negative, whether there is a deadline, an abort or a reconciler, and how many calls may
fail and how often the server restarts.  A failing `UpdateResult` may or may not have
changed the record.

### SuiteExecution

The goroutine of `runSteps`: `SuiteInsert`, `Subscribe`, then per batch
`BatchCancel` or `BatchStart`, the test and the delay of the batch, `BatchEnd`;
finally `RunnerVerdict`, `RunnerSave`, `RunnerAfter`, `RunnerStatus`.  `inbox` holds
messages delivered to its subscription, `sending` the one whose callback waits on the
unbuffered channel.  `dsubs` are the subscriptions of delays, which the code never
removes: a message for the group goes to any one of them.  `TimeoutArm`,
`TimeoutFire`, `AbortRequest` publish.  `SuiteList`, `SuiteLook`, `SuiteWrite` are the
reconciler, `TestReconciled` its pass over tests.  A batch holds a test, a delay, a step
of no type, or some of these: a delay of zero is stored as a step with neither a test nor
a delay, which fails (`Untyped`).  `TestAborted` is an abort of a test's execution, which
rewrites the stored result even of one that has finished; `late` remembers the batches
aborted after the reconciler has looked at them.  Batches of several tests differ in what
the pool does, which is the next module.

### WorkerPool and Pool

`WorkerPool` has the sender, the workers and the two channels with their capacity,
the goroutine that closes the responses, the caller's loop and the context.  The
requests channel is a pair of counters (`sent`, `taken`), since requests are taken in
the order sent.  `Pool` is what callers rely on: a request is executed at most once,
an execution gives one response, and the responses end only when nothing is left,
unless the caller gave up.

### TriggerLease

The lease document and, per instance, the steps of one check (`FindLease`,
`InsertLease`, `LeaseStatus`, `UpdateLease`, `ConfirmLease`) and of the watcher
(`Watch`).  Time is the age of a lease: `Tick` makes every lease older and ages beyond
the duration are not told apart, so the state space is finite without a bound on
time.  `informed` is a history variable: the instances that have looked at the
document since it last changed hands.  The names `LeaseInit`, `LeaseNext`, `LeaseSpec`,
`LeaseTypeOK` keep it apart from `Triggers`, whose proofs share a module with its own.

### ExecutionNumbers

`GetNextExecutionNumber` (`Find`, `FindFails`, `ConvertFails`, `Insert`, `InsertFails`,
`Update`, `UpdateFails`) and what `executeTest` does with the number (`CheckName`,
`Store`).  `docs` is a sequence because nothing keeps two documents of one name apart.
Any error of the read takes the branch that inserts, and so may add a second document
(`forked`).  A failing conversion gives number 1 with an error that the scheduler only
logs, and after the last retry the number read before is returned: runs with such a
number are `astray`.  The initial state chooses
whether the document exists, whether the runs follow one another, and whether the test
or a suite is deleted meanwhile.  A deletion is `DeleteNumber`, then `DeleteExecutions`,
which may fail (`DeleteFails`).  The document of a suite's own runs is called "ts-" and
the suite's name, so that deleting the suite deletes the document of a test of the same
name, whose executions stay unless the suite started them; with a selector that matches
one suite all stay, because the filter is misspelt (`DeleteMisses`).

### ContainerExecution and RunnerOutput

One execution of the container executor.  The difference to the job executor is its end:
the watcher stores the result itself, and `stopExecution` is deferred with the *object of
the start* (`objects["r0"]`), while the object that the watcher and a waiting caller go on
with may be another one (`cur`).  The job and its pod are apart: an abort deletes the job,
and the pod goes later.  The actions follow `Execute`, `createJob`,
`updateResultsFromPod` with the volume claim and the scraper's job, `Abort`, the handler
of the pod informer in `pkg/triggers/watcher.go` (which marks a failed pod's execution
failed), the reconciler, and the cluster.  `saw` is what the watcher saw of the scraper's
pod.  Running already: it does not wait for it, and leaves the claim.  Gone when it is
looked for, or never there: it returns an error, which leaves the claim too and announces
a failure.  Ended, but with its logs gone (`ScrapeLogs`): the claim is deleted and a
failure announced.

`RunnerOutput` is pure: which line of the logs decides, for Testkube's runners
(`ParseRunnerOutput`) and for containers of any kind (`ParseContainerOutput`).  Lines
are records of a type, a status and whether they have a text.  `Results` are the lines
with a verdict of the runner, `LastLine` the last of them: the promise of both parsers
is stated with these, not with the loop that finds the line.

### Triggers

The trigger service of one server: the map of statuses (`status`, numbered objects that
handlers keep while the map moves on), the informers, one handler goroutine per event
(`hs`) that matches, waits for conditions and probes, applies the concurrency policy,
aborts, executes through the pool and records the ids; and the scraper.
`removeExecutionID` shortens the list it ranges over, which is modelled with its
outcome, including the removals past the end that panic.  A nil status and a removal past
the end end the process (`Panic`), as does a concurrent access to the map that the Go
runtime detects; it is then restarted.  Triggers may be created, changed and deleted,
also while the informer is not watching.  The insert of a suite's record may fail, which is
only logged: the suite runs without a record (`hidden`), and the scraper takes it for gone.

### Emitter

The webhooks of the cluster, and per replica the round of `Emitter.Reconcile` (load,
then `UpdateListeners`, which stops, starts and restarts listener by listener), `Listen`
at the start, which subscribes in goroutines outside of the mutex, and the bus:
`Unsubscribe` drains the subscription stored for a queue name, `SubscribeTopic` stores
another, and one that was overwritten stays open and out of reach (`leaked`).  A
listener's name is derived from the webhook's (`HookName`), and two webhooks may get the
same.  A kind of listeners whose load fails has none until the next round; a webhook that
names a missing template (`Broken`) fails every load of the kind for as long as it says so
(`Found`).  A restart of a listener is a stop and a start (`Restart`, `between`), and each
call of the bus may fail, which is only logged: a listener whose subscribe failed stays in
the list without a subscription until its webhook changes (`deaf`), a failed stop leaves
its subscription (`stuck`).

### Agent

Two lanes, of calls and of logs.  Per lane: `Receive`, `Put` (the receiving goroutine,
which puts its request into the buffer whatever becomes of the connection), `Take`,
`Respond`, `Line`, `LinesEnd`, `WorkerEnds` (the pool), `TakeResponse`, `Send`,
`SendFails`, `SenderEnds`; besides, the event loop and `Reconnect`.  A call's worker
gives its response up when the connection ends; the answer to a health check and the
error for logs that cannot be had are put into the buffer without looking at the context
("insist").  Facts of the code that the model keeps and a reader may not expect: the
buffers outlive the connection and the next one finds their content; a response
taken from the buffer when the connection breaks is lost; an event is dropped when the
loop is not ready for it.  A call is one step of its worker: `executeCommand` runs the
API's handler without looking at the context (`agent.go:284`), so a long call, of logs for
example, delays the reconnect for as long as it lasts.  The model assumes that it returns.

## 4. Runs

| Run | Instance | Shows |
|---|---|---|
| `te_execution` | asynchronous with deadline and abort; asynchronous with a restart and the reconciler, or a failed call without; synchronous, negative or not, with a failed call, a restart, with and without reconciler | types; passed, aborted and timeout statuses have a cause; record, event and resource agree; a cancelled execution stays so; the reconciler finishes every record |
| `te_final` | asynchronous, undisturbed | **violated**: the watcher's end may store "running" |
| `se_ends` | two batches of a test or a delay, timeout, abort, with stops on failure or one failed save; two batches of tests and steps of no type, one fault; two tests, one restart, reconciler, with one fault or with aborts of the tests; 0.4 M states | verdicts and cancels have a cause; StopOnFailure stops; the end is reported the same everywhere; the suite ends; a received message is heeded; an abandoned suite is finished, and not passed over a failed test |
| `se_live` | two batches of all kinds, reconciler | **violated**: the reconciler ends a suite that has a runner |
| `wp_pool` | five requests, two workers, cancellation; 14 k states | `Pool` is implemented; requests are in one place; the caller is told of the end |
| `tl_watch` | two instances, lease of two ticks, one failure, one crash; 18 k states | who looked since the last take-over watches only its own lease; a loser stops; somebody watches again |
| `en_numbers` | four runs, two old executions, three failing calls (reads, conversions and updates, so that two retries may run out), one deletion where runs follow one another; 2.3 M states, names of runs aside | numbers unique when counted, but for runs astray; refusals bounded when not, and after a deletion |
| `ce_execution` | waiting caller or not, artifacts or not; an abort with a failed call or against the informer; the informer alone with a failed call; the reconciler after a restart, with a failed call unless nobody waits and there are artifacts; 0.5 M states | no false pass; reports agree; the claim is left exactly where the scraper's end was not seen; an abort is kept; the reconciler finishes every record; the parsers agree on all logs of three lines |
| `tr_policies` | one trigger per policy, fed by one or two informers, two events, two handlers, two tests, two troubles; 0.6 M states | Forbid and Replace keep one round; no goroutine meets a nil status or a short list while no trigger is updated or deleted and no request refused; no running execution is forgotten, suites asked to abort or without a record aside; every trigger becomes free |
| `em_listeners` | three webhooks of two names, two edits to contents of which one names a missing template, a failed load, subscribe or stop, a restart; 0.6 M states | between rounds the bus is in line with the list, but for names it refused; what the webhooks say in the end comes to be subscribed |
| `ag_lanes` | one worker per lane, buffers of one; three calls and two failures, three log requests and one, or one of each and two | a call is executed and answered at most once; what arrived is answered while the connection holds; the agent reconnects unless it is jammed |
| `ag_reconnect` | two calls, one failure | **violated**: a receiver that finds its buffer full keeps the agent from reconnecting |

Violations are disagreements of the code with a sentence of its own documentation or
comments, quoted in `PROJECT.json`; they stay in the project as regression checks of the
models and as a description of what the code does.

*Why the bounds are enough.*  One execution is enough for `TestExecution` and
`ContainerExecution`: executions share nothing but their number.  One abort request, one
fault and one restart meet every other step; a second of each adds repetitions of the
same actions, and each scene keeps together the troubles that meet.  Two batches let a
first one decide about a second.  Five requests over two workers and
channels of two fill both channels and let workers come back.  In `TriggerLease` two
instances already read the same expired lease; a lease of two ticks separates fresh, aged
and expired.  Four runs reach past the two old numbers, and three failing calls use up
both retries of one.  In `Triggers` two events of one
informer follow each other and two of different informers overlap; a second trigger
would add another status and meet the first only in the map.  Five cases pair the
policies with tests or suites and with one informer or two; `OneRound` is about the two
with one informer.  `Emitter` is checked with
one replica, because replicas share nothing but the webhooks; three webhooks give a name
that is shared and one that is not, and one failing call is enough for a subscription that
is missing or one that is left.  Buffers of one place in `Agent` (the code has five
per worker) are full after one request, so three requests meet every combination of a
full buffer with a break.  Section 5 removes the bounds for the properties it lists.

*Deadlock* is not checked where the system stops: executions, suites, pools, runs and
events end, edits and faults run out, and the agent of the model may jam.
`TriggerLease` never stops and is checked for deadlock.

*Fairness.*  Goroutines that can run do (weak fairness per goroutine), calls return,
pods are created and end, the job and garbage collectors work, timers fire.  No
fairness for aborts, deadlines, faults, restarts, edits and cancellation.  Where every
fair step ends something and none is repeated for ever, as in `Triggers`, one weak
fairness over all of them says the same: a handler, an execution, the scraper or the
restart, one of them goes on.  `Emitter` assumes that the rounds follow each other and
that goroutines started by `Listen` get to run; `Agent` that its goroutines do and that
calls of the connection come back, with an answer or an error, and so do the API's handlers
that answer a call.  The lease needs
one strong assumption: not every renewal takes longer than the lease lasts; otherwise
each instance could write its lease and find it expired for ever.

*What properties say about faults.*  `EndReported`, `CancelHeeded` and `StopsOnFailure`
except runs with a failed save, because the code goes on after one: a save that fails
skips StopOnFailure and leaves the stored status behind.  `ReportsAgree` excepts
executions the reconciler looks at (it overwrites the record with the copy it listed) and
aborted ones (the abort and the watcher report both); that of the container executor
also excepts logs that contradict the pod's phase, because the deferred end only knows the
phase.  `Honest` excepts an execution with artifacts after a failed call or with its logs gone:
there a scraper that succeeds passes it.  No call fails when a scraper's pod vanishes: both
`ReportsAgree` and `ClaimReleased` say what happens then.  `VerdictJustified` names the step
of no type beside the failed test, and `AbandonedVerdict` excepts an abort that came after
the reconciler's look, of which it cannot know.  `OneRound` is about triggers that one informer feeds and whose suites get their record: with two,
both handlers may look before either has started anything, and the initial states with
two informers show that nothing else goes wrong then.  `NeverDies` excepts changes of triggers, deletions (the status
is nil) and updates alike, and refused requests (an id is recorded twice and removed
twice); a concurrent access to the map of statuses is a `Crash` of the model, not a death.
`NumbersUnique` and `NoneRefused` except runs whose number came with an error, and end with
a second document.  `Converges` leaves out names that the bus refused.  `ListMatchesBus`
allows one subscription too many for a name that `Listen` found and a round started again.

## 5. Proofs

| Theorem | Says | Inductive argument |
|---|---|---|
| `TestExecutionProofs!TypeSafe` | `TypeOK` | by itself |
| `TestExecutionProofs!StatusesJustified` | `StatusJustified` | `Origins`: every place that holds or will write a status (`Seen`: record, resource, heap, copies) holds "passed" only if the pod's result says so, "aborted" only after a job was deleted, "timeout" only after the deadline.  Needed because a status reaches the record from copies taken earlier. |
| `TestExecutionProofs!CancelsFinal` | `CancelIsFinal` | one step at a time: whoever could write something else holds a copy, and a settled record has no such holder |
| `TestExecutionProofs!Reported` | `ReportsAgree` | `Reports`: when the caller waits, scheduler and watcher take turns (`Turns`), nobody else is at work (`NobodyElse`), what was decided is what is carried to record, resource and event (`Decided`), and stays (`Lasting`) |
| `SuiteExecutionProofs!TypeSafe` | `TypeOK` | by itself, in named parts |
| `SuiteExecutionProofs!VerdictsJustified` | `VerdictJustified` | `Verdicts`: what the runner knows of the batches it has passed; `failed` is set if and only if a test returned failed, a step has no type or a save failed, for every number of batches |
| `SuiteExecutionProofs!CancelsJustified` | `CancelJustified` | `Causes`: a message anywhere between publisher and runner was sent by the timer or by a request, and the runner keeps the cancel it took (`Sent`, `Kept`) |
| `SuiteExecutionProofs!FailuresStop` | `StopsOnFailure` | `Stops`: which batches were tested, that later ones are untouched, and that the runner that saw a failure only cancels the rest |
| `SuiteExecutionProofs!EndsReported` | `EndReported` | `Ends`: a runner that nothing disturbs carries one status from the verdict to record, event and resource |
| `SuiteExecutionProofs!AbandonedKept` | `AbandonedVerdict` | `Looked`: after a restart the runner is gone, and what the reconciler has passed over while its status is still "passed" has passed, was never stored, or was aborted since, and stays so whatever the pass over tests does meanwhile |
| `WorkerPoolProofs!RequestsPlaced` | `Placed` | `Placed` with types, one step per action |
| `WorkerPoolProofs!PoolImplements` | `Spec => P!Spec` | initial states map to initial states, each step to a step or a stutter, from `Placed` |
| `WorkerPoolProofs!NothingLost` | a caller told of the end, with a worker and no cancel, has every response | `Everywhere`, an invariant of `Pool` carried over the refinement: a request is to do, executing, ready or received; the safety half of `AllAnswered` |
| `TriggersProofs!LeaseTypeSafe`, `CaughtUp` | `LeaseTypeOK`, `WatchersCaughtUp` | `Agrees`: what an informed instance holds in memory at each point of its check names the document's holder |
| `ExecutionNumbersProofs!Unique`, `Unrefused` | `NumbersUnique`, `NoneRefused` | as long as nothing is deleted and no read that fails has inserted a second document, the one document is at least every number given; only runs astray have one that was not written (`Numbering`, `Distinct`), and a name is taken only by such a run (`NoneTaken`) |
| `ExecutionNumbersProofs!Refusals` | `RefusalsBounded` | `Divided`: where runs follow one another, the deletion divides them into early and late ones; numbers repeat only across the two, and each refusal is for another past or early execution that was stored; runs astray and second documents are outside of it (`Undisturbed`) |
| `ContainerExecutionProofs!TypeSafe` | `TypeOK` | by itself; the verdict of the logs, a loop over lines, needs the next row |
| `ContainerExecutionProofs!ResultsDecide`, `ParsersDecide` | `LastResultDecides`, `ParsersAgree`, for logs of any length | the loop invariant of the parsers: after `i` lines the best one is the last result among them, or none is one and an error is kept (`Induction`, `Recursion`, see below) |
| `ContainerExecutionProofs!PassesHonest` | `Honest` | `Steady`: which of the two result objects each goroutine may hold at each point, what the watcher has found by then, and that no call has failed and no logs were lost where a pass needs it so |
| `ContainerExecutionProofs!ClaimsReleased` | `ClaimReleased` | `Claims`: the claim is there from the start of the job until the watcher has seen the scraper end, and then exactly where it did not (`saw`) |
| `ContainerExecutionProofs!CancelsKept` | `CancelKept` | one step at a time, from `Steady` |
| `ContainerExecutionProofs!Reported` | `ReportsAgree` | `Reports`: as for the job executor, with the pods' phases and the verdict of the logs; `Undecided`: where the scraper's pod was gone the object of the start is the only one, and record and Test get the same from it |
| `EmitterProofs!BusInLine` | `ListMatchesBus` | `Subscriptions`: in the middle of a round the bus is in line with the list that the steps still due will make of it, for every replica and every name, but for those whose last subscribe (`deaf`) or a stop (`stuck`) failed; no step for one name touches another (`Same`) |
| `AgentProofs!CallsInOnePlace` | `OnePlace` | `Home`: each list is free of repetitions (`Lists`), no two places hold the same call (`Apart`), and what is held is not answered (`Opened`); the property follows with a lemma on sequences that are joined |
| `TriggersProofs!TypeSafe` | `Triggers!TypeOK` | `Typed`: a leader adds each trigger once, so statuses are numbered within leaders and changes (`Adding`); executions and requests still to be sent are within the tests the handlers selected (`Sent`); what has no record was started (`HiddenOK`) |
| `TriggersProofs!Remembers` | `Tracked` | `Remembered`: a running execution that has a record stays in the list of the status that recorded it, with or without a trigger that still has the status; removing one id keeps every other one (`Removal`) |
| `TriggersProofs!Survives` | `NeverDies` | `Known`: without changes every chosen trigger has a status; `Recorded`: without refusals no id is in two lists, twice in one, or both in a list and still to be recorded, so `removeExecutionID` removes once at most |
| `TriggersProofs!Alternates` | `OneRound` | `Steady`: a calm service has one handler per informer and one status per trigger; `Own`: lists and handlers name executions of their own trigger; `Rounds`: what runs of a trigger is of one round, is in its list or with its one handler, and a handler about to execute has found none of another round |

They hold for every value of the constants under the assumptions the modules name, none of
which limits how often calls fail.  `NamesAssumption` of `Triggers` has finitely many
triggers and informers, as a cluster has; their number bounds the statuses.

*Loops.*  Two theorems rest on loops of the code: that of the parsers over the lines, and
that of `removeExecutionID`, which shortens the list while it ranges over it.  Both are
recursive functions in the models.  What such a function computes is proved by
induction on *sets*, without an operator as parameter: a set of numbers that has 0 and
with each number the next is `Nat`, because a smallest missing number gives a smallest
of the intervals `1..n`, and finite sets are well-founded under inclusion
(`FS_StrictSubsetOrderingWellFounded`).  `Recursion` obtains the function that the loop
computes (`Loop`) from it, and a loop invariant is proved by taking the set of the
turns after which it holds.

TLC checked the inductive invariants of `Triggers` before they were proved, on the
instance of section 4 and on one with two triggers, and `Looked` on that of the suite.

Only model-checked: the liveness properties (TLAPS does not reason about fairness and
ENABLED here), which are `EventuallyFinal` of three modules, `SuiteEnds`, `CancelHeeded`,
`AllAnswered`, `LoserStops`, `SomebodyWatches`, `Converges`, `Answered`,
`ReconnectsUnlessJammed` and `Settles`.  Every invariant and every action property of the
passing runs is proved.  No module declares a RECURSIVE operator.

## 6. Not modelled

* Websocket listeners: a list and connections shared without a lock; what a race on them
  gives is up to the library.  What a listener does with an event is output.
* Which object a trigger's probe asks: `host` records it, no property judges it.
* Several replicas of the trigger service at once: a lost lease stops the informers, and
  `Triggers` has what one process sees of it; who holds the lease is `TriggerLease`.
* Deletion of all executions at once, and beside concurrent runs: the first runs after it
  collide like those of a test without its document.
* Two conversions of one document of an older release at the same time: a conversion is
  modelled by its failure, one that succeeds keeps the number.
* A closed connection to NATS: a call of the bus fails or succeeds, one by one.
* Artifacts, logs, telemetry, cloud clients, storage: input and output without state.
* CLI, mappers, CRD clients, GraphQL, migrations, generated types: conversions and calls.
* Runners: external, they are the result in the pod's logs.
* Data without effect on control: variables, labels, images, templates, messages.
* Clock skew between instances: leases age by one clock.
* Events on their way through the bus: the emitter publishes, and which subscription is
  open is what `Emitter` is about.

By far the larger part of the source are generated types and clients, command line,
mappers and storage, which keep no state between calls; the modules cover the code that
does.

## 7. Hazards found on the way

`PROJECT.json` lists the places that are hard to test, with the properties that cover
them.  Worth knowing beyond the violated runs:

* Without its sequence document two concurrent first runs of a test get the same number
  and name.
* Deleting a suite deletes the sequence document of a test of the same name, not its
  own: the test's next runs are refused one after the other, without an error, until the
  count has passed its executions.
* An error of the database while the pods are listed, or a pod that is not created yet,
  makes the reconciler mark a healthy execution failed.
* Under Forbid an active trigger ends the matching of the whole event: `match` returns
  and the remaining triggers are not looked at (`matcher.go:74`).
* An error of `SubscribeTopic` is logged and the listener is kept in the list
  (`emitter.go:161`), so no round starts it again before its webhook changes; an error of a
  stop leaves its subscription open.
* One webhook that names a missing template fails the load of all webhooks in every round
  (`webhook/loader.go:50-54`): none of them is subscribed until it is corrected.
* A scraper's pod that is gone when it is looked for, or before its end, leaves the claim and
  announces a failure, without any call that failed; the record may say running
  (`containerexecutor.go:344-347, 361-364`).
* A delay of zero is stored as a step with neither test nor delay, which fails the suite
  when it runs (`testsuite_scheduler.go:432`).
* An abort rewrites the result of an execution that has finished (`job.go:649`): a suite may
  be passed by the reconciler just before one of its tests becomes aborted.
* Any error of the read of a sequence document inserts another one and gives number 1
  (`mongo_numbers.go:42-51`).
* A suite whose record could not be inserted runs all the same, and the scraper of the
  triggers takes it for gone: Forbid then starts another (`scraper.go:63-66`).
* A long call of the agent, of logs for example, delays the reconnect: the handler does not
  look at the context (`agent.go:284`).
* Two webhooks whose names differ in a dash only have one listener.
* A command that arrives when the receive timeout fires is lost; log lines all carry
  sequence number 0 (`logs.go:116`).
* The end of a container execution reports the object of its start: with logs that
  contradict the pod's phase the event and the record differ.

## 8. Running

    tlc -workers 2 -config TestExecution.cfg MCTestExecution
    tlc -workers 2 -config WorkerPool.cfg WorkerPool
    tlapm TestExecutionProofs.tla

`PROJECT.json` lists module and configuration of every run.  The longest takes about
two minutes.  The mutants it lists (`...Mut` in the modules) replace a definition by a
plausible slip; the property named with each must then fail.
