------------------------------ MODULE Triggers ------------------------------
(* The trigger service of one API server: the statuses of the test triggers *)
(* kept by the informer of the triggers, the informers whose handlers match *)
(* an event with them and start executions, and the scraper that forgets    *)
(* the executions that have ended.  Who holds the lease is the subject of   *)
(* module TriggerLease; here it comes and goes.                             *)
EXTENDS Naturals, Sequences, FiniteSets

CONSTANTS
    Triggers,       \* names of the test triggers
    Probed,         \* those with probes that name no host
    Sources,        \* informers of one resource and namespace, one object each
    Cases,          \* what the triggers are: the cases to explore
    MaxHandlers,    \* bound on the handler goroutines, of old informers too
    None,           \* no host
    MaxTests,       \* bound on the tests that are selected for execution
    MaxEvents,      \* bound on the events
    MaxTrouble      \* bound on refusals, failed calls and timeouts, changes of
                    \* triggers, crashes and losses of the lease, together

ASSUME NamesAssumption ==
    /\ IsFiniteSet(Triggers) /\ IsFiniteSet(Sources)
    /\ Probed \subseteq Triggers /\ None \notin Sources \cup Triggers
    /\ Cases \subseteq [policy : [Triggers -> {"allow", "forbid", "replace"}],
                       suites : SUBSET Triggers, watch : [Sources -> SUBSET Triggers]]
ASSUME BoundsAssumption ==
    MaxHandlers \in Nat /\ MaxTests \in Nat /\ MaxEvents \in Nat /\ MaxTrouble \in Nat

Handlers == 1..MaxHandlers
Execs    == 1..MaxTests
Ids      == Execs \cup {0}      \* the id of a refused execution is empty: 0
Versions == 0..(MaxTrouble + 1) * Cardinality(Triggers)

VARIABLES
    policy, suites,     \* the triggers: concurrency policy, which execute suites
    watch,              \* which of them may select the object of a source
    present,            \* the trigger objects in the cluster
    up, leading, seen,  \* the process; its lease; triggers its informer knows
    status,             \* Service.triggerStatus: number of the status, 0 for none
    spec,               \* number of its testTrigger
    ids,                \* per status: the ids of its executions
    host,               \* per testTrigger: the host of its probes
    made,               \* statuses and testTriggers made so far
    hs,                 \* the handlers
    exec, home,         \* executions; the status that recorded each of them
    hidden,             \* those of which the database has no record
    events, selected, refused, faults, losses, changes, crashes, deaths

cluster == <<policy, suites, watch, present>>
memory  == <<status, spec, ids, host, made>>
store   == <<exec, home, hidden>>
process == <<up, leading, seen>>
budget  == <<events, selected, refused, faults, losses, changes, crashes, deaths>>
vars    == <<cluster, process, memory, hs, store, budget>>

Idle == [pc |-> "idle", src |-> None, left |-> {}, trig |-> None, spec |-> 0,
         obj |-> 0, todo |-> 0, resp |-> <<>>, round |-> 0, old |-> FALSE]

Init ==
    /\ \E c \in Cases : policy = c.policy /\ suites = c.suites /\ watch = c.watch
    /\ present = Triggers
    /\ up = TRUE /\ leading = FALSE /\ seen = {}
    /\ status = [t \in Triggers |-> 0] /\ spec = [t \in Triggers |-> 0]
    /\ ids = [v \in Versions |-> <<>>] /\ host = [v \in Versions |-> None]
    /\ made = 0
    /\ hs = [h \in Handlers |-> Idle]
    /\ exec = <<>> /\ home = <<>> /\ hidden = {}
    /\ events = 0 /\ selected = 0 /\ refused = 0 /\ faults = 0 /\ losses = 0
    /\ changes = 0 /\ crashes = 0 /\ deaths = 0

(* A refused request counts for one, everything else for two.               *)
Room(n) == refused + 2 * (faults + losses + changes + crashes) + n <= MaxTrouble

-----------------------------------------------------------------------------
(* A panic, or a fatal error of the runtime such as a write to the map of   *)
(* statuses while another goroutine reads it, ends the whole process.       *)
Forget ==
    /\ up' = FALSE /\ leading' = FALSE /\ seen' = {}
    /\ status' = [t \in Triggers |-> 0] /\ spec' = [t \in Triggers |-> 0]
    /\ ids' = [v \in Versions |-> <<>>] /\ host' = [v \in Versions |-> None]
    /\ made' = 0 /\ hs' = [h \in Handlers |-> Idle]

Panic ==
    /\ Forget /\ deaths' = deaths + 1
    /\ UNCHANGED <<cluster, store, events, selected, refused, faults, losses, changes, crashes>>

Crash ==
    /\ up /\ Room(2) /\ crashes' = crashes + 1
    /\ Forget
    /\ UNCHANGED <<cluster, store, events, selected, refused, faults, losses, changes, deaths>>

Restart ==
    /\ ~up /\ up' = TRUE
    /\ UNCHANGED <<cluster, leading, seen, memory, hs, store, budget>>

(* removeExecutionID ranges over the list as it was at the start, in whose  *)
(* array the removals shift the tail; a removal past the end of the list    *)
(* that is left panics.                                                     *)
Cut(l, id, i) ==
    IF l.bad \/ l.array[i] # id THEN l
    ELSE IF i > l.len THEN [l EXCEPT !.bad = TRUE]
    ELSE [l EXCEPT !.array = [j \in DOMAIN @ |->
                                 IF j >= i /\ j < l.len THEN @[j + 1] ELSE @[j]],
                   !.len = @ - 1]

Removed(s, id) ==
    LET from[i \in 0..Len(s)] ==
            IF i = 0 THEN [array |-> s, len |-> Len(s), bad |-> FALSE]
            ELSE Cut(from[i - 1], id, i)
    IN  from[Len(s)]

RemoveOk(o, id)    == ~Removed(ids[o], id).bad
RemoveExecutionID(o, id) ==
    LET l == Removed(ids[o], id) IN ids' = [ids EXCEPT ![o] = SubSeq(l.array, 1, l.len)]

-----------------------------------------------------------------------------
(* The lease.  Losing it stops the informers; handlers that run go on, and  *)
(* the statuses stay.  A new leader's informers list everything again.      *)
Lead ==
    /\ up /\ ~leading /\ leading' = TRUE /\ seen' = {}
    /\ UNCHANGED <<cluster, up, memory, hs, store, budget>>

(* Mutant: a server that loses the lease forgets its statuses.              *)
LoseLeaseMut ==
    /\ up /\ leading /\ leading' = FALSE
    /\ Room(2) /\ losses' = losses + 1
    /\ status' = [t \in Triggers |-> 0]
    /\ hs' = [h \in Handlers |-> [hs[h] EXCEPT !.old = hs[h].pc # "idle"]]
    /\ UNCHANGED <<cluster, up, seen, spec, ids, host, made, store, events, selected,
                   refused, faults, changes, crashes, deaths>>

LoseLease ==
    /\ up /\ leading /\ leading' = FALSE
    /\ Room(2) /\ losses' = losses + 1
    /\ hs' = [h \in Handlers |-> [hs[h] EXCEPT !.old = hs[h].pc # "idle"]]
    /\ UNCHANGED <<cluster, up, seen, memory, store, events, selected, refused, faults,
                   changes, crashes, deaths>>

AddTrigger(t) ==
    /\ leading /\ t \in present \ seen
    /\ seen' = seen \cup {t} /\ made' = made + 1
    /\ status' = [status EXCEPT ![t] = made']
    /\ spec' = [spec EXCEPT ![t] = made']
    /\ UNCHANGED <<cluster, up, leading, ids, host, hs, store, budget>>

(* updateTrigger keeps the status and replaces its testTrigger.             *)
UpdateTrigger(t) ==
    /\ leading /\ t \in seen \cap present
    /\ Room(2) /\ changes' = changes + 1
    /\ made' = made + 1
    /\ spec' = [spec EXCEPT ![t] = made']
    /\ status' = [status EXCEPT ![t] = IF @ = 0 THEN made' ELSE @]
    /\ UNCHANGED <<cluster, process, ids, host, hs, store, events, selected, refused, faults,
                   losses, crashes, deaths>>

DeleteTrigger(t) ==
    /\ t \in present /\ present' = present \ {t}
    /\ Room(2) /\ changes' = changes + 1
    /\ UNCHANGED <<policy, suites, watch, process, memory, hs, store, events, selected, refused, faults, losses,
                   crashes, deaths>>

(* The deletion that the informer has missed comes as a tombstone, which    *)
(* the handler does not take for a trigger.                                 *)
RemoveTrigger(t) ==
    /\ leading /\ t \in seen \ present /\ seen' = seen \ {t}
    /\ \/ /\ status' = [status EXCEPT ![t] = 0] /\ spec' = [spec EXCEPT ![t] = 0]
          /\ UNCHANGED ids
       \/ UNCHANGED <<status, spec, ids>>
    /\ UNCHANGED <<cluster, up, leading, host, made, hs, store, budget>>

-----------------------------------------------------------------------------
(* match, run by the handler goroutine of an informer for one event.        *)
Go(h, pc) == [hs EXCEPT ![h].pc = pc]
Return(h) == hs' = [hs EXCEPT ![h] = Idle]
Fault     == Room(2) /\ faults' = faults + 1

Stays == UNCHANGED <<cluster, process, status, spec, made, events, selected, refused,
                     losses, changes, crashes, deaths>>

(* The event matches the names, labels and events of the triggers "left";   *)
(* one that is added to the map meanwhile is met or not.                    *)
Event(h, s) ==
    /\ leading /\ hs[h].pc = "idle" /\ \A g \in 1..h - 1 : hs[g].pc # "idle"
    /\ \A g \in Handlers : hs[g].src = s => hs[g].old
    /\ events < MaxEvents /\ events' = events + 1
    /\ \E left \in SUBSET watch[s] \ {{}} :
          hs' = [hs EXCEPT ![h] = [Idle EXCEPT !.pc = "loop", !.src = s, !.left = left,
                                               !.round = events']]
    /\ UNCHANGED <<cluster, process, memory, store, selected, refused, faults, losses,
                   changes, crashes, deaths>>

Pick(h, t) ==
    /\ hs[h].pc = "loop" /\ t \in hs[h].left /\ status[t] # 0
    /\ hs' = [hs EXCEPT ![h].pc = "conditions", ![h].trig = t, ![h].spec = spec[t],
                        ![h].left = @ \ {t}]
    /\ Stays /\ UNCHANGED <<ids, host, store, faults>>

Finish(h) ==
    /\ hs[h].pc = "loop" /\ \A t \in hs[h].left : status[t] = 0
    /\ Return(h) /\ Stays /\ UNCHANGED <<ids, host, store, faults>>

(* Conditions and then probes are polled until they hold; when they time    *)
(* out the error ends the matching of this event.  The address of the       *)
(* object is written into the trigger's probes, where it stays.             *)
MatchProbes(h) ==
    LET o == hs[h].spec IN
    /\ hs[h].pc = "conditions" /\ hs' = Go(h, "policy")
    /\ host' = IF hs[h].trig \in Probed /\ host[o] = None
               THEN [host EXCEPT ![o] = hs[h].src] ELSE host
    /\ Stays /\ UNCHANGED <<ids, store, faults>>

WaitFails(h) ==
    /\ \/ hs[h].pc = "conditions"
       \/ hs[h].pc = "policy" /\ hs[h].trig \in Probed
    /\ Fault
    /\ Return(h) /\ Stays /\ UNCHANGED <<ids, host, store>>

Active(t) == ids[status[t]] # <<>>

Forbid(h) ==
    LET t == hs[h].trig IN
    /\ hs[h].pc = "policy" /\ policy[t] = "forbid" /\ status[t] # 0 /\ Active(t)
    /\ Return(h) /\ Stays /\ UNCHANGED <<ids, host, store, faults>>

Replace(h) ==
    LET t == hs[h].trig IN
    /\ hs[h].pc = "policy" /\ policy[t] = "replace" /\ status[t] # 0 /\ Active(t)
    /\ hs' = [hs EXCEPT ![h].pc = "abort", ![h].obj = status[t],
                        ![h].resp = ids[status[t]]]
    /\ Stays /\ UNCHANGED <<ids, host, store, faults>>

(* Mutant: the active executions are not looked at.                         *)
PermitMut(h) ==
    LET t == hs[h].trig IN
    /\ hs[h].pc = "policy"
    /\ policy[t] = "allow" \/ status[t] # 0
    /\ hs' = Go(h, "execute")
    /\ Stays /\ UNCHANGED <<ids, host, store, faults>>

Permit(h) ==
    LET t == hs[h].trig IN
    /\ hs[h].pc = "policy"
    /\ policy[t] = "allow" \/ (status[t] # 0 /\ ~Active(t))
    /\ hs' = Go(h, "execute")
    /\ Stays /\ UNCHANGED <<ids, host, store, faults>>

(* The status is looked up again, and is nil for a trigger removed since.   *)
PolicyPanics(h) ==
    /\ hs[h].pc = "policy" /\ policy[hs[h].trig] # "allow" /\ status[hs[h].trig] = 0
    /\ Panic

(* abortExecutions, one id of the copied list at a time.  A test is aborted;*)
(* a suite is asked to, which ends it or not; the id of an execution that   *)
(* has ended stays in the list, one that is not found is dropped.           *)
Next1(h)     == [hs EXCEPT ![h].resp = Tail(@)]
Missing(id)  == id \in {0} \cup hidden
Running(id)  == ~Missing(id) /\ exec[id].st # "ended"
Aborting(h)  == hs[h].pc = "abort" /\ hs[h].resp # <<>>

AbortRunning(h) ==
    LET id == Head(hs[h].resp)  t == hs[h].trig IN
    /\ Aborting(h) /\ Running(id) /\ RemoveOk(hs[h].obj, id)
    /\ exec' = [exec EXCEPT ![id].st = IF t \in suites THEN "asked" ELSE "ended"]
    /\ RemoveExecutionID(hs[h].obj, id)
    /\ hs' = Next1(h)
    /\ Stays /\ UNCHANGED <<host, home, hidden, faults>>

AbortMissing(h) ==
    LET id == Head(hs[h].resp) IN
    /\ Aborting(h) /\ Missing(id) /\ RemoveOk(hs[h].obj, id)
    /\ RemoveExecutionID(hs[h].obj, id) /\ hs' = Next1(h)
    /\ Stays /\ UNCHANGED <<host, store, faults>>

AbortPanics(h) ==
    LET id == Head(hs[h].resp) IN
    /\ Aborting(h) /\ (Missing(id) \/ Running(id))
    /\ ~RemoveOk(hs[h].obj, id) /\ Panic

AbortSkip(h) ==
    LET id == Head(hs[h].resp) IN
    /\ Aborting(h)
    /\ \/ ~Missing(id) /\ ~Running(id) /\ UNCHANGED faults
       \/ Fault
    /\ hs' = Next1(h)
    /\ Stays /\ UNCHANGED <<ids, host, store>>

AbortDone(h) ==
    /\ hs[h].pc = "abort" /\ hs[h].resp = <<>> /\ hs' = Go(h, "execute")
    /\ Stays /\ UNCHANGED <<ids, host, store, faults>>

-----------------------------------------------------------------------------
(* execute: the worker pool sends the requests, whose responses are         *)
(* recorded one after the other in the status looked up at the start.       *)
Execute(h) ==
    /\ hs[h].pc = "execute"
    /\ \E n \in 0..MaxTests - selected :
       /\ selected' = selected + n
       /\ hs' = [hs EXCEPT ![h].pc = "run", ![h].obj = status[hs[h].trig], ![h].todo = n]
    /\ UNCHANGED <<cluster, process, memory, store, events, refused, faults, losses,
                   changes, crashes, deaths>>

ExecuteFails(h) ==
    /\ hs[h].pc = "execute" /\ Fault
    /\ Return(h) /\ Stays /\ UNCHANGED <<ids, host, store>>

Respond(h, id) == hs' = [hs EXCEPT ![h].todo = @ - 1, ![h].resp = Append(@, id)]

(* Mutant: a worker sends one request more.                                 *)
RequestMut(h) ==
    /\ hs[h].pc = "run" /\ hs[h].todo >= 0
    /\ exec' = Append(exec, [st |-> "active", trig |-> hs[h].trig, round |-> hs[h].round])
    /\ home' = Append(home, 0)
    /\ Respond(h, Len(exec'))
    /\ Stays /\ UNCHANGED <<ids, host, hidden, faults>>

(* The insert of a suite's record may fail, which is only logged: the suite *)
(* runs without a record.                                                   *)
InsertFails(h) == hs[h].trig \in suites /\ Fault /\ hidden' = hidden \cup {Len(exec')}

Request(h) ==
    /\ hs[h].pc = "run" /\ hs[h].todo > 0
    /\ exec' = Append(exec, [st |-> "active", trig |-> hs[h].trig, round |-> hs[h].round])
    /\ home' = Append(home, 0)
    /\ \/ UNCHANGED <<hidden, faults>>
       \/ InsertFails(h)
    /\ Respond(h, Len(exec'))
    /\ Stays /\ UNCHANGED <<ids, host>>

(* A refused request has the empty id, or that of the execution whose name  *)
(* was taken.                                                               *)
Refuse(h) ==
    /\ hs[h].pc = "run" /\ hs[h].todo > 0
    /\ Room(1) /\ refused' = refused + 1
    /\ \E id \in {0} \cup {e \in DOMAIN exec : exec[e].trig = hs[h].trig} : Respond(h, id)
    /\ UNCHANGED <<cluster, process, memory, store, events, selected, faults, losses, changes,
                   crashes, deaths>>

Record(h) ==
    LET id == Head(hs[h].resp)  o == hs[h].obj IN
    /\ hs[h].pc = "run" /\ hs[h].resp # <<>> /\ o # 0
    /\ ids' = [ids EXCEPT ![o] = Append(@, id)]
    /\ home' = IF id = 0 THEN home ELSE [home EXCEPT ![id] = o]
    /\ hs' = Next1(h)
    /\ Stays /\ UNCHANGED <<host, exec, hidden, faults>>

Started(h) ==
    /\ hs[h].pc = "run" /\ hs[h].todo = 0 /\ hs[h].resp = <<>> /\ hs[h].obj # 0
    /\ hs' = [hs EXCEPT ![h].pc = "loop", ![h].obj = 0, ![h].trig = None,
                        ![h].spec = 0]
    /\ Stays /\ UNCHANGED <<ids, host, store, faults>>

RecordPanics(h) ==
    /\ hs[h].pc = "run" /\ hs[h].obj = 0
    /\ hs[h].todo = 0 \/ hs[h].resp # <<>>
    /\ Panic

-----------------------------------------------------------------------------
(* An execution ends.                                                       *)
End(e) ==
    /\ e \in DOMAIN exec /\ exec[e].st # "ended"
    /\ exec' = [exec EXCEPT ![e].st = "ended"]
    /\ UNCHANGED <<cluster, process, memory, hs, home, hidden, budget>>

(* One id of one tick of the scraper; a read that fails is a stutter.       *)
(* Mutants: what runs is dropped too; what is not found is kept.            *)
GoneMut(id)     == ~Missing(id) => exec[id].st # "asked"
GoneMissMut(id) == ~Missing(id) /\ exec[id].st = "ended"

Gone(id) == ~Missing(id) => exec[id].st = "ended"
Listed(t, id) == up /\ status[t] # 0 /\ \E i \in DOMAIN ids[status[t]] : ids[status[t]][i] = id

Scrape(t, id) ==
    /\ Listed(t, id) /\ id \in {0} \cup DOMAIN exec /\ Gone(id)
    /\ IF RemoveOk(status[t], id)
       THEN /\ RemoveExecutionID(status[t], id)
            /\ UNCHANGED <<cluster, process, status, spec, host, made, hs, store, budget>>
       ELSE Panic

Handle(h) ==
    \/ \E t \in Triggers : Pick(h, t)
    \/ Finish(h) \/ MatchProbes(h) \/ WaitFails(h)
    \/ Forbid(h) \/ Replace(h) \/ Permit(h) \/ PolicyPanics(h)
    \/ AbortRunning(h) \/ AbortMissing(h) \/ AbortPanics(h) \/ AbortSkip(h) \/ AbortDone(h)
    \/ Execute(h) \/ ExecuteFails(h) \/ Request(h) \/ Refuse(h) \/ Record(h)
    \/ Started(h) \/ RecordPanics(h)

Next ==
    \/ Crash \/ Restart \/ Lead \/ LoseLease
    \/ \E t \in Triggers : AddTrigger(t) \/ UpdateTrigger(t) \/ DeleteTrigger(t)
                           \/ RemoveTrigger(t)
    \/ \E h \in Handlers : Handle(h) \/ \E s \in Sources : Event(h, s)
    \/ \E e \in Execs : End(e)
    \/ \E t \in Triggers, id \in Ids : Scrape(t, id)

Spec == Init /\ [][Next]_vars

-----------------------------------------------------------------------------
(* Fairness: the goroutines run, what was started ends, the scraper looks   *)
(* at every id again and again, and Kubernetes restarts the process.  As    *)
(* each of these stops by itself, it is enough that some of them goes on.   *)
Progress ==
    \/ Restart \/ \E h \in Handlers : Handle(h)
    \/ \E e \in Execs : End(e)
    \/ \E t \in Triggers, id \in Ids : Scrape(t, id)

FairSpec == Spec /\ WF_vars(Progress)

Handler == [pc : {"idle", "loop", "conditions", "policy", "abort", "execute", "run"},
            src : Sources \cup {None}, left : SUBSET Triggers,
            trig : Triggers \cup {None}, spec : Versions, obj : Versions,
            todo : 0..MaxTests, resp : Seq(Ids), round : 0..MaxEvents, old : BOOLEAN]

(* Every variable has its type; the numbers of statuses are those made.     *)
TypeOK ==
    /\ [policy |-> policy, suites |-> suites, watch |-> watch] \in Cases
    /\ present \subseteq Triggers
    /\ up \in BOOLEAN /\ leading \in BOOLEAN /\ seen \subseteq Triggers
    /\ status \in [Triggers -> 0..made] /\ spec \in [Triggers -> 0..made]
    /\ ids \in [Versions -> Seq(Ids)] /\ host \in [Versions -> Sources \cup {None}]
    /\ made \in Versions /\ hs \in [Handlers -> Handler]
    /\ exec \in Seq([st : {"active", "asked", "ended"}, trig : Triggers, round : 1..MaxEvents])
    /\ home \in Seq(Versions) /\ Len(home) = Len(exec) /\ hidden \subseteq DOMAIN exec
    /\ events \in 0..MaxEvents /\ selected \in 0..MaxTests
    /\ {refused, faults, losses, changes, crashes, deaths} \subseteq Nat

(* Forbid and Replace keep one round of executions per trigger, as long as  *)
(* one informer feeds the trigger, the lease is kept, triggers stay, no     *)
(* insert of a suite fails (testsuite_scheduler.go:121-124), and for        *)
(* Replace, which aborts only tests at once, as long as no call fails.      *)
Quiet(t) ==
    /\ losses = 0 /\ changes = 0 /\ crashes = 0 /\ deaths = 0 /\ hidden = {}
    /\ Cardinality({s \in Sources : t \in watch[s]}) = 1
    /\ policy[t] = "forbid" \/ (policy[t] = "replace" /\ t \notin suites /\ faults = 0)

OneRound ==
    \A e, f \in DOMAIN exec :
        exec[e].trig = exec[f].trig /\ Quiet(exec[e].trig)
        /\ exec[e].st # "ended" /\ exec[f].st # "ended"
            => exec[e].round = exec[f].round

(* While no trigger is updated or deleted and no request is refused, no     *)
(* goroutine meets a nil status or a list shorter than it was.  An access   *)
(* to the map of statuses beside a write, which ends the process too, is a  *)
(* Crash here.                                                              *)
NeverDies == changes = 0 /\ refused = 0 => deaths = 0

(* The scraper and Replace forget no execution that still runs, except the  *)
(* suites that were asked to abort, and the suites whose record could not   *)
(* be inserted: the scraper takes those for gone while they run             *)
(* (scraper.go:63-66).                                                      *)
Tracked ==
    \A e \in DOMAIN exec, t \in Triggers :
        home[e] # 0 /\ home[e] = status[t] /\ exec[e].st = "active" /\ e \notin hidden
        /\ crashes + deaths = 0
            => \E i \in DOMAIN ids[status[t]] : ids[status[t]][i] = e

(* Once the events cease, the handlers return and every status becomes      *)
(* free, so that Forbid does not block its trigger for ever.                *)
Settles == <>[](up /\ \A h \in Handlers : hs[h].pc = "idle"
                   /\ \A t \in Triggers : status[t] # 0 => ~Active(t))
=============================================================================
