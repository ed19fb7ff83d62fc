------------------------------- MODULE Emitter -------------------------------
(* The listeners of an API server: rounds that load the webhooks of the     *)
(* cluster and bring the subscriptions of the event bus into line with      *)
(* them, the bus that keeps one subscription for each name of a queue, and  *)
(* Listen, which starts the listeners it finds while a round may be under   *)
(* way.  A listener is told apart by its name and by what it would send.    *)
EXTENDS Naturals, Sequences, FiniteSetsExt

CONSTANTS
    Instances,      \* replicas of the API server
    HookName,       \* names of the listeners of the webhooks, in the order of their list
    Contents,       \* what the fields of a webhook may say
    None,           \* no webhook, no subscription
    Broken,         \* what a webhook says that names a template which is not there
    MaxEdits,       \* bound on the changes of webhooks
    MaxFaults,      \* bound on the calls of the cluster or the bus that fail
    MaxCrashes      \* bound on the restarts of replicas

ASSUME NamesAssumption == HookName \in Seq(STRING) /\ None \notin STRING
ASSUME ContentsAssumption == None \notin Contents /\ Broken \notin Contents \cup {None}
ASSUME BoundsAssumption == {MaxEdits, MaxFaults, MaxCrashes} \subseteq Nat

VARIABLES
    hooks, edits,   \* webhooks of the cluster
    phase,          \* of the round of a replica
    loaded, list,   \* listeners by name: of this round, and of the last one
    toStop, toStart,\* names this round has still to stop and to start
    between,        \* the name it has stopped in order to start it again, or None
    kept, leaked,   \* open subscriptions: the stored one of a name, and others
    listen, heard,  \* starts Listen has still to make; names it found
    deaf,           \* history: names whose last start by a round failed
    stuck,          \* history: names of which a stop failed
    faults, crashes

cluster == <<hooks, edits>>
round   == <<phase, loaded, list, toStop, toStart, between>>
bus     == <<kept, leaked>>
late    == <<listen, heard>>
errors  == <<deaf, stuck>>
vars == <<cluster, round, bus, late, errors, faults, crashes>>

Hooks == DOMAIN HookName
Names == {HookName[h] : h \in Hooks}
Nothing == [n \in Names |-> None]

(* A name stands for the last webhook of the list that bears it: the names  *)
(* of webhooks that differ in a dash or an underscore are the same.         *)
Alive(n) == {h \in Hooks : HookName[h] = n /\ hooks[h] # None}
Snapshot == [n \in Names |-> IF Alive(n) = {} THEN None ELSE hooks[Max(Alive(n))]]

(* One webhook whose template is missing is an error of the whole load, and *)
(* a loader that fails has no listeners.                                    *)
Found == IF \E h \in Hooks : hooks[h] = Broken THEN Nothing ELSE Snapshot

Init ==
    /\ hooks \in [Hooks -> Contents \cup {Broken, None}] /\ edits = 0
    /\ phase = [i \in Instances |-> "load"]
    /\ loaded = [i \in Instances |-> Nothing] /\ list = [i \in Instances |-> Nothing]
    /\ toStop = [i \in Instances |-> {}] /\ toStart = [i \in Instances |-> {}]
    /\ between = [i \in Instances |-> None]
    /\ kept = [i \in Instances |-> Nothing]
    /\ leaked = [i \in Instances |-> [n \in Names |-> {}]]
    /\ listen = [i \in Instances |-> Nothing] /\ heard = [i \in Instances |-> {None}]
    /\ deaf = [i \in Instances |-> {}] /\ stuck = [i \in Instances |-> {}]
    /\ faults = 0 /\ crashes = 0

(* Somebody creates, changes or deletes a webhook, or its template.         *)
Edit(h) ==
    /\ edits < MaxEdits /\ edits' = edits + 1
    /\ \E c \in (Contents \cup {Broken, None}) \ {hooks[h]} : hooks' = [hooks EXCEPT ![h] = c]
    /\ UNCHANGED <<round, bus, late, errors, faults, crashes>>

-----------------------------------------------------------------------------
(* A round: Loader.Reconcile and UpdateListeners, which stops what is       *)
(* missing before it starts what is new and restarts what has changed.      *)
BeginMut(i, found) ==   \* mutant: listeners are compared by name alone
    LET gone    == {n \in Names : list[i][n] # None /\ found[n] = None}
        changed == {n \in Names : found[n] # None /\ list[i][n] = None} IN
    /\ phase[i] = "load" /\ phase' = [phase EXCEPT ![i] = "update"]
    /\ loaded' = [loaded EXCEPT ![i] = found]
    /\ toStop' = [toStop EXCEPT ![i] = gone]
    /\ toStart' = [toStart EXCEPT ![i] = changed]
    /\ UNCHANGED <<cluster, list, between, bus, late, errors, crashes>>
Begin(i, found) ==
    LET gone    == {n \in Names : list[i][n] # None /\ found[n] = None}
        changed == {n \in Names : found[n] # None /\ found[n] # list[i][n]} IN
    /\ phase[i] = "load" /\ phase' = [phase EXCEPT ![i] = "update"]
    /\ loaded' = [loaded EXCEPT ![i] = found]
    /\ toStop' = [toStop EXCEPT ![i] = gone]
    /\ toStart' = [toStart EXCEPT ![i] = changed]
    /\ UNCHANGED <<cluster, list, between, bus, late, errors, crashes>>

Fault == faults < MaxFaults /\ faults' = faults + 1

Load(i)      == Begin(i, Found) /\ UNCHANGED faults
LoadFails(i) == Begin(i, Nothing) /\ Fault

(* Unsubscribe drains the subscription that is stored, unless that fails,   *)
(* which is only logged.                                                    *)
Unsubscribe(i, n) ==
    /\ \/ kept' = [kept EXCEPT ![i][n] = None] /\ UNCHANGED <<stuck, faults>>
       \/ /\ kept[i][n] # None /\ Fault /\ stuck' = [stuck EXCEPT ![i] = @ \cup {n}]
          /\ UNCHANGED kept
    /\ UNCHANGED <<cluster, phase, loaded, list, leaked, late, crashes>>

(* SubscribeTopic stores the new subscription, and another that was stored  *)
(* is out of reach.                                                         *)
Subscribe(i, n, c) ==
    /\ kept' = [kept EXCEPT ![i][n] = c]
    /\ leaked' = [leaked EXCEPT ![i][n] = @ \cup ({kept[i][n]} \ {None})]

Stop(i, n) ==
    /\ n \in toStop[i] /\ toStop' = [toStop EXCEPT ![i] = @ \ {n}] /\ Unsubscribe(i, n)
    /\ deaf' = [deaf EXCEPT ![i] = @ \ {n}] /\ UNCHANGED <<toStart, between>>

(* A listener that has changed is stopped, and then started.                *)
Restart(i, n) ==
    /\ toStop[i] = {} /\ n \in toStart[i] /\ list[i][n] # None /\ between[i] = None
    /\ between' = [between EXCEPT ![i] = n] /\ Unsubscribe(i, n)
    /\ UNCHANGED <<toStop, toStart, deaf>>

Starts(i, n) ==
    /\ toStop[i] = {} /\ n \in toStart[i] /\ toStart' = [toStart EXCEPT ![i] = @ \ {n}]
    /\ between[i] = IF list[i][n] = None THEN None ELSE n
    /\ between' = [between EXCEPT ![i] = None]
    /\ UNCHANGED <<cluster, phase, loaded, list, toStop, late, stuck, crashes>>

StartMut(i, n) ==   \* mutant: a listener that changed is not stopped first
    /\ toStop[i] = {} /\ n \in toStart[i] /\ toStart' = [toStart EXCEPT ![i] = @ \ {n}]
    /\ Subscribe(i, n, loaded[i][n])
    /\ deaf' = [deaf EXCEPT ![i] = @ \ {n}]
    /\ UNCHANGED <<cluster, phase, loaded, list, toStop, between, late, stuck, faults, crashes>>
Start(i, n) ==
    /\ Starts(i, n) /\ Subscribe(i, n, loaded[i][n])
    /\ deaf' = [deaf EXCEPT ![i] = @ \ {n}] /\ UNCHANGED faults

(* A subscription that fails is only logged: the listener is in the list,   *)
(* and no round starts it again before it changes.                          *)
StartFails(i, n) ==
    /\ Starts(i, n) /\ Fault
    /\ deaf' = [deaf EXCEPT ![i] = @ \cup {n}] /\ UNCHANGED bus

RoundEnds(i) ==
    /\ phase[i] = "update" /\ toStop[i] = {} /\ toStart[i] = {}
    /\ phase' = [phase EXCEPT ![i] = "load"] /\ list' = [list EXCEPT ![i] = loaded[i]]
    /\ loaded' = [loaded EXCEPT ![i] = Nothing]
    /\ UNCHANGED <<cluster, toStop, toStart, between, bus, late, errors, faults, crashes>>

-----------------------------------------------------------------------------
(* Listen runs once, beside the rounds, and waits for their mutex; the      *)
(* goroutines it leaves do not.                                             *)
Listen(i) ==
    /\ None \in heard[i] /\ phase[i] = "load"
    /\ heard' = [heard EXCEPT ![i] = {n \in Names : list[i][n] # None}]
    /\ listen' = [listen EXCEPT ![i] = list[i]]
    /\ UNCHANGED <<cluster, round, bus, errors, faults, crashes>>

ListenStarts(i, n) ==
    /\ listen[i][n] # None /\ listen' = [listen EXCEPT ![i][n] = None]
    /\ \/ Subscribe(i, n, listen[i][n]) /\ UNCHANGED faults
       \/ Fault /\ UNCHANGED bus
    /\ UNCHANGED <<cluster, round, heard, errors, crashes>>

(* A replica that restarts has lost its lists, and its connection.          *)
Crash(i) ==
    /\ crashes < MaxCrashes /\ crashes' = crashes + 1
    /\ phase' = [phase EXCEPT ![i] = "load"]
    /\ loaded' = [loaded EXCEPT ![i] = Nothing] /\ list' = [list EXCEPT ![i] = Nothing]
    /\ toStop' = [toStop EXCEPT ![i] = {}] /\ toStart' = [toStart EXCEPT ![i] = {}]
    /\ between' = [between EXCEPT ![i] = None] /\ kept' = [kept EXCEPT ![i] = Nothing]
    /\ leaked' = [leaked EXCEPT ![i] = [n \in Names |-> {}]]
    /\ listen' = [listen EXCEPT ![i] = Nothing] /\ heard' = [heard EXCEPT ![i] = {None}]
    /\ deaf' = [deaf EXCEPT ![i] = {}] /\ stuck' = [stuck EXCEPT ![i] = {}]
    /\ UNCHANGED <<cluster, faults>>

Round(i) ==
    \/ Load(i) \/ LoadFails(i) \/ RoundEnds(i)
    \/ \E n \in Names : Stop(i, n) \/ Restart(i, n) \/ Start(i, n) \/ StartFails(i, n)
Late(i) == Listen(i) \/ \E n \in Names : ListenStarts(i, n)

Next ==
    \/ \E h \in Hooks : Edit(h)
    \/ \E i \in Instances : Round(i) \/ Late(i) \/ Crash(i)

(* The rounds of a replica follow each other, and goroutines get to run.    *)
Spec == Init /\ [][Next]_vars
             /\ \A i \in Instances : WF_vars(Round(i)) /\ WF_vars(Late(i))

-----------------------------------------------------------------------------
Open(i, n) == leaked[i][n] \cup ({kept[i][n]} \ {None})

(* Between two rounds the subscriptions of a replica are those of its list, *)
(* whatever order they were stopped, changed and started in; one more, at   *)
(* most, is left of a name that Listen started beside a round.  What breaks *)
(* it is a call of the bus that failed, which is only logged                *)
(* (emitter.go:159-173): a subscription, until the webhook changes, and a   *)
(* stop, whose subscription may stay for good.                              *)
ListMatchesBus ==
    \A i \in Instances, n \in Names :
        LET others == Open(i, n) \ {list[i][n]} IN
        phase[i] = "load" =>
            /\ list[i][n] # None /\ n \notin deaf[i] => list[i][n] \in Open(i, n)
            /\ others # {} /\ n \notin stuck[i] => n \in heard[i] /\ Cardinality(others) = 1

(* What the webhooks say in the end comes to be subscribed in every         *)
(* replica, after calls that failed and replicas that restarted: the last   *)
(* state of each, or none of them while one names a template that is        *)
(* missing (webhook/loader.go:50-54); and it alone unless Listen started    *)
(* its name beside a round.  Names are left aside that the bus refused.     *)
InLine(i, n) ==
    /\ Found[n] # None /\ n \notin deaf[i] => Found[n] \in Open(i, n)
    /\ n \notin heard[i] \cup deaf[i] \cup stuck[i] => Open(i, n) = {Found[n]} \ {None}
Converges == <>[](\A i \in Instances, n \in Names : InLine(i, n))
=============================================================================
