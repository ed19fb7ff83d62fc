---------------------------- MODULE TriggerLease ----------------------------
(* The lease that decides which instance of the API server watches the     *)
(* cluster for its test triggers: one document in MongoDB, and in every     *)
(* instance a checker that polls it and a watcher that starts and stops its *)
(* informers as the checker says.  Its names differ from those of module     *)
(* Triggers, what the watching instance does, so that a module may extend    *)
(* both.                                                                     *)
EXTENDS Naturals

CONSTANTS
    Instances,  \* the API server's pods over time, by host name
    Nobody,     \* not an instance: no document yet
    MaxLease,   \* defaultMaxLeaseDuration, in ticks of the clock
    MaxFaults,  \* bound: database calls that fail
    MaxCrashes  \* bound: instances that go away for good

ASSUME NobodyAssumption == Nobody \notin Instances
ASSUME LeaseAssumption == MaxLease \in Nat /\ MaxFaults \in Nat /\ MaxCrashes \in Nat

VARIABLES
    lease,    \* the document: its identifier and the age of its RenewedAt
    pods,     \* the instances that run
    pc, copy, \* per instance: where its check is, the lease it holds in memory
    leased,   \* per instance: what its last check answered
    running,  \* per instance: runWatcher's running, its informers watch
    informed, \* per instance: its last look at the document is later than the
              \* last change of the identifier in it (history)
    failed, departed

doc == <<lease, informed>>
leaseVars == <<lease, pods, pc, copy, leased, running, informed, failed, departed>>

NewLease(i) == [holder |-> i, age |-> 0]

(* Ages beyond the lease duration are not told apart.                       *)
Older(l) == IF l.age > MaxLease THEN l ELSE [l EXCEPT !.age = @ + 1]

Expired(l) == l.age > MaxLease

LeaseInit ==
    /\ lease = NewLease(Nobody) /\ pods = {}
    /\ pc = [i \in Instances |-> "down"] /\ copy = [i \in Instances |-> NewLease(Nobody)]
    /\ leased = [i \in Instances |-> FALSE] /\ running = [i \in Instances |-> FALSE]
    /\ informed = [i \in Instances |-> FALSE]
    /\ failed = 0 /\ departed = 0

Goto(i, label) == pc' = [pc EXCEPT ![i] = label]

Answer(i, yes) == leased' = [leased EXCEPT ![i] = yes] /\ Goto(i, "answer")

(* The document gets the lease that i has in memory.                        *)
Write(i) ==
    /\ lease' = copy[i]
    /\ informed' = IF lease.holder = copy[i].holder THEN informed
                   ELSE [j \in Instances |-> j = i]

Tick ==
    /\ lease' = Older(lease) /\ copy' = [i \in Instances |-> Older(copy[i])]
    /\ UNCHANGED <<pods, pc, leased, running, informed, failed, departed>>

Start(i) ==
    /\ pc[i] = "down" /\ i \notin pods
    /\ pods' = pods \cup {i} /\ Goto(i, "idle")
    /\ UNCHANGED <<lease, copy, leased, running, informed, failed, departed>>

(* Mutant: a missing document is taken for an expired lease.                *)
FindLeaseMut(i) ==
    /\ pc[i] = "idle"
    /\ copy' = [copy EXCEPT ![i] = lease] /\ Goto(i, "found")
    /\ informed' = [informed EXCEPT ![i] = TRUE]
    /\ UNCHANGED <<lease, pods, leased, running, failed, departed>>

FindLease(i) ==
    /\ pc[i] = "idle"
    /\ \/ /\ lease.holder # Nobody
          /\ copy' = [copy EXCEPT ![i] = lease] /\ Goto(i, "found")
       \/ /\ lease.holder = Nobody
          /\ copy' = [copy EXCEPT ![i] = NewLease(i)] /\ Goto(i, "insert")
    /\ informed' = [informed EXCEPT ![i] = TRUE]
    /\ UNCHANGED <<lease, pods, leased, running, failed, departed>>

InsertLease(i) ==
    /\ pc[i] = "insert"
    /\ \/ /\ lease.holder = Nobody /\ Write(i) /\ Goto(i, "found")
          /\ UNCHANGED leased
       \/ /\ lease.holder # Nobody /\ Answer(i, FALSE)  \* the _id exists already
          /\ UNCHANGED doc
    /\ UNCHANGED <<pods, copy, running, failed, departed>>

(* Mutant: the identifier of the lease is not looked at.                    *)
LeaseStatusMut(i) ==
    /\ pc[i] = "found"
    /\ \/ /\ Expired(copy[i])
          /\ copy' = [copy EXCEPT ![i] = NewLease(i)] /\ Goto(i, "update")
          /\ UNCHANGED leased
       \/ /\ ~Expired(copy[i]) /\ Answer(i, TRUE)
          /\ UNCHANGED copy
    /\ UNCHANGED <<doc, pods, running, failed, departed>>

(* Mutant: an expired lease is renewed by its own instance only.            *)
LeaseStatusOwn(i) ==
    /\ pc[i] = "found"
    /\ \/ /\ Expired(copy[i]) /\ copy[i].holder = i
          /\ copy' = [copy EXCEPT ![i] = NewLease(i)] /\ Goto(i, "update")
          /\ UNCHANGED leased
       \/ /\ ~(Expired(copy[i]) /\ copy[i].holder = i)
          /\ Answer(i, copy[i].holder = i)
          /\ UNCHANGED copy
    /\ UNCHANGED <<doc, pods, running, failed, departed>>

LeaseStatus(i) ==
    /\ pc[i] = "found"
    /\ \/ /\ Expired(copy[i])
          /\ copy' = [copy EXCEPT ![i] = NewLease(i)] /\ Goto(i, "update")
          /\ UNCHANGED leased
       \/ /\ ~Expired(copy[i]) /\ Answer(i, copy[i].holder = i)
          /\ UNCHANGED copy
    /\ UNCHANGED <<doc, pods, running, failed, departed>>

(* The update's filter is the _id alone: whatever the document holds.       *)
UpdateLease(i) ==
    /\ pc[i] = "update" /\ Write(i) /\ Goto(i, "updated")
    /\ UNCHANGED <<pods, copy, leased, running, failed, departed>>

(* leaseStatus again, on the document that the update returned.             *)
ConfirmLease(i) ==
    /\ pc[i] = "updated"
    /\ Answer(i, ~Expired(copy[i]) /\ copy[i].holder = i)
    /\ UNCHANGED <<doc, pods, copy, running, failed, departed>>

(* A call that the database refuses, or carries out without telling.        *)
CallFails(i) ==
    /\ pc[i] \in {"idle", "insert", "update"} /\ failed < MaxFaults
    /\ failed' = failed + 1 /\ Answer(i, FALSE)
    /\ \/ UNCHANGED doc
       \/ pc[i] = "insert" /\ lease.holder = Nobody /\ Write(i)
       \/ pc[i] = "update" /\ Write(i)
    /\ UNCHANGED <<pods, copy, running, departed>>

(* Mutant: a lost lease is only logged.                                     *)
WatchMut(i) ==
    /\ pc[i] = "answer" /\ Goto(i, "idle")
    /\ running' = [running EXCEPT ![i] = @ \/ leased[i]]
    /\ UNCHANGED <<doc, pods, copy, leased, failed, departed>>

(* leaseChan is not buffered: checker and watcher meet, and the informers   *)
(* are started or stopped when the answer is news.                          *)
Watch(i) ==
    /\ pc[i] = "answer" /\ Goto(i, "idle")
    /\ running' = [running EXCEPT ![i] = leased[i]]
    /\ UNCHANGED <<doc, pods, copy, leased, failed, departed>>

GoAway(i) ==
    /\ i \in pods /\ departed < MaxCrashes
    /\ pods' = pods \ {i} /\ departed' = departed + 1 /\ Goto(i, "gone")
    /\ running' = [running EXCEPT ![i] = FALSE] /\ leased' = [leased EXCEPT ![i] = FALSE]
    /\ UNCHANGED <<doc, copy, failed>>

Check(i) ==
    \/ FindLease(i) \/ InsertLease(i) \/ LeaseStatus(i) \/ UpdateLease(i)
    \/ ConfirmLease(i) \/ Watch(i)

LeaseNext ==
    \/ Tick
    \/ \E i \in Instances : Start(i) \/ Check(i) \/ CallFails(i) \/ GoAway(i)

(* The clock runs, every goroutine is scheduled and every call returns, and *)
(* not every renewal takes longer than the lease lasts.                     *)
Fairness ==
    /\ WF_leaseVars(Tick)
    /\ \A i \in Instances :
          /\ WF_leaseVars(Start(i)) /\ WF_leaseVars(Check(i))
          /\ SF_leaseVars(~Expired(copy[i]) /\ UpdateLease(i))
          /\ SF_leaseVars(~Expired(copy[i]) /\ ConfirmLease(i))

LeaseSpec == LeaseInit /\ [][LeaseNext]_leaseVars /\ Fairness

-----------------------------------------------------------------------------

Labels == {"down", "idle", "insert", "found", "update", "updated", "answer", "gone"}
Leases == [holder : Instances \cup {Nobody}, age : 0..(MaxLease + 1)]

(* The types; a lease that is judged, written or confirmed names somebody,  *)
(* and nothing but an instance that is up checks or watches.                *)
LeaseTypeOK ==
    /\ lease \in Leases /\ copy \in [Instances -> Leases]
    /\ pods \subseteq Instances /\ pc \in [Instances -> Labels]
    /\ leased \in [Instances -> BOOLEAN] /\ running \in [Instances -> BOOLEAN]
    /\ informed \in [Instances -> BOOLEAN]
    /\ failed \in 0..MaxFaults /\ departed \in 0..MaxCrashes
    /\ \A i \in Instances :
          /\ pc[i] = "found" => copy[i].holder # Nobody
          /\ pc[i] \in {"insert", "update", "updated"} => copy[i].holder = i
          /\ i \in pods <=> pc[i] \notin {"down", "gone"}
          /\ running[i] \/ leased[i] => i \in pods

(* An instance keeps watching after the document named another only until   *)
(* it looks: between two checks, an instance whose last look is later than  *)
(* the last take-over watches only if the document names it. The watch has  *)
(* two owners no longer than one check takes (lease.go:28-34,               *)
(* watcher.go:86-93).                                                       *)
WatchersCaughtUp ==
    \A i \in Instances :
        pc[i] = "idle" /\ informed[i] /\ running[i] => lease.holder = i

(* Whoever lost the lease stops watching or gets it back, whatever fails    *)
(* and whoever writes the document at the same time.                        *)
LoserStops ==
    \A i \in Instances : running[i] /\ lease.holder # i ~> ~running[i] \/ lease.holder = i

(* While instances are up, somebody watches again and again: after the      *)
(* watching instance went away, after a failed check and after every        *)
(* expiry, though nothing renews a lease before it expires.                 *)
SomebodyWatches ==
    pods # {} ~> pods = {} \/ \E i \in Instances : running[i]
=============================================================================
