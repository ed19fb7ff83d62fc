------------------------ MODULE TestExecutionProofs ------------------------
(* Proofs about TestExecution, for every set of abort requests, every mix   *)
(* of synchronous and asynchronous executions and every bound.              *)
EXTENDS TestExecution, TLAPS

(* Where a status can come from: everything that holds or will write one.   *)
Seen(st) == \/ rec.status = st \/ cr = st \/ scopy = st
            \/ \E o \in Objects : objects[o] = st
            \/ \E s \in Stoppers : copy[s] = st

(* The runner's result appears once, when the pod ends.                     *)
ResultOnce == pod \in {"none", "pending", "running"} => out = "none"

(* A job that failed on its deadline is remembered as such.                 *)
DeadlineKnown == job = "deadline" => deadlineHit

PassedOrigin  == ~scene.negative /\ Seen("passed") => out = "passed"
AbortedOrigin == Seen("aborted") => killed
TimeoutOrigin == Seen("timeout") => deadlineHit

Origins == ResultOnce /\ DeadlineKnown /\ PassedOrigin /\ AbortedOrigin /\ TimeoutOrigin

(* The fixed members of the two index sets.                                 *)
LEMMA Members ==
    /\ "watch" \in Stoppers /\ "monitor" \in Stoppers /\ Aborters \subseteq Stoppers
    /\ "r0" \in Objects /\ "rp" \in Objects /\ "rn" \in Objects
    /\ Aborters \subseteq Objects
    /\ \A s \in Stoppers : s # "watch" => s \in Objects
BY DEF Stoppers, Objects

(* Every variable keeps its type.                                           *)
LEMMA TypeInit == Init => TypeOK
<1> SUFFICES ASSUME Init PROVE TypeOK
  OBVIOUS
<1> USE Members DEF Init, NoMemory, PCs, Statuses, Kinds
<1>1. ptr \in [Stoppers -> Objects]
  OBVIOUS
<1>2. objects \in [Objects -> Statuses] /\ copy \in [Stoppers -> Statuses]
      /\ ev \in [Stoppers -> Kinds]
  OBVIOUS
<1>3. QED
  BY <1>1, <1>2, ScenesAssumption DEF TypeOK, store

LEMMA TypeStep == TypeOK /\ [Next]_vars => TypeOK'
<1> SUFFICES ASSUME TypeOK, [Next]_vars PROVE TypeOK'
  OBVIOUS
<1> USE Members DEF TypeOK, PCs, Statuses, Kinds, store, cluster,
            heap, sched, stops, watch, recon, budget
<1>1. CASE SchedReject
  BY <1>1 DEF SchedReject
<1>2. CASE SchedInsert
  BY <1>2 DEF SchedInsert, NoFault, Fault
<1>3. CASE SchedStart
  BY <1>3 DEF SchedStart, NoFault, Fault, Notify
<1>4. CASE SchedCreateJob
  <2>1. CASE Fault /\ ExecuteErr /\ UNCHANGED <<job, pc>>
    BY <1>4, <2>1 DEF SchedCreateJob, Fault, ExecuteErr
  <2>2. CASE NoFault /\ job' = "active" /\ spc' = "list"
    BY <1>4, <2>2 DEF SchedCreateJob, NoFault, ExecuteErr
  <2>3. QED
    BY <1>4, <2>1, <2>2 DEF SchedCreateJob
<1>5. CASE SchedListPods
  <2>1. CASE (NoFault \/ Fault) /\ ExecuteErr /\ UNCHANGED pc
    BY <1>5, <2>1 DEF SchedListPods, NoFault, Fault, ExecuteErr
  <2>2. CASE NoFault /\ UNCHANGED objects
    <3>1. pc' \in [Stoppers -> PCs]
      BY <1>5, <2>2 DEF SchedListPods, ExecuteErr
    <3>2. spc' \in {"watching", "assign"} /\ sret' \in {"r0", "rp", "rn"} /\ serr' \in BOOLEAN
      BY <1>5, <2>2 DEF SchedListPods, ExecuteErr
    <3>3. QED
      BY <1>5, <2>2, <3>1, <3>2 DEF SchedListPods, NoFault
  <2>3. QED
    BY <1>5, <2>1, <2>2 DEF SchedListPods
<1>6. CASE SchedReturn
  BY <1>6 DEF SchedReturn
<1>7. CASE SchedAssign
  BY <1>7 DEF SchedAssign
<1>8. CASE SchedCopy
  BY <1>8 DEF SchedCopy
<1>9. CASE SchedWrite
  BY <1>9 DEF SchedWrite, NoFault, Fault, UpdateResult, UpdateResultFails, SchedFails, Notify
<1>10. CASE WatchPoll
  BY <1>10 DEF WatchPoll, NoFault, Fault
<1>11. CASE WatchLogs
  <2>1. objects' \in [Objects -> Statuses] /\ cur' \in {"r0", "rp", "rn"}
    BY <1>11 DEF WatchLogs, Parsed
  <2>2. (NoFault \/ Fault) /\ werr' \in BOOLEAN
    BY <1>11 DEF WatchLogs
  <2>3. faults' \in Nat
    BY <2>2 DEF NoFault, Fault
  <2>4. QED
    BY <1>11, <2>1, <2>2, <2>3 DEF WatchLogs
<1>12. CASE WatchReturn
  BY <1>12 DEF WatchReturn
<1>13. CASE MonitorTick
  BY <1>13 DEF MonitorTick, NoFault, Fault
<1>14. CASE ReconList
  BY <1>14 DEF ReconList
<1>15. CASE ReconPods
  BY <1>15 DEF ReconPods, NoFault, Fault
<1>16. CASE ReconWrite
  BY <1>16 DEF ReconWrite, NoFault, Fault
<1>17. CASE PodCreate
  BY <1>17 DEF PodCreate, others
<1>18. CASE PodRun
  BY <1>18 DEF PodRun, others
<1>19. CASE PodFinish
  BY <1>19 DEF PodFinish, others, Finished
<1>20. CASE JobFinish
  BY <1>20 DEF JobFinish, others, Finished
<1>21. CASE JobDeadline
  BY <1>21 DEF JobDeadline, others
<1>22. CASE JobExpire
  BY <1>22 DEF JobExpire, others
<1>23. CASE PodCollect
  BY <1>23 DEF PodCollect, others
<1>24. CASE Crash
  <2>1. ptr' \in [Stoppers -> Objects] /\ ptr'["watch"] = "r0"
    BY <1>24 DEF Crash, NoMemory
  <2>2. /\ objects' \in [Objects -> Statuses] /\ copy' \in [Stoppers -> Statuses]
        /\ ev' \in [Stoppers -> Kinds]
    BY <1>24 DEF Crash, NoMemory
  <2>3. pc' \in [Stoppers -> PCs]
    BY <1>24 DEF Crash
  <2>4. /\ cur' = "r0" /\ sret' = "r0" /\ wret' = "r0" /\ scopy' = "running"
        /\ spc' = "done" /\ rpc' \in {"off", "idle"}
    BY <1>24 DEF Crash, NoMemory
  <2>5. serr' = FALSE /\ werr' = FALSE /\ rended' = FALSE /\ crashes' = crashes + 1
    BY <1>24 DEF Crash, NoMemory
  <2>6. UNCHANGED <<scene, store, cluster, events, faults>>
    BY <1>24 DEF Crash
  <2>7. serr' \in BOOLEAN /\ werr' \in BOOLEAN /\ rended' \in BOOLEAN
    BY <2>5, Zenon
  <2>8. crashes' \in Nat
    BY <1>24 DEF Crash
  <2>9. QED
    BY <2>1, <2>2, <2>3, <2>4, <2>6, <2>7, <2>8, "r0" \in Objects
<1>25. ASSUME NEW s \in Stoppers, StopRead(s) PROVE TypeOK'
  BY <1>25 DEF StopRead, NoFault, Fault
<1>26. ASSUME NEW s \in Stoppers, StopEnd(s) PROVE TypeOK'
  <2>1. objects' \in [Objects -> Statuses]
    BY <1>26 DEF StopEnd, Reversed
  <2>2. rec' \in [status : Statuses \cup {"none"}, ended : BOOLEAN]
    BY <1>26 DEF StopEnd, EndExecution
  <2>3. QED
    BY <1>26, <2>1, <2>2 DEF StopEnd, NoFault, Fault
<1>27. ASSUME NEW s \in Stoppers, StopAssign(s) PROVE TypeOK'
  <2>1. objects' \in [Objects -> Statuses]
    BY <1>27 DEF StopAssign
  <2>2. ev' \in [Stoppers -> Kinds]
    BY <1>27 DEF StopAssign, EventKind
  <2>3. cur' \in {"r0", "rp", "rn"}
    BY <1>27 DEF StopAssign
  <2>4. QED
    BY <1>27, <2>1, <2>2, <2>3 DEF StopAssign
<1>28. ASSUME NEW s \in Stoppers, StopCopy(s) PROVE TypeOK'
  BY <1>28 DEF StopCopy, Current
<1>29. ASSUME NEW s \in Stoppers, StopWrite(s) PROVE TypeOK'
  BY <1>29 DEF StopWrite, NoFault, Fault, UpdateResult, UpdateResultFails
<1>30. ASSUME NEW s \in Stoppers, StopStatus(s) PROVE TypeOK'
  BY <1>30 DEF StopStatus, NoFault, Fault, Current
<1>31. ASSUME NEW s \in Stoppers, StopNotify(s) PROVE TypeOK'
  BY <1>31 DEF StopNotify, Notify
<1>32. ASSUME NEW a \in Aborters, AbortRequest(a) PROVE TypeOK'
  BY <1>32 DEF AbortRequest
<1>33. ASSUME NEW a \in Aborters, AbortJob(a) PROVE TypeOK'
  <2>1. objects' \in [Objects -> Statuses]
    BY <1>33 DEF AbortJob
  <2>2. job' \in {job, "deleted"} /\ killed' \in BOOLEAN
    BY <1>33 DEF AbortJob
  <2>3. NoFault \/ Fault
    BY <1>33 DEF AbortJob
  <2>4. faults' \in Nat
    BY <2>3 DEF NoFault, Fault
  <2>5. QED
    BY <1>33, <2>1, <2>2, <2>4, pc' \in [Stoppers -> PCs] DEF AbortJob
<1>34. CASE UNCHANGED vars
  BY <1>34 DEF vars
<1>35. QED
  BY <1>1, <1>2, <1>3, <1>4, <1>5, <1>6, <1>7, <1>8, <1>9, <1>10, <1>11, <1>12, <1>13, <1>14, <1>15, <1>16, <1>17, <1>18, <1>19, <1>20, <1>21, <1>22, <1>23, <1>24, <1>25, <1>26, <1>27, <1>28, <1>29, <1>30, <1>31, <1>32, <1>33, <1>34
  DEF Next, Sched, Watch, Recon, Cluster, Stop, Abort

(* The type invariant of the specification.                                 *)
THEOREM TypeSafe == Spec => []TypeOK
<1>1. QED
  BY TypeInit, TypeStep, PTL DEF Spec

(* Where each status came from is settled step by step.                     *)
LEMMA OriginsInit == Init => Origins
BY Members DEF Init, NoMemory, Origins, ResultOnce, DeadlineKnown, PassedOrigin, AbortedOrigin, TimeoutOrigin, Seen

LEMMA OriginsStep == TypeOK /\ Origins /\ [Next]_vars => Origins'
<1> SUFFICES ASSUME TypeOK, Origins, [Next]_vars PROVE Origins'
  OBVIOUS
<1> USE Members DEF Origins, ResultOnce, DeadlineKnown, PassedOrigin, AbortedOrigin, TimeoutOrigin, Seen,
                    TypeOK, store, cluster, heap, sched, stops, watch, recon, budget
<1>1. CASE SchedReject
  BY <1>1 DEF SchedReject
<1>2. CASE SchedInsert
  BY <1>2 DEF SchedInsert, NoFault, Fault
<1>3. CASE SchedStart
  BY <1>3 DEF SchedStart, NoFault, Fault, Notify
<1>4. CASE SchedCreateJob
  BY <1>4 DEF SchedCreateJob, NoFault, Fault, ExecuteErr
<1>5. CASE SchedListPods
  BY <1>5 DEF SchedListPods, NoFault, Fault, ExecuteErr
<1>6. CASE SchedReturn
  BY <1>6 DEF SchedReturn
<1>7. CASE SchedAssign
  BY <1>7 DEF SchedAssign
<1>8. CASE SchedCopy
  BY <1>8 DEF SchedCopy
<1>9. CASE SchedWrite
  BY <1>9 DEF SchedWrite, NoFault, Fault, UpdateResult, UpdateResultFails, SchedFails, Notify
<1>10. CASE WatchPoll
  BY <1>10 DEF WatchPoll, NoFault, Fault
<1>11. CASE WatchLogs
  BY <1>11 DEF WatchLogs, NoFault, Fault, Parsed
<1>12. CASE WatchReturn
  BY <1>12 DEF WatchReturn
<1>13. CASE MonitorTick
  BY <1>13 DEF MonitorTick, NoFault, Fault
<1>14. CASE ReconList
  BY <1>14 DEF ReconList
<1>15. CASE ReconPods
  BY <1>15 DEF ReconPods, NoFault, Fault
<1>16. CASE ReconWrite
  BY <1>16 DEF ReconWrite, NoFault, Fault
<1>17. CASE PodCreate
  BY <1>17 DEF PodCreate, others
<1>18. CASE PodRun
  BY <1>18 DEF PodRun, others
<1>19. CASE PodFinish
  BY <1>19 DEF PodFinish, others, Finished
<1>20. CASE JobFinish
  BY <1>20 DEF JobFinish, others, Finished
<1>21. CASE JobDeadline
  BY <1>21 DEF JobDeadline, others
<1>22. CASE JobExpire
  BY <1>22 DEF JobExpire, others
<1>23. CASE PodCollect
  BY <1>23 DEF PodCollect, others
<1>24. CASE Crash
  BY <1>24 DEF Crash, NoMemory
<1>25. ASSUME NEW s \in Stoppers, StopRead(s) PROVE Origins'
  BY <1>25 DEF StopRead, NoFault, Fault
<1>26. ASSUME NEW s \in Stoppers, StopEnd(s) PROVE Origins'
  BY <1>26 DEF StopEnd, NoFault, Fault, EndExecution, Reversed
<1>27. ASSUME NEW s \in Stoppers, StopAssign(s) PROVE Origins'
  BY <1>27 DEF StopAssign, EventKind
<1>28. ASSUME NEW s \in Stoppers, StopCopy(s) PROVE Origins'
  BY <1>28 DEF StopCopy, Current
<1>29. ASSUME NEW s \in Stoppers, StopWrite(s) PROVE Origins'
  BY <1>29 DEF StopWrite, NoFault, Fault, UpdateResult, UpdateResultFails
<1>30. ASSUME NEW s \in Stoppers, StopStatus(s) PROVE Origins'
  BY <1>30 DEF StopStatus, NoFault, Fault, Current
<1>31. ASSUME NEW s \in Stoppers, StopNotify(s) PROVE Origins'
  BY <1>31 DEF StopNotify, Notify
<1>32. ASSUME NEW a \in Aborters, AbortRequest(a) PROVE Origins'
  BY <1>32 DEF AbortRequest
<1>33. ASSUME NEW a \in Aborters, AbortJob(a) PROVE Origins'
  BY <1>33 DEF AbortJob, NoFault, Fault
<1>34. CASE UNCHANGED vars
  BY <1>34 DEF vars
<1>35. QED
  BY <1>1, <1>2, <1>3, <1>4, <1>5, <1>6, <1>7, <1>8, <1>9, <1>10, <1>11, <1>12, <1>13, <1>14, <1>15, <1>16, <1>17, <1>18, <1>19, <1>20, <1>21, <1>22, <1>23, <1>24, <1>25, <1>26, <1>27, <1>28, <1>29, <1>30, <1>31, <1>32, <1>33, <1>34
  DEF Next, Sched, Watch, Recon, Cluster, Stop, Abort

(* The safety invariants follow from the origins.                           *)
THEOREM StatusesJustified == Spec => []StatusJustified
<1>1. Origins => StatusJustified
  BY DEF Origins, PassedOrigin, AbortedOrigin, TimeoutOrigin, Seen,
         StatusJustified, NoFalsePass, CancelJustified
<1>2. QED
  BY <1>1, TypeInit, TypeStep, OriginsInit, OriginsStep, PTL DEF Spec

(* Whoever reads a stored abort or timeout goes away, so that only an actor *)
(* who had read the record before it was stored can overwrite it.           *)
LEMMA SettledStays ==
    ASSUME TypeOK, [Next]_vars, NEW st \in {"aborted", "timeout"}, Settled(st)
    PROVE  Settled(st)'
<1> USE Members DEF Settled, NoPendingWriter, TypeOK, store, cluster, heap, sched, stops, watch,
                    recon, budget
<1>1. CASE SchedReject
  BY <1>1 DEF SchedReject
<1>2. CASE SchedInsert
  BY <1>2 DEF SchedInsert, NoFault, Fault
<1>3. CASE SchedStart
  BY <1>3 DEF SchedStart, NoFault, Fault, Notify
<1>4. CASE SchedCreateJob
  BY <1>4 DEF SchedCreateJob, NoFault, Fault, ExecuteErr
<1>5. CASE SchedListPods
  BY <1>5 DEF SchedListPods, NoFault, Fault, ExecuteErr
<1>6. CASE SchedReturn
  BY <1>6 DEF SchedReturn
<1>7. CASE SchedAssign
  BY <1>7 DEF SchedAssign
<1>8. CASE SchedCopy
  BY <1>8 DEF SchedCopy
<1>9. CASE SchedWrite
  BY <1>9 DEF SchedWrite, NoFault, Fault, UpdateResult, UpdateResultFails, SchedFails, Notify
<1>10. CASE WatchPoll
  BY <1>10 DEF WatchPoll, NoFault, Fault
<1>11. CASE WatchLogs
  BY <1>11 DEF WatchLogs, NoFault, Fault, Parsed
<1>12. CASE WatchReturn
  BY <1>12 DEF WatchReturn
<1>13. CASE MonitorTick
  BY <1>13 DEF MonitorTick, NoFault, Fault
<1>14. CASE ReconList
  BY <1>14 DEF ReconList
<1>15. CASE ReconPods
  BY <1>15 DEF ReconPods, NoFault, Fault
<1>16. CASE ReconWrite
  BY <1>16 DEF ReconWrite, NoFault, Fault
<1>17. CASE Cluster
  BY <1>17 DEF Cluster, PodCreate, PodRun, PodFinish, JobFinish, JobDeadline, JobExpire,
            PodCollect, others
<1>18. CASE Crash
  BY <1>18 DEF Crash, NoMemory
<1>19. ASSUME NEW s \in Stoppers, StopRead(s) PROVE Settled(st)'
  BY <1>19 DEF StopRead, NoFault, Fault
<1>20. ASSUME NEW s \in Stoppers, StopEnd(s) PROVE Settled(st)'
  BY <1>20 DEF StopEnd, NoFault, Fault, EndExecution, Reversed
<1>21. ASSUME NEW s \in Stoppers, StopAssign(s) PROVE Settled(st)'
  BY <1>21 DEF StopAssign, EventKind
<1>22. ASSUME NEW s \in Stoppers, StopCopy(s) PROVE Settled(st)'
  BY <1>22 DEF StopCopy, Current
<1>23. ASSUME NEW s \in Stoppers, StopWrite(s) PROVE Settled(st)'
  BY <1>23 DEF StopWrite, NoFault, Fault, UpdateResult, UpdateResultFails
<1>24. ASSUME NEW s \in Stoppers, StopStatus(s) PROVE Settled(st)'
  BY <1>24 DEF StopStatus, NoFault, Fault, Current
<1>25. ASSUME NEW s \in Stoppers, StopNotify(s) PROVE Settled(st)'
  BY <1>25 DEF StopNotify, Notify
<1>26. ASSUME NEW a \in Aborters, AbortRequest(a) PROVE Settled(st)'
  BY <1>26 DEF AbortRequest
<1>27. ASSUME NEW a \in Aborters, AbortJob(a) PROVE Settled(st)'
  BY <1>27 DEF AbortJob, NoFault, Fault
<1>28. CASE UNCHANGED vars
  BY <1>28 DEF vars
<1> QED
  BY <1>1, <1>2, <1>3, <1>4, <1>5, <1>6, <1>7, <1>8, <1>9, <1>10, <1>11, <1>12, <1>13, <1>14,
     <1>15, <1>16, <1>17, <1>18, <1>19, <1>20, <1>21, <1>22, <1>23, <1>24, <1>25, <1>26, <1>27, <1>28
  DEF Next, Sched, Watch, Recon, Stop, Abort

(* An abort or a timeout that is settled stays, in every scene.             *)
THEOREM CancelsFinal == Spec => CancelIsFinal
<1>1. TypeOK /\ [Next]_vars => [\A st \in {"aborted", "timeout"} : Settled(st) => Settled(st)']_vars
  BY SettledStays
<1> QED
  BY <1>1, TypeInit, TypeStep, PTL DEF Spec, CancelIsFinal

-----------------------------------------------------------------------------
(* A synchronous execution that is left alone: scheduler and watcher take   *)
(* turns, and what the watcher decided goes through its object into record, *)
(* resource and event, and with the scheduler into the record once more.    *)
Alone == scene.sync /\ ~scene.aborts /\ rpc = "off"

Verdict == {"passed", "failed"}
Before  == {"insert", "start", "create", "list"}
Ending  == {"read", "end", "assign", "copy", "write", "status", "notify"}

NobodyElse == /\ pc["monitor"] \in {"off", "done"}
              /\ \A a \in Aborters : pc[a] \in {"request", "done"}
Turns == /\ pc["watch"] # "request"
         /\ spc \in Before => pc["watch"] = "off"
         /\ spc # "watching" => pc["watch"] \in {"off", "done"}
Decided ==
    /\ pc["watch"] \in {"return", "read", "end", "assign"} => werr \/ objects[cur] \in Verdict
    /\ pc["watch"] \in Ending => ptr["watch"] = cur /\ wret = cur
    /\ pc["watch"] \in {"copy", "write", "status", "notify"} =>
          objects[cur] \in Verdict /\ ev["watch"] = KindOf(objects[cur])
    /\ pc["watch"] = "write" => copy["watch"] = objects[cur]
    /\ pc["watch"] \in {"status", "notify"} => rec.status = objects[cur]
    /\ pc["watch"] = "notify" => cr = objects[cur]
Lasting == \A k \in Kinds : Published("watch", k) =>
    /\ pc["watch"] = "done" /\ spc \notin Before
    /\ rec.status \in Verdict /\ KindOf(rec.status) = k /\ cr = rec.status
    /\ spc = "watching" => objects[wret] = rec.status
    /\ spc = "assign" => objects[sret] = rec.status
    /\ spc = "copy" => objects[cur] = rec.status
    /\ spc = "write" => scopy = rec.status

Reports == Alone => NobodyElse /\ Turns /\ Decided /\ Lasting

LEMMA ReportsInit == Init => Reports
BY Members, AbortersAssumption
   DEF Init, NoMemory, Reports, NobodyElse, Turns, Decided, Lasting, Published, Before, Ending

LEMMA ReportsStep == ASSUME TypeOK, Reports, [Next]_vars PROVE Reports'
<1> USE Members, AbortersAssumption
    DEF Reports, Alone, NobodyElse, Turns, Decided, Lasting, Published, KindOf, Verdict, Before, Ending,
        TypeOK, store, cluster, heap, sched, stops, watch, recon, budget
<1>1. CASE SchedReject
  BY <1>1 DEF SchedReject
<1>2. CASE SchedInsert
  BY <1>2 DEF SchedInsert, NoFault, Fault
<1>3. CASE SchedStart
  BY <1>3 DEF SchedStart, NoFault, Fault, Notify
<1>4. CASE SchedCreateJob
  BY <1>4 DEF SchedCreateJob, NoFault, Fault, ExecuteErr
<1>5. CASE SchedListPods
  BY <1>5 DEF SchedListPods, NoFault, Fault, ExecuteErr
<1>6. CASE SchedReturn
  BY <1>6 DEF SchedReturn
<1>7. CASE SchedAssign
  BY <1>7 DEF SchedAssign
<1>8. CASE SchedCopy
  BY <1>8 DEF SchedCopy
<1>9. CASE SchedWrite
  BY <1>9 DEF SchedWrite, NoFault, Fault, UpdateResult, UpdateResultFails, SchedFails, Notify
<1>10. CASE WatchPoll
  BY <1>10 DEF WatchPoll, NoFault, Fault
<1>11. CASE WatchLogs
  BY <1>11 DEF WatchLogs, NoFault, Fault, Parsed
<1>12. CASE WatchReturn
  BY <1>12 DEF WatchReturn
<1>13. CASE MonitorTick
  BY <1>13 DEF MonitorTick, NoFault, Fault
<1>14. CASE ReconList
  BY <1>14 DEF ReconList
<1>15. CASE ReconPods
  BY <1>15 DEF ReconPods, NoFault, Fault
<1>16. CASE ReconWrite
  BY <1>16 DEF ReconWrite, NoFault, Fault
<1>17. CASE Cluster
  BY <1>17 DEF Cluster, PodCreate, PodRun, PodFinish, JobFinish, JobDeadline, JobExpire,
            PodCollect, others
<1>18. CASE Crash
  BY <1>18 DEF Crash, NoMemory
<1>19. ASSUME NEW s \in Stoppers, StopRead(s) PROVE Reports'
  BY <1>19 DEF StopRead, NoFault, Fault
<1>20. ASSUME NEW s \in Stoppers, StopEnd(s) PROVE Reports'
  BY <1>20 DEF StopEnd, NoFault, Fault, EndExecution, Reversed
<1>21. ASSUME NEW s \in Stoppers, StopAssign(s) PROVE Reports'
  BY <1>21 DEF StopAssign, EventKind
<1>22. ASSUME NEW s \in Stoppers, StopCopy(s) PROVE Reports'
  BY <1>22 DEF StopCopy, Current
<1>23. ASSUME NEW s \in Stoppers, StopWrite(s) PROVE Reports'
  <2>1. CASE ~Alone'
    BY <2>1
  <2>2. CASE Alone'
    <3>1. Alone /\ s = "watch" /\ UNCHANGED <<cr, objects, cur, spc, ptr, ev, wret, werr, events>>
      BY <1>23, <2>2 DEF StopWrite, Stoppers
    <3>2. /\ pc' = [pc EXCEPT !["watch"] = "status"] /\ rec'.status = copy["watch"]
          \/ pc' = [pc EXCEPT !["watch"] = "done"]
      BY <1>23, <3>1 DEF StopWrite, UpdateResult
    <3>3. pc["watch"] = "write" /\ \A k \in Kinds : ~Published("watch", k)'
      BY <1>23, <3>1 DEF StopWrite
    <3> QED
      BY <3>1, <3>2, <3>3
  <2> QED
    BY <2>1, <2>2
<1>24. ASSUME NEW s \in Stoppers, StopStatus(s) PROVE Reports'
  <2>1. CASE ~Alone'
    BY <2>1
  <2>2. CASE Alone'
    <3>1. Alone /\ s = "watch" /\ UNCHANGED <<rec, objects, cur, spc, ptr, ev, wret, werr, events>>
      BY <1>24, <2>2 DEF StopStatus, Stoppers
    <3>2. /\ pc' = [pc EXCEPT !["watch"] = "notify"] /\ cr' = objects[Current("watch")]
          \/ pc' = [pc EXCEPT !["watch"] = "done"]
      BY <1>24, <3>1 DEF StopStatus
    <3>3. pc["watch"] = "status" /\ \A k \in Kinds : ~Published("watch", k)'
      BY <1>24, <3>1 DEF StopStatus
    <3> QED
      BY <3>1, <3>2, <3>3 DEF Current
  <2> QED
    BY <2>1, <2>2
<1>25. ASSUME NEW s \in Stoppers, StopNotify(s) PROVE Reports'
  BY <1>25 DEF StopNotify, Notify
<1>26. ASSUME NEW a \in Aborters, AbortRequest(a) PROVE Reports'
  BY <1>26 DEF AbortRequest
<1>27. ASSUME NEW a \in Aborters, AbortJob(a) PROVE Reports'
  BY <1>27 DEF AbortJob, NoFault, Fault
<1>28. CASE UNCHANGED vars
  BY <1>28 DEF vars
<1> QED
  BY <1>1, <1>2, <1>3, <1>4, <1>5, <1>6, <1>7, <1>8, <1>9, <1>10, <1>11, <1>12, <1>13, <1>14,
     <1>15, <1>16, <1>17, <1>18, <1>19, <1>20, <1>21, <1>22, <1>23, <1>24, <1>25, <1>26, <1>27, <1>28
  DEF Next, Sched, Watch, Recon, Stop, Abort

(* Event, record and Test of an execution that is left alone agree, whatever *)
(* failed and whenever the server stopped.                                  *)
THEOREM Reported == Spec => []ReportsAgree
<1>1. Reports => ReportsAgree
  BY DEF Reports, Alone, Lasting, ReportsAgree
<1> QED
  BY <1>1, TypeInit, TypeStep, ReportsInit, ReportsStep, PTL DEF Spec
=============================================================================
