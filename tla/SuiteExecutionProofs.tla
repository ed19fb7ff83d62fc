------------------------ MODULE SuiteExecutionProofs ------------------------
(* Proofs about SuiteExecution, for every number of batches, every mix of   *)
(* batches and every bound.                                                 *)
EXTENDS SuiteExecution, TLAPS

(* The type invariant in parts; that a runner with a verdict has a final    *)
(* status and that a batch is executed within bounds makes them inductive.  *)
Records == mem \in Record /\ rec \in Record /\ kcopy \in Record
Tests == /\ scene \in Scenes /\ kind \in [Batches -> scene.kinds] /\ stopOn \in [Batches -> BOOLEAN]
         /\ exec \in [Batches -> {"none", "running", "passed", "failed", "aborted"}]
         /\ val \in [Batches -> {"none", "pending", "executing", "passed", "failed",
                                 "running", "lost", "gone"}]
Steps == /\ rpc \in {"insert", "subscribe", "batch", "exec", "save", "after",
                     "status", "done"}
         /\ idx \in 1..(N + 1) /\ kidx \in 1..(N + 1)
         /\ kpc \in {"idle", "look"} /\ kstatus \in Final /\ late \subseteq Batches
Flags == /\ failed \in BOOLEAN /\ cancel \in BOOLEAN
         /\ abortion \in {"none", "aborting", "timeout"}
Messages == /\ sub \in {"none", "live", "drained"} /\ inbox \in Seq({"aborted", "timeout"})
            /\ sending \in {"none", "aborting", "timeout"}
            /\ dsubs \subseteq Batches /\ dsend \subseteq Batches
            /\ dpc \in {"off", "subscribe", "wait"}
            /\ timer \in {"off", "started", "armed", "fired", "done"}
            /\ asked \subseteq Aborters
Reports == cr \in Final \cup {"none"} /\ events \subseteq Final
Bounds == faults \in 0..scene.faults /\ crashes \in 0..scene.crashes
Progress == /\ rpc \in {"save", "after", "status"} => mem.status \in Final
            /\ rpc = "exec" => idx \in Batches

Types == /\ Records /\ Tests /\ Steps /\ Flags /\ Messages /\ Reports /\ Bounds
         /\ Progress

LEMMA Parts == Types => TypeOK
BY DEF Types, Records, Tests, Steps, Flags, Messages, Reports, Bounds, TypeOK

(* What the EXCEPTs of the runner and of the reconciler make of a record.   *)
LEMMA NewRecords == Empty \in Record /\ Started \in Record
BY DEF Empty, Started, Record, Queued, StepStatuses, Final

LEMMA Statuses ==
    ASSUME NEW r \in Record, NEW st \in Final \cup {"none", "running", "aborting"}
    PROVE  /\ [r EXCEPT !.status = st] \in Record
           /\ [r EXCEPT !.status = st].status = st
           /\ [r EXCEPT !.ended = TRUE] \in Record
           /\ [r EXCEPT !.ended = TRUE].status = r.status
BY DEF Record

LEMMA StepRecords ==
    ASSUME NEW r \in Record, NEW b \in Batches,
           NEW s \in StepStatuses, NEW t \in StepStatuses
    PROVE  /\ [r EXCEPT !.test[b] = s] \in Record
           /\ [r EXCEPT !.delay[b] = t] \in Record
           /\ [r EXCEPT !.test[b] = s, !.delay[b] = t] \in Record
<1>1. r.test \in [Batches -> StepStatuses] /\ r.delay \in [Batches -> StepStatuses]
  BY DEF Record
<1>2. /\ [r.test EXCEPT ![b] = s] \in [Batches -> StepStatuses]
      /\ [r.delay EXCEPT ![b] = t] \in [Batches -> StepStatuses]
  BY <1>1
<1> QED
  BY <1>2 DEF Record

LEMMA TypeInit == Init => Types
<1> SUFFICES ASSUME Init PROVE Types
  OBVIOUS
<1>1. Records
  BY NewRecords DEF Init, NoMemory, Records
<1>2. Tests
  BY ScenesAssumption DEF Init, Tests
<1>3. Steps /\ Bounds
  BY BatchAssumption, ScenesAssumption DEF Init, NoMemory, Steps, Bounds, Final
<1>5. Flags /\ Reports /\ Progress
  BY DEF Init, NoMemory, Flags, Reports, Progress
<1>4. Messages
  BY DEF Init, NoMemory, Messages
<1> QED
  BY <1>1, <1>2, <1>3, <1>4, <1>5 DEF Types

LEMMA TypeStep == Types /\ [Next]_vars => Types'
<1> SUFFICES ASSUME Types, [Next]_vars PROVE Types'
  OBVIOUS
<1> USE BatchAssumption
    DEF suite, store, tests, runner, bus, delays, outside, recon, budget
<1>r. Records
  BY DEF Types
<1>t. Tests
  BY DEF Types
<1>s. Steps
  BY DEF Types
<1>f. Flags
  BY DEF Types
<1>m. Messages
  BY DEF Types
<1>e. Reports
  BY DEF Types
<1>b. Bounds
  BY DEF Types
<1>l. scene.faults \in Nat /\ scene.crashes \in Nat
  BY <1>t, ScenesAssumption DEF Tests
<1>c. Progress
  BY DEF Types
<1>1. CASE SuiteInsert
  <2>1. Tests' /\ Flags' /\ Reports'
    BY <1>1, <1>t, <1>f, <1>e
       DEF SuiteInsert, Tests, Flags, Reports
  <2>2. Records'
    BY <1>1, <1>r
       DEF SuiteInsert, Records, NoFault, Fault
  <2>3. Steps'
    BY <1>1, <1>s
       DEF SuiteInsert, Steps, NoFault, Fault
  <2>4. Messages'
    BY <1>1, <1>m
       DEF SuiteInsert, Messages, NoFault, Fault
  <2>5. Bounds'
    BY <1>1, <1>b, <1>l
       DEF SuiteInsert, Bounds, NoFault, Fault
  <2>6. Progress'
    BY <1>1, <1>c
       DEF SuiteInsert, Progress, NoFault, Fault
  <2> QED
    BY <2>1, <2>2, <2>3, <2>4, <2>5, <2>6 DEF Types
<1>2. CASE Subscribe
  <2>1. Records' /\ Tests' /\ Flags' /\ Reports' /\ Bounds'
    BY <1>2, <1>r, <1>t, <1>f, <1>e, <1>b
       DEF Subscribe, Records, Tests, Flags, Reports, Bounds
  <2>2. Steps'
    BY <1>2, <1>s
       DEF Subscribe, Steps
  <2>3. Messages'
    BY <1>2, <1>m
       DEF Subscribe, Messages
  <2>4. Progress'
    BY <1>2, <1>c
       DEF Subscribe, Progress
  <2> QED
    BY <2>1, <2>2, <2>3, <2>4 DEF Types
<1>3. CASE BatchCancel
  <2>0. mem' \in Record
    <3>1. idx \in Batches
      BY <1>3, <1>s DEF BatchCancel, Steps, Batches
    <3>2. [mem EXCEPT !.status = "aborting"] \in Record
      BY <1>r, Statuses DEF Records
    <3>3. [[mem EXCEPT !.status = "aborting"]
              EXCEPT !.test[idx] = "aborted", !.delay[idx] = "aborted"] \in Record
      BY <3>1, <3>2, StepRecords DEF StepStatuses
    <3> QED
      BY <1>3, <3>3 DEF BatchCancel
  <2>1. Tests' /\ Reports' /\ Bounds'
    BY <1>3, <1>t, <1>e, <1>b
       DEF BatchCancel, Tests, Reports, Bounds
  <2>2. Records'
    BY <1>3, <1>r, <2>0
       DEF BatchCancel, Records, Received
  <2>3. Steps'
    BY <1>3, <1>s, <2>0
       DEF BatchCancel, Steps, Received, Batches
  <2>4. Flags'
    BY <1>3, <1>f, <1>m
       DEF BatchCancel, Flags, Messages, Received
  <2>5. Messages'
    BY <1>3, <1>m, <2>0
       DEF BatchCancel, Messages, Received
  <2>6. Progress'
    BY <1>3, <1>c, <2>0
       DEF BatchCancel, Progress, Received, Batches
  <2> QED
    BY <2>1, <2>2, <2>3, <2>4, <2>5, <2>6 DEF Types
<1>4. CASE BatchStart
  <2>0. mem' \in Record /\ idx \in Batches
    <3>1. idx \in Batches
      BY <1>4, <1>s DEF BatchStart, Steps, Batches
    <3> QED
      BY <1>4, <1>r, <3>1, StepRecords DEF BatchStart, Records, StepStatuses
  <2>1. Flags' /\ Reports'
    BY <1>4, <1>f, <1>e
       DEF BatchStart, Flags, Reports
  <2>2. Records'
    BY <1>4, <1>r, <2>0
       DEF BatchStart, Records, Update, NoFault, Fault
  <2>3. Tests'
    BY <1>4, <1>t, <2>0
       DEF BatchStart, Tests, Update, NoFault, Fault
  <2>4. Steps'
    BY <1>4, <1>s, <2>0
       DEF BatchStart, Steps, Update, NoFault, Fault, Batches
  <2>5. Messages'
    BY <1>4, <1>m, <2>0
       DEF BatchStart, Messages, Update, NoFault, Fault
  <2>6. Bounds'
    BY <1>4, <1>b, <1>l, <2>0
       DEF BatchStart, Bounds, Update, NoFault, Fault
  <2>7. Progress'
    BY <1>4, <1>c, <2>0
       DEF BatchStart, Progress, Update, NoFault, Fault, Batches
  <2> QED
    BY <2>1, <2>2, <2>3, <2>4, <2>5, <2>6, <2>7 DEF Types
<1>5. CASE BatchEnd
  <2>0. mem' \in Record /\ idx \in Batches
    <3>1. idx \in Batches
      BY <1>5, <1>c DEF BatchEnd, Progress
    <3> QED
      BY <1>5, <1>r, <3>1, StepRecords DEF BatchEnd, Returned, Records, StepStatuses
  <2>1. Tests' /\ Messages' /\ Reports'
    BY <1>5, <1>t, <1>m, <1>e
       DEF BatchEnd, Tests, Messages, Reports
  <2>2. Records'
    BY <1>5, <1>r, <2>0
       DEF BatchEnd, Records, Update, NoFault, Fault
  <2>3. Steps'
    BY <1>5, <1>s, <2>0
       DEF BatchEnd, Steps, Update, NoFault, Fault, Batches
  <2>4. Flags'
    BY <1>5, <1>f, <2>0
       DEF BatchEnd, Flags, Update, NoFault, Fault
  <2>5. Bounds'
    BY <1>5, <1>b, <1>l, <2>0
       DEF BatchEnd, Bounds, Update, NoFault, Fault
  <2>6. Progress'
    BY <1>5, <1>c, <2>0
       DEF BatchEnd, Progress, Update, NoFault, Fault, Batches
  <2> QED
    BY <2>1, <2>2, <2>3, <2>4, <2>5, <2>6 DEF Types
<1>6. CASE RunnerVerdict
  <2>0. mem' \in Record /\ mem'.status \in Final /\ Verdict \in Final
    <3>1. Verdict \in Final
      BY DEF Verdict, Final
    <3> QED
      BY <1>6, <1>r, <3>1, Statuses DEF RunnerVerdict, Records
  <2>1. Tests' /\ Flags' /\ Messages' /\ Bounds'
    BY <1>6, <1>t, <1>f, <1>m, <1>b
       DEF RunnerVerdict, Tests, Flags, Messages, Bounds
  <2>2. Records'
    BY <1>6, <1>r, <2>0
       DEF RunnerVerdict, Records, Notify
  <2>3. Steps'
    BY <1>6, <1>s, <2>0
       DEF RunnerVerdict, Steps, Notify
  <2>4. Reports'
    BY <1>6, <1>e, <2>0
       DEF RunnerVerdict, Reports, Notify
  <2>5. Progress'
    BY <1>6, <1>c, <2>0
       DEF RunnerVerdict, Progress, Notify
  <2> QED
    BY <2>1, <2>2, <2>3, <2>4, <2>5 DEF Types
<1>7. CASE RunnerSave
  <2>1. Tests' /\ Flags' /\ Reports'
    BY <1>7, <1>t, <1>f, <1>e
       DEF RunnerSave, Tests, Flags, Reports
  <2>2. Records'
    BY <1>7, <1>r
       DEF RunnerSave, Records, Update, NoFault, Fault
  <2>3. Steps'
    BY <1>7, <1>s
       DEF RunnerSave, Steps, Update, NoFault, Fault
  <2>4. Messages'
    BY <1>7, <1>m
       DEF RunnerSave, Messages, Update, NoFault, Fault
  <2>5. Bounds'
    BY <1>7, <1>b, <1>l
       DEF RunnerSave, Bounds, Update, NoFault, Fault
  <2>6. Progress'
    BY <1>7, <1>c
       DEF RunnerSave, Progress, Update, NoFault, Fault
  <2> QED
    BY <2>1, <2>2, <2>3, <2>4, <2>5, <2>6 DEF Types
<1>8. CASE RunnerAfter
  <2>0. mem' \in Record /\ mem'.status \in Final /\ rec' \in Record
    <3>1. mem' \in Record /\ mem'.status = mem.status
      BY <1>8, <1>r, Statuses DEF RunnerAfter, Records, Final
    <3>2. rec' \in Record
      BY <1>8, <1>r, Statuses DEF RunnerAfter, Records, Final
    <3> QED
      BY <1>8, <1>c, <3>1, <3>2 DEF RunnerAfter, Progress
  <2>1. Tests' /\ Flags' /\ Messages' /\ Reports'
    BY <1>8, <1>t, <1>f, <1>m, <1>e
       DEF RunnerAfter, Tests, Flags, Messages, Reports
  <2>2. Records'
    BY <1>8, <1>r, <2>0
       DEF RunnerAfter, Records, NoFault, Fault
  <2>3. Steps'
    BY <1>8, <1>s, <2>0
       DEF RunnerAfter, Steps, NoFault, Fault
  <2>4. Bounds'
    BY <1>8, <1>b, <1>l, <2>0
       DEF RunnerAfter, Bounds, NoFault, Fault
  <2>5. Progress'
    BY <1>8, <1>c, <2>0
       DEF RunnerAfter, Progress, NoFault, Fault
  <2> QED
    BY <2>1, <2>2, <2>3, <2>4, <2>5 DEF Types
<1>9. CASE RunnerStatus
  <2>1. Records' /\ Tests' /\ Flags' /\ Messages'
    BY <1>9, <1>r, <1>t, <1>f, <1>m
       DEF RunnerStatus, Records, Tests, Flags, Messages
  <2>2. Steps'
    BY <1>9, <1>s
       DEF RunnerStatus, Steps, NoFault, Fault
  <2>3. Reports'
    BY <1>9, <1>e, <1>c
       DEF RunnerStatus, Reports, NoFault, Fault, Progress
  <2>4. Bounds'
    BY <1>9, <1>b, <1>l
       DEF RunnerStatus, Bounds, NoFault, Fault
  <2>5. Progress'
    BY <1>9, <1>c
       DEF RunnerStatus, Progress, NoFault, Fault
  <2> QED
    BY <2>1, <2>2, <2>3, <2>4, <2>5 DEF Types
<1>10. CASE TestStart
  <2>1. Records' /\ Steps' /\ Flags' /\ Messages' /\ Reports' /\ Bounds' /\ Progress'
    BY <1>10, <1>r, <1>s, <1>f, <1>m, <1>e, <1>b, <1>c
       DEF TestStart, Records, Steps, Flags, Messages, Reports, Bounds, Progress
  <2>2. Tests'
    BY <1>10, <1>t
       DEF TestStart, Tests
  <2> QED
    BY <2>1, <2>2 DEF Types
<1>11. CASE TestEnd
  <2>1. Records' /\ Steps' /\ Flags' /\ Messages' /\ Reports' /\ Bounds' /\ Progress'
    BY <1>11, <1>r, <1>s, <1>f, <1>m, <1>e, <1>b, <1>c
       DEF TestEnd, Records, Steps, Flags, Messages, Reports, Bounds, Progress
  <2>2. Tests'
    <3>1. PICK v \in {"passed", "failed", "running"} : \E e \in {v, "aborted"} :
              /\ val' = [val EXCEPT ![idx] = v]
              /\ exec' = [exec EXCEPT ![idx] = e]
      BY <1>11 DEF TestEnd
    <3>2. PICK e \in {v, "aborted"} : /\ val' = [val EXCEPT ![idx] = v]
                                     /\ exec' = [exec EXCEPT ![idx] = e]
      BY <3>1
    <3>3. e \in {"passed", "failed", "running", "aborted"}
      BY <3>2
    <3> QED
      BY <1>11, <1>t, <3>2, <3>3 DEF TestEnd, Tests
  <2> QED
    BY <2>1, <2>2 DEF Types
<1>12. CASE DelaySubscribe
  <2>1. Records' /\ Tests' /\ Steps' /\ Flags' /\ Reports' /\ Bounds' /\ Progress'
    BY <1>12, <1>r, <1>t, <1>s, <1>f, <1>e, <1>b, <1>c
       DEF DelaySubscribe, Records, Tests, Steps, Flags, Reports, Bounds, Progress
  <2>2. Messages'
    BY <1>12, <1>m, <1>c
       DEF DelaySubscribe, Messages, Progress
  <2> QED
    BY <2>1, <2>2 DEF Types
<1>13. CASE DelayFinished
  <2>0. mem' \in Record
    <3>1. idx \in Batches
      BY <1>13, <1>c DEF DelayFinished, Progress
    <3> QED
      BY <1>13, <1>r, <3>1, StepRecords DEF DelayFinished, Records, StepStatuses
  <2>1. Tests' /\ Steps' /\ Flags' /\ Reports' /\ Bounds'
    BY <1>13, <1>t, <1>s, <1>f, <1>e, <1>b
       DEF DelayFinished, Tests, Steps, Flags, Reports, Bounds
  <2>2. Records'
    BY <1>13, <1>r, <2>0
       DEF DelayFinished, Records
  <2>3. Messages'
    BY <1>13, <1>m, <2>0
       DEF DelayFinished, Messages
  <2>4. Progress'
    BY <1>13, <1>c, <2>0
       DEF DelayFinished, Progress
  <2> QED
    BY <2>1, <2>2, <2>3, <2>4 DEF Types
<1>14. CASE DelayAborted
  <2>0. mem' \in Record
    <3>1. idx \in Batches
      BY <1>14, <1>c DEF DelayAborted, Progress
    <3> QED
      BY <1>14, <1>r, <3>1, StepRecords DEF DelayAborted, Records, StepStatuses
  <2>1. Tests' /\ Steps' /\ Flags' /\ Reports' /\ Bounds'
    BY <1>14, <1>t, <1>s, <1>f, <1>e, <1>b
       DEF DelayAborted, Tests, Steps, Flags, Reports, Bounds
  <2>2. Records'
    BY <1>14, <1>r, <2>0
       DEF DelayAborted, Records
  <2>3. Messages'
    BY <1>14, <1>m, <2>0
       DEF DelayAborted, Messages
  <2>4. Progress'
    BY <1>14, <1>c, <2>0
       DEF DelayAborted, Progress
  <2> QED
    BY <2>1, <2>2, <2>3, <2>4 DEF Types
<1>15. CASE Callback
  <2>1. Records' /\ Tests' /\ Steps' /\ Flags' /\ Reports' /\ Bounds' /\ Progress'
    BY <1>15, <1>r, <1>t, <1>s, <1>f, <1>e, <1>b, <1>c
       DEF Callback, Records, Tests, Steps, Flags, Reports, Bounds, Progress
  <2>2. Messages'
    BY <1>15, <1>m
       DEF Callback, Messages
  <2> QED
    BY <2>1, <2>2 DEF Types
<1>16. CASE TimeoutArm
  <2>1. Records' /\ Tests' /\ Steps' /\ Flags' /\ Reports' /\ Bounds' /\ Progress'
    BY <1>16, <1>r, <1>t, <1>s, <1>f, <1>e, <1>b, <1>c
       DEF TimeoutArm, Records, Tests, Steps, Flags, Reports, Bounds, Progress
  <2>2. Messages'
    BY <1>16, <1>m
       DEF TimeoutArm, Messages
  <2> QED
    BY <2>1, <2>2 DEF Types
<1>17. CASE TimeoutFire
  <2>1. Records' /\ Tests' /\ Steps' /\ Flags' /\ Reports' /\ Bounds' /\ Progress'
    BY <1>17, <1>r, <1>t, <1>s, <1>f, <1>e, <1>b, <1>c
       DEF TimeoutFire, Records, Tests, Steps, Flags, Reports, Bounds, Progress
  <2>2. Messages'
    BY <1>17, <1>m
       DEF TimeoutFire, Messages, Publish
  <2> QED
    BY <2>1, <2>2 DEF Types
<1>18. CASE SuiteList
  <2>1. Tests' /\ Flags' /\ Messages' /\ Reports' /\ Bounds'
    BY <1>18, <1>t, <1>f, <1>m, <1>e, <1>b
       DEF SuiteList, Tests, Flags, Messages, Reports, Bounds
  <2>2. Records'
    BY <1>18, <1>r
       DEF SuiteList, Records, Final
  <2>3. Steps'
    BY <1>18, <1>s
       DEF SuiteList, Steps, Final
  <2>4. Progress'
    BY <1>18, <1>c
       DEF SuiteList, Progress, Final
  <2> QED
    BY <2>1, <2>2, <2>3, <2>4 DEF Types
<1>19. CASE SuiteLook
  <2>0. /\ kcopy' \in Record /\ kpc' \in {"idle", "look"}
        /\ kidx' \in 1..(N + 1) /\ kstatus' \in Final /\ late' \subseteq Batches
    <3>1. CASE SuiteDone
      BY <3>1, NewRecords DEF SuiteDone, Final
    <3>2. CASE UNCHANGED <<kpc, kcopy, late>> /\ kidx' \in {N + 1, kidx + 1}
               /\ kstatus' \in Final
      BY <1>19, <1>r, <1>s, <3>2 DEF SuiteLook, Records, Steps
    <3>3. SuiteDone \/ (UNCHANGED <<kpc, kcopy, late>> /\ kidx' \in {N + 1, kidx + 1}
                        /\ kstatus' \in {"failed", "aborted", kstatus})
      BY <1>19 DEF SuiteLook
    <3> QED
      BY <1>s, <3>1, <3>2, <3>3 DEF Steps, Final
  <2>1. Tests' /\ Flags' /\ Messages' /\ Reports'
    BY <1>19, <1>t, <1>f, <1>m, <1>e
       DEF SuiteLook, Tests, Flags, Messages, Reports
  <2>2. Records'
    BY <1>19, <1>r, <2>0
       DEF SuiteLook, Records, NoFault
  <2>3. Steps'
    BY <1>19, <1>s, <2>0
       DEF SuiteLook, Steps, NoFault
  <2>4. Bounds'
    BY <1>19, <1>b, <2>0
       DEF SuiteLook, Bounds, NoFault
  <2>5. Progress'
    BY <1>19, <1>c, <2>0
       DEF SuiteLook, Progress, NoFault
  <2> QED
    BY <2>1, <2>2, <2>3, <2>4, <2>5 DEF Types
<1>20. CASE SuiteLookFails
  <2>1. Tests' /\ Flags' /\ Messages' /\ Reports'
    BY <1>20, <1>t, <1>f, <1>m, <1>e
       DEF SuiteLookFails, Tests, Flags, Messages, Reports
  <2>2. Records'
    BY <1>20, <1>r, NewRecords
       DEF SuiteLookFails, Records, Fault, SuiteDone, Final
  <2>3. Steps'
    BY <1>20, <1>s, NewRecords
       DEF SuiteLookFails, Steps, Fault, SuiteDone, Final
  <2>4. Bounds'
    BY <1>20, <1>b, <1>l, NewRecords
       DEF SuiteLookFails, Bounds, Fault, SuiteDone, Final
  <2>5. Progress'
    BY <1>20, <1>c, NewRecords
       DEF SuiteLookFails, Progress, Fault, SuiteDone, Final
  <2> QED
    BY <2>1, <2>2, <2>3, <2>4, <2>5 DEF Types
<1>21. CASE SuiteWrite
  <2>0. rec' \in Record
    <3>1. kcopy \in Record /\ rec \in Record /\ kstatus \in Final
      BY <1>r, <1>s DEF Records, Steps
    <3> DEFINE mark(f) == [b \in Batches |-> IF f[b] = "running" THEN kstatus ELSE f[b]]
    <3>2. /\ kcopy.test \in [Batches -> StepStatuses]
          /\ kcopy.delay \in [Batches -> StepStatuses]
      BY <3>1 DEF Record
    <3>3. kstatus \in StepStatuses
      BY <3>1 DEF StepStatuses, Final
    <3>4. /\ mark(kcopy.test) \in [Batches -> StepStatuses]
          /\ mark(kcopy.delay) \in [Batches -> StepStatuses]
      BY <3>2, <3>3
    <3>5. [kcopy EXCEPT !.status = kstatus, !.test = mark(kcopy.test),
                        !.delay = mark(kcopy.delay)] \in Record
      BY <3>1, <3>4 DEF Record
    <3> QED
      BY <1>21, <3>1, <3>5 DEF SuiteWrite
  <2>1. Tests' /\ Flags' /\ Messages' /\ Reports'
    BY <1>21, <1>t, <1>f, <1>m, <1>e
       DEF SuiteWrite, Tests, Flags, Messages, Reports
  <2>2. Records'
    BY <1>21, <1>r, <2>0, NewRecords
       DEF SuiteWrite, Records, NoFault, Fault, SuiteDone, Final
  <2>3. Steps'
    BY <1>21, <1>s, <2>0, NewRecords
       DEF SuiteWrite, Steps, NoFault, Fault, SuiteDone, Final
  <2>4. Bounds'
    BY <1>21, <1>b, <1>l, <2>0, NewRecords
       DEF SuiteWrite, Bounds, NoFault, Fault, SuiteDone, Final
  <2>5. Progress'
    BY <1>21, <1>c, <2>0, NewRecords
       DEF SuiteWrite, Progress, NoFault, Fault, SuiteDone, Final
  <2> QED
    BY <2>1, <2>2, <2>3, <2>4, <2>5 DEF Types
<1>22. CASE Crash
  <2>1. Reports'
    BY <1>22, <1>e
       DEF Crash, Reports
  <2>2. Records'
    BY <1>22, <1>r, NewRecords
       DEF Crash, Records, NoMemory, SuiteDone, Final
  <2>3. Tests'
    BY <1>22, <1>t, NewRecords
       DEF Crash, Tests, NoMemory, SuiteDone, Final
  <2>4. Steps'
    BY <1>22, <1>s, NewRecords
       DEF Crash, Steps, NoMemory, SuiteDone, Final
  <2>5. Flags'
    BY <1>22, <1>f, NewRecords
       DEF Crash, Flags, NoMemory, SuiteDone, Final
  <2>6. Messages'
    BY <1>22, <1>m, NewRecords
       DEF Crash, Messages, NoMemory, SuiteDone, Final
  <2>7. Bounds'
    BY <1>22, <1>b, <1>l, NewRecords
       DEF Crash, Bounds, NoMemory, SuiteDone, Final
  <2>8. Progress'
    BY <1>22, <1>c, NewRecords
       DEF Crash, Progress, NoMemory, SuiteDone, Final
  <2> QED
    BY <2>1, <2>2, <2>3, <2>4, <2>5, <2>6, <2>7, <2>8 DEF Types
<1>23. ASSUME NEW a \in Aborters, AbortRequest(a) PROVE Types'
  <2>1. Records' /\ Tests' /\ Steps' /\ Flags' /\ Reports' /\ Bounds' /\ Progress'
    BY <1>23, <1>r, <1>t, <1>s, <1>f, <1>e, <1>b, <1>c
       DEF AbortRequest, Records, Tests, Steps, Flags, Reports, Bounds, Progress
  <2>2. Messages'
    BY <1>23, <1>m
       DEF AbortRequest, Messages, Publish
  <2> QED
    BY <2>1, <2>2 DEF Types
<1>24. ASSUME NEW b \in Batches, TestReconciled(b) PROVE Types'
  <2>1. Records' /\ Steps' /\ Flags' /\ Messages' /\ Reports' /\ Bounds' /\ Progress'
    BY <1>24, <1>r, <1>s, <1>f, <1>m, <1>e, <1>b, <1>c
       DEF TestReconciled, Records, Steps, Flags, Messages, Reports, Bounds, Progress
  <2>2. Tests'
    BY <1>24, <1>t
       DEF TestReconciled, Tests
  <2> QED
    BY <2>1, <2>2 DEF Types
<1>26. ASSUME NEW b \in Batches, TestAborted(b) PROVE Types'
  <2>1. Records' /\ Flags' /\ Messages' /\ Reports' /\ Bounds' /\ Progress'
    BY <1>26, <1>r, <1>f, <1>m, <1>e, <1>b, <1>c
       DEF TestAborted, Records, Flags, Messages, Reports, Bounds, Progress
  <2>2. Steps'
    BY <1>26, <1>s
       DEF TestAborted, Steps
  <2>3. Tests'
    BY <1>26, <1>t
       DEF TestAborted, Tests
  <2> QED
    BY <2>1, <2>2, <2>3 DEF Types
<1>25. CASE UNCHANGED vars
  BY <1>25, <1>r, <1>t, <1>s, <1>f, <1>m, <1>e, <1>b, <1>c
     DEF vars, Types, Records, Tests, Steps, Flags, Messages, Reports, Bounds, Progress
<1> QED
  BY <1>1, <1>2, <1>3, <1>4, <1>5, <1>6, <1>7, <1>8, <1>9, <1>10, <1>11,
     <1>12, <1>13, <1>14, <1>15, <1>16, <1>17, <1>18, <1>19, <1>20, <1>21, <1>22,
     <1>23, <1>24, <1>25, <1>26
     DEF Next, Runner, Test, Delay, Recon

(* Every variable keeps its type, a suite that ends has a final status.     *)
THEOREM TypeSafe == Spec => []TypeOK
<1> QED
  BY TypeInit, TypeStep, Parts, PTL DEF Spec

-----------------------------------------------------------------------------
(* Why a verdict is justified.  While the suite runs nothing is announced,  *)
(* the batches ahead have no result, the executing batch is not yet counted *)
(* and every batch behind it did not fail, unless a failure was counted.    *)
Running == rpc \in {"insert", "subscribe", "batch", "exec"}
SomeFailed == \E b \in Batches : Failing(b)

Quiet   == Running => events = {} /\ mem.status \in {"running", "aborting"}
Ahead   == Running => \A b \in Batches : (b > idx \/ (b = idx /\ rpc # "exec")) => val[b] = "none"
Current == rpc = "exec" => /\ HasTest(idx) => val[idx] # "none"
                           /\ mem.test[idx] # "failed" /\ mem.delay[idx] # "failed"
Behind  == Running /\ mem.status = "running" =>
              \A b \in Batches : b < idx /\ ~failed =>
                  /\ HasTest(b) => val[b] \in {"passed", "running", "lost"}
                  /\ ~Untyped(b)
Counted == failed => SomeFailed \/ faults > 0

Verdicts == Quiet /\ Ahead /\ Current /\ Behind /\ Counted /\ VerdictJustified

(* A step that leaves the runner and the results alone, or only moves the   *)
(* runner on without a result, keeps all of it.                             *)
LEMMA VerdictKept ==
    ASSUME Types, Verdicts, faults' \in Nat, faults' >= faults,
           UNCHANGED <<kind, mem, idx, failed, val, events>>,
           \/ UNCHANGED rpc
           \/ Running /\ Running' /\ rpc # "exec" /\ rpc' # "exec"
           \/ ~Running /\ ~Running'
    PROVE  Verdicts'
<1>1. faults \in Nat
  BY DEF Types, Bounds
<1>2. Running' = Running /\ (rpc' = "exec" <=> rpc = "exec")
  BY DEF Running
<1>3. Quiet' /\ Ahead' /\ Behind'
  BY <1>2 DEF Verdicts, Quiet, Ahead, Behind, Untyped, HasTest
<1>4. Current'
  BY <1>2 DEF Verdicts, Current, HasTest
<1>5. Counted' /\ VerdictJustified'
  BY <1>1 DEF Verdicts, Counted, SomeFailed, VerdictJustified, Failing, Untyped, HasTest
<1> QED
  BY <1>3, <1>4, <1>5 DEF Verdicts

LEMMA VerdictInit == Init => Verdicts
<1> SUFFICES ASSUME Init PROVE Verdicts
  OBVIOUS
<1>1. mem.status = "running" /\ idx = 1 /\ rpc = "insert" /\ events = {} /\ failed = FALSE
      /\ \A b \in Batches : val[b] = "none"
  BY DEF Init, NoMemory, Started, Empty
<1>2. \A b \in Batches : ~(b < 1)
  BY BatchAssumption DEF Batches
<1> QED
  BY <1>1, <1>2
     DEF Verdicts, Quiet, Ahead, Current, Behind, Counted, VerdictJustified, Running

LEMMA VerdictStep == ASSUME Types, Verdicts, [Next]_vars PROVE Verdicts'
<1> USE DEF suite, store, tests, runner, bus, delays, outside, recon, budget
<1>b. faults \in Nat
  BY DEF Types, Bounds
<1>i. idx \in Nat /\ N \in Nat /\ Batches = 1..N
  BY BatchAssumption DEF Types, Steps, Batches
<1>v. val \in [Batches -> {"none", "pending", "executing", "passed", "failed",
                           "running", "lost", "gone"}]
  BY DEF Types, Tests
<1>m. /\ mem.test \in [Batches -> StepStatuses] /\ mem.delay \in [Batches -> StepStatuses]
      /\ mem \in Record
  BY DEF Types, Records, Record
<1>p. rpc = "exec" => idx \in Batches
  BY DEF Types, Progress
<1>1. CASE SuiteInsert
  BY <1>1, <1>b, VerdictKept DEF SuiteInsert, NoFault, Fault, Running
<1>2. CASE Subscribe
  BY <1>2, <1>b, VerdictKept DEF Subscribe, Running
<1>3. CASE BatchCancel
  <2>1. /\ rpc = "batch" /\ idx \in Batches /\ idx' = idx + 1
        /\ UNCHANGED <<kind, rpc, failed, val, events, faults>>
    BY <1>3, <1>i, BatchAssumption DEF BatchCancel, Types, Steps
  <2>2. mem'.status = "aborting"
    BY <1>3, <1>m DEF BatchCancel, Record
  <2>3. Quiet' /\ Current' /\ Behind'
    BY <2>1, <2>2 DEF Verdicts, Quiet, Current, Behind, Running
  <2>4. Ahead'
    BY <1>i, <2>1 DEF Verdicts, Ahead, Running
  <2>5. Counted' /\ VerdictJustified'
    BY <2>1 DEF Verdicts, Counted, SomeFailed, VerdictJustified, Failing, Untyped, HasTest
  <2> QED
    BY <2>3, <2>4, <2>5 DEF Verdicts
<1>4. CASE BatchStart
  <2>1. /\ rpc = "batch" /\ rpc' = "exec" /\ idx \in Batches
        /\ faults' \in Nat /\ faults' >= faults
        /\ UNCHANGED <<kind, idx, failed, events>>
    BY <1>4, <1>b, <1>i, BatchAssumption DEF BatchStart, NoFault, Fault, Types, Steps
  <2>2. /\ mem'.status = mem.status
        /\ mem'.test[idx] = "running" /\ mem'.delay[idx] = "running"
    BY <1>4, <1>m, <2>1 DEF BatchStart, Record
  <2>3. /\ val[idx] = "none" /\ val'[idx] # "failed" /\ (HasTest(idx) => val'[idx] = "pending")
        /\ \A b \in Batches : b # idx => val'[b] = val[b]
    BY <1>4, <1>v, <1>i, <2>1 DEF BatchStart, Verdicts, Ahead, Running
  <2>4. Quiet' /\ Current'
    BY <2>1, <2>2, <2>3 DEF Verdicts, Quiet, Current, Running, HasTest
  <2>5. Ahead' /\ Behind'
    BY <1>i, <2>1, <2>2, <2>3 DEF Verdicts, Ahead, Behind, Running, Untyped, HasTest
  <2>6. Counted' /\ VerdictJustified'
    BY <1>b, <2>1, <2>3
       DEF Verdicts, Counted, SomeFailed, VerdictJustified, Failing, Untyped, HasTest, Quiet, Running
  <2> QED
    BY <2>4, <2>5, <2>6 DEF Verdicts
<1>5. CASE BatchEnd
  <2>1. /\ rpc = "exec" /\ rpc' = "batch" /\ idx \in Batches /\ idx' = idx + 1
        /\ val[idx] \in Returned /\ UNCHANGED <<kind, val, events>>
    BY <1>5, <1>p DEF BatchEnd
  <2>2. /\ mem'.status = mem.status /\ mem'.delay[idx] # "failed"
        /\ mem'.test[idx] = "failed" <=> val[idx] = "failed"
    BY <1>5, <1>m, <2>1 DEF BatchEnd, Record, Returned, Verdicts, Current
  <2>3. \/ faults' = faults /\ (failed' <=> (failed \/ StepFailed(mem', idx)))
        \/ faults' = faults + 1 /\ failed'
    BY <1>5 DEF BatchEnd, NoFault, Fault
  <2>4. StepFailed(mem', idx) <=> Untyped(idx) \/ (HasTest(idx) /\ val[idx] = "failed")
    BY <2>2 DEF StepFailed
  <2>5. failed' \/ ((HasTest(idx) => val[idx] \in {"passed", "running", "lost"}) /\ ~Untyped(idx))
    BY <2>1, <2>3, <2>4 DEF Returned, Verdicts, Current
  <2>6. failed => failed'
    BY <2>3
  <2>7. Quiet' /\ Current'
    BY <2>1, <2>2 DEF Verdicts, Quiet, Current, Running
  <2>8. Ahead'
    BY <1>i, <2>1 DEF Verdicts, Ahead, Running
  <2>9. Behind'
    BY <1>i, <2>1, <2>2, <2>5, <2>6 DEF Verdicts, Behind, Running, Untyped, HasTest
  <2>10. Counted'
    BY <1>b, <2>1, <2>3, <2>4 DEF Verdicts, Counted, SomeFailed, Failing, Untyped
  <2>11. VerdictJustified'
    BY <2>1 DEF Verdicts, Quiet, Running, VerdictJustified
  <2> QED
    BY <2>7, <2>8, <2>9, <2>10, <2>11 DEF Verdicts
<1>6. CASE RunnerVerdict
  <2>1. /\ rpc = "batch" /\ rpc' = "save" /\ idx = N + 1 /\ events = {}
        /\ events' = {Verdict} /\ UNCHANGED <<kind, failed, val, faults>>
    BY <1>6 DEF RunnerVerdict, Notify, Verdicts, Quiet, Running
  <2>2. Verdict = "passed" => mem.status = "running" /\ ~failed
    BY <2>1 DEF Verdict, Verdicts, Quiet, Running
  <2>3. Verdict = "failed" => failed
    BY DEF Verdict
  <2>4. VerdictJustified'
    BY <1>i, <2>1, <2>2, <2>3
       DEF Verdicts, VerdictJustified, Behind, Counted, SomeFailed, Failing, Running, Untyped, HasTest
  <2>5. Counted'
    BY <2>1 DEF Verdicts, Counted, SomeFailed, Failing, Untyped
  <2> QED
    BY <2>1, <2>4, <2>5 DEF Verdicts, Quiet, Ahead, Current, Behind, Running
<1>7. CASE RunnerSave
  BY <1>7, <1>b, VerdictKept DEF RunnerSave, NoFault, Fault, Running
<1>8. CASE RunnerAfter
  <2>1. /\ rpc = "after" /\ rpc' = "status" /\ faults' \in Nat /\ faults' >= faults
        /\ UNCHANGED <<kind, failed, val, events>>
    BY <1>8, <1>b DEF RunnerAfter, NoFault, Fault
  <2>2. Counted' /\ VerdictJustified'
    BY <1>b, <2>1 DEF Verdicts, Counted, SomeFailed, VerdictJustified, Failing, Untyped, HasTest
  <2> QED
    BY <2>1, <2>2 DEF Verdicts, Quiet, Ahead, Current, Behind, Running
<1>9. CASE RunnerStatus
  BY <1>9, <1>b, VerdictKept DEF RunnerStatus, NoFault, Fault, Running
<1>10. CASE Test
  <2>1. /\ rpc = "exec" /\ idx \in Batches /\ val[idx] \in {"pending", "executing"}
        /\ val'[idx] # "none" /\ \A b \in Batches : b # idx => val'[b] = val[b]
        /\ UNCHANGED <<kind, mem, rpc, idx, failed, events, faults>>
    BY <1>10, <1>p, <1>v DEF Test, TestStart, TestEnd
  <2>2. Quiet' /\ Current'
    BY <2>1 DEF Verdicts, Quiet, Current, Running, HasTest
  <2>3. Ahead' /\ Behind'
    BY <1>i, <2>1 DEF Verdicts, Ahead, Behind, Running, Untyped, HasTest
  <2>4. Counted'
    BY <2>1 DEF Verdicts, Counted, SomeFailed, Failing, Untyped
  <2>5. VerdictJustified'
    BY <2>1 DEF Verdicts, Quiet, Running, VerdictJustified
  <2> QED
    BY <2>2, <2>3, <2>4, <2>5 DEF Verdicts
<1>11. CASE DelaySubscribe
  BY <1>11, <1>b, VerdictKept DEF DelaySubscribe
<1>12. CASE DelayFinished \/ DelayAborted
  <2>1. /\ rpc = "exec" /\ idx \in Batches
        /\ \E s \in {"passed", "aborted"} : mem' = [mem EXCEPT !.delay[idx] = s]
        /\ UNCHANGED <<kind, rpc, idx, failed, val, events, faults>>
    BY <1>12, <1>p DEF DelayFinished, DelayAborted
  <2>2. mem'.status = mem.status /\ mem'.test = mem.test /\ mem'.delay[idx] # "failed"
    BY <1>m, <2>1 DEF Record
  <2>3. Quiet' /\ Ahead' /\ Behind' /\ Current'
    BY <2>1, <2>2 DEF Verdicts, Quiet, Ahead, Behind, Current, Running, Untyped, HasTest
  <2>4. Counted' /\ VerdictJustified'
    BY <2>1 DEF Verdicts, Counted, SomeFailed, VerdictJustified, Failing, Untyped, HasTest
  <2> QED
    BY <2>3, <2>4 DEF Verdicts
<1>13. CASE Callback \/ TimeoutArm \/ TimeoutFire
  BY <1>13, <1>b, VerdictKept DEF Callback, TimeoutArm, TimeoutFire
<1>14. CASE Recon
  BY <1>14, <1>b, VerdictKept
     DEF Recon, SuiteList, SuiteLook, SuiteLookFails, SuiteWrite, NoFault, Fault
<1>15. CASE Crash
  <2>1. /\ rpc' = "done" /\ failed' = FALSE /\ UNCHANGED <<kind, events, faults>>
        /\ \A b \in Batches : val[b] \notin {"pending", "executing"} => val'[b] = val[b]
    BY <1>15, <1>v DEF Crash, NoMemory
  <2>2. VerdictJustified'
    BY <2>1 DEF Verdicts, VerdictJustified, Failing, Untyped, HasTest
  <2> QED
    BY <2>1, <2>2 DEF Verdicts, Quiet, Ahead, Current, Behind, Counted, Running
<1>16. ASSUME NEW a \in Aborters, AbortRequest(a) PROVE Verdicts'
  BY <1>16, <1>b, VerdictKept DEF AbortRequest
<1>17. ASSUME NEW b \in Batches, TestReconciled(b) PROVE Verdicts'
  BY <1>17, <1>b, VerdictKept DEF TestReconciled
<1>19. ASSUME NEW b \in Batches, TestAborted(b) PROVE Verdicts'
  BY <1>19, <1>b, VerdictKept DEF TestAborted
<1>18. CASE UNCHANGED vars
  BY <1>18, <1>b, VerdictKept DEF vars
<1> QED
  BY <1>1, <1>2, <1>3, <1>4, <1>5, <1>6, <1>7, <1>8, <1>9, <1>10, <1>11, <1>12,
     <1>13, <1>14, <1>15, <1>16, <1>17, <1>18, <1>19 DEF Next, Runner, Delay

(* A suite is announced as passed only when every one of its tests was      *)
(* started, none returned failed and every step has a type, as failed only  *)
(* when a batch failed or a save did: for every number and mix of batches,  *)
(* every fault and restart.                                                 *)
THEOREM VerdictsJustified == Spec => []VerdictJustified
<1>1. Types /\ Verdicts /\ [Next]_vars => (Types /\ Verdicts)'
  BY TypeStep, VerdictStep
<1>2. Init => Types /\ Verdicts
  BY TypeInit, VerdictInit
<1>3. Verdicts => VerdictJustified
  BY DEF Verdicts
<1> QED
  BY <1>1, <1>2, <1>3, PTL DEF Spec

-----------------------------------------------------------------------------
(* Why a suite is cancelled: what is on its way to the runner was sent for  *)
(* a reason, and the runner keeps the reason until its verdict.             *)
TimedOut  == timer = "fired" \/ crashes > 0
Abortable == asked # {} \/ \E b \in Batches : stopOn[b] /\ Failing(b)

Sent    == /\ \A k \in DOMAIN inbox : /\ inbox[k] = "timeout" => TimedOut
                                      /\ inbox[k] = "aborted" => asked # {}
           /\ sending = "timeout" => TimedOut
           /\ sending = "aborting" => asked # {}
           /\ rpc = "insert" => timer = "off"
Kept    == /\ abortion = "timeout" => TimedOut
           /\ abortion = "aborting" => asked # {}
           /\ cancel => Abortable \/ abortion = "timeout"
           /\ mem.status = "aborting" => cancel

Causes == Sent /\ Kept /\ CancelJustified

(* Why no test follows a failure that stops the suite: results belong to    *)
(* batches with a test, the batches ahead are untouched, and a failure      *)
(* behind has cancelled the suite unless a save failed.                     *)
Tested    == \A b \in Batches : val[b] # "none" => HasTest(b)
Untouched == Running => \A b \in Batches : (b > idx \/ (b = idx /\ rpc # "exec")) => exec[b] = "none"
Stopped   == /\ rpc = "exec" => ~cancel
             /\ Running => \A b \in Batches : b < idx /\ stopOn[b] /\ Failing(b)
                                                => cancel \/ faults > 0

Stops == Tested /\ Untouched /\ Stopped /\ StopsOnFailure

LEMMA StopsInit == Init => Causes /\ Stops
<1> SUFFICES ASSUME Init PROVE Causes /\ Stops
  OBVIOUS
<1>1. /\ mem.status = "running" /\ idx = 1 /\ rpc = "insert" /\ events = {} /\ cancel = FALSE
      /\ inbox = <<>> /\ sending = "none" /\ abortion = "none" /\ timer = "off"
      /\ \A b \in Batches : val[b] = "none" /\ exec[b] = "none"
  BY DEF Init, NoMemory, Started, Empty
<1>2. Causes
  BY <1>1 DEF Causes, Sent, Kept, CancelJustified
<1>4. \A b \in Batches : ~(b < 1)
  BY BatchAssumption DEF Batches
<1>3. Stops
  BY <1>1, <1>4 DEF Stops, Tested, Untouched, Stopped, StopsOnFailure
<1> QED
  BY <1>2, <1>3

(* What happens in a batch's end: only a failed batch cancels the suite.    *)
LEMMA BatchEndStops ==
    ASSUME Types, Verdicts, Stops, BatchEnd
    PROVE  /\ idx \in Batches /\ rpc = "exec" /\ rpc' = "batch" /\ idx' = idx + 1
           /\ mem'.status = mem.status
           /\ UNCHANGED <<suite, tests, abortion, bus, outside, events, crashes>>
           /\ \/ /\ faults' = faults
                 /\ cancel' <=> (cancel \/ (Failing(idx) /\ stopOn[idx]))
              \/ faults' = faults + 1 /\ cancel' = cancel
<1>1. idx \in Batches
  BY DEF BatchEnd, Types, Progress
<1>2. mem.test \in [Batches -> StepStatuses] /\ mem \in Record
  BY DEF Types, Records, Record
<1>3. /\ mem'.status = mem.status /\ mem'.delay[idx] # "failed"
      /\ mem'.test[idx] = "failed" <=> val[idx] = "failed"
  BY <1>1, <1>2 DEF BatchEnd, Record, Returned, Verdicts, Current
<1>4. StepFailed(mem', idx) <=> Failing(idx)
  BY <1>1, <1>3 DEF StepFailed, Failing, Stops, Tested
<1> QED
  BY <1>1, <1>3, <1>4 DEF BatchEnd, NoFault, Fault, outside

(* A step that leaves alone what the reasons are about keeps them.          *)
LEMMA CausesKept ==
    ASSUME Types, Causes,
           UNCHANGED <<suite, mem, cancel, abortion, inbox, sending, timer, asked, events,
                       crashes>>,
           rpc' = "insert" => rpc = "insert",
           \A b \in Batches : val[b] = "failed" => val'[b] = "failed"
    PROVE  Causes'
BY DEF Causes, Sent, Kept, CancelJustified, TimedOut, Abortable, Failing, Untyped, suite

LEMMA CausesStep == ASSUME Types, Verdicts, Causes, Stops, [Next]_vars PROVE Causes'
<1> USE DEF suite, store, tests, runner, bus, delays, outside, recon, budget
<1>b. crashes \in Nat
  BY DEF Types, Bounds
<1>v. /\ val \in [Batches -> {"none", "pending", "executing", "passed", "failed",
                              "running", "lost", "gone"}]
      /\ mem \in Record /\ inbox \in Seq({"aborted", "timeout"})
      /\ rpc = "exec" => idx \in Batches
  BY DEF Types, Tests, Records, Messages, Progress
<1>1. CASE SuiteInsert
  BY <1>1 DEF SuiteInsert, Causes, Sent, Kept, CancelJustified, TimedOut, Abortable, Failing, Untyped
<1>2. CASE Subscribe
  BY <1>2, CausesKept DEF Subscribe
<1>3. CASE BatchCancel
  <2>1. /\ mem'.status = "aborting" /\ cancel' /\ sending' = "none" /\ rpc = "batch" /\ rpc' = rpc
        /\ abortion' = Received /\ MustCancel
        /\ UNCHANGED <<suite, tests, inbox, timer, asked, events, crashes>>
    BY <1>3, <1>v DEF BatchCancel, Record
  <2>2. /\ abortion' = "timeout" => TimedOut
        /\ abortion' = "aborting" => asked # {}
        /\ Abortable \/ abortion' = "timeout"
    BY <2>1 DEF Received, MustCancel, Causes, Sent, Kept, Abortable, Failing, Untyped, Types, Messages
  <2> QED
    BY <2>1, <2>2 DEF Causes, Sent, Kept, CancelJustified, TimedOut, Abortable, Failing, Untyped
<1>4. CASE BatchStart
  <2>1. /\ rpc = "batch" /\ rpc' = "exec" /\ \A b \in Batches : val[b] = "failed" => val'[b] = "failed"
        /\ UNCHANGED <<suite, cancel, abortion, bus, outside, events, crashes>>
    BY <1>4, <1>v DEF BatchStart, Verdicts, Ahead, Running
  <2>2. mem'.status = mem.status
    BY <1>4, <1>v DEF BatchStart, Record
  <2> QED
    BY <2>1, <2>2 DEF Causes, Sent, Kept, CancelJustified, TimedOut, Abortable, Failing, Untyped
<1>5. CASE BatchEnd
  <2>1. cancel' => cancel \/ Abortable
    BY <1>5, BatchEndStops DEF Abortable
  <2> QED
    BY <1>5, <2>1, BatchEndStops DEF Causes, Sent, Kept, CancelJustified, TimedOut, Abortable, Failing, Untyped
<1>6. CASE RunnerVerdict
  <2>1. /\ rpc = "batch" /\ rpc' = "save" /\ events = {} /\ events' = {Verdict}
        /\ UNCHANGED <<suite, tests, cancel, abortion, bus, outside, crashes>>
    BY <1>6 DEF RunnerVerdict, Notify, Verdicts, Quiet, Running
  <2>2. mem'.status = Verdict
    BY <1>6, <1>v DEF RunnerVerdict, Record
  <2>3. /\ Verdict # "aborting"
        /\ Verdict = "timeout" => abortion = "timeout"
        /\ Verdict = "aborted" => mem.status = "aborting" /\ abortion # "timeout"
    BY DEF Verdict
  <2> QED
    BY <2>1, <2>2, <2>3 DEF Causes, Sent, Kept, CancelJustified, TimedOut, Abortable, Failing, Untyped
<1>7. CASE RunnerSave \/ RunnerStatus
  BY <1>7, CausesKept DEF RunnerSave, RunnerStatus
<1>8. CASE RunnerAfter
  <2>1. mem'.status = mem.status
    BY <1>8, <1>v DEF RunnerAfter, Record
  <2> QED
    BY <1>8, <2>1 DEF RunnerAfter, Causes, Sent, Kept, CancelJustified, TimedOut, Abortable, Failing, Untyped
<1>9. CASE Test
  <2>1. \A b \in Batches : val[b] = "failed" => val'[b] = "failed"
    BY <1>9, <1>v DEF Test, TestStart, TestEnd
  <2> QED
    BY <1>9, <2>1, CausesKept DEF Test, TestStart, TestEnd
<1>10. CASE DelaySubscribe
  BY <1>10, CausesKept DEF DelaySubscribe
<1>11. CASE DelayFinished \/ DelayAborted
  <2>1. mem'.status = mem.status
    BY <1>11, <1>v DEF DelayFinished, DelayAborted, Record
  <2> QED
    BY <1>11, <2>1
       DEF DelayFinished, DelayAborted, Causes, Sent, Kept, CancelJustified, TimedOut, Abortable, Failing, Untyped
<1>12. CASE Callback
  <2>1. /\ inbox # <<>> /\ inbox' = Tail(inbox)
        /\ sending' = IF Head(inbox) = "timeout" THEN "timeout" ELSE "aborting"
        /\ UNCHANGED <<suite, tests, mem, rpc, cancel, abortion, timer, asked, events, crashes>>
    BY <1>12 DEF Callback
  <2>2. Head(inbox) = inbox[1] /\ 1 \in DOMAIN inbox /\ Head(inbox) \in {"aborted", "timeout"}
    BY <1>v, <2>1
  <2>3. \A k \in DOMAIN inbox' : k + 1 \in DOMAIN inbox /\ inbox'[k] = inbox[k + 1]
    BY <1>v, <2>1
  <2>4. Sent'
    BY <2>1, <2>2, <2>3 DEF Causes, Sent, TimedOut
  <2> QED
    BY <2>1, <2>4 DEF Causes, Kept, CancelJustified, TimedOut, Abortable, Failing, Untyped
<1>13. CASE TimeoutArm
  BY <1>13 DEF TimeoutArm, Causes, Sent, Kept, CancelJustified, TimedOut, Abortable, Failing, Untyped
<1>14. CASE TimeoutFire
  <2>1. /\ timer' = "fired" /\ timer = "armed" /\ (inbox' = inbox \/ inbox' = Append(inbox, "timeout"))
        /\ UNCHANGED <<suite, tests, runner, sending, asked, events, crashes>>
    BY <1>14 DEF TimeoutFire, Publish
  <2>2. \A k \in DOMAIN inbox' : inbox'[k] = "aborted" => k \in DOMAIN inbox /\ inbox'[k] = inbox[k]
    BY <1>v, <2>1
  <2> QED
    BY <2>1, <2>2 DEF Causes, Sent, Kept, CancelJustified, TimedOut, Abortable, Failing, Untyped
<1>15. CASE Recon
  BY <1>15, CausesKept
     DEF Recon, SuiteList, SuiteLook, SuiteLookFails, SuiteWrite, SuiteDone, NoFault, Fault
<1>16. CASE Crash
  <2>1. /\ rpc' = "done" /\ mem'.status = "running" /\ cancel' = FALSE /\ abortion' = "none"
        /\ inbox' = <<>> /\ sending' = "none" /\ crashes' = crashes + 1
        /\ UNCHANGED <<suite, asked, events>>
    BY <1>16 DEF Crash, NoMemory, Started, Empty
  <2>2. \A b \in Batches : val[b] = "failed" => val'[b] = "failed"
    BY <1>16, <1>v DEF Crash
  <2> QED
    BY <1>b, <2>1, <2>2 DEF Causes, Sent, Kept, CancelJustified, TimedOut, Abortable, Failing, Untyped
<1>17. ASSUME NEW a \in Aborters, AbortRequest(a) PROVE Causes'
  <2>1. /\ asked' # {} /\ (inbox' = inbox \/ inbox' = Append(inbox, "aborted"))
        /\ UNCHANGED <<suite, tests, runner, sending, timer, events, crashes>>
    BY <1>17 DEF AbortRequest, Publish
  <2>2. \A k \in DOMAIN inbox' : inbox'[k] = "timeout" => k \in DOMAIN inbox /\ inbox'[k] = inbox[k]
    BY <1>v, <2>1
  <2> QED
    BY <2>1, <2>2 DEF Causes, Sent, Kept, CancelJustified, TimedOut, Abortable, Failing, Untyped
<1>18. ASSUME NEW b \in Batches, TestReconciled(b) PROVE Causes'
  BY <1>18, CausesKept DEF TestReconciled
<1>20. ASSUME NEW b \in Batches, TestAborted(b) PROVE Causes'
  BY <1>20, CausesKept DEF TestAborted
<1>19. CASE UNCHANGED vars
  BY <1>19, CausesKept DEF vars
<1> QED
  BY <1>1, <1>2, <1>3, <1>4, <1>5, <1>6, <1>7, <1>8, <1>9, <1>10, <1>11, <1>12, <1>13,
     <1>14, <1>15, <1>16, <1>17, <1>18, <1>19, <1>20 DEF Next, Runner, Delay

(* A step that leaves the batches alone, or moves the runner on between     *)
(* them, keeps what is known about them.                                    *)
LEMMA StopsKept ==
    ASSUME Types, Stops, faults' \in Nat, faults' >= faults,
           UNCHANGED <<suite, idx, cancel, val>>,
           \A b \in Batches : exec[b] = "none" => exec'[b] = "none",
           \/ UNCHANGED rpc
           \/ Running /\ Running' /\ rpc # "exec" /\ rpc' # "exec"
           \/ ~Running'
    PROVE  Stops'
<1>1. faults \in Nat
  BY DEF Types, Bounds
<1>2. (Running' => Running) /\ (Running' /\ rpc' = "exec" <=> Running' /\ rpc = "exec")
  BY DEF Running
<1>3. rpc' = "exec" => Running'
  BY DEF Running
<1>4. Tested' /\ Untouched' /\ StopsOnFailure'
  BY <1>1, <1>2 DEF Stops, Tested, Untouched, StopsOnFailure, Failing, Untyped, HasTest, suite
<1>5. Stopped'
  BY <1>1, <1>2, <1>3 DEF Stops, Stopped, Failing, Untyped, suite
<1> QED
  BY <1>4, <1>5 DEF Stops

LEMMA StopsStep == ASSUME Types, Verdicts, Stops, [Next]_vars PROVE Stops'
<1> USE DEF suite, store, tests, runner, bus, delays, outside, recon, budget
<1>b. faults \in Nat
  BY DEF Types, Bounds
<1>i. idx \in Nat /\ N \in Nat /\ Batches = 1..N
  BY BatchAssumption DEF Types, Steps, Batches
<1>v. /\ val \in [Batches -> {"none", "pending", "executing", "passed", "failed",
                              "running", "lost", "gone"}]
      /\ exec \in [Batches -> {"none", "running", "passed", "failed", "aborted"}]
      /\ rpc = "exec" => idx \in Batches
  BY DEF Types, Tests, Progress
<1>1. CASE SuiteInsert \/ Subscribe
  BY <1>1, <1>b, StopsKept DEF SuiteInsert, Subscribe, NoFault, Fault, Running
<1>2. CASE BatchCancel
  <2>1. /\ rpc = "batch" /\ rpc' = rpc /\ idx' = idx + 1 /\ cancel'
        /\ UNCHANGED <<suite, tests, faults>>
    BY <1>2 DEF BatchCancel
  <2>2. Untouched'
    BY <1>i, <2>1 DEF Stops, Untouched, Running
  <2> QED
    BY <2>1, <2>2 DEF Stops, Tested, Stopped, StopsOnFailure, Failing, Untyped, HasTest
<1>3. CASE BatchStart
  <2>1. /\ rpc = "batch" /\ rpc' = "exec" /\ idx \in Batches /\ ~cancel
        /\ faults' \in Nat /\ faults' >= faults /\ UNCHANGED <<suite, idx, cancel, exec>>
    BY <1>3, <1>b, <1>i, BatchAssumption DEF BatchStart, MustCancel, NoFault, Fault, Types, Steps
  <2>2. /\ val[idx] = "none" /\ val'[idx] # "failed" /\ (val'[idx] # "none" => HasTest(idx))
        /\ \A b \in Batches : b # idx => val'[b] = val[b]
    BY <1>3, <1>v, <1>i, <2>1 DEF BatchStart, Verdicts, Ahead, Running
  <2>3. Tested' /\ Untouched' /\ StopsOnFailure'
    BY <1>b, <1>i, <2>1, <2>2 DEF Stops, Tested, Untouched, StopsOnFailure, Failing, Untyped, HasTest, Running
  <2>4. Stopped'
    BY <1>b, <1>i, <2>1, <2>2 DEF Stops, Stopped, Failing, Untyped, Running
  <2> QED
    BY <2>3, <2>4 DEF Stops
<1>4. CASE BatchEnd
  <2>1. Untouched'
    BY <1>4, <1>i, BatchEndStops DEF Stops, Untouched, Running
  <2>2. Stopped'
    BY <1>4, <1>b, <1>i, BatchEndStops DEF Stops, Stopped, Failing, Untyped, Running
  <2>3. Tested' /\ StopsOnFailure'
    BY <1>4, <1>b, BatchEndStops DEF Stops, Tested, StopsOnFailure, Failing, Untyped, HasTest
  <2> QED
    BY <2>1, <2>2, <2>3 DEF Stops
<1>5. CASE RunnerVerdict \/ RunnerSave \/ RunnerAfter \/ RunnerStatus
  BY <1>5, <1>b, StopsKept
     DEF RunnerVerdict, RunnerSave, RunnerAfter, RunnerStatus, NoFault, Fault, Running
<1>6. CASE Test
  <2>1. /\ rpc = "exec" /\ rpc' = rpc /\ idx \in Batches /\ val[idx] \in {"pending", "executing"}
        /\ \A b \in Batches : b # idx => val'[b] = val[b] /\ exec'[b] = exec[b]
        /\ UNCHANGED <<suite, idx, cancel, faults>>
    BY <1>6, <1>v DEF Test, TestStart, TestEnd
  <2>2. Tested' /\ Untouched' /\ Stopped'
    BY <1>i, <2>1 DEF Stops, Tested, Untouched, Stopped, Failing, Untyped, HasTest, Running
  <2>3. ASSUME NEW b \in Batches, NEW c \in Batches, b < c, stopOn[b], Failing(b)'
        PROVE  exec'[c] = "none" \/ faults > 0
    <3>1. CASE c > idx
      BY <1>i, <2>1, <3>1 DEF Stops, Untouched, Running
    <3>2. CASE c <= idx
      <4>1. b < idx /\ val'[b] = val[b] /\ Failing(b)
        BY <1>i, <2>1, <2>3, <3>2 DEF Failing, Untyped
      <4> QED
        BY <2>1, <2>3, <4>1 DEF Stops, Stopped, Running
    <3> QED
      BY <1>i, <3>1, <3>2
  <2> QED
    BY <2>1, <2>2, <2>3 DEF Stops, StopsOnFailure
<1>7. CASE Delay \/ Callback \/ TimeoutArm \/ TimeoutFire
  BY <1>7, <1>b, StopsKept
     DEF Delay, DelaySubscribe, DelayFinished, DelayAborted, Callback, TimeoutArm, TimeoutFire
<1>8. CASE Recon
  BY <1>8, <1>b, StopsKept
     DEF Recon, SuiteList, SuiteLook, SuiteLookFails, SuiteWrite, NoFault, Fault
<1>9. CASE Crash
  <2>1. rpc' = "done" /\ UNCHANGED <<suite, exec, faults>>
        /\ \A b \in Batches : (val'[b] = "failed" => val[b] = "failed")
                                /\ (val'[b] # "none" => val[b] # "none")
    BY <1>9, <1>v DEF Crash
  <2> QED
    BY <2>1 DEF Stops, Tested, Untouched, Stopped, StopsOnFailure, Failing, Untyped, HasTest, Running
<1>10. ASSUME NEW a \in Aborters, AbortRequest(a) PROVE Stops'
  BY <1>10, <1>b, StopsKept DEF AbortRequest
<1>11. ASSUME NEW b \in Batches, TestReconciled(b) PROVE Stops'
  <2>1. \A c \in Batches : exec[c] = "none" => exec'[c] = "none"
    BY <1>11, <1>v DEF TestReconciled, Unwatched
  <2> QED
    BY <1>11, <1>b, <2>1, StopsKept DEF TestReconciled
<1>13. ASSUME NEW b \in Batches, TestAborted(b) PROVE Stops'
  <2>1. \A c \in Batches : exec[c] = "none" => exec'[c] = "none"
    BY <1>13, <1>v DEF TestAborted
  <2> QED
    BY <1>13, <1>b, <2>1, StopsKept DEF TestAborted
<1>12. CASE UNCHANGED vars
  BY <1>12, <1>b, StopsKept DEF vars
<1> QED
  BY <1>1, <1>2, <1>3, <1>4, <1>5, <1>6, <1>7, <1>8, <1>9, <1>10, <1>11, <1>12, <1>13
     DEF Next, Runner

(* Cancelled only for a reason, and no test after a failure that stops the  *)
(* suite, for every number and mix of batches and every order of messages.  *)
THEOREM CancelsJustified == Spec => []CancelJustified
<1>1. Types /\ Verdicts /\ Causes /\ Stops /\ [Next]_vars => (Types /\ Verdicts /\ Causes /\ Stops)'
  BY TypeStep, VerdictStep, CausesStep, StopsStep
<1>2. Init => Types /\ Verdicts /\ Causes /\ Stops
  BY TypeInit, VerdictInit, StopsInit
<1>3. Causes => CancelJustified
  BY DEF Causes
<1> QED
  BY <1>1, <1>2, <1>3, PTL DEF Spec

(* After a failure with stopOnFailure no later batch executes a test.       *)
THEOREM FailuresStop == Spec => []StopsOnFailure
<1>1. Types /\ Verdicts /\ Stops /\ [Next]_vars => (Types /\ Verdicts /\ Stops)'
  BY TypeStep, VerdictStep, StopsStep
<1>2. Init => Types /\ Verdicts /\ Stops
  BY TypeInit, VerdictInit, StopsInit
<1>3. Stops => StopsOnFailure
  BY DEF Stops
<1> QED
  BY <1>1, <1>2, <1>3, PTL DEF Spec

-----------------------------------------------------------------------------
(* Left alone, the runner carries its verdict unchanged from the event to   *)
(* the record and to the resource.                                          *)
Clean == faults = 0 /\ crashes = 0 /\ ~scene.reconciler
Carried ==
    /\ kpc = "idle"
    /\ rpc # "insert" => rec.status # "none"
    /\ rpc \in {"save", "after", "status"} => events = {mem.status}
    /\ rpc \in {"after", "status"} => rec.status = mem.status
    /\ rpc = "status" => rec.ended
    /\ rpc = "done" => rec.ended /\ events = {rec.status} /\ cr = rec.status
Ends == Clean => Carried

LEMMA EndsInit == Init => Ends
BY DEF Init, Ends, Clean, Carried

(* A step of somebody else leaves what the runner reports alone.            *)
LEMMA EndsKept ==
    ASSUME Types, Ends, UNCHANGED <<scene, rpc, mem, rec, cr, events, kpc, crashes>>,
           faults' = faults
    PROVE  Ends'
BY DEF Ends, Clean, Carried

LEMMA EndsStep == ASSUME Types, Quiet, Ends, [Next]_vars PROVE Ends'
<1> USE DEF suite, store, tests, runner, bus, delays, outside, recon, budget
<1>b. faults \in Nat /\ crashes \in Nat /\ mem \in Record /\ rec \in Record
  BY DEF Types, Bounds, Records
<1>1. CASE SuiteInsert
  <2>1. Clean' => Clean /\ rec' = mem /\ mem.status # "none"
    BY <1>1, <1>b DEF SuiteInsert, NoFault, Fault, Clean, Quiet, Running
  <2> QED
    BY <1>1, <2>1 DEF SuiteInsert, Ends, Carried
<1>2. CASE Subscribe
  BY <1>2 DEF Subscribe, Ends, Clean, Carried
<1>3. CASE BatchCancel
  BY <1>3 DEF BatchCancel, Ends, Clean, Carried
<1>4. CASE BatchStart \/ BatchEnd
  <2>1. /\ rpc \in {"batch", "exec"} /\ rpc' \in {"batch", "exec"} /\ mem'.status = mem.status
        /\ UNCHANGED <<suite, kpc, crashes>>
    BY <1>4, <1>b DEF BatchStart, BatchEnd, Record
  <2>2. rec' = rec \/ rec' = mem'
    BY <1>4 DEF BatchStart, BatchEnd, Update
  <2>3. Clean' => Clean
    BY <1>4, <1>b, <2>1 DEF BatchStart, BatchEnd, NoFault, Fault, Clean
  <2>4. mem.status # "none"
    BY <2>1 DEF Quiet, Running
  <2> QED
    BY <2>1, <2>2, <2>3, <2>4 DEF Ends, Carried
<1>5. CASE RunnerVerdict
  <2>1. mem'.status = Verdict /\ events = {} /\ events' = {Verdict}
    BY <1>5, <1>b DEF RunnerVerdict, Notify, Quiet, Running, Record
  <2> QED
    BY <1>5, <2>1 DEF RunnerVerdict, Ends, Clean, Carried
<1>6. CASE RunnerSave
  <2>1. Clean' => Clean /\ rec' = mem
    BY <1>6, <1>b DEF RunnerSave, NoFault, Fault, Clean, Update, Ends, Carried
  <2>2. mem.status # "none"
    BY <1>6 DEF RunnerSave, Types, Progress, Final
  <2> QED
    BY <1>6, <2>1, <2>2 DEF RunnerSave, Ends, Carried
<1>7. CASE RunnerAfter
  <2>1. mem'.status = mem.status
    BY <1>7, <1>b DEF RunnerAfter, Record
  <2>2. Clean' => Clean /\ rec'.status = rec.status /\ rec'.ended
    BY <1>7, <1>b DEF RunnerAfter, NoFault, Fault, Clean, Ends, Carried, Record
  <2> QED
    BY <1>7, <2>1, <2>2 DEF RunnerAfter, Ends, Carried
<1>8. CASE RunnerStatus
  BY <1>8, <1>b DEF RunnerStatus, NoFault, Fault, Ends, Clean, Carried
<1>9. CASE Test
  BY <1>9, EndsKept DEF Test, TestStart, TestEnd
<1>10. CASE Delay
  <2>1. rpc = "exec" /\ mem'.status = mem.status /\ UNCHANGED <<scene, rpc, rec, kpc, budget>>
    BY <1>10, <1>b DEF Delay, DelaySubscribe, DelayFinished, DelayAborted, Record
  <2> QED
    BY <2>1 DEF Ends, Clean, Carried
<1>11. CASE Callback \/ TimeoutArm \/ TimeoutFire
  BY <1>11, EndsKept DEF Callback, TimeoutArm, TimeoutFire
<1>12. CASE Recon
  <2>1. Clean' => Clean
    BY <1>12, <1>b
       DEF Recon, SuiteList, SuiteLook, SuiteLookFails, SuiteWrite, NoFault, Fault, Clean
  <2>2. ~Clean \/ kpc # "idle"
    BY <1>12 DEF Recon, SuiteList, SuiteLook, SuiteLookFails, SuiteWrite, Clean
  <2> QED
    BY <2>1, <2>2 DEF Ends, Carried
<1>13. CASE Crash
  BY <1>13, <1>b DEF Crash, Ends, Clean
<1>14. ASSUME NEW a \in Aborters, AbortRequest(a) PROVE Ends'
  BY <1>14, EndsKept DEF AbortRequest
<1>15. ASSUME NEW b \in Batches, TestReconciled(b) PROVE Ends'
  BY <1>15, EndsKept DEF TestReconciled
<1>17. ASSUME NEW b \in Batches, TestAborted(b) PROVE Ends'
  BY <1>17, EndsKept DEF TestAborted
<1>16. CASE UNCHANGED vars
  BY <1>16, EndsKept DEF vars
<1> QED
  BY <1>1, <1>2, <1>3, <1>4, <1>5, <1>6, <1>7, <1>8, <1>9, <1>10, <1>11, <1>12, <1>13, <1>14,
     <1>15, <1>16, <1>17 DEF Next, Runner

(* What the runner announces is what is stored and what the resource says.  *)
THEOREM EndsReported == Spec => []EndReported
<1>1. Types /\ Verdicts /\ Ends /\ [Next]_vars => (Types /\ Verdicts /\ Ends)'
  BY TypeStep, VerdictStep, EndsStep DEF Verdicts
<1>2. Init => Types /\ Verdicts /\ Ends
  BY TypeInit, VerdictInit, EndsInit
<1>3. Ends => EndReported
  BY DEF Ends, Clean, Carried, EndReported
<1> QED
  BY <1>1, <1>2, <1>3, PTL DEF Spec

-----------------------------------------------------------------------------
(* After a restart nobody runs the suite or a test of it, so of what the    *)
(* reconciler has looked at, executions that passed or were never stored do *)
(* not change any more, unless an abort comes late.                         *)
Fine(b) == HasTest(b) => exec[b] \in {"none", "passed"} \/ b \in late
Looked  == /\ crashes > 0 => rpc = "done"
           /\ crashes > 0 /\ kpc = "look" /\ kstatus = "passed" =>
                 \A b \in Batches : b < kidx => Fine(b)

LEMMA LookedInit == Init => Looked
BY DEF Init, Looked

(* A step that stores nothing of a test that was fine and leaves the        *)
(* reconciler alone.                                                        *)
LEMMA LookedKept ==
    ASSUME Looked, UNCHANGED <<suite, recon, crashes>>, crashes > 0 => UNCHANGED rpc,
           crashes > 0 => \A b \in Batches : exec[b] \in {"none", "passed"} => exec'[b] = exec[b]
    PROVE  Looked'
BY DEF Looked, Fine, HasTest, suite, recon

LEMMA LookedStep == ASSUME Types, Looked, [Next]_vars PROVE Looked'
<1> USE DEF suite, store, tests, runner, bus, delays, outside, recon, budget
<1>b. crashes \in Nat /\ scene.crashes \in Nat
  BY ScenesAssumption DEF Types, Tests, Bounds
<1>1. CASE Runner \/ Test \/ Delay
  <2>1. rpc # "done" /\ UNCHANGED <<suite, recon, crashes>>
    BY <1>1 DEF Runner, SuiteInsert, Subscribe, BatchCancel, BatchStart, BatchEnd, RunnerVerdict,
       RunnerSave, RunnerAfter, RunnerStatus, Test, TestStart, TestEnd,
       Delay, DelaySubscribe, DelayFinished, DelayAborted
  <2> QED
    BY <2>1, LookedKept DEF Looked
<1>2. CASE Callback \/ TimeoutArm \/ TimeoutFire
  BY <1>2, LookedKept DEF Callback, TimeoutArm, TimeoutFire
<1>3. CASE SuiteList
  <2>1. kidx' = 1 /\ UNCHANGED <<rpc, crashes>>
    BY <1>3 DEF SuiteList
  <2>2. \A b \in Batches : ~(b < 1)
    BY BatchAssumption DEF Batches
  <2> QED
    BY <2>1, <2>2 DEF Looked
<1>4. CASE SuiteLook
  <2>1. /\ UNCHANGED <<suite, rpc, exec, crashes>> /\ kidx \in Batches /\ kpc = "look"
        /\ kpc' = "look" => UNCHANGED late
    BY <1>4, BatchAssumption DEF SuiteLook, SuiteDone, Types, Steps, Batches
  <2>2. ASSUME kpc' = "look", kstatus' = "passed"
        PROVE  kstatus = "passed" /\ kidx' = kidx + 1 /\ Fine(kidx)
    <3>1. PICK e : /\ e = IF HasTest(kidx) THEN exec[kidx] ELSE "none"
                   /\ e # "running"
                   /\ kstatus' = IF e \in {"failed", "aborted"} THEN e ELSE kstatus
                   /\ kidx' = IF e = "aborted" THEN N + 1 ELSE kidx + 1
      BY <1>4, <2>2 DEF SuiteLook, SuiteDone
    <3>2. e \notin {"running", "failed", "aborted"}
      BY <2>2, <3>1
    <3>3. exec[kidx] \in {"none", "running", "passed", "failed", "aborted"}
      BY <2>1 DEF Types, Tests
    <3> QED
      BY <2>2, <3>1, <3>2, <3>3 DEF Fine
  <2>3. \A b \in Batches : b < kidx + 1 => b < kidx \/ b = kidx
    BY <2>1, BatchAssumption DEF Batches
  <2> QED
    BY <2>1, <2>2, <2>3 DEF Looked, Fine, HasTest
<1>5. CASE SuiteLookFails \/ SuiteWrite
  BY <1>5 DEF SuiteLookFails, SuiteWrite, SuiteDone, Looked
<1>6. CASE Crash
  BY <1>6 DEF Crash, SuiteDone, Looked
<1>7. ASSUME NEW a \in Aborters, AbortRequest(a) PROVE Looked'
  BY <1>7, LookedKept DEF AbortRequest
<1>8. ASSUME NEW b \in Batches, TestReconciled(b) PROVE Looked'
  <2>1. \A c \in Batches : exec[c] \in {"none", "passed"} => exec'[c] = exec[c]
    BY <1>8 DEF TestReconciled, Unwatched, Types, Tests
  <2> QED
    BY <1>8, <2>1, LookedKept DEF TestReconciled
<1>10. ASSUME NEW b \in Batches, TestAborted(b) PROVE Looked'
  <2>1. /\ UNCHANGED <<suite, rpc, kpc, kidx, kstatus, crashes>> /\ late \subseteq late'
        /\ kpc = "look" /\ b < kidx => b \in late'
        /\ \A c \in Batches : c # b => exec'[c] = exec[c]
    BY <1>10 DEF TestAborted, Types, Tests
  <2> QED
    BY <2>1 DEF Looked, Fine, HasTest
<1>9. CASE UNCHANGED vars
  BY <1>9, LookedKept DEF vars
<1> QED
  BY <1>1, <1>2, <1>3, <1>4, <1>5, <1>6, <1>7, <1>8, <1>9, <1>10 DEF Next, Recon

(* Only the reconciler's write gives an abandoned suite a status, and it    *)
(* does so after it has looked at all batches.                              *)
LEMMA AbandonedStep ==
    ASSUME Types, Looked, [Next]_vars, crashes > 0, rec'.status # rec.status,
           rec'.status = "passed", NEW b \in Batches, HasTest(b)
    PROVE  exec[b] \in {"none", "passed"} \/ b \in late
<1> USE DEF suite, store, tests, runner, bus, delays, outside, recon, budget
<1>1. SuiteWrite
  BY DEF Looked, Next, vars, Runner, SuiteInsert, Subscribe, BatchCancel, BatchStart, BatchEnd,
     RunnerVerdict, RunnerSave, RunnerAfter, RunnerStatus, Test, TestStart, TestEnd,
     Delay, DelaySubscribe, DelayFinished, DelayAborted, Callback, TimeoutArm, TimeoutFire,
     Recon, SuiteList, SuiteLook, SuiteLookFails, Crash, AbortRequest, TestReconciled,
     TestAborted
<1>2. kcopy \in Record /\ N \in Nat /\ Batches = 1..N
  BY BatchAssumption DEF Types, Records, Batches
<1>3. kpc = "look" /\ kidx = N + 1 /\ kstatus = "passed"
  <2>1. PICK t, d : rec' = [kcopy EXCEPT !.status = kstatus, !.test = t, !.delay = d]
    BY <1>1 DEF SuiteWrite
  <2>2. rec'.status = kstatus
    BY <1>2, <2>1 DEF Record
  <2> QED
    BY <1>1, <2>2 DEF SuiteWrite
<1>4. b < kidx
  BY <1>2, <1>3
<1> QED
  BY <1>3, <1>4 DEF Looked, Fine

(* A suite that lost its runner passes only over tests that passed or never *)
(* started, or were aborted after it looked at them, however many restarts  *)
(* and failed look-ups there are, and however the passes over tests and     *)
(* over suites interleave.                                                  *)
THEOREM AbandonedKept == Spec => AbandonedVerdict
<1>1. Init => Types /\ Looked
  BY TypeInit, LookedInit
<1>2. Types /\ Looked /\ [Next]_vars => (Types /\ Looked)'
  BY TypeStep, LookedStep
<1>3. Types /\ Looked /\ [Next]_vars =>
         [crashes > 0 /\ rec'.status # rec.status /\ rec'.status = "passed"
            => \A b \in Batches : HasTest(b) => exec[b] \in {"none", "passed"} \/ b \in late]_vars
  BY AbandonedStep
<1> QED
  BY <1>1, <1>2, <1>3, PTL DEF Spec, AbandonedVerdict
=============================================================================
