-------------------------- MODULE ExecutionNumbers --------------------------
(* The numbers of a test's executions: a document of the sequences          *)
(* collection counts them, and executeTest names the execution after its    *)
(* number and refuses a name that is taken.  The deletion of the test, or of *)
(* a suite that has its name, deletes the document and then executions.     *)
EXTENDS Naturals, SequencesExt

CONSTANTS
    Runs,       \* executions of the test that are started
    Old,        \* the executions 1..Old are stored already
    MaxRetries, \* maxRetries, 10 in the code
    MaxFails,   \* bound: calls of the database that fail
    Scenes      \* what is there at first, and what is deleted

ASSUME NumbersAssumption ==
    /\ Old \in Nat /\ MaxRetries \in Nat \ {0} /\ MaxFails \in Nat
    /\ Scenes \subseteq [seeded : BOOLEAN, serial : BOOLEAN, deletes : {"none", "test", "suite"}]

VARIABLES
    scene,  \* seeded: at first the sequence document is there and counts 1..Old;
            \* serial: the runs follow one another, as by a pool with one worker;
            \* deletes: what is deleted meanwhile, the test or a suite of its name
    member, \* runs that the suite starts, whose executions bear its name; none of
            \* the past ones does
    docs,   \* the numbers of the sequence documents with the test's name
    past,   \* the executions 1..Old are still stored
    stored, \* per run: the number of the execution it stored, or 0
    pc, num, tries, \* per run: where it is, execNmbr.Number, retryAttempts
    fails,
    dpc,    \* the deletion
    lost,   \* history: executions that were stored or under way when it began
    forked, \* history: a document was inserted beside another one
    astray  \* history: the runs whose number no document gave them

mode     == <<scene, member>>
deletion == <<past, dpc, lost>>
mishaps  == <<forked, astray>>
vars == <<mode, deletion, mishaps, docs, stored, pc, num, tries, fails>>

Init ==
    /\ scene \in Scenes
    /\ member \in IF scene.deletes = "suite" THEN SUBSET Runs ELSE {{}}
    /\ past = TRUE /\ dpc = "idle" /\ lost = 0
    /\ docs = IF scene.seeded THEN <<Old>> ELSE <<>>
    /\ stored = [r \in Runs |-> 0] /\ pc = [r \in Runs |-> "find"]
    /\ num = [r \in Runs |-> 0] /\ tries = [r \in Runs |-> 0]
    /\ fails = 0 /\ forked = FALSE /\ astray = {}

Goto(r, label) == pc' = [pc EXCEPT ![r] = label]

Alone == \A q \in Runs : pc[q] \in {"find", "rejected", "done"}

(* Without a document the first number is 1 whatever GetLatestTestNumber    *)
(* returned: what is added to is the number of an empty execution.          *)
Find(r) ==
    /\ pc[r] = "find" /\ (scene.serial => Alone)
    /\ \/ \E d \in DOMAIN docs : num' = [num EXCEPT ![r] = docs[d]] /\ Goto(r, "update")
       \/ docs = <<>> /\ num' = [num EXCEPT ![r] = 1] /\ Goto(r, "insert")
    /\ UNCHANGED <<mode, deletion, mishaps, docs, stored, tries, fails>>

FirstNumber(r, label) ==
    /\ pc[r] = "find" /\ (scene.serial => Alone) /\ fails < MaxFails
    /\ fails' = fails + 1 /\ num' = [num EXCEPT ![r] = 1] /\ Goto(r, label)
    /\ UNCHANGED <<mode, deletion, forked, docs, stored, tries>>

(* A read that fails is taken for a missing document.                       *)
FindFails(r) == FirstNumber(r, "insert") /\ UNCHANGED astray

(* The conversion of documents of the old format fails before the read: the *)
(* error comes with the number 1, and executeTest only logs it.             *)
ConvertFails(r) == FirstNumber(r, "check") /\ astray' = astray \cup {r}

Add(n) == docs' = Append(docs, n) /\ forked' = (forked \/ docs # <<>>)

(* Mutant: the inserted document is one behind.                             *)
InsertMut(r) ==
    /\ pc[r] = "insert" /\ Add(num[r] - 1) /\ Goto(r, "check")
    /\ UNCHANGED <<mode, deletion, astray, stored, num, tries, fails>>

Insert(r) ==
    /\ pc[r] = "insert" /\ Add(num[r]) /\ Goto(r, "check")
    /\ UNCHANGED <<mode, deletion, astray, stored, num, tries, fails>>

(* An insert that fails, or whose answer is lost, is retried as an update.  *)
InsertFails(r) ==
    /\ pc[r] = "insert" /\ fails < MaxFails /\ Goto(r, "update")
    /\ fails' = fails + 1 /\ tries' = [tries EXCEPT ![r] = @ + 1]
    /\ Add(num[r]) \/ UNCHANGED <<docs, forked>>
    /\ UNCHANGED <<mode, deletion, astray, stored, num>>

(* The document is incremented and returned in one step of the database.    *)
Increment(d, r) ==
    /\ docs' = [docs EXCEPT ![d] = @ + 1] /\ num' = [num EXCEPT ![r] = docs[d] + 1]

Update(r) ==
    /\ pc[r] = "update" /\ Goto(r, "check")
    /\ \/ \E d \in DOMAIN docs : Increment(d, r)
       \/ /\ docs = <<>>   \* upsert
          /\ docs' = <<1>> /\ num' = [num EXCEPT ![r] = 1]
    /\ UNCHANGED <<mode, deletion, mishaps, stored, tries, fails>>

(* Mutant: the first failure is not retried.                                *)
UpdateFailsMut(r) ==
    /\ pc[r] = "update" /\ fails < MaxFails
    /\ fails' = fails + 1 /\ tries' = [tries EXCEPT ![r] = @ + 1] /\ Goto(r, "check")
    /\ UNCHANGED <<mode, deletion, mishaps, docs, stored, num>>

(* An update that fails, or whose answer is lost: it is tried again, and    *)
(* after maxRetries retries the number read before is returned without an   *)
(* error.                                                                   *)
UpdateFails(r) ==
    /\ pc[r] = "update" /\ fails < MaxFails
    /\ fails' = fails + 1 /\ tries' = [tries EXCEPT ![r] = @ + 1]
    /\ \/ tries[r] < MaxRetries /\ UNCHANGED <<pc, astray>>
       \/ tries[r] >= MaxRetries /\ Goto(r, "check") /\ astray' = astray \cup {r}
    /\ \/ UNCHANGED docs
       \/ \E d \in DOMAIN docs : docs' = [docs EXCEPT ![d] = @ + 1]
       \/ docs = <<>> /\ docs' = <<1>>
    /\ UNCHANGED <<mode, deletion, forked, stored, num>>

Taken(n) == (past /\ n \in 1..Old) \/ \E q \in Runs : stored[q] = n

(* GetByNameAndTest for the name made of the number.                        *)
CheckName(r) ==
    /\ pc[r] = "check" /\ Goto(r, IF Taken(num[r]) THEN "rejected" ELSE "store")
    /\ UNCHANGED <<mode, deletion, mishaps, docs, stored, num, tries, fails>>

Store(r) ==
    /\ pc[r] = "store" /\ stored' = [stored EXCEPT ![r] = num[r]] /\ Goto(r, "done")
    /\ UNCHANGED <<mode, deletion, mishaps, docs, num, tries, fails>>

Run(r) ==
    \/ Find(r) \/ FindFails(r) \/ ConvertFails(r) \/ Insert(r) \/ InsertFails(r)
    \/ Update(r) \/ UpdateFails(r) \/ CheckName(r) \/ Store(r)

-----------------------------------------------------------------------------
(* DeleteByTest, and DeleteByTestSuite, which names the document after the  *)
(* suite: that of its own runs bears another prefix, that of a test of the  *)
(* same name is deleted.  With a selector all documents of the name are.    *)
UnderWay == {r \in Runs : pc[r] \in {"check", "store"}}
Stored   == {r \in Runs : stored[r] # 0}

DeleteNumber ==
    /\ dpc = "idle" /\ scene.deletes # "none" /\ dpc' = "executions"
    /\ lost' = Cardinality(UnderWay \cup Stored) + Old
    /\ \/ \E d \in DOMAIN docs : docs' = RemoveAt(docs, d)
       \/ docs' = <<>>
    /\ UNCHANGED <<mode, mishaps, past, stored, pc, num, tries, fails>>

(* The executions of the test, or those the suite has started.              *)
DeleteExecutions ==
    /\ dpc = "executions" /\ dpc' = "done"
    /\ past' = (past /\ scene.deletes = "suite")
    /\ stored' = [r \in Runs |-> IF scene.deletes = "suite" /\ r \notin member
                                 THEN stored[r] ELSE 0]
    /\ UNCHANGED <<mode, mishaps, lost, docs, pc, num, tries, fails>>

(* The number is gone, the executions stay.                                 *)
DeleteFails ==
    /\ dpc = "executions" /\ fails < MaxFails /\ fails' = fails + 1 /\ dpc' = "done"
    /\ UNCHANGED <<mode, mishaps, past, lost, docs, stored, pc, num, tries>>

(* A selector that one suite matches: the filter asks for a field of a name *)
(* that executions do not have, and all of them stay.                       *)
DeleteMisses ==
    /\ dpc = "executions" /\ scene.deletes = "suite" /\ dpc' = "done"
    /\ UNCHANGED <<mode, mishaps, past, lost, docs, stored, pc, num, tries, fails>>

Delete == DeleteNumber \/ DeleteExecutions \/ DeleteFails \/ DeleteMisses

Next == Delete \/ \E r \in Runs : Run(r)

Spec == Init /\ [][Next]_vars

-----------------------------------------------------------------------------

Labels == {"find", "insert", "update", "check", "store", "rejected", "done"}
Numbered(r) == pc[r] \in {"check", "store", "rejected", "done"}

(* With one sequence document that counts the stored executions, concurrent *)
(* runs get different numbers, none of them one of the past, though updates *)
(* fail, or succeed without telling, between them (mongo_numbers.go:53-63): *)
(* all runs but those that got a number in spite of an error, after a       *)
(* failing conversion or the last retry.  A read that fails ends it, by a   *)
(* second document.                                                         *)
Counted == scene.seeded /\ dpc = "idle" /\ ~forked
Given(r) == Numbered(r) /\ r \notin astray
NumbersUnique ==
    Counted => \A q, r \in Runs :
        Given(r) => num[r] > Old /\ (Given(q) /\ q # r => num[q] # num[r])

(* and so no run is refused for the name of another one, except one that    *)
(* went astray or whose name such a run has got (test_scheduler.go:54-58):  *)
(* the refusal is an answer without an error that the run of a suite cannot *)
(* tell from a started execution.                                           *)
NoneRefused ==
    Counted => \A r \in Runs : pc[r] = "rejected" =>
                    r \in astray \/ \E q \in astray : num[q] = num[r]

(* Where the sequence document is missing, the numbers start at 1 and not   *)
(* after the last execution (mongo_numbers.go:44-50): as many runs are      *)
(* refused as there are past executions, but not one more; none where it is *)
(* there.  A deletion loses it before the executions, which may stay, and   *)
(* so does that of a suite of the same name, most of whose test's           *)
(* executions stay: as many runs are refused as there were executions.      *)
(* Runs that went astray and a second document are left aside.              *)
RefusalsBounded ==
    /\ NoneRefused
    /\ scene.serial /\ ~forked /\ astray = {} =>
          Cardinality({r \in Runs : pc[r] = "rejected"})
              <= (IF scene.seeded THEN 0 ELSE Old) + lost

=============================================================================
