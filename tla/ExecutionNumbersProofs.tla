------------------------ MODULE ExecutionNumbersProofs ------------------------
(* The numbers of concurrent runs, for any set of runs, any past and any    *)
(* number of retries; and how many of the runs that follow one another are  *)
(* refused when the document that counts them is missing or deleted.        *)
EXTENDS ExecutionNumbers, FiniteSetTheorems, SequenceTheorems, TLAPS

Values ==
    /\ docs \in Seq(Nat) /\ pc \in [Runs -> Labels] /\ num \in [Runs -> Nat]
    /\ tries \in [Runs -> Nat] /\ fails \in 0..MaxFails /\ stored \in [Runs -> Nat]
    /\ astray \subseteq Runs

(* The one sequence document is at every number it gave and at every number *)
(* it gave away unseen.                                                     *)
Counter == Len(docs) = 1 /\ docs[1] >= Old

(* The runs that were given a number have one that the document has passed. *)
Numbering ==
    \A r \in Runs :
        /\ Given(r) => num[r] > Old /\ num[r] <= docs[1]
        /\ r \in astray => Numbered(r)
        /\ stored[r] # 0 => pc[r] = "done" /\ stored[r] = num[r]

Distinct ==
    \A q, r \in Runs : Given(q) /\ Given(r) /\ q # r => num[q] # num[r]

ForAstray(r) == r \in astray \/ \E q \in astray : num[q] = num[r]
NoneTaken == \A r \in Runs : pc[r] = "rejected" => ForAstray(r)

Inv == Values /\ Counter /\ Numbering /\ Distinct /\ NoneTaken

(* Incrementing the only document of a sequence.                            *)
LEMMA Incrementing ==
    ASSUME NEW s \in Seq(Nat), Len(s) = 1
    PROVE  /\ [s EXCEPT ![1] = @ + 1] \in Seq(Nat)
           /\ Len([s EXCEPT ![1] = @ + 1]) = 1
           /\ [s EXCEPT ![1] = @ + 1][1] = s[1] + 1
           /\ DOMAIN s = {1} /\ s[1] \in Nat
OBVIOUS

LEMMA InitInv == ASSUME scene.seeded, Init PROVE Inv
<1>1. Values /\ Counter
  BY NumbersAssumption DEF Init, Values, Counter, Labels
<1>2. Numbering /\ Distinct /\ NoneTaken
  BY NumbersAssumption DEF Init, Numbering, Distinct, NoneTaken, Given, Numbered
<1> QED
  BY <1>1, <1>2 DEF Inv

LEMMA ValuesStep == ASSUME Inv, NEW r \in Runs, Run(r), ~forked' PROVE Values'
<1>0. Values /\ Counter
  BY DEF Inv
<1>a. docs[1] \in Nat /\ DOMAIN docs = {1} /\ docs # <<>>
  BY <1>0, Incrementing DEF Values, Counter
<1>1. CASE Find(r)
  <2>1. num' = [num EXCEPT ![r] = docs[1]] /\ Goto(r, "update")
    BY <1>1, <1>a DEF Find
  <2> QED
    BY <1>0, <1>1, <1>a, <2>1 DEF Find, Goto, Values, Labels, mishaps
<1>7. CASE FindFails(r) \/ ConvertFails(r)
  <2>1. fails' \in 0..MaxFails /\ astray' \subseteq Runs
    BY <1>0, <1>7, NumbersAssumption DEF FindFails, ConvertFails, FirstNumber, Values
  <2>2. /\ UNCHANGED <<docs, stored, tries>> /\ num' = [num EXCEPT ![r] = 1]
        /\ \E label \in {"insert", "check"} : pc' = [pc EXCEPT ![r] = label]
    BY <1>7 DEF FindFails, ConvertFails, FirstNumber, Goto
  <2>3. num' \in [Runs -> Nat] /\ pc' \in [Runs -> Labels]
    BY <1>0, <2>2 DEF Values, Labels
  <2> QED
    BY <1>0, <2>1, <2>2, <2>3 DEF Values
<1>2. CASE Insert(r)
  BY <1>2, <1>a DEF Insert, Add
<1>8. CASE InsertFails(r)
  <2>1. UNCHANGED <<docs, num, stored, astray>> /\ Goto(r, "update")
    BY <1>8, <1>a DEF InsertFails, Add
  <2>2. fails' \in 0..MaxFails /\ tries' \in [Runs -> Nat]
    BY <1>0, <1>8, NumbersAssumption DEF InsertFails, Values
  <2> QED
    BY <1>0, <2>1, <2>2 DEF Goto, Values, Labels
<1>3. CASE Update(r)
  <2>1. Increment(1, r)
    BY <1>3, <1>a DEF Update
  <2> QED
    BY <1>0, <1>3, <1>a, <2>1, Incrementing
       DEF Update, Increment, Goto, Values, Counter, Labels, mishaps
<1>4. CASE UpdateFails(r)
  <2>1. docs' \in Seq(Nat)
    <3>1. docs' = docs \/ docs' = [docs EXCEPT ![1] = @ + 1]
      BY <1>4, <1>a DEF UpdateFails
    <3> QED
      BY <1>0, <3>1, Incrementing DEF Values, Counter
  <2>2. fails' \in 0..MaxFails /\ tries' \in [Runs -> Nat]
    BY <1>0, <1>4, NumbersAssumption DEF UpdateFails, Values
  <2> QED
    BY <1>0, <1>4, <2>1, <2>2 DEF UpdateFails, Goto, Values, Labels
<1>5. CASE CheckName(r)
  BY <1>0, <1>5 DEF CheckName, Goto, Values, Labels, mishaps
<1>6. CASE Store(r)
  BY <1>0, <1>6 DEF Store, Goto, Values, Labels, mishaps
<1> QED
  BY <1>1, <1>2, <1>3, <1>4, <1>5, <1>6, <1>7, <1>8 DEF Run

(* A run without a number that gets none, or a number by an error.          *)
LEMMA Ungiven ==
    ASSUME Inv, NEW r \in Runs, ~Numbered(r), UNCHANGED <<docs, stored>>,
           \A q \in Runs : q # r => pc'[q] = pc[q] /\ num'[q] = num[q],
           \/ pc'[r] \in {"insert", "update"} /\ astray' = astray
           \/ pc'[r] = "check" /\ astray' = astray \cup {r}
    PROVE  Counter' /\ Numbering' /\ Distinct' /\ NoneTaken'
<1>0. Values /\ Counter /\ Numbering /\ Distinct /\ NoneTaken
  BY DEF Inv
<1>1. r \notin astray /\ pc[r] # "rejected" /\ pc'[r] # "rejected" /\ stored[r] = 0
  BY <1>0 DEF Numbering, Numbered
<1>2. (\A q \in Runs : Given(q)' => q # r /\ Given(q) /\ num'[q] = num[q])
      /\ astray \subseteq astray' /\ \A q \in astray : q \in Runs /\ num'[q] = num[q]
  BY <1>0, <1>1 DEF Given, Numbered, Values
<1>3. Counter' /\ Distinct'
  BY <1>0, <1>2 DEF Counter, Distinct
<1>4. Numbering'
  BY <1>0, <1>1, <1>2 DEF Numbering, Numbered
<1>5. NoneTaken'
  BY <1>0, <1>1, <1>2 DEF NoneTaken, ForAstray
<1> QED
  BY <1>3, <1>4, <1>5

(* Every step keeps the document and the numbers it gave.                   *)
LEMMA NumbersStep ==
    ASSUME Inv, NEW r \in Runs, Run(r), ~forked'
    PROVE  Counter' /\ Numbering' /\ Distinct' /\ NoneTaken'
<1>0. Values /\ Counter /\ Numbering /\ Distinct /\ NoneTaken
  BY DEF Inv
<1>a. docs[1] \in Nat /\ DOMAIN docs = {1} /\ docs # <<>>
  BY <1>0, Incrementing DEF Values, Counter
<1>1. CASE Find(r) \/ FindFails(r) \/ ConvertFails(r)
  <2>1. \/ Find(r) /\ Goto(r, "update") /\ astray' = astray
        \/ FindFails(r) /\ Goto(r, "insert") /\ astray' = astray
        \/ ConvertFails(r) /\ Goto(r, "check") /\ astray' = astray \cup {r}
    BY <1>1, <1>a DEF Find, FindFails, ConvertFails, FirstNumber, mishaps
  <2>2. pc[r] = "find" /\ UNCHANGED <<docs, stored>> /\ \E n : num' = [num EXCEPT ![r] = n]
    BY <1>1, <1>a DEF Find, FindFails, ConvertFails, FirstNumber
  <2>3. \A q \in Runs : q # r => pc'[q] = pc[q] /\ num'[q] = num[q]
    BY <1>0, <2>1, <2>2 DEF Goto, Values
  <2>4. \/ pc'[r] \in {"insert", "update"} /\ astray' = astray
        \/ pc'[r] = "check" /\ astray' = astray \cup {r}
    BY <1>0, <2>1 DEF Goto, Values
  <2> QED
    BY <2>2, <2>3, <2>4, Ungiven DEF Numbered
<1>2. CASE Insert(r)
  BY <1>2, <1>a DEF Insert, Add
<1>7. CASE InsertFails(r)
  <2>1. pc[r] = "insert" /\ UNCHANGED <<docs, stored, num, astray>> /\ Goto(r, "update")
    BY <1>7, <1>a DEF InsertFails, Add
  <2>2. pc'[r] = "update" /\ \A q \in Runs : q # r => pc'[q] = pc[q]
    BY <1>0, <2>1 DEF Goto, Values
  <2> QED
    BY <2>1, <2>2, Ungiven DEF Numbered
<1>3. CASE Update(r)
  <2>1. Increment(1, r) /\ Goto(r, "check") /\ pc[r] = "update"
    BY <1>3, <1>a DEF Update
  <2>2. docs'[1] = docs[1] + 1 /\ Len(docs') = 1 /\ num'[r] = docs[1] + 1
    BY <1>0, <2>1, Incrementing DEF Increment, Values, Counter
  <2>3. \A q \in Runs : q # r => num'[q] = num[q] /\ pc'[q] = pc[q]
    BY <1>0, <2>1 DEF Increment, Goto, Values
  <2>4. pc'[r] = "check" /\ UNCHANGED <<stored, astray>>
    BY <1>0, <1>3, <2>1 DEF Goto, Values, Update, mishaps
  <2>5. Counter'
    BY <1>0, <1>a, <2>2, NumbersAssumption DEF Counter
  <2>8. r \notin astray /\ stored[r] = 0 /\ astray \subseteq Runs
    BY <1>0, <2>1 DEF Numbering, Numbered, Values
  <2>9. \A q \in Runs : q # r => (Given(q)' <=> Given(q)) /\ (Numbered(q)' <=> Numbered(q))
    BY <2>3, <2>4 DEF Given, Numbered
  <2>6. Numbering'
    <3>1. num'[r] > Old /\ num'[r] <= docs'[1]
      BY <1>0, <1>a, <2>2, NumbersAssumption DEF Counter
    <3>2. \A q \in Runs : q # r /\ Given(q) => num'[q] > Old /\ num'[q] <= docs'[1]
      BY <1>0, <1>a, <2>2, <2>3, NumbersAssumption DEF Numbering, Values
    <3> QED
      BY <1>0, <2>3, <2>4, <2>8, <2>9, <3>1, <3>2 DEF Numbering
  <2>7. Distinct' /\ NoneTaken'
    <3>1. \A q \in Runs : q # r /\ Given(q) => num'[q] # num'[r]
      BY <1>0, <1>a, <2>2, <2>3 DEF Numbering, Values
    <3>2. Distinct'
      BY <1>0, <2>3, <2>9, <3>1 DEF Distinct
    <3>3. \A q \in astray : q # r /\ num'[q] = num[q]
      BY <2>3, <2>8
    <3> QED
      BY <1>0, <2>3, <2>4, <3>2, <3>3 DEF NoneTaken, ForAstray
  <2> QED
    BY <2>5, <2>6, <2>7
<1>4. CASE UpdateFails(r)
  <2>1. pc[r] = "update" /\ num' = num /\ stored' = stored
    BY <1>4 DEF UpdateFails
  <2>2. \/ pc' = pc /\ astray' = astray
        \/ pc'[r] = "check" /\ astray' = astray \cup {r}
    BY <1>0, <1>4 DEF UpdateFails, Goto, Values
  <2>3. \A q \in Runs : q # r => pc'[q] = pc[q]
    BY <1>0, <1>4 DEF UpdateFails, Goto, Values
  <2>4. Len(docs') = 1 /\ docs'[1] \in Nat /\ docs'[1] >= docs[1]
    BY <1>0, <1>4, <1>a, Incrementing DEF UpdateFails, Values, Counter
  <2>5. Counter'
    BY <1>0, <1>a, <2>4, NumbersAssumption DEF Counter
  <2>6. r \notin astray /\ stored[r] = 0 /\ astray \subseteq astray'
    BY <1>0, <2>1, <2>2 DEF Numbering, Numbered
  <2>7. \A q \in Runs : (Given(q)' => Given(q)) /\ (q # r => (Numbered(q)' <=> Numbered(q)))
    BY <2>1, <2>2, <2>3 DEF Given, Numbered
  <2>8. Numbering'
    <3>1. \A q \in Runs : Given(q)' => num'[q] > Old /\ num'[q] <= docs'[1]
      <4>1. \A q \in Runs : num[q] \in Nat
        BY <1>0 DEF Values
      <4>2. \A q \in Runs : Given(q) => num[q] > Old /\ num[q] <= docs[1]
        BY <1>0 DEF Numbering
      <4>3. \A q \in Runs : num[q] <= docs[1] => num[q] <= docs'[1]
        BY <1>a, <2>4, <4>1
      <4> QED
        BY <2>1, <2>7, <4>2, <4>3
    <3>2. \A q \in Runs : q \in astray' => Numbered(q)'
      BY <1>0, <2>2, <2>6, <2>7 DEF Numbering, Numbered
    <3>3. \A q \in Runs : stored'[q] # 0 => pc'[q] = "done" /\ stored'[q] = num'[q]
      BY <1>0, <2>1, <2>3, <2>6 DEF Numbering
    <3> QED
      BY <3>1, <3>2, <3>3 DEF Numbering
  <2>9. Distinct' /\ NoneTaken'
    BY <1>0, <2>1, <2>2, <2>3, <2>6, <2>7 DEF Distinct, NoneTaken, ForAstray
  <2> QED
    BY <2>5, <2>8, <2>9
<1>5. CASE CheckName(r)
  <2>0. pc[r] = "check" /\ Numbered(r) /\ num[r] \in Nat
    BY <1>0, <1>5 DEF CheckName, Numbered, Values
  <2>1. Taken(num[r]) => ForAstray(r)
    <3>0. SUFFICES ASSUME Taken(num[r]), r \notin astray PROVE ForAstray(r)
      BY DEF ForAstray
    <3>1. Given(r) /\ num[r] \notin 1..Old /\ num[r] # 0
      BY <1>0, <2>0, <3>0, NumbersAssumption DEF Given, Numbering
    <3>2. PICK q \in Runs : stored[q] = num[r]
      BY <3>0, <3>1 DEF Taken
    <3>3. pc[q] = "done" /\ num[q] = num[r] /\ q # r
      BY <1>0, <2>0, <3>1, <3>2 DEF Numbering
    <3>4. q \in astray
      BY <1>0, <3>1, <3>3 DEF Distinct, Given, Numbered
    <3> QED
      BY <3>3, <3>4 DEF ForAstray
  <2>2. UNCHANGED <<docs, stored, num, astray>>
        /\ pc'[r] = IF Taken(num[r]) THEN "rejected" ELSE "store"
    BY <1>0, <1>5 DEF CheckName, Goto, Values, mishaps
  <2>3. \A q \in Runs : q # r => pc'[q] = pc[q]
    BY <1>0, <1>5 DEF CheckName, Goto, Values
  <2>4. \A q \in Runs : (Numbered(q)' <=> Numbered(q)) /\ (Given(q)' <=> Given(q))
    BY <2>0, <2>2, <2>3 DEF Numbered, Given
  <2>5. Numbering' /\ Distinct' /\ Counter'
    BY <1>0, <2>0, <2>2, <2>3, <2>4 DEF Numbering, Distinct, Counter
  <2>6. NoneTaken'
    BY <1>0, <2>1, <2>2, <2>3 DEF NoneTaken, ForAstray
  <2> QED
    BY <2>5, <2>6
<1>6. CASE Store(r)
  <2>1. pc'[r] = "done" /\ pc[r] = "store" /\ UNCHANGED <<docs, num, astray>>
    BY <1>0, <1>6 DEF Store, Goto, Values, mishaps
  <2>2. stored'[r] = num[r]
    BY <1>0, <1>6 DEF Store, Values
  <2>3. \A q \in Runs : q # r => pc'[q] = pc[q] /\ stored'[q] = stored[q]
    BY <1>0, <1>6 DEF Store, Goto, Values
  <2>4. \A q \in Runs : (Numbered(q)' <=> Numbered(q)) /\ (Given(q)' <=> Given(q))
    BY <2>1, <2>3 DEF Numbered, Given
  <2>5. Numbering' /\ Distinct' /\ Counter'
    BY <1>0, <2>1, <2>2, <2>3, <2>4 DEF Numbering, Distinct, Counter
  <2>6. NoneTaken'
    BY <1>0, <2>1, <2>3 DEF NoneTaken, ForAstray
  <2> QED
    BY <2>5, <2>6
<1> QED
  BY <1>1, <1>2, <1>3, <1>4, <1>5, <1>6, <1>7 DEF Run

(* A second document is not forgotten.                                      *)
LEMMA ForkStays == ASSUME NEW r \in Runs, Run(r), ~forked' PROVE ~forked
<1>1. CASE Insert(r) \/ InsertFails(r)
  BY <1>1 DEF Insert, InsertFails, Add
<1>2. CASE ~Insert(r) /\ ~InsertFails(r)
  BY <1>2 DEF Run, Find, FindFails, ConvertFails, FirstNumber, Update, UpdateFails, CheckName,
              Store, mishaps
<1> QED
  BY <1>1, <1>2

(* What is counted was counted before, and no deletion was at work.         *)
LEMMA CountedStep ==
    ASSUME [Next]_vars, Counted'
    PROVE  Counted /\ ((\E r \in Runs : Run(r)) \/ UNCHANGED vars)
<1>1. ASSUME NEW r \in Runs, Run(r) PROVE UNCHANGED <<scene, dpc>> /\ (~forked' => ~forked)
  <2>1. UNCHANGED <<scene, dpc>>
    BY <1>1 DEF Run, Find, FindFails, ConvertFails, FirstNumber, Insert, InsertFails, Update,
                UpdateFails, CheckName, Store, mode, deletion
  <2>2. ~forked' => ~forked
    BY <1>1, ForkStays
  <2> QED
    BY <2>1, <2>2
<1>2. ~Delete
  BY DEF Delete, DeleteNumber, DeleteExecutions, DeleteFails, DeleteMisses,
             Counted
<1> QED
  BY <1>1, <1>2 DEF Next, vars, mode, deletion, mishaps, Counted

(* The invariant of the specification: where the document was there.        *)
SeededInv == Counted => Inv

LEMMA InvInit == Init => SeededInv
BY InitInv DEF SeededInv, Counted, Init

LEMMA InvStep == SeededInv /\ [Next]_vars => SeededInv'
<1>1. ASSUME Inv, ~forked', NEW r \in Runs, Run(r) PROVE Inv'
  BY <1>1, ValuesStep, NumbersStep DEF Inv
<1>2. Inv /\ UNCHANGED vars => Inv'
  BY DEF vars, mishaps, Inv, Values, Counter, Numbering, Distinct, NoneTaken, ForAstray, Given,
         Numbered
<1>3. Inv /\ ~forked' /\ ((\E r \in Runs : Run(r)) \/ UNCHANGED vars) => Inv'
  BY <1>1, <1>2
<1>4. Counted' => ~forked'
  BY DEF Counted
<1> QED
  BY <1>3, <1>4, CountedStep DEF SeededInv

(* Concurrent runs of a test whose executions one document counts get       *)
(* different numbers, all beyond the past ones, those aside that got one in *)
(* spite of an error.                                                       *)
THEOREM Unique == Spec => []NumbersUnique
<1>1. SeededInv => NumbersUnique
  BY DEF SeededInv, Inv, NumbersUnique, Numbering, Distinct
<1> QED
  BY <1>1, InvInit, InvStep, PTL DEF Spec

(* and none of them is refused but for the name of such a run.              *)
THEOREM Unrefused == Spec => []NoneRefused
<1>1. SeededInv => NoneRefused
  BY DEF SeededInv, Inv, NoneTaken, ForAstray, NoneRefused
<1> QED
  BY <1>1, InvInit, InvStep, PTL DEF Spec

-----------------------------------------------------------------------------
(* Runs that follow one another.  A deletion divides them: those numbered   *)
(* before it, "early", and the late ones, whose numbers start at 1 again.   *)
Active(r)   == pc[r] \in {"insert", "update", "check", "store"}
Started     == {r \in Runs : pc[r] # "find"}
Rejected    == {r \in Runs : pc[r] = "rejected"}
Late(early) == {r \in Runs : Numbered(r)} \ early
Kept(early) == early \ Rejected
Untouched   == dpc = "idle"
Undisturbed == ~forked /\ astray = {}

OneActive == \A q, r \in Runs : Active(q) /\ Active(r) => q = r
Document  ==
    /\ Len(docs) <= 1
    /\ \A r \in Runs : pc[r] = "insert" => num[r] = 1
    /\ scene.seeded /\ Untouched => docs # <<>> /\ docs[1] >= Old
Storing ==
    \A r \in Runs : /\ stored[r] # 0 => pc[r] = "done" /\ stored[r] = num[r]
                    /\ Untouched /\ pc[r] = "done" => stored[r] # 0
Base ==
    /\ scene \in Scenes /\ scene.serial /\ Values /\ IsFiniteSet(Started) /\ lost \in Nat
    /\ OneActive /\ Document /\ Storing

(* The late ones have the numbers up to the document's, all different, and  *)
(* are refused for a past execution or an early one that was stored.        *)
LateOnes(early) ==
    /\ docs = <<>> => Late(early) = {}
    /\ \A r \in Late(early) :
          /\ num[r] \in 1..docs[1]
          /\ scene.seeded /\ Untouched => num[r] > Old
          /\ \A q \in Late(early) : num[q] = num[r] => q = r
          /\ pc[r] = "rejected" => num[r] \in 1..Old \cup {num[q] : q \in Kept(early)}

(* The early ones are refused for past executions only, and not at all      *)
(* where the document counted those.                                        *)
EarlyOnes(early) ==
    /\ \A r \in early :
          /\ Numbered(r) /\ num[r] # 0
          /\ scene.seeded => num[r] > Old
          /\ \A q \in early : num[q] = num[r] => q = r
          /\ pc[r] = "rejected" => num[r] \in 1..Old
          /\ Active(r) => Late(early) = {}
    /\ Untouched => early = {}
    /\ ~Untouched => lost >= Cardinality(Kept(early)) + Old

(* One document or none.                                                    *)
LEMMA One ==
    ASSUME NEW s \in Seq(Nat), Len(s) <= 1, s # <<>>
    PROVE  DOMAIN s = {1} /\ s[1] \in Nat /\ Len(s) = 1
<1>1. Len(s) \in Nat \ {0}
  BY EmptySeq
<1>2. Len(s) = 1
  <2>1. \A n \in Nat \ {0} : n <= 1 => n = 1
    OBVIOUS
  <2> QED
    BY ONLY <1>1, <2>1, Len(s) <= 1
<1> QED
  BY <1>2, Incrementing

LEMMA FirstDocument ==
    /\ <<>> \in Seq(Nat) /\ Len(<<>>) = 0 /\ DOMAIN <<>> = {}
    /\ <<1>> \in Seq(Nat) /\ Len(<<1>>) = 1 /\ <<1>>[1] = 1 /\ <<1>> # <<>>
<1>3. <<1>> \in Seq(Nat) /\ Len(<<1>>) = 1 /\ <<1>>[1] = 1 /\ <<1>> # <<>>
  OBVIOUS
<1>4. <<>> \in Seq(Nat) /\ Len(<<>>) = 0 /\ DOMAIN <<>> = {}
  OBVIOUS
<1> QED
  BY <1>3, <1>4

LEMMA Single ==
    ASSUME Base
    PROVE  \/ docs = <<>> /\ DOMAIN docs = {}
           \/ docs # <<>> /\ DOMAIN docs = {1} /\ docs[1] \in Nat /\ Len(docs) = 1
<1>1. docs \in Seq(Nat) /\ Len(docs) <= 1
  BY DEF Base, Values, Document
<1>2. CASE docs = <<>>
  BY <1>2, FirstDocument
<1>3. CASE docs # <<>>
  BY <1>1, <1>3, One
<1> QED
  BY <1>2, <1>3

(* What a run does that neither goes astray nor adds a document.            *)
Found(r) == Find(r) \/ FindFails(r)

LEMMA RunSteps ==
    ASSUME NEW r \in Runs, Run(r), Undisturbed'
    PROVE  \/ Found(r) \/ Insert(r) \/ InsertFails(r) \/ Update(r) \/ UpdateFails(r)
           \/ CheckName(r) \/ Store(r)
<1>1. ~ConvertFails(r)
  BY DEF ConvertFails, Undisturbed
<1> QED
  BY <1>1 DEF Run, Found

LEMMA OthersStay ==
    ASSUME Values, NEW r \in Runs, Run(r), NEW q \in Runs, q # r
    PROVE  /\ pc'[q] = pc[q] /\ num'[q] = num[q] /\ tries'[q] = tries[q]
           /\ stored'[q] = stored[q]
BY DEF Values, Run, Find, FindFails, ConvertFails, FirstNumber, Insert, InsertFails, Update,
       Increment, UpdateFails, CheckName, Store, Goto

LEMMA RunKeeps ==
    ASSUME NEW r \in Runs, Run(r) PROVE UNCHANGED <<scene, dpc, lost, past>>
BY DEF Run, Find, FindFails, ConvertFails, FirstNumber, Insert, InsertFails, Update, UpdateFails,
       CheckName, Store, mode, deletion

(* What the steps of a run do.                                              *)
LEMMA DoFind ==
    ASSUME Base, NEW r \in Runs, Found(r)
    PROVE  /\ pc[r] = "find" /\ UNCHANGED <<docs, stored, tries>>
           /\ fails' \in 0..MaxFails /\ \A q \in Runs : ~Active(q)
           /\ num' \in [Runs -> Nat] /\ pc' \in [Runs -> Labels]
           /\ \/ pc'[r] = "update"
              \/ pc'[r] = "insert" /\ num'[r] = 1
<1>1. Values /\ scene.serial
  BY DEF Base
<1>2. pc[r] = "find" /\ UNCHANGED <<docs, stored, tries>> /\ Alone
  BY <1>1 DEF Found, Find, FindFails, FirstNumber
<1>3. \/ docs # <<>> /\ num' = [num EXCEPT ![r] = docs[1]] /\ Goto(r, "update") /\ docs[1] \in Nat
      \/ num' = [num EXCEPT ![r] = 1] /\ Goto(r, "insert")
  BY Single DEF Found, Find, FindFails, FirstNumber
<1>4. \A q \in Runs : ~Active(q)
  BY <1>2 DEF Alone, Active
<1>5. num' \in [Runs -> Nat]
  <2>1. \E n \in Nat : num' = [num EXCEPT ![r] = n]
    BY <1>3
  <2> QED
    BY <1>1, <2>1 DEF Values
<1>7. pc' \in [Runs -> Labels]
  BY <1>1, <1>3 DEF Values, Goto, Labels
<1>6. \/ pc'[r] = "update"
      \/ pc'[r] = "insert" /\ num'[r] = 1
  BY <1>1, <1>3 DEF Values, Goto
<1>8. fails' \in 0..MaxFails
  BY <1>1, NumbersAssumption DEF Found, Find, FindFails, FirstNumber, Values
<1> QED
  BY <1>2, <1>4, <1>5, <1>6, <1>7, <1>8

LEMMA DoInsert ==
    ASSUME Base, NEW r \in Runs, Insert(r), Undisturbed'
    PROVE  /\ pc[r] = "insert" /\ pc'[r] = "check" /\ UNCHANGED <<stored, tries, fails, num>>
           /\ docs = <<>> /\ num[r] = 1 /\ docs' = <<1>> /\ pc' \in [Runs -> Labels]
<1>1. pc[r] = "insert" /\ docs = <<>> /\ num[r] = 1
  BY DEF Base, Document, Insert, Add, Undisturbed
<1>2. docs' = Append(docs, num[r])
  BY DEF Insert, Add
<1>3. docs' = <<1>>
  BY <1>1, <1>2
<1> QED
  BY <1>1, <1>3 DEF Base, Values, Insert, Goto, Labels

LEMMA DoInsertFails ==
    ASSUME Base, NEW r \in Runs, InsertFails(r), Undisturbed'
    PROVE  /\ pc[r] = "insert" /\ pc'[r] = "update" /\ UNCHANGED <<stored, num>>
           /\ docs' = docs \/ (docs = <<>> /\ docs' = <<1>>)
           /\ pc' \in [Runs -> Labels]
           /\ fails' = fails + 1 /\ fails' \in 0..MaxFails
           /\ tries' = [tries EXCEPT ![r] = @ + 1]
<1>1. pc[r] = "insert" /\ num[r] = 1
  BY DEF Base, Document, InsertFails
<1>2. docs' = docs \/ (docs = <<>> /\ docs' = Append(docs, num[r]))
  BY DEF InsertFails, Add, Undisturbed
<1>3. docs' = docs \/ (docs = <<>> /\ docs' = <<1>>)
  <2>1. CASE docs' = docs
    BY <2>1
  <2>2. CASE docs = <<>> /\ docs' = Append(docs, num[r])
    <3>1. docs' = Append(<<>>, 1)
      BY <1>1, <2>2
    <3> QED
      BY <2>2, <3>1
  <2> QED
    BY <1>2, <2>1, <2>2
<1>4. fails' = fails + 1 /\ fails' \in 0..MaxFails
  BY NumbersAssumption DEF Base, Values, InsertFails
<1> QED
  BY <1>1, <1>3, <1>4 DEF Base, Values, InsertFails, Goto, Labels

LEMMA DoUpdate ==
    ASSUME Base, NEW r \in Runs, Update(r)
    PROVE  /\ pc[r] = "update" /\ pc'[r] = "check" /\ UNCHANGED <<stored, tries, fails>>
           /\ num' \in [Runs -> Nat] /\ pc' \in [Runs -> Labels]
           /\ docs' \in Seq(Nat) /\ Len(docs') = 1 /\ docs'[1] = num'[r]
           /\ \/ docs # <<>> /\ docs[1] \in Nat /\ num'[r] = docs[1] + 1
              \/ docs = <<>> /\ num'[r] = 1
<1>1. Values
  BY DEF Base
<1>2. pc[r] = "update" /\ Goto(r, "check") /\ UNCHANGED <<stored, tries, fails>>
  BY DEF Update
<1>3. CASE docs = <<>>
  <2>1. docs' = <<1>> /\ num' = [num EXCEPT ![r] = 1]
    BY <1>3, Single DEF Update
  <2>2. docs' \in Seq(Nat) /\ Len(docs') = 1 /\ docs'[1] = 1
    BY <2>1, FirstDocument
  <2> QED
    BY <1>1, <1>2, <1>3, <2>1, <2>2 DEF Values, Goto, Labels
<1>4. CASE docs # <<>>
  <2>1. Increment(1, r) /\ Len(docs) = 1
    BY <1>4, Single DEF Update
  <2>2. docs'[1] = docs[1] + 1 /\ Len(docs') = 1 /\ docs' \in Seq(Nat) /\ docs[1] \in Nat
    BY <1>1, <2>1, Incrementing DEF Increment, Values
  <2> QED
    BY <1>1, <1>2, <1>4, <2>1, <2>2 DEF Values, Goto, Labels, Increment
<1> QED
  BY <1>3, <1>4

LEMMA DoUpdateFails ==
    ASSUME Base, NEW r \in Runs, UpdateFails(r), Undisturbed'
    PROVE  /\ pc[r] = "update" /\ pc' = pc /\ UNCHANGED <<stored, num>>
           /\ fails' = fails + 1 /\ fails' \in 0..MaxFails
           /\ tries' = [tries EXCEPT ![r] = @ + 1]
           /\ docs' \in Seq(Nat) /\ Len(docs') <= 1
           /\ docs # <<>> => docs' # <<>> /\ docs'[1] >= docs[1]
<1>1. Values /\ fails < MaxFails /\ pc[r] = "update"
  BY DEF Base, UpdateFails
<1>2. r \notin astray'
  BY DEF Undisturbed
<1>3. pc' = pc /\ fails' = fails + 1 /\ fails' \in 0..MaxFails
  BY <1>1, <1>2, NumbersAssumption DEF UpdateFails, Values
<1>4. CASE docs = <<>>
  <2>1. docs' = <<>> \/ docs' = <<1>>
    BY <1>4, Single DEF UpdateFails
  <2>2. docs' \in Seq(Nat) /\ Len(docs') <= 1
    <3>1. CASE docs' = <<>>
      BY <3>1, FirstDocument
    <3>2. CASE docs' = <<1>>
      BY <3>2, FirstDocument
    <3> QED
      BY <2>1, <3>1, <3>2
  <2> QED
    BY <1>1, <1>3, <1>4, <2>2 DEF UpdateFails
<1>5. CASE docs # <<>>
  <2>1. docs' = docs \/ docs' = [docs EXCEPT ![1] = @ + 1]
    BY <1>5, Single DEF UpdateFails
  <2>2. docs \in Seq(Nat) /\ Len(docs) = 1 /\ docs[1] \in Nat
    BY <1>1, <1>5, Single DEF Values
  <2>3. docs' \in Seq(Nat) /\ Len(docs') = 1 /\ docs'[1] >= docs[1]
    <3>1. CASE docs' = docs
      BY <2>2, <3>1
    <3>2. CASE docs' = [docs EXCEPT ![1] = @ + 1]
      BY <2>2, <3>2, Incrementing
    <3> QED
      BY <2>1, <3>1, <3>2
  <2>4. docs' # <<>>
    <3>1. Len(docs') # 0 /\ docs' \in Seq(Nat)
      BY <2>3
    <3> QED
      BY <3>1, EmptySeq
  <2> QED
    BY <1>1, <1>3, <1>5, <2>3, <2>4 DEF UpdateFails
<1> QED
  BY <1>4, <1>5

LEMMA DoCheckName ==
    ASSUME Base, NEW r \in Runs, CheckName(r)
    PROVE  /\ pc[r] = "check" /\ pc' \in [Runs -> Labels]
           /\ UNCHANGED <<docs, stored, num, tries, fails>>
           /\ pc'[r] = IF Taken(num[r]) THEN "rejected" ELSE "store"
BY DEF Base, Values, CheckName, Goto, Labels

LEMMA DoStore ==
    ASSUME Base, NEW r \in Runs, Store(r)
    PROVE  /\ pc[r] = "store" /\ pc'[r] = "done" /\ pc' \in [Runs -> Labels]
           /\ UNCHANGED <<docs, num, tries, fails>>
           /\ stored' \in [Runs -> Nat] /\ stored'[r] = num[r]
BY DEF Base, Values, Store, Goto, Labels

-----------------------------------------------------------------------------
Split(early) == early \in SUBSET Runs /\ LateOnes(early) /\ EarlyOnes(early)

(* A run that has a number has not the number 0.                            *)
LEMMA Positive ==
    ASSUME NEW early, Base, Split(early), NEW r \in Runs, Numbered(r)
    PROVE  num[r] \in Nat \ {0}
<1>1. num[r] \in Nat
  BY DEF Base, Values
<1>2. CASE r \in early
  BY <1>1, <1>2 DEF Split, EarlyOnes
<1>3. CASE r \notin early
  <2>1. docs # <<>> /\ num[r] \in 1..docs[1]
    BY <1>3 DEF Late, Split, LateOnes
  <2> QED
    BY <1>1, <2>1, Single
<1> QED
  BY <1>2, <1>3

LEMMA StartedFinite ==
    ASSUME Base, NEW r \in Runs, Run(r), Undisturbed' PROVE IsFiniteSet(Started')
<1>1. Started' \subseteq Started \cup {r}
  BY OthersStay DEF Base, Started
<1>2. IsFiniteSet(Started \cup {r})
  BY FS_AddElement DEF Base
<1> QED
  BY <1>1, <1>2, FS_Subset

LEMMA RunValues == ASSUME Base, NEW r \in Runs, Run(r), Undisturbed' PROVE Values'
<1>0. Values
  BY DEF Base
<1>u. astray' \subseteq Runs
  BY DEF Undisturbed
<1>1. CASE Found(r)
  BY <1>0, <1>u, <1>1, DoFind DEF Values
<1>2. CASE Insert(r)
  BY <1>0, <1>u, <1>2, DoInsert, FirstDocument DEF Values
<1>3. CASE InsertFails(r)
  <2>1. docs' \in Seq(Nat)
    BY <1>0, <1>3, DoInsertFails, FirstDocument DEF Values
  <2>2. tries' \in [Runs -> Nat]
    <3>1. tries' = [tries EXCEPT ![r] = @ + 1] /\ tries \in [Runs -> Nat]
      BY <1>0, <1>3, DoInsertFails DEF Values
    <3> QED
      BY <3>1
  <2> QED
    BY <1>0, <1>u, <1>3, <2>1, <2>2, DoInsertFails DEF Values
<1>4. CASE Update(r)
  BY <1>0, <1>u, <1>4, DoUpdate DEF Values
<1>5. CASE UpdateFails(r)
  <2>1. tries' \in [Runs -> Nat]
    BY <1>0, <1>5, DoUpdateFails DEF Values
  <2> QED
    BY <1>0, <1>u, <1>5, <2>1, DoUpdateFails DEF Values
<1>6. CASE CheckName(r)
  BY <1>0, <1>u, <1>6, DoCheckName DEF Values
<1>7. CASE Store(r)
  BY <1>0, <1>u, <1>7, DoStore DEF Values
<1> QED
  BY <1>1, <1>2, <1>3, <1>4, <1>5, <1>6, <1>7, RunSteps

LEMMA RunsFollow ==
    ASSUME Base, NEW r \in Runs, Run(r), Undisturbed' PROVE OneActive'
<1>0. OneActive /\ Values
  BY DEF Base
<1>1. \A q \in Runs : q # r => pc'[q] = pc[q]
  BY <1>0, OthersStay
<1>2. CASE Found(r)
  <2>1. \A q \in Runs : ~Active(q)
    BY <1>2, DoFind
  <2> QED
    BY <1>1, <2>1 DEF OneActive, Active
<1>3. CASE ~Found(r)
  <2>1. Active(r)
    BY <1>3, RunSteps, DoInsert, DoInsertFails, DoUpdate, DoUpdateFails, DoCheckName, DoStore
       DEF Active
  <2> QED
    BY <1>0, <1>1, <2>1 DEF OneActive, Active
<1> QED
  BY <1>2, <1>3

LEMMA RunDocument == ASSUME Base, NEW r \in Runs, Run(r), Undisturbed' PROVE Document'
<1>0. Document /\ OneActive /\ Values
  BY DEF Base
<1>1. \A q \in Runs : q # r => pc'[q] = pc[q] /\ num'[q] = num[q]
  BY <1>0, OthersStay
<1>2. UNCHANGED <<scene, dpc>>
  BY RunKeeps
<1>3. CASE Found(r)
  BY <1>0, <1>1, <1>2, <1>3, DoFind DEF Document, Untouched
<1>4. CASE CheckName(r) \/ Store(r)
  <2>1. docs' = docs /\ pc'[r] # "insert"
    BY <1>4, DoCheckName, DoStore
  <2> QED
    BY <1>0, <1>1, <1>2, <2>1 DEF Document, Untouched
<1>5. CASE Insert(r) \/ InsertFails(r) \/ Update(r) \/ UpdateFails(r)
  <2>1. pc[r] \in {"insert", "update"} /\ pc'[r] # "insert"
    BY <1>5, DoInsert, DoInsertFails, DoUpdate, DoUpdateFails
  <2>2. \A q \in Runs : pc'[q] # "insert"
    BY <1>0, <1>1, <2>1 DEF OneActive, Active
  <2>3. Len(docs') <= 1
    <3>1. CASE docs' = docs \/ docs' = <<1>>
      BY <1>0, <3>1, FirstDocument DEF Document
    <3>2. CASE Update(r)
      <4>1. Len(docs') = 1
        BY <3>2, DoUpdate
      <4> QED
        BY <4>1
    <3>3. CASE UpdateFails(r)
      BY <3>3, DoUpdateFails
    <3> QED
      BY <1>5, <3>1, <3>2, <3>3, DoInsert, DoInsertFails
  <2>4. ASSUME scene.seeded, Untouched PROVE docs' # <<>> /\ docs'[1] >= Old
    <3>1. docs # <<>> /\ docs[1] >= Old /\ docs[1] \in Nat /\ Old \in Nat
      BY <1>0, <2>4, Single, NumbersAssumption DEF Document
    <3>2. CASE Update(r)
      <4>1. docs'[1] = docs[1] + 1 /\ Len(docs') = 1
        BY <3>1, <3>2, DoUpdate
      <4>2. docs' # <<>>
        BY <4>1, FirstDocument
      <4> QED
        BY <3>1, <4>1, <4>2
    <3>3. CASE UpdateFails(r)
      <4>1. docs' # <<>> /\ docs'[1] >= docs[1] /\ docs' \in Seq(Nat) /\ Len(docs') <= 1
        BY <3>1, <3>3, DoUpdateFails
      <4>2. docs'[1] \in Nat
        BY <4>1, One
      <4> QED
        BY <3>1, <4>1, <4>2
    <3> QED
      BY <1>5, <3>1, <3>2, <3>3, DoInsert, DoInsertFails
  <2> QED
    BY <1>2, <2>2, <2>3, <2>4 DEF Document, Untouched
<1> QED
  BY <1>3, <1>4, <1>5, RunSteps

LEMMA RunStoring ==
    ASSUME NEW early, Base, Split(early), NEW r \in Runs, Run(r), Undisturbed' PROVE Storing'
<1>0. Storing /\ Values
  BY DEF Base
<1>1. \A q \in Runs : q # r =>
          pc'[q] = pc[q] /\ num'[q] = num[q] /\ stored'[q] = stored[q]
  BY <1>0, OthersStay
<1>2. Untouched' <=> Untouched
  BY RunKeeps DEF Untouched
<1>3. CASE Store(r)
  <2>1. num[r] # 0
    BY <1>3, DoStore, Positive DEF Numbered
  <2> QED
    BY <1>0, <1>1, <1>2, <1>3, <2>1, DoStore DEF Storing
<1>4. CASE ~Store(r)
  <2>1. pc[r] # "done" /\ pc'[r] # "done" /\ stored'[r] = stored[r]
    BY <1>4, RunSteps, DoFind, DoInsert, DoInsertFails, DoUpdate, DoUpdateFails, DoCheckName
  <2> QED
    BY <1>0, <1>1, <1>2, <2>1 DEF Storing
<1> QED
  BY <1>3, <1>4

LEMMA RunBase ==
    ASSUME NEW early, Base, Split(early), NEW r \in Runs, Run(r), Undisturbed' PROVE Base'
<1>1. UNCHANGED <<scene, lost>>
  BY RunKeeps
<1> QED
  BY <1>1, RunValues, StartedFinite, RunsFollow, RunDocument, RunStoring DEF Base

-----------------------------------------------------------------------------
(* What a run does to the early and to the late ones.                       *)
LEMMA Apart ==
    ASSUME NEW early, Base, Split(early), NEW r \in Runs, Run(r), Undisturbed', ~Numbered(r)
    PROVE  /\ r \notin early /\ r \notin Late(early)
           /\ Kept(early)' = Kept(early)
           /\ \A q \in Runs : q # r => num'[q] = num[q] /\ pc'[q] = pc[q]
<1>1. r \notin early /\ early \subseteq Runs
  BY DEF Split, EarlyOnes
<1>2. \A q \in Runs : q # r => num'[q] = num[q] /\ pc'[q] = pc[q]
  BY OthersStay DEF Base
<1>3. r \notin Late(early)
  BY DEF Late
<1>4. Kept(early)' = Kept(early)
  BY <1>1, <1>2 DEF Kept, Rejected
<1> QED
  BY <1>1, <1>2, <1>3, <1>4

(* The early ones do not notice a run without a number.                     *)
LEMMA EarlyUnmoved ==
    ASSUME NEW early, Base, Split(early), NEW r \in Runs, Run(r), Undisturbed', ~Numbered(r)
    PROVE  EarlyOnes(early)'
<1>1. /\ r \notin early /\ r \notin Late(early) /\ Kept(early)' = Kept(early)
      /\ \A q \in Runs : q # r => num'[q] = num[q] /\ pc'[q] = pc[q]
  BY Apart
<1>2. UNCHANGED <<scene, dpc, lost>>
  BY RunKeeps
<1>3. early \subseteq Runs /\ EarlyOnes(early) /\ OneActive
  BY DEF Split, Base
<1>4. ASSUME NEW q \in early, Active(q)' PROVE Late(early)' = {}
  <2>1. q # r /\ Active(q) /\ q \in Runs
    BY <1>1, <1>3, <1>4 DEF Active
  <2>2. ~Active(r)
    BY <1>3, <2>1 DEF OneActive
  <2>3. pc[r] = "find"
    BY <2>2, RunSteps, DoFind, DoInsert, DoInsertFails, DoUpdate, DoUpdateFails, DoCheckName,
       DoStore DEF Active
  <2>4. Found(r)
    BY <2>3, RunSteps, DoInsert, DoInsertFails, DoUpdate, DoUpdateFails, DoCheckName, DoStore
  <2> QED
    BY <2>1, <2>4, DoFind
<1>5. \A q \in early : /\ num'[q] = num[q] /\ pc'[q] = pc[q]
                        /\ (Numbered(q)' <=> Numbered(q))
  BY <1>1, <1>3 DEF Numbered
<1> QED
  BY <1>1, <1>2, <1>3, <1>4, <1>5 DEF EarlyOnes, Untouched

LEMMA LateFind ==
    ASSUME NEW early, Base, Split(early), NEW r \in Runs, Found(r), Undisturbed'
    PROVE  LateOnes(early)'
<1>0. Run(r) /\ ~Numbered(r)
  BY DoFind DEF Run, Found, Numbered
<1>1. /\ r \notin early /\ r \notin Late(early) /\ Kept(early)' = Kept(early)
      /\ \A q \in Runs : q # r => num'[q] = num[q] /\ pc'[q] = pc[q]
  BY <1>0, Apart
<1>2. UNCHANGED <<scene, dpc, docs>>
  BY <1>0, RunKeeps, DoFind
<1>3. Late(early)' = Late(early)
  BY <1>1, DoFind DEF Late, Numbered
<1>4. {num[q] : q \in Kept(early)}' = {num[q] : q \in Kept(early)}
  BY <1>1 DEF Kept, Split
<1> QED
  BY <1>1, <1>2, <1>3, <1>4 DEF LateOnes, Late, Untouched, Split

(* A number is given: one more late run, with the number of the document.   *)
LEMMA LateNumbered ==
    ASSUME NEW early, Base, Split(early), NEW r \in Runs, Insert(r) \/ Update(r), Undisturbed'
    PROVE  LateOnes(early)'
<1>0. Run(r) /\ ~Numbered(r) /\ pc'[r] = "check"
  BY DoInsert, DoUpdate DEF Run, Numbered
<1>1. /\ r \notin early /\ r \notin Late(early) /\ Kept(early)' = Kept(early)
      /\ \A q \in Runs : q # r => num'[q] = num[q] /\ pc'[q] = pc[q]
  BY <1>0, Apart
<1>2. UNCHANGED <<scene, dpc>>
  BY <1>0, RunKeeps
<1>3. Late(early)' = Late(early) \cup {r}
  BY <1>0, <1>1 DEF Late, Numbered
<1>4. {num[q] : q \in Kept(early)}' = {num[q] : q \in Kept(early)}
  BY <1>1 DEF Kept, Split
<1>5. docs' # <<>> /\ docs'[1] = num'[r]
  <2>1. CASE Insert(r)
    BY <2>1, DoInsert, FirstDocument
  <2>2. CASE Update(r)
    <3>1. Len(docs') = 1 /\ docs'[1] = num'[r]
      BY <2>2, DoUpdate
    <3> QED
      BY <3>1, FirstDocument
  <2> QED
    BY <2>1, <2>2
<1>6. \/ docs = <<>> /\ num'[r] = 1
      \/ docs # <<>> /\ docs[1] \in Nat /\ num'[r] = docs[1] + 1
  <2>1. CASE Insert(r)
    BY <2>1, DoInsert
  <2>2. CASE Update(r)
    BY <2>2, DoUpdate
  <2> QED
    BY <2>1, <2>2
<1>7. LateOnes(early) /\ Document /\ Late(early) \subseteq Runs
  BY DEF Split, Base, Late
<1>8. num'[r] \in 1..docs'[1] /\ (scene.seeded /\ Untouched => num'[r] > Old)
  BY <1>5, <1>6, <1>7, NumbersAssumption DEF Document
<1>9. ASSUME NEW q \in Late(early)
      PROVE  num'[q] = num[q] /\ num[q] \in 1..docs'[1] /\ num'[q] # num'[r]
  BY <1>1, <1>5, <1>6, <1>7 DEF LateOnes
<1>10. \A q \in Late(early) : pc'[q] = pc[q] /\ num'[q] = num[q]
  BY <1>1, <1>7
<1> QED
  BY <1>0, <1>2, <1>3, <1>4, <1>5, <1>7, <1>8, <1>9, <1>10 DEF LateOnes, Untouched

(* A call that failed moves the document at most, and not back.             *)
LEMMA LateFails ==
    ASSUME NEW early, Base, Split(early), NEW r \in Runs,
           InsertFails(r) \/ UpdateFails(r), Undisturbed'
    PROVE  LateOnes(early)'
<1>0. Run(r) /\ ~Numbered(r) /\ pc'[r] = "update" /\ num' = num
  BY DoInsertFails, DoUpdateFails DEF Run, Numbered
<1>1. /\ r \notin early /\ r \notin Late(early) /\ Kept(early)' = Kept(early)
      /\ \A q \in Runs : q # r => pc'[q] = pc[q]
  BY <1>0, Apart
<1>2. UNCHANGED <<scene, dpc>>
  BY <1>0, RunKeeps
<1>3. Late(early)' = Late(early) /\ Late(early) \subseteq Runs
  BY <1>0, <1>1 DEF Late, Numbered
<1>4. LateOnes(early)
  BY DEF Split
<1>5. CASE docs = <<>>
  BY <1>3, <1>4, <1>5 DEF LateOnes
<1>6. CASE docs # <<>>
  <2>1. docs' # <<>> /\ docs'[1] >= docs[1] /\ docs' \in Seq(Nat) /\ Len(docs') <= 1
    <3>1. docs[1] \in Nat /\ Len(docs) = 1 /\ docs \in Seq(Nat)
      BY <1>6, Single DEF Base, Values
    <3>2. CASE InsertFails(r)
      <4>1. docs' = docs
        BY <1>6, <3>2, DoInsertFails
      <4>2. docs[1] >= docs[1] /\ Len(docs) <= 1
        BY <3>1
      <4> QED
        BY <1>6, <3>1, <4>1, <4>2
    <3>3. CASE UpdateFails(r)
      BY <1>6, <3>3, DoUpdateFails
    <3> QED
      BY <3>2, <3>3
  <2>2. docs'[1] \in Nat /\ docs[1] \in Nat
    BY <1>6, <2>1, One, Single
  <2>3. \A q \in Late(early) : num[q] \in 1..docs[1] => num[q] \in 1..docs'[1]
    BY <2>1, <2>2
  <2> QED
    BY <1>0, <1>1, <1>2, <1>3, <1>4, <1>6, <2>1, <2>3 DEF LateOnes, Untouched
<1> QED
  BY <1>5, <1>6

(* A refusal is for a past execution or for one of another run, which was   *)
(* numbered before the deletion.                                            *)
LEMMA RefusedFor ==
    ASSUME NEW early, Base, Split(early), NEW r \in Runs, pc[r] = "check", Taken(num[r])
    PROVE  num[r] \in 1..Old \/ \E q \in Kept(early) : q # r /\ num[q] = num[r]
<1>1. CASE num[r] \in 1..Old
  BY <1>1
<1>2. ASSUME NEW q \in Runs, stored[q] = num[r]
      PROVE  \E p \in Kept(early) : p # r /\ num[p] = num[r]
  <2>1. num[r] # 0
    BY Positive DEF Numbered
  <2>2. pc[q] = "done" /\ num[q] = num[r] /\ q # r
    BY <1>2, <2>1 DEF Base, Storing
  <2>3. q \in early
    <3>1. SUFFICES ASSUME q \notin early PROVE FALSE
      OBVIOUS
    <3>2. q \in Late(early)
      BY <2>2, <3>1 DEF Late, Numbered
    <3>3. r \notin Late(early)
      BY <2>2, <3>2 DEF LateOnes, Split
    <3>4. r \in early
      BY <3>3 DEF Late, Numbered
    <3> QED
      BY <3>2, <3>4 DEF EarlyOnes, Split, Active
  <2> QED
    BY <2>2, <2>3 DEF Kept, Rejected
<1> QED
  BY <1>1, <1>2 DEF Taken

LEMMA CheckSplit ==
    ASSUME NEW early, Base, Split(early), NEW r \in Runs, CheckName(r), Undisturbed'
    PROVE  LateOnes(early)' /\ EarlyOnes(early)'
<1>0. Run(r) /\ Numbered(r) /\ Active(r) /\ pc[r] = "check"
  BY DoCheckName DEF Run, Numbered, Active
<1>1. \A q \in Runs : q # r => pc'[q] = pc[q]
  BY <1>0, OthersStay DEF Base
<1>2. UNCHANGED <<scene, dpc, lost, docs, num>>
  BY <1>0, RunKeeps, DoCheckName
<1>3. pc'[r] = IF Taken(num[r]) THEN "rejected" ELSE "store"
  BY DoCheckName
<1>4. early \subseteq Runs /\ LateOnes(early) /\ EarlyOnes(early)
  BY DEF Split
<1>5. \A q \in Runs : Numbered(q)' <=> Numbered(q)
  BY <1>0, <1>1, <1>3 DEF Numbered
<1>6. Late(early)' = Late(early)
  BY <1>5 DEF Late
<1>7. Kept(early)' \subseteq Kept(early) /\ (r \notin early => Kept(early)' = Kept(early))
  BY <1>0, <1>1, <1>4 DEF Kept, Rejected
<1>8. LateOnes(early)'
  <2>1. CASE r \in early
    BY <1>0, <1>2, <1>4, <1>6, <2>1 DEF EarlyOnes, LateOnes
  <2>2. CASE r \notin early
    <3>1. pc'[r] = "rejected" => num[r] \in 1..Old \cup {num[q] : q \in Kept(early)}
      BY <1>0, <1>3, RefusedFor
    <3>2. \A q \in Late(early) : q # r => pc'[q] = pc[q]
      BY <1>1 DEF Late
    <3>3. {num[q] : q \in Kept(early)}' = {num[q] : q \in Kept(early)}
      BY <1>2, <1>7, <2>2
    <3> QED
      BY <1>2, <1>4, <1>6, <3>1, <3>2, <3>3 DEF LateOnes, Untouched
  <2> QED
    BY <2>1, <2>2
<1>9. EarlyOnes(early)'
  <2>1. ASSUME NEW q \in early, pc'[q] = "rejected" PROVE num[q] \in 1..Old
    <3>1. CASE q # r
      BY <1>1, <1>4, <2>1, <3>1 DEF EarlyOnes
    <3>2. CASE q = r
      <4>1. Taken(num[r])
        BY <1>3, <2>1, <3>2
      <4>2. ~\E p \in Kept(early) : p # r /\ num[p] = num[r]
        BY <1>4, <2>1, <3>2 DEF EarlyOnes, Kept
      <4> QED
        BY <1>0, <3>2, <4>1, <4>2, RefusedFor
    <3> QED
      BY <3>1, <3>2
  <2>2. \A q \in early : (Numbered(q)' <=> Numbered(q)) /\ (Active(q)' => Active(q))
    BY <1>0, <1>1, <1>4, <1>5 DEF Active
  <2>3. IsFiniteSet(Kept(early)) /\ Cardinality(Kept(early)') <= Cardinality(Kept(early))
    <3>1. Kept(early) \subseteq Started
      BY <1>4 DEF Kept, Started, EarlyOnes, Numbered
    <3> QED
      BY <1>7, <3>1, FS_Subset DEF Base
  <2>4. /\ Cardinality(Kept(early)) \in Nat /\ Cardinality(Kept(early)') \in Nat
        /\ lost \in Nat /\ Old \in Nat
    BY <1>7, <2>3, FS_CardinalityType, FS_Subset, NumbersAssumption DEF Base
  <2>5. ~Untouched => lost >= Cardinality(Kept(early)') + Old
    BY <1>4, <2>3, <2>4 DEF EarlyOnes
  <2> QED
    BY <1>2, <1>4, <1>6, <2>1, <2>2, <2>5 DEF EarlyOnes, Untouched
<1> QED
  BY <1>8, <1>9

LEMMA StoreSplit ==
    ASSUME NEW early, Base, Split(early), NEW r \in Runs, Store(r), Undisturbed'
    PROVE  LateOnes(early)' /\ EarlyOnes(early)'
<1>0. Run(r) /\ pc[r] = "store" /\ pc'[r] = "done"
  BY DoStore DEF Run
<1>1. \A q \in Runs : q # r => pc'[q] = pc[q]
  BY <1>0, OthersStay DEF Base
<1>2. UNCHANGED <<scene, dpc, lost, docs, num>>
  BY <1>0, RunKeeps, DoStore
<1>3. \A q \in Runs : /\ (Numbered(q)' <=> Numbered(q))
                     /\ (pc'[q] = "rejected" <=> pc[q] = "rejected")
                     /\ (Active(q)' => Active(q))
  BY <1>0, <1>1 DEF Numbered, Active
<1>4. early \subseteq Runs /\ Late(early) \subseteq Runs
  BY DEF Split, Late
<1>5. Late(early)' = Late(early) /\ Kept(early)' = Kept(early)
  BY <1>3, <1>4 DEF Late, Kept, Rejected
<1>6. {num[q] : q \in Kept(early)}' = {num[q] : q \in Kept(early)}
  BY <1>2, <1>5
<1>7. LateOnes(early)'
  BY <1>2, <1>3, <1>4, <1>5, <1>6 DEF LateOnes, Untouched, Split
<1>8. EarlyOnes(early)'
  BY <1>2, <1>3, <1>4, <1>5 DEF EarlyOnes, Untouched, Split
<1> QED
  BY <1>7, <1>8

LEMMA RunSplit ==
    ASSUME NEW early, Base, Split(early), NEW r \in Runs, Run(r), Undisturbed' PROVE Split(early)'
<1>1. CASE Numbered(r)
  <2>1. CheckName(r) \/ Store(r)
    BY <1>1, RunSteps, DoFind, DoInsert, DoInsertFails, DoUpdate, DoUpdateFails DEF Numbered
  <2> QED
    BY <2>1, CheckSplit, StoreSplit DEF Split
<1>2. CASE ~Numbered(r)
  <2>1. ~CheckName(r) /\ ~Store(r)
    BY <1>2, DoCheckName, DoStore DEF Numbered
  <2> QED
    BY <1>2, <2>1, RunSteps, EarlyUnmoved, LateFind, LateNumbered, LateFails DEF Split
<1> QED
  BY <1>1, <1>2

-----------------------------------------------------------------------------
(* The deletion.                                                            *)
LEMMA RemovedDocument == \A s \in Seq(Nat) : Len(s) = 1 => RemoveAt(s, 1) = <<>>
<1>1. ASSUME NEW s \in Seq(Nat), Len(s) = 1 PROVE RemoveAt(s, 1) = <<>>
  <2>1. SubSeq(s, 1, 0) = <<>> /\ SubSeq(s, 2, 1) = <<>>
    BY <1>1
  <2> QED
    BY <1>1, <2>1 DEF RemoveAt
<1> QED
  BY <1>1

LEMMA DeleteBase == ASSUME Base, Delete PROVE Base'
<1>0. Values /\ OneActive /\ Document /\ Storing /\ lost \in Nat
  BY DEF Base
<1>1. UNCHANGED <<scene, pc, num, tries, astray>>
  BY DEF Delete, DeleteNumber, DeleteExecutions, DeleteFails, DeleteMisses, mode, mishaps
<1>2. Started' = Started /\ OneActive'
  BY <1>0, <1>1 DEF Started, OneActive, Active
<1>3. CASE DeleteNumber
  <2>1. docs' = <<>>
    BY <1>0, <1>3, Single, RemovedDocument DEF DeleteNumber, Values
  <2>2. dpc' = "executions" /\ UNCHANGED <<stored, fails>>
    BY <1>3 DEF DeleteNumber
  <2>3. lost' \in Nat
    <3>1. UnderWay \cup Stored \subseteq Started
      BY <1>0 DEF UnderWay, Stored, Started, Storing
    <3>2. Cardinality(UnderWay \cup Stored) \in Nat
      BY <3>1, FS_Subset, FS_CardinalityType DEF Base
    <3> QED
      BY <1>3, <3>2, NumbersAssumption DEF DeleteNumber
  <2>4. Values'
    BY <1>0, <1>1, <2>1, <2>2, FirstDocument DEF Values
  <2>5. Document' /\ Storing'
    BY <1>0, <1>1, <2>1, <2>2, FirstDocument DEF Document, Storing, Untouched
  <2> QED
    BY <1>1, <1>2, <2>3, <2>4, <2>5 DEF Base
<1>4. CASE DeleteExecutions \/ DeleteFails \/ DeleteMisses
  <2>1. dpc # "idle" /\ dpc' # "idle" /\ UNCHANGED <<docs, lost>>
    BY <1>4 DEF DeleteExecutions, DeleteFails, DeleteMisses
  <2>2. stored' \in [Runs -> Nat] /\ \A r \in Runs : stored'[r] \in {stored[r], 0}
    <3>1. CASE DeleteExecutions
      BY <1>0, <3>1 DEF DeleteExecutions, Values
    <3>2. CASE DeleteFails \/ DeleteMisses
      <4>1. stored' = stored
        BY <3>2 DEF DeleteFails, DeleteMisses
      <4> QED
        BY <1>0, <4>1 DEF Values
    <3> QED
      BY <1>4, <3>1, <3>2
  <2>3. fails' \in {fails, fails + 1} /\ fails' \in 0..MaxFails
    <3>1. fails' = fails \/ (fails < MaxFails /\ fails' = fails + 1)
      <4>1. DeleteExecutions \/ DeleteMisses => fails' = fails
        BY DEF DeleteExecutions, DeleteMisses
      <4>2. DeleteFails => fails < MaxFails /\ fails' = fails + 1
        BY DEF DeleteFails
      <4> QED
        BY <1>4, <4>1, <4>2
    <3>2. fails \in 0..MaxFails /\ MaxFails \in Nat
      BY <1>0, NumbersAssumption DEF Values
    <3> QED
      BY <3>1, <3>2
  <2>4. Values'
    BY <1>0, <1>1, <2>1, <2>2, <2>3 DEF Values
  <2>6. Document' /\ Storing'
    BY <1>0, <1>1, <2>1, <2>2 DEF Document, Storing, Untouched
  <2> QED
    BY <1>1, <1>2, <1>0, <2>1, <2>4, <2>6 DEF Base
<1> QED
  BY <1>3, <1>4 DEF Delete

(* Losing the document divides the runs.                                    *)
LEMMA NumberLost ==
    ASSUME Base, NEW early, Split(early), DeleteNumber
    PROVE  \E divided \in SUBSET Runs : Split(divided)'
<1>p. PICK divided \in SUBSET Runs : divided = {r \in Runs : Numbered(r)}
  OBVIOUS
<1>0. /\ UNCHANGED <<scene, pc, num>> /\ dpc = "idle" /\ dpc' = "executions"
      /\ lost' = Cardinality(UnderWay \cup Stored) + Old
  BY DEF DeleteNumber, mode
<1>1. early = {} /\ Late(early) = divided /\ Kept(early) = {}
  BY <1>0, <1>p DEF Split, EarlyOnes, Untouched, Late, Kept
<1>2. Late(divided)' = {} /\ Kept(divided)' = divided \ Rejected
  BY <1>0, <1>p DEF Late, Kept, Rejected, Numbered
<1>3. LateOnes(divided)'
  BY <1>2 DEF LateOnes
<1>4. ASSUME NEW r \in divided
      PROVE  /\ Numbered(r)' /\ num'[r] # 0 /\ (scene'.seeded => num'[r] > Old)
             /\ \A q \in divided : num'[q] = num'[r] => q = r
             /\ pc'[r] = "rejected" => num'[r] \in 1..Old
  <2>1. r \in Runs /\ r \in Late(early) /\ Numbered(r)
    BY <1>1, <1>p
  <2>2. num[r] # 0
    BY <2>1, Positive
  <2>3. {num[q] : q \in Kept(early)} = {}
    BY <1>1
  <2>4. Untouched
    BY <1>0 DEF Untouched
  <2> QED
    BY <1>0, <1>1, <2>1, <2>2, <2>3, <2>4 DEF Split, LateOnes, Numbered
<1>5. lost' >= Cardinality(Kept(divided)') + Old
  <2>1. UnderWay \cup Stored \subseteq Started
    BY DEF UnderWay, Stored, Started, Storing, Base
  <2>2. divided \ Rejected \subseteq UnderWay \cup Stored
    BY <1>0, <1>p DEF Rejected, UnderWay, Stored, Numbered, Base, Storing, Untouched
  <2>3. Cardinality(divided \ Rejected) <= Cardinality(UnderWay \cup Stored)
    BY <2>1, <2>2, FS_Subset DEF Base
  <2>4. /\ Cardinality(divided \ Rejected) \in Nat
        /\ Cardinality(UnderWay \cup Stored) \in Nat
    BY <2>1, <2>2, FS_Subset, FS_CardinalityType DEF Base
  <2> QED
    BY <1>0, <1>2, <2>3, <2>4, NumbersAssumption
<1>6. EarlyOnes(divided)'
  BY <1>0, <1>2, <1>4, <1>5 DEF EarlyOnes, Untouched
<1> QED
  BY <1>3, <1>6 DEF Split

LEMMA DeletionGoesOn ==
    ASSUME NEW early, Split(early), DeleteExecutions \/ DeleteFails \/ DeleteMisses
    PROVE  Split(early)'
<1>1. /\ UNCHANGED <<scene, pc, num, docs, lost>>
      /\ (Untouched' <=> Untouched)
  BY DEF DeleteExecutions, DeleteFails, DeleteMisses, mode, Untouched
<1>2. Late(early)' = Late(early) /\ Kept(early)' = Kept(early)
  BY <1>1 DEF Late, Kept, Rejected, Numbered
<1> QED
  BY <1>1, <1>2 DEF Split, LateOnes, EarlyOnes, Numbered, Active

Divided == scene.serial /\ Undisturbed => Base /\ \E early \in SUBSET Runs : Split(early)

LEMMA DividedInit == Init => Divided
<1> SUFFICES ASSUME Init, scene.serial PROVE Base /\ Split({})
  BY DEF Divided
<1>1. Started = {} /\ Late({}) = {}
  BY DEF Init, Started, Late, Numbered
<1>2. Values /\ scene \in Scenes /\ lost \in Nat /\ IsFiniteSet(Started)
  <2>1. docs \in Seq(Nat) /\ Len(docs) <= 1
    BY NumbersAssumption DEF Init
  <2> QED
    BY <1>1, <2>1, NumbersAssumption, FS_EmptySet DEF Init, Values, Labels
<1>3. OneActive /\ Storing
  BY NumbersAssumption DEF Init, OneActive, Active, Storing
<1>4. Document
  BY NumbersAssumption DEF Init, Document
<1>5. Split({})
  BY <1>1 DEF Init, Split, LateOnes, EarlyOnes, Untouched
<1> QED
  BY <1>2, <1>3, <1>4, <1>5 DEF Base

LEMMA DividedStep == Divided /\ [Next]_vars => Divided'
<1> SUFFICES ASSUME Divided, [Next]_vars, scene'.serial, Undisturbed' PROVE Divided'
  BY DEF Divided
<1>u. Undisturbed
  <2>1. ASSUME NEW r \in Runs, Run(r) PROVE Undisturbed
    <3>1. ~forked
      BY <2>1, ForkStays DEF Undisturbed
    <3>2. astray \subseteq astray'
      BY <2>1 DEF Run, Find, FindFails, ConvertFails, FirstNumber, Insert, InsertFails, Update,
                  UpdateFails, CheckName, Store, mishaps
    <3> QED
      BY <3>1, <3>2 DEF Undisturbed
  <2>2. CASE Delete
    BY <2>2 DEF Delete, DeleteNumber, DeleteExecutions, DeleteFails, DeleteMisses, Undisturbed,
                mishaps
  <2>3. CASE UNCHANGED vars
    BY <2>3 DEF vars, mishaps, Undisturbed
  <2> QED
    BY <2>1, <2>2, <2>3 DEF Next
<1>1. CASE UNCHANGED vars
  <2>1. UNCHANGED <<scene, dpc, lost, docs, stored, pc, num, tries, fails, astray>>
    BY <1>1 DEF vars, mode, deletion, mishaps
  <2>2. Base => Base'
    BY <2>1 DEF Base, Values, Started, OneActive, Active, Document, Storing, Untouched
  <2>3. ASSUME NEW early, Split(early) PROVE Split(early)'
    <3>1. Late(early)' = Late(early) /\ Kept(early)' = Kept(early)
      BY <2>1 DEF Late, Kept, Rejected, Numbered
    <3> QED
      BY <2>1, <2>3, <3>1 DEF Split, LateOnes, EarlyOnes, Numbered, Active, Untouched
  <2> QED
    BY <1>u, <2>1, <2>2, <2>3 DEF Divided
<1>2. ASSUME NEW r \in Runs, Run(r), Undisturbed' PROVE Divided'
  <2>1. scene' = scene
    BY <1>2, RunKeeps
  <2>2. PICK early \in SUBSET Runs : Split(early)
    BY <1>u, <2>1 DEF Divided
  <2> QED
    BY <1>2, <1>u, <2>1, <2>2, RunBase, RunSplit DEF Divided
<1>3. CASE Delete
  <2>1. scene' = scene
    BY <1>3 DEF Delete, DeleteNumber, DeleteExecutions, DeleteFails, DeleteMisses, mode
  <2>2. PICK early \in SUBSET Runs : Split(early)
    BY <1>u, <2>1 DEF Divided
  <2>3. Base /\ Base'
    BY <1>3, <1>u, <2>1, DeleteBase DEF Divided
  <2>4. \E divided \in SUBSET Runs : Split(divided)'
    BY <1>3, <2>2, <2>3, NumberLost, DeletionGoesOn DEF Delete
  <2> QED
    BY <2>3, <2>4 DEF Divided
<1> QED
  BY <1>1, <1>2, <1>3 DEF Next

-----------------------------------------------------------------------------
(* The runs that were refused, early or late, have different numbers of     *)
(* executions that were there.                                              *)
LEMMA DifferentNumbers ==
    ASSUME NEW S, NEW T, IsFiniteSet(T), NEW f \in [S -> T],
           \A x, y \in S : f[x] = f[y] => x = y
    PROVE  IsFiniteSet(S) /\ Cardinality(S) <= Cardinality(T)
<1>1. f \in Injection(S, T)
  BY DEF Injection, IsInjective
<1> QED
  BY <1>1, FS_Injection

LEMMA NoneAdded ==
    ASSUME NEW S, NEW T, IsFiniteSet(S), IsFiniteSet(T)
    PROVE  /\ IsFiniteSet(S \cup T)
           /\ Cardinality(S \cup T) <= Cardinality(S) + Cardinality(T)
<1>1. IsFiniteSet(S \cup T) /\ IsFiniteSet(S \cap T)
  BY FS_Union, FS_Subset
<1>2. /\ Cardinality(S) \in Nat /\ Cardinality(T) \in Nat
      /\ Cardinality(S \cap T) \in Nat /\ Cardinality(S \cup T) \in Nat
  BY <1>1, FS_CardinalityType
<1>3. Cardinality(S \cup T) = Cardinality(S) + Cardinality(T) - Cardinality(S \cap T)
  BY FS_Union
<1> QED
  BY <1>1, <1>2, <1>3

LEMMA EarlyRefused ==
    ASSUME Base, NEW early, Split(early)
    PROVE  /\ IsFiniteSet(early \cap Rejected)
           /\ Cardinality(early \cap Rejected) <= IF scene.seeded THEN 0 ELSE Old
<1>1. \A r \in early \cap Rejected : r \in Runs /\ num[r] \in 1..Old
  BY DEF Split, EarlyOnes, Rejected
<1>2. IsFiniteSet(1..Old) /\ Cardinality(1..Old) = Old
  BY FS_Interval, NumbersAssumption
<1>3. [r \in early \cap Rejected |-> num[r]] \in [early \cap Rejected -> 1..Old]
  BY <1>1
<1>4. \A q, r \in early \cap Rejected : num[q] = num[r] => q = r
  BY DEF Split, EarlyOnes
<1>5. IsFiniteSet(early \cap Rejected) /\ Cardinality(early \cap Rejected) <= Old
  BY <1>2, <1>3, <1>4, DifferentNumbers
<1>6. CASE scene.seeded
  <2>1. early \cap Rejected = {}
    BY <1>1, <1>6, NumbersAssumption DEF Split, EarlyOnes, Base, Values
  <2> QED
    BY <1>6, <2>1, FS_EmptySet
<1> QED
  BY <1>5, <1>6

LEMMA LateRefused ==
    ASSUME Base, NEW early, Split(early)
    PROVE  /\ IsFiniteSet(Late(early) \cap Rejected)
           /\ Cardinality(Late(early) \cap Rejected) <= Old + Cardinality(Kept(early))
           /\ IsFiniteSet(Kept(early))
<1> DEFINE Numbers == {num[q] : q \in Kept(early)}
<1>1. IsFiniteSet(Kept(early))
  <2>1. Kept(early) \subseteq Started
    BY DEF Kept, Started, Split, EarlyOnes, Numbered
  <2> QED
    BY <2>1, FS_Subset DEF Base
<1>2. IsFiniteSet(Numbers) /\ Cardinality(Numbers) <= Cardinality(Kept(early))
  <2>1. [q \in Kept(early) |-> num[q]] \in Surjection(Kept(early), Numbers)
    BY DEF Surjection
  <2> HIDE DEF Numbers
  <2> QED
    BY <1>1, <2>1, FS_Surjection
<1>3. IsFiniteSet(1..Old) /\ Cardinality(1..Old) = Old
  BY FS_Interval, NumbersAssumption
<1>4. \A r \in Late(early) \cap Rejected : num[r] \in 1..Old \cup Numbers
  BY DEF Split, LateOnes, Rejected
<1>5. \A q, r \in Late(early) \cap Rejected : num[q] = num[r] => q = r
  BY DEF Split, LateOnes
<1> HIDE DEF Numbers
<1>6. /\ IsFiniteSet(1..Old \cup Numbers)
      /\ Cardinality(1..Old \cup Numbers) <= Old + Cardinality(Numbers)
  BY <1>2, <1>3, NoneAdded
<1>7. /\ IsFiniteSet(Late(early) \cap Rejected)
      /\ Cardinality(Late(early) \cap Rejected) <= Cardinality(1..Old \cup Numbers)
  <2>1. [r \in Late(early) \cap Rejected |-> num[r]]
           \in [Late(early) \cap Rejected -> 1..Old \cup Numbers]
    BY <1>4
  <2> QED
    BY <1>5, <1>6, <2>1, DifferentNumbers
<1>8. /\ Cardinality(Kept(early)) \in Nat /\ Cardinality(Numbers) \in Nat
      /\ Cardinality(1..Old \cup Numbers) \in Nat /\ Old \in Nat
      /\ Cardinality(Late(early) \cap Rejected) \in Nat
  BY <1>1, <1>2, <1>6, <1>7, FS_CardinalityType, NumbersAssumption
<1> QED
  BY <1>1, <1>2, <1>6, <1>7, <1>8

LEMMA NoMoreRefused ==
    ASSUME Divided, scene.serial, Undisturbed
    PROVE  Cardinality(Rejected) <= (IF scene.seeded THEN 0 ELSE Old) + lost
<1>0. PICK early \in SUBSET Runs : Split(early)
  BY DEF Divided
<1>1. Base
  BY DEF Divided
<1> DEFINE E == early \cap Rejected
           L == Late(early) \cap Rejected
<1>2. Rejected = E \cup L
  BY DEF Rejected, Late, Numbered
<1>3. /\ IsFiniteSet(E) /\ Cardinality(E) <= IF scene.seeded THEN 0 ELSE Old
      /\ IsFiniteSet(L) /\ Cardinality(L) <= Old + Cardinality(Kept(early))
      /\ IsFiniteSet(Kept(early))
  BY <1>0, <1>1, EarlyRefused, LateRefused
<1>4. CASE Untouched
  <2>1. early = {}
    BY <1>0, <1>4 DEF Split, EarlyOnes
  <2>2. {num[q] : q \in Kept(early)} = {} /\ E = {}
    BY <2>1 DEF Kept
  <2>3. Kept(early) = {} /\ Cardinality(Kept(early)) = 0 /\ Cardinality(E) = 0
    BY <2>1, <2>2, FS_EmptySet DEF Kept
  <2>4. CASE scene.seeded
    <3>1. ASSUME NEW r \in L PROVE FALSE
      <4>1. r \in Late(early) /\ r \in Runs /\ pc[r] = "rejected"
        BY <3>1 DEF Rejected
      <4>2. num[r] > Old /\ num[r] \in 1..Old \cup {num[q] : q \in Kept(early)}
        BY <1>0, <1>4, <2>4, <4>1 DEF Split, LateOnes
      <4>3. num[r] \in 1..Old
        BY <2>2, <4>2
      <4> QED
        BY <4>2, <4>3, NumbersAssumption
    <3>2. Rejected = {} /\ Cardinality(Rejected) = 0
      BY <1>2, <2>2, <3>1, FS_EmptySet
    <3> QED
      BY <1>1, <2>4, <3>2 DEF Base
  <2>5. CASE ~scene.seeded
    <3>1. Rejected = L
      BY <1>2, <2>2
    <3>2. Cardinality(Rejected) <= Old + 0 /\ IsFiniteSet(Rejected)
      BY <1>3, <2>3, <3>1
    <3>3. Cardinality(Rejected) \in Nat
      BY <3>2, FS_CardinalityType
    <3> QED
      BY <1>1, <2>5, <3>2, <3>3, NumbersAssumption DEF Base
  <2> QED
    BY <2>4, <2>5
<1>5. CASE ~Untouched
  <2>1. lost >= Cardinality(Kept(early)) + Old
    BY <1>0, <1>5 DEF Split, EarlyOnes
  <2> HIDE DEF E, L
  <2>2. IsFiniteSet(E \cup L) /\ Cardinality(E \cup L) <= Cardinality(E) + Cardinality(L)
    BY <1>3, NoneAdded
  <2>3. /\ Cardinality(E) \in Nat /\ Cardinality(L) \in Nat /\ Old \in Nat /\ lost \in Nat
        /\ Cardinality(Kept(early)) \in Nat /\ Cardinality(E \cup L) \in Nat
    BY <1>1, <1>3, <2>2, FS_CardinalityType, NumbersAssumption DEF Base
  <2> QED
    BY <1>2, <1>3, <2>1, <2>2, <2>3
<1> QED
  BY <1>4, <1>5

(* Runs that follow one another are refused for the executions that were    *)
(* there when the document that counted them was not, one for each at most, *)
(* and concurrent runs whose executions are counted only for a name that a  *)
(* run has got in spite of an error.                                        *)
THEOREM Refusals == Spec => []RefusalsBounded
<1>1. SeededInv => NoneRefused
  BY DEF SeededInv, Inv, NoneTaken, ForAstray, NoneRefused
<1>2. SeededInv /\ Divided => RefusalsBounded
  BY <1>1, NoMoreRefused DEF RefusalsBounded, Rejected, Undisturbed
<1> QED
  BY <1>2, InvInit, InvStep, DividedInit, DividedStep, PTL DEF Spec

=============================================================================
