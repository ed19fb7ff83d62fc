--------------------------- MODULE TriggersProofs ---------------------------
(* Proofs about the trigger service: who watches the cluster, of module      *)
(* TriggerLease, for any number of instances, any lease duration and any     *)
(* number of failures; and what the statuses of the triggers remember, of    *)
(* module Triggers, for any triggers, informers and bounds.                  *)
EXTENDS Triggers, TriggerLease, FiniteSetTheorems, WellFoundedInduction, TLAPS

-----------------------------------------------------------------------------
(* The lease.                                                                *)

(* A lease of nobody, of an instance or one that has aged is a lease.       *)
LEMMA LeaseTypes ==
    ASSUME NEW i \in Instances \cup {Nobody}
    PROVE  NewLease(i) \in Leases
BY LeaseAssumption DEF NewLease, Leases

LEMMA Ageing ==
    ASSUME NEW l \in Leases
    PROVE  Older(l) \in Leases /\ Older(l).holder = l.holder
BY LeaseAssumption DEF Older, Leases

(* What writing the document does to it and to what the instances know.     *)
LEMMA Writing ==
    ASSUME LeaseTypeOK, NEW i \in Instances, Write(i)
    PROVE  /\ lease' = copy[i] /\ lease' \in Leases
           /\ informed' \in [Instances -> BOOLEAN]
           /\ \A j \in Instances :
                 informed'[j] => j = i \/ (informed[j] /\ lease'.holder = lease.holder)
BY DEF LeaseTypeOK, Write

LeaseValues ==
    /\ lease \in Leases /\ copy \in [Instances -> Leases]
    /\ pods \subseteq Instances /\ pc \in [Instances -> Labels]
    /\ leased \in [Instances -> BOOLEAN] /\ running \in [Instances -> BOOLEAN]
    /\ informed \in [Instances -> BOOLEAN]

LeaseBounds == failed \in 0..MaxFaults /\ departed \in 0..MaxCrashes

Held(i) ==
    /\ pc[i] = "found" => copy[i].holder # Nobody
    /\ pc[i] \in {"insert", "update", "updated"} => copy[i].holder = i

Live(i) ==
    /\ i \in pods <=> pc[i] \notin {"down", "gone"}
    /\ running[i] \/ leased[i] => i \in pods

(* What an instance that looked after the last take-over has in hand agrees *)
(* with the document: the lease it read, wrote, was granted or watches by.  *)
Agrees(i) ==
    informed[i] =>
        /\ pc[i] = "found" => copy[i].holder = lease.holder
        /\ pc[i] = "updated" => lease.holder = i
        /\ pc[i] = "answer" /\ leased[i] => lease.holder = i
        /\ pc[i] = "idle" /\ running[i] => lease.holder = i

LEMMA LeaseParts ==
    LeaseTypeOK <=> LeaseValues /\ LeaseBounds /\ \A i \in Instances : Held(i) /\ Live(i)
BY DEF LeaseTypeOK, LeaseValues, LeaseBounds, Held, Live

LEMMA LeaseInvInit == LeaseInit => LeaseTypeOK /\ \A i \in Instances : Agrees(i)
<1> SUFFICES ASSUME LeaseInit PROVE LeaseTypeOK /\ \A i \in Instances : Agrees(i)
  OBVIOUS
<1>1. LeaseValues
  BY LeaseTypes DEF LeaseInit, LeaseValues, Labels
<1>2. LeaseBounds
  BY LeaseAssumption DEF LeaseInit, LeaseBounds
<1>3. \A i \in Instances : Held(i) /\ Live(i) /\ Agrees(i)
  BY DEF LeaseInit, Held, Live, Agrees
<1> QED
  BY <1>1, <1>2, <1>3, LeaseParts

(* One step keeps the values in their types.                                *)
LEMMA LeaseValuesStep ==
    ASSUME LeaseTypeOK, LeaseNext PROVE LeaseValues'
<1>0. LeaseValues
  BY LeaseParts
<1>1. CASE Tick
  BY <1>0, <1>1, Ageing DEF Tick, LeaseValues
<1>2. ASSUME NEW i \in Instances, Start(i) PROVE LeaseValues'
  BY <1>0, <1>2 DEF Start, Goto, LeaseValues, Labels
<1>3. ASSUME NEW i \in Instances, FindLease(i) PROVE LeaseValues'
  BY <1>0, <1>3, LeaseTypes DEF FindLease, Goto, LeaseValues, Labels
<1>4. ASSUME NEW i \in Instances, InsertLease(i) PROVE LeaseValues'
  BY <1>0, <1>4, Writing DEF InsertLease, Answer, Goto, doc, LeaseValues, Labels
<1>5. ASSUME NEW i \in Instances, LeaseStatus(i) PROVE LeaseValues'
  <2>1. (copy[i].holder = i) \in BOOLEAN /\ NewLease(i) \in Leases
    BY LeaseTypes
  <2>2. UNCHANGED doc /\ UNCHANGED <<pods, running>>
    BY <1>5 DEF LeaseStatus
  <2>3. leased' \in [Instances -> BOOLEAN] /\ pc' \in [Instances -> Labels]
    BY <1>0, <1>5, <2>1 DEF LeaseStatus, Answer, Goto, LeaseValues, Labels
  <2>4. copy' \in [Instances -> Leases]
    BY <1>0, <1>5, <2>1 DEF LeaseStatus, LeaseValues
  <2> QED
    BY <1>0, <2>2, <2>3, <2>4 DEF doc, LeaseValues
<1>6. ASSUME NEW i \in Instances, UpdateLease(i) PROVE LeaseValues'
  BY <1>0, <1>6, Writing DEF UpdateLease, Goto, LeaseValues, Labels
<1>7. ASSUME NEW i \in Instances, ConfirmLease(i) PROVE LeaseValues'
  <2>1. (~Expired(copy[i]) /\ copy[i].holder = i) \in BOOLEAN
    OBVIOUS
  <2> QED
    BY <1>0, <1>7, <2>1 DEF ConfirmLease, Answer, Goto, doc, LeaseValues, Labels
<1>8. ASSUME NEW i \in Instances, Watch(i) PROVE LeaseValues'
  BY <1>0, <1>8 DEF Watch, Goto, doc, LeaseValues, Labels
<1>9. ASSUME NEW i \in Instances, CallFails(i) PROVE LeaseValues'
  BY <1>0, <1>9, Writing DEF CallFails, Answer, Goto, doc, LeaseValues, Labels
<1>10. ASSUME NEW i \in Instances, GoAway(i) PROVE LeaseValues'
  BY <1>0, <1>10 DEF GoAway, Goto, doc, LeaseValues, Labels
<1> QED
  BY <1>1, <1>2, <1>3, <1>4, <1>5, <1>6, <1>7, <1>8, <1>9, <1>10 DEF LeaseNext, Check

LEMMA LeaseBoundsStep ==
    ASSUME LeaseTypeOK, LeaseNext PROVE LeaseBounds'
<1>0. LeaseBounds
  BY LeaseParts
<1>1. \/ UNCHANGED <<failed, departed>>
      \/ failed < MaxFaults /\ failed' = failed + 1 /\ departed' = departed
      \/ departed < MaxCrashes /\ departed' = departed + 1 /\ failed' = failed
  BY DEF LeaseNext, Check, Tick, Start, FindLease, InsertLease, LeaseStatus, UpdateLease,
         ConfirmLease, Watch, CallFails, GoAway
<1> QED
  BY <1>0, <1>1, LeaseAssumption DEF LeaseBounds

(* A step of i leaves the other instances as they were, except for the      *)
(* document and what they know of it.                                       *)
LEMMA OthersUntouched ==
    ASSUME LeaseTypeOK, NEW i \in Instances, NEW j \in Instances, i # j,
           Start(i) \/ Check(i) \/ CallFails(i) \/ GoAway(i)
    PROVE  /\ pc'[j] = pc[j] /\ copy'[j] = copy[j] /\ leased'[j] = leased[j]
           /\ running'[j] = running[j] /\ (j \in pods' <=> j \in pods)
           /\ informed'[j] => informed[j] /\ lease'.holder = lease.holder
<1>0. LeaseValues
  BY LeaseParts
<1>1. pc'[j] = pc[j] /\ copy'[j] = copy[j] /\ leased'[j] = leased[j]
  BY <1>0 DEF LeaseValues, Check, Start, FindLease, InsertLease, LeaseStatus, UpdateLease,
              ConfirmLease, Watch, CallFails, GoAway, Answer, Goto
<1>2. running'[j] = running[j] /\ (j \in pods' <=> j \in pods)
  BY <1>0 DEF LeaseValues, Check, Start, FindLease, InsertLease, LeaseStatus, UpdateLease,
              ConfirmLease, Watch, CallFails, GoAway
<1>3. CASE Write(i)
  BY <1>1, <1>2, <1>3, Writing
<1>4. CASE ~Write(i)
  <2>1. lease' = lease
    BY <1>4 DEF Check, Start, FindLease, InsertLease, LeaseStatus, UpdateLease,
              ConfirmLease, Watch, CallFails, GoAway, doc
  <2>2. informed'[j] => informed[j]
    BY <1>0, <1>4 DEF LeaseValues, Check, Start, FindLease, InsertLease, LeaseStatus,
              UpdateLease, ConfirmLease, Watch, CallFails, GoAway, doc
  <2> QED
    BY <1>1, <1>2, <2>1, <2>2
<1> QED
  BY <1>3, <1>4

(* One step keeps the three conditions of every instance.                   *)
LEMMA InstanceStep ==
    ASSUME LeaseTypeOK, \A i \in Instances : Agrees(i), LeaseNext, NEW j \in Instances
    PROVE  Held(j)' /\ Live(j)' /\ Agrees(j)'
<1>0. LeaseValues /\ Held(j) /\ Live(j) /\ Agrees(j)
  BY LeaseParts
<1>1. CASE Tick
  <2>1. copy'[j].holder = copy[j].holder /\ lease'.holder = lease.holder
    BY <1>0, <1>1, Ageing DEF Tick, LeaseValues
  <2> QED
    BY <1>0, <1>1, <2>1 DEF Tick, Held, Live, Agrees
<1>2. ASSUME NEW i \in Instances, Start(i) \/ Check(i) \/ CallFails(i) \/ GoAway(i), i # j
      PROVE  Held(j)' /\ Live(j)' /\ Agrees(j)'
  BY <1>0, <1>2, OthersUntouched DEF Held, Live, Agrees
<1>3. ASSUME Start(j) PROVE Held(j)' /\ Live(j)' /\ Agrees(j)'
  BY <1>0, <1>3 DEF Start, Goto, LeaseValues, Held, Live, Agrees
<1>4. ASSUME FindLease(j) PROVE Held(j)' /\ Live(j)' /\ Agrees(j)'
  BY <1>0, <1>4 DEF FindLease, Goto, NewLease, LeaseValues, Held, Live, Agrees
<1>5. ASSUME InsertLease(j) PROVE Held(j)' /\ Live(j)' /\ Agrees(j)'
  <2>1. CASE lease.holder = Nobody
    BY <1>0, <1>5, <2>1, Writing, NobodyAssumption
       DEF InsertLease, Goto, LeaseValues, Held, Live, Agrees
  <2>2. CASE lease.holder # Nobody
    BY <1>0, <1>5, <2>2 DEF InsertLease, Answer, Goto, LeaseValues, Held, Live, Agrees
  <2> QED
    BY <2>1, <2>2
<1>6. ASSUME LeaseStatus(j) PROVE Held(j)' /\ Live(j)' /\ Agrees(j)'
  <2>1. CASE Expired(copy[j])
    BY <1>0, <1>6, <2>1 DEF LeaseStatus, Goto, NewLease, doc, LeaseValues, Held, Live, Agrees
  <2>2. CASE ~Expired(copy[j])
    <3>1. leased'[j] = (copy[j].holder = j)
      BY <1>0, <1>6, <2>2 DEF LeaseStatus, Answer, LeaseValues
    <3>2. pc'[j] = "answer" /\ pc[j] = "found" /\ copy' = copy
      BY <1>0, <1>6, <2>2 DEF LeaseStatus, Answer, Goto, LeaseValues
    <3>3. UNCHANGED <<lease, informed, pods, running>>
      BY <1>6 DEF LeaseStatus, doc
    <3> QED
      BY <1>0, <3>1, <3>2, <3>3 DEF Held, Live, Agrees
  <2> QED
    BY <2>1, <2>2
<1>7. ASSUME UpdateLease(j) PROVE Held(j)' /\ Live(j)' /\ Agrees(j)'
  BY <1>0, <1>7, Writing DEF UpdateLease, Goto, LeaseValues, Held, Live, Agrees
<1>8. ASSUME ConfirmLease(j) PROVE Held(j)' /\ Live(j)' /\ Agrees(j)'
  BY <1>0, <1>8 DEF ConfirmLease, Answer, Goto, doc, LeaseValues, Held, Live, Agrees
<1>9. ASSUME Watch(j) PROVE Held(j)' /\ Live(j)' /\ Agrees(j)'
  BY <1>0, <1>9 DEF Watch, Goto, doc, LeaseValues, Held, Live, Agrees
<1>10. ASSUME CallFails(j) PROVE Held(j)' /\ Live(j)' /\ Agrees(j)'
  BY <1>0, <1>10 DEF CallFails, Answer, Goto, LeaseValues, Held, Live, Agrees
<1>11. ASSUME GoAway(j) PROVE Held(j)' /\ Live(j)' /\ Agrees(j)'
  BY <1>0, <1>11 DEF GoAway, Goto, doc, LeaseValues, Held, Live, Agrees
<1> QED
  BY <1>1, <1>2, <1>3, <1>4, <1>5, <1>6, <1>7, <1>8, <1>9, <1>10, <1>11 DEF LeaseNext, Check

LEMMA LeaseInvStep ==
    LeaseTypeOK /\ (\A i \in Instances : Agrees(i)) /\ [LeaseNext]_leaseVars
        => LeaseTypeOK' /\ (\A i \in Instances : Agrees(i))'
<1> SUFFICES ASSUME LeaseTypeOK, \A i \in Instances : Agrees(i), [LeaseNext]_leaseVars
             PROVE  LeaseTypeOK' /\ (\A i \in Instances : Agrees(i))'
  OBVIOUS
<1>1. CASE LeaseNext
  <2>1. (\A i \in Instances : Held(i) /\ Live(i))' /\ (\A i \in Instances : Agrees(i))'
    BY <1>1, InstanceStep
  <2>2. (LeaseValues /\ LeaseBounds /\ \A i \in Instances : Held(i) /\ Live(i))'
    BY <1>1, <2>1, LeaseValuesStep, LeaseBoundsStep
  <2>3. LeaseTypeOK'
    BY <2>2 DEF LeaseTypeOK, LeaseValues, LeaseBounds, Held, Live
  <2> QED
    BY <2>1, <2>3
<1>2. CASE UNCHANGED leaseVars
  BY <1>2 DEF leaseVars, LeaseTypeOK, Agrees
<1> QED
  BY <1>1, <1>2

(* The types of the lease, its copies and the instances' states.            *)
THEOREM LeaseTypeSafe == LeaseSpec => []LeaseTypeOK
<1>1. LeaseSpec => [](LeaseTypeOK /\ \A i \in Instances : Agrees(i))
  BY LeaseInvInit, LeaseInvStep, PTL DEF LeaseSpec
<1> QED
  BY <1>1, PTL

(* Nobody watches with a lease that it has seen, or could have seen in its  *)
(* last check, to be another's: the inductive invariant says for every      *)
(* stage of a check what agrees with the document as long as no take-over   *)
(* happened since the check read it.                                        *)
THEOREM CaughtUp == LeaseSpec => []WatchersCaughtUp
<1>1. LeaseSpec => [](LeaseTypeOK /\ \A i \in Instances : Agrees(i))
  BY LeaseInvInit, LeaseInvStep, PTL DEF LeaseSpec
<1>2. (\A i \in Instances : Agrees(i)) => WatchersCaughtUp
  BY DEF Agrees, WatchersCaughtUp
<1> QED
  BY <1>1, <1>2, PTL

-----------------------------------------------------------------------------
(* Induction: a set of numbers that has 0, and with each number the next,   *)
(* has all, since the intervals 1..n are well-founded.                      *)
LEMMA Induction ==
    ASSUME NEW S \in SUBSET Nat, 0 \in S, \A n \in S : n + 1 \in S
    PROVE  S = Nat
<1> DEFINE Absent == {n \in Nat : n \notin S}
           Initial == {1..n : n \in Absent}
<1> SUFFICES ASSUME Absent # {} PROVE FALSE
  OBVIOUS
<1>1. \A n \in Nat : 1..n \in FiniteSubsetsOf(Nat)
  BY FS_Interval DEF FiniteSubsetsOf
<1>2. Initial \subseteq FiniteSubsetsOf(Nat) /\ Initial # {}
  BY <1>1
<1>3. PICK x \in Initial : \A y \in Initial : ~(<<y, x>> \in StrictSubsetOrdering(Nat))
  <2> HIDE DEF Initial
  <2> QED
    BY <1>2, FS_StrictSubsetOrderingWellFounded, WFMin
<1>4. PICK n \in Absent : x = 1..n
  OBVIOUS
<1>5. n # 0 /\ n - 1 \in Absent
  OBVIOUS
<1>6. <<1..(n - 1), 1..n>> \in StrictSubsetOrdering(Nat)
  BY <1>5 DEF StrictSubsetOrdering
<1> QED
  BY <1>3, <1>4, <1>5, <1>6

(* A function of 0..n that is given at 0 and from each number to the next.  *)
Iterates(f, n, x, step) == f = [i \in 0..n |-> IF i = 0 THEN x ELSE step[i][f[i - 1]]]

LEMMA Recursion ==
    ASSUME NEW n \in Nat, NEW X, NEW x \in X, NEW step \in [1..n -> [X -> X]]
    PROVE  \E f \in [0..n -> X] : Iterates(f, n, x, step)
<1> DEFINE Upto(k, f) == f = [i \in 0..k |-> IF i = 0 THEN x ELSE step[i][f[i - 1]]]
           Exists(k) == \E f \in [0..k -> X] : Upto(k, f)
           S == {k \in Nat : k <= n => Exists(k)}
<1>1. Exists(0)
  <2>1. Upto(0, [i \in 0..0 |-> x])
    OBVIOUS
  <2> QED
    BY <2>1
<1>2. ASSUME NEW k \in Nat, k + 1 <= n, Exists(k) PROVE Exists(k + 1)
  <2>1. PICK f \in [0..k -> X] : Upto(k, f)
    BY <1>2
  <2> DEFINE g == [i \in 0..(k + 1) |-> IF i = k + 1 THEN step[i][f[k]] ELSE f[i]]
  <2>2. f[k] \in X /\ step[k + 1][f[k]] \in X
    BY <1>2
  <2>3. g \in [0..(k + 1) -> X]
    BY <2>2
  <2>4. \A i \in 0..k : f[i] = IF i = 0 THEN x ELSE step[i][f[i - 1]]
    BY <2>1, Zenon
  <2>5. \A i \in 0..(k + 1) : g[i] = IF i = 0 THEN x ELSE step[i][g[i - 1]]
    BY <2>4
  <2>6. Upto(k + 1, g)
    BY <2>5
  <2> QED
    BY <2>3, <2>6
<1>3. S = Nat
  <2> HIDE DEF Exists
  <2>1. 0 \in S /\ \A k \in S : k + 1 \in S
    BY <1>1, <1>2
  <2> HIDE DEF S
  <2>2. S \in SUBSET Nat
    BY DEF S
  <2> QED
    BY <2>1, <2>2, Induction
<1> QED
  BY <1>3 DEF Iterates

-----------------------------------------------------------------------------
(* removeExecutionID, on a list of any length.                              *)
In(x, s) == \E i \in DOMAIN s : s[i] = x
Once(s)  == \A i, j \in DOMAIN s : s[i] = s[j] => i = j

(* The list and its array while the loop is at work.                        *)
Lists(n, S) == [array : [1..n -> S], len : 0..n, bad : BOOLEAN]

LEMMA CutList ==
    ASSUME NEW n \in Nat, NEW S, NEW l \in Lists(n, S), NEW id, NEW i \in 1..n
    PROVE  Cut(l, id, i) \in Lists(n, S)
<1>1. CASE l.bad \/ l.array[i] # id
  BY <1>1 DEF Cut
<1>2. CASE ~(l.bad \/ l.array[i] # id) /\ i > l.len
  BY <1>2 DEF Cut, Lists
<1>3. CASE ~(l.bad \/ l.array[i] # id) /\ ~(i > l.len)
  <2>1. DOMAIN l.array = 1..n /\ l.len \in 1..n
    BY <1>3 DEF Lists
  <2>2. [j \in DOMAIN l.array |-> IF j >= i /\ j < l.len THEN l.array[j + 1] ELSE l.array[j]]
            \in [1..n -> S]
    BY <2>1 DEF Lists
  <2> DEFINE A == [j \in DOMAIN l.array |->
                      IF j >= i /\ j < l.len THEN l.array[j + 1] ELSE l.array[j]]
  <2>3. Cut(l, id, i) = [l EXCEPT !.array = A, !.len = @ - 1]
    BY <1>3 DEF Cut
  <2>4. A \in [1..n -> S] /\ l.len - 1 \in 0..n
    BY <2>1, <2>2
  <2> HIDE DEF A
  <2> QED
    BY <2>3, <2>4 DEF Lists
<1> QED
  BY <1>1, <1>2, <1>3

(* The loop: the list before each of its turns.                             *)
Loop(l, s, id) ==
    /\ l[0] = [array |-> s, len |-> Len(s), bad |-> FALSE]
    /\ \A i \in 1..Len(s) : l[i] = Cut(l[i - 1], id, i)
    /\ Removed(s, id) = l[Len(s)]

LEMMA Removing ==
    ASSUME NEW S, NEW s \in Seq(S), NEW id
    PROVE  \E l \in [0..Len(s) -> Lists(Len(s), S)] : Loop(l, s, id)
<1> DEFINE n == Len(s)
           First == [array |-> s, len |-> n, bad |-> FALSE]
           Fix(l) == l = [i \in 0..n |-> IF i = 0 THEN First ELSE Cut(l[i - 1], id, i)]
           step == [i \in 1..n |-> [l \in Lists(n, S) |-> Cut(l, id, i)]]
<1>1. n \in Nat /\ First \in Lists(n, S)
  BY DEF Lists
<1>2. step \in [1..n -> [Lists(n, S) -> Lists(n, S)]]
  BY <1>1, CutList
<1>3. PICK f \in [0..n -> Lists(n, S)] : Iterates(f, n, First, step)
  <2> HIDE DEF step, n, First
  <2> QED
    BY <1>1, <1>2, Recursion
<1>4. \A i \in 0..n : f[i] = IF i = 0 THEN First ELSE step[i][f[i - 1]]
  BY <1>3, Zenon DEF Iterates
<1>5. \E l : Fix(l)
  <2>1. \A i \in 1..n : i \in 0..n /\ i # 0 /\ f[i - 1] \in Lists(n, S)
    BY <1>1
  <2>a. \A i \in 1..n : step[i][f[i - 1]] = Cut(f[i - 1], id, i)
    BY <2>1
  <2>b. \A i \in 0..n : i = 0 \/ i \in 1..n
    BY <1>1
  <2>2. \A i \in 0..n : f[i] = IF i = 0 THEN First ELSE Cut(f[i - 1], id, i)
    <3> HIDE DEF First, n, step
    <3> QED
      BY <1>4, <2>a, <2>b
  <2>3. Fix(f)
    BY <2>2
  <2> QED
    BY <2>3
<1> DEFINE l == CHOOSE l : Fix(l)
<1>6. Fix(l) /\ Removed(s, id) = l[n]
  BY <1>5 DEF Removed
<1>7. l = [i \in 0..n |-> l[i]]
  BY <1>6
<1>8. \A i \in 0..n : l[i] = IF i = 0 THEN First ELSE Cut(l[i - 1], id, i)
  <2> HIDE DEF l
  <2> QED
    BY <1>6, Zenon
<1>9. l[0] = First /\ \A i \in 1..n : l[i] = Cut(l[i - 1], id, i)
  <2> HIDE DEF l, First
  <2>1. 0 \in 0..n /\ \A i \in 1..n : i \in 0..n /\ i # 0
    BY <1>1
  <2> QED
    BY <1>8, <2>1
<1> DEFINE T == {i \in Nat : i <= n => l[i] \in Lists(n, S)}
<1>10. T = Nat
  <2> HIDE DEF l, First
  <2>1. 0 \in T
    BY <1>1, <1>9
  <2>2. ASSUME NEW i \in T PROVE i + 1 \in T
    <3>1. i \in Nat /\ (i + 1 <= n => i + 1 \in 1..n /\ l[i + 1] = Cut(l[i], id, i + 1))
      BY <1>1, <1>9
    <3> QED
      BY <1>1, <3>1, CutList
  <2>3. T \in SUBSET Nat
    OBVIOUS
  <2> HIDE DEF T
  <2> QED
    BY <2>1, <2>2, <2>3, Induction
<1>11. l \in [0..n -> Lists(n, S)]
  <2> HIDE DEF l
  <2>1. \A i \in 0..n : l[i] \in Lists(n, S)
    BY <1>1, <1>10
  <2> QED
    BY <1>7, <2>1
<1> QED
  <2> HIDE DEF l, Fix
  <2> QED
    BY <1>6, <1>9, <1>11 DEF Loop

(* A turn that removes: the tail of the array moves up by one.              *)
LEMMA Shift ==
    ASSUME NEW n \in Nat, NEW S, NEW l \in Lists(n, S), NEW id, NEW i \in 1..n,
           ~l.bad, l.array[i] = id, i <= l.len
    PROVE  LET m == Cut(l, id, i) IN
           /\ m \in Lists(n, S) /\ m.len = l.len - 1 /\ ~m.bad
           /\ \A j \in 1..n : m.array[j] = IF j >= i /\ j < l.len THEN l.array[j + 1]
                                           ELSE l.array[j]
<1> DEFINE A == [j \in DOMAIN l.array |->
                    IF j >= i /\ j < l.len THEN l.array[j + 1] ELSE l.array[j]]
<1>1. l.array \in [1..n -> S] /\ l.len \in 0..n /\ l.bad \in BOOLEAN
  BY DEF Lists
<1>2. Cut(l, id, i) = [l EXCEPT !.array = A, !.len = @ - 1]
  BY <1>1 DEF Cut
<1>3. \A j \in 1..n : A[j] = IF j >= i /\ j < l.len THEN l.array[j + 1] ELSE l.array[j]
  BY <1>1
<1> HIDE DEF A
<1>4. Cut(l, id, i).array = A /\ Cut(l, id, i).len = l.len - 1 /\ Cut(l, id, i).bad = l.bad
  BY <1>2 DEF Lists
<1> QED
  BY <1>3, <1>4, CutList

(* What is not removed stays; what is in the array was in the list.         *)
Others(l, s, id) ==
    \A k \in DOMAIN s : s[k] # id => \E j \in 1..l.len : l.array[j] = s[k]
Same(l, s) == \A j \in DOMAIN s : In(l.array[j], s)

LEMMA OthersStep ==
    ASSUME NEW S, NEW s \in Seq(S), NEW l \in Lists(Len(s), S), NEW id, NEW i \in 1..Len(s),
           Others(l, s, id)
    PROVE  Others(Cut(l, id, i), s, id)
<1> SUFFICES ASSUME NEW m, m = Cut(l, id, i), NEW n \in Nat, n = Len(s)
             PROVE  Others(m, s, id)
  OBVIOUS
<1>0. DOMAIN s = 1..n /\ l.len \in 0..n
  BY DEF Lists
<1>1. CASE l.bad \/ l.array[i] # id
  BY <1>1 DEF Cut
<1>2. CASE ~(l.bad \/ l.array[i] # id) /\ i > l.len
  <2>1. m.array = l.array /\ m.len = l.len
    BY <1>2 DEF Cut, Lists
  <2> QED
    BY <2>1 DEF Others
<1>3. CASE ~(l.bad \/ l.array[i] # id) /\ ~(i > l.len)
  <2>1. /\ m.len = l.len - 1
        /\ \A j \in 1..n : m.array[j] = IF j >= i /\ j < l.len THEN l.array[j + 1]
                                        ELSE l.array[j]
    BY <1>0, <1>3, Shift
  <2>2. ASSUME NEW k \in DOMAIN s, s[k] # id PROVE \E j \in 1..m.len : m.array[j] = s[k]
    <3>1. PICK j \in 1..l.len : l.array[j] = s[k]
      BY <2>2 DEF Others
    <3>2. j # i
      BY <1>3, <2>2, <3>1
    <3>3. CASE j < i
      <4>1. j \in 1..m.len /\ m.array[j] = l.array[j]
        BY <1>0, <1>3, <2>1, <3>3
      <4> QED
        BY <3>1, <4>1
    <3>4. CASE j > i
      <4>1. j - 1 \in 1..m.len /\ m.array[j - 1] = l.array[j]
        BY <1>0, <1>3, <2>1, <3>4
      <4> QED
        BY <3>1, <4>1
    <3> QED
      BY <1>0, <3>2, <3>3, <3>4
  <2> QED
    BY <2>2 DEF Others
<1> QED
  BY <1>1, <1>2, <1>3

LEMMA SameStep ==
    ASSUME NEW S, NEW s \in Seq(S), NEW l \in Lists(Len(s), S), NEW id, NEW i \in 1..Len(s),
           Same(l, s)
    PROVE  Same(Cut(l, id, i), s)
<1> SUFFICES ASSUME NEW m, m = Cut(l, id, i), NEW n \in Nat, n = Len(s)
             PROVE  Same(m, s)
  OBVIOUS
<1>0. DOMAIN s = 1..n /\ l.len \in 0..n
  BY DEF Lists
<1>1. CASE l.bad \/ l.array[i] # id
  BY <1>1 DEF Cut
<1>2. CASE ~(l.bad \/ l.array[i] # id) /\ i > l.len
  <2>1. m.array = l.array
    BY <1>2 DEF Cut, Lists
  <2> QED
    BY <2>1 DEF Same
<1>3. CASE ~(l.bad \/ l.array[i] # id) /\ ~(i > l.len)
  <2>1. \A j \in 1..n : m.array[j] = IF j >= i /\ j < l.len THEN l.array[j + 1]
                                     ELSE l.array[j]
    BY <1>0, <1>3, Shift
  <2>2. \A j \in 1..n : j < l.len => j + 1 \in 1..n
    BY <1>0
  <2> QED
    BY <1>0, <2>1, <2>2 DEF Same
<1> QED
  BY <1>1, <1>2, <1>3

(* An id that is there once at most is removed without a panic.             *)
Whole(l, s, id, i)   == l.array = s /\ l.len = Len(s) /\ \A j \in 1..i : s[j] # id
Without(l, s, id, p) ==
    /\ s[p] = id /\ l.len = Len(s) - 1
    /\ \A j \in DOMAIN s : l.array[j] = IF j < p \/ j = Len(s) THEN s[j] ELSE s[j + 1]
Removes(l, s, id, i) ==
    ~l.bad /\ (Whole(l, s, id, i) \/ \E p \in 1..i : Without(l, s, id, p))

LEMMA RemovesStep ==
    ASSUME NEW S, NEW s \in Seq(S), NEW l \in Lists(Len(s), S), NEW id, NEW i \in Nat,
           i + 1 \in 1..Len(s), Once(s), Removes(l, s, id, i)
    PROVE  Removes(Cut(l, id, i + 1), s, id, i + 1)
<1> SUFFICES ASSUME NEW m, m = Cut(l, id, i + 1), NEW n \in Nat, n = Len(s)
             PROVE  Removes(m, s, id, i + 1)
  OBVIOUS
<1>0. DOMAIN s = 1..n /\ ~l.bad
  BY DEF Removes
<1>1. CASE Whole(l, s, id, i) /\ s[i + 1] # id
  <2>1. m = l
    BY <1>1 DEF Whole, Cut
  <2>2. Whole(l, s, id, i + 1)
    BY <1>1 DEF Whole
  <2> QED
    BY <1>0, <2>1, <2>2 DEF Removes
<1>2. CASE Whole(l, s, id, i) /\ s[i + 1] = id
  <2>1. /\ m.len = n - 1 /\ ~m.bad
        /\ \A j \in 1..n : m.array[j] = IF j >= i + 1 /\ j < n THEN s[j + 1] ELSE s[j]
    <3>1. l.array = s /\ l.len = n /\ l.array[i + 1] = id /\ i + 1 <= l.len
      BY <1>2 DEF Whole
    <3>2. /\ m.len = l.len - 1 /\ ~m.bad
          /\ \A j \in 1..n : m.array[j] = IF j >= i + 1 /\ j < l.len THEN l.array[j + 1]
                                          ELSE l.array[j]
      <4>1. l \in Lists(n, S) /\ i + 1 \in 1..n
        OBVIOUS
      <4>2. PICK k \in 1..n : k = i + 1
        BY <4>1
      <4>a. m = Cut(l, id, k) /\ l.array[k] = id /\ k <= l.len
        BY <3>1, <4>2
      <4>3. /\ m.len = l.len - 1 /\ ~m.bad
            /\ \A j \in 1..n : m.array[j] = IF j >= k /\ j < l.len THEN l.array[j + 1]
                                            ELSE l.array[j]
        BY <1>0, <4>1, <4>a, Shift
      <4> QED
        BY <4>2, <4>3
    <3> QED
      BY <3>1, <3>2
  <2>2. Without(m, s, id, i + 1)
    BY <1>0, <1>2, <2>1 DEF Without
  <2>3. i + 1 \in 1..(i + 1)
    OBVIOUS
  <2> QED
    BY <2>1, <2>2, <2>3 DEF Removes
<1>3. ASSUME NEW p \in 1..i, Without(l, s, id, p) PROVE Removes(m, s, id, i + 1)
  <2>1. l.array[i + 1] # id
    <3>1. p \in DOMAIN s /\ i + 1 \in DOMAIN s /\ p # i + 1 /\ ~(i + 1 < p)
      BY <1>0
    <3>2. s[i + 1] # id
      BY <1>3, <3>1 DEF Without, Once
    <3>3. i + 1 # n => i + 2 \in DOMAIN s /\ p # i + 2 /\ s[i + 2] # id
      <4>1. i + 1 # n => i + 2 \in DOMAIN s /\ p # i + 2
        BY <1>0
      <4> QED
        BY <1>3, <3>1, <4>1 DEF Without, Once
    <3>4. l.array[i + 1] = IF i + 1 < p \/ i + 1 = n THEN s[i + 1] ELSE s[i + 2]
      BY <1>3, <3>1 DEF Without
    <3> QED
      BY <3>1, <3>2, <3>3, <3>4
  <2>2. m = l
    BY <2>1 DEF Cut
  <2>3. p \in 1..(i + 1)
    OBVIOUS
  <2> QED
    BY <1>0, <1>3, <2>2, <2>3 DEF Removes
<1> QED
  BY <1>1, <1>2, <1>3 DEF Removes

(* What removing an id from a list leaves.                                  *)
Rest(s, id) == LET l == Removed(s, id) IN SubSeq(l.array, 1, l.len)

LEMMA Removal ==
    ASSUME NEW S, NEW s \in Seq(S), NEW id
    PROVE  /\ Rest(s, id) \in Seq(S)
           /\ \A x : x # id /\ In(x, s) => In(x, Rest(s, id))
           /\ \A x : In(x, Rest(s, id)) => In(x, s)
           /\ Once(s) => ~Removed(s, id).bad /\ Once(Rest(s, id))
<1>0. PICK f \in [0..Len(s) -> Lists(Len(s), S)] : Loop(f, s, id)
  BY Removing
<1>1. PICK n \in Nat : n = Len(s)
  OBVIOUS
<1>2. /\ f \in [0..n -> Lists(n, S)] /\ f[0] = [array |-> s, len |-> n, bad |-> FALSE]
      /\ \A i \in 1..n : f[i] = Cut(f[i - 1], id, i)
      /\ Removed(s, id) = f[n]
  BY <1>0, <1>1 DEF Loop
<1> DEFINE Inv(i) == /\ Others(f[i], s, id) /\ Same(f[i], s)
                     /\ Once(s) => Removes(f[i], s, id, i)
           T == {i \in Nat : i <= n => Inv(i)}
<1>3. Inv(0)
  <2>1. f[0].array = s /\ f[0].len = Len(s) /\ ~f[0].bad
    BY <1>1, <1>2
  <2> QED
    BY <1>1, <2>1 DEF Others, Same, In, Removes, Whole
<1>4. ASSUME NEW i \in Nat, i + 1 <= n, Inv(i) PROVE Inv(i + 1)
  <2>1. i + 1 \in 1..Len(s) /\ f[i] \in Lists(Len(s), S) /\ f[i + 1] = Cut(f[i], id, i + 1)
    BY <1>1, <1>2, <1>4
  <2>2. Others(f[i + 1], s, id) /\ Same(f[i + 1], s)
    BY <1>4, <2>1, OthersStep, SameStep
  <2>3. Once(s) => Removes(f[i + 1], s, id, i + 1)
    BY <1>4, <2>1, RemovesStep
  <2> QED
    BY <2>2, <2>3
<1>5. T = Nat
  <2> HIDE DEF Inv
  <2>1. 0 \in T /\ \A i \in T : i + 1 \in T
    BY <1>3, <1>4
  <2>2. T \in SUBSET Nat
    OBVIOUS
  <2> HIDE DEF T
  <2> QED
    BY <2>1, <2>2, Induction
<1>6. Inv(n)
  <2> HIDE DEF Inv
  <2> QED
    BY <1>5
<1>7. PICK l \in Lists(n, S) : l = f[n]
  BY <1>2
<1>8. PICK r : r = SubSeq(l.array, 1, l.len)
  OBVIOUS
<1>9. /\ Removed(s, id) = l /\ Rest(s, id) = r
      /\ Others(l, s, id) /\ Same(l, s) /\ (Once(s) => Removes(l, s, id, n))
  BY <1>2, <1>6, <1>7, <1>8 DEF Rest
<1>10. l.array \in [1..n -> S] /\ l.len \in 0..n /\ DOMAIN s = 1..n
  BY <1>1 DEF Lists
<1>11. r = [j \in 1..l.len |-> l.array[j]] /\ r \in Seq(S) /\ DOMAIN r = 1..l.len
  <2>1. l.array \in Seq(S) /\ Len(l.array) = n
    BY <1>10
  <2> QED
    BY <1>8, <1>10, <2>1
<1>12. \A j \in 1..l.len : r[j] = l.array[j] /\ j \in DOMAIN s
  BY <1>10, <1>11
<1>13. ASSUME NEW x, x # id, In(x, s) PROVE In(x, r)
  <2>1. PICK k \in DOMAIN s : s[k] = x
    BY <1>13 DEF In
  <2>2. PICK j \in 1..l.len : l.array[j] = x
    BY <1>9, <1>13, <2>1 DEF Others
  <2> QED
    BY <1>11, <1>12, <2>2 DEF In
<1>14. ASSUME NEW x, In(x, r) PROVE In(x, s)
  BY <1>9, <1>11, <1>12, <1>14 DEF In, Same
<1>15. ASSUME Once(s) PROVE ~l.bad /\ Once(r)
  <2>1. Removes(l, s, id, n)
    BY <1>9, <1>15
  <2>2. CASE Whole(l, s, id, n)
    <3>1. \A j \in DOMAIN r : r[j] = s[j] /\ j \in DOMAIN s
      BY <1>11, <1>12, <2>2 DEF Whole
    <3> QED
      BY <1>15, <2>1, <3>1 DEF Once, Removes
  <2>3. ASSUME NEW p \in 1..n, Without(l, s, id, p) PROVE Once(r)
    <3>1. l.len = n - 1
      BY <1>1, <2>3 DEF Without
    <3>2. \A j \in 1..l.len : r[j] = IF j < p THEN s[j] ELSE s[j + 1]
      BY <1>1, <1>10, <1>12, <2>3, <3>1 DEF Without
    <3>3. \A j \in 1..l.len : j + 1 \in DOMAIN s
      BY <1>10, <3>1
    <3>4. ASSUME NEW j \in 1..l.len, NEW k \in 1..l.len, r[j] = r[k] PROVE j = k
      <4>1. CASE j < p /\ k < p
        BY <1>12, <1>15, <3>2, <3>4, <4>1 DEF Once
      <4>2. CASE j < p /\ ~(k < p)
        BY <1>12, <1>15, <3>2, <3>3, <3>4, <4>2 DEF Once
      <4>3. CASE ~(j < p) /\ k < p
        BY <1>12, <1>15, <3>2, <3>3, <3>4, <4>3 DEF Once
      <4>4. CASE ~(j < p) /\ ~(k < p)
        <5>1. j + 1 = k + 1
          BY <1>15, <3>2, <3>3, <3>4, <4>4 DEF Once
        <5> QED
          BY <5>1
      <4> QED
        BY <4>1, <4>2, <4>3, <4>4
    <3> QED
      BY <1>11, <3>4 DEF Once
  <2> QED
    BY <2>1, <2>2, <2>3 DEF Removes
<1> QED
  BY <1>9, <1>11, <1>13, <1>14, <1>15

-----------------------------------------------------------------------------
(* The parts of the type invariant, and what it needs to be inductive.      *)
Busy(r) == r.pc \notin {"idle", "loop"}

(* What the place of a handler says of its other fields.                    *)
Placed(r) ==
    /\ Busy(r) => r.trig \in Triggers
    /\ r.pc # "idle" => r.round # 0
    /\ r.pc # "run" => r.todo = 0
    /\ r.pc \notin {"abort", "run"} => r.resp = <<>>

HandlersOK == hs \in [Handlers -> Handler] /\ \A h \in Handlers : Placed(hs[h])
ClusterOK ==
    [policy |-> policy, suites |-> suites, watch |-> watch] \in Cases /\ present \subseteq Triggers
ProcessOK == up \in BOOLEAN /\ leading \in BOOLEAN /\ seen \subseteq Triggers
ListsOK   == ids \in [Versions -> Seq(Ids)] /\ host \in [Versions -> Sources \cup {None}]
NumbersOK == made \in Nat /\ status \in [Triggers -> 0..made] /\ spec \in [Triggers -> 0..made]
Execution == [st : {"active", "asked", "ended"}, trig : Triggers, round : 1..MaxEvents]
StoreOK   == exec \in Seq(Execution) /\ home \in Seq(Versions) /\ Len(home) = Len(exec)
CountsOK  ==
    /\ events \in 0..MaxEvents /\ selected \in 0..MaxTests
    /\ {refused, faults, losses, changes, crashes, deaths} \subseteq Nat
    /\ refused + 2 * (faults + losses + changes + crashes) <= MaxTrouble

(* Every leader adds a trigger once at most, but for those deleted since.   *)
Added  == seen \cup (Triggers \ present)
Adding == losses * Cardinality(Triggers) + changes
             + IF leading THEN Cardinality(Added) ELSE 0

(* The requests that the handlers still have to send.                       *)
Pending == {p \in Handlers \X Execs : p[2] <= hs[p[1]].todo}
Sent    == Len(exec) + Cardinality(Pending) <= selected

Typed == /\ ClusterOK /\ ProcessOK /\ NumbersOK /\ made \in Versions /\ ListsOK /\ HandlersOK
         /\ StoreOK /\ CountsOK /\ made <= Adding /\ Sent

LEMMA Constants ==
    /\ MaxHandlers \in Nat /\ MaxTests \in Nat /\ MaxEvents \in Nat /\ MaxTrouble \in Nat
    /\ Cardinality(Triggers) \in Nat /\ IsFiniteSet(Triggers) /\ 0 \in Versions
    /\ Versions \subseteq Nat /\ \A v \in Versions : 0..v \subseteq Versions
<1>1. Cardinality(Triggers) \in Nat /\ IsFiniteSet(Triggers)
  BY NamesAssumption, FS_CardinalityType
<1>2. (MaxTrouble + 1) * Cardinality(Triggers) \in Nat
  BY <1>1, BoundsAssumption
<1>3. PICK n \in Nat : Versions = 0..n
  BY <1>2 DEF Versions
<1> QED
  BY <1>1, <1>3, BoundsAssumption

LEMMA IdleHandler == Idle \in Handler /\ Placed(Idle) /\ Idle.todo = 0
<1>1. <<>> \in Seq(Ids)
  OBVIOUS
<1> QED
  BY <1>1, Constants DEF Idle, Handler, Placed, Busy

(* One handler moves.                                                       *)
Moves(h, r) == hs' = [hs EXCEPT ![h] = r]

LEMMA MovesOK ==
    ASSUME HandlersOK, NEW h \in Handlers, NEW r \in Handler, Placed(r), Moves(h, r)
    PROVE  HandlersOK'
BY DEF HandlersOK, Moves

LEMMA EventMoves ==
    ASSUME Typed, NEW h \in Handlers, NEW s \in Sources, Event(h, s)
    PROVE  \E r \in Handler : Placed(r) /\ Moves(h, r) /\ r.todo = 0
<1>1. PICK left \in SUBSET watch[s] :
          Moves(h, [Idle EXCEPT !.pc = "loop", !.src = s, !.left = left, !.round = events'])
  BY DEF Event, Moves
<1> DEFINE r == [Idle EXCEPT !.pc = "loop", !.src = s, !.left = left, !.round = events']
<1>2. left \subseteq Triggers
  BY NamesAssumption DEF Typed, ClusterOK
<1>3. events' \in 1..MaxEvents
  BY Constants DEF Typed, CountsOK, Event
<1>4. r \in Handler
  <2>1. Idle \in Handler
    BY IdleHandler
  <2>2. events' \in 0..MaxEvents
    BY <1>3
  <2> QED
    BY <1>2, <2>1, <2>2 DEF Handler
<1>5. Placed(r) /\ r.todo = 0
  BY <1>3 DEF Placed, Idle, Busy
<1> QED
  BY <1>1, <1>4, <1>5

(* The moves of a handler that match no executions, but for Execute.        *)
Local(h) ==
    \/ \E t \in Triggers : Pick(h, t)
    \/ Finish(h) \/ MatchProbes(h) \/ WaitFails(h) \/ Forbid(h) \/ Replace(h) \/ Permit(h)
    \/ AbortSkip(h) \/ AbortDone(h) \/ ExecuteFails(h) \/ Started(h)

LEMMA LocalMoves ==
    ASSUME Typed, NEW h \in Handlers, Local(h)
    PROVE  \E r \in Handler : Placed(r) /\ Moves(h, r) /\ r.todo = 0
<1>0. /\ hs[h] \in Handler /\ Placed(hs[h])
      /\ \A t \in Triggers : status[t] \in Versions /\ spec[t] \in Versions
  BY Constants DEF Typed, HandlersOK, NumbersOK
<1>1. CASE \E t \in Triggers : Pick(h, t)
  <2>1. PICK t \in Triggers : Pick(h, t)
    BY <1>1
  <2> DEFINE r == [hs[h] EXCEPT !.pc = "conditions", !.trig = t, !.spec = spec[t], !.left = @ \ {t}]
  <2>2. Moves(h, r)
    BY <2>1 DEF Pick, Moves
  <2>3. r \in Handler /\ Placed(r) /\ r.todo = 0
    BY <1>0, <2>1 DEF Pick, Handler, Placed, Busy
  <2> QED
    BY <2>2, <2>3
<1>2. CASE Finish(h) \/ WaitFails(h) \/ Forbid(h) \/ ExecuteFails(h)
  BY <1>2, IdleHandler DEF Finish, WaitFails, Forbid, ExecuteFails, Return, Moves
<1>3. CASE MatchProbes(h) \/ Permit(h) \/ AbortDone(h)
  <2>1. PICK l \in {"policy", "execute"} : hs' = Go(h, l)
    BY <1>3 DEF MatchProbes, Permit, AbortDone
  <2> DEFINE r == [hs[h] EXCEPT !.pc = l]
  <2>2. Moves(h, r)
    BY <2>1 DEF Go, Moves
  <2>3. r \in Handler /\ Placed(r) /\ r.todo = 0
    BY <1>0, <1>3 DEF MatchProbes, Permit, AbortDone, Handler, Placed, Busy
  <2> QED
    BY <2>2, <2>3
<1>4. CASE Replace(h)
  <2> DEFINE t == hs[h].trig
             r == [hs[h] EXCEPT !.pc = "abort", !.obj = status[t], !.resp = ids[status[t]]]
  <2>1. Moves(h, r)
    BY <1>4 DEF Replace, Moves
  <2>2. t \in Triggers /\ status[t] \in Versions /\ ids[status[t]] \in Seq(Ids)
    BY <1>0, <1>4 DEF Replace, Placed, Busy, Typed, ListsOK
  <2>3. r \in Handler /\ Placed(r) /\ r.todo = 0
    BY <1>0, <1>4, <2>2 DEF Replace, Handler, Placed, Busy
  <2> QED
    BY <2>1, <2>3
<1>5. CASE AbortSkip(h)
  <2> DEFINE r == [hs[h] EXCEPT !.resp = Tail(@)]
  <2>1. Moves(h, r)
    BY <1>5 DEF AbortSkip, Next1, Moves
  <2>2. Tail(hs[h].resp) \in Seq(Ids)
    BY <1>0, <1>5 DEF AbortSkip, Aborting, Handler
  <2>3. r \in Handler /\ Placed(r) /\ r.todo = 0
    BY <1>0, <1>5, <2>2 DEF AbortSkip, Aborting, Handler, Placed, Busy
  <2> QED
    BY <2>1, <2>3
<1>6. CASE Started(h)
  <2> DEFINE r == [hs[h] EXCEPT !.pc = "loop", !.obj = 0, !.trig = None, !.spec = 0]
  <2>1. Moves(h, r)
    BY <1>6 DEF Started, Moves
  <2>2. r \in Handler /\ Placed(r) /\ r.todo = 0
    BY <1>0, <1>6, Constants DEF Started, Handler, Placed, Busy
  <2> QED
    BY <2>1, <2>2
<1> QED
  BY <1>1, <1>2, <1>3, <1>4, <1>5, <1>6 DEF Local

(* The moves with executions.                                               *)
Sending(h) == Request(h) \/ Refuse(h)
Noting(h)  == AbortRunning(h) \/ AbortMissing(h) \/ Record(h)

LEMMA ExecsOf ==
    ASSUME Typed PROVE DOMAIN exec \subseteq Execs /\ DOMAIN exec = 1..Len(exec) /\ Len(exec) \in Nat
                       /\ Execs = 1..MaxTests /\ IsFiniteSet(Pending) /\ Cardinality(Pending) \in Nat
<1>1. exec \in Seq(Execution) /\ selected \in 0..MaxTests
  BY DEF Typed, StoreOK, CountsOK
<1>2. IsFiniteSet(Handlers \X Execs)
  <2>1. IsFiniteSet(Handlers) /\ IsFiniteSet(Execs)
    BY Constants, FS_Interval DEF Handlers, Execs
  <2> QED
    BY <2>1, FS_Product
<1>3. IsFiniteSet(Pending) /\ Cardinality(Pending) \in Nat
  <2>1. Pending \in SUBSET (Handlers \X Execs)
    BY DEF Pending
  <2> QED
    BY <1>2, <2>1, FS_Subset, FS_CardinalityType
<1>4. Len(exec) <= MaxTests
  BY <1>1, <1>3, Constants DEF Typed, Sent
<1> QED
  BY <1>1, <1>3, <1>4, Constants DEF Execs

LEMMA SendingRoom ==
    ASSUME Typed, NEW h \in Handlers, hs[h].todo # 0
    PROVE  /\ Len(exec) + 1 \in Execs
           /\ <<h, hs[h].todo>> \in Pending
<1>1. hs[h].todo \in Execs
  BY Constants DEF Typed, HandlersOK, Handler, Execs
<1>2. <<h, hs[h].todo>> \in Pending
  BY <1>1, Constants DEF Pending, Execs
<1>3. Cardinality(Pending) # 0
  BY <1>2, ExecsOf, FS_EmptySet
<1>4. Len(exec) + Cardinality(Pending) <= selected /\ selected \in 0..MaxTests
  BY DEF Typed, Sent, CountsOK
<1>5. Len(exec) + 1 \in 1..MaxTests
  BY <1>3, <1>4, ExecsOf, Constants
<1> QED
  BY <1>2, <1>5, ExecsOf

LEMMA SendingMoves ==
    ASSUME Typed, NEW h \in Handlers, Sending(h)
    PROVE  \E r \in Handler : Placed(r) /\ Moves(h, r) /\ hs[h].todo > 0 /\ r.todo = hs[h].todo - 1
<1>0. hs[h] \in Handler /\ Placed(hs[h]) /\ hs[h].pc = "run" /\ hs[h].todo > 0
  BY DEF Typed, HandlersOK, Sending, Request, Refuse
<1>1. PICK id \in Ids : Respond(h, id)
  <2>1. CASE Request(h)
    <3>1. Len(exec') \in Ids
      <4>1. Len(exec') = Len(exec) + 1
        BY <2>1 DEF Request, Typed, StoreOK
      <4>2. hs[h].todo # 0
        BY <1>0
      <4> QED
        BY <4>1, <4>2, SendingRoom DEF Ids
    <3> QED
      BY <2>1, <3>1 DEF Request
  <2>2. CASE Refuse(h)
    <3>1. PICK id \in {0} \cup {e \in DOMAIN exec : exec[e].trig = hs[h].trig} : Respond(h, id)
      BY <2>2 DEF Refuse
    <3>2. id \in Ids
      BY ExecsOf DEF Ids
    <3> QED
      BY <3>1, <3>2
  <2> QED
    BY <2>1, <2>2 DEF Sending
<1> DEFINE r == [hs[h] EXCEPT !.todo = @ - 1, !.resp = Append(@, id)]
<1>2. Moves(h, r)
  BY <1>1 DEF Respond, Moves
<1>3. hs[h].todo - 1 \in 0..MaxTests /\ Append(hs[h].resp, id) \in Seq(Ids)
  BY <1>0, Constants DEF Handler
<1>4. r \in Handler /\ Placed(r) /\ r.todo = hs[h].todo - 1
  BY <1>0, <1>3 DEF Handler, Placed, Busy
<1> QED
  BY <1>0, <1>2, <1>4

LEMMA NotingMoves ==
    ASSUME Typed, NEW h \in Handlers, Noting(h)
    PROVE  \E r \in Handler : Placed(r) /\ Moves(h, r) /\ r.todo = hs[h].todo
<1>0. hs[h] \in Handler /\ Placed(hs[h]) /\ hs[h].pc \in {"run", "abort"} /\ hs[h].resp # <<>>
  BY DEF Typed, HandlersOK, Noting, AbortRunning, AbortMissing, Record, Aborting
<1> DEFINE r == [hs[h] EXCEPT !.resp = Tail(@)]
<1>1. Moves(h, r)
  BY DEF Noting, AbortRunning, AbortMissing, Record, Next1, Moves
<1>2. Tail(hs[h].resp) \in Seq(Ids)
  BY <1>0 DEF Handler
<1>3. r \in Handler /\ Placed(r) /\ r.todo = hs[h].todo
  BY <1>0, <1>2 DEF Handler, Placed, Busy
<1> QED
  BY <1>1, <1>3

LEMMA ExecuteMoves ==
    ASSUME Typed, NEW h \in Handlers, Execute(h)
    PROVE  /\ hs[h].pc = "execute" /\ hs[h].todo = 0
           /\ \E r \in Handler : /\ Placed(r) /\ Moves(h, r) /\ selected' = selected + r.todo
                                 /\ r.obj = status[hs[h].trig] /\ r.pc = "run"
                                 /\ r.trig = hs[h].trig /\ r.resp = <<>>
                                 /\ selected' \in 0..MaxTests
<1>0. /\ hs[h] \in Handler /\ Placed(hs[h]) /\ hs[h].pc = "execute" /\ selected \in 0..MaxTests
      /\ hs[h].trig \in Triggers /\ status[hs[h].trig] \in Versions /\ hs[h].resp = <<>>
      /\ hs[h].todo = 0
  BY Constants DEF Typed, HandlersOK, NumbersOK, CountsOK, Execute, Placed, Busy
<1>1. PICK n \in 0..MaxTests - selected :
         /\ selected' = selected + n
         /\ Moves(h, [hs[h] EXCEPT !.pc = "run", !.obj = status[hs[h].trig], !.todo = n])
  BY DEF Execute, Moves
<1> DEFINE r == [hs[h] EXCEPT !.pc = "run", !.obj = status[hs[h].trig], !.todo = n]
<1>2. n \in 0..MaxTests /\ selected' \in 0..MaxTests
  BY <1>0, <1>1, Constants
<1>3. r \in Handler /\ Placed(r) /\ r.todo = n /\ r.obj = status[hs[h].trig] /\ r.pc = "run"
      /\ r.trig = hs[h].trig /\ r.resp = <<>>
  BY <1>0, <1>2 DEF Handler, Placed, Busy
<1> QED
  BY <1>0, <1>1, <1>2, <1>3

(* What a move does to the requests that are to be sent.                    *)
LEMMA PendingMoves ==
    ASSUME Typed, NEW h \in Handlers, NEW r \in Handler, Moves(h, r)
    PROVE  /\ r.todo <= hs[h].todo => Cardinality(Pending') <= Cardinality(Pending)
           /\ hs[h].todo # 0 /\ r.todo = hs[h].todo - 1 =>
                 Cardinality(Pending') <= Cardinality(Pending) - 1
           /\ hs[h].todo = 0 => Cardinality(Pending') <= Cardinality(Pending) + r.todo
           /\ IsFiniteSet(Pending') /\ Cardinality(Pending') \in Nat
<1>0. /\ hs \in [Handlers -> Handler] /\ IsFiniteSet(Pending) /\ Cardinality(Pending) \in Nat
      /\ Execs \subseteq Nat
  BY ExecsOf DEF Typed, HandlersOK, Execs
<1>1. r.todo \in Nat /\ r.todo <= MaxTests /\ MaxTests \in Nat
      /\ \A g \in Handlers : hs[g].todo \in Nat
  BY <1>0, Constants DEF Handler
<1>2. \A g \in Handlers : hs'[g] = IF g = h THEN r ELSE hs[g]
  BY <1>0 DEF Moves
<1> DEFINE More == {h} \X (1..r.todo)
<1>3. IsFiniteSet(More) /\ Cardinality(More) = r.todo
  <2>1. IsFiniteSet(1..r.todo) /\ Cardinality(1..r.todo) = r.todo
    <3>1. PICK n \in Nat : n = r.todo
      BY <1>1
    <3>2. IsFiniteSet(1..n) /\ Cardinality(1..n) = IF 1 > n THEN 0 ELSE n - 1 + 1
      BY FS_Interval
    <3> QED
      BY <3>1, <3>2
  <2>2. IsFiniteSet({h}) /\ Cardinality({h}) = 1
    BY FS_Singleton
  <2>3. PICK G : G = {h}
    OBVIOUS
  <2>4. PICK T : T = 1..r.todo
    OBVIOUS
  <2>5. IsFiniteSet(G) /\ IsFiniteSet(T) /\ Cardinality(G) = 1 /\ Cardinality(T) = r.todo
    BY <2>1, <2>2, <2>3, <2>4
  <2>6. IsFiniteSet(G \X T) /\ Cardinality(G \X T) = Cardinality(G) * Cardinality(T)
    BY <2>5, FS_Product
  <2>7. More = G \X T
    BY <2>3, <2>4
  <2>8. IsFiniteSet(More) /\ Cardinality(More) = 1 * r.todo
    BY <2>5, <2>6, <2>7
  <2> QED
    BY <1>1, <2>8
<1>4. Pending' \subseteq Pending \cup More
  <2>1. ASSUME NEW p \in Pending' PROVE p \in Pending \cup More
    <3>1. p \in Handlers \X Execs /\ p[2] <= hs'[p[1]].todo
      BY <2>1 DEF Pending
    <3>2. CASE p[1] = h
      <4>1. p[2] \in 1..r.todo
        BY <1>1, <1>2, <3>1, <3>2 DEF Execs
      <4> QED
        BY <3>1, <3>2, <4>1
    <3>3. CASE p[1] # h
      BY <1>2, <3>1, <3>3 DEF Pending
    <3> QED
      BY <3>2, <3>3
  <2> QED
    BY <2>1
<1>5. /\ IsFiniteSet(Pending \cup More)
      /\ Cardinality(Pending \cup More) <= Cardinality(Pending) + r.todo
  <2>1. IsFiniteSet(Pending \cap More) /\ Cardinality(Pending \cap More) \in Nat
    BY <1>0, FS_Subset, FS_CardinalityType
  <2>2. /\ IsFiniteSet(Pending \cup More)
        /\ Cardinality(Pending \cup More)
             = Cardinality(Pending) + Cardinality(More) - Cardinality(Pending \cap More)
    BY <1>0, <1>3, FS_Union
  <2> HIDE DEF More
  <2>3. Cardinality(Pending \cup More) \in Nat
    BY <2>2, FS_CardinalityType
  <2> QED
    BY <1>0, <1>1, <1>3, <2>1, <2>2, <2>3
<1>6. /\ IsFiniteSet(Pending') /\ Cardinality(Pending') \in Nat
      /\ Cardinality(Pending') <= Cardinality(Pending \cup More)
  <2> HIDE DEF More
  <2> QED
    BY <1>4, <1>5, FS_Subset, FS_CardinalityType
<1>7. Cardinality(Pending') <= Cardinality(Pending) + r.todo
  <2> HIDE DEF More
  <2>1. Cardinality(Pending \cup More) \in Nat
    BY <1>5, FS_CardinalityType
  <2> QED
    BY <1>0, <1>1, <1>5, <1>6, <2>1
<1>8. ASSUME r.todo <= hs[h].todo PROVE Pending' \subseteq Pending
  <2>1. \A g \in Handlers : hs'[g].todo <= hs[g].todo /\ hs'[g].todo \in Nat
    BY <1>1, <1>2, <1>8
  <2> QED
    <3>1. ASSUME NEW p \in Pending' PROVE p \in Pending
      <4>1. p \in Handlers \X Execs /\ p[2] <= hs'[p[1]].todo /\ p[2] \in Nat
        BY <1>0, <3>1 DEF Pending
      <4>2. p[2] <= hs[p[1]].todo
        BY <1>1, <2>1, <4>1
      <4> QED
        BY <4>1, <4>2 DEF Pending
    <3> QED
      BY <3>1
<1>9. r.todo <= hs[h].todo => Cardinality(Pending') <= Cardinality(Pending)
  BY <1>0, <1>8, FS_Subset
<1>10. ASSUME hs[h].todo # 0, r.todo = hs[h].todo - 1
       PROVE  Cardinality(Pending') <= Cardinality(Pending) - 1
  <2>1. <<h, hs[h].todo>> \in Pending /\ <<h, hs[h].todo>> \notin Pending'
    BY <1>1, <1>2, <1>10, SendingRoom DEF Pending
  <2>2. Pending' \subseteq Pending \ {<<h, hs[h].todo>>}
    BY <1>1, <1>8, <1>10, <2>1
  <2>3. /\ IsFiniteSet(Pending \ {<<h, hs[h].todo>>})
        /\ Cardinality(Pending \ {<<h, hs[h].todo>>}) = Cardinality(Pending) - 1
    BY <1>0, <2>1, FS_RemoveElement
  <2> QED
    BY <2>2, <2>3, FS_Subset
<1> QED
  BY <1>6, <1>7, <1>9, <1>10

-----------------------------------------------------------------------------
LEMMA Product ==
    ASSUME NEW l \in Nat, NEW c \in Nat, NEW n \in Nat \ {0}, NEW max \in Nat, NEW k \in 0..n,
           NEW m \in Nat, l + c <= max, m <= l * n + c + k
    PROVE  m \in 0..(max + 1) * n
<1>1. c <= c * n
  OBVIOUS
<1>2. l * n + c * n = (l + c) * n /\ (max + 1) * n = max * n + n
  OBVIOUS
<1>3. (l + c) * n <= max * n
  <2>1. PICK d \in Nat : max = l + c + d
    <3>1. max - (l + c) \in Nat /\ max = l + c + (max - (l + c))
      OBVIOUS
    <3> QED
      BY <3>1
  <2>2. max * n = (l + c) * n + d * n /\ d * n >= 0
    BY <2>1
  <2> QED
    BY <2>2
<1>4. l * n \in Nat /\ c * n \in Nat /\ (max + 1) * n \in Nat /\ max * n \in Nat
      /\ (l + c) * n \in Nat
  OBVIOUS
<1>5. m <= max * n + n
  BY <1>1, <1>2, <1>3, <1>4
<1> QED
  BY <1>2, <1>4, <1>5

LEMMA AddedType ==
    ASSUME Typed
    PROVE  /\ IsFiniteSet(seen \cup (Triggers \ present))
           /\ Cardinality(seen \cup (Triggers \ present)) \in 0..Cardinality(Triggers)
           /\ IsFiniteSet(Triggers \ present) /\ Cardinality(Triggers \ present) \in Nat
<1>1. seen \cup (Triggers \ present) \in SUBSET Triggers /\ Triggers \ present \in SUBSET Triggers
  BY DEF Typed, ProcessOK
<1> QED
  BY <1>1, Constants, FS_Subset, FS_CardinalityType

(* A new status or testTrigger has a number.                                *)
LEMMA MadeType ==
    ASSUME Typed, NEW t \in Triggers, made' \in Nat, losses' \in Nat, changes' \in Nat,
           losses' + changes' <= MaxTrouble, NEW k \in 0..Cardinality(Triggers),
           made' <= losses' * Cardinality(Triggers) + changes' + k
    PROVE  made' \in Versions
<1>1. Cardinality(Triggers) # 0
  BY Constants, FS_EmptySet
<1> QED
  BY <1>1, Constants, Product DEF Versions

-----------------------------------------------------------------------------
(* One step keeps the types.                                                *)
LEMMA FewerPending ==
    ASSUME Typed, NEW h \in Handlers, NEW r \in Handler, Moves(h, r), r.todo <= hs[h].todo,
           exec' = exec \/ Len(exec') = Len(exec), selected' = selected
    PROVE  Sent'
<1>1. Cardinality(Pending') <= Cardinality(Pending) /\ Cardinality(Pending') \in Nat
  BY PendingMoves
<1>2. Len(exec') = Len(exec) /\ selected \in Nat
  BY DEF Typed, CountsOK
<1> QED
  BY <1>1, <1>2, ExecsOf DEF Typed, Sent

LEMMA HostStep ==
    ASSUME Typed, NEW h \in Handlers, MatchProbes(h) \/ UNCHANGED host
    PROVE  host' \in [Versions -> Sources \cup {None}]
<1>1. hs[h].src \in Sources \cup {None}
  BY DEF Typed, HandlersOK, Handler
<1> QED
  BY <1>1 DEF Typed, ListsOK, MatchProbes

LEMMA LocalTyped ==
    ASSUME Typed, NEW h \in Handlers, Local(h) PROVE Typed'
<1>1. Stays /\ UNCHANGED <<ids, store>> /\ (Fault \/ UNCHANGED faults)
      /\ (MatchProbes(h) \/ UNCHANGED host)
  BY DEF Local, Pick, Finish, MatchProbes, WaitFails, Forbid, Replace, Permit, AbortSkip,
         AbortDone, ExecuteFails, Started, store
<1>2. PICK r \in Handler : Placed(r) /\ Moves(h, r) /\ r.todo = 0
  BY LocalMoves
<1>3. hs[h].todo \in Nat /\ HandlersOK
  BY Constants DEF Typed, HandlersOK, Handler
<1>4. HandlersOK'
  BY <1>2, <1>3, MovesOK
<1>5. Sent'
  <2>1. r.todo <= hs[h].todo /\ exec' = exec /\ selected' = selected
    BY <1>1, <1>2, <1>3 DEF store, Stays
  <2> QED
    BY <1>2, <2>1, FewerPending
<1>6. ListsOK' /\ StoreOK'
  <2>1. host' \in [Versions -> Sources \cup {None}]
    BY <1>1, HostStep
  <2> QED
    BY <1>1, <2>1 DEF Typed, ListsOK, StoreOK, store
<1>7. ClusterOK' /\ ProcessOK' /\ NumbersOK' /\ made' \in Versions /\ (made <= Adding)'
  BY <1>1 DEF Typed, Stays, cluster, process, ClusterOK, ProcessOK, NumbersOK, Adding, Added
<1>8. CountsOK'
  BY <1>1, Constants DEF Typed, Stays, CountsOK, Fault, Room
<1> QED
  BY <1>4, <1>5, <1>6, <1>7, <1>8 DEF Typed

LEMMA SendingTyped ==
    ASSUME Typed, NEW h \in Handlers, Sending(h) PROVE Typed'
<1>2. PICK r \in Handler : Placed(r) /\ Moves(h, r) /\ hs[h].todo > 0 /\ r.todo = hs[h].todo - 1
  BY SendingMoves
<1>3. hs[h] \in Handler /\ Placed(hs[h]) /\ HandlersOK /\ hs[h].pc = "run"
  BY DEF Typed, HandlersOK, Sending, Request, Refuse
<1>4. HandlersOK'
  BY <1>2, <1>3, MovesOK
<1>5. hs[h].todo # 0 /\ hs[h].todo \in 0..MaxTests /\ hs[h].trig \in Triggers
      /\ hs[h].round \in 1..MaxEvents
  BY <1>2, <1>3, Constants DEF Handler, Placed, Busy
<1>6. /\ exec \in Seq(Execution) /\ home \in Seq(Versions) /\ Len(exec) \in Nat
      /\ Cardinality(Pending') <= Cardinality(Pending) - 1
      /\ Cardinality(Pending') \in Nat /\ selected \in 0..MaxTests
  BY <1>2, <1>5, PendingMoves, ExecsOf DEF Typed, StoreOK, CountsOK
<1>7. UNCHANGED <<cluster, process, memory, selected, events, losses, changes, crashes, deaths>>
  BY DEF Sending, Request, Refuse, Stays, memory
<1>8. StoreOK' /\ Sent'
  <2>1. CASE Request(h)
    <3>1. PICK e \in Execution : exec' = Append(exec, e)
      <4>1. [st |-> "active", trig |-> hs[h].trig, round |-> hs[h].round] \in Execution
        BY <1>5 DEF Execution
      <4> QED
        BY <2>1, <4>1 DEF Request
    <3>2. exec' \in Seq(Execution) /\ Len(exec') = Len(exec) + 1
      BY <1>6, <3>1
    <3>3. home' = Append(home, 0) /\ 0 \in Versions /\ Len(home) = Len(exec)
      BY <2>1, Constants DEF Request, Typed, StoreOK
    <3>4. home' \in Seq(Versions) /\ Len(home') = Len(home) + 1
      BY <1>6, <3>3
    <3>5. Sent'
      BY <1>6, <1>7, <3>2, ExecsOf DEF Typed, Sent
    <3> QED
      BY <3>2, <3>3, <3>4, <3>5 DEF StoreOK
  <2>2. CASE Refuse(h)
    <3>1. UNCHANGED <<exec, home>>
      BY <2>2 DEF Refuse, store
    <3>2. Sent'
      BY <1>6, <1>7, <3>1, ExecsOf DEF Typed, Sent
    <3> QED
      BY <3>1, <3>2 DEF Typed, StoreOK
  <2> QED
    BY <2>1, <2>2 DEF Sending
<1>9. CountsOK'
  <2>1. \/ UNCHANGED <<refused, faults>>
        \/ Room(1) /\ refused' = refused + 1 /\ faults' = faults
        \/ Room(2) /\ faults' = faults + 1 /\ refused' = refused
    BY DEF Sending, Request, InsertFails, Refuse, Stays, Fault
  <2> QED
    BY <1>7, <2>1, Constants DEF Typed, CountsOK, Room
<1>10. ListsOK' /\ ClusterOK' /\ ProcessOK' /\ NumbersOK' /\ made' \in Versions /\ (made <= Adding)'
  BY <1>7 DEF Typed, memory, cluster, process, ListsOK, ClusterOK, ProcessOK, NumbersOK, Adding, Added
<1> QED
  BY <1>4, <1>8, <1>9, <1>10 DEF Typed

LEMMA RemoveRest ==
    ASSUME Typed, NEW o \in Versions, NEW id, RemoveExecutionID(o, id)
    PROVE  /\ ids' = [ids EXCEPT ![o] = Rest(ids[o], id)]
           /\ ids' \in [Versions -> Seq(Ids)]
<1>1. ids' = [ids EXCEPT ![o] = Rest(ids[o], id)]
  BY DEF RemoveExecutionID, Rest
<1>2. ids \in [Versions -> Seq(Ids)] /\ ids[o] \in Seq(Ids)
  BY DEF Typed, ListsOK
<1>3. Rest(ids[o], id) \in Seq(Ids)
  BY <1>2, Removal
<1> QED
  BY <1>1, <1>2, <1>3

LEMMA Rewriting ==
    ASSUME NEW S, NEW s \in Seq(S), NEW u, u = [j \in 1..Len(s) |-> u[j]],
           \A j \in 1..Len(s) : u[j] \in S
    PROVE  u \in Seq(S) /\ Len(u) = Len(s)
<1>1. PICK n \in Nat : n = Len(s)
  OBVIOUS
<1>2. u \in [1..n -> S]
  BY <1>1
<1> QED
  BY <1>1, <1>2

Changed(u, s, i, x) == u = [s EXCEPT ![i] = x]

LEMMA Changing ==
    ASSUME NEW S, NEW s \in Seq(S), NEW i, NEW x, NEW u, Changed(u, s, i, x),
           i \in 1..Len(s) => x \in S
    PROVE  /\ u \in Seq(S) /\ Len(u) = Len(s)
           /\ \A j \in 1..Len(s) : u[j] = IF j = i THEN x ELSE s[j]
<1>1. DOMAIN s = 1..Len(s) /\ \A j \in 1..Len(s) : s[j] \in S
  OBVIOUS
<1>2. /\ u = [j \in 1..Len(s) |-> u[j]]
      /\ \A j \in 1..Len(s) : u[j] = IF j = i THEN x ELSE s[j]
  BY <1>1, Zenon DEF Changed
<1> QED
  BY <1>1, <1>2, Rewriting

LEMMA NotingTyped ==
    ASSUME Typed, NEW h \in Handlers, Noting(h) PROVE Typed'
<1>1. PICK r \in Handler : Placed(r) /\ Moves(h, r) /\ r.todo = hs[h].todo
  BY NotingMoves
<1>2. /\ hs[h] \in Handler /\ HandlersOK /\ hs[h].obj \in Versions /\ hs[h].resp # <<>>
      /\ hs[h].resp \in Seq(Ids) /\ hs[h].todo \in Nat /\ Head(hs[h].resp) \in Ids
  <2>1. hs[h] \in Handler /\ hs[h].resp \in Seq(Ids) /\ hs[h].resp # <<>>
    BY DEF Typed, HandlersOK, Handler, Noting, AbortRunning, AbortMissing, Record, Aborting
  <2> QED
    BY <2>1, Constants DEF Handler, Typed
<1>3. HandlersOK'
  BY <1>1, <1>2, MovesOK
<1>4. Stays /\ UNCHANGED <<host, faults>>
  BY DEF Noting, AbortRunning, AbortMissing, Record, store
<1>5. ids' \in [Versions -> Seq(Ids)] /\ exec' \in Seq(Execution) /\ Len(exec') = Len(exec)
      /\ home' \in Seq(Versions) /\ Len(home') = Len(home)
  <2>0. exec \in Seq(Execution) /\ home \in Seq(Versions) /\ ids \in [Versions -> Seq(Ids)]
    BY DEF Typed, StoreOK, ListsOK
  <2>1. CASE AbortRunning(h)
    <3>1. ids' \in [Versions -> Seq(Ids)]
      BY <1>2, <2>1, RemoveRest DEF AbortRunning
    <3>2. PICK id \in Ids, l \in {"asked", "ended"} : exec' = [exec EXCEPT ![id].st = l]
      BY <1>2, <2>1 DEF AbortRunning
    <3>3. Changed(exec', exec, id, [exec[id] EXCEPT !.st = l])
      BY <3>2 DEF Changed
    <3>4. exec' \in Seq(Execution) /\ Len(exec') = Len(exec)
      <4>1. id \in 1..Len(exec) => [exec[id] EXCEPT !.st = l] \in Execution
        <5>1. id \in 1..Len(exec) => exec[id] \in Execution
          BY <2>0
        <5> QED
          BY <5>1 DEF Execution
      <4> QED
        BY <2>0, <3>3, <4>1, Changing
    <3> QED
      BY <2>0, <2>1, <3>1, <3>4 DEF AbortRunning
  <2>2. CASE AbortMissing(h)
    <3>1. ids' \in [Versions -> Seq(Ids)]
      BY <1>2, <2>2, RemoveRest DEF AbortMissing
    <3> QED
      BY <2>0, <2>2, <3>1 DEF AbortMissing, store
  <2>3. CASE Record(h)
    <3>1. Append(ids[hs[h].obj], Head(hs[h].resp)) \in Seq(Ids)
      BY <1>2, <2>0
    <3>2. ids' \in [Versions -> Seq(Ids)]
      BY <1>2, <2>0, <2>3, <3>1 DEF Record
    <3>3. home' = home \/ home' = [home EXCEPT ![Head(hs[h].resp)] = hs[h].obj]
      BY <2>3 DEF Record
    <3>4. home' \in Seq(Versions) /\ Len(home') = Len(home)
      <4>1. ASSUME home' = [home EXCEPT ![Head(hs[h].resp)] = hs[h].obj]
            PROVE  home' \in Seq(Versions) /\ Len(home') = Len(home)
        <5>1. Changed(home', home, Head(hs[h].resp), hs[h].obj)
          BY <4>1 DEF Changed
        <5> QED
          BY <1>2, <2>0, <5>1, Changing
      <4> QED
        BY <2>0, <3>3, <4>1
    <3> QED
      BY <2>0, <2>3, <3>2, <3>4 DEF Record
  <2> QED
    BY <2>1, <2>2, <2>3 DEF Noting
<1>6. Sent'
  <2>1. r.todo <= hs[h].todo /\ selected' = selected
    BY <1>1, <1>2, <1>4 DEF Stays
  <2> QED
    BY <1>1, <1>5, <2>1, FewerPending
<1>7. ListsOK' /\ StoreOK'
  BY <1>4, <1>5 DEF Typed, ListsOK, StoreOK
<1>8. ClusterOK' /\ ProcessOK' /\ NumbersOK' /\ made' \in Versions /\ (made <= Adding)' /\ CountsOK'
  BY <1>4 DEF Typed, Stays, cluster, process, ClusterOK, ProcessOK, NumbersOK, Adding, Added, CountsOK
<1> QED
  BY <1>3, <1>6, <1>7, <1>8 DEF Typed

LEMMA ExecuteTyped ==
    ASSUME Typed, NEW h \in Handlers, Execute(h) PROVE Typed'
<1>1. PICK r \in Handler : Placed(r) /\ Moves(h, r) /\ selected' = selected + r.todo
                           /\ selected' \in 0..MaxTests
  BY ExecuteMoves
<1>2. hs[h].todo = 0 /\ HandlersOK /\ UNCHANGED <<exec, home>>
  BY ExecuteMoves DEF Typed, Execute, store
<1>3. HandlersOK'
  BY <1>1, <1>2, MovesOK
<1>4. Cardinality(Pending') <= Cardinality(Pending) + r.todo /\ Cardinality(Pending') \in Nat
  BY <1>1, <1>2, PendingMoves
<1>5. Sent'
  <2>1. r.todo \in Nat /\ selected \in Nat
    BY Constants DEF Handler, Typed, CountsOK
  <2> QED
    BY <1>1, <1>2, <1>4, <2>1, ExecsOf DEF Typed, Sent
<1>6. UNCHANGED <<cluster, process, memory, store, events, refused, faults, losses, changes, crashes, deaths>>
  BY DEF Execute
<1>7. CountsOK'
  BY <1>1, <1>6 DEF Typed, CountsOK
<1>8. ClusterOK' /\ ProcessOK' /\ NumbersOK' /\ made' \in Versions /\ (made <= Adding)' /\ ListsOK'
      /\ StoreOK'
  BY <1>6 DEF Typed, memory, store, cluster, process, ClusterOK, ProcessOK, NumbersOK, Adding, Added,
              ListsOK, StoreOK
<1> QED
  BY <1>3, <1>5, <1>7, <1>8 DEF Typed

LEMMA EventTyped ==
    ASSUME Typed, NEW h \in Handlers, NEW s \in Sources, Event(h, s) PROVE Typed'
<1>1. PICK r \in Handler : Placed(r) /\ Moves(h, r) /\ r.todo = 0
  BY EventMoves
<1>2. hs[h].todo \in Nat /\ HandlersOK /\ UNCHANGED <<exec, home>> /\ selected' = selected
  BY Constants DEF Typed, HandlersOK, Handler, Event, store
<1>3. HandlersOK'
  BY <1>1, <1>2, MovesOK
<1>4. Sent'
  BY <1>1, <1>2, FewerPending
<1>5. UNCHANGED <<cluster, process, memory, store, selected, refused, faults, losses, changes, crashes, deaths>>
  BY DEF Event
<1>6. CountsOK'
  BY <1>5, Constants DEF Typed, CountsOK, Event
<1>7. ClusterOK' /\ ProcessOK' /\ NumbersOK' /\ made' \in Versions /\ (made <= Adding)' /\ ListsOK'
      /\ StoreOK'
  BY <1>5 DEF Typed, memory, store, cluster, process, ClusterOK, ProcessOK, NumbersOK, Adding, Added,
              ListsOK, StoreOK
<1> QED
  BY <1>3, <1>4, <1>6, <1>7 DEF Typed

-----------------------------------------------------------------------------
(* What every step but those of the handlers leaves of the requests.        *)
LEMMA SamePending ==
    ASSUME Typed, selected' = selected, Len(exec') = Len(exec),
           \A h \in Handlers : hs'[h].todo <= hs[h].todo /\ hs'[h].todo \in Nat
    PROVE  Sent'
<1>1. \A h \in Handlers : hs[h].todo \in Nat
  BY Constants DEF Typed, HandlersOK, Handler
<1>2. Pending' \subseteq Pending
  <2>1. ASSUME NEW p \in Pending' PROVE p \in Pending
    <3>1. p \in Handlers \X Execs /\ p[2] <= hs'[p[1]].todo /\ p[2] \in Nat
      BY <2>1, Constants DEF Pending, Execs
    <3>2. p[2] <= hs[p[1]].todo
      BY <1>1, <3>1
    <3> QED
      BY <3>1, <3>2 DEF Pending
  <2> QED
    BY <2>1
<1>3. Cardinality(Pending') <= Cardinality(Pending) /\ Cardinality(Pending') \in Nat
  BY <1>2, ExecsOf, FS_Subset, FS_CardinalityType
<1>4. selected \in Nat
  BY DEF Typed, CountsOK
<1> QED
  BY <1>3, <1>4, ExecsOf DEF Typed, Sent

LEMMA AddingType ==
    ASSUME Typed
    PROVE  /\ losses * Cardinality(Triggers) \in Nat /\ changes \in Nat /\ losses \in Nat
           /\ Adding \in Nat
<1>1. losses \in Nat /\ changes \in Nat
  BY DEF Typed, CountsOK
<1>2. losses * Cardinality(Triggers) \in Nat
  BY <1>1, Constants
<1> QED
  BY <1>1, <1>2, AddedType DEF Adding, Added

(* A panic or a crash.                                                      *)
LEMMA ForgetTyped ==
    ASSUME Typed, Forget, UNCHANGED <<cluster, store, events, selected, refused, faults, losses, changes>>,
           {crashes', deaths'} \subseteq Nat,
           refused + 2 * (faults + losses + changes + crashes') <= MaxTrouble
    PROVE  Typed'
<1>1. HandlersOK' /\ \A h \in Handlers : hs'[h].todo = 0
  BY IdleHandler DEF Forget, HandlersOK
<1>2. Sent'
  <2>1. \A h \in Handlers : hs[h].todo \in Nat
    BY Constants DEF Typed, HandlersOK, Handler
  <2> QED
    BY <1>1, <2>1, SamePending DEF store
<1>3. ClusterOK' /\ StoreOK' /\ CountsOK'
  BY DEF Typed, cluster, store, ClusterOK, StoreOK, CountsOK
<1>4. ProcessOK' /\ NumbersOK' /\ made' \in Versions
  BY Constants DEF Forget, ProcessOK, NumbersOK
<1>5. ListsOK'
  <2>1. <<>> \in Seq(Ids)
    OBVIOUS
  <2> QED
    BY <2>1 DEF Forget, ListsOK
<1>6. (made <= Adding)'
  BY AddingType DEF Forget, Adding, Added
<1> QED
  BY <1>1, <1>2, <1>3, <1>4, <1>5, <1>6 DEF Typed

LEMMA PanicTyped == ASSUME Typed, Panic \/ Crash PROVE Typed'
<1>1. CountsOK
  BY DEF Typed
<1>2. {crashes', deaths'} \subseteq Nat
      /\ refused + 2 * (faults + losses + changes + crashes') <= MaxTrouble
  BY <1>1, Constants DEF CountsOK, Panic, Crash, Room
<1> QED
  BY <1>2, ForgetTyped DEF Panic, Crash

(* The process, its lease.                                                  *)
LEMMA ProcessTyped == ASSUME Typed, Restart \/ Lead \/ LoseLease PROVE Typed'
<1>1. UNCHANGED <<cluster, memory, store, events, selected, refused, faults, changes, crashes, deaths>>
  BY DEF Restart, Lead, LoseLease, budget
<1>2. ClusterOK' /\ NumbersOK' /\ made' \in Versions /\ ListsOK' /\ StoreOK'
  BY <1>1 DEF Typed, cluster, memory, store, ClusterOK, NumbersOK, ListsOK, StoreOK
<1>3. ProcessOK'
  BY DEF Typed, ProcessOK, Restart, Lead, LoseLease
<1>4. CountsOK'
  BY <1>1, Constants DEF Typed, CountsOK, Restart, Lead, LoseLease, budget, Room
<1>5. HandlersOK' /\ \A h \in Handlers : hs'[h].todo = hs[h].todo
  <2>1. CASE LoseLease
    <3>1. \A h \in Handlers : hs'[h] = [hs[h] EXCEPT !.old = hs[h].pc # "idle"]
      BY <2>1 DEF LoseLease
    <3>3. ASSUME NEW h \in Handlers
          PROVE  hs'[h] \in Handler /\ Placed(hs'[h]) /\ hs'[h].todo = hs[h].todo
      <4>1. PICK b \in BOOLEAN : b = (hs[h].pc # "idle")
        OBVIOUS
      <4>2. hs'[h] = [hs[h] EXCEPT !.old = b]
        BY <3>1, <4>1
      <4> QED
        BY <4>2 DEF Typed, HandlersOK, Handler, Placed, Busy
    <3> QED
      BY <2>1, <3>3 DEF LoseLease, HandlersOK
  <2>2. CASE UNCHANGED hs
    BY <2>2 DEF Typed, HandlersOK
  <2> QED
    BY <2>1, <2>2 DEF Restart, Lead
<1>6. Sent'
  <2>1. \A h \in Handlers : hs[h].todo \in Nat
    BY Constants DEF Typed, HandlersOK, Handler
  <2> QED
    BY <1>1, <1>5, <2>1, SamePending DEF store
<1>7. (made <= Adding)'
  <2>1. made' = made /\ changes' = changes /\ made <= Adding /\ made \in Nat /\ present' = present
    BY <1>1, Constants DEF Typed, memory, cluster
  <2>2. CASE Restart
    BY <2>1, <2>2 DEF Restart, Adding, Added, budget
  <2>3. CASE Lead
    <3>1. Adding' >= Adding
      <4>1. Cardinality(seen' \cup (Triggers \ present')) \in Nat
        BY <2>1, <2>3, AddedType DEF Lead
      <4> QED
        BY <2>3, <4>1, AddingType DEF Lead, Adding, Added, budget
    <3>2. Adding' \in Nat
      <4>1. Cardinality(seen' \cup (Triggers \ present')) \in Nat
        BY <2>1, <2>3, AddedType DEF Lead
      <4> QED
        BY <2>1, <2>3, <4>1, AddingType DEF Lead, Adding, Added, budget
    <3> QED
      BY <2>1, <3>1, <3>2, AddingType
  <2>4. CASE LoseLease
    <3>2. losses' = losses + 1
      BY <2>4 DEF LoseLease
    <3>3. losses' * Cardinality(Triggers) = losses * Cardinality(Triggers) + Cardinality(Triggers)
      BY <3>2, AddingType, Constants
    <3>1. Adding' = losses' * Cardinality(Triggers) + changes
      <4>1. Adding' = losses' * Cardinality(Triggers) + changes' + 0
        BY <2>4 DEF LoseLease, Adding, Added
      <4> QED
        BY <2>1, <3>3, <4>1, AddingType, Constants
    <3>4. Adding <= losses * Cardinality(Triggers) + changes + Cardinality(Triggers)
      BY AddingType, AddedType, Constants DEF Adding, Added
    <3> QED
      BY <2>1, <3>1, <3>3, <3>4, AddingType, Constants
  <2> QED
    BY <2>2, <2>3, <2>4
<1> QED
  BY <1>2, <1>3, <1>4, <1>5, <1>6, <1>7 DEF Typed

(* An execution ends; the scraper.                                          *)
LEMMA EndTyped == ASSUME Typed, NEW e \in Execs, End(e) PROVE Typed'
<1>1. UNCHANGED <<cluster, process, memory, hs, home, budget>>
  BY DEF End
<1>2. exec' \in Seq(Execution) /\ Len(exec') = Len(exec)
  <2>1. exec \in Seq(Execution) /\ e \in 1..Len(exec)
    BY ExecsOf DEF Typed, StoreOK, End
  <2>2. [exec[e] EXCEPT !.st = "ended"] \in Execution
    <3>1. exec[e] \in Execution
      BY <2>1
    <3> QED
      BY <3>1 DEF Execution
  <2>3. Changed(exec', exec, e, [exec[e] EXCEPT !.st = "ended"])
    BY DEF Changed, End
  <2> QED
    BY <2>1, <2>2, <2>3, Changing
<1>3. Sent'
  <2>1. \A h \in Handlers : hs[h].todo \in Nat
    BY Constants DEF Typed, HandlersOK, Handler
  <2> QED
    BY <1>1, <1>2, <2>1, SamePending DEF budget
<1>4. StoreOK'
  BY <1>1, <1>2 DEF Typed, StoreOK
<1>5. ClusterOK' /\ ProcessOK' /\ NumbersOK' /\ made' \in Versions /\ ListsOK' /\ HandlersOK'
      /\ CountsOK' /\ (made <= Adding)'
  BY <1>1 DEF Typed, memory, cluster, process, budget, ClusterOK, ProcessOK, NumbersOK, Adding, Added,
              ListsOK, HandlersOK, CountsOK
<1> QED
  BY <1>3, <1>4, <1>5 DEF Typed

LEMMA ScrapeTyped ==
    ASSUME Typed, NEW t \in Triggers, NEW id \in Ids, Scrape(t, id) PROVE Typed'
<1>1. CASE Panic
  BY <1>1, PanicTyped
<1>2. CASE RemoveExecutionID(status[t], id)
           /\ UNCHANGED <<cluster, process, status, spec, host, made, hs, store, budget>>
  <2>0. status[t] \in Versions
    BY Constants DEF Typed, NumbersOK
  <2>1. ids' \in [Versions -> Seq(Ids)]
    BY <1>2, <2>0, RemoveRest
  <2>2. \A h \in Handlers : hs[h].todo \in Nat
    BY Constants DEF Typed, HandlersOK, Handler
  <2>3. Sent'
    BY <1>2, <2>2, SamePending DEF store, budget
  <2>4. ListsOK'
    BY <1>2, <2>1 DEF Typed, ListsOK
  <2>5. ClusterOK' /\ ProcessOK' /\ NumbersOK' /\ made' \in Versions /\ StoreOK' /\ HandlersOK'
        /\ CountsOK' /\ (made <= Adding)'
    BY <1>2 DEF Typed, cluster, process, store, budget, ClusterOK, ProcessOK, NumbersOK, Adding, Added,
              StoreOK, HandlersOK, CountsOK
  <2> QED
    BY <2>3, <2>4, <2>5 DEF Typed
<1> QED
  BY <1>1, <1>2 DEF Scrape

-----------------------------------------------------------------------------
(* The triggers come, change and go.                                        *)
LEMMA NumberStep ==
    ASSUME Typed, NEW t \in Triggers, made' = made + 1, \/ status' = [status EXCEPT ![t] = made']
                                                        \/ status' = status,
           spec' = [spec EXCEPT ![t] = made']
    PROVE  NumbersOK'
<1>1. made \in Nat /\ made' \in Nat /\ 0..made \subseteq 0..made' /\ made' \in 0..made'
  BY DEF Typed, NumbersOK
<1>2. status \in [Triggers -> 0..made'] /\ spec \in [Triggers -> 0..made']
  BY <1>1 DEF Typed, NumbersOK
<1> QED
  BY <1>1, <1>2 DEF NumbersOK

LEMMA TriggerTyped ==
    ASSUME Typed, NEW t \in Triggers,
           AddTrigger(t) \/ UpdateTrigger(t) \/ DeleteTrigger(t) \/ RemoveTrigger(t)
    PROVE  Typed'
<1>1. UNCHANGED <<policy, suites, watch, up, leading, ids, host, hs, store, events, selected,
                  refused, faults, losses, crashes, deaths>>
  BY DEF AddTrigger, UpdateTrigger, DeleteTrigger, RemoveTrigger, cluster, process, memory, store,
         budget
<1>2. Sent'
  <2>1. \A h \in Handlers : hs[h].todo \in Nat
    BY Constants DEF Typed, HandlersOK, Handler
  <2> QED
    BY <1>1, <2>1, SamePending DEF store
<1>3. StoreOK' /\ HandlersOK' /\ ListsOK'
  BY <1>1 DEF Typed, store, StoreOK, HandlersOK, ListsOK
<1>4. ClusterOK' /\ ProcessOK'
  BY <1>1 DEF Typed, ClusterOK, ProcessOK, AddTrigger, UpdateTrigger, DeleteTrigger, RemoveTrigger,
              cluster, process
<1>5. CountsOK'
  <2>1. changes' = changes \/ (Room(2) /\ changes' = changes + 1)
    BY DEF AddTrigger, UpdateTrigger, DeleteTrigger, RemoveTrigger, budget
  <2> QED
    BY <1>1, <2>1, Constants DEF Typed, CountsOK, Room
<1>6. /\ changes \in Nat /\ losses \in Nat /\ losses * Cardinality(Triggers) \in Nat
      /\ IsFiniteSet(Added) /\ Cardinality(Added) \in 0..Cardinality(Triggers)
      /\ Adding = losses * Cardinality(Triggers) + changes
                    + IF leading THEN Cardinality(Added) ELSE 0
      /\ Cardinality(Triggers) \in Nat /\ made <= Adding /\ made \in Nat
  BY AddingType, AddedType, Constants DEF Adding, Added, Typed
<1>7. Added' \subseteq Triggers
  BY <1>4 DEF ProcessOK, Added
<1>8. IsFiniteSet(Added') /\ Cardinality(Added') \in 0..Cardinality(Triggers)
  BY <1>7, Constants, FS_Subset, FS_CardinalityType
<1>9. Adding' = losses * Cardinality(Triggers) + changes'
                    + IF leading THEN Cardinality(Added') ELSE 0
  <2>1. Adding' = losses' * Cardinality(Triggers) + changes'
                    + IF leading' THEN Cardinality(Added') ELSE 0
    BY DEF Adding, Added
  <2> QED
    BY <1>1, <2>1
<1>10. changes' \in Nat
  BY <1>5 DEF CountsOK
<1>11. losses + changes' <= MaxTrouble /\ losses' = losses
  BY <1>1, <1>5, Constants DEF CountsOK
<1> DEFINE k == IF leading THEN Cardinality(Added') ELSE 0
<1>12. k \in 0..Cardinality(Triggers)
  BY <1>6, <1>8
<1>13. ASSUME made' \in Nat, made' <= losses * Cardinality(Triggers) + changes' + k
       PROVE  made' \in Versions /\ (made <= Adding)'
  <2>1. made' <= Adding'
    BY <1>9, <1>13
  <2>2. made' \in Versions
    <3> HIDE DEF k
    <3> QED
      BY <1>6, <1>10, <1>11, <1>12, <1>13, MadeType
  <2> QED
    BY <2>1, <2>2
<1>14. CASE AddTrigger(t)
  <2>1. Added' = Added \cup {t} /\ t \notin Added /\ leading /\ changes' = changes /\ made' = made + 1
    BY <1>14 DEF AddTrigger, Added, cluster, budget
  <2>2. Cardinality(Added') = Cardinality(Added) + 1
    BY <1>6, <2>1, FS_AddElement
  <2>3. made' \in Versions /\ (made <= Adding)'
    BY <1>6, <1>13, <2>1, <2>2
  <2>4. NumbersOK'
    BY <1>14, NumberStep DEF AddTrigger
  <2> QED
    BY <1>2, <1>3, <1>4, <1>5, <2>3, <2>4 DEF Typed
<1>15. CASE UpdateTrigger(t)
  <2>1. Added' = Added /\ changes' = changes + 1 /\ made' = made + 1
    BY <1>15 DEF UpdateTrigger, Added, cluster, process
  <2>2. made' \in Versions /\ (made <= Adding)'
    BY <1>6, <1>13, <2>1
  <2>3. NumbersOK'
    <3>1. status' = [status EXCEPT ![t] = made'] \/ status' = status
      <4>1. status \in [Triggers -> 0..made]
        BY DEF Typed, NumbersOK
      <4>2. CASE status[t] = 0
        BY <1>15, <4>1, <4>2 DEF UpdateTrigger
      <4>3. CASE status[t] # 0
        BY <1>15, <4>1, <4>3 DEF UpdateTrigger
      <4> QED
        BY <4>2, <4>3
    <3> QED
      BY <1>15, <3>1, NumberStep DEF UpdateTrigger
  <2> QED
    BY <1>2, <1>3, <1>4, <1>5, <2>2, <2>3 DEF Typed
<1>16. CASE DeleteTrigger(t)
  <2>1. Added \subseteq Added' /\ changes' = changes + 1 /\ UNCHANGED <<made, status, spec>>
    BY <1>16 DEF DeleteTrigger, Added, process, memory
  <2>2. Cardinality(Added) <= Cardinality(Added')
    BY <1>8, <2>1, FS_Subset
  <2>3. made' \in Versions /\ (made <= Adding)'
    BY <1>6, <1>8, <1>13, <2>1, <2>2
  <2>4. NumbersOK'
    BY <2>1 DEF Typed, NumbersOK
  <2> QED
    BY <1>2, <1>3, <1>4, <1>5, <2>3, <2>4 DEF Typed
<1>17. CASE RemoveTrigger(t)
  <2>1. Added' = Added /\ changes' = changes /\ made' = made
    BY <1>17 DEF RemoveTrigger, Added, cluster, budget
  <2>2. made' \in Versions /\ (made <= Adding)'
    BY <1>6, <1>13, <2>1
  <2>3. NumbersOK'
    <3>1. made \in Nat /\ status \in [Triggers -> 0..made] /\ spec \in [Triggers -> 0..made]
          /\ 0 \in 0..made
      BY DEF Typed, NumbersOK
    <3>2. \/ status' = [status EXCEPT ![t] = 0] /\ spec' = [spec EXCEPT ![t] = 0]
          \/ UNCHANGED <<status, spec>>
      BY <1>17 DEF RemoveTrigger
    <3> QED
      BY <2>1, <3>1, <3>2 DEF NumbersOK
  <2> QED
    BY <1>2, <1>3, <1>4, <1>5, <2>2, <2>3 DEF Typed
<1> QED
  BY <1>14, <1>15, <1>16, <1>17

LEMMA HandleKinds ==
    ASSUME NEW h \in Handlers, Handle(h)
    PROVE  Local(h) \/ Sending(h) \/ Noting(h) \/ Execute(h) \/ Panic
BY DEF Handle, Local, Sending, Noting, PolicyPanics, AbortPanics, RecordPanics

LEMMA TypedStep == Typed /\ [Next]_vars => Typed'
<1> SUFFICES ASSUME Typed, [Next]_vars PROVE Typed'
  OBVIOUS
<1>1. CASE Crash \/ Restart \/ Lead \/ LoseLease
  BY <1>1, PanicTyped, ProcessTyped
<1>2. ASSUME NEW t \in Triggers,
             AddTrigger(t) \/ UpdateTrigger(t) \/ DeleteTrigger(t) \/ RemoveTrigger(t)
      PROVE  Typed'
  BY <1>2, TriggerTyped
<1>3. ASSUME NEW h \in Handlers, Handle(h) PROVE Typed'
  BY <1>3, HandleKinds, LocalTyped, SendingTyped, NotingTyped, ExecuteTyped, PanicTyped
<1>4. ASSUME NEW h \in Handlers, NEW s \in Sources, Event(h, s) PROVE Typed'
  BY <1>4, EventTyped
<1>5. ASSUME NEW e \in Execs, End(e) PROVE Typed'
  BY <1>5, EndTyped
<1>6. ASSUME NEW t \in Triggers, NEW id \in Ids, Scrape(t, id) PROVE Typed'
  BY <1>6, ScrapeTyped
<1>7. CASE UNCHANGED vars
  BY <1>7 DEF vars, cluster, process, memory, store, budget, Typed, ClusterOK, ProcessOK, NumbersOK,
              ListsOK, HandlersOK, StoreOK, CountsOK, Adding, Added, Sent, Pending
<1> QED
  BY <1>1, <1>2, <1>3, <1>4, <1>5, <1>6, <1>7 DEF Next

LEMMA TypedInit == Init => Typed
<1> SUFFICES ASSUME Init PROVE Typed
  OBVIOUS
<1>1. ClusterOK
  <2>1. PICK c \in Cases : policy = c.policy /\ suites = c.suites /\ watch = c.watch
    BY DEF Init
  <2>2. c = [policy |-> c.policy, suites |-> c.suites, watch |-> c.watch]
    BY NamesAssumption
  <2> QED
    BY <2>1, <2>2 DEF Init, ClusterOK
<1>2. NumbersOK /\ made \in Versions /\ ProcessOK
  <2>1. made \in Nat /\ 0 \in 0..made /\ made \in Versions
    BY Constants DEF Init
  <2>2. NumbersOK
    BY <2>1 DEF Init, NumbersOK
  <2> QED
    BY <2>1, <2>2 DEF Init, ProcessOK
<1>3. ListsOK
  <2>1. <<>> \in Seq(Ids)
    OBVIOUS
  <2> QED
    BY <2>1 DEF Init, ListsOK
<1>4. HandlersOK /\ \A h \in Handlers : hs[h].todo = 0
  BY IdleHandler DEF Init, HandlersOK
<1>5. StoreOK
  <2>1. <<>> \in Seq(Execution) /\ <<>> \in Seq(Versions)
    OBVIOUS
  <2> QED
    BY <2>1 DEF Init, StoreOK
<1>6. CountsOK
  BY Constants DEF Init, CountsOK
<1>7. made <= Adding
  BY Constants DEF Init, Adding, Added
<1>8. Sent
  <2>1. Pending = {}
    BY <1>4, Constants DEF Pending, Execs
  <2> QED
    BY <2>1, FS_EmptySet DEF Init, Sent
<1> QED
  BY <1>1, <1>2, <1>3, <1>4, <1>5, <1>6, <1>7, <1>8 DEF Typed

-----------------------------------------------------------------------------
(* As long as the process lives, what runs, was recorded and is found in the*)
(* database is in the list of the status that recorded it, whether a trigger*)
(* has this status or not.                                                  *)
Remembered ==
    crashes + deaths = 0 =>
        \A e \in DOMAIN exec \ hidden :
            home[e] # 0 /\ exec[e].st = "active" => In(e, ids[home[e]])

LEMMA RemoveKeeps ==
    ASSUME Typed, NEW o \in Versions, NEW id, RemoveExecutionID(o, id), NEW v \in Versions
    PROVE  /\ \A x : x # id /\ In(x, ids[v]) => In(x, ids'[v])
           /\ \A x : In(x, ids'[v]) => In(x, ids[v])
           /\ Once(ids[v]) => Once(ids'[v])
<1>1. ids[v] \in Seq(Ids) /\ ids \in [Versions -> Seq(Ids)]
  BY DEF Typed, ListsOK
<1>2. ids'[v] = IF v = o THEN Rest(ids[v], id) ELSE ids[v]
  BY <1>1, RemoveRest
<1>3. /\ \A x : x # id /\ In(x, ids[v]) => In(x, Rest(ids[v], id))
      /\ \A x : In(x, Rest(ids[v], id)) => In(x, ids[v])
      /\ Once(ids[v]) => Once(Rest(ids[v], id))
  BY <1>1, Removal
<1> QED
  BY <1>2, <1>3

LEMMA AppendIn ==
    ASSUME NEW S, NEW s \in Seq(S), NEW x \in S
    PROVE  \A y : In(y, Append(s, x)) <=> y = x \/ In(y, s)
<1>1. PICK n \in Nat : n = Len(s)
  OBVIOUS
<1>2. PICK u : u = Append(s, x)
  OBVIOUS
<1>3. DOMAIN s = 1..n /\ DOMAIN u = 1..(n + 1) /\ u[n + 1] = x /\ n + 1 \in 1..(n + 1)
      /\ \A j \in 1..n : u[j] = s[j] /\ j \in 1..(n + 1)
  BY <1>1, <1>2
<1>4. \A j \in 1..(n + 1) : j = n + 1 \/ j \in 1..n
  OBVIOUS
<1>5. \A y : In(y, u) <=> y = x \/ In(y, s)
  BY <1>3, <1>4 DEF In
<1> QED
  BY <1>2, <1>5

(* A step that leaves the executions and the lists alone.                   *)
LEMMA NotRunning ==
    ASSUME Typed, NEW h \in Handlers, NEW s, NEW t,
           \/ Local(h) \/ Execute(h) \/ Event(h, s)
           \/ Restart \/ Lead \/ LoseLease \/ AddTrigger(t) \/ UpdateTrigger(t)
           \/ DeleteTrigger(t) \/ RemoveTrigger(t)
    PROVE  UNCHANGED <<exec, home, hidden, ids, crashes, deaths, refused>>
BY DEF Local, Pick, Finish, MatchProbes, WaitFails, Forbid, Replace, Permit, AbortSkip, Stays,
       AbortDone, ExecuteFails, Started, Execute, Event, Restart, Lead, LoseLease, AddTrigger,
       UpdateTrigger, DeleteTrigger, RemoveTrigger, store, memory, budget

LEMMA RememberedSame ==
    ASSUME Typed, Remembered, UNCHANGED <<exec, home, ids, crashes, deaths>>, hidden \subseteq hidden'
    PROVE  Remembered'
BY DEF Remembered

LEMMA PanicForgets ==
    ASSUME Typed, Panic \/ Crash PROVE crashes' + deaths' # 0
BY DEF Panic, Crash, Typed, CountsOK


LEMMA TailIn ==
    ASSUME NEW S, NEW s \in Seq(S), s # <<>>
    PROVE  /\ \A y : In(y, s) <=> y = Head(s) \/ In(y, Tail(s))
           /\ Once(s) => Once(Tail(s)) /\ ~In(Head(s), Tail(s))
<1>1. PICK n \in Nat : n = Len(s) /\ n # 0
  OBVIOUS
<1>2. PICK u, x : u = Tail(s) /\ x = Head(s)
  OBVIOUS
<1>3. /\ DOMAIN s = 1..n /\ DOMAIN u = 1..(n - 1) /\ s[1] = x /\ 1 \in 1..n
      /\ \A j \in 1..(n - 1) : u[j] = s[j + 1] /\ j + 1 \in 1..n /\ j + 1 # 1
  BY <1>1, <1>2
<1>4. \A j \in 1..n : j = 1 \/ (j - 1 \in 1..(n - 1) /\ u[j - 1] = s[j])
  BY <1>1, <1>3
<1>5. \A y : In(y, s) <=> y = x \/ In(y, u)
  <2>1. ASSUME NEW y, In(y, s) PROVE y = x \/ In(y, u)
    <3>1. PICK j \in 1..n : s[j] = y
      BY <1>3, <2>1 DEF In
    <3>2. CASE j # 1
      <4>1. PICK k \in 1..(n - 1) : u[k] = y
        BY <1>4, <3>1, <3>2
      <4> QED
        BY <1>3, <4>1 DEF In
    <3> QED
      BY <1>3, <3>1, <3>2
  <2>2. ASSUME NEW y, y = x \/ In(y, u) PROVE In(y, s)
    BY <1>3, <2>2 DEF In
  <2> QED
    BY <2>1, <2>2
<1>6. ASSUME Once(s) PROVE Once(u) /\ ~In(x, u)
  <2>1. \A i, j \in 1..(n - 1) : u[i] = u[j] => i + 1 = j + 1
    BY <1>3, <1>6 DEF Once
  <2>2. Once(u)
    BY <1>3, <2>1 DEF Once
  <2>3. ~In(x, u)
    BY <1>3, <1>6 DEF Once, In
  <2> QED
    BY <2>2, <2>3
<1> QED
  BY <1>2, <1>5, <1>6

LEMMA AppendOnce ==
    ASSUME NEW S, NEW s \in Seq(S), NEW x \in S, Once(s), ~In(x, s)
    PROVE  Once(Append(s, x))
<1>1. PICK n \in Nat : n = Len(s)
  OBVIOUS
<1>2. PICK u : u = Append(s, x)
  OBVIOUS
<1>3. DOMAIN s = 1..n /\ DOMAIN u = 1..(n + 1) /\ u[n + 1] = x
      /\ \A j \in 1..n : u[j] = s[j]
  BY <1>1, <1>2
<1>4. \A j \in 1..(n + 1) : j = n + 1 \/ j \in 1..n
  OBVIOUS
<1>5. Once(u)
  BY <1>3, <1>4 DEF Once, In
<1> QED
  BY <1>2, <1>5

(* What the steps that touch executions and their lists do to them.         *)
Drops(id) ==
    \A v \in Versions :
        /\ \A x : x # id /\ In(x, ids[v]) => In(x, ids'[v])
        /\ \A x : In(x, ids'[v]) => In(x, ids[v])
        /\ Once(ids[v]) => Once(ids'[v])

LEMMA DropsId ==
    ASSUME Typed, NEW o \in Versions, NEW id, RemoveExecutionID(o, id) PROVE Drops(id)
BY RemoveKeeps DEF Drops

LEMMA StoreTypes ==
    ASSUME Typed
    PROVE  /\ exec \in Seq(Execution) /\ home \in Seq(Versions) /\ Len(home) = Len(exec)
           /\ ids \in [Versions -> Seq(Ids)] /\ DOMAIN exec = 1..Len(exec) /\ Len(exec) \in Nat
           /\ \A e \in DOMAIN exec : exec[e] \in Execution
BY DEF Typed, StoreOK, ListsOK

Grows(h) ==
    LET n == Len(exec) + 1 IN
    /\ DOMAIN exec' = 1..n /\ n \notin DOMAIN exec
    /\ DOMAIN exec' = DOMAIN exec \cup {n} /\ home'[n] = 0
    /\ exec'[n].st = "active" /\ exec'[n].trig = hs[h].trig /\ exec'[n].round = hs[h].round
    /\ \A e \in DOMAIN exec : exec'[e] = exec[e] /\ home'[e] = home[e]

LEMMA RequestEffect ==
    ASSUME Typed, NEW h \in Handlers, Request(h) PROVE Grows(h) /\ UNCHANGED ids
<1>1. PICK y : y = [st |-> "active", trig |-> hs[h].trig, round |-> hs[h].round]
  OBVIOUS
<1>2. exec' = Append(exec, y) /\ home' = Append(home, 0) /\ UNCHANGED ids
  BY <1>1 DEF Request
<1>3. hs[h] \in Handler /\ Placed(hs[h]) /\ hs[h].pc = "run"
  BY DEF Typed, HandlersOK, Request
<1>4. y \in Execution
  BY <1>1, <1>3, Constants DEF Handler, Placed, Busy, Execution
<1>5. /\ DOMAIN exec' = 1..(Len(exec) + 1) /\ exec'[Len(exec) + 1] = y
      /\ \A e \in 1..Len(exec) : exec'[e] = exec[e]
  BY <1>2, <1>4, StoreTypes
<1>6. /\ home'[Len(exec) + 1] = 0
      /\ \A e \in 1..Len(exec) : home'[e] = home[e]
  BY <1>2, Constants, StoreTypes
<1>7. 1..(Len(exec) + 1) = (1..Len(exec)) \cup {Len(exec) + 1} /\ Len(exec) + 1 \notin 1..Len(exec)
  BY StoreTypes
<1> QED
  BY <1>1, <1>2, <1>5, <1>6, <1>7, StoreTypes DEF Grows

(* The execution id comes to the state l.                                   *)
Comes(id, l) ==
    /\ DOMAIN exec' = DOMAIN exec
    /\ \A e \in DOMAIN exec :
          IF e = id THEN exec'[e].st = l /\ exec'[e].trig = exec[e].trig
                         /\ exec'[e].round = exec[e].round
          ELSE exec'[e] = exec[e]

Puts(id, l) == exec' = [exec EXCEPT ![id].st = l]

LEMMA ComesTo ==
    ASSUME Typed, NEW id, NEW l \in {"asked", "ended"}, Puts(id, l)
    PROVE  Comes(id, l)
<1>0. PICK x : x = [exec[id] EXCEPT !.st = l]
  OBVIOUS
<1>1. Changed(exec', exec, id, x)
  BY <1>0 DEF Changed, Puts
<1>2. id \in 1..Len(exec) => /\ x \in Execution /\ x.st = l /\ x.trig = exec[id].trig
                             /\ x.round = exec[id].round
  <2>1. id \in 1..Len(exec) => exec[id] \in Execution
    BY StoreTypes
  <2> QED
    BY <1>0, <2>1 DEF Execution
<1>3. /\ exec' \in Seq(Execution) /\ Len(exec') = Len(exec)
      /\ \A j \in 1..Len(exec) : exec'[j] = IF j = id THEN x ELSE exec[j]
  <2>1. exec \in Seq(Execution) /\ (id \in 1..Len(exec) => x \in Execution)
    BY <1>2, StoreTypes
  <2> QED
    BY <1>1, <2>1, Changing
<1>4. DOMAIN exec' = DOMAIN exec
  BY <1>3, StoreTypes
<1>5. id \in DOMAIN exec => /\ exec'[id].st = l /\ exec'[id].trig = exec[id].trig
                            /\ exec'[id].round = exec[id].round
  BY <1>2, <1>3, StoreTypes
<1> QED
  BY <1>3, <1>4, <1>5, StoreTypes DEF Comes

LEMMA NotingTypes ==
    ASSUME Typed, NEW h \in Handlers, Noting(h)
    PROVE  /\ hs[h] \in Handler /\ hs[h].obj \in Versions /\ hs[h].resp \in Seq(Ids)
           /\ hs[h].resp # <<>> /\ Head(hs[h].resp) \in Ids
<1>1. hs[h] \in Handler /\ hs[h].resp \in Seq(Ids) /\ hs[h].resp # <<>>
  BY DEF Typed, HandlersOK, Handler, Noting, AbortRunning, AbortMissing, Record, Aborting
<1> QED
  BY <1>1 DEF Handler

LEMMA AbortEffect ==
    ASSUME Typed, NEW h \in Handlers, AbortRunning(h)
    PROVE  /\ Comes(Head(hs[h].resp), IF hs[h].trig \in suites THEN "asked" ELSE "ended")
           /\ Drops(Head(hs[h].resp)) /\ UNCHANGED home
<1>1. hs[h].obj \in Versions
  BY NotingTypes DEF Noting
<1> QED
  BY <1>1, ComesTo, DropsId DEF AbortRunning, Puts

LEMMA MissingEffect ==
    ASSUME Typed, NEW h \in Handlers, AbortMissing(h)
    PROVE  /\ Drops(Head(hs[h].resp)) /\ Missing(Head(hs[h].resp))
           /\ UNCHANGED <<exec, home>>
<1>1. hs[h].obj \in Versions
  BY NotingTypes DEF Noting
<1> QED
  BY <1>1, DropsId DEF AbortMissing, store

(* The id is added to the list of the status o.                             *)
Adds(id, o) ==
    /\ \A v \in Versions \ {o} : ids'[v] = ids[v]
    /\ \A x : In(x, ids'[o]) <=> x = id \/ In(x, ids[o])
    /\ Once(ids[o]) /\ ~In(id, ids[o]) => Once(ids'[o])
    /\ \A e \in DOMAIN exec : home'[e] = home[e] \/ (e = id /\ home'[e] = o)

LEMMA RecordEffect ==
    ASSUME Typed, NEW h \in Handlers, Record(h)
    PROVE  Adds(Head(hs[h].resp), hs[h].obj) /\ UNCHANGED exec /\ hs[h].obj \in Versions \ {0}
<1>1. PICK i \in Ids, o \in Versions : i = Head(hs[h].resp) /\ o = hs[h].obj
  BY NotingTypes DEF Noting
<1>2. /\ exec' = exec /\ ids' = [ids EXCEPT ![o] = Append(ids[o], i)] /\ o # 0
      /\ (home' = home \/ home' = [home EXCEPT ![i] = o])
  BY <1>1 DEF Record
<1>3. ids[o] \in Seq(Ids) /\ ids'[o] = Append(ids[o], i)
  BY <1>2, StoreTypes
<1>4. \A v \in Versions \ {o} : ids'[v] = ids[v]
  BY <1>2, StoreTypes
<1>5. \A x : In(x, ids'[o]) <=> x = i \/ In(x, ids[o])
  BY <1>3, AppendIn
<1>6. Once(ids[o]) /\ ~In(i, ids[o]) => Once(ids'[o])
  BY <1>3, AppendOnce
<1>7. \A e \in DOMAIN exec : home'[e] = home[e] \/ (e = i /\ home'[e] = o)
  <2>1. ASSUME Changed(home', home, i, o)
        PROVE  \A e \in 1..Len(home) : home'[e] = IF e = i THEN o ELSE home[e]
    BY <2>1, StoreTypes, Changing
  <2> QED
    BY <1>2, <2>1, StoreTypes DEF Changed
<1> QED
  BY <1>1, <1>2, <1>4, <1>5, <1>6, <1>7 DEF Adds

LEMMA EndEffect ==
    ASSUME Typed, NEW e \in Execs, End(e) PROVE Comes(e, "ended") /\ UNCHANGED <<ids, home>>
BY ComesTo DEF End, Puts, memory

LEMMA ScrapeEffect ==
    ASSUME Typed, NEW t \in Triggers, NEW id \in Ids, Scrape(t, id), ~Panic
    PROVE  /\ Drops(id) /\ UNCHANGED <<exec, home, hidden>> /\ Gone(id)
           /\ UNCHANGED <<cluster, process, status, spec, host, made, hs, budget>>
<1>1. status[t] \in Versions
  BY Constants DEF Typed, NumbersOK
<1> QED
  BY <1>1, DropsId DEF Scrape, store

-----------------------------------------------------------------------------
(* What has no record stays without one, and was started.                   *)
HiddenOK == hidden \subseteq DOMAIN exec

LEMMA HiddenStep ==
    Typed /\ [Next]_vars => hidden \subseteq hidden' /\ (HiddenOK => HiddenOK')
<1> SUFFICES ASSUME Typed, [Next]_vars
             PROVE  hidden \subseteq hidden' /\ (HiddenOK => HiddenOK')
  OBVIOUS
<1> DEFINE Goal == hidden \subseteq hidden' /\ (HiddenOK => HiddenOK')
<1>1. ASSUME hidden' = hidden, DOMAIN exec' = DOMAIN exec PROVE Goal
  BY <1>1 DEF HiddenOK
<1>2. CASE Panic \/ Crash \/ Restart \/ Lead \/ LoseLease \/ UNCHANGED vars
  BY <1>1, <1>2 DEF Panic, Crash, Restart, Lead, LoseLease, vars, store
<1>3. ASSUME NEW t \in Triggers,
             AddTrigger(t) \/ UpdateTrigger(t) \/ DeleteTrigger(t) \/ RemoveTrigger(t)
      PROVE  Goal
  BY <1>1, <1>3 DEF AddTrigger, UpdateTrigger, DeleteTrigger, RemoveTrigger, store
<1>4. ASSUME NEW h \in Handlers, Local(h) \/ Execute(h) \/ (\E s \in Sources : Event(h, s))
      PROVE  Goal
  BY <1>1, <1>4, NotRunning
<1>5. ASSUME NEW h \in Handlers, Refuse(h) PROVE Goal
  BY <1>1, <1>5 DEF Refuse, store
<1>6. ASSUME NEW h \in Handlers, Request(h) PROVE Goal
  <2>1. DOMAIN exec' = DOMAIN exec \cup {Len(exec) + 1} /\ DOMAIN exec' = 1..(Len(exec) + 1)
    BY <1>6, RequestEffect DEF Grows
  <2>2. Len(exec') = Len(exec) + 1
    BY <1>6, StoreTypes DEF Request
  <2>3. hidden' = hidden \/ hidden' = hidden \cup {Len(exec')}
    BY <1>6 DEF Request, InsertFails
  <2> QED
    BY <2>1, <2>2, <2>3 DEF HiddenOK
<1>7. ASSUME NEW h \in Handlers, Noting(h) PROVE Goal
  <2>1. hidden' = hidden
    BY <1>7 DEF Noting, AbortRunning, AbortMissing, Record, store
  <2>2. DOMAIN exec' = DOMAIN exec
    BY <1>7, AbortEffect, MissingEffect, RecordEffect DEF Noting, Comes
  <2> QED
    BY <1>1, <2>1, <2>2
<1>8. ASSUME NEW e \in Execs, End(e) PROVE Goal
  BY <1>1, <1>8, EndEffect DEF End, Comes
<1>9. ASSUME NEW t \in Triggers, NEW id \in Ids, Scrape(t, id), ~Panic PROVE Goal
  BY <1>1, <1>9, ScrapeEffect
<1>10. ASSUME NEW h \in Handlers, Handle(h) PROVE Goal
  BY <1>2, <1>4, <1>5, <1>6, <1>7, <1>10, HandleKinds DEF Sending
<1> QED
  BY <1>2, <1>3, <1>4, <1>8, <1>9, <1>10 DEF Next

(* Every variable of the trigger service keeps its type: for any triggers,  *)
(* informers and bounds no more statuses and testTriggers are numbered than *)
(* the leaders that come and the changes of triggers allow.                 *)
THEOREM TypeSafe == Spec => []TypeOK
<1>1. Typed /\ HiddenOK => TypeOK
  BY DEF HiddenOK, Typed, TypeOK, ClusterOK, ProcessOK, NumbersOK, ListsOK, HandlersOK, StoreOK, CountsOK,
         Execution
<1>2. Init => HiddenOK
  BY DEF Init, HiddenOK
<1> QED
  BY <1>1, <1>2, TypedInit, TypedStep, HiddenStep, PTL DEF Spec

-----------------------------------------------------------------------------
(* What the server remembers of the executions.                             *)
LEMMA DropsRemembered ==
    ASSUME Typed, Remembered, NEW id, Drops(id), UNCHANGED <<home, crashes, deaths>>,
           DOMAIN exec' = DOMAIN exec, hidden \subseteq hidden',
           \A e \in DOMAIN exec \ hidden' :
               exec'[e].st = "active" => exec[e].st = "active" /\ e # id
    PROVE  Remembered'
<1> SUFFICES ASSUME crashes + deaths = 0, NEW e \in DOMAIN exec \ hidden', home[e] # 0,
                    exec'[e].st = "active"
             PROVE  In(e, ids'[home[e]])
  BY DEF Remembered
<1>1. home[e] \in Versions
  BY StoreTypes
<1>2. In(e, ids[home[e]])
  BY DEF Remembered
<1> QED
  BY <1>1, <1>2 DEF Drops

LEMMA RememberedStep == Typed /\ Remembered /\ [Next]_vars => Remembered'
<1> SUFFICES ASSUME Typed, Remembered, [Next]_vars PROVE Remembered'
  OBVIOUS
<1>0. hidden \subseteq hidden'
  BY HiddenStep
<1>1. CASE Panic \/ Crash
  BY <1>1, PanicForgets DEF Remembered
<1>2. CASE Restart \/ Lead \/ LoseLease \/ UNCHANGED vars
  BY <1>0, <1>2, RememberedSame DEF Restart, Lead, LoseLease, vars, store, memory, budget
<1>3. ASSUME NEW t \in Triggers,
             AddTrigger(t) \/ UpdateTrigger(t) \/ DeleteTrigger(t) \/ RemoveTrigger(t)
      PROVE  Remembered'
  BY <1>0, <1>3, RememberedSame DEF AddTrigger, UpdateTrigger, DeleteTrigger, RemoveTrigger, store,
         memory, budget
<1>4. ASSUME NEW h \in Handlers, Local(h) \/ Execute(h) \/ (\E s \in Sources : Event(h, s))
      PROVE  Remembered'
  BY <1>0, <1>4, NotRunning, RememberedSame
<1>5. ASSUME NEW h \in Handlers, Refuse(h) PROVE Remembered'
  BY <1>0, <1>5, RememberedSame DEF Refuse, store, memory
<1>6. ASSUME NEW h \in Handlers, Request(h) PROVE Remembered'
  <2>1. Grows(h) /\ UNCHANGED <<ids, crashes, deaths>>
    BY <1>6, RequestEffect DEF Request, Stays
  <2> QED
    BY <1>0, <2>1 DEF Grows, Remembered
<1>7. ASSUME NEW h \in Handlers, AbortRunning(h) PROVE Remembered'
  <2>1. /\ Comes(Head(hs[h].resp), IF hs[h].trig \in suites THEN "asked" ELSE "ended")
        /\ Drops(Head(hs[h].resp)) /\ UNCHANGED <<home, crashes, deaths>>
    BY <1>7, AbortEffect DEF AbortRunning, Stays
  <2> QED
    BY <1>0, <2>1, DropsRemembered DEF Comes
<1>8. ASSUME NEW h \in Handlers, AbortMissing(h) PROVE Remembered'
  <2>1. /\ Drops(Head(hs[h].resp)) /\ UNCHANGED <<exec, home, crashes, deaths>>
        /\ Missing(Head(hs[h].resp))
    BY <1>8, MissingEffect DEF AbortMissing, Stays
  <2>2. \A e \in DOMAIN exec \ hidden' : e # Head(hs[h].resp)
    BY <1>0, <2>1, StoreTypes DEF Missing
  <2> QED
    BY <1>0, <2>1, <2>2, DropsRemembered
<1>9. ASSUME NEW h \in Handlers, Record(h) PROVE Remembered'
  <2>1. /\ Adds(Head(hs[h].resp), hs[h].obj) /\ UNCHANGED <<exec, crashes, deaths>>
        /\ hs[h].obj \in Versions
    BY <1>9, RecordEffect DEF Record, Stays
  <2> SUFFICES ASSUME crashes + deaths = 0, NEW e \in DOMAIN exec \ hidden', home'[e] # 0,
                      exec[e].st = "active"
               PROVE  In(e, ids'[home'[e]])
    BY <2>1 DEF Remembered
  <2>2. CASE home'[e] = home[e]
    <3>1. In(e, ids[home[e]]) /\ home[e] \in Versions
      BY <1>0, <2>2, StoreTypes DEF Remembered
    <3> QED
      BY <2>1, <2>2, <3>1 DEF Adds
  <2>3. CASE e = Head(hs[h].resp) /\ home'[e] = hs[h].obj
    BY <2>1, <2>3 DEF Adds
  <2> QED
    BY <2>1, <2>2, <2>3 DEF Adds
<1>10. ASSUME NEW e \in Execs, End(e) PROVE Remembered'
  <2>1. Comes(e, "ended") /\ UNCHANGED <<ids, home, crashes, deaths>>
    BY <1>10, EndEffect DEF End, budget
  <2> QED
    BY <1>0, <2>1 DEF Comes, Remembered
<1>11. ASSUME NEW t \in Triggers, NEW id \in Ids, Scrape(t, id), ~Panic PROVE Remembered'
  <2>1. Drops(id) /\ UNCHANGED <<exec, home, crashes, deaths>> /\ Gone(id)
    BY <1>11, ScrapeEffect DEF budget
  <2>2. \A e \in DOMAIN exec \ hidden' : exec[e].st = "active" => e # id
    BY <1>0, <2>1, StoreTypes DEF Gone, Missing
  <2> QED
    BY <1>0, <2>1, <2>2, DropsRemembered
<1>12. ASSUME NEW h \in Handlers, Handle(h) PROVE Remembered'
  BY <1>1, <1>4, <1>5, <1>6, <1>7, <1>8, <1>9, <1>12, HandleKinds DEF Sending, Noting
<1> QED
  BY <1>1, <1>2, <1>3, <1>4, <1>10, <1>11, <1>12 DEF Next

(* Neither the scraper nor Replace forgets an execution that still runs,    *)
(* except the suites that were asked to abort and those whose record could  *)
(* not be inserted: what one status recorded stays in its list, even when   *)
(* its trigger has another by now.                                          *)
THEOREM Remembers == Spec => []Tracked
<1>1. Init => Remembered
  BY DEF Init, Remembered
<1>2. Typed /\ Remembered => Tracked
  BY DEF Remembered, Tracked, In
<1> QED
  BY <1>1, <1>2, TypedInit, TypedStep, RememberedStep, PTL DEF Spec

-----------------------------------------------------------------------------
(* What the steps of a handler change of its record.                        *)
Kept(r, s) == s.src = r.src /\ s.round = r.round /\ s.old = r.old

Chooses(r, s) ==
    /\ r.pc = "loop" /\ s.pc = "conditions" /\ s.left \subseteq r.left
    /\ s.trig \in r.left /\ status[s.trig] # 0
Probes(r, s)   == r.pc = "conditions" /\ s.pc = "policy" /\ s.trig = r.trig /\ s.left = r.left
Replaces(r, s) ==
    /\ r.pc = "policy" /\ s.pc = "abort" /\ s.trig = r.trig /\ s.left = r.left
    /\ policy[s.trig] = "replace" /\ status[s.trig] # 0
    /\ s.obj = status[s.trig] /\ s.resp = ids[s.obj]
Permits(r, s) ==
    /\ r.pc = "policy" /\ s.pc = "execute" /\ s.trig = r.trig /\ s.left = r.left
    /\ policy[s.trig] = "allow" \/ (status[s.trig] # 0 /\ ids[status[s.trig]] = <<>>)
Skips(r, s) ==
    /\ r.pc = "abort" /\ s.pc = "abort" /\ s.trig = r.trig /\ s.left = r.left /\ s.obj = r.obj
    /\ r.resp # <<>> /\ s.resp = Tail(r.resp)
    /\ faults' # 0 \/ (~Missing(Head(r.resp)) /\ ~Running(Head(r.resp)))
Aborted(r, s) ==
    r.pc = "abort" /\ r.resp = <<>> /\ s.pc = "execute" /\ s.trig = r.trig /\ s.left = r.left
Goes(r, s) == r.pc = "run" /\ r.resp = <<>> /\ s.pc = "loop" /\ s.left = r.left

Walks(r, s) ==
    \/ s = Idle /\ r.pc # "run"
    \/ /\ Kept(r, s)
       /\ \/ Chooses(r, s) \/ Probes(r, s) \/ Replaces(r, s) \/ Permits(r, s) \/ Skips(r, s)
          \/ Aborted(r, s) \/ Goes(r, s)

LEMMA HandlerType ==
    ASSUME Typed, NEW h \in Handlers
    PROVE  /\ hs[h] \in Handler /\ Placed(hs[h])
           /\ \A r : Moves(h, r) => hs'[h] = r /\ \A g \in Handlers \ {h} : hs'[g] = hs[g]
BY DEF Typed, HandlersOK, Moves

LEMMA LocalFields ==
    ASSUME Typed, NEW h \in Handlers, Local(h) PROVE Walks(hs[h], hs'[h])
<1>0. PICK r \in Handler : r = hs[h] /\ Placed(r)
  BY HandlerType
<1>1. CASE \E t \in Triggers : Pick(h, t)
  <2>1. PICK t \in Triggers : Pick(h, t)
    BY <1>1
  <2> DEFINE s == [hs[h] EXCEPT !.pc = "conditions", !.trig = t, !.spec = spec[t], !.left = @ \ {t}]
  <2>2. Moves(h, s)
    BY <2>1 DEF Pick, Moves
  <2>3. Kept(r, s) /\ Chooses(r, s)
    BY <1>0, <2>1 DEF Pick, Handler, Kept, Chooses
  <2> QED
    BY <1>0, <2>2, <2>3, HandlerType DEF Walks
<1>2. CASE Finish(h) \/ WaitFails(h) \/ Forbid(h) \/ ExecuteFails(h)
  <2>1. Moves(h, Idle)
    BY <1>2 DEF Finish, WaitFails, Forbid, ExecuteFails, Return, Moves
  <2>2. r.pc # "run"
    BY <1>0, <1>2 DEF Finish, WaitFails, Forbid, ExecuteFails
  <2> QED
    BY <1>0, <2>1, <2>2, HandlerType DEF Walks
<1>3. CASE MatchProbes(h)
  <2> DEFINE s == [hs[h] EXCEPT !.pc = "policy"]
  <2>1. Moves(h, s)
    BY <1>3 DEF MatchProbes, Go, Moves
  <2>2. Kept(r, s) /\ Probes(r, s)
    BY <1>0, <1>3 DEF MatchProbes, Handler, Kept, Probes
  <2> QED
    BY <1>0, <2>1, <2>2, HandlerType DEF Walks
<1>4. CASE Replace(h)
  <2> DEFINE t == hs[h].trig
             s == [hs[h] EXCEPT !.pc = "abort", !.obj = status[t], !.resp = ids[status[t]]]
  <2>1. Moves(h, s)
    BY <1>4 DEF Replace, Moves
  <2>2. Kept(r, s) /\ Replaces(r, s)
    BY <1>0, <1>4 DEF Replace, Handler, Kept, Replaces
  <2> QED
    BY <1>0, <2>1, <2>2, HandlerType DEF Walks
<1>5. CASE Permit(h)
  <2> DEFINE s == [hs[h] EXCEPT !.pc = "execute"]
  <2>1. Moves(h, s)
    BY <1>5 DEF Permit, Go, Moves
  <2>2. Kept(r, s) /\ Permits(r, s)
    BY <1>0, <1>5 DEF Permit, Active, Handler, Kept, Permits
  <2> QED
    BY <1>0, <2>1, <2>2, HandlerType DEF Walks
<1>6. CASE AbortSkip(h)
  <2> DEFINE s == [hs[h] EXCEPT !.resp = Tail(@)]
  <2>1. Moves(h, s)
    BY <1>6 DEF AbortSkip, Next1, Moves
  <2>2. faults' # 0 \/ (~Missing(Head(r.resp)) /\ ~Running(Head(r.resp)))
    BY <1>0, <1>6 DEF AbortSkip, Fault, Typed, CountsOK
  <2>3. Kept(r, s) /\ Skips(r, s)
    BY <1>0, <1>6, <2>2 DEF AbortSkip, Aborting, Handler, Kept, Skips
  <2> QED
    BY <1>0, <2>1, <2>3, HandlerType DEF Walks
<1>7. CASE AbortDone(h)
  <2> DEFINE s == [hs[h] EXCEPT !.pc = "execute"]
  <2>1. Moves(h, s)
    BY <1>7 DEF AbortDone, Go, Moves
  <2>2. Kept(r, s) /\ Aborted(r, s)
    BY <1>0, <1>7 DEF AbortDone, Handler, Kept, Aborted
  <2> QED
    BY <1>0, <2>1, <2>2, HandlerType DEF Walks
<1>8. CASE Started(h)
  <2> DEFINE s == [hs[h] EXCEPT !.pc = "loop", !.obj = 0, !.trig = None, !.spec = 0]
  <2>1. Moves(h, s)
    BY <1>8 DEF Started, Moves
  <2>2. Kept(r, s) /\ Goes(r, s)
    BY <1>0, <1>8 DEF Started, Handler, Kept, Goes
  <2> QED
    BY <1>0, <2>1, <2>2, HandlerType DEF Walks
<1> QED
  BY <1>1, <1>2, <1>3, <1>4, <1>5, <1>6, <1>7, <1>8 DEF Local

(* Everything but the requests to send and the ids to record or to abort.   *)
Stands(r, s) == Kept(r, s) /\ s.pc = r.pc /\ s.trig = r.trig /\ s.obj = r.obj /\ s.left = r.left

LEMMA RequestFields ==
    ASSUME Typed, NEW h \in Handlers, Request(h)
    PROVE  /\ Stands(hs[h], hs'[h]) /\ hs[h].pc = "run" /\ Len(exec) + 1 \in Ids
           /\ hs[h].resp \in Seq(Ids) /\ hs'[h].resp = Append(hs[h].resp, Len(exec) + 1)
<1>0. PICK r \in Handler : r = hs[h] /\ r.pc = "run" /\ r.todo > 0
  BY HandlerType DEF Request
<1>1. Len(exec') = Len(exec) + 1
  BY DEF Request, Typed, StoreOK
<1> DEFINE s == [hs[h] EXCEPT !.todo = @ - 1, !.resp = Append(@, Len(exec'))]
<1>2. Moves(h, s)
  BY DEF Request, Respond, Moves
<1>3. Stands(r, s) /\ s.resp = Append(r.resp, Len(exec) + 1) /\ r.resp \in Seq(Ids)
  BY <1>0, <1>1 DEF Handler, Stands, Kept
<1>4. Len(exec) + 1 \in Ids
  <2>1. hs[h].todo # 0
    BY <1>0
  <2> QED
    BY <2>1, SendingRoom DEF Ids
<1> QED
  BY <1>0, <1>2, <1>3, <1>4, HandlerType

LEMMA RefuseFields ==
    ASSUME Typed, NEW h \in Handlers, Refuse(h)
    PROVE  /\ Stands(hs[h], hs'[h]) /\ hs[h].pc = "run" /\ hs[h].resp \in Seq(Ids) /\ refused' # 0
           /\ \E id \in Ids : /\ id = 0 \/ (id \in DOMAIN exec /\ exec[id].trig = hs[h].trig)
                              /\ hs'[h].resp = Append(hs[h].resp, id)
<1>0. PICK r \in Handler : r = hs[h] /\ r.pc = "run" /\ r.todo > 0
  BY HandlerType DEF Refuse
<1>1. PICK id \in {0} \cup {e \in DOMAIN exec : exec[e].trig = hs[h].trig} : Respond(h, id)
  BY DEF Refuse
<1> DEFINE s == [hs[h] EXCEPT !.todo = @ - 1, !.resp = Append(@, id)]
<1>2. Moves(h, s)
  BY <1>1 DEF Respond, Moves
<1>3. Stands(r, s) /\ s.resp = Append(r.resp, id) /\ r.resp \in Seq(Ids)
  BY <1>0 DEF Handler, Stands, Kept
<1>4. id \in Ids /\ (id = 0 \/ (id \in DOMAIN exec /\ exec[id].trig = hs[h].trig))
  BY ExecsOf DEF Ids
<1>5. refused' # 0
  BY DEF Refuse, Typed, CountsOK
<1> QED
  BY <1>0, <1>2, <1>3, <1>4, <1>5, HandlerType

LEMMA NotingFields ==
    ASSUME Typed, NEW h \in Handlers, Noting(h)
    PROVE  /\ Stands(hs[h], hs'[h]) /\ hs[h].resp \in Seq(Ids) /\ hs[h].resp # <<>>
           /\ hs'[h].resp = Tail(hs[h].resp)
           /\ IF Record(h) THEN hs[h].pc = "run" ELSE hs[h].pc = "abort"
<1>0. PICK r \in Handler : r = hs[h]
  BY HandlerType
<1> DEFINE s == [hs[h] EXCEPT !.resp = Tail(@)]
<1>1. Moves(h, s)
  BY DEF Noting, AbortRunning, AbortMissing, Record, Next1, Moves
<1>2. Stands(r, s) /\ s.resp = Tail(r.resp)
  BY <1>0 DEF Handler, Stands, Kept
<1>3. IF Record(h) THEN hs[h].pc = "run" ELSE hs[h].pc = "abort"
  BY DEF Noting, AbortRunning, AbortMissing, Record, Aborting
<1> QED
  BY <1>0, <1>1, <1>2, <1>3, HandlerType, NotingTypes

LEMMA ExecuteFields ==
    ASSUME Typed, NEW h \in Handlers, Execute(h)
    PROVE  /\ Kept(hs[h], hs'[h]) /\ hs[h].pc = "execute" /\ hs'[h].pc = "run"
           /\ hs'[h].trig = hs[h].trig /\ hs'[h].left = hs[h].left
           /\ hs'[h].obj = status[hs[h].trig] /\ hs'[h].resp = <<>>
<1>0. PICK r \in Handler : r = hs[h] /\ r.pc = "execute" /\ r.resp = <<>>
  BY HandlerType DEF Execute, Placed
<1>1. PICK n \in 0..MaxTests - selected :
         Moves(h, [hs[h] EXCEPT !.pc = "run", !.obj = status[hs[h].trig], !.todo = n])
  BY DEF Execute, Moves
<1> DEFINE s == [hs[h] EXCEPT !.pc = "run", !.obj = status[hs[h].trig], !.todo = n]
<1>2. Kept(r, s) /\ s.pc = "run" /\ s.trig = r.trig /\ s.left = r.left /\ s.obj = status[r.trig]
      /\ s.resp = <<>>
  BY <1>0 DEF Handler, Kept
<1> QED
  BY <1>0, <1>1, <1>2, HandlerType

LEMMA EventFields ==
    ASSUME Typed, NEW h \in Handlers, NEW s \in Sources, Event(h, s)
    PROVE  /\ hs'[h].pc = "loop" /\ hs'[h].src = s /\ hs'[h].left \subseteq watch[s]
           /\ hs'[h].old = FALSE /\ hs'[h].trig = None
<1>1. PICK left \in SUBSET watch[s] :
          Moves(h, [Idle EXCEPT !.pc = "loop", !.src = s, !.left = left, !.round = events'])
  BY DEF Event, Moves
<1> DEFINE r == [Idle EXCEPT !.pc = "loop", !.src = s, !.left = left, !.round = events']
<1>2. r.pc = "loop" /\ r.src = s /\ r.left \subseteq watch[s] /\ r.old = FALSE /\ r.trig = None
  BY DEF Idle
<1> QED
  BY <1>1, <1>2, HandlerType

-----------------------------------------------------------------------------
(* As long as no trigger is changed or deleted, those that a handler has    *)
(* chosen have a status.                                                    *)
Knows(r) == (Busy(r) => status[r.trig] # 0) /\ (r.pc = "run" => r.obj # 0)
Known == changes = 0 => present = Triggers /\ \A h \in Handlers : Knows(hs[h])

(* As long as no request is refused, the ids in the lists are those of      *)
(* different executions, and so are those that still have to be recorded.   *)
Fresh(h) ==
    hs[h].pc = "run" =>
        /\ Once(hs[h].resp)
        /\ \A x : In(x, hs[h].resp) =>
              /\ x \in DOMAIN exec /\ \A v \in Versions : ~In(x, ids[v])
              /\ \A g \in Handlers \ {h} : hs[g].pc = "run" => ~In(x, hs[g].resp)
Recorded ==
    refused = 0 =>
        /\ \A v \in Versions : Once(ids[v]) /\ \A x : In(x, ids[v]) => x \in DOMAIN exec
        /\ \A h \in Handlers : Fresh(h)

LEMMA EmptyIn == (\A x : ~In(x, <<>>)) /\ Once(<<>>)
BY DEF In, Once

(* Nobody panics.                                                           *)
LEMMA RemovesOnce ==
    ASSUME Typed, Recorded, refused = 0, NEW o \in Versions, NEW id PROVE RemoveOk(o, id)
<1>1. ids[o] \in Seq(Ids) /\ Once(ids[o])
  BY StoreTypes DEF Recorded
<1> QED
  BY <1>1, Removal DEF RemoveOk

LEMMA NoPanic ==
    ASSUME Typed, Known, Recorded, changes = 0, refused = 0, NEW h \in Handlers
    PROVE  ~(PolicyPanics(h) \/ AbortPanics(h) \/ RecordPanics(h))
<1>1. Knows(hs[h]) /\ hs[h].obj \in Versions
  BY DEF Known, Typed, HandlersOK, Handler
<1>2. ~PolicyPanics(h) /\ ~RecordPanics(h)
  BY <1>1 DEF PolicyPanics, RecordPanics, Knows, Busy
<1>3. ~AbortPanics(h)
  BY <1>1, RemovesOnce DEF AbortPanics
<1> QED
  BY <1>2, <1>3

Panics(h) == PolicyPanics(h) \/ AbortPanics(h) \/ RecordPanics(h)

LEMMA HandleOrPanics ==
    ASSUME NEW h \in Handlers, Handle(h)
    PROVE  Local(h) \/ Sending(h) \/ Noting(h) \/ Execute(h) \/ Panics(h)
BY DEF Handle, Local, Sending, Noting, Panics

(* Known is kept.                                                           *)
LEMMA KnownMoves ==
    ASSUME Typed, Known, UNCHANGED <<changes, present, status>>,
           NEW h \in Handlers, changes = 0 => Knows(hs'[h]),
           \A g \in Handlers \ {h} : hs'[g] = hs[g]
    PROVE  Known'
BY DEF Known, Knows

LEMMA OtherHandlers ==
    ASSUME Typed, NEW h \in Handlers,
           Local(h) \/ Sending(h) \/ Noting(h) \/ Execute(h) \/ (\E s \in Sources : Event(h, s))
    PROVE  /\ \A g \in Handlers \ {h} : hs'[g] = hs[g]
           /\ \E r \in Handler : Moves(h, r) /\ hs'[h] = r /\ Placed(r)
           /\ UNCHANGED <<changes, present, status, deaths, crashes>>
<1>1. PICK r \in Handler : Moves(h, r) /\ Placed(r)
  BY LocalMoves, SendingMoves, NotingMoves, ExecuteMoves, EventMoves
<1>2. hs \in [Handlers -> Handler]
  BY DEF Typed, HandlersOK
<1>3. UNCHANGED <<changes, present, status, deaths, crashes>>
  BY DEF Local, Pick, Finish, MatchProbes, WaitFails, Forbid, Replace, Permit, AbortSkip,
         AbortDone, ExecuteFails, Started, Stays, Sending, Request, Refuse, Noting, AbortRunning,
         AbortMissing, Record, Execute, Event, cluster, memory
<1> QED
  BY <1>1, <1>2, <1>3 DEF Moves

LEMMA HandlerKnows ==
    ASSUME Typed, NEW h \in Handlers, Knows(hs[h]),
           Local(h) \/ Sending(h) \/ Noting(h) \/ Execute(h) \/ (\E s \in Sources : Event(h, s))
    PROVE  Knows(hs'[h])
<1>0. hs \in [Handlers -> Handler] /\ hs[h] \in Handler
  BY DEF Typed, HandlersOK
<1>1. CASE Local(h)
  <2>1. Walks(hs[h], hs'[h])
    BY <1>1, LocalFields
  <2>2. CASE hs'[h] = Idle
    BY <2>2 DEF Idle, Knows, Busy
  <2>3. CASE hs'[h] # Idle
    BY <2>1, <2>3 DEF Walks, Chooses, Probes, Replaces, Permits, Skips, Aborted, Goes, Knows, Busy
  <2> QED
    BY <2>2, <2>3
<1>2. CASE Sending(h) \/ Noting(h)
  <2>1. Stands(hs[h], hs'[h])
    BY <1>2, RequestFields, RefuseFields, NotingFields DEF Sending
  <2> QED
    BY <2>1 DEF Knows, Busy, Stands
<1>3. CASE Execute(h)
  BY <1>3, ExecuteFields DEF Knows, Busy
<1>4. CASE \E s \in Sources : Event(h, s)
  <2>1. hs'[h].pc = "loop"
    BY <1>4, EventFields
  <2> QED
    BY <2>1 DEF Knows, Busy
<1> QED
  BY <1>1, <1>2, <1>3, <1>4

LEMMA KnownStep == Typed /\ Known /\ [Next]_vars => Known'
<1> SUFFICES ASSUME Typed, Known, [Next]_vars PROVE Known'
  OBVIOUS
<1>0. changes \in Nat /\ hs \in [Handlers -> Handler]
  BY DEF Typed, CountsOK, HandlersOK
<1>1. CASE Panic \/ Crash
  <2>1. UNCHANGED <<changes, present>> /\ \A h \in Handlers : hs'[h] = Idle
    BY <1>1 DEF Panic, Crash, Forget, cluster
  <2>2. \A h \in Handlers : hs'[h].pc = "idle"
    BY <2>1 DEF Idle
  <2> QED
    BY <2>1, <2>2 DEF Known, Knows, Busy
<1>2. CASE Restart \/ Lead \/ UNCHANGED vars
  BY <1>2 DEF Restart, Lead, vars, cluster, memory, budget, Known, Knows
<1>3. CASE LoseLease
  <2>1. UNCHANGED <<changes, present, status>>
    BY <1>3 DEF LoseLease, cluster, memory
  <2>2. \A h \in Handlers : hs'[h] = [hs[h] EXCEPT !.old = hs[h].pc # "idle"]
    BY <1>3 DEF LoseLease
  <2>3. \A h \in Handlers : hs'[h].pc = hs[h].pc /\ hs'[h].trig = hs[h].trig /\ hs'[h].obj = hs[h].obj
    BY <1>0, <2>2 DEF Handler
  <2> QED
    BY <2>1, <2>3 DEF Known, Knows, Busy
<1>4. ASSUME NEW t \in Triggers, AddTrigger(t) PROVE Known'
  <2>1. UNCHANGED <<changes, present, hs>> /\ made' # 0
    BY <1>4, Constants DEF AddTrigger, cluster, budget, Typed, NumbersOK
  <2>2. \A u \in Triggers : status'[u] = status[u] \/ status'[u] # 0
    BY <1>4, <2>1 DEF AddTrigger, Typed, NumbersOK
  <2>3. \A h \in Handlers : Busy(hs[h]) => hs[h].trig \in Triggers
    BY DEF Typed, HandlersOK, Placed
  <2> QED
    BY <2>1, <2>2, <2>3 DEF Known, Knows
<1>5. ASSUME NEW t \in Triggers, UpdateTrigger(t) \/ DeleteTrigger(t) PROVE Known'
  BY <1>0, <1>5 DEF UpdateTrigger, DeleteTrigger, Known
<1>6. ASSUME NEW t \in Triggers, RemoveTrigger(t) PROVE Known'
  BY <1>6 DEF RemoveTrigger, Known, Knows, budget
<1>7. ASSUME NEW h \in Handlers,
             Local(h) \/ Sending(h) \/ Noting(h) \/ Execute(h) \/ (\E s \in Sources : Event(h, s))
      PROVE  Known'
  <2>1. changes = 0 => Knows(hs'[h])
    BY <1>7, HandlerKnows DEF Known
  <2> QED
    BY <1>7, <2>1, OtherHandlers, KnownMoves
<1>8. ASSUME NEW h \in Handlers, Handle(h) PROVE Known'
  BY <1>1, <1>7, <1>8, HandleKinds
<1>9. ASSUME NEW e \in Execs, End(e) PROVE Known'
  BY <1>9 DEF End, Known, Knows, cluster, memory, budget
<1>10. ASSUME NEW t \in Triggers, NEW id \in Ids, Scrape(t, id) PROVE Known'
  BY <1>1, <1>10 DEF Scrape, Known, Knows, cluster, budget
<1> QED
  BY <1>1, <1>2, <1>3, <1>4, <1>5, <1>6, <1>7, <1>8, <1>9, <1>10 DEF Next

-----------------------------------------------------------------------------
(* A step that adds no id to a list and none to those to be recorded.       *)
LEMMA RecordedShrinks ==
    ASSUME Typed, Recorded, refused' = 0 => refused = 0, DOMAIN exec \subseteq DOMAIN exec',
           \A v \in Versions : (\A x : In(x, ids'[v]) => In(x, ids[v])) /\ (Once(ids[v]) => Once(ids'[v])),
           \A h \in Handlers : hs'[h].pc = "run" =>
               hs'[h].resp = <<>> \/ (hs[h].pc = "run" /\ hs'[h].resp = hs[h].resp)
    PROVE  Recorded'
<1> SUFFICES ASSUME refused' = 0 
             PROVE  /\ \A v \in Versions : Once(ids'[v]) /\ \A x : In(x, ids'[v]) => x \in DOMAIN exec'
                    /\ \A h \in Handlers : Fresh(h)'
  BY DEF Recorded
<1>1. /\ \A v \in Versions : Once(ids[v]) /\ \A x : In(x, ids[v]) => x \in DOMAIN exec
      /\ \A h \in Handlers : Fresh(h)
  BY DEF Recorded
<1>2. \A v \in Versions : Once(ids'[v]) /\ \A x : In(x, ids'[v]) => x \in DOMAIN exec'
  BY <1>1
<1>3. ASSUME NEW h \in Handlers, hs'[h].pc = "run"
      PROVE  /\ Once(hs'[h].resp)
             /\ \A x : In(x, hs'[h].resp) =>
                  /\ x \in DOMAIN exec' /\ \A v \in Versions : ~In(x, ids'[v])
                  /\ \A g \in Handlers \ {h} : hs'[g].pc = "run" => ~In(x, hs'[g].resp)
  <2>1. CASE hs'[h].resp = <<>>
    BY <2>1, EmptyIn
  <2>2. CASE hs[h].pc = "run" /\ hs'[h].resp = hs[h].resp
    <3>1. /\ Once(hs[h].resp)
          /\ \A x : In(x, hs[h].resp) =>
              /\ x \in DOMAIN exec /\ \A v \in Versions : ~In(x, ids[v])
              /\ \A g \in Handlers \ {h} : hs[g].pc = "run" => ~In(x, hs[g].resp)
      BY <1>1, <2>2 DEF Fresh
    <3>2. ASSUME NEW x, In(x, hs[h].resp), NEW g \in Handlers \ {h}, hs'[g].pc = "run"
          PROVE  ~In(x, hs'[g].resp)
      <4>1. CASE hs'[g].resp = <<>>
        BY <4>1, EmptyIn
      <4>2. CASE hs[g].pc = "run" /\ hs'[g].resp = hs[g].resp
        BY <3>1, <3>2, <4>2
      <4> QED
        BY <3>2, <4>1, <4>2
    <3> QED
      BY <2>2, <3>1, <3>2
  <2> QED
    BY <1>3, <2>1, <2>2
<1>4. \A h \in Handlers : Fresh(h)'
  BY <1>3 DEF Fresh
<1> QED
  BY <1>2, <1>4

(* A new execution is in no list.                                           *)
LEMMA RecordedRequest ==
    ASSUME Typed, Recorded, NEW h \in Handlers, Request(h) PROVE Recorded'
<1>1. Grows(h) /\ UNCHANGED ids /\ refused' = refused
  BY RequestEffect DEF Request, Stays
<1>2. /\ hs[h].pc = "run" /\ hs'[h].pc = "run" /\ hs[h].resp \in Seq(Ids) /\ Len(exec) + 1 \in Ids
      /\ hs'[h].resp = Append(hs[h].resp, Len(exec) + 1)
      /\ \A g \in Handlers \ {h} : hs'[g] = hs[g]
  BY RequestFields, OtherHandlers DEF Stands, Sending
<1>3. PICK n \in Ids : n = Len(exec) + 1
  BY <1>2
<1>4. DOMAIN exec' = DOMAIN exec \cup {n} /\ n \notin DOMAIN exec
  BY <1>1, <1>3 DEF Grows
<1> SUFFICES ASSUME refused = 0 
             PROVE  /\ \A v \in Versions : Once(ids[v]) /\ \A x : In(x, ids[v]) => x \in DOMAIN exec'
                    /\ \A g \in Handlers : Fresh(g)'
  BY <1>1 DEF Recorded
<1>5. /\ \A v \in Versions : Once(ids[v]) /\ \A x : In(x, ids[v]) => x \in DOMAIN exec
      /\ \A g \in Handlers : Fresh(g)
  BY DEF Recorded
<1>6. \A x : In(x, hs'[h].resp) <=> x = n \/ In(x, hs[h].resp)
  BY <1>2, <1>3, AppendIn
<1>7. \A g \in Handlers : hs[g].pc = "run" => ~In(n, hs[g].resp)
  BY <1>4, <1>5 DEF Fresh
<1>8. Once(hs'[h].resp)
  BY <1>2, <1>3, <1>5, <1>7, AppendOnce DEF Fresh
<1>9. ASSUME NEW g \in Handlers PROVE Fresh(g)'
  <2>1. CASE g = h
    <3>1. ASSUME NEW x, In(x, hs'[h].resp)
          PROVE  /\ x \in DOMAIN exec' /\ \A v \in Versions : ~In(x, ids'[v])
                 /\ \A f \in Handlers \ {h} : hs'[f].pc = "run" => ~In(x, hs'[f].resp)
      <4>1. CASE x = n
        BY <1>1, <1>2, <1>4, <1>5, <1>7, <4>1
      <4>2. CASE In(x, hs[h].resp)
        BY <1>1, <1>2, <1>4, <1>5, <4>2 DEF Fresh
      <4> QED
        BY <1>6, <3>1, <4>1, <4>2
    <3> QED
      BY <1>8, <2>1, <3>1 DEF Fresh
  <2>2. CASE g # h
    <3>1. hs'[g] = hs[g]
      BY <1>2, <2>2
    <3>2. ASSUME hs[g].pc = "run", NEW x, In(x, hs[g].resp)
          PROVE  /\ x \in DOMAIN exec' /\ \A v \in Versions : ~In(x, ids'[v])
                 /\ \A f \in Handlers \ {g} : hs'[f].pc = "run" => ~In(x, hs'[f].resp)
      <4>1. /\ x \in DOMAIN exec /\ \A v \in Versions : ~In(x, ids[v])
            /\ \A f \in Handlers \ {g} : hs[f].pc = "run" => ~In(x, hs[f].resp)
        BY <1>5, <3>2 DEF Fresh
      <4>2. ~In(x, hs'[h].resp)
        BY <1>2, <1>4, <1>6, <2>2, <4>1
      <4> QED
        BY <1>1, <1>2, <1>4, <4>1, <4>2
    <3>3. hs[g].pc = "run" => Once(hs[g].resp)
      BY <1>5 DEF Fresh
    <3> QED
      BY <3>1, <3>2, <3>3 DEF Fresh
  <2> QED
    BY <2>1, <2>2
<1> QED
  BY <1>4, <1>5, <1>9

(* An id that is recorded goes from the responses to the list.              *)
LEMMA RecordedRecord ==
    ASSUME Typed, Recorded, NEW h \in Handlers, Record(h) PROVE Recorded'
<1>1. Adds(Head(hs[h].resp), hs[h].obj) /\ UNCHANGED <<exec, refused>> /\ hs[h].obj \in Versions
  BY RecordEffect DEF Record, Stays
<1>2. /\ hs[h].pc = "run" /\ hs'[h].pc = "run" /\ hs[h].resp \in Seq(Ids) /\ hs[h].resp # <<>>
      /\ hs'[h].resp = Tail(hs[h].resp)
      /\ \A g \in Handlers \ {h} : hs'[g] = hs[g]
  BY NotingFields, OtherHandlers DEF Stands, Noting, Record
<1>3. PICK id : id = Head(hs[h].resp)
  OBVIOUS
<1>4. /\ \A y : In(y, hs[h].resp) <=> y = id \/ In(y, hs'[h].resp)
      /\ Once(hs[h].resp) => Once(hs'[h].resp) /\ ~In(id, hs'[h].resp)
  BY <1>2, <1>3, TailIn
<1> SUFFICES ASSUME refused = 0 
             PROVE  /\ \A v \in Versions : Once(ids'[v]) /\ \A x : In(x, ids'[v]) => x \in DOMAIN exec
                    /\ \A g \in Handlers : Fresh(g)'
  BY <1>1 DEF Recorded
<1>5. /\ \A v \in Versions : Once(ids[v]) /\ \A x : In(x, ids[v]) => x \in DOMAIN exec
      /\ \A g \in Handlers : Fresh(g)
  BY DEF Recorded
<1>6. /\ Once(hs[h].resp) /\ id \in DOMAIN exec /\ \A v \in Versions : ~In(id, ids[v])
      /\ \A g \in Handlers \ {h} : hs[g].pc = "run" => ~In(id, hs[g].resp)
  BY <1>2, <1>4, <1>5 DEF Fresh
<1>7. \A v \in Versions : Once(ids'[v]) /\ \A x : In(x, ids'[v]) => x = id \/ In(x, ids[v])
  BY <1>1, <1>3, <1>5, <1>6 DEF Adds
<1>8. ASSUME NEW g \in Handlers PROVE Fresh(g)'
  <2>1. ASSUME NEW x, hs[g].pc = "run", x # id, In(x, hs[g].resp)
        PROVE  /\ x \in DOMAIN exec /\ \A v \in Versions : ~In(x, ids'[v])
               /\ \A f \in Handlers \ {g} : hs'[f].pc = "run" => ~In(x, hs'[f].resp)
    <3>1. /\ x \in DOMAIN exec /\ \A v \in Versions : ~In(x, ids[v])
          /\ \A f \in Handlers \ {g} : hs[f].pc = "run" => ~In(x, hs[f].resp)
      BY <1>5, <2>1 DEF Fresh
    <3> QED
      BY <1>2, <1>4, <1>7, <2>1, <3>1
  <2>2. CASE g = h
    <3>1. \A x : In(x, hs'[h].resp) => x # id /\ In(x, hs[h].resp)
      BY <1>4, <1>6
    <3> QED
      BY <1>1, <1>2, <1>4, <1>6, <2>1, <2>2, <3>1 DEF Fresh
  <2>3. CASE g # h
    <3>1. hs'[g] = hs[g] /\ (hs[g].pc = "run" => ~In(id, hs[g].resp) /\ Once(hs[g].resp))
      BY <1>2, <1>5, <1>6, <2>3 DEF Fresh
    <3> QED
      BY <1>1, <2>1, <3>1 DEF Fresh
  <2> QED
    BY <2>2, <2>3
<1> QED
  BY <1>5, <1>6, <1>7, <1>8

LEMMA RecordedStep == Typed /\ Recorded /\ [Next]_vars => Recorded'
<1> SUFFICES ASSUME Typed, Recorded, [Next]_vars PROVE Recorded'
  OBVIOUS
<1>1. CASE Panic \/ Crash
  <2>1. /\ UNCHANGED <<refused, exec>> /\ \A h \in Handlers : hs'[h] = Idle
        /\ \A v \in Versions : ids'[v] = <<>>
    BY <1>1 DEF Panic, Crash, Forget, store
  <2>2. \A h \in Handlers : hs'[h].pc # "run"
    BY <2>1 DEF Idle
  <2> QED
    BY <2>1, <2>2, EmptyIn, RecordedShrinks
<1>2. ASSUME UNCHANGED <<refused, exec, ids, hs>> PROVE Recorded'
  BY <1>2, RecordedShrinks
<1>3. CASE Restart \/ Lead \/ UNCHANGED vars
  BY <1>2, <1>3 DEF Restart, Lead, vars, store, memory, budget
<1>4. CASE LoseLease
  <2>1. \A h \in Handlers : hs'[h] = [hs[h] EXCEPT !.old = hs[h].pc # "idle"]
    BY <1>4 DEF LoseLease
  <2>2. ASSUME NEW h \in Handlers PROVE hs'[h].pc = hs[h].pc /\ hs'[h].resp = hs[h].resp
    <3>1. PICK b \in BOOLEAN : b = (hs[h].pc # "idle")
      OBVIOUS
    <3>2. hs'[h] = [hs[h] EXCEPT !.old = b]
      BY <2>1, <3>1
    <3> QED
      BY <3>2, HandlerType DEF Handler
  <2> QED
    BY <1>4, <2>2, RecordedShrinks DEF LoseLease, store, memory
<1>5. ASSUME NEW t \in Triggers,
             AddTrigger(t) \/ UpdateTrigger(t) \/ DeleteTrigger(t) \/ RemoveTrigger(t)
      PROVE  Recorded'
  <2>1. UNCHANGED <<refused, exec, hs>>
    BY <1>5 DEF AddTrigger, UpdateTrigger, DeleteTrigger, RemoveTrigger, store, budget
  <2>2. UNCHANGED ids
    BY <1>5 DEF AddTrigger, UpdateTrigger, DeleteTrigger, RemoveTrigger, memory
  <2> QED
    BY <1>2, <2>1, <2>2
<1>6. ASSUME NEW h \in Handlers, Local(h) \/ Execute(h) \/ (\E s \in Sources : Event(h, s))
      PROVE  Recorded'
  <2>1. UNCHANGED <<exec, ids, refused>> /\ \A g \in Handlers \ {h} : hs'[g] = hs[g]
    BY <1>6, NotRunning, OtherHandlers
  <2>2. hs'[h].pc = "run" => hs'[h].resp = <<>>
    <3>1. CASE Local(h)
      <4>1. Walks(hs[h], hs'[h])
        BY <3>1, LocalFields
      <4>2. CASE hs'[h] = Idle
        BY <4>2 DEF Idle
      <4> QED
        BY <4>1, <4>2 DEF Walks, Chooses, Probes, Replaces, Permits, Skips, Aborted, Goes
    <3> QED
      BY <1>6, <3>1, ExecuteFields, EventFields
  <2> QED
    BY <2>1, <2>2, RecordedShrinks
<1>7. ASSUME NEW h \in Handlers, Sending(h) PROVE Recorded'
  <2>1. CASE Refuse(h)
    BY <2>1, RefuseFields DEF Recorded
  <2> QED
    BY <1>7, <2>1, RecordedRequest DEF Sending
<1>8. ASSUME NEW h \in Handlers, Noting(h) PROVE Recorded'
  <2>1. CASE Record(h)
    BY <2>1, RecordedRecord
  <2>2. CASE ~Record(h)
    <3>1. /\ hs'[h].pc = "abort" /\ \A g \in Handlers \ {h} : hs'[g] = hs[g]
      BY <1>8, <2>2, NotingFields, OtherHandlers DEF Stands
    <3>2. DOMAIN exec' = DOMAIN exec /\ refused' = refused /\ \E id : Drops(id)
      BY <1>8, <2>2, AbortEffect, MissingEffect DEF Noting, Comes, AbortRunning, AbortMissing, Stays
    <3> QED
      BY <3>1, <3>2, RecordedShrinks DEF Drops
  <2> QED
    BY <2>1, <2>2
<1>9. ASSUME NEW e \in Execs, End(e) PROVE Recorded'
  <2>1. DOMAIN exec' = DOMAIN exec /\ UNCHANGED <<ids, hs, refused>>
    BY <1>9, EndEffect DEF Comes, End, budget
  <2> QED
    BY <2>1, RecordedShrinks
<1>10. ASSUME NEW t \in Triggers, NEW id \in Ids, Scrape(t, id), ~Panic PROVE Recorded'
  <2>1. Drops(id) /\ UNCHANGED <<exec, hs, refused>>
    BY <1>10, ScrapeEffect DEF budget
  <2> QED
    BY <2>1, RecordedShrinks DEF Drops
<1>11. ASSUME NEW h \in Handlers, Handle(h) PROVE Recorded'
  BY <1>1, <1>6, <1>7, <1>8, <1>11, HandleKinds
<1> QED
  BY <1>1, <1>3, <1>4, <1>5, <1>6, <1>9, <1>10, <1>11 DEF Next

(* What is counted only grows, and the triggers keep their specifications.  *)
Grown ==
    /\ refused' >= refused /\ faults' >= faults /\ losses' >= losses /\ changes' >= changes
    /\ crashes' >= crashes /\ deaths' >= deaths /\ UNCHANGED <<policy, suites, watch>>

LEMMA Onwards == Typed /\ [Next]_vars => Grown
<1> SUFFICES ASSUME Typed, [Next]_vars PROVE Grown
  OBVIOUS
<1>0. {refused, faults, losses, changes, crashes, deaths} \subseteq Nat
  BY DEF Typed, CountsOK
<1>1. CASE Panic \/ Crash \/ Restart \/ Lead \/ LoseLease \/ UNCHANGED vars
  BY <1>0, <1>1 DEF Grown, Panic, Crash, Restart, Lead, LoseLease, vars, budget, cluster
<1>2. ASSUME NEW t \in Triggers,
             AddTrigger(t) \/ UpdateTrigger(t) \/ DeleteTrigger(t) \/ RemoveTrigger(t)
      PROVE  Grown
  BY <1>0, <1>2 DEF Grown, AddTrigger, UpdateTrigger, DeleteTrigger, RemoveTrigger, budget, cluster
<1>3. ASSUME NEW h \in Handlers, Local(h) PROVE Grown
  <2>1. Stays /\ (Fault \/ UNCHANGED faults)
    BY <1>3 DEF Local, Pick, Finish, MatchProbes, WaitFails, Forbid, Replace, Permit, AbortSkip,
           AbortDone, ExecuteFails, Started
  <2> QED
    BY <1>0, <2>1 DEF Grown, Stays, Fault, cluster
<1>4. ASSUME NEW h \in Handlers, Sending(h) \/ Noting(h) PROVE Grown
  <2>1. /\ UNCHANGED <<policy, suites, watch, losses, changes, crashes, deaths>>
        /\ refused' = refused \/ refused' = refused + 1
        /\ faults' = faults \/ faults' = faults + 1
    BY <1>4 DEF Sending, Request, InsertFails, Refuse, Noting, AbortRunning, AbortMissing, Record, Stays, Fault,
           cluster
  <2> QED
    BY <1>0, <2>1 DEF Grown
<1>5. ASSUME NEW h \in Handlers, Execute(h) \/ (\E s \in Sources : Event(h, s)) PROVE Grown
  <2>1. CASE Execute(h)
    <3>1. UNCHANGED <<policy, suites, watch, refused, faults, losses, changes, crashes, deaths>>
      BY <2>1 DEF Execute, cluster
    <3> QED
      BY <1>0, <3>1 DEF Grown
  <2>2. CASE \E s \in Sources : Event(h, s)
    <3>1. UNCHANGED <<policy, suites, watch, refused, faults, losses, changes, crashes, deaths>>
      BY <2>2 DEF Event, cluster
    <3> QED
      BY <1>0, <3>1 DEF Grown
  <2> QED
    BY <1>5, <2>1, <2>2
<1>6. ASSUME NEW e \in Execs, End(e) PROVE Grown
  BY <1>0, <1>6 DEF Grown, End, budget, cluster
<1>7. ASSUME NEW t \in Triggers, NEW id \in Ids, Scrape(t, id) PROVE Grown
  BY <1>0, <1>1, <1>7 DEF Grown, Scrape, budget, cluster
<1>8. ASSUME NEW h \in Handlers, Handle(h) PROVE Grown
  BY <1>1, <1>3, <1>4, <1>5, <1>8, HandleKinds
<1> QED
  BY <1>1, <1>2, <1>5, <1>6, <1>7, <1>8 DEF Next

(* No step panics.                                                          *)
LEMMA DeathStep == Typed /\ Known /\ Recorded /\ NeverDies /\ [Next]_vars => NeverDies'
<1> SUFFICES ASSUME Typed, Known, Recorded, NeverDies, [Next]_vars, changes' = 0, refused' = 0
             PROVE  deaths' = 0
  BY DEF NeverDies
<1>0. changes = 0 /\ refused = 0 /\ deaths = 0
  <2>1. changes \in Nat /\ refused \in Nat /\ changes' >= changes /\ refused' >= refused
    BY Onwards DEF Typed, CountsOK, Grown
  <2> QED
    BY <2>1 DEF NeverDies
<1>1. CASE Crash \/ Restart \/ Lead \/ LoseLease \/ UNCHANGED vars
  BY <1>0, <1>1 DEF Crash, Restart, Lead, LoseLease, vars, budget
<1>2. ASSUME NEW t \in Triggers,
             AddTrigger(t) \/ UpdateTrigger(t) \/ DeleteTrigger(t) \/ RemoveTrigger(t)
      PROVE  deaths' = 0
  BY <1>0, <1>2 DEF AddTrigger, UpdateTrigger, DeleteTrigger, RemoveTrigger, budget
<1>3. ASSUME NEW h \in Handlers, Handle(h) \/ (\E s \in Sources : Event(h, s)) PROVE deaths' = 0
  BY <1>0, <1>3, NoPanic, HandleOrPanics, OtherHandlers DEF Panics
<1>4. ASSUME NEW e \in Execs, End(e) PROVE deaths' = 0
  BY <1>0, <1>4 DEF End, budget
<1>5. ASSUME NEW t \in Triggers, NEW id \in Ids, Scrape(t, id) PROVE deaths' = 0
  <2>1. status[t] \in Versions
    BY Constants DEF Typed, NumbersOK
  <2>2. RemoveOk(status[t], id)
    BY <1>0, <2>1, RemovesOnce
  <2> QED
    BY <1>0, <1>5, <2>2 DEF Scrape, budget
<1> QED
  BY <1>1, <1>2, <1>3, <1>4, <1>5 DEF Next

(* While no trigger is changed or deleted and no request is refused, no     *)
(* goroutine of the trigger service panics, in whatever order the handlers, *)
(* the scraper and the ends of executions come.                             *)
THEOREM Survives == Spec => []NeverDies
<1>1. Init => Known /\ Recorded /\ NeverDies
  <2> SUFFICES ASSUME Init PROVE Known /\ Recorded /\ NeverDies
    OBVIOUS
  <2>1. \A h \in Handlers : hs[h].pc = "idle"
    BY DEF Init, Idle
  <2>2. Known
    BY <2>1 DEF Init, Known, Knows, Busy
  <2>3. Recorded
    BY <2>1, EmptyIn DEF Init, Recorded, Fresh
  <2> QED
    BY <2>2, <2>3 DEF Init, NeverDies
<1> QED
  BY <1>1, TypedInit, TypedStep, KnownStep, RecordedStep, DeathStep, PTL DEF Spec

-----------------------------------------------------------------------------
(* While the lease is kept, the triggers stay and the process lives: what   *)
(* the handlers have in hand, and whose executions the lists name.          *)
Calm == losses = 0 /\ changes = 0 /\ crashes = 0 /\ deaths = 0

Settled(r) ==
    /\ ~r.old
    /\ r.pc # "idle" => r.src \in Sources /\ r.left \subseteq watch[r.src]
    /\ Busy(r) => r.trig \in watch[r.src]
    /\ r.pc \in {"abort", "run"} => r.obj = status[r.trig]
    /\ r.pc = "abort" => policy[r.trig] = "replace"

Alone(h, g) == hs[h].pc # "idle" /\ hs[g].pc # "idle" /\ hs[h].src = hs[g].src => h = g

Steady ==
    Calm =>
        /\ ~leading => seen = {}
        /\ \A t \in Triggers : status[t] # 0 => t \in seen
        /\ \A t, u \in Triggers : status[t] = status[u] /\ status[t] # 0 => t = u
        /\ \A h \in Handlers : Settled(hs[h]) /\ \A g \in Handlers : Alone(h, g)

Moving(h) ==
    Local(h) \/ Execute(h) \/ Sending(h) \/ Noting(h) \/ (\E s \in Sources : Event(h, s))

LEMMA CalmCases ==
    ASSUME Typed, Known, [Next]_vars, Calm'
    PROVE  /\ Calm /\ changes = 0 /\ UNCHANGED <<policy, suites, watch>>
           /\ \/ UNCHANGED vars \/ Restart \/ Lead \/ \E t \in Triggers : AddTrigger(t)
              \/ \E h \in Handlers : Moving(h)
              \/ \E e \in Execs : End(e)
              \/ \E t \in Triggers, id \in Ids : Scrape(t, id) /\ ~Panic
<1>1. Grown /\ {losses, changes, crashes, deaths} \subseteq Nat /\ seen \subseteq Triggers
  BY Onwards DEF Typed, CountsOK, ProcessOK
<1>2. Calm /\ changes = 0 /\ UNCHANGED <<policy, suites, watch>>
  BY <1>1 DEF Calm, Grown
<1>3. UNCHANGED <<losses, changes, crashes, deaths>> /\ {losses, changes, crashes, deaths} = {0}
  BY <1>2 DEF Calm
<1>4. ~Panic /\ ~Crash /\ ~LoseLease
  BY <1>3 DEF Panic, Crash, LoseLease
<1>5. \A t \in Triggers : ~UpdateTrigger(t) /\ ~DeleteTrigger(t)
  BY <1>3 DEF UpdateTrigger, DeleteTrigger
<1>6. \A t \in Triggers : ~RemoveTrigger(t)
  BY <1>1, <1>2 DEF RemoveTrigger, Known
<1>7. ASSUME NEW h \in Handlers, Handle(h) PROVE Moving(h)
  BY <1>4, <1>7, HandleKinds DEF Moving
<1> QED
  BY <1>2, <1>4, <1>5, <1>6, <1>7 DEF Next, Moving

LEMMA WatchType == Typed => \A s \in Sources : watch[s] \subseteq Triggers
BY NamesAssumption DEF Typed, ClusterOK

(* The record of the handler that moves.                                    *)
LEMMA SettledMoves ==
    ASSUME Typed, Calm, NEW h \in Handlers, Settled(hs[h]), Moving(h), UNCHANGED <<policy, watch, status>>
    PROVE  /\ Settled(hs[h])'
           /\ hs'[h].pc # "idle" => \/ hs[h].pc # "idle" /\ hs'[h].src = hs[h].src
                                    \/ Event(h, hs'[h].src) /\ hs'[h].src \in Sources
<1>1. CASE Local(h)
  <2>1. Walks(hs[h], hs'[h])
    BY <1>1, LocalFields
  <2>2. CASE hs'[h] = Idle
    BY <2>2 DEF Idle, Settled, Busy
  <2>3. CASE hs'[h] # Idle
    <3>1. hs[h].pc # "idle" /\ Kept(hs[h], hs'[h])
      BY <2>1, <2>3 DEF Walks, Chooses, Probes, Replaces, Permits, Skips, Aborted, Goes
    <3>2. Settled(hs[h])'
      BY <2>1, <2>3 DEF Walks, Kept, Chooses, Probes, Replaces, Permits, Skips, Aborted, Goes, Settled,
                        Busy
    <3> QED
      BY <3>1, <3>2 DEF Kept
  <2> QED
    BY <2>2, <2>3 DEF Idle
<1>2. CASE Sending(h) \/ Noting(h)
  <2>1. Stands(hs[h], hs'[h])
    BY <1>2, RequestFields, RefuseFields, NotingFields DEF Sending
  <2> QED
    BY <2>1 DEF Stands, Kept, Settled, Busy
<1>3. CASE Execute(h)
  BY <1>3, ExecuteFields DEF Kept, Settled, Busy
<1>4. ASSUME NEW s \in Sources, Event(h, s)
      PROVE  Settled(hs[h])' /\ Event(h, hs'[h].src) /\ hs'[h].src \in Sources
  <2>1. /\ hs'[h].pc = "loop" /\ hs'[h].src = s /\ hs'[h].left \subseteq watch[s] /\ hs'[h].old = FALSE
    BY <1>4, EventFields
  <2> QED
    BY <1>4, <2>1 DEF Settled, Busy
<1> QED
  BY <1>1, <1>2, <1>3, <1>4 DEF Moving

LEMMA SteadyMoves ==
    ASSUME Typed, Steady, Calm, NEW h \in Handlers, Moving(h), UNCHANGED <<policy, watch>>,
           UNCHANGED <<leading, seen, status>>
    PROVE  Steady'
<1>0. \A g \in Handlers : Settled(hs[g]) /\ \A f \in Handlers : Alone(g, f)
  BY DEF Steady
<1>1. \A g \in Handlers \ {h} : hs'[g] = hs[g]
  BY OtherHandlers DEF Moving
<1>2. /\ Settled(hs[h])'
      /\ hs'[h].pc # "idle" => \/ hs[h].pc # "idle" /\ hs'[h].src = hs[h].src
                               \/ Event(h, hs'[h].src) /\ hs'[h].src \in Sources
  BY <1>0, SettledMoves
<1>3. \A g \in Handlers : Settled(hs[g])'
  BY <1>0, <1>1, <1>2 DEF Settled
<1>4. ASSUME NEW g \in Handlers \ {h}, hs'[h].pc # "idle", hs[g].pc # "idle", hs'[h].src = hs[g].src
      PROVE  FALSE
  <2>1. CASE hs[h].pc # "idle" /\ hs'[h].src = hs[h].src
    BY <1>0, <1>4, <2>1 DEF Alone
  <2>2. CASE Event(h, hs'[h].src)
    BY <1>0, <1>4, <2>2 DEF Event, Settled
  <2> QED
    BY <1>2, <1>4, <2>1, <2>2
<1>5. ASSUME NEW g \in Handlers, NEW f \in Handlers PROVE Alone(g, f)'
  <2>1. CASE g = f
    BY <2>1 DEF Alone
  <2>2. CASE g = h /\ f # h
    BY <1>1, <1>4, <2>2 DEF Alone
  <2>3. CASE g # h /\ f = h
    BY <1>1, <1>4, <2>3 DEF Alone
  <2>4. CASE g # h /\ f # h
    BY <1>0, <1>1, <2>4 DEF Alone
  <2> QED
    BY <2>1, <2>2, <2>3, <2>4
<1> QED
  BY <1>3, <1>5 DEF Steady

LEMMA SteadyStep == Typed /\ Known /\ Steady /\ [Next]_vars => Steady'
<1> SUFFICES ASSUME Typed, Known, Steady, [Next]_vars, Calm' PROVE Steady'
  BY DEF Steady
<1>0. Calm /\ changes = 0 /\ UNCHANGED <<policy, suites, watch>>
  BY CalmCases
<1>1. ASSUME UNCHANGED <<leading, seen, status, hs>> PROVE Steady'
  BY <1>0, <1>1 DEF Steady, Settled, Alone
<1>2. CASE UNCHANGED vars \/ Restart
  BY <1>1, <1>2 DEF vars, Restart, process, memory
<1>3. CASE Lead
  BY <1>0, <1>3 DEF Lead, memory, Steady, Settled, Alone
<1>4. ASSUME NEW t \in Triggers, AddTrigger(t) PROVE Steady'
  <2>0. /\ leading /\ leading' /\ seen' = seen \cup {t} /\ t \notin seen /\ made \in Nat /\ made' = made + 1
        /\ status \in [Triggers -> 0..made] /\ status' = [status EXCEPT ![t] = made'] /\ hs' = hs
    BY <1>4 DEF AddTrigger, Typed, NumbersOK
  <2>1. /\ status[t] = 0 /\ \A u \in Triggers : status[u] # 0 => u \in seen
        /\ \A v, u \in Triggers : status[v] = status[u] /\ status[v] # 0 => v = u
        /\ \A h \in Handlers : Settled(hs[h]) /\ \A g \in Handlers : Alone(h, g)
    BY <1>0, <2>0 DEF Steady
  <2>2. /\ status'[t] = made' /\ made' # 0 /\ \A u \in Triggers \ {t} : status'[u] = status[u]
        /\ \A u \in Triggers : status[u] # made'
    BY <2>0
  <2>3. \A u \in Triggers : status'[u] # 0 => u \in seen'
    BY <2>0, <2>1, <2>2
  <2>4. \A v, u \in Triggers : status'[v] = status'[u] /\ status'[v] # 0 => v = u
    BY <2>1, <2>2
  <2>5. ASSUME NEW h \in Handlers PROVE Settled(hs[h])'
    <3>1. Busy(hs[h]) => hs[h].trig \in Triggers \ {t}
      BY <1>0, <2>1, HandlerType DEF Known, Knows, Placed
    <3>2. Busy(hs[h]) => status'[hs[h].trig] = status[hs[h].trig]
      BY <2>2, <3>1
    <3> QED
      BY <1>0, <2>0, <2>1, <3>2 DEF Settled, Busy
  <2>6. \A h \in Handlers : \A g \in Handlers : Alone(h, g)'
    BY <2>0, <2>1 DEF Alone
  <2> QED
    BY <2>0, <2>3, <2>4, <2>5, <2>6 DEF Steady
<1>5. ASSUME NEW h \in Handlers, Moving(h) PROVE Steady'
  <2>1. UNCHANGED <<leading, seen, status>>
    BY <1>5 DEF Moving, Local, Pick, Finish, MatchProbes, WaitFails, Forbid, Replace, Permit, AbortSkip,
         AbortDone, ExecuteFails, Started, Stays, Sending, Request, Refuse, Noting, AbortRunning,
         AbortMissing, Record, Execute, Event, process, memory
  <2> QED
    BY <1>0, <1>5, <2>1, SteadyMoves
<1>6. ASSUME NEW e \in Execs, End(e) PROVE Steady'
  BY <1>1, <1>6 DEF End, process, memory
<1>7. ASSUME NEW t \in Triggers, NEW id \in Ids, Scrape(t, id), ~Panic PROVE Steady'
  BY <1>1, <1>7 DEF Scrape, process
<1> QED
  BY <1>2, <1>3, <1>4, <1>5, <1>6, <1>7, CalmCases

-----------------------------------------------------------------------------
(* Whose executions the lists and the handlers name.                        *)
Real(x) == x = 0 \/ x \in DOMAIN exec

Own ==
    /\ \A v \in Versions : \A x : In(x, ids[v]) => Real(x)
    /\ \A h \in Handlers : \A x : In(x, hs[h].resp) => Real(x)
    /\ Calm => \A e \in DOMAIN exec :
                  /\ \A v \in Versions : In(e, ids[v]) => v # 0 /\ v = status[exec[e].trig]
                  /\ \A h \in Handlers : In(e, hs[h].resp) => exec[e].trig = hs[h].trig

(* A step after which every id in a list was there before, or was of the    *)
(* same trigger's.                                                          *)
LEMMA OwnCarries ==
    ASSUME Typed, Own, DOMAIN exec' = DOMAIN exec, Calm' => Calm,
           \A e \in DOMAIN exec : exec'[e].trig = exec[e].trig,
           Calm' => \A t \in Triggers : status[t] # 0 => status'[t] = status[t],
           \A v \in Versions : \A x :
               In(x, ids'[v]) => \/ In(x, ids[v])
                                 \/ Real(x) /\ (Calm' /\ x # 0 => v # 0 /\ v = status'[exec[x].trig]),
           \A h \in Handlers : \A x :
               In(x, hs'[h].resp) => \/ In(x, hs[h].resp) /\ hs'[h].trig = hs[h].trig
                                     \/ Real(x) /\ (Calm' /\ x # 0 => exec[x].trig = hs'[h].trig)
    PROVE  Own'
<1>0. \A e \in DOMAIN exec : exec[e].trig \in Triggers /\ e # 0
  BY StoreTypes DEF Execution
<1>1. /\ \A v \in Versions : \A x : In(x, ids'[v]) => Real(x)'
      /\ \A h \in Handlers : \A x : In(x, hs'[h].resp) => Real(x)'
  BY DEF Own, Real
<1>2. ASSUME Calm', NEW e \in DOMAIN exec
      PROVE  /\ \A v \in Versions : In(e, ids'[v]) => v # 0 /\ v = status'[exec'[e].trig]
             /\ \A h \in Handlers : In(e, hs'[h].resp) => exec'[e].trig = hs'[h].trig
  <2>1. /\ \A v \in Versions : In(e, ids[v]) => v # 0 /\ v = status[exec[e].trig]
        /\ \A h \in Handlers : In(e, hs[h].resp) => exec[e].trig = hs[h].trig
    BY <1>2 DEF Own
  <2> QED
    BY <1>0, <1>2, <2>1
<1> QED
  BY <1>1, <1>2 DEF Own

LEMMA IdleResp ==
    ASSUME Typed, NEW h \in Handlers
    PROVE  /\ hs[h].pc \notin {"abort", "run"} => hs[h].resp = <<>>
           /\ Idle.resp = <<>>
BY HandlerType DEF Placed, Idle

(* The ids that a handler has in hand after one step of its own.            *)
LEMMA RespMoves ==
    ASSUME Typed, Own, Calm' => Calm /\ Steady, Typed', NEW h \in Handlers,
           Local(h) \/ Execute(h) \/ Refuse(h) \/ Noting(h) \/ (\E s \in Sources : Event(h, s)),
           NEW x, In(x, hs'[h].resp)
    PROVE  \/ In(x, hs[h].resp) /\ hs'[h].trig = hs[h].trig
           \/ Real(x) /\ (Calm' /\ x # 0 => exec[x].trig = hs'[h].trig)
<1>1. hs'[h].resp # <<>> /\ (hs'[h].pc \notin {"abort", "run"} => hs'[h].resp = <<>>)
  BY EmptyIn, HandlerType, IdleResp DEF Typed, HandlersOK, Placed
<1>2. CASE Local(h)
  <2>1. Walks(hs[h], hs'[h]) /\ hs'[h] # Idle
    BY <1>1, <1>2, LocalFields, IdleResp
  <2>2. CASE Replaces(hs[h], hs'[h])
    <3>1. PICK t \in Triggers : t = hs'[h].trig
      BY <2>2, HandlerType DEF Replaces, Placed, Busy
    <3>2. status[t] # 0 /\ status[t] \in Versions /\ In(x, ids[status[t]])
      BY <2>2, <3>1, Constants DEF Replaces, Typed, NumbersOK
    <3>3. Real(x)
      BY <3>2 DEF Own
    <3>4. ASSUME Calm', x # 0 PROVE exec[x].trig = t
      <4>1. x \in DOMAIN exec
        BY <3>3, <3>4 DEF Real
      <4>2. status[t] = status[exec[x].trig] /\ exec[x].trig \in Triggers
        BY <3>2, <3>4, <4>1, StoreTypes DEF Own, Execution
      <4> QED
        BY <3>2, <3>4, <4>2 DEF Steady
    <3> QED
      BY <3>1, <3>3, <3>4
  <2>3. CASE Skips(hs[h], hs'[h])
    <3>1. hs[h].resp \in Seq(Ids) /\ hs[h].resp # <<>> /\ hs'[h].resp = Tail(hs[h].resp)
      BY <2>3, HandlerType DEF Skips, Handler
    <3> QED
      BY <2>3, <3>1, TailIn DEF Skips
  <2> QED
    BY <1>1, <2>1, <2>2, <2>3 DEF Walks, Chooses, Probes, Permits, Aborted, Goes
<1>3. CASE Execute(h) \/ (\E s \in Sources : Event(h, s))
  BY <1>1, <1>3, ExecuteFields, EventFields
<1>4. CASE Refuse(h)
  <2>1. PICK id \in Ids : /\ id = 0 \/ (id \in DOMAIN exec /\ exec[id].trig = hs[h].trig)
                          /\ hs'[h].resp = Append(hs[h].resp, id)
    BY <1>4, RefuseFields
  <2>2. hs[h].resp \in Seq(Ids) /\ hs'[h].trig = hs[h].trig
    BY <1>4, RefuseFields DEF Stands
  <2>3. x = id \/ In(x, hs[h].resp)
    BY <2>1, <2>2, AppendIn
  <2> QED
    BY <2>1, <2>2, <2>3 DEF Real
<1>5. CASE Noting(h)
  <2>1. /\ hs[h].resp \in Seq(Ids) /\ hs[h].resp # <<>> /\ hs'[h].resp = Tail(hs[h].resp)
        /\ hs'[h].trig = hs[h].trig
    BY <1>5, NotingFields DEF Stands
  <2> QED
    BY <2>1, TailIn
<1> QED
  BY <1>2, <1>3, <1>4, <1>5

LEMMA OwnRequest ==
    ASSUME Typed, Own, NEW h \in Handlers, Request(h) PROVE Own'
<1>1. /\ Grows(h) /\ UNCHANGED <<ids, status, losses, changes, crashes, deaths>>
      /\ Stands(hs[h], hs'[h]) /\ Len(exec) + 1 \in Ids /\ hs[h].resp \in Seq(Ids)
      /\ hs'[h].resp = Append(hs[h].resp, Len(exec) + 1)
      /\ \A g \in Handlers \ {h} : hs'[g] = hs[g]
  BY RequestEffect, RequestFields, OtherHandlers DEF Request, Stays, Sending
<1>2. PICK n \in Ids : n = Len(exec) + 1
  BY <1>1
<1>3. /\ DOMAIN exec' = DOMAIN exec \cup {n} /\ n \notin DOMAIN exec /\ n # 0
      /\ exec'[n].trig = hs[h].trig /\ \A e \in DOMAIN exec : exec'[e] = exec[e]
  BY <1>1, <1>2, StoreTypes DEF Grows
<1>4. \A x : In(x, hs'[h].resp) <=> x = n \/ In(x, hs[h].resp)
  BY <1>1, <1>2, AppendIn
<1>5. /\ \A v \in Versions : \A x : In(x, ids'[v]) => Real(x)' /\ x # n
      /\ \A g \in Handlers : \A x : In(x, hs[g].resp) => Real(x)' /\ x # n
  BY <1>1, <1>3 DEF Own, Real
<1>6. \A g \in Handlers : \A x : In(x, hs'[g].resp) => Real(x)'
  BY <1>1, <1>3, <1>4, <1>5 DEF Real
<1>7. ASSUME Calm', NEW e \in DOMAIN exec'
      PROVE  /\ \A v \in Versions : In(e, ids'[v]) => v # 0 /\ v = status'[exec'[e].trig]
             /\ \A g \in Handlers : In(e, hs'[g].resp) => exec'[e].trig = hs'[g].trig
  <2>1. hs'[h].trig = hs[h].trig /\ Calm
    BY <1>1, <1>7 DEF Stands, Calm
  <2>2. CASE e = n
    <3>1. ASSUME NEW g \in Handlers, In(n, hs'[g].resp) PROVE g = h
      BY <1>1, <1>5, <3>1
    <3> QED
      BY <1>3, <1>5, <2>1, <2>2, <3>1
  <2>3. CASE e \in DOMAIN exec
    <3>1. /\ \A v \in Versions : In(e, ids[v]) => v # 0 /\ v = status[exec[e].trig]
          /\ \A g \in Handlers : In(e, hs[g].resp) => exec[e].trig = hs[g].trig
      BY <2>1, <2>3 DEF Own
    <3>2. ASSUME NEW g \in Handlers, In(e, hs'[g].resp) PROVE In(e, hs[g].resp) /\ hs'[g].trig = hs[g].trig
      BY <1>1, <1>3, <1>4, <2>1, <2>3, <3>2
    <3> QED
      BY <1>1, <1>3, <2>3, <3>1, <3>2
  <2> QED
    BY <1>3, <2>2, <2>3
<1> QED
  BY <1>5, <1>6, <1>7 DEF Own

LEMMA OwnStep == Typed /\ Typed' /\ Known /\ Steady /\ Own /\ [Next]_vars => Own'
<1> SUFFICES ASSUME Typed, Typed', Known, Steady, Own, [Next]_vars PROVE Own'
  OBVIOUS
<1>0. /\ Calm' => Calm /\ Steady
      /\ UNCHANGED exec => DOMAIN exec' = DOMAIN exec
                           /\ \A e \in DOMAIN exec : exec'[e].trig = exec[e].trig
  BY CalmCases
<1>1. CASE Panic \/ Crash
  <2>1. /\ UNCHANGED exec /\ \A h \in Handlers : hs'[h] = Idle
        /\ \A v \in Versions : ids'[v] = <<>>
    BY <1>1 DEF Panic, Crash, Forget, store
  <2>2. ~Calm'
    BY <1>1, PanicForgets, Constants DEF Calm
  <2> QED
    BY <1>0, <2>1, <2>2, EmptyIn, IdleResp, OwnCarries
<1>2. ASSUME UNCHANGED <<exec, ids, hs>>, Calm' => \A t \in Triggers : status[t] # 0 => status'[t] = status[t]
      PROVE Own'
  BY <1>0, <1>2, OwnCarries
<1>3. CASE Restart \/ Lead \/ UNCHANGED vars
  BY <1>2, <1>3 DEF Restart, Lead, vars, store, memory
<1>4. CASE LoseLease
  <2>1. \A h \in Handlers : hs'[h] = [hs[h] EXCEPT !.old = hs[h].pc # "idle"]
    BY <1>4 DEF LoseLease
  <2>2. ASSUME NEW h \in Handlers PROVE hs'[h].trig = hs[h].trig /\ hs'[h].resp = hs[h].resp
    <3>1. PICK b \in BOOLEAN : b = (hs[h].pc # "idle")
      OBVIOUS
    <3>2. hs'[h] = [hs[h] EXCEPT !.old = b]
      BY <2>1, <3>1
    <3> QED
      BY <3>2, HandlerType DEF Handler
  <2>3. UNCHANGED <<exec, ids, status>>
    BY <1>4 DEF LoseLease, store, memory
  <2> QED
    BY <1>0, <2>2, <2>3, OwnCarries
<1>5. ASSUME NEW t \in Triggers, AddTrigger(t) PROVE Own'
  <2>1. UNCHANGED <<exec, hs, ids>> /\ t \notin seen /\ status' = [status EXCEPT ![t] = made']
    BY <1>5 DEF AddTrigger, store
  <2>2. ASSUME Calm', NEW u \in Triggers, status[u] # 0 PROVE status'[u] = status[u]
    <3>1. u # t
      BY <1>0, <2>1, <2>2 DEF Steady
    <3> QED
      BY <2>1, <3>1 DEF Typed, NumbersOK
  <2> QED
    BY <1>2, <2>1, <2>2
<1>6. ASSUME NEW t \in Triggers, UpdateTrigger(t) \/ DeleteTrigger(t) \/ RemoveTrigger(t) PROVE Own'
  <2>1. UNCHANGED <<exec, hs, ids>>
    <3>1. UNCHANGED <<exec, hs>>
      BY <1>6 DEF UpdateTrigger, DeleteTrigger, RemoveTrigger, store
    <3>2. UNCHANGED ids
      BY <1>6 DEF UpdateTrigger, DeleteTrigger, RemoveTrigger, memory
    <3> QED
      BY <3>1, <3>2
  <2>2. ~Calm'
    <3>1. ASSUME Calm' PROVE FALSE
      <4>1. changes' = 0 /\ changes = 0 /\ changes \in Nat /\ seen \subseteq Triggers
        BY <3>1, CalmCases DEF Calm, Typed, CountsOK, ProcessOK
      <4>2. present = Triggers
        BY <4>1 DEF Known
      <4> QED
        BY <1>6, <4>1, <4>2 DEF UpdateTrigger, DeleteTrigger, RemoveTrigger
    <3> QED
      BY <3>1
  <2> QED
    BY <1>2, <2>1, <2>2
<1>7. ASSUME NEW h \in Handlers,
             Local(h) \/ Execute(h) \/ Refuse(h) \/ Noting(h) \/ (\E s \in Sources : Event(h, s))
      PROVE  Own'
  <2>1. /\ \A g \in Handlers \ {h} : hs'[g] = hs[g] /\ status' = status
    BY <1>7, OtherHandlers DEF Sending
  <2>2. \A x : In(x, hs'[h].resp) =>
                 \/ In(x, hs[h].resp) /\ hs'[h].trig = hs[h].trig
                 \/ Real(x) /\ (Calm' /\ x # 0 => exec[x].trig = hs'[h].trig)
    BY <1>0, <1>7, RespMoves
  <2>3. \A g \in Handlers : \A x :
           In(x, hs'[g].resp) => \/ In(x, hs[g].resp) /\ hs'[g].trig = hs[g].trig
                                 \/ Real(x) /\ (Calm' /\ x # 0 => exec[x].trig = hs'[g].trig)
    BY <2>1, <2>2
  <2>4. status' = status
    BY <1>7, OtherHandlers DEF Sending
  <2>5. DOMAIN exec' = DOMAIN exec /\ \A e \in DOMAIN exec : exec'[e].trig = exec[e].trig
    <3>1. CASE AbortRunning(h)
      BY <3>1, AbortEffect DEF Comes
    <3>2. CASE ~AbortRunning(h)
      <4>1. UNCHANGED exec
        BY <1>7, <3>2, NotRunning, MissingEffect, RecordEffect DEF Noting, Refuse, store
      <4> QED
        BY <1>0, <4>1
    <3> QED
      BY <3>1, <3>2
  <2>6. ASSUME NEW v \in Versions, NEW x, In(x, ids'[v])
        PROVE  \/ In(x, ids[v])
               \/ Real(x) /\ (Calm' /\ x # 0 => v # 0 /\ v = status'[exec[x].trig])
    <3>1. CASE AbortRunning(h) \/ AbortMissing(h)
      BY <2>6, <3>1, AbortEffect, MissingEffect DEF Drops
    <3>2. CASE Record(h)
      <4>1. /\ Adds(Head(hs[h].resp), hs[h].obj) /\ hs[h].obj \in Versions \ {0}
            /\ hs[h].pc = "run" /\ hs[h].resp \in Seq(Ids) /\ hs[h].resp # <<>>
        BY <3>2, RecordEffect, NotingFields DEF Noting
      <4>2. In(x, ids[v]) \/ (v = hs[h].obj /\ x = Head(hs[h].resp))
        BY <2>6, <4>1 DEF Adds
      <4>3. ASSUME v = hs[h].obj, x = Head(hs[h].resp)
            PROVE  Real(x) /\ (Calm' /\ x # 0 => v # 0 /\ v = status'[exec[x].trig])
        <5>1. In(x, hs[h].resp)
          BY <4>1, <4>3, TailIn
        <5>2. Real(x)
          BY <5>1 DEF Own
        <5>3. ASSUME Calm', x # 0 PROVE v # 0 /\ v = status'[exec[x].trig]
          <6>1. x \in DOMAIN exec /\ Calm /\ Steady
            BY <1>0, <5>2, <5>3 DEF Real
          <6>2. exec[x].trig = hs[h].trig
            BY <5>1, <6>1 DEF Own
          <6>3. hs[h].obj = status[hs[h].trig]
            BY <4>1, <6>1 DEF Steady, Settled
          <6> QED
            BY <2>4, <4>1, <4>3, <6>2, <6>3
        <5> QED
          BY <5>2, <5>3
      <4> QED
        BY <4>2, <4>3
    <3>3. CASE ~Noting(h)
      <4>1. UNCHANGED ids
        BY <1>7, <3>3, NotRunning DEF Refuse, memory
      <4> QED
        BY <2>6, <4>1
    <3> QED
      BY <3>1, <3>2, <3>3 DEF Noting
  <2>7. Calm' => \A t \in Triggers : status[t] # 0 => status'[t] = status[t]
    BY <2>4
  <2>8. Calm' => Calm
    BY <1>0
  <2> QED
    BY <2>3, <2>5, <2>6, <2>7, <2>8, OwnCarries
<1>8. ASSUME NEW e \in Execs, End(e) PROVE Own'
  <2>1. Comes(e, "ended") /\ UNCHANGED <<ids, hs, status>>
    BY <1>8, EndEffect DEF End, memory
  <2>2. DOMAIN exec' = DOMAIN exec /\ \A f \in DOMAIN exec : exec'[f].trig = exec[f].trig
    BY <2>1 DEF Comes
  <2> QED
    BY <1>0, <2>1, <2>2, OwnCarries
<1>9. ASSUME NEW t \in Triggers, NEW id \in Ids, Scrape(t, id), ~Panic PROVE Own'
  <2>1. Drops(id) /\ UNCHANGED <<exec, hs, status>>
    BY <1>9, ScrapeEffect
  <2>2. \A v \in Versions : \A x : In(x, ids'[v]) => In(x, ids[v])
    BY <2>1 DEF Drops
  <2> QED
    BY <1>0, <2>1, <2>2, OwnCarries
<1>10. ASSUME NEW h \in Handlers, Handle(h) PROVE Own'
  BY <1>1, <1>7, <1>10, HandleKinds, OwnRequest DEF Sending
<1> QED
  BY <1>1, <1>3, <1>4, <1>5, <1>6, <1>7, <1>8, <1>9, <1>10 DEF Next

-----------------------------------------------------------------------------
(* One round of executions for a quiet trigger.                             *)
Runs(t) == {e \in DOMAIN exec : exec[e].trig = t /\ exec[e].st # "ended"}

OneOf(t)  == \A e, f \in Runs(t) : exec[e].round = exec[f].round

(* What runs is in the list of the trigger's status, or on the way to it.   *)
Recording(h, t, e) == hs[h].pc = "run" /\ hs[h].trig = t /\ In(e, hs[h].resp)
Noted(t, e) ==
    \/ status[t] # 0 /\ In(e, ids[status[t]])
    \/ \E h \in Handlers : Recording(h, t, e)

(* What the handler that has chosen the trigger knows of it.                *)
Serves(h, t) ==
    hs[h].trig = t =>
        /\ hs[h].pc = "execute" => Runs(t) = {}
        /\ hs[h].pc = "run" => \A e \in Runs(t) : exec[e].round = hs[h].round
        /\ hs[h].pc = "abort" => \A e \in Runs(t) : In(e, hs[h].resp)

RoundOf(t) == OneOf(t) /\ (\A e \in Runs(t) : Noted(t, e)) /\ \A h \in Handlers : Serves(h, t)
Rounds     == \A t \in Triggers : Quiet(t) => RoundOf(t)

LEMMA OneHandler ==
    ASSUME Typed, Steady, NEW t \in Triggers, Quiet(t), NEW g \in Handlers, NEW h \in Handlers,
           Busy(hs[g]), Busy(hs[h]), hs[g].trig = t, hs[h].trig = t
    PROVE  g = h
<1> DEFINE W == {s \in Sources : t \in watch[s]}
<1>1. IsFiniteSet(W) /\ Cardinality(W) = 1
  <2>1. IsFiniteSet(Sources) /\ W \in SUBSET Sources
    BY NamesAssumption
  <2> QED
    BY <2>1, FS_Subset DEF Quiet
<1>2. PICK s : W = {s}
  <2> HIDE DEF W
  <2> QED
    BY <1>1, FS_Singleton
<1>3. Calm /\ \A f \in Handlers : Settled(hs[f]) /\ \A k \in Handlers : Alone(f, k)
  BY DEF Quiet, Calm, Steady
<1>4. \A f \in {g, h} : hs[f].pc # "idle" /\ hs[f].src \in W
  BY <1>3 DEF Settled, Busy
<1> QED
  BY <1>2, <1>3, <1>4 DEF Alone

(* A step after which nothing new runs, and what runs is noted as before.   *)
LEMMA RoundCarries ==
    ASSUME NEW t \in Triggers, RoundOf(t), Runs(t)' \subseteq Runs(t),
           \A e \in Runs(t) : exec'[e].round = exec[e].round,
           status[t] # 0 => status'[t] = status[t],
           \A e \in Runs(t)' : In(e, ids[status[t]]) /\ status[t] # 0 => In(e, ids'[status[t]]),
           \A e \in Runs(t)' : \A h \in Handlers :
               Recording(h, t, e) =>
                   Recording(h, t, e)' \/ (status[t] # 0 /\ In(e, ids'[status[t]])),
           \A h \in Handlers :
               \/ Serves(h, t)'
               \/ /\ hs'[h].trig = hs[h].trig /\ hs'[h].pc = hs[h].pc /\ hs'[h].round = hs[h].round
                  /\ \A e \in Runs(t)' : In(e, hs[h].resp) => In(e, hs'[h].resp)
    PROVE  RoundOf(t)'
<1>1. OneOf(t)'
  BY DEF RoundOf, OneOf
<1>2. ASSUME NEW e \in Runs(t)' PROVE Noted(t, e)'
  <2>1. Noted(t, e)
    BY DEF RoundOf
  <2>2. CASE status[t] # 0 /\ In(e, ids[status[t]])
    BY <2>2 DEF Noted
  <2>3. ASSUME NEW h \in Handlers, Recording(h, t, e) PROVE Noted(t, e)'
    BY <2>3 DEF Noted
  <2> QED
    BY <2>1, <2>2, <2>3 DEF Noted
<1>3. ASSUME NEW h \in Handlers PROVE Serves(h, t)'
  <2>1. Serves(h, t)
    BY DEF RoundOf
  <2>2. CASE /\ hs'[h].trig = hs[h].trig /\ hs'[h].pc = hs[h].pc /\ hs'[h].round = hs[h].round
             /\ \A e \in Runs(t)' : In(e, hs[h].resp) => In(e, hs'[h].resp)
    BY <2>1, <2>2 DEF Serves
  <2> QED
    BY <2>2
<1> QED
  BY <1>1, <1>2, <1>3 DEF RoundOf

(* A quiet trigger was quiet before the step.                               *)
LEMMA QuietBack ==
    ASSUME Typed, Known, [Next]_vars, NEW t \in Triggers, Quiet(t)'
    PROVE  Quiet(t) /\ Calm' /\ Calm /\ (policy[t] = "replace" => t \notin suites /\ faults' = 0)
           /\ policy[t] # "allow" 
<1>1. Calm'
  BY DEF Quiet, Calm
<1>2. Calm /\ UNCHANGED <<policy, suites, watch>>
  BY <1>1, CalmCases
<1>3. faults \in Nat /\ faults' >= faults
  BY Onwards DEF Typed, CountsOK, Grown
<1>4. /\ Cardinality({s \in Sources : t \in watch[s]}) = 1
      /\ policy[t] = "forbid" \/ (policy[t] = "replace" /\ t \notin suites /\ faults' = 0)
  BY <1>2 DEF Quiet
<1>5. policy[t] = "forbid" \/ (policy[t] = "replace" /\ t \notin suites /\ faults = 0)
  BY <1>3, <1>4
<1>6. hidden = {}
  BY HiddenStep DEF Quiet
<1>7. Quiet(t)
  BY <1>2, <1>4, <1>5, <1>6 DEF Quiet, Calm
<1> QED
  BY <1>1, <1>2, <1>4, <1>7

(* The same executions run, in the same lists.                              *)
LEMMA SameRuns ==
    ASSUME NEW t \in Triggers, UNCHANGED exec
    PROVE  Runs(t)' = Runs(t) /\ \A e \in Runs(t) : exec'[e].round = exec[e].round
BY DEF Runs

LEMMA RoundLocal ==
    ASSUME Typed, Known, Steady, NEW t \in Triggers, Quiet(t), Quiet(t)', RoundOf(t), [Next]_vars,
           NEW h \in Handlers, Local(h)
    PROVE  RoundOf(t)'
<1>0. Calm /\ (policy[t] = "replace" => t \notin suites /\ faults' = 0) /\ policy[t] # "allow"
  BY QuietBack
<1>1. UNCHANGED <<exec, ids, status>> /\ Runs(t)' = Runs(t) /\ \A g \in Handlers \ {h} : hs'[g] = hs[g]
  <2>1. UNCHANGED <<exec, ids>> /\ (\A g \in Handlers \ {h} : hs'[g] = hs[g])
    BY NotRunning, OtherHandlers
  <2>2. UNCHANGED status
    BY OtherHandlers
  <2> QED
    BY <2>1, <2>2, SameRuns
<1>2. Walks(hs[h], hs'[h])
  BY LocalFields
<1>3. \A e : ~Recording(h, t, e)
  <2>1. hs[h].pc = "run" => hs[h].resp = <<>>
    BY <1>2 DEF Walks, Chooses, Probes, Replaces, Permits, Skips, Aborted, Goes
  <2> QED
    BY <2>1, EmptyIn DEF Recording
<1>4. ASSUME Busy(hs[h]), hs[h].trig = t, NEW e \in Runs(t)
      PROVE  status[t] # 0 /\ In(e, ids[status[t]])
  <2>1. Noted(t, e)
    BY <1>4 DEF RoundOf
  <2>2. ASSUME NEW g \in Handlers, Recording(g, t, e) PROVE FALSE
    <3>1. Busy(hs[g]) /\ hs[g].trig = t
      BY <2>2 DEF Recording, Busy
    <3>2. g = h
      BY <1>4, <3>1, OneHandler
    <3> QED
      BY <1>3, <2>2, <3>2
  <2> QED
    BY <2>1, <2>2 DEF Noted
<1>5. ASSUME hs'[h].trig = t
      PROVE  /\ hs'[h].pc = "execute" => Runs(t) = {}
             /\ hs'[h].pc # "run"
             /\ hs'[h].pc = "abort" => \A e \in Runs(t) : In(e, hs'[h].resp)
  <2>1. CASE hs'[h] = Idle
    BY <2>1 DEF Idle
  <2>2. CASE Permits(hs[h], hs'[h])
    <3>1. Busy(hs[h]) /\ hs[h].trig = t /\ hs'[h].pc = "execute" /\ status[t] # 0 /\ ids[status[t]] = <<>>
      BY <1>0, <1>5, <2>2 DEF Permits, Busy
    <3> QED
      BY <1>4, <3>1, EmptyIn
  <2>3. CASE Replaces(hs[h], hs'[h])
    <3>1. Busy(hs[h]) /\ hs[h].trig = t /\ hs'[h].pc = "abort" /\ hs'[h].resp = ids[status[t]]
      BY <1>5, <2>3 DEF Replaces, Busy
    <3> QED
      BY <1>4, <3>1
  <2>4. CASE Skips(hs[h], hs'[h])
    <3>1. /\ hs[h].pc = "abort" /\ hs[h].trig = t /\ hs'[h].pc = "abort"
          /\ hs[h].resp \in Seq(Ids) /\ hs[h].resp # <<>> /\ hs'[h].resp = Tail(hs[h].resp)
      BY <1>5, <2>4, HandlerType DEF Skips, Handler
    <3>2. policy[t] = "replace"
      BY <1>0, <3>1 DEF Steady, Settled
    <3>3. ~Missing(Head(hs[h].resp)) /\ ~Running(Head(hs[h].resp))
      BY <1>0, <2>4, <3>2 DEF Skips
    <3>4. Head(hs[h].resp) \notin Runs(t)
      BY <3>3 DEF Running, Runs
    <3>5. \A e \in Runs(t) : In(e, hs[h].resp)
      BY <3>1 DEF RoundOf, Serves
    <3> QED
      BY <3>1, <3>4, <3>5, TailIn
  <2>5. CASE Aborted(hs[h], hs'[h])
    <3>1. hs[h].pc = "abort" /\ hs[h].trig = t /\ hs'[h].pc = "execute" /\ hs[h].resp = <<>>
      BY <1>5, <2>5 DEF Aborted
    <3>2. \A e \in Runs(t) : In(e, hs[h].resp)
      BY <3>1 DEF RoundOf, Serves
    <3> QED
      BY <3>1, <3>2, EmptyIn
  <2>6. CASE Chooses(hs[h], hs'[h]) \/ Probes(hs[h], hs'[h]) \/ Goes(hs[h], hs'[h])
    BY <2>6 DEF Chooses, Probes, Goes
  <2> QED
    BY <1>2, <2>1, <2>2, <2>3, <2>4, <2>5, <2>6 DEF Walks
<1>6. Serves(h, t)'
  BY <1>1, <1>5 DEF Serves
<1>7. ASSUME NEW g \in Handlers
      PROVE  \/ Serves(g, t)'
             \/ /\ hs'[g].trig = hs[g].trig /\ hs'[g].pc = hs[g].pc /\ hs'[g].round = hs[g].round
                /\ \A e \in Runs(t)' : In(e, hs[g].resp) => In(e, hs'[g].resp)
  BY <1>1, <1>6
<1>8. \A e \in Runs(t)' : \A g \in Handlers : Recording(g, t, e) => Recording(g, t, e)'
  BY <1>1, <1>3 DEF Recording
<1>9. \A e \in Runs(t) : exec'[e].round = exec[e].round
  BY <1>1
<1> QED
  BY <1>1, <1>7, <1>8, <1>9, RoundCarries

(* A new execution is of the round of its handler, the only one at work for *)
(* the trigger.                                                             *)
LEMMA RoundRequest ==
    ASSUME Typed, Known, Steady, NEW t \in Triggers, Quiet(t), RoundOf(t),
           NEW h \in Handlers, Request(h)
    PROVE  RoundOf(t)'
<1>1. /\ Grows(h) /\ UNCHANGED <<ids, status>>
      /\ Stands(hs[h], hs'[h]) /\ Len(exec) + 1 \in Ids /\ hs[h].resp \in Seq(Ids)
      /\ hs'[h].resp = Append(hs[h].resp, Len(exec) + 1) /\ hs[h].pc = "run"
      /\ \A g \in Handlers \ {h} : hs'[g] = hs[g]
  BY RequestEffect, RequestFields, OtherHandlers DEF Request, Stays, Sending
<1>2. PICK n \in Ids : n = Len(exec) + 1
  BY <1>1
<1>3. /\ DOMAIN exec' = DOMAIN exec \cup {n} /\ n \notin DOMAIN exec
      /\ exec'[n].trig = hs[h].trig /\ exec'[n].round = hs[h].round
      /\ \A e \in DOMAIN exec : exec'[e] = exec[e]
  BY <1>1, <1>2 DEF Grows
<1>4. \A x : In(x, hs'[h].resp) <=> x = n \/ In(x, hs[h].resp)
  BY <1>1, <1>2, AppendIn
<1>5. /\ hs'[h].pc = "run" /\ hs'[h].trig = hs[h].trig /\ hs'[h].round = hs[h].round
  BY <1>1 DEF Stands, Kept
<1>6. CASE hs[h].trig # t
  <2>1. Runs(t)' = Runs(t) /\ \A e \in Runs(t) : exec'[e].round = exec[e].round
    BY <1>3, <1>6 DEF Runs
  <2>2. Serves(h, t)'
    BY <1>5, <1>6 DEF Serves
  <2>3. \A e \in Runs(t)' : \A g \in Handlers : Recording(g, t, e) => Recording(g, t, e)'
    BY <1>1, <1>6 DEF Recording
  <2>4. \A g \in Handlers :
           \/ Serves(g, t)'
           \/ /\ hs'[g].trig = hs[g].trig /\ hs'[g].pc = hs[g].pc /\ hs'[g].round = hs[g].round
              /\ \A e \in Runs(t)' : In(e, hs[g].resp) => In(e, hs'[g].resp)
    BY <1>1, <2>2
  <2> QED
    BY <1>1, <2>1, <2>3, <2>4, RoundCarries
<1>7. CASE hs[h].trig = t
  <2>1. Runs(t)' \subseteq Runs(t) \cup {n} /\ \A e \in Runs(t) : exec'[e].round = exec[e].round
    BY <1>3 DEF Runs
  <2>2. \A e \in Runs(t) : exec[e].round = hs[h].round
    BY <1>1, <1>7 DEF RoundOf, Serves
  <2>3. \A e \in Runs(t)' : exec'[e].round = hs[h].round
    BY <1>3, <2>1, <2>2
  <2>4. OneOf(t)'
    BY <2>3 DEF OneOf
  <2>5. ASSUME NEW e \in Runs(t)' PROVE Noted(t, e)'
    <3>1. CASE e = n
      <4>1. Recording(h, t, e)'
        BY <1>4, <1>5, <1>7, <3>1 DEF Recording
      <4> QED
        BY <4>1 DEF Noted
    <3>2. CASE e \in Runs(t)
      <4>1. \A g \in Handlers : Recording(g, t, e) => Recording(g, t, e)'
        BY <1>1, <1>4, <1>5 DEF Recording
      <4>2. Noted(t, e)
        BY <3>2 DEF RoundOf
      <4> QED
        BY <1>1, <4>1, <4>2 DEF Noted
    <3> QED
      BY <2>1, <3>1, <3>2
  <2>6. ASSUME NEW g \in Handlers PROVE Serves(g, t)'
    <3>1. CASE g = h
      BY <1>5, <2>3, <3>1 DEF Serves
    <3>2. CASE g # h
      <4>1. hs'[g] = hs[g] /\ ~(Busy(hs[g]) /\ hs[g].trig = t)
        BY <1>1, <1>7, <3>2, OneHandler DEF Busy
      <4> QED
        BY <4>1 DEF Serves, Busy
    <3> QED
      BY <3>1, <3>2
  <2> QED
    BY <2>4, <2>5, <2>6 DEF RoundOf
<1> QED
  BY <1>6, <1>7

(* What is aborted was running for the trigger of the handler, and ends.    *)
LEMMA RoundAbort ==
    ASSUME Typed, Known, Steady, Own, NEW t \in Triggers, Quiet(t), Quiet(t)', RoundOf(t), [Next]_vars,
           NEW h \in Handlers, AbortRunning(h) \/ AbortMissing(h)
    PROVE  RoundOf(t)'
<1>0. Calm /\ (policy[t] = "replace" => t \notin suites)
  BY QuietBack
<1>1. /\ Stands(hs[h], hs'[h]) /\ hs[h].resp \in Seq(Ids) /\ hs[h].resp # <<>>
      /\ hs'[h].resp = Tail(hs[h].resp) /\ hs[h].pc = "abort"
      /\ UNCHANGED status /\ \A g \in Handlers \ {h} : hs'[g] = hs[g]
  BY NotingFields, OtherHandlers DEF Noting, AbortRunning, AbortMissing, Aborting
<1>2. PICK id : id = Head(hs[h].resp)
  OBVIOUS
<1>3. policy[hs[h].trig] = "replace"
  BY <1>0, <1>1 DEF Steady, Settled
<1>4. /\ Drops(id) /\ Runs(t)' \subseteq Runs(t) /\ id \notin Runs(t)'
      /\ \A e \in Runs(t) : exec'[e].round = exec[e].round
  <2>1. CASE AbortRunning(h)
    <3>1. /\ Comes(id, IF hs[h].trig \in suites THEN "asked" ELSE "ended") /\ Drops(id)
          /\ id # 0 /\ exec[id].st # "ended"
      BY <1>2, <2>1, AbortEffect DEF AbortRunning, Running, Missing
    <3>2. In(id, hs[h].resp)
      BY <1>1, <1>2, TailIn
    <3>3. id \in DOMAIN exec
      BY <3>1, <3>2 DEF Own, Real
    <3>4. exec[id].trig = hs[h].trig
      BY <1>0, <3>2, <3>3 DEF Own
    <3>5. id \notin Runs(t)'
      <4>1. CASE hs[h].trig = t
        BY <1>0, <1>3, <3>1, <3>3, <4>1 DEF Comes, Runs
      <4>2. CASE hs[h].trig # t
        BY <3>1, <3>3, <3>4, <4>2 DEF Comes, Runs
      <4> QED
        BY <4>1, <4>2
    <3>6. /\ Runs(t)' \subseteq Runs(t)
          /\ \A e \in Runs(t) : exec'[e].round = exec[e].round
      BY <3>1, <3>5 DEF Comes, Runs
    <3> QED
      BY <3>1, <3>5, <3>6
  <2>2. CASE AbortMissing(h)
    <3>1. Drops(id) /\ UNCHANGED exec /\ id = 0
      BY <1>2, <2>2, MissingEffect DEF Missing, Quiet
    <3>2. 0 \notin DOMAIN exec
      BY StoreTypes
    <3> QED
      BY <3>1, <3>2 DEF Runs
  <2> QED
    BY <2>1, <2>2
<1>5. \A e \in Runs(t)' : status[t] # 0 /\ In(e, ids[status[t]]) => In(e, ids'[status[t]])
  <2>1. status[t] \in Versions
    BY Constants DEF Typed, NumbersOK
  <2> QED
    BY <1>4, <2>1 DEF Drops
<1>6. \A e \in Runs(t)' : In(e, hs[h].resp) => In(e, hs'[h].resp)
  BY <1>1, <1>2, <1>4, TailIn
<1>7. \A e \in Runs(t)' : \A g \in Handlers : Recording(g, t, e) => Recording(g, t, e)'
  BY <1>1 DEF Recording
<1>8. \A g \in Handlers :
         /\ hs'[g].trig = hs[g].trig /\ hs'[g].pc = hs[g].pc /\ hs'[g].round = hs[g].round
         /\ \A e \in Runs(t)' : In(e, hs[g].resp) => In(e, hs'[g].resp)
  BY <1>1, <1>6 DEF Stands, Kept
<1> QED
  BY <1>1, <1>4, <1>5, <1>7, <1>8, RoundCarries

LEMMA RoundRecord ==
    ASSUME Typed, Steady, Calm, NEW t \in Triggers, RoundOf(t), NEW h \in Handlers, Record(h)
    PROVE  RoundOf(t)'
<1>1. /\ Stands(hs[h], hs'[h]) /\ hs[h].resp \in Seq(Ids) /\ hs[h].resp # <<>>
      /\ hs'[h].resp = Tail(hs[h].resp) /\ hs[h].pc = "run"
      /\ UNCHANGED status /\ \A g \in Handlers \ {h} : hs'[g] = hs[g]
  BY NotingFields, OtherHandlers DEF Noting
<1>2. /\ Adds(Head(hs[h].resp), hs[h].obj) /\ UNCHANGED exec /\ hs[h].obj \in Versions \ {0}
      /\ hs[h].obj = status[hs[h].trig]
  BY <1>1, RecordEffect DEF Steady, Settled
<1>3. Runs(t)' = Runs(t) /\ \A e \in Runs(t) : exec'[e].round = exec[e].round
  BY <1>2, SameRuns
<1>4. \A e \in Runs(t)' : status[t] # 0 /\ In(e, ids[status[t]]) => In(e, ids'[status[t]])
  <2>1. status[t] \in Versions
    BY Constants DEF Typed, NumbersOK
  <2> QED
    BY <1>2, <2>1 DEF Adds
<1>5. ASSUME NEW e \in Runs(t)', NEW g \in Handlers, Recording(g, t, e)
      PROVE  Recording(g, t, e)' \/ (status[t] # 0 /\ In(e, ids'[status[t]]))
  <2>1. CASE g # h
    BY <1>1, <1>5, <2>1 DEF Recording
  <2>2. CASE g = h
    <3>1. e = Head(hs[h].resp) \/ In(e, Tail(hs[h].resp))
      BY <1>1, <1>5, <2>2, TailIn DEF Recording
    <3>2. ASSUME e = Head(hs[h].resp) PROVE status[t] # 0 /\ In(e, ids'[status[t]])
      BY <1>2, <1>5, <2>2, <3>2 DEF Adds, Recording
    <3>3. ASSUME In(e, Tail(hs[h].resp)) PROVE Recording(g, t, e)'
      BY <1>1, <1>5, <2>2, <3>3 DEF Recording, Stands
    <3> QED
      BY <3>1, <3>2, <3>3
  <2> QED
    BY <2>1, <2>2
<1>6. Serves(h, t)'
  <2>1. Serves(h, t) /\ hs'[h].trig = hs[h].trig /\ hs'[h].pc = "run" /\ hs'[h].round = hs[h].round
    BY <1>1 DEF RoundOf, Stands, Kept
  <2> QED
    BY <1>1, <1>3, <2>1 DEF Serves
<1>7. \A g \in Handlers :
         \/ Serves(g, t)'
         \/ /\ hs'[g].trig = hs[g].trig /\ hs'[g].pc = hs[g].pc /\ hs'[g].round = hs[g].round
            /\ \A e \in Runs(t)' : In(e, hs[g].resp) => In(e, hs'[g].resp)
  BY <1>1, <1>6
<1> QED
  BY <1>1, <1>3, <1>4, <1>5, <1>7, RoundCarries

-----------------------------------------------------------------------------
LEMMA RoundStep ==
    ASSUME Typed, Known, Steady, Own, Rounds, [Next]_vars, NEW t \in Triggers, Quiet(t)'
    PROVE  RoundOf(t)'
<1>0. Quiet(t) /\ Calm /\ RoundOf(t) /\ Calm'
  BY QuietBack DEF Rounds
<1>1. ASSUME UNCHANGED <<exec, ids, hs>>, status[t] # 0 => status'[t] = status[t] PROVE RoundOf(t)'
  <2>1. Runs(t)' = Runs(t) /\ \A e \in Runs(t) : exec'[e].round = exec[e].round
    BY <1>1, SameRuns
  <2>2. \A e \in Runs(t)' : \A g \in Handlers : Recording(g, t, e) => Recording(g, t, e)'
    BY <1>1 DEF Recording
  <2> QED
    BY <1>0, <1>1, <2>1, <2>2, RoundCarries
<1>2. CASE Restart \/ Lead \/ UNCHANGED vars
  BY <1>1, <1>2 DEF Restart, Lead, vars, store, memory
<1>3. ASSUME NEW u \in Triggers, AddTrigger(u) PROVE RoundOf(t)'
  <2>1. UNCHANGED <<exec, hs, ids>> /\ u \notin seen /\ status' = [status EXCEPT ![u] = made']
    BY <1>3 DEF AddTrigger, store
  <2>2. ASSUME status[t] # 0 PROVE status'[t] = status[t]
    <3>1. u # t
      BY <1>0, <2>1, <2>2 DEF Steady
    <3> QED
      BY <2>1, <3>1 DEF Typed, NumbersOK
  <2> QED
    BY <1>1, <2>1, <2>2
<1>4. ASSUME NEW h \in Handlers, Local(h) PROVE RoundOf(t)'
  BY <1>0, <1>4, RoundLocal
<1>5. ASSUME NEW h \in Handlers, Noting(h) PROVE RoundOf(t)'
  BY <1>0, <1>5, RoundAbort, RoundRecord DEF Noting
<1>6. ASSUME NEW h \in Handlers, Execute(h) \/ Refuse(h) \/ (\E s \in Sources : Event(h, s))
      PROVE  RoundOf(t)'
  <2>1. UNCHANGED <<exec, ids>>
    BY <1>6, NotRunning DEF Refuse, store, memory
  <2>2. UNCHANGED status /\ \A g \in Handlers \ {h} : hs'[g] = hs[g]
    BY <1>6, OtherHandlers DEF Sending
  <2>3. Runs(t)' = Runs(t) /\ \A e \in Runs(t) : exec'[e].round = exec[e].round
    BY <2>1, SameRuns
  <2>4. \A e : Recording(h, t, e) => Recording(h, t, e)'
    <3>1. CASE Refuse(h)
      <4>1. PICK id \in Ids : hs'[h].resp = Append(hs[h].resp, id)
        BY <3>1, RefuseFields
      <4>2. Stands(hs[h], hs'[h]) /\ hs[h].resp \in Seq(Ids)
        BY <3>1, RefuseFields
      <4>3. \A e : In(e, hs[h].resp) => In(e, hs'[h].resp)
        BY <4>1, <4>2, AppendIn
      <4> QED
        BY <4>2, <4>3 DEF Recording, Stands
    <3>2. CASE Execute(h) \/ \E s \in Sources : Event(h, s)
      <4>1. hs[h].pc # "run"
        BY <3>2 DEF Execute, Event
      <4> QED
        BY <4>1 DEF Recording
    <3> QED
      BY <1>6, <3>1, <3>2
  <2>5. Serves(h, t)'
    <3>0. Serves(h, t)
      BY <1>0 DEF RoundOf
    <3>1. CASE Refuse(h)
      <4>1. /\ hs'[h].trig = hs[h].trig /\ hs'[h].pc = "run" /\ hs[h].pc = "run"
            /\ hs'[h].round = hs[h].round
        BY <3>1, RefuseFields DEF Stands, Kept
      <4> QED
        BY <2>1, <2>3, <3>0, <4>1 DEF Serves
    <3>2. CASE Execute(h)
      <4>1. hs'[h].trig = hs[h].trig /\ hs[h].pc = "execute" /\ hs'[h].pc = "run"
        BY <3>2, ExecuteFields
      <4> QED
        BY <2>3, <3>0, <4>1 DEF Serves
    <3>3. CASE \E s \in Sources : Event(h, s)
      <4>1. hs'[h].pc = "loop"
        BY <3>3, EventFields
      <4> QED
        BY <4>1 DEF Serves
    <3> QED
      BY <1>6, <3>1, <3>2, <3>3
  <2>6. \A e \in Runs(t)' : \A g \in Handlers : Recording(g, t, e) => Recording(g, t, e)'
    BY <2>2, <2>4 DEF Recording
  <2>7. \A g \in Handlers :
           \/ Serves(g, t)'
           \/ /\ hs'[g].trig = hs[g].trig /\ hs'[g].pc = hs[g].pc /\ hs'[g].round = hs[g].round
              /\ \A e \in Runs(t)' : In(e, hs[g].resp) => In(e, hs'[g].resp)
    BY <2>2, <2>5
  <2> QED
    BY <1>0, <2>1, <2>2, <2>3, <2>6, <2>7, RoundCarries
<1>7. ASSUME NEW h \in Handlers, Request(h) PROVE RoundOf(t)'
  BY <1>0, <1>7, RoundRequest
<1>8. ASSUME NEW x \in Execs, End(x) PROVE RoundOf(t)'
  <2>1. Comes(x, "ended") /\ UNCHANGED <<ids, hs, status>>
    BY <1>8, EndEffect DEF End, memory
  <2>2. Runs(t)' \subseteq Runs(t) /\ \A e \in Runs(t) : exec'[e].round = exec[e].round
    BY <2>1 DEF Comes, Runs
  <2>3. \A e \in Runs(t)' : \A g \in Handlers : Recording(g, t, e) => Recording(g, t, e)'
    BY <2>1 DEF Recording
  <2> QED
    BY <1>0, <2>1, <2>2, <2>3, RoundCarries
<1>9. ASSUME NEW u \in Triggers, NEW id \in Ids, Scrape(u, id), ~Panic PROVE RoundOf(t)'
  <2>1. Drops(id) /\ UNCHANGED <<exec, hs, status>> /\ Gone(id)
    BY <1>9, ScrapeEffect
  <2>2. Runs(t)' = Runs(t) /\ \A e \in Runs(t) : exec'[e].round = exec[e].round
    BY <2>1, SameRuns
  <2>3. \A e \in Runs(t)' : e # id
    BY <1>0, <2>1, <2>2, StoreTypes DEF Gone, Missing, Quiet, Runs
  <2>4. \A e \in Runs(t)' : status[t] # 0 /\ In(e, ids[status[t]]) => In(e, ids'[status[t]])
    <3>1. status[t] \in Versions
      BY Constants DEF Typed, NumbersOK
    <3> QED
      BY <2>1, <2>3, <3>1 DEF Drops
  <2>5. \A e \in Runs(t)' : \A g \in Handlers : Recording(g, t, e) => Recording(g, t, e)'
    BY <2>1 DEF Recording
  <2> QED
    BY <1>0, <2>1, <2>2, <2>4, <2>5, RoundCarries
<1> QED
  BY <1>0, <1>2, <1>3, <1>4, <1>5, <1>6, <1>7, <1>8, <1>9, CalmCases DEF Moving, Sending

LEMMA RoundsStep == Typed /\ Known /\ Steady /\ Own /\ Rounds /\ [Next]_vars => Rounds'
BY RoundStep DEF Rounds

(* With Forbid, and with Replace of tests that no call fails to abort, the  *)
(* executions of a trigger that run at a time are of one round: as long as  *)
(* one informer feeds the trigger, triggers stay, no insert of a suite's    *)
(* record fails, and neither the lease nor the process is lost.             *)
THEOREM Alternates == Spec => []OneRound
<1>1. Init => Known /\ Steady /\ Own /\ Rounds
  <2> SUFFICES ASSUME Init PROVE Known /\ Steady /\ Own /\ Rounds
    OBVIOUS
  <2>1. \A h \in Handlers : hs[h].pc = "idle" /\ hs[h].resp = <<>> /\ ~hs[h].old
    BY DEF Init, Idle
  <2>2. Known
    BY <2>1 DEF Init, Known, Knows, Busy
  <2>3. Steady
    BY <2>1 DEF Init, Steady, Settled, Alone, Busy
  <2>4. Own
    BY <2>1, EmptyIn DEF Init, Own
  <2>5. Rounds
    BY <2>1 DEF Init, Rounds, RoundOf, OneOf, Serves, Runs
  <2> QED
    BY <2>2, <2>3, <2>4, <2>5
<1>2. Typed /\ Rounds => OneRound
  <2> SUFFICES ASSUME Typed, Rounds, NEW e \in DOMAIN exec, NEW f \in DOMAIN exec,
                      exec[e].trig = exec[f].trig, Quiet(exec[e].trig),
                      exec[e].st # "ended", exec[f].st # "ended"
               PROVE  exec[e].round = exec[f].round
    BY DEF OneRound
  <2>1. PICK t \in Triggers : t = exec[e].trig
    BY StoreTypes DEF Execution
  <2>2. e \in Runs(t) /\ f \in Runs(t) /\ OneOf(t)
    BY <2>1 DEF Runs, Rounds, RoundOf
  <2> QED
    BY <2>2 DEF OneOf
<1> QED
  BY <1>1, <1>2, TypedInit, TypedStep, KnownStep, SteadyStep, OwnStep, RoundsStep, PTL DEF Spec

=============================================================================
