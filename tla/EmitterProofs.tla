----------------------------- MODULE EmitterProofs -----------------------------
(* Proofs about Emitter, for every number of replicas, every list of        *)
(* webhooks and every bound.                                                *)
EXTENDS Emitter, FiniteSetTheorems, TLAPS

(* The last of a set of places of a list is in the set: the subsets that    *)
(* follow a place are well ordered by inclusion.                            *)
LEMMA MaxIn ==
    ASSUME NEW k \in Nat, NEW S, S \subseteq 1..k, S # {}
    PROVE  Max(S) \in S
<1> DEFINE After(m) == {h \in 1..k : h > m}
           T == {After(m) : m \in S}
           Less == StrictSubsetOrdering(1..k)
<1>1. IsWellFoundedOn(Less, FiniteSubsetsOf(1..k))
  BY FS_StrictSubsetOrderingWellFounded
<1>2. T \subseteq FiniteSubsetsOf(1..k) /\ T # {}
  <2>1. IsFiniteSet(1..k)
    BY FS_Interval
  <2>2. FiniteSubsetsOf(1..k) = SUBSET (1..k)
    BY <2>1, FS_FiniteSubsetsOfFinite
  <2>3. \A m \in S : After(m) \in SUBSET (1..k)
    OBVIOUS
  <2>4. T \subseteq SUBSET (1..k)
    BY <2>3
  <2>5. PICK m \in S : TRUE
    OBVIOUS
  <2>6. After(m) \in T
    OBVIOUS
  <2>7. QED
    BY <2>2, <2>4, <2>6
<1>3. PICK U \in T : \A V \in T : <<V, U>> \notin Less
  <2> HIDE DEF T, Less
  <2>1. QED
    BY <1>1, <1>2, WFMin
<1>4. PICK m \in S : U = After(m)
  OBVIOUS
<1>5. \A h \in S : m >= h
  <2> SUFFICES ASSUME NEW h \in S, h > m PROVE FALSE
    OBVIOUS
  <2>1. After(h) \subseteq After(m) /\ h \in After(m) /\ h \notin After(h)
    OBVIOUS
  <2>2. After(h) \in T /\ After(h) \subseteq 1..k /\ After(m) \subseteq 1..k
    OBVIOUS
  <2>3. <<After(h), U>> \in Less
    BY <1>4, <2>1, <2>2 DEF StrictSubsetOrdering
  <2>4. QED
    BY <1>3, <2>2, <2>3
<1>6. QED
  BY <1>5 DEF Max

-----------------------------------------------------------------------------
Fields  == Contents \cup {None}
PerName == [Names -> Fields]

TypeOK ==
    /\ hooks \in [Hooks -> Fields \cup {Broken}] /\ {edits, faults, crashes} \subseteq Nat
    /\ phase \in [Instances -> {"load", "update"}]
    /\ loaded \in [Instances -> PerName] /\ list \in [Instances -> PerName]
    /\ toStop \in [Instances -> SUBSET Names] /\ toStart \in [Instances -> SUBSET Names]
    /\ between \in [Instances -> Names \cup {None}]
    /\ kept \in [Instances -> PerName]
    /\ leaked \in [Instances -> [Names -> SUBSET Contents]]
    /\ listen \in [Instances -> PerName]
    /\ heard \in [Instances -> SUBSET (Names \cup {None})]
    /\ deaf \in [Instances -> SUBSET Names] /\ stuck \in [Instances -> SUBSET Names]

(* What a load finds has a value for every name.                            *)
LEMMA FoundType == TypeOK => Found \in PerName /\ Nothing \in PerName
<1> SUFFICES ASSUME TypeOK PROVE Found \in PerName /\ Nothing \in PerName
  OBVIOUS
<1>1. Nothing \in PerName
  BY DEF Nothing, PerName, Fields
<1>2. ASSUME NEW n \in Names, \A h \in Hooks : hooks[h] # Broken PROVE Snapshot[n] \in Fields
  <2>1. CASE Alive(n) = {}
    BY <2>1 DEF Snapshot, Fields
  <2>2. CASE Alive(n) # {}
    <3>1. Len(HookName) \in Nat /\ Hooks = 1..Len(HookName)
      BY NamesAssumption DEF Hooks
    <3>2. Max(Alive(n)) \in Alive(n)
      BY <2>2, <3>1, MaxIn DEF Alive
    <3>3. hooks[Max(Alive(n))] \in Fields
      BY <1>2, <3>2 DEF Alive, TypeOK
    <3>4. QED
      BY <2>2, <3>3 DEF Snapshot
  <2>3. QED
    BY <2>1, <2>2
<1>3. (\A h \in Hooks : hooks[h] # Broken) => Snapshot \in PerName
  <2> SUFFICES ASSUME \A h \in Hooks : hooks[h] # Broken PROVE Snapshot \in PerName
    OBVIOUS
  <2>1. \A n \in Names : Snapshot[n] \in Fields
    BY <1>2
  <2>2. QED
    BY <2>1 DEF Snapshot, PerName
<1>4. QED
  BY <1>1, <1>3 DEF Found

LEMMA TypeInit == Init => TypeOK
BY BoundsAssumption DEF Init, TypeOK, Nothing, PerName, Fields

LEMMA BeginType ==
    ASSUME TypeOK, NEW i \in Instances, NEW found \in PerName, Begin(i, found), faults' \in Nat
    PROVE  TypeOK'
BY DEF TypeOK, Begin, cluster, bus, late, errors

LEMMA FaultType == ASSUME TypeOK, Fault \/ UNCHANGED faults PROVE faults' \in Nat
BY DEF TypeOK, Fault

(* What an Unsubscribe and a Subscribe leave in the bus.                    *)
LEMMA UnsubscribeType ==
    ASSUME TypeOK, NEW i \in Instances, NEW n \in Names, Unsubscribe(i, n)
    PROVE  /\ kept' \in [Instances -> PerName] /\ stuck' \in [Instances -> SUBSET Names]
           /\ faults' \in Nat
<1>1. faults' \in Nat
  BY FaultType DEF Unsubscribe
<1>2. kept' \in [Instances -> PerName]
  <2>1. kept[i] \in PerName /\ [kept[i] EXCEPT ![n] = None] \in PerName
    BY DEF TypeOK, PerName, Fields
  <2>2. kept' = kept \/ kept' = [kept EXCEPT ![i] = [kept[i] EXCEPT ![n] = None]]
    BY DEF Unsubscribe
  <2>3. QED
    BY <2>1, <2>2 DEF TypeOK
<1>3. stuck' \in [Instances -> SUBSET Names]
  BY DEF Unsubscribe, TypeOK
<1>4. QED
  BY <1>1, <1>2, <1>3

LEMMA SubscribeType ==
    ASSUME TypeOK, NEW i \in Instances, NEW n \in Names, NEW c \in Fields, Subscribe(i, n, c)
    PROVE  /\ kept' \in [Instances -> PerName]
           /\ leaked' \in [Instances -> [Names -> SUBSET Contents]]
<1>1. kept[i] \in PerName /\ leaked[i] \in [Names -> SUBSET Contents]
  BY DEF TypeOK
<1>2. [kept[i] EXCEPT ![n] = c] \in PerName
  BY <1>1 DEF PerName
<1>3. kept' = [kept EXCEPT ![i] = [kept[i] EXCEPT ![n] = c]]
  BY DEF Subscribe
<1>4. leaked[i][n] \cup ({kept[i][n]} \ {None}) \in SUBSET Contents
  BY <1>1 DEF PerName, Fields
<1>5. leaked' \in [Instances -> [Names -> SUBSET Contents]]
  BY <1>1, <1>4 DEF Subscribe, TypeOK
<1>6. QED
  BY <1>2, <1>3, <1>5 DEF TypeOK

LEMMA TypeStep == TypeOK /\ [Next]_vars => TypeOK'
<1> SUFFICES ASSUME TypeOK, [Next]_vars PROVE TypeOK'
  OBVIOUS
<1>1. ASSUME NEW h \in Hooks, Edit(h) PROVE TypeOK'
  <2>1. hooks' \in [Hooks -> Fields \cup {Broken}]
    BY <1>1 DEF Edit, TypeOK, Fields
  <2>2. QED
    BY <1>1, <2>1 DEF Edit, TypeOK, round, bus, late, errors
<1>2. ASSUME NEW i \in Instances, Load(i) PROVE TypeOK'
  BY <1>2, FaultType, FoundType, BeginType DEF Load
<1>3. ASSUME NEW i \in Instances, LoadFails(i) PROVE TypeOK'
  BY <1>3, FaultType, FoundType, BeginType DEF LoadFails
<1>4. ASSUME NEW i \in Instances, RoundEnds(i) PROVE TypeOK'
  <2>1. Nothing \in PerName
    BY FoundType
  <2>2. QED
    BY <1>4, <2>1 DEF RoundEnds, TypeOK, cluster, bus, late, errors
<1>5. ASSUME NEW i \in Instances, NEW n \in Names, Stop(i, n) PROVE TypeOK'
  <2>1. Unsubscribe(i, n)
    BY <1>5 DEF Stop
  <2>2. deaf' \in [Instances -> SUBSET Names] /\ toStop' \in [Instances -> SUBSET Names]
    BY <1>5 DEF Stop, TypeOK
  <2>3. UNCHANGED <<cluster, phase, loaded, list, leaked, late, crashes, toStart, between>>
    BY <1>5, <2>1 DEF Stop, Unsubscribe
  <2>4. QED
    BY <2>1, <2>2, <2>3, UnsubscribeType DEF TypeOK, cluster, late
<1>6. ASSUME NEW i \in Instances, NEW n \in Names, Restart(i, n) PROVE TypeOK'
  <2>1. Unsubscribe(i, n)
    BY <1>6 DEF Restart
  <2>2. between' \in [Instances -> Names \cup {None}]
    BY <1>6 DEF Restart, TypeOK
  <2>3. UNCHANGED <<cluster, phase, loaded, list, leaked, late, crashes, toStop, toStart, deaf>>
    BY <1>6, <2>1 DEF Restart, Unsubscribe
  <2>4. QED
    BY <2>1, <2>2, <2>3, UnsubscribeType DEF TypeOK, cluster, late
<1>7. ASSUME NEW i \in Instances, NEW n \in Names, Start(i, n) \/ StartFails(i, n)
      PROVE  TypeOK'
  <2>1. Starts(i, n) /\ faults' \in Nat
    BY <1>7, FaultType DEF Start, StartFails
  <2>2. /\ kept' \in [Instances -> PerName]
        /\ leaked' \in [Instances -> [Names -> SUBSET Contents]]
    <3>1. loaded[i][n] \in Fields
      BY DEF TypeOK, PerName
    <3>2. CASE Start(i, n)
      BY <3>1, <3>2, SubscribeType DEF Start
    <3>3. CASE StartFails(i, n)
      BY <3>3 DEF StartFails, TypeOK, bus
    <3>4. QED
      BY <1>7, <3>2, <3>3
  <2>3. deaf' \in [Instances -> SUBSET Names]
    <3>1. deaf[i] \ {n} \in SUBSET Names /\ deaf[i] \cup {n} \in SUBSET Names
      BY DEF TypeOK
    <3>2. \E D \in SUBSET Names : deaf' = [deaf EXCEPT ![i] = D]
      BY <1>7, <3>1 DEF Start, StartFails
    <3>3. QED
      BY <3>2 DEF TypeOK
  <2>4. toStart' \in [Instances -> SUBSET Names] /\ between' \in [Instances -> Names \cup {None}]
    BY <2>1 DEF Starts, TypeOK
  <2>5. QED
    BY <2>1, <2>2, <2>3, <2>4 DEF Starts, TypeOK, cluster, late
<1>8. ASSUME NEW i \in Instances, Listen(i) PROVE TypeOK'
  BY <1>8 DEF Listen, TypeOK, cluster, round, bus, errors
<1>9. ASSUME NEW i \in Instances, NEW n \in Names, ListenStarts(i, n) PROVE TypeOK'
  <2>1. /\ kept' \in [Instances -> PerName]
        /\ leaked' \in [Instances -> [Names -> SUBSET Contents]]
    <3>1. listen[i][n] \in Fields
      BY DEF TypeOK, PerName
    <3>2. CASE Subscribe(i, n, listen[i][n])
      BY <3>1, <3>2, SubscribeType
    <3>3. CASE UNCHANGED bus
      BY <3>3 DEF TypeOK, bus
    <3>4. QED
      BY <1>9, <3>2, <3>3 DEF ListenStarts
  <2>2. listen' \in [Instances -> PerName]
    BY <1>9 DEF ListenStarts, TypeOK, PerName, Fields
  <2>3. faults' \in Nat
    BY <1>9, FaultType DEF ListenStarts
  <2>4. QED
    BY <1>9, <2>1, <2>2, <2>3 DEF ListenStarts, TypeOK, cluster, round, errors
<1>10. ASSUME NEW i \in Instances, Crash(i) PROVE TypeOK'
  <2>1. Nothing \in PerName
    BY FoundType
  <2>2. leaked' \in [Instances -> [Names -> SUBSET Contents]]
    BY <1>10 DEF Crash, TypeOK
  <2>3. crashes' \in Nat
    BY <1>10 DEF Crash, TypeOK
  <2>4. QED
    BY <1>10, <2>1, <2>2, <2>3 DEF Crash, TypeOK, cluster
<1>11. CASE UNCHANGED vars
  BY <1>11 DEF vars, TypeOK, cluster, round, bus, late, errors
<1>12. QED
  BY <1>1, <1>2, <1>3, <1>4, <1>5, <1>6, <1>7, <1>8, <1>9, <1>10, <1>11
  DEF Next, Round, Late

-----------------------------------------------------------------------------
(* What a name should be subscribed as while a round is under way: as in    *)
(* the last list until the round has come to it, then as it was loaded.     *)
Due(i, n) == IF phase[i] = "load" \/ n \in toStop[i] \cup toStart[i]
             THEN list[i][n] ELSE loaded[i][n]

(* A name whose last start failed, or that is stopped to be started again.  *)
Off(i, n) == n \in deaf[i] \/ between[i] = n

(* The names that a round has still to stop and to start.                   *)
Pending(i, n) ==
    /\ phase[i] = "load" => toStop[i] = {} /\ toStart[i] = {}
    /\ n \in toStop[i]  => loaded[i][n] = None /\ list[i][n] # None
    /\ n \in toStart[i] => loaded[i][n] # None
    /\ between[i] = n   => n \in toStart[i] /\ list[i][n] # None /\ toStop[i] = {}

(* A name that Listen has not started, or not yet, is subscribed as due;    *)
(* once it has, one subscription may be another one: the stored one, or one *)
(* that is out of reach, behind which the stored one is right, or which is  *)
(* right itself.                                                            *)
Tidy(i, n)   == leaked[i][n] = {} /\ kept[i][n] = IF Off(i, n) THEN None ELSE Due(i, n)
Untidy(i, n) ==
    \/ leaked[i][n] = {} /\ (kept[i][n] = Due(i, n) \/ Due(i, n) = None \/ Off(i, n))
    \/ \E x \in Contents :
          /\ leaked[i][n] = {x}
          /\ IF Off(i, n) THEN kept[i][n] = None
             ELSE kept[i][n] = Due(i, n) \/ (x = Due(i, n) /\ kept[i][n] # None)

Started(i, n) == n \in heard[i] /\ listen[i][n] = None
Waiting(i) == None \in heard[i] => heard[i] = {None}
InOrder(i, n) ==
    /\ listen[i][n] # None => n \in heard[i]
    /\ n \notin stuck[i] => IF Started(i, n) THEN Untidy(i, n) ELSE Tidy(i, n)

(* What is due is subscribed, whatever stop has failed.                     *)
Reached(i, n) == Due(i, n) # None /\ ~Off(i, n) => Due(i, n) \in Open(i, n)

InStep(i, n) == Waiting(i) /\ Pending(i, n) /\ InOrder(i, n) /\ Reached(i, n)
Subscriptions == \A i \in Instances, n \in Names : InStep(i, n)

LEMMA NamesAreStrings == None \notin Names
BY NamesAssumption DEF Names, Hooks

LEMMA SubscriptionsInit == Init => Subscriptions
BY NamesAreStrings
DEF Init, Subscriptions, InStep, Waiting, Pending, InOrder, Reached, Started, Tidy, Off, Due,
    Nothing

(* What has happened to one name leaves every other name as it was.         *)
Same(i, n) ==
    /\ phase'[i] = phase[i] /\ list'[i][n] = list[i][n] /\ loaded'[i][n] = loaded[i][n]
    /\ (n \in toStop'[i] <=> n \in toStop[i]) /\ (n \in toStart'[i] <=> n \in toStart[i])
    /\ (between'[i] = n <=> between[i] = n) /\ (n \in deaf'[i] <=> n \in deaf[i])
    /\ kept'[i][n] = kept[i][n] /\ leaked'[i][n] = leaked[i][n]
    /\ listen'[i][n] = listen[i][n] /\ (n \in heard'[i] <=> n \in heard[i])
    /\ (n \in stuck'[i] <=> n \in stuck[i])

LEMMA SameInOrder ==
    ASSUME NEW i, NEW n, Same(i, n), InOrder(i, n), Reached(i, n)
    PROVE  InOrder(i, n)' /\ Reached(i, n)'
<1>1. /\ Due(i, n)' = Due(i, n) /\ (Off(i, n)' <=> Off(i, n))
      /\ (Started(i, n)' <=> Started(i, n)) /\ Open(i, n)' = Open(i, n)
  BY DEF Same, Due, Off, Started, Open
<1>2. InOrder(i, n)'
  BY <1>1 DEF Same, InOrder, Tidy, Untidy
<1>3. QED
  BY <1>1, <1>2 DEF Reached

(* A step that leaves the bus and what is due of a name as they were.       *)
LEMMA DueInOrder ==
    ASSUME NEW i, NEW n, InOrder(i, n), Reached(i, n), Due(i, n)' = Due(i, n),
           UNCHANGED <<bus, late, errors, between>>
    PROVE  InOrder(i, n)' /\ Reached(i, n)'
<1>1. (Off(i, n)' <=> Off(i, n)) /\ (Started(i, n)' <=> Started(i, n))
      /\ Open(i, n)' = Open(i, n)
  BY DEF Off, Started, Open, bus, late, errors
<1>2. InOrder(i, n)'
  BY <1>1 DEF InOrder, Tidy, Untidy, bus, late, errors
<1>3. QED
  BY <1>1, <1>2 DEF Reached

(* A stop of a name, which is not due any more or is to be started again.   *)
LEMMA StoppedInOrder ==
    ASSUME TypeOK, NEW i \in Instances, NEW n \in Names, Unsubscribe(i, n), InOrder(i, n),
           Off(i, n)' \/ Due(i, n)' = None
    PROVE  InOrder(i, n)' /\ Reached(i, n)'
<1>1. /\ UNCHANGED <<leaked, listen, heard>> /\ (Started(i, n)' <=> Started(i, n))
      /\ n \notin stuck'[i] => kept'[i][n] = None /\ n \notin stuck[i]
  BY DEF Unsubscribe, Started, late, TypeOK, PerName
<1>2. Reached(i, n)'
  BY DEF Reached
<1>3. n \notin stuck[i] => leaked[i][n] = {} \/ (Started(i, n) /\ \E x \in Contents : leaked[i][n] = {x})
  BY DEF InOrder, Tidy, Untidy
<1>4. n \notin stuck[i] /\ ~Started(i, n) => leaked[i][n] = {}
  BY DEF InOrder, Tidy
<1>5. InOrder(i, n)'
  BY <1>1, <1>3, <1>4 DEF InOrder, Tidy, Untidy
<1>6. QED
  BY <1>2, <1>5

LEMMA SubscriptionsStep == TypeOK /\ TypeOK' /\ Subscriptions /\ [Next]_vars => Subscriptions'
<1> SUFFICES ASSUME TypeOK, TypeOK', Subscriptions, [Next]_vars,
                    NEW j \in Instances, NEW n \in Names
             PROVE  InStep(j, n)'
  BY DEF Subscriptions
<1> USE NamesAreStrings, ContentsAssumption
<1>0. Waiting(j) /\ Pending(j, n) /\ InOrder(j, n) /\ Reached(j, n)
  BY DEF Subscriptions, InStep
<1>1. ASSUME NEW h \in Hooks, Edit(h) PROVE InStep(j, n)'
  <2>1. UNCHANGED <<round, bus, late, errors>>
    BY <1>1 DEF Edit
  <2>2. QED
    BY <1>0, <2>1, DueInOrder DEF InStep, Waiting, Pending, Due, round, late
<1>2. ASSUME NEW i \in Instances, NEW found \in PerName, Begin(i, found) PROVE InStep(j, n)'
  <2>1. UNCHANGED <<bus, late, errors, between>>
    BY <1>2 DEF Begin
  <2>2. Due(j, n)' = Due(j, n)
    <3>1. CASE j # i
      BY <1>2, <3>1 DEF Begin, Due, TypeOK
    <3>2. CASE j = i
      <4>1. /\ phase[i] = "load" /\ phase'[i] = "update" /\ list' = list /\ loaded'[i] = found
            /\ toStop'[i] = {m \in Names : list[i][m] # None /\ found[m] = None}
            /\ toStart'[i] = {m \in Names : found[m] # None /\ found[m] # list[i][m]}
        BY <1>2 DEF Begin, TypeOK
      <4>2. QED
        BY <3>2, <4>1 DEF Due
    <3>3. QED
      BY <3>1, <3>2
  <2>3. Pending(j, n)' /\ Waiting(j)'
    <3>1. phase[i] = "load" /\ between' = between /\ heard' = heard
      BY <1>2 DEF Begin, late
    <3>2. CASE j # i
      BY <1>0, <1>2, <3>1, <3>2 DEF Begin, Pending, Waiting, TypeOK
    <3>3. CASE j = i
      <4>1. between[i] # n
        BY <1>0, <3>1, <3>3 DEF Pending
      <4>2. QED
        BY <1>0, <1>2, <3>1, <3>3, <4>1 DEF Begin, Pending, Waiting, TypeOK
    <3>4. QED
      BY <3>2, <3>3
  <2>4. QED
    BY <1>0, <2>1, <2>2, <2>3, DueInOrder DEF InStep
<1>3. ASSUME NEW i \in Instances, RoundEnds(i) PROVE InStep(j, n)'
  <2>1. UNCHANGED <<bus, late, errors, between, toStop, toStart>>
    BY <1>3 DEF RoundEnds
  <2>2. Due(j, n)' = Due(j, n)
    <3>1. CASE j # i
      BY <1>3, <3>1 DEF RoundEnds, Due, TypeOK
    <3>2. CASE j = i
      BY <1>3, <3>2 DEF RoundEnds, Due, TypeOK
    <3>3. QED
      BY <3>1, <3>2
  <2>3. Pending(j, n)' /\ Waiting(j)'
    BY <1>0, <1>3, <2>1 DEF RoundEnds, Pending, Waiting, TypeOK, late
  <2>4. QED
    BY <1>0, <2>1, <2>2, <2>3, DueInOrder DEF InStep
<1>4. ASSUME NEW i \in Instances, NEW m \in Names, Stop(i, m) PROVE InStep(j, n)'
  <2>0. Unsubscribe(i, m) /\ Pending(i, m)
    BY <1>4 DEF Stop, Subscriptions, InStep
  <2>1. UNCHANGED <<phase, list, loaded, toStart, between, heard, leaked, listen>>
    BY <1>4, <2>0 DEF Stop, Unsubscribe, late
  <2>2. Pending(j, n)' /\ Waiting(j)'
    BY <1>0, <1>4, <2>1 DEF Stop, Pending, Waiting, TypeOK
  <2>3. CASE j # i \/ n # m
    <3>1. kept'[j][n] = kept[j][n] /\ (n \in stuck'[j] <=> n \in stuck[j])
      BY <2>0, <2>3 DEF Unsubscribe, TypeOK, PerName
    <3>2. (n \in toStop'[j] <=> n \in toStop[j]) /\ (n \in deaf'[j] <=> n \in deaf[j])
      BY <1>4, <2>3 DEF Stop, TypeOK
    <3>3. Same(j, n)
      BY <2>1, <3>1, <3>2 DEF Same
    <3>4. QED
      BY <1>0, <2>2, <3>3, SameInOrder DEF InStep
  <2>4. CASE j = i /\ n = m
    <3>1. n \in toStop[i] /\ n \notin toStop'[i] /\ n \notin toStart[i] /\ phase[i] # "load"
      BY <1>4, <2>0, <2>4 DEF Stop, Pending, TypeOK
    <3>2. Due(i, n)' = None
      BY <2>0, <2>1, <2>4, <3>1 DEF Due, Pending
    <3>3. QED
      BY <1>0, <2>0, <2>2, <2>4, <3>2, StoppedInOrder DEF InStep
  <2>5. QED
    BY <2>3, <2>4
<1>5. ASSUME NEW i \in Instances, NEW m \in Names, Restart(i, m) PROVE InStep(j, n)'
  <2>0. Unsubscribe(i, m) /\ Pending(i, m)
    BY <1>5 DEF Restart, Subscriptions, InStep
  <2>1. UNCHANGED <<phase, list, loaded, toStop, toStart, deaf, heard, leaked, listen>>
    BY <1>5, <2>0 DEF Restart, Unsubscribe, late
  <2>2. between'[i] = m /\ between[i] = None /\ (j # i => between'[j] = between[j])
    BY <1>5 DEF Restart, TypeOK
  <2>3. Pending(j, n)' /\ Waiting(j)'
    BY <1>0, <1>5, <2>1, <2>2 DEF Restart, Pending, Waiting
  <2>4. CASE j # i \/ n # m
    <3>1. kept'[j][n] = kept[j][n] /\ (n \in stuck'[j] <=> n \in stuck[j])
      BY <2>0, <2>4 DEF Unsubscribe, TypeOK, PerName
    <3>2. Same(j, n)
      BY <2>1, <2>2, <2>4, <3>1 DEF Same
    <3>3. QED
      BY <1>0, <2>3, <3>2, SameInOrder DEF InStep
  <2>5. CASE j = i /\ n = m
    <3>1. Off(i, n)'
      BY <2>2, <2>5 DEF Off
    <3>2. QED
      BY <1>0, <2>0, <2>3, <2>5, <3>1, StoppedInOrder DEF InStep
  <2>6. QED
    BY <2>4, <2>5
<1>6. ASSUME NEW i \in Instances, NEW m \in Names, Start(i, m) \/ StartFails(i, m)
      PROVE  InStep(j, n)'
  <2>0. Starts(i, m) /\ Pending(i, m)
    BY <1>6 DEF Start, StartFails, Subscriptions, InStep
  <2>1. UNCHANGED <<phase, list, loaded, toStop, heard, listen, stuck>>
    BY <2>0 DEF Starts, late
  <2>2. /\ between'[i] = None /\ (j # i => between'[j] = between[j]) /\ toStop[i] = {}
        /\ m \in toStart[i] /\ toStart'[i] = toStart[i] \ {m}
        /\ (j # i => toStart'[j] = toStart[j])
        /\ between[i] = IF list[i][m] = None THEN None ELSE m
    BY <2>0 DEF Starts, TypeOK
  <2>3. Pending(j, n)' /\ Waiting(j)'
    BY <1>0, <2>1, <2>2 DEF Pending, Waiting
  <2>4. CASE j # i \/ n # m
    <3>1. kept'[j][n] = kept[j][n] /\ leaked'[j][n] = leaked[j][n]
      BY <1>6, <2>4 DEF Start, StartFails, Subscribe, TypeOK, PerName, bus
    <3>2. n \in deaf'[j] <=> n \in deaf[j]
      BY <1>6, <2>4 DEF Start, StartFails, TypeOK
    <3>3. Same(j, n)
      BY <2>1, <2>2, <2>4, <3>1, <3>2 DEF Same
    <3>4. QED
      BY <1>0, <2>3, <3>3, SameInOrder DEF InStep
  <2>5. CASE j = i /\ n = m
    <3>1. phase[i] # "load" /\ loaded[i][n] # None
      BY <2>0, <2>2, <2>5 DEF Pending
    <3>2. Due(i, n) = list[i][n] /\ Due(i, n)' = loaded[i][n]
      BY <2>1, <2>2, <2>5, <3>1 DEF Due
    <3>3. list[i][n] # None => Off(i, n)
      BY <2>2, <2>5 DEF Off
    <3>4. kept[i][n] \in Contents \cup {None}
      BY DEF TypeOK, PerName, Fields
    <3>5. n \notin stuck[i] => leaked[i][n] = {} \/ (kept[i][n] = None /\ \E x \in Contents : leaked[i][n] = {x})
      BY <1>0, <2>5, <3>2, <3>3 DEF InOrder, Tidy, Untidy
    <3>6. n \notin stuck[i] /\ ~Started(i, n) => leaked[i][n] = {} /\ kept[i][n] = None
      BY <1>0, <2>5, <3>2, <3>3 DEF InOrder, Tidy
    <3>7. Started(i, n)' <=> Started(i, n)
      BY <2>1 DEF Started
    <3>8. CASE StartFails(i, n)
      <4>1. Off(i, n)' /\ UNCHANGED <<kept, leaked>>
        BY <3>8 DEF StartFails, Off, TypeOK, bus
      <4>2. InOrder(i, n)'
        BY <1>0, <2>1, <2>5, <3>5, <3>6, <3>7, <4>1 DEF InOrder, Tidy, Untidy
      <4>3. QED
        BY <2>3, <2>5, <4>1, <4>2 DEF InStep, Reached
    <3>9. CASE Start(i, n)
      <4>1. /\ kept'[i][n] = loaded[i][n]
            /\ leaked'[i][n] = leaked[i][n] \cup ({kept[i][n]} \ {None})
        BY <3>9 DEF Start, Subscribe, TypeOK, PerName
      <4>2. ~Off(i, n)'
        BY <2>2, <2>5, <3>9 DEF Start, Off, TypeOK
      <4>3. n \notin stuck[i] => leaked'[i][n] = {} \/ \E x \in Contents : leaked'[i][n] = {x}
        <5>1. CASE kept[i][n] = None
          BY <3>5, <4>1, <5>1
        <5>2. CASE kept[i][n] # None
          <6>1. n \notin stuck[i] => leaked'[i][n] = {kept[i][n]} /\ kept[i][n] \in Contents
            BY <3>4, <3>5, <4>1, <5>2
          <6>2. QED
            BY <6>1
        <5>3. QED
          BY <5>1, <5>2
      <4>4. n \notin stuck[i] /\ ~Started(i, n) => leaked'[i][n] = {}
        BY <3>6, <4>1
      <4>5. InOrder(i, n)'
        BY <1>0, <2>1, <2>5, <3>2, <3>7, <4>1, <4>2, <4>3, <4>4 DEF InOrder, Tidy, Untidy
      <4>6. Reached(i, n)'
        BY <3>1, <3>2, <4>1 DEF Reached, Open
      <4>7. QED
        BY <2>3, <2>5, <4>5, <4>6 DEF InStep
    <3>10. QED
      BY <1>6, <2>5, <3>8, <3>9
  <2>6. QED
    BY <2>4, <2>5
<1>7. ASSUME NEW i \in Instances, Listen(i) PROVE InStep(j, n)'
  <2>1. UNCHANGED <<round, bus, errors>> /\ Waiting(i)
    BY <1>7 DEF Listen, Subscriptions, InStep
  <2>2. Pending(j, n)' /\ Due(j, n)' = Due(j, n) /\ (Off(j, n)' <=> Off(j, n)) /\ Reached(j, n)'
    BY <1>0, <2>1 DEF Pending, Reached, Due, Off, Open, round, bus, errors
  <2>3. CASE j # i
    <3>1. Same(j, n)
      BY <1>7, <2>1, <2>3 DEF Listen, Same, TypeOK, round, bus, errors
    <3>2. Waiting(j)'
      BY <1>0, <1>7, <2>3 DEF Listen, Waiting, TypeOK
    <3>3. QED
      BY <1>0, <2>2, <3>1, <3>2, SameInOrder DEF InStep
  <2>4. CASE j = i
    <3>1. heard[i] = {None} /\ n \notin heard[i] /\ n # None
      BY <1>7, <2>1 DEF Listen, Waiting
    <3>2. heard'[i] = {k \in Names : list[i][k] # None} /\ listen'[i] = list[i]
      BY <1>7 DEF Listen, TypeOK
    <3>3. n \notin stuck[i] => Tidy(i, n)'
      BY <1>0, <2>1, <2>2, <2>4, <3>1 DEF InOrder, Started, Tidy, bus
    <3>4. InOrder(i, n)' /\ Waiting(i)'
      BY <2>1, <3>2, <3>3 DEF InOrder, Started, Waiting, errors
    <3>5. QED
      BY <2>2, <2>4, <3>4 DEF InStep
  <2>5. QED
    BY <2>3, <2>4
<1>8. ASSUME NEW i \in Instances, NEW m \in Names, ListenStarts(i, m) PROVE InStep(j, n)'
  <2>1. UNCHANGED <<round, heard, errors>>
    BY <1>8 DEF ListenStarts
  <2>2. /\ Pending(j, n)' /\ Waiting(j)' /\ Due(j, n)' = Due(j, n)
        /\ (Off(j, n)' <=> Off(j, n))
    BY <1>0, <2>1 DEF Pending, Waiting, Due, Off, round, errors
  <2>3. CASE j # i \/ n # m
    <3>1. /\ kept'[j][n] = kept[j][n] /\ leaked'[j][n] = leaked[j][n]
          /\ listen'[j][n] = listen[j][n]
      BY <1>8, <2>3 DEF ListenStarts, Subscribe, TypeOK, PerName, bus
    <3>2. Same(j, n)
      BY <2>1, <3>1 DEF Same, round, errors
    <3>3. QED
      BY <1>0, <2>2, <3>2, SameInOrder DEF InStep
  <2>4. CASE j = i /\ n = m
    <3>1. /\ listen[i][n] # None /\ listen'[i][n] = None /\ n \in heard[i]
          /\ ~Started(i, n) /\ Started(i, n)'
      BY <1>0, <1>8, <2>1, <2>4 DEF ListenStarts, InOrder, Started, TypeOK, PerName
    <3>2. n \notin stuck[i] => Tidy(i, n)
      BY <1>0, <2>4, <3>1 DEF InOrder
    <3>3. CASE UNCHANGED bus
      <4>1. n \notin stuck[i] => Untidy(i, n)'
        BY <2>2, <2>4, <3>2, <3>3 DEF Tidy, Untidy, bus
      <4>2. Reached(i, n)'
        BY <1>0, <2>2, <2>4, <3>3 DEF Reached, Open, bus
      <4>3. QED
        BY <2>1, <2>2, <2>4, <3>1, <4>1, <4>2 DEF InStep, InOrder, errors
    <3>4. CASE Subscribe(i, n, listen[i][n])
      <4>1. /\ kept'[i][n] = listen[i][n]
            /\ leaked'[i][n] = leaked[i][n] \cup ({kept[i][n]} \ {None})
        BY <3>4 DEF Subscribe, TypeOK, PerName
      <4>2. kept[i][n] \in Contents \cup {None}
        BY DEF TypeOK, PerName, Fields
      <4>3. n \notin stuck[i] => Untidy(i, n)'
        <5>1. CASE kept[i][n] = None
          BY <2>2, <2>4, <3>2, <4>1, <5>1 DEF Tidy, Untidy
        <5>2. CASE kept[i][n] # None
          <6>1. n \notin stuck[i] => leaked'[i][n] = {kept[i][n]} /\ kept[i][n] \in Contents
            BY <3>2, <4>1, <4>2, <5>2 DEF Tidy
          <6>2. n \notin stuck[i] => kept[i][n] = Due(i, n)' /\ ~Off(i, n)'
            BY <2>2, <2>4, <3>2, <5>2 DEF Tidy
          <6>3. QED
            BY <3>1, <4>1, <6>1, <6>2 DEF Untidy
        <5>3. QED
          BY <5>1, <5>2
      <4>4. Reached(i, n)'
        <5>1. Open(i, n) \subseteq Open(i, n)'
          BY <4>1 DEF Open
        <5>2. QED
          BY <1>0, <2>2, <2>4, <5>1 DEF Reached
      <4>5. QED
        BY <2>1, <2>2, <2>4, <3>1, <4>3, <4>4 DEF InStep, InOrder, errors
    <3>5. QED
      BY <1>8, <2>4, <3>3, <3>4 DEF ListenStarts
  <2>5. QED
    BY <2>3, <2>4
<1>9. ASSUME NEW i \in Instances, Crash(i) PROVE InStep(j, n)'
  <2>1. CASE j # i
    <3>1. Same(j, n)
      BY <1>9, <2>1 DEF Crash, Same, TypeOK
    <3>2. Pending(j, n)' /\ Waiting(j)'
      BY <1>0, <1>9, <2>1 DEF Crash, Pending, Waiting, TypeOK
    <3>3. QED
      BY <1>0, <3>1, <3>2, SameInOrder DEF InStep
  <2>2. CASE j = i
    <3>1. /\ phase'[i] = "load" /\ loaded'[i] = Nothing /\ list'[i] = Nothing
          /\ toStop'[i] = {} /\ toStart'[i] = {} /\ between'[i] = None /\ kept'[i] = Nothing
          /\ leaked'[i] = [k \in Names |-> {}] /\ listen'[i] = Nothing /\ heard'[i] = {None}
          /\ deaf'[i] = {} /\ stuck'[i] = {}
      BY <1>9 DEF Crash, TypeOK
    <3>2. QED
      BY <2>2, <3>1
      DEF InStep, Pending, Waiting, InOrder, Reached, Started, Tidy, Off, Due, Nothing
  <2>3. QED
    BY <2>1, <2>2
<1>10. CASE UNCHANGED vars
  <2>1. UNCHANGED <<round, bus, late, errors>>
    BY <1>10 DEF vars
  <2>2. QED
    BY <1>0, <2>1, DueInOrder DEF InStep, Waiting, Pending, Due, round, late
<1>11. Found \in PerName /\ Nothing \in PerName
  BY FoundType
<1>12. QED
  BY <1>1, <1>2, <1>3, <1>4, <1>5, <1>6, <1>7, <1>8, <1>9, <1>10, <1>11
  DEF Next, Round, Late, Load, LoadFails

-----------------------------------------------------------------------------
(* Between two rounds of a replica its subscriptions are those of its list, *)
(* and at most one more of a name that Listen has started; but for the      *)
(* names of which the bus refused to start or to stop one.                  *)
THEOREM BusInLine == Spec => []ListMatchesBus
<1>1. TypeOK /\ Subscriptions => ListMatchesBus
  <2> SUFFICES ASSUME TypeOK, Subscriptions, NEW i \in Instances, NEW n \in Names,
                      phase[i] = "load"
               PROVE  LET others == Open(i, n) \ {list[i][n]} IN
                      /\ list[i][n] # None /\ n \notin deaf[i] => list[i][n] \in Open(i, n)
                      /\ others # {} /\ n \notin stuck[i] =>
                             n \in heard[i] /\ Cardinality(others) = 1
    BY DEF ListMatchesBus
  <2> DEFINE others == Open(i, n) \ {list[i][n]}
  <2>1. InOrder(i, n) /\ Reached(i, n) /\ Due(i, n) = list[i][n] /\ between[i] # n
    BY DEF Subscriptions, InStep, Due, Pending
  <2>2. list[i][n] # None /\ n \notin deaf[i] => list[i][n] \in Open(i, n)
    BY <2>1 DEF Reached, Off
  <2>3. n \notin stuck[i] => others = {} \/ (n \in heard[i] /\ \E x : others = {x})
    <3> SUFFICES ASSUME n \notin stuck[i]
                 PROVE  others = {} \/ (n \in heard[i] /\ \E x : others = {x})
      OBVIOUS
    <3>1. CASE ~Started(i, n)
      BY <2>1, <3>1 DEF InOrder, Tidy, Open
    <3>2. CASE Started(i, n) /\ leaked[i][n] = {}
      BY <2>1, <3>2 DEF Started, Open
    <3>3. ASSUME Started(i, n), NEW x \in Contents, leaked[i][n] = {x}
          PROVE  others = {} \/ (n \in heard[i] /\ \E y : others = {y})
      <4>1. kept[i][n] = None \/ kept[i][n] = list[i][n] \/ x = list[i][n]
        BY <2>1, <3>3 DEF InOrder, Untidy
      <4>2. others = {} \/ others = {x} \/ others = {kept[i][n]}
        BY <3>3, <4>1 DEF Open
      <4>3. QED
        BY <3>3, <4>2 DEF Started
    <3>4. QED
      BY <2>1, <3>1, <3>2, <3>3 DEF InOrder, Untidy
  <2>4. others # {} /\ n \notin stuck[i] => n \in heard[i] /\ Cardinality(others) = 1
    BY <2>3, FS_Singleton
  <2>5. QED
    BY <2>2, <2>4
<1>2. QED
  BY <1>1, TypeInit, TypeStep, SubscriptionsInit, SubscriptionsStep, PTL DEF Spec
=============================================================================
