-------------------------- MODULE WorkerPoolProofs --------------------------
(* For every number of requests and workers: the types, the places of the   *)
(* requests, and that the pool implements its abstract specification.       *)
EXTENDS WorkerPool, TLAPS

Inv == TypeOK /\ Placed

LEMMA InvInit == Init => Inv
<1> SUFFICES ASSUME Init PROVE Inv
    OBVIOUS
<1>1. TypeOK
  <2>1. /\ resps \in Seq(Requests) /\ got \in Seq(Requests) /\ Len(resps) = 0
        /\ sent = 0 /\ taken = 0
    BY DEF Init
  <2>2. /\ wpc \in [Workers -> {"idle", "executing", "answering", "left"}]
        /\ wreq \in [Workers -> 0..M]
    BY SizesAssumption DEF Init
  <2>3. /\ sent \in 0..M /\ taken \in 0..sent
        /\ sent - taken <= Level /\ Len(resps) <= Level
    BY <2>1, SizesAssumption
  <2>4. /\ reqClosed \in BOOLEAN /\ respClosed \in BOOLEAN /\ done \in BOOLEAN
        /\ cpc \in {"reading", "ended"}
    BY DEF Init
  <2> QED
    BY <2>1, <2>2, <2>3, <2>4 DEF TypeOK
<1>2. Placed
  BY DEF Init, Placed, Holding, Answered, Delivered, Closing, Busy
<1> QED BY <1>1, <1>2 DEF Inv

(* Facts about a sequence and what a channel does to it.                    *)
LEMMA Appending ==
    ASSUME NEW S, NEW q \in Seq(S), NEW e \in S, NEW r, r = Append(q, e)
    PROVE  /\ r \in Seq(S) /\ Len(q) \in Nat /\ Len(r) = Len(q) + 1
           /\ r[Len(q) + 1] = e
           /\ \A i \in 1..Len(q) : r[i] = q[i] /\ q[i] \in S
           /\ \A i \in 1..Len(r) : i \in 1..Len(q) \/ i = Len(q) + 1
  OBVIOUS

LEMMA Removing ==
    ASSUME NEW S, NEW q \in Seq(S), q # <<>>, NEW r, r = Tail(q)
    PROVE  /\ r \in Seq(S) /\ Len(q) \in Nat /\ Len(r) = Len(q) - 1
           /\ Head(q) = q[1] /\ 1 \in 1..Len(q) /\ q[1] \in S
           /\ \A i \in 1..Len(r) : /\ r[i] = q[i + 1]
                                   /\ i + 1 \in 1..Len(q) /\ i + 1 # 1
           /\ \A i \in 1..Len(q) : i = 1 \/ (i - 1 \in 1..Len(r) /\ (i - 1) + 1 = i)
  OBVIOUS

(* Every action keeps the types and the places.                             *)
LEMMA InvStep == ASSUME Inv, [Next]_vars PROVE Inv'
<1> USE DEF chans
<1>t. TypeOK
  BY DEF Inv
<1>h. Holding
  BY DEF Inv, Placed
<1>a. Answered
  BY DEF Inv, Placed
<1>d. Delivered
  BY DEF Inv, Placed
<1>c. Closing
  BY DEF Inv, Placed
<1>1. CASE SendRequest
  <2>1. TypeOK'
    BY <1>1, <1>t, SizesAssumption DEF SendRequest, TypeOK, Requests, Workers
  <2>2. Closing'
    BY <1>1, <1>t, <1>c, SizesAssumption DEF SendRequest, Closing, TypeOK
  <2>3. Holding' /\ Answered' /\ Delivered'
    BY <1>1, <1>h, <1>a, <1>d DEF SendRequest, Holding, Answered, Delivered
  <2> QED
    BY <2>1, <2>2, <2>3 DEF Inv, Placed
<1>2. CASE CloseRequests
  <2>1. TypeOK' /\ Closing'
    BY <1>2, <1>t, <1>c DEF CloseRequests, TypeOK, Closing
  <2>2. Holding' /\ Answered' /\ Delivered'
    BY <1>2, <1>h, <1>a, <1>d DEF CloseRequests, Holding, Answered, Delivered
  <2> QED
    BY <2>1, <2>2 DEF Inv, Placed
<1>3. CASE CloseResponses
  <2>1. TypeOK' /\ Closing'
    BY <1>3, <1>t, <1>c DEF CloseResponses, TypeOK, Closing
  <2>2. Holding' /\ Answered' /\ Delivered'
    BY <1>3, <1>h, <1>a, <1>d DEF CloseResponses, Holding, Answered, Delivered
  <2> QED
    BY <2>1, <2>2 DEF Inv, Placed
<1>4. CASE Read
  <2>1. /\ resps # <<>> /\ got' = Append(got, Head(resps)) /\ resps' = Tail(resps)
        /\ UNCHANGED <<sent, taken, reqClosed, wpc, wreq, respClosed, cpc, done>>
    BY <1>4 DEF Read
  <2>2. resps \in Seq(Requests) /\ got \in Seq(Requests)
    BY <1>t DEF TypeOK
  <2>3. /\ resps' \in Seq(Requests) /\ Len(resps) \in Nat /\ Len(resps') = Len(resps) - 1
        /\ Head(resps) = resps[1] /\ 1 \in 1..Len(resps) /\ resps[1] \in Requests
        /\ \A i \in 1..Len(resps') : /\ resps'[i] = resps[i + 1]
                                     /\ i + 1 \in 1..Len(resps) /\ i + 1 # 1
    BY <2>1, <2>2, Removing
  <2>4. /\ got' \in Seq(Requests) /\ Len(got') = Len(got) + 1
        /\ got'[Len(got) + 1] = resps[1]
        /\ \A i \in 1..Len(got) : got'[i] = got[i]
        /\ \A i \in 1..Len(got') : i \in 1..Len(got) \/ i = Len(got) + 1
    BY <2>1, <2>2, <2>3, Appending
  <2>5. TypeOK'
    BY <1>t, <2>1, <2>3, <2>4, SizesAssumption DEF TypeOK
  <2>6. Holding'
    BY <1>h, <2>1 DEF Holding
  <2>7. Answered'
    <3>1. /\ \A i \in 1..Len(resps') : resps'[i] <= taken
          /\ \A w \in Workers, i \in 1..Len(resps') :
                wpc[w] \in Busy => wreq[w] # resps'[i]
      BY <1>a, <2>3 DEF Answered
    <3>2. \A i, j \in 1..Len(resps') : resps'[i] = resps'[j] => i = j
      <4> SUFFICES ASSUME NEW i \in 1..Len(resps'), NEW j \in 1..Len(resps'),
                          resps'[i] = resps'[j]
                   PROVE  i = j
        OBVIOUS
      <4>1. resps[i + 1] = resps[j + 1] /\ i + 1 \in 1..Len(resps) /\ j + 1 \in 1..Len(resps)
        BY <2>3
      <4>2. i + 1 = j + 1
        BY <1>a, <4>1 DEF Answered
      <4> QED
        BY <4>2
    <3> QED
      BY <2>1, <3>1, <3>2 DEF Answered
  <2>8. Delivered'
    <3>1. /\ \A i \in 1..Len(got') : got'[i] <= taken
          /\ \A w \in Workers, i \in 1..Len(got') :
                wpc[w] \in Busy => wreq[w] # got'[i]
      BY <1>a, <1>d, <2>3, <2>4 DEF Answered, Delivered
    <3>2. \A i \in 1..Len(resps') : resps'[i] # resps[1]
      BY <1>a, <2>3 DEF Answered
    <3>3. \A i \in 1..Len(resps'), j \in 1..Len(got') : resps'[i] # got'[j]
      <4> SUFFICES ASSUME NEW i \in 1..Len(resps'), NEW j \in 1..Len(got')
                   PROVE  resps'[i] # got'[j]
        OBVIOUS
      <4>1. CASE j \in 1..Len(got)
        <5>1. resps'[i] = resps[i + 1] /\ i + 1 \in 1..Len(resps) /\ got'[j] = got[j]
          BY <2>3, <2>4, <4>1
        <5> QED
          BY <1>d, <4>1, <5>1 DEF Delivered
      <4>2. CASE j = Len(got) + 1
        BY <2>4, <3>2, <4>2
      <4> QED
        BY <2>4, <4>1, <4>2
    <3>4. \A i, j \in 1..Len(got') : got'[i] = got'[j] => i = j
      BY <1>d, <2>3, <2>4 DEF Delivered
    <3> QED
      BY <2>1, <3>1, <3>3, <3>4 DEF Delivered
  <2>9. Closing'
    BY <1>c, <1>4 DEF Closing, Read
  <2> QED
    BY <2>5, <2>6, <2>7, <2>8, <2>9 DEF Inv, Placed
<1>5. CASE ReadEnd
  <2>1. TypeOK' /\ Closing'
    BY <1>5, <1>t, <1>c DEF ReadEnd, TypeOK, Closing
  <2>2. Holding' /\ Answered' /\ Delivered'
    BY <1>5, <1>h, <1>a, <1>d DEF ReadEnd, Holding, Answered, Delivered
  <2> QED
    BY <2>1, <2>2 DEF Inv, Placed
<1>6. CASE Cancel
  <2>1. TypeOK' /\ Closing'
    BY <1>6, <1>t, <1>c DEF Cancel, TypeOK, Closing
  <2>2. Holding' /\ Answered' /\ Delivered'
    BY <1>6, <1>h, <1>a, <1>d DEF Cancel, Holding, Answered, Delivered
  <2> QED
    BY <2>1, <2>2 DEF Inv, Placed
<1>7. ASSUME NEW w \in Workers, Take(w) PROVE Inv'
  <2>1. /\ wpc[w] = "idle" /\ taken < sent /\ taken' = taken + 1 /\ taken \in Nat
        /\ \A v \in Workers : wpc'[v] = IF v = w THEN "executing" ELSE wpc[v]
        /\ \A v \in Workers : wreq'[v] = IF v = w THEN taken + 1 ELSE wreq[v]
        /\ UNCHANGED <<sent, reqClosed, resps, respClosed, got, cpc, done>>
    BY <1>7, <1>t, SizesAssumption DEF Take, TypeOK
  <2>2. TypeOK'
    BY <1>7, <1>t, SizesAssumption DEF Take, TypeOK
  <2>3. Holding'
    BY <1>h, <2>1 DEF Holding, Busy
  <2>4. \A i \in 1..Len(resps) : resps[i] \in Nat
    BY <1>t, SizesAssumption DEF TypeOK, Requests
  <2>5. \A i \in 1..Len(got) : got[i] \in Nat
    BY <1>t, SizesAssumption DEF TypeOK, Requests
  <2>6. Answered'
    BY <1>a, <2>1, <2>4 DEF Answered, Busy
  <2>7. Delivered'
    BY <1>d, <2>1, <2>5 DEF Delivered, Busy
  <2>8. Closing'
    BY <1>t, <1>c, <2>1, SizesAssumption DEF Closing, TypeOK
  <2> QED
    BY <2>2, <2>3, <2>6, <2>7, <2>8 DEF Inv, Placed
<1>8. ASSUME NEW w \in Workers, Leave(w) PROVE Inv'
  <2>1. /\ (reqClosed /\ taken = sent) \/ done
        /\ \A v \in Workers : wpc'[v] = IF v = w THEN "left" ELSE wpc[v]
        /\ UNCHANGED <<chans, wreq, resps, respClosed, got, cpc, done>>
    BY <1>8, <1>t DEF Leave, TypeOK
  <2>2. TypeOK'
    BY <1>8, <1>t DEF Leave, TypeOK
  <2>3. Holding' /\ Answered' /\ Delivered'
    BY <1>h, <1>a, <1>d, <2>1 DEF Holding, Answered, Delivered, Busy
  <2>4. Closing'
    BY <1>c, <2>1 DEF Closing
  <2> QED
    BY <2>2, <2>3, <2>4 DEF Inv, Placed
<1>9. ASSUME NEW w \in Workers, Execute(w) PROVE Inv'
  <2>1. /\ wpc[w] = "executing"
        /\ \A v \in Workers : wpc'[v] = IF v = w THEN "answering" ELSE wpc[v]
        /\ UNCHANGED <<chans, wreq, resps, respClosed, got, cpc, done>>
    BY <1>9, <1>t DEF Execute, TypeOK
  <2>2. TypeOK'
    BY <1>9, <1>t DEF Execute, TypeOK
  <2>3. Holding' /\ Answered' /\ Delivered'
    BY <1>h, <1>a, <1>d, <2>1 DEF Holding, Answered, Delivered, Busy
  <2>4. Closing'
    BY <1>c, <2>1 DEF Closing
  <2> QED
    BY <2>2, <2>3, <2>4 DEF Inv, Placed
<1>10. ASSUME NEW w \in Workers, Respond(w) PROVE Inv'
  <2>1. /\ wpc[w] = "answering" /\ resps' = Append(resps, wreq[w]) /\ Len(resps) < Level
        /\ \A v \in Workers : wpc'[v] = IF v = w THEN "idle" ELSE wpc[v]
        /\ UNCHANGED <<chans, wreq, respClosed, got, cpc, done>>
    BY <1>10, <1>t DEF Respond, TypeOK
  <2>2. wreq[w] \in Requests /\ wreq[w] <= taken /\ resps \in Seq(Requests)
    BY <1>t, <1>h, <2>1, SizesAssumption DEF TypeOK, Holding, Busy, Requests
  <2>3. /\ resps' \in Seq(Requests) /\ Len(resps) \in Nat
        /\ Len(resps') = Len(resps) + 1 /\ resps'[Len(resps) + 1] = wreq[w]
        /\ \A i \in 1..Len(resps) : resps'[i] = resps[i]
        /\ \A i \in 1..Len(resps') : i \in 1..Len(resps) \/ i = Len(resps) + 1
    BY <2>1, <2>2, Appending
  <2>4. TypeOK'
    <3>1. Len(resps') <= Level
      BY <2>1, <2>3, SizesAssumption
    <3>2. wpc' \in [Workers -> {"idle", "executing", "answering", "left"}]
      BY <1>10, <1>t DEF Respond, TypeOK
    <3> QED
      BY <1>t, <2>1, <2>3, <3>1, <3>2 DEF TypeOK
  <2>5. Holding'
    BY <1>h, <2>1 DEF Holding, Busy
  <2>6. Answered'
    <3>1. \A i \in 1..Len(resps') : resps'[i] <= taken
      BY <1>a, <2>2, <2>3 DEF Answered
    <3>2. \A v \in Workers, i \in 1..Len(resps') : wpc'[v] \in Busy => wreq[v] # resps'[i]
      BY <1>a, <1>h, <2>1, <2>3 DEF Answered, Holding, Busy
    <3>3. \A i, j \in 1..Len(resps') : resps'[i] = resps'[j] => i = j
      BY <1>a, <2>1, <2>3 DEF Answered, Busy
    <3> QED
      BY <2>1, <3>1, <3>2, <3>3 DEF Answered
  <2>7. Delivered'
    <3>1. \A i \in 1..Len(resps'), j \in 1..Len(got) : resps'[i] # got[j]
      BY <1>d, <2>1, <2>3 DEF Delivered, Busy
    <3> QED
      BY <1>d, <2>1, <3>1 DEF Delivered, Busy
  <2>8. Closing'
    BY <1>c, <2>1, <2>3 DEF Closing
  <2> QED
    BY <2>4, <2>5, <2>6, <2>7, <2>8 DEF Inv, Placed
<1>11. CASE UNCHANGED vars
  BY <1>11, <1>t, <1>h, <1>a, <1>d, <1>c
     DEF vars, Inv, TypeOK, Placed, Holding, Answered, Delivered, Closing
<1> QED
  BY <1>1, <1>2, <1>3, <1>4, <1>5, <1>6, <1>7, <1>8, <1>9, <1>10, <1>11
     DEF Next, Sender, Caller, Worker

(* Where every request is, for every number of requests and workers.        *)
THEOREM RequestsPlaced == Spec => []Placed
<1>1. Inv /\ [Next]_vars => Inv'
  BY InvStep
<1>2. Inv => Placed
  BY DEF Inv
<1> QED
  BY <1>1, <1>2, InvInit, PTL DEF Spec

-----------------------------------------------------------------------------
(* The invariant of the workers, in the words of the abstract specification.*)
LEMMA Ended == ASSUME Inv PROVE cpc = "ended" => Executing = {} /\ Ready = {}
<1>1. cpc = "ended" => \A w \in Workers : wpc[w] = "left"
  BY DEF Inv, Placed, Closing
<1> QED
  BY <1>1 DEF Executing, Ready, Waiting, Inv, Placed, Closing

LEMMA AbstractInit == Init => P!Init
<1> SUFFICES ASSUME Init PROVE P!Init
    OBVIOUS
<1>1. /\ (taken + 1)..M = 1..M /\ Executing = {} /\ Ready = {} /\ Received = {}
  BY SizesAssumption DEF Init, Executing, Ready, Waiting, Received
<1> QED
  BY <1>1 DEF Init, P!Init, Requests

(* Every step of the pool is one of Pool's or changes nothing Pool sees.    *)
LEMMA AbstractStep == ASSUME Inv, [Next]_vars PROVE [P!Next]_(P!vars)
<1> DEFINE todo == (taken + 1)..M
           givenUp == done \/ Level = 0
           ended == cpc = "ended"
<1> USE SizesAssumption DEF chans
<1>1. ASSUME UNCHANGED <<taken, wreq, resps, got, cpc, done>>,
             UNCHANGED <<Executing, Waiting>>
      PROVE  UNCHANGED P!vars
  BY <1>1 DEF P!vars, Ready, Received
<1>2. ASSUME UNCHANGED <<taken, wpc, wreq, resps, got, cpc, done>>
      PROVE  UNCHANGED P!vars
  BY <1>2 DEF P!vars, Ready, Received, Executing, Waiting
<1>3. CASE SendRequest \/ CloseRequests \/ CloseResponses \/ UNCHANGED vars
  BY <1>2, <1>3 DEF SendRequest, CloseRequests, CloseResponses, vars
<1>4. CASE Read
  <2>1. /\ resps # <<>> /\ got' = Append(got, Head(resps)) /\ resps' = Tail(resps)
        /\ UNCHANGED <<taken, wpc, wreq, cpc, done>> /\ cpc = "reading"
    BY <1>4 DEF Read
  <2>2. /\ resps \in Seq(Requests) /\ got \in Seq(Requests)
    BY DEF Inv, TypeOK
  <2>3. /\ Len(resps) \in Nat /\ Len(resps') = Len(resps) - 1
        /\ Head(resps) = resps[1] /\ 1 \in 1..Len(resps) /\ resps[1] \in Requests
        /\ \A i \in 1..Len(resps') : /\ resps'[i] = resps[i + 1]
                                     /\ i + 1 \in 1..Len(resps) /\ i + 1 # 1
        /\ \A i \in 1..Len(resps) :
              i = 1 \/ (i - 1 \in 1..Len(resps') /\ (i - 1) + 1 = i)
    BY <2>1, <2>2, Removing
  <2>10. /\ Len(got) \in Nat /\ Len(got') = Len(got) + 1
         /\ got'[Len(got) + 1] = resps[1]
         /\ \A i \in 1..Len(got) : got'[i] = got[i]
         /\ \A i \in 1..Len(got') : i \in 1..Len(got) \/ i = Len(got) + 1
    BY <2>1, <2>2, <2>3, Appending
  <2>4. Received' = Received \cup {resps[1]}
    BY <2>10 DEF Received
  <2>5. UNCHANGED <<Executing, Waiting>>
    BY <2>1 DEF Executing, Waiting
  <2>6. resps[1] \notin Waiting
    BY <2>3 DEF Waiting, Inv, Placed, Answered, Busy
  <2>7. {resps'[i] : i \in 1..Len(resps')} = {resps[i] : i \in 1..Len(resps)} \ {resps[1]}
    <3>1. \A i, j \in 1..Len(resps) : resps[i] = resps[j] => i = j
      BY DEF Inv, Placed, Answered
    <3>2. \A i \in 1..Len(resps') : resps'[i] # resps[1]
      BY <2>3, <3>1
    <3>3. \A i \in 1..Len(resps) : resps[i] # resps[1] =>
              \E k \in 1..Len(resps') : resps'[k] = resps[i]
      BY <2>3
    <3> DEFINE before == {resps[i] : i \in 1..Len(resps)}
               after  == {resps'[i] : i \in 1..Len(resps')}
    <3>6. \A r : r \in after => r \in before /\ r # resps[1]
      <4> SUFFICES ASSUME NEW r \in after PROVE r \in before /\ r # resps[1]
        OBVIOUS
      <4>1. PICK i \in 1..Len(resps') : r = resps'[i]
        OBVIOUS
      <4> QED
        BY <2>3, <3>2, <4>1
    <3>7. \A r : r \in before /\ r # resps[1] => r \in after
      <4> SUFFICES ASSUME NEW r \in before, r # resps[1] PROVE r \in after
        OBVIOUS
      <4>1. PICK i \in 1..Len(resps) : r = resps[i]
        OBVIOUS
      <4> QED
        BY <3>3, <4>1
    <3> HIDE DEF before, after
    <3>8. after = before \ {resps[1]}
      BY <3>6, <3>7
    <3> QED
      BY <3>8 DEF before, after
  <2>8. Ready' = Ready \ {resps[1]} /\ resps[1] \in Ready
    <3> DEFINE inChan == {resps[i] : i \in 1..Len(resps)}
    <3>1. resps[1] \in inChan
      BY <2>2, <2>3
    <3>2. Ready' = Waiting \cup (inChan \ {resps[1]})
      BY <2>5, <2>7 DEF Ready
    <3> HIDE DEF inChan
    <3>3. Ready = Waiting \cup inChan
      BY DEF Ready, inChan
    <3> QED
      BY <2>6, <3>1, <3>2, <3>3
  <2>9. P!Receive(resps[1])
    BY <2>1, <2>4, <2>5, <2>8 DEF P!Receive
  <2> QED
    BY <2>3, <2>9 DEF P!Next
<1>5. CASE ReadEnd
  <2>1. /\ cpc' = "ended" /\ resps = <<>> /\ respClosed
        /\ UNCHANGED <<taken, wpc, wreq, resps, got, done>>
    BY <1>5 DEF ReadEnd
  <2>2. \A w \in Workers : wpc[w] = "left"
    BY <2>1 DEF Inv, Placed, Closing
  <2>3. Executing = {} /\ Ready = {}
    BY <2>1, <2>2 DEF Executing, Ready, Waiting
  <2>4. todo = {} \/ givenUp
    <3>1. CASE Level = 0
      BY <3>1
    <3>2. CASE Level # 0
      <4>1. 1 \in Workers
        BY <3>2 DEF Workers
      <4>2. done \/ taken = M
        BY <4>1, <2>2 DEF Inv, Placed, Closing
      <4> QED
        BY <4>2
    <3> QED
      BY <3>1, <3>2
  <2>5. UNCHANGED <<Executing, Ready, Received>>
    BY <2>1 DEF Executing, Ready, Waiting, Received
  <2>6. P!End
    BY <2>1, <2>3, <2>4, <2>5 DEF P!End
  <2> QED
    BY <2>6 DEF P!Next
<1>6. CASE Cancel
  <2>1. UNCHANGED <<Executing, Ready, Received>>
    BY <1>6 DEF Cancel, Executing, Ready, Waiting, Received
  <2>2. P!GiveUp
    BY <1>6, <2>1 DEF Cancel, P!GiveUp
  <2> QED
    BY <2>2 DEF P!Next
<1>7. ASSUME NEW w \in Workers, Take(w) PROVE P!Next
  <2> DEFINE r == taken + 1
  <2>1. /\ wpc[w] = "idle" /\ wpc' = [wpc EXCEPT ![w] = "executing"]
        /\ wreq' = [wreq EXCEPT ![w] = r] /\ taken' = r /\ taken < sent
        /\ UNCHANGED <<resps, got, cpc, done>>
    BY <1>7 DEF Take
  <2>2. /\ \A v \in Workers : wpc'[v] = IF v = w THEN "executing" ELSE wpc[v]
        /\ \A v \in Workers : wreq'[v] = IF v = w THEN r ELSE wreq[v]
    BY <2>1 DEF Inv, TypeOK
  <2>3. r \in todo /\ todo' = todo \ {r} /\ r \in Requests
    BY <2>1 DEF Inv, TypeOK, Requests
  <2>4. Executing' = Executing \cup {r}
    BY <2>1, <2>2 DEF Executing
  <2>5. UNCHANGED <<Ready, Received>>
    BY <2>1, <2>2 DEF Ready, Waiting, Received
  <2>6. ~ended
    BY <2>1 DEF Inv, Placed, Closing
  <2>7. P!Start(r)
    BY <2>1, <2>3, <2>4, <2>5, <2>6 DEF P!Start
  <2> QED
    BY <2>3, <2>7 DEF P!Next
<1>8. ASSUME NEW w \in Workers, Leave(w) PROVE UNCHANGED P!vars
  <2>1. /\ UNCHANGED <<taken, wreq, resps, got, cpc, done>> /\ wpc[w] = "idle"
        /\ \A v \in Workers : wpc'[v] = IF v = w THEN "left" ELSE wpc[v]
    BY <1>8 DEF Leave, Inv, TypeOK
  <2>2. UNCHANGED <<Executing, Waiting>>
    BY <2>1 DEF Executing, Waiting
  <2> QED
    BY <1>1, <2>1, <2>2
<1>9. ASSUME NEW w \in Workers, Execute(w) PROVE P!Next
  <2> DEFINE r == wreq[w]
  <2>1. /\ UNCHANGED <<taken, wreq, resps, got, cpc, done>> /\ wpc[w] = "executing"
        /\ \A v \in Workers : wpc'[v] = IF v = w THEN "answering" ELSE wpc[v]
    BY <1>9 DEF Execute, Inv, TypeOK
  <2>2. r \in Requests /\ r \in Executing
    BY <2>1 DEF Inv, TypeOK, Placed, Holding, Busy, Requests, Executing
  <2>3. Executing' = Executing \ {r}
    BY <2>1 DEF Executing, Inv, Placed, Holding, Busy
  <2>4. Ready' = Ready \cup {r}
    BY <2>1 DEF Ready, Waiting
  <2>5. ~ended
    BY <2>1 DEF Inv, Placed, Closing
  <2>6. P!Answer(r)
    BY <2>1, <2>2, <2>3, <2>4, <2>5 DEF P!Answer, Received
  <2> QED
    BY <2>2, <2>6 DEF P!Next
<1>10. ASSUME NEW w \in Workers, Respond(w) PROVE UNCHANGED P!vars
  <2>1. /\ UNCHANGED <<taken, wreq, got, cpc, done>> /\ wpc[w] = "answering"
        /\ \A v \in Workers : wpc'[v] = IF v = w THEN "idle" ELSE wpc[v]
        /\ resps' = Append(resps, wreq[w])
    BY <1>10 DEF Respond, Inv, TypeOK
  <2>2. /\ Len(resps') = Len(resps) + 1 /\ resps'[Len(resps) + 1] = wreq[w]
        /\ \A i \in 1..Len(resps) : resps'[i] = resps[i]
        /\ Len(resps) \in Nat
    BY <2>1 DEF Inv, TypeOK
  <2>3. UNCHANGED Executing
    BY <2>1 DEF Executing
  <2>4. {resps'[i] : i \in 1..Len(resps')} = {resps[i] : i \in 1..Len(resps)} \cup {wreq[w]}
    BY <2>2
  <2>5. Waiting = Waiting' \cup {wreq[w]}
    BY <2>1 DEF Waiting
  <2>6. UNCHANGED Ready
    BY <2>4, <2>5 DEF Ready
  <2> QED
    BY <2>1, <2>3, <2>6 DEF P!vars, Received
<1> QED
  BY <1>3, <1>4, <1>5, <1>6, <1>7, <1>8, <1>9, <1>10
     DEF Next, Sender, Caller, Worker

(* The pool implements Pool, for every number of requests and workers and   *)
(* whenever the context is done (Run, worker, SendRequests).                *)
THEOREM PoolImplements == Spec => Implements
<1>1. Inv /\ [Next]_vars => Inv'
  BY InvStep
<1>2. Inv /\ [Next]_vars => [P!Next]_(P!vars)
  BY AbstractStep
<1> QED
  BY <1>1, <1>2, InvInit, AbstractInit, PTL DEF Spec, Implements, P!Spec

-----------------------------------------------------------------------------
(* What Pool promises has a consequence that no step of it states: requests *)
(* move on from one place to the next and none is lost on the way.          *)
Everywhere == (taken + 1)..M \cup Executing \cup Ready \cup Received

LEMMA EverywhereInit == P!Init => Everywhere = Requests
BY DEF P!Init, Everywhere

LEMMA EverywhereStep ==
    ASSUME Everywhere = Requests, [P!Next]_(P!vars)
    PROVE  Everywhere' = Requests
<1>1. ASSUME NEW r \in Requests, P!Start(r) \/ P!Answer(r) \/ P!Receive(r)
      PROVE  Everywhere' = Everywhere
  BY <1>1 DEF P!Start, P!Answer, P!Receive, Everywhere
<1>2. CASE P!GiveUp \/ P!End \/ UNCHANGED P!vars
  BY <1>2 DEF P!GiveUp, P!End, P!vars, Everywhere
<1> QED
  BY <1>1, <1>2 DEF P!Next

(* A caller that is told of the end, whose context is not done, has a       *)
(* response for every request of its own (SendRequests, worker, Run), if    *)
(* there is a worker at all.                                                *)
Complete == cpc = "ended" => Received = Requests \/ done \/ Level = 0

THEOREM NothingLost == Spec => []Complete
<1>1. Inv /\ Everywhere = Requests /\ [Next]_vars => (Inv /\ Everywhere = Requests)'
  <2>1. ASSUME Inv, Everywhere = Requests, [Next]_vars PROVE Everywhere' = Requests
    BY <2>1, AbstractStep, EverywhereStep
  <2>2. Requests' = Requests
    BY DEF Requests
  <2> QED
    BY <2>1, <2>2, InvStep
<1>2. Init => Inv /\ Everywhere = Requests
  BY InvInit, AbstractInit, EverywhereInit
<1>3. Inv /\ Everywhere = Requests => Complete
  <2> SUFFICES ASSUME Inv, Everywhere = Requests, cpc = "ended", ~done, Level # 0
               PROVE  Received = Requests
    BY DEF Complete
  <2>1. Executing = {} /\ Ready = {}
    BY Ended
  <2>2. 1 \in Workers
    BY SizesAssumption DEF Workers
  <2>3. taken = M
    BY <2>2 DEF Inv, Placed, Closing
  <2>4. (taken + 1)..M = {}
    BY <2>3, SizesAssumption
  <2> QED
    BY <2>1, <2>4 DEF Everywhere
<1> QED
  BY <1>1, <1>2, <1>3, PTL DEF Spec
=============================================================================
