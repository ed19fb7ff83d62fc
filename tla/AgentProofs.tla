----------------------------- MODULE AgentProofs -----------------------------
(* Proofs about Agent, for any pools of workers, any buffers, any number of *)
(* requests and of failures of the connection.                              *)
EXTENDS Agent, TLAPS

Request == [id : Nat, kind : {"none", "call", "health", "log"}]

-----------------------------------------------------------------------------
(* What taking from a list without repetitions, adding to it and joining    *)
(* two of them does to their elements.                                      *)
LEMMA HeadTail ==
    ASSUME NEW s \in Seq(Request), s # <<>>, IsInjective(s)
    PROVE  /\ Head(s) \in Request /\ Tail(s) \in Seq(Request) /\ IsInjective(Tail(s))
           /\ ToSet(Tail(s)) = ToSet(s) \ {Head(s)} /\ Head(s) \in ToSet(s)
<1>1. Len(s) \in Nat /\ Len(s) > 0 /\ DOMAIN s = 1..Len(s) /\ Head(s) = s[1]
  OBVIOUS
<1>2. Tail(s) \in Seq(Request) /\ DOMAIN Tail(s) = 1..(Len(s) - 1)
      /\ \A i \in 1..(Len(s) - 1) : Tail(s)[i] = s[i + 1]
  BY <1>1
<1>3. IsInjective(Tail(s))
  BY <1>1, <1>2 DEF IsInjective
<1>4. ASSUME NEW r PROVE r \in ToSet(Tail(s)) <=> r \in ToSet(s) \ {Head(s)}
  <2>1. ASSUME r \in ToSet(Tail(s)) PROVE r \in ToSet(s) \ {Head(s)}
    BY <1>1, <1>2, <2>1 DEF ToSet, IsInjective
  <2>2. ASSUME NEW i \in DOMAIN s, r = s[i], r # Head(s) PROVE r \in ToSet(Tail(s))
    <3>1. i - 1 \in 1..(Len(s) - 1) /\ Tail(s)[i - 1] = r
      BY <1>1, <1>2, <2>2
    <3> QED
      BY <1>2, <3>1 DEF ToSet
  <2> QED
    BY <2>1, <2>2 DEF ToSet
<1> QED
  BY <1>1, <1>2, <1>3, <1>4 DEF ToSet

LEMMA Added ==
    ASSUME NEW s \in Seq(Request), NEW r \in Request, r \notin ToSet(s), IsInjective(s)
    PROVE  /\ Append(s, r) \in Seq(Request) /\ IsInjective(Append(s, r))
           /\ ToSet(Append(s, r)) = ToSet(s) \cup {r}
<1>1. Len(s) \in Nat /\ DOMAIN s = 1..Len(s)
  OBVIOUS
<1>2. Append(s, r) \in Seq(Request) /\ DOMAIN Append(s, r) = 1..(Len(s) + 1)
      /\ Append(s, r)[Len(s) + 1] = r /\ \A i \in 1..Len(s) : Append(s, r)[i] = s[i]
  BY <1>1
<1>3. IsInjective(Append(s, r))
  BY <1>1, <1>2 DEF IsInjective, ToSet
<1>4. ASSUME NEW q PROVE q \in ToSet(Append(s, r)) <=> q \in ToSet(s) \cup {r}
  BY <1>1, <1>2 DEF ToSet
<1> QED
  BY <1>2, <1>3, <1>4

LEMMA Joined ==
    ASSUME NEW s \in Seq(Request), NEW t \in Seq(Request), IsInjective(s), IsInjective(t),
           ToSet(s) \cap ToSet(t) = {}
    PROVE  /\ s \o t \in Seq(Request) /\ IsInjective(s \o t)
           /\ ToSet(s \o t) = ToSet(s) \cup ToSet(t)
<1>1. Len(s) \in Nat /\ DOMAIN s = 1..Len(s) /\ Len(t) \in Nat /\ DOMAIN t = 1..Len(t)
  OBVIOUS
<1>2. s \o t \in Seq(Request) /\ DOMAIN (s \o t) = 1..(Len(s) + Len(t))
      /\ (\A i \in 1..Len(s) : (s \o t)[i] = s[i])
      /\ \A i \in (Len(s) + 1)..(Len(s) + Len(t)) : (s \o t)[i] = t[i - Len(s)]
  BY <1>1
<1>3. IsInjective(s \o t)
  <2> SUFFICES ASSUME NEW i \in DOMAIN (s \o t), NEW j \in DOMAIN (s \o t), i < j,
                      (s \o t)[i] = (s \o t)[j]
               PROVE  FALSE
    BY <1>1, <1>2 DEF IsInjective
  <2>1. CASE j <= Len(s)
    BY <1>1, <1>2, <2>1 DEF IsInjective
  <2>2. CASE i > Len(s)
    <3>1. i - Len(s) \in DOMAIN t /\ j - Len(s) \in DOMAIN t /\ i - Len(s) # j - Len(s)
      BY <1>1, <1>2, <2>2
    <3>2. t[i - Len(s)] = t[j - Len(s)]
      BY <1>1, <1>2, <2>2
    <3> QED
      BY <3>1, <3>2 DEF IsInjective
  <2>3. CASE i <= Len(s) /\ j > Len(s)
    <3>1. i \in DOMAIN s /\ j - Len(s) \in DOMAIN t /\ s[i] = t[j - Len(s)]
      BY <1>1, <1>2, <2>3
    <3> QED
      BY <3>1 DEF ToSet
  <2> QED
    BY <1>1, <1>2, <2>1, <2>2, <2>3
<1>4. ASSUME NEW r PROVE r \in ToSet(s \o t) <=> r \in ToSet(s) \cup ToSet(t)
  <2>1. ASSUME NEW i \in DOMAIN (s \o t), r = (s \o t)[i] PROVE r \in ToSet(s) \cup ToSet(t)
    <3>1. CASE i <= Len(s)
      BY <1>1, <1>2, <2>1, <3>1 DEF ToSet
    <3>2. CASE i > Len(s)
      <4>1. i - Len(s) \in DOMAIN t /\ r = t[i - Len(s)]
        BY <1>1, <1>2, <2>1, <3>2
      <4> QED
        BY <4>1 DEF ToSet
    <3> QED
      BY <1>1, <1>2, <3>1, <3>2
  <2>2. ASSUME NEW i \in DOMAIN s, r = s[i] PROVE r \in ToSet(s \o t)
    BY <1>1, <1>2, <2>2 DEF ToSet
  <2>3. ASSUME NEW i \in DOMAIN t, r = t[i] PROVE r \in ToSet(s \o t)
    <3>1. i + Len(s) \in DOMAIN (s \o t) /\ (s \o t)[i + Len(s)] = r
      BY <1>1, <1>2, <2>3
    <3> QED
      BY <3>1 DEF ToSet
  <2> QED
    BY <2>1, <2>2, <2>3 DEF ToSet
<1> QED
  BY <1>2, <1>3, <1>4

-----------------------------------------------------------------------------
Types ==
    /\ sent \in [Lanes -> Nat] /\ answered \in [Lanes -> SUBSET Nat]
    /\ stream \in [Lanes -> Seq(Request)] /\ reqs \in [Lanes -> Seq(Request)]
    /\ resps \in [Lanes -> Seq(Request)]
    /\ rmsg \in [Lanes -> Request] /\ smsg \in [Lanes -> Request] /\ wmsg \in [Workers -> Request]
    /\ rpc \in [Lanes -> {"recv", "put", "done"}] /\ spc \in [Lanes -> {"take", "send", "done"}]
    /\ wpc \in [Workers -> {"take", "respond", "insist", "lines", "done"}]

LEMMA TypesInit == Init => Types
BY DEF Init, Types, NoRequest, Request

LEMMA TypesStep == ASSUME Types, [Next]_vars PROVE Types'
<1> USE DEF Types, context, cloud, recv, buffers, work, send
<1>l. ASSUME NEW s \in Seq(Request) PROVE s # <<>> => Head(s) \in Request /\ Tail(s) \in Seq(Request)
  OBVIOUS
<1>1. ASSUME NEW l \in Lanes, CloudSends(l) PROVE Types'
  <2>1. PICK k \in Kinds(l) : stream' = [stream EXCEPT ![l] = Append(@, [id |-> sent[l] + 1, kind |-> k])]
    BY <1>1 DEF CloudSends
  <2>2. [id |-> sent[l] + 1, kind |-> k] \in Request /\ sent[l] + 1 \in Nat
    BY DEF Kinds, Request
  <2> QED
    BY <1>1, <2>1, <2>2 DEF CloudSends
<1>2. ASSUME NEW l \in Lanes, Receiver(l) \/ ReceiveFails(l) PROVE Types'
  <2>1. CASE Receive(l)
    <3>1. stream[l] \in Seq(Request) /\ stream[l] # <<>>
      BY <2>1 DEF Receive
    <3>2. Head(stream[l]) \in Request /\ Tail(stream[l]) \in Seq(Request)
      BY <3>1, <1>l
    <3> QED
      BY <2>1, <3>2 DEF Receive
  <2>2. CASE Put(l)
    <3>1. Append(reqs[l], rmsg[l]) \in Seq(Request)
      OBVIOUS
    <3> QED
      BY <2>2, <3>1 DEF Put
  <2>3. CASE ReceiverEnds(l) \/ ReceiveFails(l)
    BY <2>3 DEF ReceiverEnds, ReceiveFails
  <2> QED
    BY <1>2, <2>1, <2>2, <2>3 DEF Receiver
<1>3. ASSUME NEW l \in Lanes, Sender(l) \/ SendFails(l) \/ LoopReturns(l) PROVE Types'
  <2>1. CASE TakeResponse(l)
    <3>1. resps[l] \in Seq(Request) /\ resps[l] # <<>>
      BY <2>1 DEF TakeResponse
    <3>2. Head(resps[l]) \in Request /\ Tail(resps[l]) \in Seq(Request)
      BY <3>1, <1>l
    <3> QED
      BY <2>1, <3>2 DEF TakeResponse
  <2>2. CASE Send(l) \/ SenderEnds(l) \/ SendFails(l)
    <3>1. answered[l] \cup {smsg[l].id} \in SUBSET Nat
      BY DEF Request
    <3>2. answered' \in [Lanes -> SUBSET Nat]
      BY <2>2, <3>1 DEF Send, SenderEnds, SendFails, PerhapsOut, Out
    <3>3. spc' \in [Lanes -> {"take", "send", "done"}] /\ UNCHANGED <<cloud, recv, buffers, work, smsg>>
      BY <2>2 DEF Send, SenderEnds, SendFails
    <3> QED
      BY <3>2, <3>3
  <2>3. CASE LoopReturns(l)
    BY <2>3 DEF LoopReturns
  <2> QED
    BY <1>3, <2>1, <2>2, <2>3 DEF Sender
<1>4. ASSUME NEW w \in Workers, Worker(w) PROVE Types'
  <2>1. Lane(w) \in Lanes
    BY DEF Lane, Lanes
  <2>2. CASE Take(w)
    BY <1>l, <2>1, <2>2 DEF Take
  <2>3. CASE Respond(w) \/ Line(w)
    <3>1. Append(resps[Lane(w)], wmsg[w]) \in Seq(Request)
      BY <2>1
    <3> QED
      BY <2>1, <2>3, <3>1 DEF Respond, Line
  <2>4. CASE LinesEnd(w) \/ WorkerEnds(w)
    BY <2>4 DEF LinesEnd, WorkerEnds
  <2> QED
    BY <1>4, <2>2, <2>3, <2>4 DEF Worker
<1>5. CASE Notify \/ SendEvent \/ EventLoopEnds \/ SendEventFails
  BY <1>5 DEF Notify, SendEvent, EventLoopEnds, SendEventFails
<1>6. CASE Reconnect
  BY <1>6 DEF Reconnect, Fresh
<1>7. CASE UNCHANGED vars
  BY <1>7 DEF vars
<1> QED
  BY <1>1, <1>2, <1>3, <1>4, <1>5, <1>6, <1>7 DEF Next, Breaks

-----------------------------------------------------------------------------
(* The places of the calls.  No two of them hold the same call, and none    *)
(* holds one that was answered.                                             *)
InStream    == ToSet(stream["command"])
AtReceiver  == IF rpc["command"] = "put" THEN {rmsg["command"]} ELSE {}
InRequests  == ToSet(reqs["command"])
AtWorker(w) == IF wpc[w] \in {"respond", "insist"} THEN {wmsg[w]} ELSE {}
InResponses == ToSet(resps["command"])
AtSender    == IF spc["command"] = "send" THEN {smsg["command"]} ELSE {}
Listed      == InStream \cup AtReceiver \cup InRequests \cup InResponses \cup AtSender

Lists == /\ IsInjective(stream["command"]) /\ IsInjective(reqs["command"])
         /\ IsInjective(resps["command"])
Apart ==
    /\ InStream \cap (AtReceiver \cup InRequests \cup InResponses \cup AtSender) = {}
    /\ AtReceiver \cap (InRequests \cup InResponses \cup AtSender) = {}
    /\ InRequests \cap (InResponses \cup AtSender) = {}
    /\ InResponses \cap AtSender = {}
    /\ \A w \in CommandWorkers : AtWorker(w) \cap Listed = {}
    /\ \A v, w \in CommandWorkers : v # w => AtWorker(v) \cap AtWorker(w) = {}
Open(r) == r.kind = "call" /\ r.id <= sent["command"] /\ r.id \notin answered["command"]
Opened ==
    /\ \A r \in Listed : Open(r)
    /\ \A w \in CommandWorkers : wpc[w] # "lines" /\ \A r \in AtWorker(w) : Open(r)
    /\ \A i \in answered["command"] : i <= sent["command"]

Home == Lists /\ Apart /\ Opened

LEMMA HomeInit == Init => Home
BY DEF Init, Home, Lists, Apart, Opened, InStream, AtReceiver, InRequests, AtWorker, InResponses,
       AtSender, Listed, IsInjective, ToSet, Workers, Lanes

(* A step that only takes calls away.                                       *)
LEMMA Fewer ==
    ASSUME Home, Lists',
           InStream' \subseteq InStream, AtReceiver' \subseteq AtReceiver,
           InRequests' \subseteq InRequests, InResponses' \subseteq InResponses,
           AtSender' \subseteq AtSender,
           \A w \in CommandWorkers : AtWorker(w)' \subseteq AtWorker(w) /\ wpc'[w] # "lines",
           sent'["command"] = sent["command"], answered'["command"] = answered["command"]
    PROVE  Home'
<1>1. Listed' \subseteq Listed
  BY DEF Listed
<1>2. Apart'
  BY <1>1 DEF Home, Apart
<1>3. Opened'
  BY <1>1 DEF Home, Opened, Open
<1> QED
  BY <1>2, <1>3 DEF Home

(* A step that leaves the lane of the calls alone.                          *)
LEMMA Elsewhere ==
    ASSUME Home, UNCHANGED <<sent["command"], answered["command"], stream["command"],
                             reqs["command"], resps["command"], rmsg["command"],
                             smsg["command"], rpc["command"], spc["command"]>>,
           \A w \in CommandWorkers : wpc'[w] = wpc[w] /\ wmsg'[w] = wmsg[w]
    PROVE  Home'
<1>1. /\ InStream' = InStream /\ AtReceiver' = AtReceiver /\ InRequests' = InRequests
      /\ InResponses' = InResponses /\ AtSender' = AtSender /\ Lists' = Lists
      /\ \A w \in CommandWorkers : AtWorker(w)' = AtWorker(w)
  BY DEF InStream, AtReceiver, InRequests, InResponses, AtSender, AtWorker, Lists
<1> QED
  BY <1>1, Fewer DEF Home, Opened

LEMMA OneCall ==
    ASSUME NEW q \in Request, NEW r \in Request, q.kind = r.kind, q.id = r.id
    PROVE  q = r
BY DEF Request

LEMMA HomeStep == ASSUME Types, Home, [Next]_vars PROVE Home'
<1> DEFINE c == "command"
<1> USE DEF context, cloud, recv, buffers, work, send
<1>t. /\ c \in Lanes /\ CommandWorkers \subseteq Workers
      /\ \A w \in Workers : w \notin CommandWorkers => Lane(w) = "log"
      /\ \A w \in CommandWorkers : Lane(w) = c
  BY DEF Lanes, Workers, Lane
<1>y. /\ stream[c] \in Seq(Request) /\ reqs[c] \in Seq(Request) /\ resps[c] \in Seq(Request)
      /\ rmsg[c] \in Request /\ smsg[c] \in Request /\ \A w \in CommandWorkers : wmsg[w] \in Request
      /\ sent[c] \in Nat /\ answered[c] \subseteq Nat
  BY <1>t DEF Types
<1>1. ASSUME CloudSends(c) PROVE Home'
  <2>0. PICK r \in Request : r = [id |-> sent[c] + 1, kind |-> "call"]
    <3>1. sent[c] + 1 \in Nat
      BY <1>y
    <3>2. [id |-> sent[c] + 1, kind |-> "call"] \in Request
      BY <3>1 DEF Request
    <3> QED
      BY <3>2
  <2>1. /\ stream'[c] = Append(stream[c], r) /\ sent'[c] = sent[c] + 1
        /\ UNCHANGED <<recv, buffers, work, send>>
    BY <1>1, <1>t, <2>0 DEF CloudSends, Kinds, Types
  <2>2. r \in Request /\ ~(r.id <= sent[c]) /\ r.id <= sent'[c]
    BY <1>y, <2>0, <2>1 DEF Request
  <2>3. r \notin Listed /\ \A w \in CommandWorkers : r \notin AtWorker(w)
    BY <2>2 DEF Home, Opened, Open
  <2>4. InStream' = InStream \cup {r} /\ Lists'
    <3>1. r \notin ToSet(stream[c])
      BY <2>3 DEF Listed, InStream
    <3> QED
      BY <1>y, <2>1, <2>2, <3>1, Added DEF InStream, Home, Lists
  <2>5. /\ UNCHANGED <<AtReceiver, InRequests, InResponses, AtSender>>
        /\ \A w \in CommandWorkers : AtWorker(w)' = AtWorker(w)
    BY <2>1 DEF AtReceiver, InRequests, InResponses, AtSender, AtWorker
  <2>6. Listed' = Listed \cup {r}
    BY <2>4, <2>5 DEF Listed
  <2>7. Apart'
    BY <2>3, <2>4, <2>5, <2>6 DEF Home, Apart, Listed
  <2>8. \A q \in Request : Open(q) => Open(q)'
    BY <1>y, <2>1 DEF Open, Request
  <2>9. Open(r)'
    <3>1. r.id \notin answered[c]
      BY <1>y, <2>2 DEF Home, Opened
    <3> QED
      BY <2>0, <2>1, <2>2, <3>1 DEF Open
  <2>10. \A q \in Listed : q \in Request
    BY <1>y DEF Listed, InStream, AtReceiver, InRequests, InResponses, AtSender, ToSet
  <2>11. \A w \in CommandWorkers : \A q \in AtWorker(w) : q \in Request
    BY <1>y DEF AtWorker
  <2>12. \A i \in answered'[c] : i <= sent'[c]
    BY <1>y, <2>1 DEF Home, Opened
  <2>13. Opened'
    BY <2>1, <2>5, <2>6, <2>8, <2>9, <2>10, <2>11, <2>12 DEF Home, Opened
  <2> QED
    BY <2>4, <2>7, <2>13 DEF Home
<1>2. ASSUME Receive(c) PROVE Home'
  <2>1. /\ rpc[c] = "recv" /\ rpc'[c] = "put" /\ rmsg'[c] = Head(stream[c])
        /\ stream[c] # <<>> /\ stream'[c] = Tail(stream[c])
        /\ UNCHANGED <<sent, buffers, work, send>>
    BY <1>2, <1>t DEF Receive, Types
  <2> DEFINE r == Head(stream[c])
  <2>2. r \in InStream /\ InStream' = InStream \ {r} /\ Lists'
    BY <1>y, <2>1, HeadTail DEF InStream, Home, Lists
  <2>3. AtReceiver = {} /\ AtReceiver' = {r}
    BY <2>1 DEF AtReceiver
  <2>4. /\ UNCHANGED <<InRequests, InResponses, AtSender>>
        /\ \A w \in CommandWorkers : AtWorker(w)' = AtWorker(w)
    BY <2>1 DEF InRequests, InResponses, AtSender, AtWorker
  <2>5. Listed' = Listed
    BY <2>2, <2>3, <2>4 DEF Listed
  <2>6. Apart'
    BY <2>2, <2>3, <2>4, <2>5 DEF Home, Apart
  <2>7. Opened'
    BY <2>1, <2>4, <2>5 DEF Home, Opened, Open
  <2> QED
    BY <2>2, <2>6, <2>7 DEF Home
<1>3. ASSUME Put(c) PROVE Home'
  <2>1. /\ rpc[c] = "put" /\ rpc'[c] = "recv" /\ reqs'[c] = Append(reqs[c], rmsg[c])
        /\ UNCHANGED <<cloud, rmsg, resps, work, send>>
    BY <1>3, <1>t DEF Put, Types
  <2> DEFINE r == rmsg[c]
  <2>2. AtReceiver = {r} /\ AtReceiver' = {}
    BY <2>1 DEF AtReceiver
  <2>3. InRequests' = InRequests \cup {r} /\ Lists'
    <3>1. r \notin ToSet(reqs[c])
      BY <2>2 DEF Home, Apart, InRequests
    <3> QED
      BY <1>y, <2>1, <3>1, Added DEF InRequests, Home, Lists
  <2>4. /\ UNCHANGED <<InStream, InResponses, AtSender>>
        /\ \A w \in CommandWorkers : AtWorker(w)' = AtWorker(w)
    BY <2>1 DEF InStream, InResponses, AtSender, AtWorker
  <2>5. Listed' = Listed
    BY <2>2, <2>3, <2>4 DEF Listed
  <2>6. Apart'
    BY <2>2, <2>3, <2>4, <2>5 DEF Home, Apart
  <2>7. Opened'
    BY <2>1, <2>4, <2>5 DEF Home, Opened, Open
  <2> QED
    BY <2>3, <2>6, <2>7 DEF Home
<1>4. ASSUME NEW w \in CommandWorkers, Take(w) PROVE Home'
  <2> DEFINE r == Head(reqs[c])
  <2>1. /\ wpc[w] = "take" /\ reqs[c] # <<>> /\ reqs'[c] = Tail(reqs[c])
        /\ UNCHANGED <<cloud, recv, resps, send>>
    BY <1>4, <1>t DEF Take, Types
  <2>2. r \in InRequests /\ InRequests' = InRequests \ {r} /\ Lists'
    BY <1>y, <2>1, HeadTail DEF InRequests, Home, Lists
  <2>3. r.kind = "call" /\ Open(r)
    BY <2>2 DEF Home, Opened, Open, Listed
  <2>4. wmsg' = [wmsg EXCEPT ![w] = r] /\ wpc' = [wpc EXCEPT ![w] = "respond"]
    BY <1>4, <1>t, <2>3 DEF Take
  <2>5. /\ UNCHANGED <<InStream, AtReceiver, InResponses, AtSender>>
        /\ AtWorker(w) = {} /\ AtWorker(w)' = {r}
        /\ \A v \in CommandWorkers : v # w => AtWorker(v)' = AtWorker(v)
    BY <1>t, <2>1, <2>4 DEF InStream, AtReceiver, InResponses, AtSender, AtWorker, Types
  <2>6. Listed' \subseteq Listed /\ r \notin Listed'
    BY <2>2, <2>5 DEF Listed, Home, Apart
  <2>7. Apart'
    <3>1. \A v \in CommandWorkers : r \notin AtWorker(v)
      BY <2>2 DEF Home, Apart, Listed
    <3>2. \A v \in CommandWorkers : AtWorker(v)' \cap Listed' = {}
      BY <2>5, <2>6 DEF Home, Apart
    <3>3. \A u, v \in CommandWorkers : u # v => AtWorker(u)' \cap AtWorker(v)' = {}
      BY <2>5, <3>1 DEF Home, Apart
    <3> QED
      BY <2>2, <2>5, <3>2, <3>3 DEF Home, Apart
  <2>8. Opened'
    BY <1>t, <2>1, <2>3, <2>4, <2>5, <2>6 DEF Home, Opened, Open, Types
  <2> QED
    BY <2>2, <2>7, <2>8 DEF Home
<1>5. ASSUME NEW w \in CommandWorkers, Respond(w) PROVE Home'
  <2> DEFINE r == wmsg[w]
  <2>1. /\ AtWorker(w) = {r} /\ wpc' = [wpc EXCEPT ![w] = "take"]
        /\ resps'[c] = Append(resps[c], r)
        /\ UNCHANGED <<cloud, recv, reqs, wmsg, send>>
    BY <1>5, <1>t DEF Respond, Types, AtWorker
  <2>2. r \notin Listed /\ Open(r) /\ \A v \in CommandWorkers : v # w => r \notin AtWorker(v)
    BY <2>1 DEF Home, Apart, Opened
  <2>3. InResponses' = InResponses \cup {r} /\ Lists'
    <3>1. r \notin ToSet(resps[c])
      BY <2>2 DEF Listed, InResponses
    <3> QED
      BY <1>y, <2>1, <3>1, Added DEF InResponses, Home, Lists
  <2>4. /\ UNCHANGED <<InStream, AtReceiver, InRequests, AtSender>> /\ AtWorker(w)' = {}
        /\ \A v \in CommandWorkers : v # w => AtWorker(v)' = AtWorker(v)
    BY <1>t, <2>1 DEF InStream, AtReceiver, InRequests, AtSender, AtWorker, Types
  <2>5. Listed' = Listed \cup {r}
    BY <2>3, <2>4 DEF Listed
  <2>6. Apart'
    <3>1. \A v \in CommandWorkers : AtWorker(v)' \cap Listed' = {}
      BY <2>2, <2>4, <2>5 DEF Home, Apart
    <3>2. \A u, v \in CommandWorkers : u # v => AtWorker(u)' \cap AtWorker(v)' = {}
      BY <2>4 DEF Home, Apart
    <3> QED
      BY <2>2, <2>3, <2>4, <3>1, <3>2 DEF Home, Apart, Listed
  <2>7. Opened'
    BY <1>t, <2>1, <2>2, <2>4, <2>5 DEF Home, Opened, Open, Types
  <2> QED
    BY <2>3, <2>6, <2>7 DEF Home
<1>6. ASSUME TakeResponse(c) PROVE Home'
  <2>1. /\ spc[c] = "take" /\ spc'[c] = "send" /\ smsg'[c] = Head(resps[c])
        /\ resps[c] # <<>> /\ resps'[c] = Tail(resps[c])
        /\ UNCHANGED <<cloud, recv, reqs, work, answered>>
    BY <1>6, <1>t DEF TakeResponse, Types
  <2> DEFINE r == Head(resps[c])
  <2>2. r \in InResponses /\ InResponses' = InResponses \ {r} /\ Lists'
    BY <1>y, <2>1, HeadTail DEF InResponses, Home, Lists
  <2>3. AtSender = {} /\ AtSender' = {r}
    BY <2>1 DEF AtSender
  <2>4. /\ UNCHANGED <<InStream, AtReceiver, InRequests>>
        /\ \A w \in CommandWorkers : AtWorker(w)' = AtWorker(w)
    BY <2>1 DEF InStream, AtReceiver, InRequests, AtWorker
  <2>5. Listed' = Listed
    BY <2>2, <2>3, <2>4 DEF Listed
  <2>6. Apart'
    BY <2>2, <2>3, <2>4, <2>5 DEF Home, Apart
  <2>7. Opened'
    BY <2>1, <2>4, <2>5 DEF Home, Opened, Open
  <2> QED
    BY <2>2, <2>6, <2>7 DEF Home
<1>7. ASSUME spc[c] = "send", spc'[c] \in {"take", "done"}, PerhapsOut(c),
             UNCHANGED <<cloud, recv, buffers, work, smsg>>
      PROVE  Home'
  <2>1. CASE UNCHANGED answered
    <3>1. /\ UNCHANGED <<InStream, AtReceiver, InRequests, InResponses, Lists>> /\ AtSender' = {}
          /\ \A w \in CommandWorkers : AtWorker(w)' = AtWorker(w)
      BY <1>7 DEF InStream, AtReceiver, InRequests, InResponses, AtSender, AtWorker, Lists
    <3> QED
      BY <1>7, <2>1, <3>1, Fewer DEF Home, Opened
  <2>2. CASE answered'[c] = answered[c] \cup {smsg[c].id}
    <3> DEFINE r == smsg[c]
    <3>1. /\ UNCHANGED <<InStream, AtReceiver, InRequests, InResponses, Lists>>
          /\ AtSender = {r} /\ AtSender' = {}
          /\ \A w \in CommandWorkers : AtWorker(w)' = AtWorker(w)
      BY <1>7 DEF InStream, AtReceiver, InRequests, InResponses, AtSender, AtWorker, Lists
    <3>2. Open(r) /\ r \notin Listed' /\ \A w \in CommandWorkers : r \notin AtWorker(w)
      BY <3>1 DEF Home, Apart, Opened, Listed
    <3>3. ASSUME NEW q \in Request, Open(q), q # r PROVE Open(q)'
      BY <1>7, <1>y, <2>2, <3>2, <3>3, OneCall DEF Open
    <3>4. Listed' \subseteq Listed
      BY <3>1 DEF Listed
    <3>5. \A q \in Listed : q \in Request
      BY <1>y DEF Listed, InStream, AtReceiver, InRequests, InResponses, AtSender, ToSet
    <3>6. \A w \in CommandWorkers : \A q \in AtWorker(w) : q \in Request
      BY <1>y DEF AtWorker
    <3>7. Opened'
      <4>1. \A q \in Listed' : Open(q)'
        BY <3>2, <3>3, <3>4, <3>5 DEF Home, Opened
      <4>2. \A w \in CommandWorkers : wpc'[w] # "lines" /\ \A q \in AtWorker(w)' : Open(q)'
        BY <1>7, <3>1, <3>2, <3>3, <3>6 DEF Home, Opened
      <4>3. \A i \in answered'[c] : i <= sent'[c]
        BY <1>7, <2>2, <3>2 DEF Home, Opened, Open
      <4> QED
        BY <4>1, <4>2, <4>3 DEF Opened
    <3>8. Apart'
      BY <3>1, <3>4 DEF Home, Apart
    <3> QED
      BY <3>1, <3>7, <3>8 DEF Home
  <2> QED
    BY <1>7, <1>t, <2>1, <2>2 DEF PerhapsOut, Out, Types
<1>8. ASSUME Send(c) \/ SendFails(c) \/ SenderEnds(c) PROVE Home'
  <2>1. CASE spc[c] = "take" /\ UNCHANGED answered
    <3>1. /\ UNCHANGED <<InStream, AtReceiver, InRequests, InResponses, Lists>> /\ AtSender' = {}
          /\ \A w \in CommandWorkers : AtWorker(w)' = AtWorker(w)
      BY <1>8, <1>t, <2>1 DEF Send, SendFails, SenderEnds, InStream, AtReceiver, InRequests,
                              InResponses, AtSender, AtWorker, Lists, Types
    <3> QED
      BY <1>8, <2>1, <3>1, Fewer DEF Home, Opened, Send, SendFails, SenderEnds
  <2>2. CASE spc[c] = "send" /\ PerhapsOut(c)
    BY <1>7, <1>8, <1>t, <2>2 DEF Send, SendFails, SenderEnds, Types
  <2> QED
    BY <1>8, <2>1, <2>2 DEF Send, SendFails, SenderEnds, PerhapsOut
<1>9. ASSUME ReceiverEnds(c) \/ ReceiveFails(c) PROVE Home'
  <2>1. /\ UNCHANGED <<InStream, InRequests, InResponses, AtSender, Lists>> /\ AtReceiver' = {}
        /\ \A w \in CommandWorkers : AtWorker(w)' = AtWorker(w)
    BY <1>9, <1>t DEF ReceiverEnds, ReceiveFails, InStream, AtReceiver, InRequests,
                      InResponses, AtSender, AtWorker, Lists, Types
  <2> QED
    BY <1>9, <2>1, Fewer DEF Home, Opened, ReceiverEnds, ReceiveFails
<1>10. ASSUME NEW w \in CommandWorkers, Line(w) \/ LinesEnd(w) \/ WorkerEnds(w) PROVE Home'
  <2>1. WorkerEnds(w)
    BY <1>10 DEF Home, Opened, Line, LinesEnd
  <2>2. UNCHANGED <<cloud, recv, buffers, wmsg, send>> /\ wpc' = [wpc EXCEPT ![w] = "done"]
    BY <2>1 DEF WorkerEnds
  <2>3. /\ UNCHANGED <<InStream, AtReceiver, InRequests, InResponses, AtSender, Lists>>
        /\ \A v \in CommandWorkers : AtWorker(v)' \subseteq AtWorker(v) /\ wpc'[v] # "lines"
    BY <1>t, <2>2 DEF InStream, AtReceiver, InRequests, InResponses, AtSender, AtWorker, Lists,
                      Home, Opened, Types
  <2> QED
    BY <2>2, <2>3, Fewer DEF Home
<1>11. ASSUME NEW l \in Lanes, l # c,
              CloudSends(l) \/ Receiver(l) \/ ReceiveFails(l) \/ Sender(l) \/ SendFails(l)
       PROVE  Home'
  <2>1. UNCHANGED work /\ UNCHANGED <<sent[c], answered[c], stream[c], reqs[c], resps[c], rmsg[c],
                                      smsg[c], rpc[c], spc[c]>>
    BY <1>11, <1>t DEF Types, CloudSends, Receiver, Receive, Put, ReceiverEnds, ReceiveFails,
              Sender, TakeResponse, Send, SendFails, SenderEnds, PerhapsOut, Out
  <2> QED
    BY <2>1, Elsewhere
<1>12. ASSUME NEW w \in Workers, w \notin CommandWorkers, Worker(w) PROVE Home'
  <2>1. Lane(w) = "log" /\ Lane(w) # c
    BY <1>12, <1>t
  <2>2. UNCHANGED <<sent, answered, stream, rmsg, smsg, rpc, spc>>
    BY <1>12 DEF Worker, Take, Respond, Line, LinesEnd, WorkerEnds
  <2>3. reqs'[c] = reqs[c] /\ resps'[c] = resps[c]
    BY <1>12, <2>1, <1>t DEF Worker, Take, Respond, Line, LinesEnd, WorkerEnds, Types
  <2>4. \A v \in CommandWorkers : wpc'[v] = wpc[v] /\ wmsg'[v] = wmsg[v]
    BY <1>12, <1>t DEF Worker, Take, Respond, Line, LinesEnd, WorkerEnds, Types
  <2> QED
    BY <2>2, <2>3, <2>4, Elsewhere
<1>13. ASSUME NEW l \in Lanes, LoopReturns(l) PROVE Home'
  BY <1>13, Elsewhere DEF LoopReturns
<1>14. CASE Notify \/ SendEvent \/ EventLoopEnds \/ SendEventFails
  BY <1>14, Elsewhere DEF Notify, SendEvent, EventLoopEnds, SendEventFails
<1>15. CASE Reconnect
  <2>1. /\ stream'[c] = <<>> /\ rpc'[c] = "recv" /\ spc'[c] = "take"
        /\ \A w \in CommandWorkers : wpc'[w] = "take"
        /\ UNCHANGED <<sent, answered, reqs, resps>>
    BY <1>15, <1>t DEF Reconnect, Fresh
  <2>2. /\ InStream' = {} /\ AtReceiver' = {} /\ AtSender' = {}
        /\ UNCHANGED <<InRequests, InResponses>> /\ Lists'
        /\ \A w \in CommandWorkers : AtWorker(w)' = {}
    BY <2>1 DEF InStream, AtReceiver, InRequests, InResponses, AtSender, AtWorker, Lists, Home,
                ToSet, IsInjective
  <2> QED
    BY <2>1, <2>2, Fewer
<1>16. CASE UNCHANGED vars
  BY <1>16, Elsewhere DEF vars
<1> QED
  <2>1. CASE \E l \in Lanes : CloudSends(l) \/ Receiver(l) \/ ReceiveFails(l) \/ Sender(l)
                                \/ SendFails(l) \/ LoopReturns(l)
    BY <2>1, <1>1, <1>2, <1>3, <1>6, <1>8, <1>9, <1>11, <1>13 DEF Receiver, Sender
  <2>2. CASE \E w \in Workers : Worker(w)
    BY <2>2, <1>4, <1>5, <1>10, <1>12 DEF Worker
  <2> QED
    BY <2>1, <2>2, <1>14, <1>15, <1>16 DEF Next, Breaks

-----------------------------------------------------------------------------
(* The places of the calls, joined, have no call twice.                     *)
LEMMA HomeHeld == ASSUME Types, Home PROVE IsInjective(Held("command")) /\ ToSet(Held("command")) = Listed
<1> DEFINE c == "command"
           p == IF rpc[c] = "put" THEN <<rmsg[c]>> ELSE <<>>
           s == IF spc[c] = "send" THEN <<smsg[c]>> ELSE <<>>
<1>1. /\ stream[c] \in Seq(Request) /\ reqs[c] \in Seq(Request) /\ resps[c] \in Seq(Request)
      /\ p \in Seq(Request) /\ s \in Seq(Request)
  BY DEF Types, Lanes
<1>2. IsInjective(p) /\ ToSet(p) = AtReceiver /\ IsInjective(s) /\ ToSet(s) = AtSender
  BY DEF IsInjective, ToSet, AtReceiver, AtSender
<1> DEFINE d1 == stream[c] \o p  d2 == d1 \o reqs[c]  d3 == d2 \o resps[c]
<1> HIDE DEF p, s
<1>3. d1 \in Seq(Request) /\ IsInjective(d1) /\ ToSet(d1) = InStream \cup AtReceiver
  <2>1. ToSet(stream[c]) \cap ToSet(p) = {} /\ IsInjective(stream[c]) /\ ToSet(stream[c]) = InStream
    BY <1>2 DEF Home, Lists, Apart, InStream
  <2> QED
    BY <1>1, <1>2, <2>1, Joined
<1> HIDE DEF d1
<1>4. d2 \in Seq(Request) /\ IsInjective(d2) /\ ToSet(d2) = InStream \cup AtReceiver \cup InRequests
  BY <1>1, <1>3, Joined DEF Home, Lists, Apart, InRequests
<1> HIDE DEF d2
<1>5. d3 \in Seq(Request) /\ IsInjective(d3)
      /\ ToSet(d3) = InStream \cup AtReceiver \cup InRequests \cup InResponses
  BY <1>1, <1>4, Joined DEF Home, Lists, Apart, InResponses
<1> HIDE DEF d3
<1>6. IsInjective(d3 \o s) /\ ToSet(d3 \o s) = Listed
  <2>1. ToSet(d3) \cap ToSet(s) = {}
    BY <1>2, <1>5 DEF Home, Apart
  <2>2. IsInjective(d3 \o s) /\ ToSet(d3 \o s) = ToSet(d3) \cup ToSet(s)
    BY <1>1, <1>2, <1>5, <2>1, Joined
  <2> QED
    BY <1>2, <1>5, <2>2 DEF Listed
<1> QED
  BY <1>6 DEF Held, d1, d2, d3, p, s

(* A call is in one place, and in none once it is answered: it is executed  *)
(* at most once and answered at most once.                                  *)
THEOREM CallsInOnePlace == Spec => []OnePlace
<1>1. ASSUME Types, Home PROVE OnePlace
  <2>1. \A w \in Working("command") : w \in CommandWorkers /\ AtWorker(w) = {wmsg[w]}
    BY DEF Working, Lane, AtWorker
  <2>2. \A r \in Listed : r.id \notin answered["command"]
    BY <1>1 DEF Home, Opened, Open
  <2>3. \A w \in Working("command") : wmsg[w] \notin Listed /\ wmsg[w].id \notin answered["command"]
    BY <1>1, <2>1 DEF Home, Apart, Opened, Open
  <2>4. \A v, w \in Working("command") : wmsg[v] = wmsg[w] => v = w
    BY <1>1, <2>1 DEF Home, Apart
  <2> QED
    BY <1>1, <2>2, <2>3, <2>4, HomeHeld DEF OnePlace
<1>2. Types /\ Home /\ [Next]_vars => (Types /\ Home)'
  BY TypesStep, HomeStep
<1>3. Init => Types /\ Home
  BY TypesInit, HomeInit
<1> QED
  BY <1>1, <1>2, <1>3, PTL DEF Spec
=============================================================================
