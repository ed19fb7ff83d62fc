-------------------------------- MODULE Agent --------------------------------
(* The agent that connects the API server to the cloud: two lanes, one for  *)
(* API calls ("command") and one for streams of logs ("log"), each with a   *)
(* receiver, a buffer of requests, a pool of workers, a buffer of responses *)
(* and a sender; the event loop; and run, which starts them all again when  *)
(* the last of them has returned.  The buffers outlive the connection.      *)
EXTENDS Naturals, SequencesExt

CONSTANTS
    CommandWorkers, LogWorkers, \* the two pools
    Capacity,                   \* bufferSizePerWorker times the workers of a lane
    MaxLines,                   \* bound on the lines of a log that is streamed
    Scenes                      \* how many requests the cloud sends on each lane, and
                                \* how many calls of the connection fail

ASSUME PoolsAssumption == CommandWorkers \cap LogWorkers = {} /\ Capacity \in Nat \ {0}
ASSUME BoundsAssumption ==
    MaxLines \in Nat /\ Scenes \subseteq [command : Nat, log : Nat, faults : Nat]

VARIABLES
    scene,
    down, broken,   \* the contexts of run and of the two stream loops are cancelled
    sent, stream,   \* per lane: number of requests sent; those still in the stream
    rpc, rmsg,      \* per lane: receiver and the request it holds
    reqs, resps,    \* per lane: the two buffers
    wpc, wmsg, left,\* per worker: pc, request, lines that are still to be sent
    spc, smsg,      \* per lane: sender and the response it holds
    answered,       \* per lane: requests whose response went out
    epc,            \* event loop
    faults

context == <<scene, down, broken>>
cloud   == <<sent, stream>>
recv    == <<rpc, rmsg>>
buffers == <<reqs, resps>>
work    == <<wpc, wmsg, left>>
send    == <<spc, smsg, answered>>
vars == <<context, cloud, recv, buffers, work, send, epc, faults>>

Lanes   == {"command", "log"}
Workers == CommandWorkers \cup LogWorkers
Lane(w) == IF w \in CommandWorkers THEN "command" ELSE "log"
Kinds(l) == IF l = "command" THEN {"call"} ELSE {"health", "log"}
NoRequest == [id |-> 0, kind |-> "none"]

Cancelled(l) == down \/ broken[l]
Fault   == faults < scene.faults /\ faults' = faults + 1
NoFault == UNCHANGED faults

Fresh == /\ down' = FALSE /\ broken' = [l \in Lanes |-> FALSE]
         /\ stream' = [l \in Lanes |-> <<>>]
         /\ rpc' = [l \in Lanes |-> "recv"] /\ spc' = [l \in Lanes |-> "take"]
         /\ wpc' = [w \in Workers |-> "take"] /\ epc' = "ready"

Init ==
    /\ scene \in Scenes /\ down = FALSE /\ broken = [l \in Lanes |-> FALSE]
    /\ sent = [l \in Lanes |-> 0] /\ stream = [l \in Lanes |-> <<>>]
    /\ rpc = [l \in Lanes |-> "recv"] /\ rmsg = [l \in Lanes |-> NoRequest]
    /\ reqs = [l \in Lanes |-> <<>>] /\ resps = [l \in Lanes |-> <<>>]
    /\ wpc = [w \in Workers |-> "take"] /\ wmsg = [w \in Workers |-> NoRequest]
    /\ left = [w \in Workers |-> 0]
    /\ spc = [l \in Lanes |-> "take"] /\ smsg = [l \in Lanes |-> NoRequest]
    /\ answered = [l \in Lanes |-> {}] /\ epc = "ready" /\ faults = 0

CloudSends(l) ==
    /\ sent[l] < scene[l] /\ ~Cancelled(l) /\ sent' = [sent EXCEPT ![l] = @ + 1]
    /\ \E k \in Kinds(l) :
          stream' = [stream EXCEPT ![l] = Append(@, [id |-> sent[l] + 1, kind |-> k])]
    /\ UNCHANGED <<context, recv, buffers, work, send, epc, faults>>

-----------------------------------------------------------------------------
(* The receiving goroutine of a stream loop.  It puts the request into the  *)
(* buffer whatever becomes of the connection.                               *)
Receive(l) ==
    /\ rpc[l] = "recv" /\ stream[l] # <<>>
    /\ rmsg' = [rmsg EXCEPT ![l] = Head(stream[l])]
    /\ stream' = [stream EXCEPT ![l] = Tail(@)] /\ rpc' = [rpc EXCEPT ![l] = "put"]
    /\ UNCHANGED <<context, sent, buffers, work, send, epc, faults>>

PutMut(l) ==        \* mutant: a request that finds no room is tried again and again
    /\ rpc[l] = "put" /\ Len(reqs[l]) < Capacity
    /\ reqs' = [reqs EXCEPT ![l] = Append(@, rmsg[l])]
    /\ rpc' = [rpc EXCEPT ![l] = IF Len(reqs'[l]) = Capacity THEN "put" ELSE "recv"]
    /\ UNCHANGED <<context, cloud, rmsg, resps, work, send, epc, faults>>
Put(l) ==
    /\ rpc[l] = "put" /\ Len(reqs[l]) < Capacity
    /\ reqs' = [reqs EXCEPT ![l] = Append(@, rmsg[l])] /\ rpc' = [rpc EXCEPT ![l] = "recv"]
    /\ UNCHANGED <<context, cloud, rmsg, resps, work, send, epc, faults>>

ReceiverEnds(l) ==
    /\ rpc[l] = "recv" /\ Cancelled(l) /\ rpc' = [rpc EXCEPT ![l] = "done"]
    /\ UNCHANGED <<context, cloud, rmsg, buffers, work, send, epc, faults>>

(* An error of the stream, already when it is set up, or five minutes of    *)
(* silence on the lane of the calls.                                        *)
ReceiveFails(l) ==
    /\ rpc[l] = "recv" /\ Fault
    /\ rpc' = [rpc EXCEPT ![l] = "done"] /\ broken' = [broken EXCEPT ![l] = TRUE]
    /\ UNCHANGED <<scene, down, cloud, rmsg, buffers, work, send, epc>>

-----------------------------------------------------------------------------
(* Workers.  A call is executed when it is taken; its response is given up  *)
(* when the connection ends.  The answer to a health check, and the error   *)
(* for logs that cannot be had, are put into the buffer whatever happens.   *)
Take(w) ==
    LET l == Lane(w)  r == Head(reqs[l]) IN
    /\ wpc[w] = "take" /\ reqs[l] # <<>>
    /\ reqs' = [reqs EXCEPT ![l] = Tail(@)] /\ wmsg' = [wmsg EXCEPT ![w] = r]
    /\ \/ r.kind = "call" /\ wpc' = [wpc EXCEPT ![w] = "respond"] /\ UNCHANGED left
       \/ r.kind # "call" /\ wpc' = [wpc EXCEPT ![w] = "insist"] /\ UNCHANGED left
       \/ /\ r.kind = "log" /\ wpc' = [wpc EXCEPT ![w] = "lines"]
          /\ \E n \in 0..MaxLines : left' = [left EXCEPT ![w] = n]
    /\ UNCHANGED <<context, cloud, recv, resps, send, epc, faults>>

RespondMut(w) ==    \* mutant: a response that finds no room is dropped
    LET l == Lane(w) IN
    /\ wpc[w] \in {"respond", "insist"} /\ wpc' = [wpc EXCEPT ![w] = "take"]
    /\ IF Len(resps[l]) < Capacity THEN resps' = [resps EXCEPT ![l] = Append(@, wmsg[w])]
                                   ELSE UNCHANGED resps
    /\ UNCHANGED <<context, cloud, recv, reqs, wmsg, left, send, epc, faults>>
Respond(w) ==
    LET l == Lane(w) IN
    /\ wpc[w] \in {"respond", "insist"} /\ Len(resps[l]) < Capacity
    /\ resps' = [resps EXCEPT ![l] = Append(@, wmsg[w])] /\ wpc' = [wpc EXCEPT ![w] = "take"]
    /\ UNCHANGED <<context, cloud, recv, reqs, wmsg, left, send, epc, faults>>

(* Lines of a log follow each other until there are no more, or the         *)
(* connection ends: the worker then looks for requests once more.           *)
Line(w) ==
    LET l == Lane(w) IN
    /\ wpc[w] = "lines" /\ left[w] > 0 /\ Len(resps[l]) < Capacity
    /\ resps' = [resps EXCEPT ![l] = Append(@, wmsg[w])] /\ left' = [left EXCEPT ![w] = @ - 1]
    /\ UNCHANGED <<context, cloud, recv, reqs, wpc, wmsg, send, epc, faults>>

LinesEnd(w) ==
    /\ wpc[w] = "lines" /\ (left[w] = 0 \/ down)
    /\ wpc' = [wpc EXCEPT ![w] = "take"] /\ left' = [left EXCEPT ![w] = 0]
    /\ UNCHANGED <<context, cloud, recv, buffers, wmsg, send, epc, faults>>

WorkerEndsMut(w) == \* mutant: a worker ends only between two requests
    /\ wpc[w] = "take" /\ down /\ wpc' = [wpc EXCEPT ![w] = "done"]
    /\ UNCHANGED <<context, cloud, recv, buffers, wmsg, left, send, epc, faults>>
WorkerEnds(w) ==
    /\ wpc[w] \in {"take", "respond"} /\ down /\ wpc' = [wpc EXCEPT ![w] = "done"]
    /\ UNCHANGED <<context, cloud, recv, buffers, wmsg, left, send, epc, faults>>

-----------------------------------------------------------------------------
(* The sending goroutine of a stream loop.                                  *)
TakeResponse(l) ==
    /\ spc[l] = "take" /\ resps[l] # <<>>
    /\ smsg' = [smsg EXCEPT ![l] = Head(resps[l])]
    /\ resps' = [resps EXCEPT ![l] = Tail(@)] /\ spc' = [spc EXCEPT ![l] = "send"]
    /\ UNCHANGED <<context, cloud, recv, reqs, work, answered, epc, faults>>

Out(l)     == answered' = [answered EXCEPT ![l] = @ \cup {smsg[l].id}]
PerhapsOut(l) == Out(l) \/ UNCHANGED answered

Send(l) ==
    /\ spc[l] = "send" /\ Out(l) /\ spc' = [spc EXCEPT ![l] = "take"]
    /\ UNCHANGED <<context, cloud, recv, buffers, work, smsg, epc, faults>>

(* An error, or a send that takes too long and may yet succeed.             *)
SendFails(l) ==
    /\ spc[l] = "send" /\ Fault /\ PerhapsOut(l)
    /\ spc' = [spc EXCEPT ![l] = "done"] /\ broken' = [broken EXCEPT ![l] = TRUE]
    /\ UNCHANGED <<scene, down, cloud, recv, buffers, work, smsg, epc>>

SenderEnds(l) ==
    /\ Cancelled(l) /\ spc' = [spc EXCEPT ![l] = "done"]
    /\ \/ spc[l] = "take" /\ UNCHANGED answered
       \/ spc[l] = "send" /\ PerhapsOut(l)
    /\ UNCHANGED <<context, cloud, recv, buffers, work, smsg, epc, faults>>

(* The loop returns the error of its goroutines, which cancels run's others.*)
LoopReturns(l) ==
    /\ rpc[l] = "done" /\ spc[l] = "done" /\ ~down /\ down' = TRUE
    /\ UNCHANGED <<scene, broken, cloud, recv, buffers, work, send, epc, faults>>

-----------------------------------------------------------------------------
(* The event loop: the emitter hands an event over only when it is ready,   *)
(* and so does the ticker of the health checks.                             *)
Notify ==
    /\ epc = "ready" /\ epc' = "send"
    /\ UNCHANGED <<context, cloud, recv, buffers, work, send, faults>>
SendEvent ==
    /\ epc = "send" /\ epc' = "ready"
    /\ UNCHANGED <<context, cloud, recv, buffers, work, send, faults>>
SendEventFails ==
    /\ epc = "send" /\ Fault /\ epc' = "done" /\ down' = TRUE
    /\ UNCHANGED <<scene, broken, cloud, recv, buffers, work, send>>
EventLoopEnds ==
    /\ epc # "done" /\ down /\ epc' = "done"
    /\ UNCHANGED <<context, cloud, recv, buffers, work, send, faults>>

(* Run connects again when run has returned.                                *)
Reconnect ==
    /\ \A l \in Lanes : rpc[l] = "done" /\ spc[l] = "done"
    /\ \A w \in Workers : wpc[w] = "done"
    /\ epc = "done" /\ Fresh
    /\ UNCHANGED <<scene, sent, rmsg, buffers, wmsg, left, smsg, answered, faults>>

Receiver(l) == Receive(l) \/ Put(l) \/ ReceiverEnds(l)
Sender(l)   == TakeResponse(l) \/ Send(l) \/ SenderEnds(l)
Worker(w)   == Take(w) \/ Respond(w) \/ Line(w) \/ LinesEnd(w) \/ WorkerEnds(w)
Breaks      == SendEventFails \/ \E l \in Lanes : ReceiveFails(l) \/ SendFails(l)

Next ==
    \/ \E l \in Lanes : CloudSends(l) \/ Receiver(l) \/ Sender(l) \/ LoopReturns(l)
    \/ \E w \in Workers : Worker(w)
    \/ Notify \/ SendEvent \/ EventLoopEnds \/ Reconnect \/ Breaks

Spec == Init /\ [][Next]_vars

(* Goroutines that can go on do, and calls come back: those of the          *)
(* connection, and those of the API's handlers, which a worker makes without*)
(* looking at the context (agent.go:284).                                   *)
Fairness ==
    /\ \A l \in Lanes : WF_vars(Receiver(l)) /\ WF_vars(Sender(l)) /\ WF_vars(LoopReturns(l))
    /\ \A w \in Workers : WF_vars(Worker(w))
    /\ WF_vars(SendEvent) /\ WF_vars(EventLoopEnds) /\ WF_vars(Reconnect)
FairSpec == Spec /\ Fairness

-----------------------------------------------------------------------------
(* Where the requests of a lane are that have one response.                 *)
Held(l) ==
    stream[l] \o (IF rpc[l] = "put" THEN <<rmsg[l]>> ELSE <<>>) \o reqs[l] \o resps[l]
              \o (IF spc[l] = "send" THEN <<smsg[l]>> ELSE <<>>)
Working(l) == {w \in Workers : Lane(w) = l /\ wpc[w] \in {"respond", "insist"}}

(* A call is in one place at a time and in none once it is answered: it is  *)
(* executed and answered at most once, also where the connection broke and  *)
(* the next one finds the buffers of the last.                              *)
OnePlace ==
    LET held == Held("command") IN
    /\ IsInjective(held)
    /\ \A w \in Working("command") : wmsg[w] \notin ToSet(held)
    /\ \A v, w \in Working("command") : wmsg[v] = wmsg[w] => v = w
    /\ \A r \in ToSet(held) \cup {wmsg[w] : w \in Working("command")} :
          r.id \notin answered["command"]

(* A request that the agent has received is answered, unless the connection *)
(* breaks before, or it asks for a log, which may have no lines.  Stated    *)
(* for the second of a lane, which can find the first in its way.           *)
Broken == down \/ \E l \in Lanes : broken[l]
Received(l, id) == \E r \in ToSet(reqs[l]) : r.id = id /\ r.kind # "log"
Answered == \A l \in Lanes : Received(l, 2) ~> (Broken \/ 2 \in answered[l])

(* The agent connects again after every failure, unless a receiver waits    *)
(* for room among the requests or a worker insists on room among the        *)
(* responses: nobody is left to make any, and nothing ends the wait.        *)
Jammed ==
    \/ \E l \in Lanes : rpc[l] = "put" /\ Len(reqs[l]) = Capacity
    \/ \E w \in Workers : wpc[w] = "insist" /\ Len(resps[Lane(w)]) = Capacity
ReconnectsUnlessJammed == <>[]Broken => <>[]Jammed

(* agent.go:120, "agent connection failed, reconnecting".                   *)
Reconnects == Broken ~> ~Broken
=============================================================================
