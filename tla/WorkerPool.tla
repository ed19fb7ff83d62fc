----------------------------- MODULE WorkerPool -----------------------------
(* The worker pool that executes the tests of a request, of a suite's batch *)
(* or of a trigger: one sender, concurrencyLevel workers, two channels of   *)
(* that capacity, the goroutine that closes the responses and the caller    *)
(* that reads them.                                                         *)
EXTENDS Naturals, Sequences, FiniteSets

CONSTANTS
    M,          \* number of requests
    Level,      \* concurrencyLevel, any number the query parameter gives
    CanCancel   \* the context given to Run may be cancelled

ASSUME SizesAssumption == M \in Nat /\ Level \in Nat
ASSUME CancelAssumption == CanCancel \in BOOLEAN

Requests == 1..M
Workers  == 1..Level

VARIABLES
    sent, taken, \* requests put into and taken out of the channel, in order
    reqClosed,   \* the sender closed the requests channel
    wpc, wreq,   \* per worker: pc and request
    resps,       \* the responses channel: requests that were answered
    respClosed,  \* Run closed it
    got, cpc,    \* the caller's results, in the order read, and its pc
    done         \* the context is done

chans == <<sent, taken, reqClosed>>
vars == <<chans, wpc, wreq, resps, respClosed, got, cpc, done>>

Init ==
    /\ sent = 0 /\ taken = 0 /\ reqClosed = FALSE
    /\ wpc = [w \in Workers |-> "idle"] /\ wreq = [w \in Workers |-> 0]
    /\ resps = <<>> /\ respClosed = FALSE
    /\ got = <<>> /\ cpc = "reading" /\ done = FALSE

(* A send to a channel of capacity Level; without capacity it waits for a   *)
(* receiver, and there are workers only when there is capacity.             *)
SendRequest ==
    /\ sent < M /\ sent - taken < Level /\ sent' = sent + 1
    /\ UNCHANGED <<taken, reqClosed, wpc, wreq, resps, respClosed, got, cpc, done>>

CloseRequests ==
    /\ sent = M /\ ~reqClosed /\ reqClosed' = TRUE
    /\ UNCHANGED <<sent, taken, wpc, wreq, resps, respClosed, got, cpc, done>>

(* Mutant: a worker does not move on in the channel.                        *)
TakeMut(w) ==
    /\ wpc[w] = "idle" /\ taken < sent
    /\ \/ taken' = taken + 1
       \/ taken' = taken
    /\ wreq' = [wreq EXCEPT ![w] = taken + 1]
    /\ wpc' = [wpc EXCEPT ![w] = "executing"]
    /\ UNCHANGED <<sent, reqClosed, resps, respClosed, got, cpc, done>>

Take(w) ==
    /\ wpc[w] = "idle" /\ taken < sent /\ taken' = taken + 1
    /\ wreq' = [wreq EXCEPT ![w] = taken + 1]
    /\ wpc' = [wpc EXCEPT ![w] = "executing"]
    /\ UNCHANGED <<sent, reqClosed, resps, respClosed, got, cpc, done>>

(* A closed channel is drained before it reports that it is closed.         *)
Leave(w) ==
    /\ wpc[w] = "idle" /\ ((reqClosed /\ taken = sent) \/ done)
    /\ wpc' = [wpc EXCEPT ![w] = "left"]
    /\ UNCHANGED <<chans, wreq, resps, respClosed, got, cpc, done>>

Execute(w) ==
    /\ wpc[w] = "executing" /\ wpc' = [wpc EXCEPT ![w] = "answering"]
    /\ UNCHANGED <<chans, wreq, resps, respClosed, got, cpc, done>>

Respond(w) ==
    /\ wpc[w] = "answering" /\ Len(resps) < Level
    /\ resps' = Append(resps, wreq[w])
    /\ wpc' = [wpc EXCEPT ![w] = "idle"]
    /\ UNCHANGED <<chans, wreq, respClosed, got, cpc, done>>

(* Mutant: Run counts only the workers that are not waiting to respond.     *)
CloseResponsesMut ==
    /\ ~respClosed /\ \A w \in Workers : wpc[w] \in {"left", "answering"}
    /\ respClosed' = TRUE
    /\ UNCHANGED <<chans, wpc, wreq, resps, got, cpc, done>>

(* Mutant: Run waits for the sender too.                                    *)
CloseResponsesLate ==
    /\ ~respClosed /\ reqClosed /\ \A w \in Workers : wpc[w] = "left"
    /\ respClosed' = TRUE
    /\ UNCHANGED <<chans, wpc, wreq, resps, got, cpc, done>>

CloseResponses ==
    /\ ~respClosed /\ \A w \in Workers : wpc[w] = "left"
    /\ respClosed' = TRUE
    /\ UNCHANGED <<chans, wpc, wreq, resps, got, cpc, done>>

(* The loop over GetResponses of the callers.                               *)
Read ==
    /\ cpc = "reading" /\ resps # <<>>
    /\ got' = Append(got, Head(resps)) /\ resps' = Tail(resps)
    /\ UNCHANGED <<chans, wpc, wreq, respClosed, cpc, done>>

ReadEnd ==
    /\ cpc = "reading" /\ resps = <<>> /\ respClosed /\ cpc' = "ended"
    /\ UNCHANGED <<chans, wpc, wreq, resps, respClosed, got, done>>

Cancel ==
    /\ CanCancel /\ ~done /\ done' = TRUE
    /\ UNCHANGED <<chans, wpc, wreq, resps, respClosed, got, cpc>>

Sender == SendRequest \/ CloseRequests
Worker(w) == Take(w) \/ Leave(w) \/ Execute(w) \/ Respond(w)
Caller == Read \/ ReadEnd

Next == \/ Sender \/ CloseResponses \/ Caller \/ Cancel
        \/ \E w \in Workers : Worker(w)

Spec == Init /\ [][Next]_vars

(* Goroutines run when they can and an execution returns.                   *)
FairSpec ==
    /\ Spec /\ WF_vars(Sender) /\ WF_vars(CloseResponses) /\ WF_vars(Caller)
    /\ \A w \in Workers : WF_vars(Worker(w))

-----------------------------------------------------------------------------
Busy == {"executing", "answering"}

(* Every variable keeps its type and the channels stay within capacity.     *)
TypeOK ==
    /\ sent \in 0..M /\ taken \in 0..sent /\ reqClosed \in BOOLEAN
    /\ wpc \in [Workers -> {"idle", "executing", "answering", "left"}]
    /\ wreq \in [Workers -> 0..M]
    /\ resps \in Seq(Requests) /\ got \in Seq(Requests)
    /\ sent - taken <= Level /\ Len(resps) <= Level
    /\ respClosed \in BOOLEAN /\ cpc \in {"reading", "ended"} /\ done \in BOOLEAN

(* What the abstract specification calls running, ready and received.       *)
Executing == {wreq[w] : w \in {v \in Workers : wpc[v] = "executing"}}
Waiting   == {wreq[w] : w \in {v \in Workers : wpc[v] = "answering"}}
Ready     == Waiting \cup {resps[i] : i \in 1..Len(resps)}
Received  == {got[i] : i \in 1..Len(got)}

P == INSTANCE Pool WITH
        todo <- (taken + 1)..M, running <- Executing, ready <- Ready,
        received <- Received, givenUp <- done \/ Level = 0, ended <- cpc = "ended"

(* The pool implements what Pool promises: nothing is executed or answered  *)
(* twice and the responses do not end early (Run, worker, SendRequests).    *)
Implements == P!Spec

(* Every request that was taken is at one worker, or among the responses,   *)
(* or read, and nowhere else; a worker leaves, and Run closes the responses,*)
(* only when it may (worker, Run).                                          *)
Holding == /\ \A w \in Workers : wpc[w] \in Busy => wreq[w] \in 1..taken
           /\ \A v, w \in Workers :
                 v # w /\ wpc[v] \in Busy /\ wpc[w] \in Busy => wreq[v] # wreq[w]
Answered == /\ \A i \in 1..Len(resps) : resps[i] <= taken
            /\ \A w \in Workers, i \in 1..Len(resps) :
                  wpc[w] \in Busy => wreq[w] # resps[i]
            /\ \A i, j \in 1..Len(resps) : resps[i] = resps[j] => i = j
Delivered == /\ \A i \in 1..Len(got) : got[i] <= taken
             /\ \A w \in Workers, i \in 1..Len(got) :
                   wpc[w] \in Busy => wreq[w] # got[i]
             /\ \A i \in 1..Len(resps), j \in 1..Len(got) : resps[i] # got[j]
             /\ \A i, j \in 1..Len(got) : got[i] = got[j] => i = j
Closing == /\ reqClosed => sent = M
           /\ \A w \in Workers : wpc[w] = "left" => done \/ taken = M
           /\ respClosed => \A w \in Workers : wpc[w] = "left"
           /\ cpc = "ended" => respClosed /\ resps = <<>>
Placed == Holding /\ Answered /\ Delivered /\ Closing

(* The caller is always told that there are no more responses, and it has   *)
(* been given one for every request, unless the context was done or there   *)
(* is no worker.                                                            *)
AllAnswered == <>(cpc = "ended" /\ (Received = Requests \/ done \/ Level = 0))
=============================================================================
