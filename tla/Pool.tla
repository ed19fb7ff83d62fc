-------------------------------- MODULE Pool --------------------------------
(* What the worker pool promises to its caller: every request is executed   *)
(* at most once, every execution is answered with its own response, and the *)
(* responses end only when nothing is executing and nothing is left to do,  *)
(* unless the caller gave up.                                               *)
EXTENDS Naturals

CONSTANT Requests

VARIABLES
    todo,      \* requests nobody has taken
    running,   \* requests that are executing
    ready,     \* responses the caller has not read
    received,  \* responses the caller has read
    givenUp,   \* the caller's context is done, or there is no worker
    ended      \* the caller was told that there are no more responses

vars == <<todo, running, ready, received, givenUp, ended>>

Init == /\ todo = Requests /\ running = {} /\ ready = {} /\ received = {}
        /\ givenUp \in BOOLEAN /\ ended = FALSE

Start(r) == /\ ~ended /\ r \in todo
            /\ todo' = todo \ {r} /\ running' = running \cup {r}
            /\ UNCHANGED <<ready, received, givenUp, ended>>

Answer(r) == /\ ~ended /\ r \in running
             /\ running' = running \ {r} /\ ready' = ready \cup {r}
             /\ UNCHANGED <<todo, received, givenUp, ended>>

Receive(r) == /\ ~ended /\ r \in ready
              /\ ready' = ready \ {r} /\ received' = received \cup {r}
              /\ UNCHANGED <<todo, running, givenUp, ended>>

GiveUp == /\ givenUp' = TRUE
          /\ UNCHANGED <<todo, running, ready, received, ended>>

End == /\ running = {} /\ ready = {} /\ (todo = {} \/ givenUp)
       /\ ended' = TRUE
       /\ UNCHANGED <<todo, running, ready, received, givenUp>>

Next == \/ \E r \in Requests : Start(r) \/ Answer(r) \/ Receive(r)
        \/ GiveUp \/ End

Spec == Init /\ [][Next]_vars
=============================================================================
