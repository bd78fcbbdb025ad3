---------------------------- MODULE RequestFifo ----------------------------
(* What threadpool<T> promises its caller: a bounded queue whose requests  *)
(* are taken in the order they were accepted, each by exactly one worker.  *)
EXTENDS Naturals, Sequences

CONSTANTS Workers, Requests, NoRequest, MaxRequests

VARIABLES pending,   \* accepted and not yet taken
          held       \* the request each worker is running

fifo == <<pending, held>>

Init == pending = << >> /\ held = [w \in Workers |-> NoRequest]

Accept(r) ==
    /\ Len(pending) < MaxRequests
    /\ pending' = Append(pending, r)
    /\ UNCHANGED held

Get(w) ==
    /\ held[w] = NoRequest /\ pending # << >>
    /\ held' = [held EXCEPT ![w] = Head(pending)]
    /\ pending' = Tail(pending)

Finish(w) ==
    /\ held[w] # NoRequest
    /\ held' = [held EXCEPT ![w] = NoRequest]
    /\ UNCHANGED pending

Next ==
    \/ \E r \in Requests : Accept(r)
    \/ \E w \in Workers : Get(w) \/ Finish(w)

Spec == Init /\ [][Next]_fifo
=============================================================================
