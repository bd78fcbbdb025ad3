----------------------------- MODULE WorkQueue -----------------------------
(***************************************************************************)
(* ConnPool/threadpool.hpp: the request queue between the main thread      *)
(* (append, append_p) and the workers (run), with its mutex m_queuelocker  *)
(* and semaphore m_queuestat, statement by statement.                      *)
(*                                                                         *)
(* The signals of webserver.cpp:181-182 are installed without SA_RESTART,  *)
(* and their handler may run in any thread: sem_wait then returns EINTR    *)
(* without taking a unit, and run() ignores what wait() returns.           *)
(***************************************************************************)
EXTENDS Integers, FiniteSets, Sequences

CONSTANTS
    Workers,      \* the m_thread_number threads in run()
    Main,         \* the thread that calls append
    Nobody,       \* holder of a free mutex
    Requests,     \* what can be queued
    NoRequest,
    MaxRequests,  \* m_max_requests
    MaxSignals    \* bound: signals that interrupt a sem_wait

ASSUME QueueAssumption ==
    /\ IsFiniteSet(Workers)
    /\ Main \notin Workers /\ Nobody \notin Workers \cup {Main}
    /\ NoRequest \notin Requests
    /\ MaxRequests \in Nat \ {0}
    /\ MaxSignals \in Nat

VARIABLES
    m_workqueue,   \* the list of requests
    m_queuelocker, \* who holds the mutex
    m_queuestat,   \* the semaphore's count
    apc, areq,     \* the call of append in progress and its argument
    wpc, wreq,     \* each worker's place in run() and its local `request`
    signals        \* interruptions so far

vars == <<m_workqueue, m_queuelocker, m_queuestat, apc, areq, wpc, wreq,
          signals>>

Init ==
    /\ m_workqueue = << >> /\ m_queuelocker = Nobody /\ m_queuestat = 0
    /\ apc = "idle" /\ areq = NoRequest
    /\ wpc = [w \in Workers |-> "wait"]
    /\ wreq = [w \in Workers |-> NoRequest]
    /\ signals = 0

lock(t)   == m_queuelocker = Nobody /\ m_queuelocker' = t
unlock(t) == m_queuelocker = t /\ m_queuelocker' = Nobody

-----------------------------------------------------------------------------
(* append(request, state) and append_p(request).                           *)
CallAppend(r) ==
    /\ apc = "idle"
    /\ areq' = r /\ apc' = "lock"
    /\ UNCHANGED <<m_workqueue, m_queuelocker, m_queuestat, wpc, wreq, signals>>

AppendLock ==
    /\ apc = "lock" /\ lock(Main)
    /\ apc' = "check"
    /\ UNCHANGED <<m_workqueue, m_queuestat, areq, wpc, wreq, signals>>

Full == Len(m_workqueue) >= MaxRequests

(* size() is compared with m_max_requests: refuse, or go on to push_back.  *)
AppendCheck ==
    /\ apc = "check"
    /\ apc' = IF Full THEN "refuse" ELSE "push"
    /\ UNCHANGED <<m_workqueue, m_queuelocker, m_queuestat, areq, wpc, wreq,
                   signals>>

AppendRefuse ==
    /\ apc = "refuse" /\ unlock(Main)
    /\ apc' = "idle" /\ areq' = NoRequest
    /\ UNCHANGED <<m_workqueue, m_queuestat, wpc, wreq, signals>>

AppendPush ==
    /\ apc = "push"
    /\ m_workqueue' = Append(m_workqueue, areq)
    /\ apc' = "unlock"
    /\ UNCHANGED <<m_queuelocker, m_queuestat, areq, wpc, wreq, signals>>

AppendUnlock ==
    /\ apc = "unlock" /\ unlock(Main)
    /\ apc' = "post"
    /\ UNCHANGED <<m_workqueue, m_queuestat, areq, wpc, wreq, signals>>

(* Mutant: the request is queued but nobody is told.                       *)
AppendNoPost ==
    /\ apc = "post"
    /\ apc' = "idle" /\ areq' = NoRequest
    /\ UNCHANGED <<m_workqueue, m_queuelocker, m_queuestat, wpc, wreq, signals>>

AppendPost ==
    /\ apc = "post"
    /\ m_queuestat' = m_queuestat + 1
    /\ apc' = "idle" /\ areq' = NoRequest
    /\ UNCHANGED <<m_workqueue, m_queuelocker, wpc, wreq, signals>>

appendCall == \/ \E r \in Requests : CallAppend(r)
           \/ AppendLock \/ AppendCheck \/ AppendRefuse \/ AppendPush
           \/ AppendUnlock \/ AppendPost

-----------------------------------------------------------------------------
(* run().                                                                  *)
At(w, here, next) == wpc[w] = here /\ wpc' = [wpc EXCEPT ![w] = next]

(* Mutant: the wait takes a unit that is not there.                        *)
WaitNoTest(w) ==
    /\ At(w, "wait", "lock")
    /\ m_queuestat' = m_queuestat - 1
    /\ UNCHANGED <<m_workqueue, m_queuelocker, apc, areq, wreq, signals>>

(* sem_wait takes a unit or blocks.                                        *)
Wait(w) ==
    /\ At(w, "wait", "lock")
    /\ m_queuestat > 0
    /\ m_queuestat' = m_queuestat - 1
    /\ UNCHANGED <<m_workqueue, m_queuelocker, apc, areq, wreq, signals>>

(* sem_wait returns -1/EINTR; the caller goes on as if it had a unit.      *)
WaitInterrupted(w) ==
    /\ At(w, "wait", "lock")
    /\ signals < MaxSignals
    /\ signals' = signals + 1
    /\ UNCHANGED <<m_workqueue, m_queuelocker, m_queuestat, apc, areq, wreq>>

Lock(w) ==
    /\ At(w, "lock", "check") /\ lock(w)
    /\ UNCHANGED <<m_workqueue, m_queuestat, apc, areq, wreq, signals>>

(* Mutant: the wait is trusted and emptiness is not tested.                *)
CheckNothing(w) ==
    /\ At(w, "check", "front")
    /\ UNCHANGED <<m_workqueue, m_queuelocker, m_queuestat, apc, areq, wreq,
                   signals>>

Check(w) ==
    /\ \/ m_workqueue = << >> /\ At(w, "check", "leave")
       \/ m_workqueue # << >> /\ At(w, "check", "front")
    /\ UNCHANGED <<m_workqueue, m_queuelocker, m_queuestat, apc, areq, wreq,
                   signals>>

(* The queue was empty: unlock and continue.                               *)
Leave(w) ==
    /\ At(w, "leave", "wait") /\ unlock(w)
    /\ UNCHANGED <<m_workqueue, m_queuestat, apc, areq, wreq, signals>>

(* front() and pop_front(): nothing is guarded here, on an empty list both *)
(* are undefined.                                                          *)
Front(w) ==
    /\ At(w, "front", "pop")
    /\ wreq' = [wreq EXCEPT ![w] = Head(m_workqueue)]
    /\ UNCHANGED <<m_workqueue, m_queuelocker, m_queuestat, apc, areq, signals>>

(* Mutant: the newest request is dropped from the list.                    *)
PopBack(w) ==
    /\ At(w, "pop", "unlock")
    /\ m_workqueue' = SubSeq(m_workqueue, 1, Len(m_workqueue) - 1)
    /\ UNCHANGED <<m_queuelocker, m_queuestat, apc, areq, wreq, signals>>

Pop(w) ==
    /\ At(w, "pop", "unlock")
    /\ m_workqueue' = Tail(m_workqueue)
    /\ UNCHANGED <<m_queuelocker, m_queuestat, apc, areq, wreq, signals>>

Unlock(w) ==
    /\ At(w, "unlock", "run") /\ unlock(w)
    /\ UNCHANGED <<m_workqueue, m_queuestat, apc, areq, wreq, signals>>

(* The request is processed and the loop starts again.                     *)
Run(w) ==
    /\ At(w, "run", "wait")
    /\ wreq' = [wreq EXCEPT ![w] = NoRequest]
    /\ UNCHANGED <<m_workqueue, m_queuelocker, m_queuestat, apc, areq, signals>>

run(w) == Wait(w) \/ Lock(w) \/ Check(w) \/ Leave(w) \/ Front(w) \/ Pop(w)
          \/ Unlock(w) \/ Run(w)

Next == \/ appendCall
        \/ \E w \in Workers : run(w) \/ WaitInterrupted(w)

(* Threads are scheduled; a worker waiting for the mutex or the semaphore  *)
(* is not overtaken for ever.  append, once called, is carried through.    *)
Fairness ==
    /\ WF_vars(AppendCheck \/ AppendRefuse \/ AppendPush \/ AppendUnlock
               \/ AppendPost)
    /\ SF_vars(AppendLock)
    /\ \A w \in Workers : SF_vars(run(w))

Spec == Init /\ [][Next]_vars

FairSpec == Spec /\ Fairness

-----------------------------------------------------------------------------
AppendPCs == {"idle", "lock", "check", "refuse", "push", "unlock", "post"}
WorkerPCs == {"wait", "lock", "check", "leave", "front", "pop", "unlock", "run"}

AppendInside == apc \in {"check", "refuse", "push", "unlock"}
Inside(w) == wpc[w] \in {"check", "leave", "front", "pop", "unlock"}

(* The values of every variable; while a call of append or a worker holds  *)
(* a request it holds a real one.                                          *)
TypeOK ==
    /\ m_workqueue \in Seq(Requests)
    /\ m_queuelocker \in Workers \cup {Main, Nobody}
    /\ m_queuestat \in Nat
    /\ apc \in AppendPCs /\ areq \in Requests \cup {NoRequest}
    /\ wpc \in [Workers -> WorkerPCs]
    /\ wreq \in [Workers -> Requests \cup {NoRequest}]
    /\ signals \in 0..MaxSignals
    /\ apc # "idle" => areq \in Requests
    /\ \A w \in Workers : wpc[w] \in {"pop", "unlock", "run"} <=> wreq[w] \in Requests

(* Whoever is between lock and unlock is the holder of m_queuelocker, so   *)
(* no two threads are there.                                               *)
MutexHeld ==
    /\ AppendInside <=> m_queuelocker = Main
    /\ \A w \in Workers : Inside(w) <=> m_queuelocker = w

(* run() calls front() and pop_front() only on a list with an element,     *)
(* although interrupted waits let more workers in than there are requests. *)
FrontNotEmpty ==
    \A w \in Workers :
        /\ wpc[w] \in {"front", "pop"} => m_workqueue # << >>
        /\ wpc[w] = "pop" => wreq[w] = Head(m_workqueue)

(* The queue never holds more than m_max_requests.                         *)
Bounded ==
    /\ Len(m_workqueue) <= MaxRequests
    /\ apc = "push" => Len(m_workqueue) < MaxRequests

(* No request is left in the list with every worker asleep: each is        *)
(* covered by a unit of m_queuestat, by a worker that is already awake, or *)
(* by the post() append is about to make - even though an interrupted wait *)
(* takes a request without its unit and an awake worker may find nothing.  *)
Awake == {w \in Workers : wpc[w] \in {"lock", "check", "front", "pop"}}
Posting == IF apc \in {"unlock", "post"} THEN 1 ELSE 0

NoStranded == Len(m_workqueue) <= m_queuestat + Cardinality(Awake) + Posting

(* Every accepted request is taken by a worker in the end.                 *)
Taken ==
    \A r \in Requests :
        (\E i \in 1..Len(m_workqueue) : m_workqueue[i] = r)
          ~> (\E w \in Workers : wreq[w] = r)

(* Refinement: the locked list is the FIFO of RequestFifo; a request is    *)
(* taken when front() has read it.                                         *)
Popping == \E w \in Workers : wpc[w] = "pop"

Fifo == INSTANCE RequestFifo WITH
    pending <- IF Popping THEN Tail(m_workqueue) ELSE m_workqueue,
    held <- wreq

(* The queue behaves as RequestFifo: order kept, nothing lost or run twice.*)
IsFifo == Fifo!Spec
=============================================================================
