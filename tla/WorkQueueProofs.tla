-------------------------- MODULE WorkQueueProofs --------------------------
(* Proofs about WorkQueue, for every number of threads and every bound.    *)
EXTENDS WorkQueue, TLAPS, FiniteSetTheorems, SequenceTheorems

(* What the steps keep true together; each part needs those before it.     *)
Inv == TypeOK /\ MutexHeld /\ FrontNotEmpty /\ Bounded

LEMMA TypeStep ==
    ASSUME QueueAssumption, TypeOK, MutexHeld, FrontNotEmpty, [Next]_vars
    PROVE  TypeOK'
<1> USE QueueAssumption DEF QueueAssumption, AppendPCs, WorkerPCs
<1>1. CASE UNCHANGED vars
  BY <1>1 DEF TypeOK, vars
<1>2. ASSUME NEW r \in Requests, CallAppend(r) PROVE TypeOK'
  BY <1>2 DEF TypeOK, CallAppend
<1>3. CASE AppendLock
  BY <1>3 DEF TypeOK, AppendLock, lock
<1>4. CASE AppendCheck
  BY <1>4 DEF TypeOK, AppendCheck
<1>5. CASE AppendRefuse
  BY <1>5 DEF TypeOK, AppendRefuse, unlock
<1>6. CASE AppendPush
  <2>1. m_workqueue' \in Seq(Requests)
    BY <1>6, AppendProperties DEF TypeOK, AppendPush
  <2> QED
    BY <1>6, <2>1 DEF TypeOK, AppendPush
<1>7. CASE AppendUnlock
  BY <1>7 DEF TypeOK, AppendUnlock, unlock
<1>8. CASE AppendPost
  BY <1>8 DEF TypeOK, AppendPost
<1>9. ASSUME NEW w \in Workers, run(w) \/ WaitInterrupted(w) PROVE TypeOK'
  <2>1. CASE Wait(w)
    BY <2>1 DEF TypeOK, Wait, At
  <2>2. CASE WaitInterrupted(w)
    BY <2>2 DEF TypeOK, WaitInterrupted, At
  <2>3. CASE Lock(w)
    BY <2>3 DEF TypeOK, Lock, At, lock
  <2>4. CASE Check(w)
    BY <2>4 DEF TypeOK, Check, At
  <2>5. CASE Leave(w)
    BY <2>5 DEF TypeOK, Leave, At, unlock
  <2>6. CASE Front(w)
    <3>1. wpc[w] = "front" /\ m_workqueue # << >>
      BY <2>6 DEF Front, At, FrontNotEmpty
    <3>2. Head(m_workqueue) \in Requests
      BY <3>1, HeadTailProperties DEF TypeOK
    <3> QED
      BY <2>6, <3>2 DEF TypeOK, Front, At
  <2>7. CASE Pop(w)
    <3>1. wpc[w] = "pop" /\ m_workqueue # << >>
      BY <2>7 DEF Pop, At, FrontNotEmpty
    <3>2. m_workqueue' \in Seq(Requests)
      BY <2>7, <3>1, HeadTailProperties DEF TypeOK, Pop
    <3> QED
      BY <2>7, <3>1, <3>2 DEF TypeOK, Pop, At
  <2>8. CASE Unlock(w)
    BY <2>8 DEF TypeOK, Unlock, At, unlock
  <2>9. CASE Run(w)
    BY <2>9 DEF TypeOK, Run, At
  <2> QED
    BY <1>9, <2>1, <2>2, <2>3, <2>4, <2>5, <2>6, <2>7, <2>8, <2>9 DEF run
<1> QED
  BY <1>1, <1>2, <1>3, <1>4, <1>5, <1>6, <1>7, <1>8, <1>9
  DEF Next, appendCall

LEMMA MutexStep ==
    ASSUME QueueAssumption, TypeOK, MutexHeld, [Next]_vars
    PROVE  MutexHeld'
<1> USE QueueAssumption DEF QueueAssumption, MutexHeld, AppendInside, Inside
<1>1. CASE UNCHANGED vars
  BY <1>1 DEF vars
<1>2. ASSUME NEW r \in Requests, CallAppend(r) PROVE MutexHeld'
  BY <1>2 DEF TypeOK, CallAppend
<1>3. CASE AppendLock
  BY <1>3 DEF TypeOK, AppendLock, lock
<1>4. CASE AppendCheck
  BY <1>4 DEF TypeOK, AppendCheck
<1>5. CASE AppendRefuse
  BY <1>5 DEF TypeOK, AppendRefuse, unlock
<1>6. CASE AppendPush
  BY <1>6 DEF TypeOK, AppendPush
<1>7. CASE AppendUnlock
  BY <1>7 DEF TypeOK, AppendUnlock, unlock
<1>8. CASE AppendPost
  BY <1>8 DEF TypeOK, AppendPost
<1>9. ASSUME NEW w \in Workers, run(w) \/ WaitInterrupted(w) PROVE MutexHeld'
  <2>1. CASE Wait(w)
    BY <2>1 DEF TypeOK, Wait, At
  <2>2. CASE WaitInterrupted(w)
    BY <2>2 DEF TypeOK, WaitInterrupted, At
  <2>3. CASE Lock(w)
    BY <2>3 DEF TypeOK, Lock, At, lock
  <2>4. CASE Check(w)
    BY <2>4 DEF TypeOK, Check, At
  <2>5. CASE Leave(w)
    BY <2>5 DEF TypeOK, Leave, At, unlock
  <2>6. CASE Front(w)
    BY <2>6 DEF TypeOK, Front, At
  <2>7. CASE Pop(w)
    BY <2>7 DEF TypeOK, Pop, At
  <2>8. CASE Unlock(w)
    BY <2>8 DEF TypeOK, Unlock, At, unlock
  <2>9. CASE Run(w)
    BY <2>9 DEF TypeOK, Run, At
  <2> QED
    BY <1>9, <2>1, <2>2, <2>3, <2>4, <2>5, <2>6, <2>7, <2>8, <2>9 DEF run
<1> QED
  BY <1>1, <1>2, <1>3, <1>4, <1>5, <1>6, <1>7, <1>8, <1>9
  DEF Next, appendCall

LEMMA FrontStep ==
    ASSUME QueueAssumption, TypeOK, MutexHeld, FrontNotEmpty, [Next]_vars
    PROVE  FrontNotEmpty'
<1> USE QueueAssumption DEF QueueAssumption, FrontNotEmpty
<1>1. CASE UNCHANGED vars
  BY <1>1 DEF vars
<1>2. ASSUME NEW r \in Requests, CallAppend(r) PROVE FrontNotEmpty'
  BY <1>2 DEF CallAppend
<1>3. CASE AppendLock
  BY <1>3 DEF AppendLock
<1>4. CASE AppendCheck
  BY <1>4 DEF AppendCheck
<1>5. CASE AppendRefuse
  BY <1>5 DEF AppendRefuse
<1>6. CASE AppendPush
  <2>1. m_queuelocker = Main
    BY <1>6 DEF AppendPush, MutexHeld, AppendInside
  <2>2. \A w \in Workers : wpc[w] \notin {"front", "pop"}
    BY <2>1 DEF MutexHeld, Inside
  <2> QED
    BY <1>6, <2>2 DEF AppendPush
<1>7. CASE AppendUnlock
  BY <1>7 DEF AppendUnlock
<1>8. CASE AppendPost
  BY <1>8 DEF AppendPost
<1>9. ASSUME NEW w \in Workers, run(w) \/ WaitInterrupted(w)
      PROVE  FrontNotEmpty'
  <2>1. CASE Wait(w)
    BY <2>1 DEF TypeOK, Wait, At
  <2>2. CASE WaitInterrupted(w)
    BY <2>2 DEF TypeOK, WaitInterrupted, At
  <2>3. CASE Lock(w)
    BY <2>3 DEF TypeOK, Lock, At
  <2>4. CASE Check(w)
    BY <2>4 DEF TypeOK, Check, At
  <2>5. CASE Leave(w)
    BY <2>5 DEF TypeOK, Leave, At
  <2>6. CASE Front(w)
    BY <2>6 DEF TypeOK, Front, At
  <2>7. CASE Pop(w)
    <3>1. \A v \in Workers : v # w => wpc[v] \notin {"front", "pop"}
      BY <2>7 DEF Pop, At, MutexHeld, Inside
    <3> QED
      BY <2>7, <3>1 DEF TypeOK, Pop, At
  <2>8. CASE Unlock(w)
    BY <2>8 DEF TypeOK, Unlock, At
  <2>9. CASE Run(w)
    BY <2>9 DEF TypeOK, Run, At
  <2> QED
    BY <1>9, <2>1, <2>2, <2>3, <2>4, <2>5, <2>6, <2>7, <2>8, <2>9 DEF run
<1> QED
  BY <1>1, <1>2, <1>3, <1>4, <1>5, <1>6, <1>7, <1>8, <1>9
  DEF Next, appendCall

LEMMA BoundedStep ==
    ASSUME QueueAssumption, TypeOK, MutexHeld, FrontNotEmpty, Bounded, [Next]_vars
    PROVE  Bounded'
<1> USE QueueAssumption DEF QueueAssumption, Bounded
<1> Len(m_workqueue) \in Nat
  BY LenProperties DEF TypeOK
<1>1. CASE UNCHANGED vars
  BY <1>1 DEF vars
<1>2. ASSUME NEW r \in Requests, CallAppend(r) PROVE Bounded'
  BY <1>2 DEF CallAppend
<1>3. CASE AppendLock
  BY <1>3 DEF AppendLock
<1>4. CASE AppendCheck
  BY <1>4 DEF AppendCheck, Full
<1>5. CASE AppendRefuse
  BY <1>5 DEF AppendRefuse
<1>6. CASE AppendPush
  <2>1. Len(m_workqueue') = Len(m_workqueue) + 1
    BY <1>6, AppendProperties DEF AppendPush, TypeOK
  <2> QED
    BY <1>6, <2>1 DEF AppendPush
<1>7. CASE AppendUnlock
  BY <1>7 DEF AppendUnlock
<1>8. CASE AppendPost
  BY <1>8 DEF AppendPost
<1>9. ASSUME NEW w \in Workers, run(w) \/ WaitInterrupted(w) PROVE Bounded'
  <2>1. CASE Pop(w)
    <3>1. wpc[w] = "pop" /\ m_workqueue # << >> /\ m_queuelocker = w
      BY <2>1 DEF Pop, At, FrontNotEmpty, MutexHeld, Inside
    <3>2. Len(m_workqueue') = Len(m_workqueue) - 1
      BY <2>1, <3>1, HeadTailProperties DEF Pop, TypeOK
    <3>3. apc' # "push"
      BY <2>1, <3>1 DEF Pop, MutexHeld, AppendInside
    <3> QED
      BY <3>2, <3>3
  <2>2. CASE ~Pop(w)
    <3>1. UNCHANGED <<m_workqueue, apc>>
      BY <1>9, <2>2 DEF run, Wait, WaitInterrupted, Lock, Check, Leave, Front,
         Unlock, Run
    <3> QED
      BY <3>1
  <2> QED
    BY <2>1, <2>2
<1> QED
  BY <1>1, <1>2, <1>3, <1>4, <1>5, <1>6, <1>7, <1>8, <1>9
  DEF Next, appendCall

LEMMA InvStep ==
    ASSUME QueueAssumption, Inv, [Next]_vars
    PROVE  Inv'
BY TypeStep, MutexStep, FrontStep, BoundedStep DEF Inv

LEMMA InvInit ==
    ASSUME QueueAssumption, Init
    PROVE  Inv
<1>1. m_workqueue \in Seq(Requests) /\ Len(m_workqueue) = 0
  BY EmptySeq DEF Init
<1> QED
  BY <1>1 DEF QueueAssumption, Init, Inv, TypeOK, MutexHeld, FrontNotEmpty,
     Bounded, AppendInside, Inside, AppendPCs, WorkerPCs

-----------------------------------------------------------------------------
LEMMA InvAlways == Spec => []Inv
<1>1. Init => Inv
  BY QueueAssumption, InvInit
<1>2. Inv /\ [Next]_vars => Inv'
  BY QueueAssumption, InvStep
<1> QED
  BY <1>1, <1>2, PTL DEF Spec

(* Every variable keeps to the values the code can give it.                *)
THEOREM TypeCorrect == Spec => []TypeOK
<1>1. Spec => []Inv
  BY InvAlways
<1>2. Inv => TypeOK
  BY DEF Inv
<1> QED
  BY <1>1, <1>2, PTL

(* No two threads are between lock and unlock of m_queuelocker.            *)
THEOREM MutualExclusion == Spec => []MutexHeld
<1>1. Spec => []Inv
  BY InvAlways
<1>2. Inv => MutexHeld
  BY DEF Inv
<1> QED
  BY <1>1, <1>2, PTL

(* front() and pop_front() are never applied to an empty list, however     *)
(* many waits are interrupted.                                             *)
THEOREM NoEmptyFront == Spec => []FrontNotEmpty
<1>1. Spec => []Inv
  BY InvAlways
<1>2. Inv => FrontNotEmpty
  BY DEF Inv
<1> QED
  BY <1>1, <1>2, PTL

(* The queue stays within m_max_requests.                                  *)
THEOREM CapacityKept == Spec => []Bounded
<1>1. Spec => []Inv
  BY InvAlways
<1>2. Inv => Bounded
  BY DEF Inv
<1> QED
  BY <1>1, <1>2, PTL

-----------------------------------------------------------------------------
(* A worker that wakes up joins Awake, one that has popped or found nothing*)
(* leaves it.                                                              *)
LEMMA AwakeCounts ==
    ASSUME QueueAssumption, TypeOK
    PROVE  /\ IsFiniteSet(Awake) /\ Cardinality(Awake) \in Nat
           /\ \A w \in Workers :
                /\ w \notin Awake =>
                     Cardinality(Awake \cup {w}) = Cardinality(Awake) + 1
                /\ w \in Awake =>
                     Cardinality(Awake \ {w}) = Cardinality(Awake) - 1
<1>1. IsFiniteSet(Awake)
  BY FS_Subset DEF QueueAssumption, Awake
<1> QED
  BY <1>1, FS_CardinalityType, FS_AddElement, FS_RemoveElement

LEMMA StrandedStep ==
    ASSUME QueueAssumption, Inv, NoStranded, [Next]_vars
    PROVE  NoStranded'
<1> USE QueueAssumption
<1>0. TypeOK /\ Len(m_workqueue) \in Nat /\ m_queuestat \in Nat
      /\ Cardinality(Awake) \in Nat /\ Posting \in {0, 1}
  BY AwakeCounts, LenProperties DEF Inv, TypeOK, Posting
<1>1. CASE UNCHANGED <<m_workqueue, m_queuestat, Awake, Posting>>
  BY <1>1 DEF NoStranded
<1>2. CASE AppendPush
  <2>1. Len(m_workqueue') = Len(m_workqueue) + 1
    BY <1>0, <1>2, AppendProperties DEF AppendPush, TypeOK
  <2>2. Posting = 0 /\ Posting' = 1 /\ Awake' = Awake
        /\ m_queuestat' = m_queuestat
    BY <1>2 DEF AppendPush, Posting, Awake
  <2> QED
    BY <1>0, <2>1, <2>2 DEF NoStranded
<1>3. CASE AppendPost
  <2>1. Posting = 1 /\ Posting' = 0 /\ Awake' = Awake
        /\ m_queuestat' = m_queuestat + 1 /\ m_workqueue' = m_workqueue
    BY <1>3 DEF AppendPost, Posting, Awake
  <2> QED
    BY <1>0, <2>1 DEF NoStranded
<1>4. CASE \/ \E r \in Requests : CallAppend(r)
           \/ AppendLock \/ AppendCheck \/ AppendRefuse \/ AppendUnlock
  <2>1. UNCHANGED <<m_workqueue, m_queuestat, Awake, Posting>>
    BY <1>4 DEF CallAppend, AppendLock, AppendCheck, AppendRefuse,
       AppendUnlock, Posting, Awake
  <2> QED
    BY <1>1, <2>1
<1>5. ASSUME NEW w \in Workers, Wait(w) \/ WaitInterrupted(w)
      PROVE  NoStranded'
  <2>1. w \notin Awake /\ Awake' = Awake \cup {w} /\ Posting' = Posting
        /\ m_workqueue' = m_workqueue
    BY <1>0, <1>5 DEF Wait, WaitInterrupted, At, Awake, Posting, TypeOK
  <2>2. Cardinality(Awake') = Cardinality(Awake) + 1
    BY <1>0, <2>1, AwakeCounts
  <2>3. m_queuestat' \in Nat /\ m_queuestat' >= m_queuestat - 1
    BY <1>0, <1>5 DEF Wait, WaitInterrupted
  <2> QED
    BY <1>0, <2>1, <2>2, <2>3 DEF NoStranded
<1>6. ASSUME NEW w \in Workers, Check(w) PROVE NoStranded'
  <2>1. CASE m_workqueue = << >>
    <3>1. Len(m_workqueue') = 0 /\ m_queuestat' \in Nat /\ Posting' \in {0, 1}
      BY <1>0, <1>6, <2>1 DEF Check, Posting
    <3>2. TypeOK'
      BY <1>6, InvStep DEF Inv, Next, run
    <3>3. Cardinality(Awake') \in Nat
      <4>1. IsFiniteSet(Awake')
        BY FS_Subset DEF QueueAssumption, Awake
      <4> QED
        BY <4>1, FS_CardinalityType
    <3> QED
      BY <3>1, <3>3 DEF NoStranded
  <2>2. CASE m_workqueue # << >>
    <3>1. UNCHANGED <<m_workqueue, m_queuestat, Awake, Posting>>
      BY <1>0, <1>6, <2>2 DEF Check, At, Awake, Posting, TypeOK
    <3> QED
      BY <1>1, <3>1
  <2> QED
    BY <2>1, <2>2
<1>7. ASSUME NEW w \in Workers, Pop(w) PROVE NoStranded'
  <2>1. m_workqueue # << >>
    BY <1>7 DEF Inv, FrontNotEmpty, Pop, At
  <2>2. Len(m_workqueue') = Len(m_workqueue) - 1
    BY <1>0, <1>7, <2>1, HeadTailProperties DEF Pop, TypeOK
  <2>3. w \in Awake /\ Awake' = Awake \ {w} /\ Posting' = Posting
        /\ m_queuestat' = m_queuestat
    BY <1>0, <1>7 DEF Pop, At, Awake, Posting, TypeOK
  <2>4. Cardinality(Awake') = Cardinality(Awake) - 1
    BY <1>0, <2>3, AwakeCounts
  <2> QED
    BY <1>0, <2>2, <2>3, <2>4 DEF NoStranded
<1>8. ASSUME NEW w \in Workers,
             Lock(w) \/ Leave(w) \/ Front(w) \/ Unlock(w) \/ Run(w)
      PROVE  NoStranded'
  <2>1. UNCHANGED <<m_workqueue, m_queuestat, Awake, Posting>>
    BY <1>0, <1>8 DEF Lock, Leave, Front, Unlock, Run, At, Awake, Posting, TypeOK
  <2> QED
    BY <1>1, <2>1
<1>9. CASE UNCHANGED vars
  <2>1. UNCHANGED <<m_workqueue, m_queuestat, Awake, Posting>>
    BY <1>9 DEF vars, Awake, Posting
  <2> QED
    BY <1>1, <2>1
<1> QED
  BY <1>2, <1>3, <1>4, <1>5, <1>6, <1>7, <1>8, <1>9 DEF Next, appendCall, run

(* No accepted request waits while every worker sleeps: each one has a     *)
(* unit of m_queuestat, an awake worker or a coming post() to its name.    *)
THEOREM NothingStranded == Spec => []NoStranded
<1>1. Init => NoStranded
  <2> SUFFICES ASSUME Init PROVE NoStranded
    OBVIOUS
  <2>1. Inv
    BY QueueAssumption, InvInit
  <2>2. Cardinality(Awake) \in Nat
    BY <2>1, QueueAssumption, AwakeCounts DEF Inv
  <2>3. Len(m_workqueue) = 0 /\ m_queuestat = 0 /\ Posting = 0
    BY DEF Init, Posting
  <2> QED
    BY <2>2, <2>3 DEF NoStranded
<1>2. Inv /\ NoStranded /\ [Next]_vars => NoStranded'
  BY QueueAssumption, StrandedStep
<1>3. Spec => []Inv
  BY InvAlways
<1> QED
  BY <1>1, <1>2, <1>3, PTL DEF Spec

-----------------------------------------------------------------------------
(* Only the holder of the mutex can be about to pop.                       *)
LEMMA PopperHoldsLock ==
    ASSUME QueueAssumption, Inv
    PROVE  /\ AppendInside => ~Popping
           /\ \A v, w \in Workers : wpc[v] = "pop" /\ Inside(w) => v = w
BY DEF QueueAssumption, Inv, MutexHeld, Inside, AppendInside, Popping

(* Each step of the locked queue is a step of RequestFifo or none at all:  *)
(* push_back accepts a request, front() takes one, the end of run()'s body *)
(* finishes one, and everything else is invisible.                         *)
LEMMA FifoStep ==
    ASSUME QueueAssumption, Inv, Inv', [Next]_vars
    PROVE  [Fifo!Next]_(Fifo!fifo)
<1> USE QueueAssumption
<1>0. TypeOK /\ TypeOK'
  BY DEF Inv
<1>1. CASE UNCHANGED <<m_workqueue, wreq, Popping>>
  BY <1>1 DEF Fifo!fifo
<1>2. CASE AppendPush
  <2>1. ~Popping /\ ~Popping' /\ areq \in Requests
    BY <1>0, <1>2, PopperHoldsLock
    DEF AppendPush, AppendInside, Popping, TypeOK
  <2>2. Len(m_workqueue) < MaxRequests
    BY <1>2 DEF AppendPush, Inv, Bounded
  <2>3. Fifo!Accept(areq)
    BY <1>2, <2>1, <2>2 DEF AppendPush, Fifo!Accept
  <2> QED
    BY <2>1, <2>3 DEF Fifo!Next
<1>3. ASSUME NEW w \in Workers, Front(w) PROVE [Fifo!Next]_(Fifo!fifo)
  <2>1. wpc[w] = "front" /\ Inside(w) /\ wreq[w] = NoRequest
        /\ m_workqueue # << >>
    BY <1>0, <1>3 DEF Front, At, Inside, TypeOK, Inv, FrontNotEmpty
  <2>2. ~Popping
    BY <2>1, PopperHoldsLock DEF Popping
  <2>3. Popping'
    BY <1>0, <1>3 DEF Front, At, Popping, TypeOK
  <2>4. Fifo!Get(w)
    BY <1>3, <2>1, <2>2, <2>3 DEF Front, Fifo!Get
  <2> QED
    BY <2>4 DEF Fifo!Next
<1>4. ASSUME NEW w \in Workers, Pop(w) PROVE [Fifo!Next]_(Fifo!fifo)
  <2>1. wpc[w] = "pop" /\ Inside(w) /\ Popping
    BY <1>4 DEF Pop, At, Inside, Popping
  <2>2. \A v \in Workers : v # w => wpc[v] # "pop"
    BY <2>1, PopperHoldsLock
  <2>3. ~Popping'
    BY <1>0, <1>4, <2>2 DEF Pop, At, Popping, TypeOK
  <2> QED
    BY <1>4, <2>1, <2>3 DEF Pop, Fifo!fifo
<1>5. ASSUME NEW w \in Workers, Run(w) PROVE [Fifo!Next]_(Fifo!fifo)
  <2>1. wreq[w] # NoRequest /\ wpc[w] = "run" /\ m_workqueue' = m_workqueue
    BY <1>0, <1>5 DEF Run, At, TypeOK, QueueAssumption
  <2>2. Popping' = Popping
    BY <1>0, <1>5 DEF Run, At, Popping, TypeOK
  <2>3. Fifo!Finish(w)
    BY <1>5, <2>1, <2>2 DEF Run, Fifo!Finish
  <2> QED
    BY <2>3 DEF Fifo!Next
<1>6. ASSUME NEW w \in Workers,
             \/ Wait(w) \/ WaitInterrupted(w) \/ Lock(w) \/ Check(w)
             \/ Leave(w) \/ Unlock(w)
      PROVE  [Fifo!Next]_(Fifo!fifo)
  <2>1. UNCHANGED <<m_workqueue, wreq>>
    BY <1>6 DEF Wait, WaitInterrupted, Lock, Check, Leave, Unlock
  <2>2. wpc[w] # "pop" /\ wpc'[w] # "pop"
        /\ \A v \in Workers : v # w => wpc'[v] = wpc[v]
    BY <1>0, <1>6 DEF Wait, WaitInterrupted, Lock, Check, Leave, Unlock, At,
       TypeOK
  <2>3. Popping' = Popping
    BY <2>2 DEF Popping
  <2> QED
    BY <1>1, <2>1, <2>3
<1>7. CASE \/ \E r \in Requests : CallAppend(r)
           \/ AppendLock \/ AppendCheck \/ AppendRefuse \/ AppendUnlock
           \/ AppendPost \/ UNCHANGED vars
  <2>1. UNCHANGED <<m_workqueue, wreq, wpc>>
    BY <1>7 DEF CallAppend, AppendLock, AppendCheck, AppendRefuse,
       AppendUnlock, AppendPost, vars
  <2> QED
    BY <1>1, <2>1 DEF Popping
<1> QED
  BY <1>2, <1>3, <1>4, <1>5, <1>6, <1>7 DEF Next, appendCall, run

(* threadpool's list, mutex and semaphore implement the FIFO queue that    *)
(* the event loop relies on.                                               *)
THEOREM ImplementsFifo == Spec => IsFifo
<1>1. Init => Fifo!Init
  BY DEF Init, Fifo!Init, Popping
<1>2. Inv /\ Inv' /\ [Next]_vars => [Fifo!Next]_(Fifo!fifo)
  BY QueueAssumption, FifoStep
<1>3. Spec => []Inv
  BY InvAlways
<1> QED
  BY <1>1, <1>2, <1>3, PTL DEF Spec, IsFifo, Fifo!Spec
=============================================================================
