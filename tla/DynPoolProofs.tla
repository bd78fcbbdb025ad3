--------------------------- MODULE DynPoolProofs ----------------------------
(* Proofs about DynPool, for any sizes, tasks and NUMBER.                  *)
EXTENDS DynPool, TLAPS, FiniteSetTheorems, SequenceTheorems

(* Only the first m_maxNum places are ever used.                           *)
Seated == \A i \in Places : worker[i] # "none" => i <= size.max

(* The queue is the end of the row of tasks, in the order of addTask.      *)
QueueOrder ==
    /\ Len(m_taskQ) <= owner.added
    /\ \A k \in 1..Len(m_taskQ) : m_taskQ[k] = owner.added - Len(m_taskQ) + k

(* A task that is not in the queue any more is in one worker's hand or was *)
(* begun once.                                                             *)
Given ==
    /\ Begun \cup InHand = 1..(owner.added - Len(m_taskQ))
    /\ Begun \cap InHand = {}
    /\ \A m, n \in DOMAIN started : started[m] = started[n] => m = n
    /\ \A i, j \in Holding : hand[i] = hand[j] => i = j

(* With one worker they are begun in order.                                *)
AloneInOrder == size.max = 1 => \A n \in DOMAIN started : started[n] = n

(* While two workers have not been between test and use at once, the one   *)
(* that is there will find what it saw.                                    *)
FrontSeen ==
    /\ raced => size.max > 1
    /\ ~raced => \A i \in Places :
          /\ worker[i] = "take" => m_taskQ # << >>
          /\ worker[i] # "undefined"
          /\ \A j \in Places : worker[i] = "take" /\ worker[j] = "take" => i = j

Inv == CountsExact /\ Seated /\ QueueOrder /\ Given /\ AloneInOrder /\ FrontSeen

USE DEF counts, tasks, ByWorker, ByManager, ByOwner

-----------------------------------------------------------------------------
(* The operators of the model.                                             *)
LEMMA MinMax ==
    /\ \A a, b \in Int : Max({a, b}) = IF a >= b THEN a ELSE b
    /\ \A a, b, c \in Int : /\ Min({a, b, c}) \in {a, b, c}
                            /\ Min({a, b, c}) <= a /\ Min({a, b, c}) <= b
                            /\ Min({a, b, c}) <= c
<1>1. ASSUME NEW a \in Int, NEW b \in Int
      PROVE  Max({a, b}) = IF a >= b THEN a ELSE b
  <2>1. \E x \in {a, b} : \A y \in {a, b} : x >= y
    OBVIOUS
  <2> QED
    BY <2>1 DEF Max
<1>2. ASSUME NEW a \in Int, NEW b \in Int, NEW c \in Int
      PROVE  /\ Min({a, b, c}) \in {a, b, c}
             /\ Min({a, b, c}) <= a /\ Min({a, b, c}) <= b /\ Min({a, b, c}) <= c
  <2>1. \E x \in {a, b, c} : \A y \in {a, b, c} : x <= y
    OBVIOUS
  <2> QED
    BY <2>1 DEF Min
<1> QED
  BY <1>1, <1>2

(* Of a finite set of numbers, those with fewer than n before them are at  *)
(* most n: how many there are before a number tells it from the others.    *)
LEMMA FirstN ==
    ASSUME NEW S \in SUBSET Int, IsFiniteSet(S), NEW n \in Nat,
           NEW T, T \subseteq {i \in S : Cardinality({j \in S : j < i}) < n}
    PROVE  IsFiniteSet(T) /\ Cardinality(T) <= n
<1> DEFINE Before(i) == {j \in S : j < i}
           f == [i \in T |-> Cardinality(Before(i)) + 1]
<1>1. \A i \in S : IsFiniteSet(Before(i)) /\ Cardinality(Before(i)) \in Nat
  BY FS_Subset, FS_CardinalityType
<1>2. f \in [T -> 1..n]
  BY <1>1
<1>3. ASSUME NEW i \in T, NEW k \in T, i < k
      PROVE  Cardinality(Before(i)) < Cardinality(Before(k))
  <2>1. Before(i) \cup {i} \subseteq Before(k) /\ i \notin Before(i)
    <3>1. i \in S /\ k \in S /\ i \in Int /\ k \in Int
      OBVIOUS
    <3>2. ASSUME NEW j \in S, j < i PROVE j < k
      <4>1. j \in Int
        OBVIOUS
      <4> QED
        BY <1>3, <3>1, <3>2, <4>1
    <3>3. i \notin Before(i)
      BY <3>1
    <3>4. i \in Before(k)
      BY <1>3, <3>1
    <3>5. \A x \in Before(i) : x \in Before(k)
      BY <3>2
    <3> HIDE DEF Before
    <3> QED
      BY <3>3, <3>4, <3>5
  <2>2. /\ IsFiniteSet(Before(i) \cup {i})
        /\ Cardinality(Before(i) \cup {i}) = Cardinality(Before(i)) + 1
    BY <1>1, <2>1, FS_AddElement
  <2>3. Cardinality(Before(i) \cup {i}) <= Cardinality(Before(k))
    BY <1>1, <2>1, FS_Subset
  <2> QED
    BY <1>1, <2>2, <2>3, SMTT(30)
<1>4. f \in Injection(T, 1..n)
  <2>1. ASSUME NEW i \in T, NEW k \in T, f[i] = f[k] PROVE i = k
    <3>1. i \in Int /\ k \in Int /\ Cardinality(Before(i)) = Cardinality(Before(k))
      BY <1>1, <2>1
    <3> QED
      BY <1>1, <1>3, <3>1
  <2> QED
    BY <1>2, <2>1 DEF Injection, IsInjective
<1>5. IsFiniteSet(1..n) /\ Cardinality(1..n) = n
  BY FS_Interval
<1>6. IsFiniteSet(T)
  BY FS_Subset
<1> QED
  BY <1>4, <1>5, <1>6, FS_Injection

LEMMA SizeFacts ==
    ASSUME PoolAssumption, size \in Sizes
    PROVE  /\ size.min \in Nat \ {0} /\ size.max \in Nat /\ size.min <= size.max
           /\ 1..size.max \subseteq Places /\ 1..size.min \subseteq Places
           /\ Places \subseteq Nat
BY DEF PoolAssumption, Places

(* Where workers are, counted.                                             *)
LEMMA CountFacts ==
    ASSUME PoolAssumption, size \in Sizes, Seated
    PROVE  /\ IsFiniteSet(Busy) /\ Cardinality(Busy) \in Nat
           /\ IsFiniteSet(Alive) /\ Cardinality(Alive) \in Nat
<1>1. IsFiniteSet(1..size.max)
  <2>1. 1 \in Int /\ size.max \in Int
    BY SizeFacts
  <2> QED
    BY <2>1, FS_Interval
<1>2. Busy \subseteq 1..size.max /\ Alive \subseteq 1..size.max
  <2>1. \A i \in Places : worker[i] # "none" => i \in 1..size.max
    BY SizeFacts DEF Seated, Places, PoolAssumption
  <2> QED
    BY <2>1 DEF Busy, Alive
<1> QED
  BY <1>1, <1>2, FS_Subset, FS_CardinalityType

Having == {"holds", "run"}

(* One worker goes from one place to another.                              *)
LEMMA Moved ==
    ASSUME PoolAssumption, TypeOK, Seated, NEW i \in Places, NEW to,
           worker[i] \notin {"none", "ended"}, to # "none",
           worker' = [worker EXCEPT ![i] = to], size' = size
    PROVE  /\ Seated'
           /\ Cardinality(Busy') =
                IF i \notin Busy /\ to \in Having THEN Cardinality(Busy) + 1
                ELSE IF i \in Busy /\ to \notin Having THEN Cardinality(Busy) - 1
                ELSE Cardinality(Busy)
           /\ Cardinality(Alive') =
                IF to = "ended" THEN Cardinality(Alive) - 1 ELSE Cardinality(Alive)
<1>1. \A j \in Places : worker'[j] = IF j = i THEN to ELSE worker[j]
  BY DEF TypeOK
<1>2. Seated'
  BY <1>1 DEF Seated
<1>3. Busy' = IF to \in Having THEN Busy \cup {i} ELSE Busy \ {i}
  BY <1>1 DEF Busy, Having
<1>4. Alive' = IF to = "ended" THEN Alive \ {i} ELSE Alive
  BY <1>1 DEF Alive
<1>5. /\ IsFiniteSet(Busy) /\ IsFiniteSet(Alive)
      /\ Cardinality(Busy) \in Nat /\ Cardinality(Alive) \in Nat
  BY CountFacts DEF TypeOK
<1>6. i \in Alive
  BY DEF Alive
<1> QED
  BY <1>2, <1>3, <1>4, <1>5, <1>6, FS_AddElement, FS_RemoveElement

(* notify_all puts nobody to work.                                         *)
LEMMA Notified ==
    ASSUME TypeOK, Seated, notify_all, size' = size
    PROVE  /\ Seated' /\ Busy' = Busy /\ Alive' = Alive
           /\ worker' \in [Places -> {"none", "loop", "wait", "waiting", "late", "woken",
                                    "take", "holds", "run", "undefined", "ended"}]
           /\ \A j \in Places : worker'[j] \in {"woken", worker[j]}
<1>1. \A j \in Places : worker'[j] = IF worker[j] \in {"waiting", "late"} THEN "woken"
                                     ELSE worker[j]
  BY DEF notify_all, Asleep
<1> QED
  BY <1>1 DEF Busy, Alive, Seated, TypeOK, notify_all

LEMMA CountsWorker ==
    ASSUME PoolAssumption, CountsExact, Seated, Given, NEW i \in Places,
           Work(i) \/ WakesByItself(i)
    PROVE  CountsExact' /\ Seated'
<1> USE DEF CountsExact, Goes
<1>0. /\ TypeOK /\ Cardinality(Busy) \in Nat /\ size \in Sizes /\ size' = size
      /\ m_busyNum = Cardinality(Busy)
      /\ size.min \in Nat /\ size.max \in Nat /\ NUMBER \in Nat
  BY CountFacts, SizeFacts DEF TypeOK, Busy, PoolAssumption, Work, Loop, Wait, Woken,
     Take, TakeFromEmpty, Begin, Finish, WakesByItself
<1>1. i \in Busy <=> worker[i] \in Having
  BY DEF Busy, Having
<1>2. CASE Loop(i) \/ Wait(i) \/ WakesByItself(i) \/ TakeFromEmpty(i)
  <2>1. PICK to \in {"ended", "wait", "take", "late", "waiting", "woken", "undefined"} :
           worker' = [worker EXCEPT ![i] = to] /\ (to = "ended" => m_shutdown)
    BY <1>2 DEF Loop, Wait, WakesByItself, TakeFromEmpty, Next103
  <2>2. /\ worker[i] \in {"loop", "wait", "waiting", "late", "take"}
        /\ UNCHANGED <<size, m_taskQ, m_busyNum, m_aliveNum, m_exitNum, m_shutdown,
                       manager, owner, started, hand>>
        /\ raced' \in BOOLEAN
    BY <1>0, <1>2 DEF Loop, Wait, WakesByItself, TakeFromEmpty, Asleep, Meets, TypeOK
  <2>3. /\ Seated' /\ Cardinality(Busy') = Cardinality(Busy)
        /\ ~m_shutdown => Cardinality(Alive') = Cardinality(Alive)
    BY <1>0, <1>1, <2>1, <2>2, Moved DEF Having
  <2>4. TypeOK'
    BY <1>0, <2>1, <2>2 DEF TypeOK
  <2> QED
    BY <1>0, <2>2, <2>3, <2>4 DEF TypeOK
<1>3. CASE Woken(i)
  <2>1. PICK to \in {"ended", "wait", "take"} :
           /\ worker' = [worker EXCEPT ![i] = to]
           /\ MayLeave => to = "ended"
           /\ ~MayLeave /\ to = "ended" => m_shutdown
    BY <1>3 DEF Woken, Next103
  <2>2. /\ worker[i] = "woken"
        /\ m_aliveNum' = IF MayLeave THEN m_aliveNum - 1 ELSE m_aliveNum
        /\ m_exitNum' = Max({m_exitNum - 1, 0})
        /\ UNCHANGED <<size, m_taskQ, m_busyNum, m_shutdown, manager, owner, started, hand>>
        /\ raced' \in BOOLEAN
    BY <1>0, <1>3 DEF Woken, Meets, TypeOK
  <2>3. /\ Seated' /\ Cardinality(Busy') = Cardinality(Busy)
        /\ Cardinality(Alive') = IF to = "ended" THEN Cardinality(Alive) - 1
                                 ELSE Cardinality(Alive)
    BY <1>0, <1>1, <2>1, <2>2, Moved DEF Having
  <2>4. m_exitNum' \in 0..NUMBER
    <3>1. m_exitNum \in 0..NUMBER /\ m_exitNum - 1 \in Int /\ 0 \in Int
      BY <1>0 DEF TypeOK
    <3>2. m_exitNum' = IF m_exitNum - 1 >= 0 THEN m_exitNum - 1 ELSE 0
      BY <2>2, <3>1, MinMax
    <3> QED
      BY <1>0, <3>1, <3>2
  <2>5. m_aliveNum' \in size.min..size.max
    BY <1>0, <2>2 DEF MayLeave
  <2>6. TypeOK'
    <3>1. worker' \in [Places -> {"none", "loop", "wait", "waiting", "late", "woken",
                                  "take", "holds", "run", "undefined", "ended"}]
      BY <1>0, <2>1 DEF TypeOK
    <3>2. m_aliveNum' \in Nat
      BY <1>0, <2>5
    <3> QED
      BY <1>0, <2>2, <2>4, <3>1, <3>2 DEF TypeOK
  <2> QED
    BY <1>0, <1>1, <2>1, <2>2, <2>3, <2>5, <2>6 DEF TypeOK
<1>4. CASE Take(i)
  <2>1. /\ worker[i] = "take" /\ worker' = [worker EXCEPT ![i] = "holds"]
        /\ m_taskQ # << >> /\ m_taskQ' = Tail(m_taskQ)
        /\ hand' = [hand EXCEPT ![i] = Head(m_taskQ)] /\ m_busyNum' = m_busyNum + 1
        /\ UNCHANGED <<size, m_aliveNum, m_exitNum, m_shutdown, manager, owner, started>>
        /\ raced' \in BOOLEAN
    BY <1>0, <1>4 DEF Take, TypeOK, Others
  <2>2. /\ Seated' /\ Cardinality(Busy') = Cardinality(Busy) + 1
        /\ Cardinality(Alive') = Cardinality(Alive)
    BY <1>0, <1>1, <2>1, Moved DEF Having
  <2>3. m_taskQ' \in Seq(1..MaxTasks) /\ hand' \in [Places -> 0..MaxTasks]
    <3>1. Head(m_taskQ) \in 1..MaxTasks
      BY <1>0, <2>1, HeadTailProperties DEF TypeOK
    <3>2. m_taskQ' \in Seq(1..MaxTasks)
      BY <1>0, <2>1, HeadTailProperties DEF TypeOK
    <3>3. PICK h \in 0..MaxTasks : hand' = [hand EXCEPT ![i] = h]
      <4>1. 1..MaxTasks \subseteq 0..MaxTasks
        BY DEF PoolAssumption
      <4> QED
        BY <2>1, <3>1, <4>1
    <3>4. hand' \in [Places -> 0..MaxTasks]
      BY <1>0, <3>3 DEF TypeOK
    <3> QED
      BY <3>2, <3>4
  <2>4. TypeOK'
    <3>1. m_busyNum' \in Nat
      BY <1>0, <2>1
    <3>2. worker' \in [Places -> {"none", "loop", "wait", "waiting", "late", "woken",
                                  "take", "holds", "run", "undefined", "ended"}]
      BY <1>0, <2>1 DEF TypeOK
    <3> QED
      BY <1>0, <2>1, <2>3, <3>1, <3>2 DEF TypeOK
  <2> QED
    BY <1>0, <1>1, <2>1, <2>2, <2>4 DEF TypeOK
<1>5. CASE Begin(i)
  <2>1. /\ worker[i] = "holds" /\ worker' = [worker EXCEPT ![i] = "run"]
        /\ started' = Append(started, hand[i]) /\ hand' = [hand EXCEPT ![i] = 0]
        /\ UNCHANGED <<size, m_taskQ, m_busyNum, m_aliveNum, m_exitNum, m_shutdown, manager,
                       owner, raced>>
    BY <1>5 DEF Begin
  <2>2. /\ Seated' /\ Cardinality(Busy') = Cardinality(Busy)
        /\ Cardinality(Alive') = Cardinality(Alive)
    <3>1. PICK to \in {"run"} : worker' = [worker EXCEPT ![i] = to]
      BY <2>1
    <3> QED
      BY <1>0, <1>1, <2>1, <3>1, Moved DEF Having
  <2>3. started' \in Seq(1..MaxTasks)
    <3>1. hand[i] \in 1..MaxTasks
      <4>1. hand[i] \in 1..(owner.added - Len(m_taskQ))
        BY <2>1 DEF Given, InHand, Holding
      <4>2. owner.added \in Nat /\ owner.added <= MaxTasks /\ Len(m_taskQ) \in Nat
        BY <1>0, LenProperties DEF TypeOK, PoolAssumption
      <4>3. MaxTasks \in Nat
        BY DEF PoolAssumption
      <4> QED
        BY <4>1, <4>2, <4>3
    <3> QED
      BY <1>0, <2>1, <3>1, AppendProperties DEF TypeOK
  <2>4. TypeOK'
    BY <1>0, <2>1, <2>3 DEF TypeOK
  <2> QED
    BY <1>0, <2>1, <2>2, <2>4
<1>6. CASE Finish(i)
  <2>1. /\ worker[i] = "run" /\ worker' = [worker EXCEPT ![i] = "loop"]
        /\ m_busyNum' = m_busyNum - 1
        /\ UNCHANGED <<size, m_taskQ, m_aliveNum, m_exitNum, m_shutdown, manager,
                       owner, started, hand, raced>>
    BY <1>6 DEF Finish
  <2>2. /\ Seated' /\ Cardinality(Busy') = Cardinality(Busy) - 1
        /\ Cardinality(Alive') = Cardinality(Alive)
    <3>1. PICK to \in {"loop"} : worker' = [worker EXCEPT ![i] = to]
      BY <2>1
    <3> QED
      BY <1>0, <1>1, <2>1, <3>1, Moved DEF Having
  <2>3. Cardinality(Busy') \in Nat
    <3>1. Busy # {} /\ IsFiniteSet(Busy)
      BY <1>0, <1>1, <2>1, CountFacts DEF Having
    <3>2. Cardinality(Busy) # 0
      BY <3>1, FS_EmptySet
    <3> QED
      BY <1>0, <2>2, <3>2
  <2>4. TypeOK'
    BY <1>0, <2>1, <2>2, <2>3 DEF TypeOK
  <2> QED
    BY <1>0, <1>1, <2>1, <2>2, <2>4 DEF TypeOK
<1> QED
  BY <1>2, <1>3, <1>4, <1>5, <1>6 DEF Work

(* The manager adds the first vacant places, as many as m_maxNum allows.   *)
LEMMA CreateCounts ==
    ASSUME PoolAssumption, CountsExact, Seated, Create
    PROVE  CountsExact' /\ Seated'
<1>0. /\ TypeOK /\ size \in Sizes /\ size' = size /\ Cardinality(Alive) \in Nat
      /\ size.min \in Nat /\ size.max \in Nat /\ NUMBER \in Nat
      /\ m_aliveNum \in size.min..size.max
      /\ IsFiniteSet(Alive) /\ 1..size.max \subseteq Places
  BY CountFacts, SizeFacts DEF CountsExact, TypeOK, PoolAssumption, Create
<1>1. IsFiniteSet(Vacant) /\ Vacant \subseteq Int /\ Vacant \subseteq 1..size.max
  <2>1. IsFiniteSet(1..size.max)
    <3>1. 1 \in Int /\ size.max \in Int
      BY <1>0
    <3> QED
      BY <3>1, FS_Interval
  <2>2. Vacant \subseteq 1..size.max
    BY DEF Vacant
  <2>3. IsFiniteSet(Vacant)
    BY <2>1, <2>2, FS_Subset
  <2> QED
    BY <2>2, <2>3
<1>2. Cardinality(Vacant) \in Nat
  BY <1>1, FS_CardinalityType
<1> DEFINE n == Min({NUMBER, size.max - m_aliveNum, Cardinality(Vacant)})
<1>3. n \in Nat /\ n <= size.max - m_aliveNum
  <2>1. NUMBER \in Int /\ size.max - m_aliveNum \in Int /\ Cardinality(Vacant) \in Int
    BY <1>0, <1>2
  <2>2. ASSUME NEW a \in Int, NEW b \in Int, NEW c \in Int
        PROVE  Min({a, b, c}) \in {a, b, c} /\ Min({a, b, c}) <= b
    BY MinMax
  <2>3. /\ n \in {NUMBER, size.max - m_aliveNum, Cardinality(Vacant)}
        /\ n <= size.max - m_aliveNum
    BY <2>1, <2>2
  <2>4. size.max - m_aliveNum \in Nat
    BY <1>0
  <2> HIDE DEF n
  <2> QED
    BY <1>0, <1>2, <2>3, <2>4
<1>4. NewThreads \subseteq {i \in Vacant : Cardinality({j \in Vacant : j < i}) < n}
  BY DEF NewThreads
<1>5. /\ IsFiniteSet(NewThreads) /\ Cardinality(NewThreads) <= n
      /\ Cardinality(NewThreads) \in Nat
  <2> HIDE DEF n
  <2> QED
    BY <1>1, <1>3, <1>4, FirstN, FS_CardinalityType
<1>6. NewThreads \subseteq 1..size.max /\ \A i \in NewThreads : worker[i] = "none"
  BY <1>1, <1>4 DEF Vacant
<1>7. \A j \in Places : worker'[j] = IF j \in NewThreads THEN "loop" ELSE worker[j]
  BY DEF Create
<1>8. Seated'
  <2>1. \A i \in NewThreads : i <= size.max
    BY <1>0, <1>6
  <2>2. SUFFICES ASSUME NEW i \in Places, worker'[i] # "none" PROVE i <= size.max
    BY <1>0 DEF Seated
  <2>3. CASE i \in NewThreads
    BY <2>1, <2>3
  <2>4. CASE i \notin NewThreads
    BY <1>7, <2>2, <2>4 DEF Seated
  <2> QED
    BY <2>3, <2>4
<1>9. Busy' = Busy
  BY <1>6, <1>7 DEF Busy
<1>10. Alive' = Alive \cup NewThreads /\ Alive \cap NewThreads = {}
  BY <1>0, <1>6, <1>7 DEF Alive
<1>11. Cardinality(Alive') = Cardinality(Alive) + Cardinality(NewThreads)
  <2>1. Cardinality(Alive \cap NewThreads) = 0
    BY <1>10, FS_EmptySet
  <2>2. Cardinality(Alive \cup NewThreads) =
          Cardinality(Alive) + Cardinality(NewThreads) - Cardinality(Alive \cap NewThreads)
    BY <1>0, <1>5, FS_Union
  <2> QED
    BY <1>0, <1>5, <1>10, <2>1, <2>2
<1>12. /\ m_aliveNum' = m_aliveNum + Cardinality(NewThreads)
       /\ UNCHANGED <<m_exitNum, size, m_taskQ, m_busyNum, m_shutdown, owner, started,
                      hand, raced>>
       /\ manager' = [manager EXCEPT !.at = "destroy"]
  BY DEF Create, Manages
<1>13. m_aliveNum' \in size.min..size.max
  <2> HIDE DEF n
  <2> QED
    BY <1>0, <1>3, <1>5, <1>12
<1>14. TypeOK'
  <2>1. worker' \in [Places -> {"none", "loop", "wait", "waiting", "late", "woken",
                                "take", "holds", "run", "undefined", "ended"}]
    BY <1>0 DEF TypeOK, Create
  <2>2. m_aliveNum' \in Nat
    BY <1>0, <1>13
  <2> QED
    BY <1>0, <1>12, <2>1, <2>2 DEF TypeOK
<1> QED
  BY <1>0, <1>8, <1>9, <1>11, <1>12, <1>13, <1>14 DEF CountsExact, Busy

LEMMA CountsManager ==
    ASSUME PoolAssumption, CountsExact, Seated, Manage
    PROVE  CountsExact' /\ Seated'
<1>0. /\ TypeOK /\ NUMBER \in Nat /\ size' = size
      /\ UNCHANGED <<m_taskQ, m_busyNum, m_shutdown, owner, started, hand, raced>>
  BY DEF CountsExact, PoolAssumption, Manage, ManagerLoop, ReadNumbers, Create, Destroy,
     ManagerNotifies
<1>1. CASE ManagerLoop \/ ReadNumbers \/ Destroy
  <2>1. /\ UNCHANGED <<m_aliveNum, worker>> /\ m_exitNum' \in 0..NUMBER
    BY <1>0, <1>1 DEF ManagerLoop, ReadNumbers, Destroy, TypeOK
  <2>2. manager' \in [at : {"loop", "read", "create", "destroy", "notify", "ended"},
                      queue : Nat, live : Nat, busy : Nat]
    <3>1. CASE ManagerLoop
      BY <1>0, <3>1 DEF ManagerLoop, Manages, TypeOK
    <3>2. CASE ReadNumbers
      <4>1. Len(m_taskQ) \in Nat /\ m_aliveNum \in Nat /\ m_busyNum \in Nat
        BY <1>0, LenProperties DEF TypeOK
      <4> QED
        BY <3>2, <4>1 DEF ReadNumbers
    <3>3. CASE Destroy
      BY <3>3 DEF Destroy, Without
    <3> QED
      BY <1>1, <3>1, <3>2, <3>3
  <2>3. TypeOK'
    BY <1>0, <2>1, <2>2 DEF TypeOK
  <2> QED
    BY <1>0, <2>1, <2>3 DEF CountsExact, Seated, Alive, Busy
<1>2. CASE ManagerNotifies
  <2>1. /\ notify_all /\ UNCHANGED <<m_aliveNum, m_exitNum>> /\ manager' = Without("loop")
    BY <1>2 DEF ManagerNotifies
  <2>2. TypeOK'
    BY <1>0, <2>1, Notified DEF TypeOK, Without
  <2> QED
    BY <1>0, <2>1, <2>2, Notified DEF CountsExact, Busy
<1> QED
  BY <1>1, <1>2, CreateCounts DEF Manage

LEMMA CountsOwner ==
    ASSUME PoolAssumption, CountsExact, Seated,
           addTask \/ Shutdown \/ Destruct \/ UNCHANGED vars
    PROVE  CountsExact' /\ Seated'
<1>0. /\ TypeOK /\ MaxTasks \in Nat
      /\ UNCHANGED <<size, m_busyNum, m_aliveNum, m_exitNum, manager, started, hand, raced>>
  BY DEF CountsExact, PoolAssumption, addTask, Shutdown, Destruct, JoinManager,
     OwnerNotifies, Join, vars
<1>1. worker' = worker \/ notify_all
  BY DEF addTask, Shutdown, Destruct, JoinManager, OwnerNotifies, Join, vars
<1>2. /\ Seated' /\ Busy' = Busy /\ Alive' = Alive
      /\ worker' \in [Places -> {"none", "loop", "wait", "waiting", "late", "woken",
                               "take", "holds", "run", "undefined", "ended"}]
  BY <1>0, <1>1, Notified DEF Seated, Busy, Alive, TypeOK
<1>3. m_shutdown' \in BOOLEAN /\ (m_shutdown => m_shutdown')
  <2>1. m_shutdown \in BOOLEAN
    BY <1>0 DEF TypeOK
  <2>2. m_shutdown' = m_shutdown \/ m_shutdown' = TRUE
    BY DEF addTask, Shutdown, Destruct, JoinManager, OwnerNotifies, Join, vars
  <2> QED
    BY <2>1, <2>2
<1>4. /\ m_taskQ' \in Seq(1..MaxTasks)
      /\ owner' \in [at : {"adding", "manager", "notify", "join", "done"},
                     added : 0..MaxTasks, calls : Nat]
  <2>1. CASE addTask
    <3>1. /\ owner.added + 1 \in 1..MaxTasks
          /\ m_taskQ' = Append(m_taskQ, owner.added + 1)
          /\ owner' = [owner EXCEPT !.added = @ + 1]
      BY <1>0, <2>1 DEF addTask, TypeOK
    <3>2. m_taskQ' \in Seq(1..MaxTasks)
      BY <1>0, <3>1, AppendProperties DEF TypeOK
    <3>3. owner \in [at : {"adding", "manager", "notify", "join", "done"},
                     added : 0..MaxTasks, calls : Nat]
      BY <1>0 DEF TypeOK
    <3>4. owner.added + 1 \in 0..MaxTasks
      BY <1>0, <3>1
    <3> QED
      BY <3>1, <3>2, <3>3, <3>4
  <2>2. CASE Shutdown \/ Destruct \/ UNCHANGED vars
    BY <1>0, <2>2 DEF Shutdown, Destruct, JoinManager, OwnerNotifies, Join, vars, TypeOK
  <2> QED
    BY <2>1, <2>2
<1>5. TypeOK'
  BY <1>0, <1>2, <1>3, <1>4 DEF TypeOK
<1> QED
  BY <1>0, <1>2, <1>3, <1>5 DEF CountsExact, Busy

LEMMA CountsInit ==
    ASSUME PoolAssumption, Init
    PROVE  CountsExact /\ Seated
<1>0. /\ size.min \in Nat \ {0} /\ size.max \in Nat /\ size.min <= size.max
      /\ 1..size.min \subseteq Places /\ Places \subseteq Nat /\ size \in Sizes
      /\ \A i \in Places : i >= 1
  BY SizeFacts DEF Init, Places
<1>1. \A i \in Places : worker[i] = IF i <= size.min THEN "loop" ELSE "none"
  BY DEF Init
<1>2. Alive = 1..size.min /\ Busy = {}
  <2>1. Alive = {i \in Places : i <= size.min}
    BY <1>1 DEF Alive
  <2>2. {i \in Places : i <= size.min} = 1..size.min
    <3> DEFINE mn == size.min
    <3>1. /\ mn \in Nat /\ 1..mn \subseteq Places /\ Places \subseteq Nat
          /\ \A i \in Places : i >= 1
      BY <1>0
    <3> HIDE DEF mn
    <3>2. \A i \in 1..mn : i \in Places /\ i <= mn
      BY <3>1
    <3>3. \A i \in Places : i <= mn => i \in 1..mn
      BY <3>1
    <3>4. {i \in Places : i <= mn} = 1..mn
      BY <3>2, <3>3
    <3> QED
      BY <3>4 DEF mn
  <2>3. Busy = {}
    BY <1>1 DEF Busy
  <2> QED
    BY <2>1, <2>2, <2>3
<1>3. Cardinality(Alive) = size.min /\ Cardinality(Busy) = 0
  <2>1. 1 \in Int /\ size.min \in Int /\ ~(1 > size.min) /\ size.min - 1 + 1 = size.min
    BY <1>0
  <2> QED
    BY <1>2, <2>1, FS_Interval, FS_EmptySet
<1>4. TypeOK
  <2>1. << >> \in Seq(1..MaxTasks)
    BY EmptySeq
  <2>2. worker \in [Places -> {"none", "loop", "wait", "waiting", "late", "woken", "take",
                               "holds", "run", "undefined", "ended"}]
    BY DEF Init
  <2>3. manager \in [at : {"loop", "read", "create", "destroy", "notify", "ended"},
                     queue : Nat, live : Nat, busy : Nat]
    BY DEF Init, Without
  <2>4. owner \in [at : {"adding", "manager", "notify", "join", "done"},
                   added : 0..MaxTasks, calls : Nat]
    BY DEF Init, PoolAssumption
  <2>5. /\ m_busyNum \in Nat /\ m_aliveNum \in Nat /\ m_exitNum \in 0..NUMBER
        /\ m_shutdown \in BOOLEAN
    <3>1. NUMBER \in Nat /\ 0 \in 0..NUMBER
      BY DEF PoolAssumption
    <3> QED
      BY <1>0, <3>1 DEF Init
  <2> QED
    BY <1>0, <2>1, <2>2, <2>3, <2>4, <2>5 DEF Init, TypeOK
<1> QED
  BY <1>0, <1>1, <1>3, <1>4 DEF CountsExact, Seated, Init, Busy

(* What a step does to the tasks: it takes the head of the queue, begins   *)
(* the task in a hand, adds one, or leaves all of them alone.              *)
NothingMoves ==
    /\ UNCHANGED <<size, m_taskQ, hand, started>>
    /\ owner'.added = owner.added /\ Holding' = Holding

LEMMA KindsOfStep ==
    ASSUME PoolAssumption, TypeOK, [Next]_vars
    PROVE  (\E i \in Places : Take(i) \/ Begin(i)) \/ addTask \/ NothingMoves
<1>1. ASSUME notify_all PROVE Holding' = Holding
  BY <1>1 DEF notify_all, Holding, Asleep
<1>2. ASSUME NEW i \in Places, Work(i) \/ WakesByItself(i), ~Take(i), ~Begin(i)
      PROVE  NothingMoves
  <2>1. PICK to \in {"ended", "wait", "take", "late", "waiting", "woken", "undefined", "loop"} :
           worker' = [worker EXCEPT ![i] = to] /\ worker[i] # "holds"
    BY <1>2 DEF Work, Loop, Wait, WakesByItself, Woken, TakeFromEmpty, Finish, Goes, Asleep,
       Next103
  <2>2. Holding' = Holding
    BY <2>1 DEF Holding, TypeOK
  <2> QED
    BY <1>2, <2>2 DEF NothingMoves, Work, Loop, Wait, WakesByItself, Woken, TakeFromEmpty, Finish
<1>3. ASSUME Manage PROVE NothingMoves
  <2>1. Holding' = Holding
    <3>1. CASE Create
      <4>1. \A j \in NewThreads : worker[j] = "none"
        BY DEF NewThreads, Vacant
      <4>2. \A j \in Places : \/ worker'[j] = worker[j]
                              \/ worker[j] = "none" /\ worker'[j] = "loop"
        BY <3>1, <4>1 DEF Create
      <4> QED
        BY <4>2 DEF Holding
    <3>2. CASE ManagerNotifies
      BY <1>1, <3>2 DEF ManagerNotifies
    <3>3. CASE ManagerLoop \/ ReadNumbers \/ Destroy
      BY <3>3 DEF ManagerLoop, ReadNumbers, Destroy, Holding
    <3> QED
      BY <1>3, <3>1, <3>2, <3>3 DEF Manage
  <2> QED
    BY <1>3, <2>1 DEF NothingMoves, Manage, ManagerLoop, ReadNumbers, Create, Destroy,
       ManagerNotifies
<1>4. ASSUME Shutdown \/ Destruct \/ UNCHANGED vars PROVE NothingMoves
  <2>1. Holding' = Holding
    <3>1. worker' = worker \/ notify_all
      BY <1>4 DEF Shutdown, Destruct, JoinManager, OwnerNotifies, Join, vars
    <3> QED
      BY <1>1, <3>1 DEF Holding
  <2> QED
    BY <1>4, <2>1 DEF NothingMoves, Shutdown, Destruct, JoinManager, OwnerNotifies, Join,
       TypeOK, vars
<1> QED
  BY <1>2, <1>3, <1>4 DEF Next

(* What is taken is the head of the queue, and what is added goes after    *)
(* everything that was.                                                    *)
LEMMA TakeFacts ==
    ASSUME PoolAssumption, TypeOK, QueueOrder, NEW i \in Places, Take(i)
    PROVE  /\ Len(m_taskQ) \in Nat \ {0} /\ Len(m_taskQ') = Len(m_taskQ) - 1
           /\ \A k \in 1..Len(m_taskQ') : m_taskQ'[k] = m_taskQ[k + 1]
           /\ Head(m_taskQ) = owner.added - Len(m_taskQ) + 1
           /\ owner.added \in Nat /\ owner' = owner /\ started' = started /\ size' = size
           /\ hand' = [hand EXCEPT ![i] = Head(m_taskQ)]
           /\ worker[i] = "take" /\ worker' = [worker EXCEPT ![i] = "holds"]
<1>1. /\ m_taskQ \in Seq(1..MaxTasks) /\ m_taskQ # << >> /\ m_taskQ' = Tail(m_taskQ)
      /\ owner.added \in Nat
  BY DEF Take, TypeOK, PoolAssumption
<1>2. /\ Len(m_taskQ) \in Nat \ {0} /\ Head(m_taskQ) = m_taskQ[1]
      /\ Len(m_taskQ') = Len(m_taskQ) - 1
      /\ \A k \in 1..Len(m_taskQ') : m_taskQ'[k] = m_taskQ[k + 1]
  BY <1>1, EmptySeq, LenProperties, HeadTailProperties
<1>3. Head(m_taskQ) = owner.added - Len(m_taskQ) + 1
  BY <1>2 DEF QueueOrder
<1> QED
  BY <1>1, <1>2, <1>3 DEF Take, Goes

LEMMA AddFacts ==
    ASSUME PoolAssumption, TypeOK, addTask
    PROVE  /\ Len(m_taskQ) \in Nat /\ Len(m_taskQ') = Len(m_taskQ) + 1
           /\ \A k \in 1..Len(m_taskQ) : m_taskQ'[k] = m_taskQ[k]
           /\ m_taskQ'[Len(m_taskQ) + 1] = owner.added + 1
           /\ owner.added \in Nat /\ owner'.added = owner.added + 1
           /\ UNCHANGED <<size, hand, started>> /\ Holding' = Holding
<1>1. /\ owner.added \in 0..MaxTasks /\ owner.added < MaxTasks /\ MaxTasks \in Nat
      /\ owner'.added = owner.added + 1
      /\ m_taskQ \in Seq(1..MaxTasks) /\ m_taskQ' = Append(m_taskQ, owner.added + 1)
  BY DEF addTask, TypeOK, PoolAssumption
<1>2. Len(m_taskQ) \in Nat /\ owner.added + 1 \in 1..MaxTasks
  BY <1>1, LenProperties
<1>3. /\ Len(m_taskQ') = Len(m_taskQ) + 1
      /\ \A k \in 1..Len(m_taskQ) : m_taskQ'[k] = m_taskQ[k]
      /\ m_taskQ'[Len(m_taskQ) + 1] = owner.added + 1
  BY <1>1, <1>2, AppendProperties
<1>4. Holding' = Holding
  BY DEF addTask, notify_all, Holding, Asleep
<1> QED
  BY <1>1, <1>2, <1>3, <1>4 DEF addTask

LEMMA AddedKeeps ==
    ASSUME PoolAssumption, TypeOK, addTask
    PROVE  owner'.added - Len(m_taskQ') = owner.added - Len(m_taskQ)
<1>1. PICK a \in Nat, n \in Nat : a = owner.added /\ n = Len(m_taskQ)
  BY AddFacts
<1>2. owner'.added = a + 1 /\ Len(m_taskQ') = n + 1
  BY <1>1, AddFacts
<1>3. (a + 1) - (n + 1) = a - n
  OBVIOUS
<1> QED
  BY <1>1, <1>2, <1>3

LEMMA QueueStep ==
    ASSUME PoolAssumption, TypeOK, QueueOrder, [Next]_vars
    PROVE  QueueOrder'
<1>1. CASE \E i \in Places : Take(i)
  <2>1. PICK i \in Places : Take(i)
    BY <1>1
  <2>2. ASSUME NEW k \in 1..Len(m_taskQ')
        PROVE  m_taskQ'[k] = owner'.added - Len(m_taskQ') + k
    <3>1. PICK a \in Nat, n \in Nat :
             /\ a = owner.added /\ n = Len(m_taskQ) /\ Len(m_taskQ') = n - 1
             /\ owner'.added = a /\ m_taskQ'[k] = m_taskQ[k + 1]
      BY <2>1, <2>2, TakeFacts
    <3>2. k + 1 \in 1..n /\ k \in Nat
      BY <2>2, <3>1
    <3>3. m_taskQ[k + 1] = a - n + (k + 1)
      BY <3>1, <3>2 DEF QueueOrder
    <3>4. a - n + (k + 1) = a - (n - 1) + k
      BY <3>2
    <3> QED
      BY <3>1, <3>3, <3>4
  <2>3. Len(m_taskQ') <= owner'.added
    BY <2>1, TakeFacts DEF QueueOrder
  <2> QED
    BY <2>2, <2>3 DEF QueueOrder
<1>2. CASE addTask
  <2>1. ASSUME NEW k \in 1..Len(m_taskQ')
        PROVE  m_taskQ'[k] = owner'.added - Len(m_taskQ') + k
    <3>1. CASE k \in 1..Len(m_taskQ)
      <4>1. m_taskQ'[k] = owner.added - Len(m_taskQ) + k /\ k \in Nat
        BY <1>2, <3>1, AddFacts DEF QueueOrder
      <4>2. owner'.added - Len(m_taskQ') = owner.added - Len(m_taskQ)
        BY <1>2, AddedKeeps
      <4> QED
        BY <4>1, <4>2
    <3>2. CASE k = Len(m_taskQ) + 1
      BY <1>2, <3>2, AddFacts
    <3> QED
      BY <1>2, <2>1, <3>1, <3>2, AddFacts
  <2>2. Len(m_taskQ') <= owner'.added
    BY <1>2, AddFacts DEF QueueOrder
  <2> QED
    BY <2>1, <2>2 DEF QueueOrder
<1>3. CASE NothingMoves \/ \E i \in Places : Begin(i)
  <2>1. m_taskQ' = m_taskQ /\ owner'.added = owner.added
    BY <1>3 DEF NothingMoves, Begin
  <2> QED
    BY <2>1 DEF QueueOrder
<1> QED
  BY <1>1, <1>2, <1>3, KindsOfStep

(* The head of the queue is the first task nobody was given.               *)
LEMMA GivenTake ==
    ASSUME PoolAssumption, TypeOK, QueueOrder, Given, NEW i \in Places, Take(i)
    PROVE  Given'
<1> DEFINE h == Head(m_taskQ)
           p == owner.added - Len(m_taskQ)
<1>1. /\ h = p + 1 /\ p \in Nat /\ owner'.added - Len(m_taskQ') = p + 1
  BY TakeFacts DEF QueueOrder
<1>2. Begun' = Begun /\ DOMAIN started' = DOMAIN started /\ started' = started
  BY TakeFacts DEF Begun
<1>3. Holding' = Holding \cup {i} /\ i \notin Holding
  <2>1. worker[i] = "take" /\ worker' = [worker EXCEPT ![i] = "holds"]
    BY TakeFacts
  <2>2. DOMAIN worker = Places
    BY DEF TypeOK
  <2>3. worker'[i] = "holds" /\ \A j \in Places \ {i} : worker'[j] = worker[j]
    BY <2>1, <2>2
  <2> QED
    BY <2>1, <2>3 DEF Holding
<1>4. /\ \A j \in Holding : hand'[j] = hand[j]
      /\ hand'[i] = h
  BY <1>3, TakeFacts DEF TypeOK, Holding
<1> HIDE DEF h, p
<1>5. InHand' = InHand \cup {h}
  BY <1>3, <1>4 DEF InHand
<1>6. Begun \cup InHand = 1..p
  BY DEF Given, p
<1>7. h \notin Begun /\ h \notin InHand
  <2>1. h \notin 1..p
    BY <1>1
  <2> QED
    BY <1>6, <2>1
<1>8. Begun' \cup InHand' = 1..(owner'.added - Len(m_taskQ'))
  <2>1. 1..(p + 1) = 1..p \cup {h}
    BY <1>1
  <2> QED
    BY <1>1, <1>2, <1>5, <1>6, <2>1
<1>9. \A j, k \in Holding' : hand'[j] = hand'[k] => j = k
  <2>1. \A j \in Holding : hand[j] \in InHand
    BY DEF InHand
  <2> QED
    BY <1>3, <1>4, <1>7, <2>1 DEF Given
<1> QED
  BY <1>2, <1>5, <1>7, <1>8, <1>9 DEF Given

LEMMA BeginFacts ==
    ASSUME PoolAssumption, TypeOK, QueueOrder, Given, NEW i \in Places, Begin(i)
    PROVE  /\ UNCHANGED <<size, m_taskQ, owner>>
           /\ i \in Holding /\ Holding' = Holding \ {i} /\ hand[i] \in InHand
           /\ \A j \in Holding' : hand'[j] = hand[j]
           /\ Len(started) \in Nat /\ DOMAIN started = 1..Len(started)
           /\ DOMAIN started' = 1..(Len(started) + 1)
           /\ \A n \in DOMAIN started : started'[n] = started[n]
           /\ started'[Len(started) + 1] = hand[i]
<1>1. /\ started \in Seq(1..MaxTasks) /\ hand[i] \in 0..MaxTasks
      /\ started' = Append(started, hand[i]) /\ hand' = [hand EXCEPT ![i] = 0]
      /\ worker[i] = "holds" /\ worker' = [worker EXCEPT ![i] = "run"]
      /\ UNCHANGED <<size, m_taskQ, owner>>
  BY DEF Begin, Goes, TypeOK
<1>2. i \in Holding /\ Holding' = Holding \ {i} /\ hand[i] \in InHand
  BY <1>1 DEF Holding, InHand, TypeOK
<1>3. \A j \in Holding' : hand'[j] = hand[j]
  BY <1>1, <1>2 DEF TypeOK, Holding
<1>4. started \in Seq(0..MaxTasks)
  <2>1. 1..MaxTasks \subseteq 0..MaxTasks
    BY DEF PoolAssumption
  <2> QED
    BY <1>1, <2>1
<1>5. /\ Len(started) \in Nat /\ DOMAIN started = 1..Len(started)
      /\ started' \in Seq(0..MaxTasks) /\ Len(started') = Len(started) + 1
      /\ \A n \in 1..Len(started) : started'[n] = started[n]
      /\ started'[Len(started) + 1] = hand[i]
  BY <1>1, <1>4, LenProperties, AppendProperties
<1>6. DOMAIN started' = 1..(Len(started) + 1)
  BY <1>5, LenProperties
<1> QED
  BY <1>1, <1>2, <1>3, <1>5, <1>6

LEMMA GivenBegin ==
    ASSUME PoolAssumption, TypeOK, QueueOrder, Given, NEW i \in Places, Begin(i)
    PROVE  Given'
<1> DEFINE h == hand[i]
           len == Len(started)
<1>1. /\ UNCHANGED <<size, m_taskQ, owner>>
      /\ i \in Holding /\ Holding' = Holding \ {i} /\ h \in InHand
      /\ \A j \in Holding' : hand'[j] = hand[j]
      /\ len \in Nat /\ DOMAIN started = 1..len /\ DOMAIN started' = 1..(len + 1)
      /\ \A n \in DOMAIN started : started'[n] = started[n]
      /\ started'[len + 1] = h
  BY BeginFacts
<1> HIDE DEF len
<1>2. InHand' = InHand \ {h}
  BY <1>1 DEF InHand, Given
<1> HIDE DEF h
<1>3. DOMAIN started' = DOMAIN started \cup {len + 1} /\ len + 1 \notin DOMAIN started
  BY <1>1
<1>4. Begun' = Begun \cup {h}
  BY <1>1, <1>3 DEF Begun
<1>5. h \notin Begun
  BY <1>1 DEF Given
<1>6. \A m, n \in DOMAIN started' : started'[m] = started'[n] => m = n
  <2>1. \A m \in DOMAIN started : started[m] \in Begun
    BY DEF Begun
  <2> QED
    BY <1>1, <1>3, <1>5, <2>1 DEF Given
<1>7. \A j, k \in Holding' : hand'[j] = hand'[k] => j = k
  BY <1>1 DEF Given
<1>8. Begun' \cup InHand' = Begun \cup InHand /\ Begun' \cap InHand' = {}
  BY <1>1, <1>2, <1>4 DEF Given
<1> QED
  BY <1>1, <1>6, <1>7, <1>8 DEF Given

LEMMA GivenStep ==
    ASSUME PoolAssumption, TypeOK, QueueOrder, Given, [Next]_vars
    PROVE  Given'
<1>1. CASE addTask
  <2>1. owner'.added - Len(m_taskQ') = owner.added - Len(m_taskQ)
    BY <1>1, AddedKeeps
  <2>2. UNCHANGED <<hand, started, Holding>>
    BY <1>1, AddFacts
  <2> QED
    BY <2>1, <2>2, SMTT(30) DEF Given, Begun, InHand
<1>2. CASE NothingMoves
  BY <1>2 DEF NothingMoves, Given, Begun, InHand
<1> QED
  BY <1>1, <1>2, KindsOfStep, GivenTake, GivenBegin

(* The only worker has the first task that was not begun, because it is    *)
(* the only one that has any.                                              *)
LEMMA AloneOrderStep ==
    ASSUME PoolAssumption, TypeOK, Seated, QueueOrder, Given, AloneInOrder, [Next]_vars
    PROVE  AloneInOrder'
<1>1. CASE \E i \in Places : Begin(i)
  <2>1. PICK i \in Places : Begin(i)
    BY <1>1
  <2> DEFINE h == hand[i]
             len == Len(started)
             p == owner.added - Len(m_taskQ)
  <2>2. /\ size' = size /\ i \in Holding
        /\ len \in Nat /\ DOMAIN started = 1..len /\ DOMAIN started' = 1..(len + 1)
        /\ \A n \in DOMAIN started : started'[n] = started[n]
        /\ started'[len + 1] = h
    BY <2>1, BeginFacts
  <2>3. SUFFICES ASSUME size.max = 1 PROVE \A n \in DOMAIN started' : started'[n] = n
    BY <2>2 DEF AloneInOrder
  <2>4. Holding = {i}
    <3>1. \A j \in Holding : j = 1
      BY <2>3 DEF Holding, Seated, Places, PoolAssumption
    <3> QED
      BY <2>2, <3>1
  <2>5. InHand = {h}
    BY <2>4 DEF InHand
  <2>6. Begun = 1..len
    <3>1. \A n \in 1..len : started[n] = n
      BY <2>2, <2>3 DEF AloneInOrder
    <3> HIDE DEF len
    <3> QED
      BY <2>2, <3>1 DEF Begun
  <2>7. p \in Nat /\ 1..len \cup {h} = 1..p /\ h \notin 1..len
    <3>1. p \in Nat
      BY LenProperties DEF QueueOrder, TypeOK, PoolAssumption
    <3> QED
      BY <2>5, <2>6, <3>1 DEF Given
  <2> HIDE DEF h, len, p
  <2>8. h = len + 1
    <3>1. h \in 1..p
      BY <2>7
    <3>2. h > len /\ len < p
      BY <2>2, <2>7, <3>1
    <3>3. len + 1 \in 1..p /\ len + 1 \notin 1..len
      BY <2>2, <2>7, <3>2
    <3> QED
      BY <2>7, <3>3
  <2>9. ASSUME NEW n \in 1..(len + 1) PROVE started'[n] = n
    <3>1. CASE n = len + 1
      BY <2>2, <2>8, <3>1
    <3>2. CASE n \in 1..len
      BY <2>2, <2>3, <3>2 DEF AloneInOrder
    <3> QED
      BY <2>2, <3>1, <3>2
  <2> QED
    BY <2>2, <2>9
<1>2. CASE ~\E i \in Places : Begin(i)
  <2>1. started' = started /\ size' = size
    BY <1>2, KindsOfStep, AddFacts DEF NothingMoves, Take
  <2> QED
    BY <2>1 DEF AloneInOrder
<1> QED
  BY <1>1, <1>2

(* A step that brings nobody to the queue and takes nothing out of it.     *)
LEMMA FrontCalm ==
    ASSUME FrontSeen, raced' = raced, size' = size, m_taskQ # << >> => m_taskQ' # << >>,
           \A i \in Places : worker'[i] \in {"take", "undefined"} => worker'[i] = worker[i]
    PROVE  FrontSeen'
BY DEF FrontSeen

LEMMA FrontMoves ==
    ASSUME PoolAssumption, TypeOK, Seated, FrontSeen, NEW i \in Places,
           NEW to \in {"ended", "wait", "take"},
           worker[i] \in {"loop", "woken"}, worker' = [worker EXCEPT ![i] = to],
           to = "take" => m_taskQ # << >>,
           raced' <=> raced \/ Meets(i), size' = size, m_taskQ' = m_taskQ
    PROVE  FrontSeen'
<1>1. \A j \in Places : worker'[j] = IF j = i THEN to ELSE worker[j]
  BY DEF TypeOK
<1>2. Meets(i) => size.max > 1
  <2> SUFFICES ASSUME Meets(i) PROVE size.max > 1
    OBVIOUS
  <2>1. PICK j \in Places \ {i} : worker[j] = "take"
    BY DEF Meets, Others
  <2>2. i <= size.max /\ j <= size.max
    BY <2>1 DEF Seated
  <2>3. i \in Nat \ {0} /\ j \in Nat \ {0} /\ size.max \in Nat /\ i # j
    <3>1. size.max \in Nat
      BY SizeFacts DEF TypeOK
    <3>2. \A k \in Places : k \in Nat \ {0}
      <4>1. \A s \in Sizes : \A k \in 1..s.max : k \in Nat \ {0}
        BY DEF PoolAssumption
      <4> QED
        BY <4>1 DEF Places
    <3> QED
      BY <2>1, <3>1, <3>2
  <2> QED
    BY <2>2, <2>3
<1>3. raced' => size'.max > 1
  BY <1>2 DEF FrontSeen
<1>4. CASE ~raced'
  <2>1. ~raced /\ ~Meets(i)
    BY <1>4
  <2>2. to = "take" => \A j \in Places \ {i} : worker[j] # "take"
    BY <1>1, <2>1 DEF Meets, Others
  <2>3. ASSUME NEW j \in Places
        PROVE  /\ worker'[j] = "take" => m_taskQ' # << >>
               /\ worker'[j] # "undefined"
    BY <1>1, <2>1 DEF FrontSeen
  <2>4. ASSUME NEW j \in Places, NEW k \in Places, worker'[j] = "take", worker'[k] = "take"
        PROVE  j = k
    BY <1>1, <2>1, <2>2, <2>4 DEF FrontSeen
  <2> QED
    BY <1>3, <2>3, <2>4 DEF FrontSeen
<1> QED
  BY <1>3, <1>4 DEF FrontSeen

LEMMA FrontTaken ==
    ASSUME PoolAssumption, TypeOK, FrontSeen, NEW i \in Places, Take(i)
    PROVE  FrontSeen'
<1>1. /\ worker[i] = "take" /\ size' = size /\ raced' = (raced /\ Others(i)) /\ Unlocked
      /\ \A j \in Places : worker'[j] = IF j = i THEN "holds" ELSE worker[j]
  BY DEF Take, Goes, TypeOK
<1>2. raced' => size'.max > 1
  BY <1>1 DEF FrontSeen
<1>3. \A j \in Places : worker'[j] # "undefined"
  BY <1>1 DEF Unlocked
<1>4. ASSUME ~raced', NEW j \in Places PROVE worker'[j] # "take"
  <2>1. CASE ~Others(i)
    BY <1>1, <2>1 DEF Others
  <2>2. CASE ~raced
    BY <1>1, <2>2 DEF FrontSeen
  <2> QED
    BY <1>1, <1>4, <2>1, <2>2
<1> QED
  BY <1>2, <1>3, <1>4 DEF FrontSeen

LEMMA FrontStep ==
    ASSUME PoolAssumption, TypeOK, Seated, FrontSeen, [Next]_vars
    PROVE  FrontSeen'
<1>1. ASSUME notify_all, NEW i \in Places
      PROVE  worker'[i] \in {worker[i], "woken"}
  BY <1>1 DEF notify_all
<1>2. ASSUME NEW i \in Places, Work(i) \/ WakesByItself(i) PROVE FrontSeen'
  <2>1. CASE Loop(i) \/ Woken(i)
    <3>1. PICK to \in {"ended", "wait", "take"} :
             worker' = [worker EXCEPT ![i] = to] /\ (to = "take" => m_taskQ # << >>)
      BY <2>1 DEF Loop, Woken, Goes, Next103
    <3>2. worker[i] \in {"loop", "woken"} /\ size' = size /\ m_taskQ' = m_taskQ
      BY <2>1 DEF Loop, Woken, Goes
    <3>3. raced' <=> raced \/ Meets(i)
      BY <2>1 DEF Loop, Woken
    <3> HIDE DEF counts, tasks, ByWorker, ByManager, ByOwner
    <3> QED
      BY <3>1, <3>2, <3>3, FrontMoves
  <2>2. CASE Wait(i) \/ Begin(i) \/ Finish(i) \/ WakesByItself(i)
    <3>1. PICK to \in {"late", "waiting", "woken", "run", "loop"} :
             worker' = [worker EXCEPT ![i] = to]
      BY <2>2 DEF Wait, Begin, Finish, WakesByItself, Goes
    <3>2. \A j \in Places : worker'[j] \in {"take", "undefined"} => worker'[j] = worker[j]
      BY <3>1 DEF TypeOK
    <3> QED
      BY <2>2, <3>2, FrontCalm DEF Wait, Begin, Finish, WakesByItself
  <2>3. CASE TakeFromEmpty(i)
    BY <2>3 DEF TakeFromEmpty, Goes, FrontSeen
  <2> QED
    BY <1>2, <2>1, <2>2, <2>3, FrontTaken DEF Work
<1>3. CASE Manage
  <2>1. \A j \in Places : worker'[j] \in {"take", "undefined"} => worker'[j] = worker[j]
    BY <1>1, <1>3 DEF Manage, ManagerLoop, ReadNumbers, Create, Destroy, ManagerNotifies
  <2>2. UNCHANGED <<m_taskQ, raced, size>>
    BY <1>3 DEF Manage, ManagerLoop, ReadNumbers, Create, Destroy, ManagerNotifies
  <2> QED
    BY <2>1, <2>2, FrontCalm
<1>4. CASE addTask
  <2>1. m_taskQ' # << >>
    <3>1. /\ m_taskQ \in Seq(1..MaxTasks) /\ owner.added + 1 \in 1..MaxTasks
          /\ m_taskQ' = Append(m_taskQ, owner.added + 1)
      BY <1>4 DEF addTask, TypeOK, PoolAssumption
    <3> QED
      BY <3>1, AppendProperties
  <2>2. \A j \in Places : worker'[j] \in {"take", "undefined"} => worker'[j] = worker[j]
    BY <1>1, <1>4 DEF addTask
  <2> QED
    BY <1>4, <2>1, <2>2, FrontCalm DEF addTask
<1>5. CASE Shutdown \/ Destruct \/ UNCHANGED vars
  <2>1. \A j \in Places : worker'[j] \in {"take", "undefined"} => worker'[j] = worker[j]
    BY <1>1, <1>5 DEF Shutdown, Destruct, JoinManager, OwnerNotifies, Join, vars
  <2>2. UNCHANGED <<m_taskQ, raced, size>>
    BY <1>5 DEF Shutdown, Destruct, JoinManager, OwnerNotifies, Join, vars
  <2> QED
    BY <2>1, <2>2, FrontCalm
<1> QED
  BY <1>2, <1>3, <1>4, <1>5 DEF Next

-----------------------------------------------------------------------------
LEMMA InvInit ==
    ASSUME PoolAssumption, Init
    PROVE  Inv
<1>1. CountsExact /\ Seated
  BY CountsInit
<1>2. Len(m_taskQ) = 0 /\ Len(started) = 0 /\ owner.added = 0 /\ started = << >>
  BY EmptySeq DEF Init
<1>3. QueueOrder /\ AloneInOrder
  BY <1>2 DEF QueueOrder, AloneInOrder
<1>4. Given
  <2>1. Begun = {} /\ Holding = {}
    BY <1>2 DEF Begun, Holding, Init
  <2>2. InHand = {} /\ 1..(owner.added - Len(m_taskQ)) = {}
    BY <1>2, <2>1 DEF InHand
  <2> QED
    BY <1>2, <2>1, <2>2 DEF Given
<1>5. FrontSeen
  BY DEF Init, FrontSeen
<1> QED
  BY <1>1, <1>3, <1>4, <1>5 DEF Inv

LEMMA InvStep ==
    ASSUME PoolAssumption, Inv, [Next]_vars
    PROVE  Inv'
<1>1. TypeOK /\ Seated /\ QueueOrder /\ Given /\ AloneInOrder /\ FrontSeen
  BY DEF Inv, CountsExact
<1>2. CountsExact' /\ Seated'
  BY CountsWorker, CountsManager, CountsOwner DEF Inv, Next
<1>3. QueueOrder' /\ Given' /\ AloneInOrder' /\ FrontSeen'
  BY <1>1, QueueStep, GivenStep, AloneOrderStep, FrontStep
<1> QED
  BY <1>2, <1>3 DEF Inv

LEMMA InvAlways == Spec => []Inv
<1> USE PoolAssumption
<1>1. Init => Inv
  BY InvInit
<1>2. Inv /\ [Next]_vars => Inv'
  BY InvStep
<1> QED
  BY <1>1, <1>2, PTL DEF Spec

(* m_busyNum, and m_aliveNum until the pool is shut down, are right        *)
(* whenever anybody can look, though the manager acts on numbers it read   *)
(* earlier (worker, manager, lines 90-200).                                *)
THEOREM NumbersAreRight == Spec => []CountsExact
<1>1. Inv => CountsExact
  BY DEF Inv
<1> QED
  BY <1>1, InvAlways, PTL

(* Whatever the number of workers, the manager and its decisions do, no    *)
(* task is begun twice or lost between queue and worker, and one can only  *)
(* be overtaken in the hand of a worker that has not come to its function. *)
THEOREM EachBegunOnce == Spec => []BegunOnce
<1>1. Inv => BegunOnce
  <2> SUFFICES ASSUME Inv PROVE BegunOnce
    OBVIOUS
  <2>1. m_taskQ \in Seq(1..MaxTasks)
    BY DEF Inv, CountsExact, TypeOK
  <2>2. m_taskQ = [k \in 1..Len(m_taskQ) |-> m_taskQ[k]]
    BY <2>1
  <2>3. \A k \in 1..Len(m_taskQ) : m_taskQ[k] = owner.added - Len(m_taskQ) + k
    BY DEF Inv, QueueOrder
  <2>4. m_taskQ = [k \in 1..Len(m_taskQ) |-> owner.added - Len(m_taskQ) + k]
    BY <2>2, <2>3
  <2> QED
    BY <2>4 DEF BegunOnce, Inv, Given, AloneInOrder
<1> QED
  BY <1>1, InvAlways, PTL

(* For any sizes: front() of an empty queue takes two workers that were    *)
(* between its test and its use at once (line 132), so a pool of one       *)
(* worker never gets there.                                                *)
THEOREM CrashTakesTwo == Spec => []NoEmptyFront
<1>1. Inv => NoEmptyFront
  BY DEF Inv, FrontSeen, NoEmptyFront, Crashed
<1> QED
  BY <1>1, InvAlways, PTL
=============================================================================
