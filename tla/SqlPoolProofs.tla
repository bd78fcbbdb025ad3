--------------------------- MODULE SqlPoolProofs ---------------------------
(* Proofs about SqlPool, for any number of threads and of connections.     *)
EXTENDS SqlPool, TLAPS, FiniteSetTheorems, SequenceTheorems

(* A thread past front() has copied the head that its pop_front() takes.   *)
HeadTaken ==
    \A t \in Threads : pc[t] = "pop" => connList # << >> /\ con[t] = Head(connList)

(* What the steps keep true together.                                      *)
Inv == TypeOK /\ MutexHeld /\ HeadTaken

-----------------------------------------------------------------------------
(* Entering a set of threads adds one to its cardinality, leaving it takes *)
(* one away.                                                               *)
LEMMA SubsetCounts ==
    ASSUME PoolAssumption, NEW S \in SUBSET Threads
    PROVE  /\ IsFiniteSet(S) /\ Cardinality(S) \in Nat
           /\ \A t \in Threads :
                /\ t \notin S => Cardinality(S \cup {t}) = Cardinality(S) + 1
                /\ t \in S => Cardinality(S \ {t}) = Cardinality(S) - 1
<1>1. IsFiniteSet(S)
  BY FS_Subset DEF PoolAssumption
<1> QED
  BY <1>1, FS_CardinalityType, FS_AddElement, FS_RemoveElement

LEMMA TypeStep ==
    ASSUME PoolAssumption, Inv, [Next]_vars
    PROVE  TypeOK'
<1> USE PoolAssumption DEF PoolAssumption, PCs
<1>0. TypeOK
  BY DEF Inv
<1>1. CASE UNCHANGED vars
  BY <1>0, <1>1 DEF TypeOK, vars, counters
<1>2. ASSUME NEW t \in Threads, Get(t) \/ GiveBack(t) \/ ReserveInterrupted(t)
      PROVE  TypeOK'
  <2>1. CASE SizeIsZero(t)
    BY <1>0, <2>1 DEF TypeOK, SizeIsZero, At, counters
  <2>2. CASE SizeNotZero(t)
    BY <1>0, <2>2 DEF TypeOK, SizeNotZero, At, counters
  <2>3. CASE Reserve(t)
    BY <1>0, <2>3 DEF TypeOK, Reserve, At, counters
  <2>4. CASE ReserveInterrupted(t)
    BY <1>0, <2>4 DEF TypeOK, ReserveInterrupted, At, counters
  <2>5. CASE Lock(t)
    BY <1>0, <2>5 DEF TypeOK, Lock, At, Acquire, counters
  <2>6. CASE Front(t)
    <3>1. Head(connList) \in Handles
      BY <1>0, <2>6, HeadTailProperties DEF TypeOK, Front
    <3> QED
      BY <1>0, <2>6, <3>1 DEF TypeOK, Front, At, counters
  <2>7. CASE FrontOfEmpty(t)
    BY <1>0, <2>7 DEF TypeOK, FrontOfEmpty, At, counters
  <2>8. CASE Pop(t)
    <3>1. connList' \in Seq(Handles)
      BY <1>0, <2>8, HeadTailProperties DEF TypeOK, Pop, At, Inv, HeadTaken
    <3> QED
      BY <1>0, <2>8, <3>1 DEF TypeOK, Pop, At, counters
  <2>9. CASE Count(t)
    BY <1>0, <2>9 DEF TypeOK, Count, At
  <2>10. CASE Unlock(t)
    BY <1>0, <2>10 DEF TypeOK, Unlock, At, Release, counters
  <2>11. CASE ReleaseNull(t)
    BY <1>0, <2>11 DEF TypeOK, ReleaseNull, At, counters
  <2>12. CASE ReleaseLock(t)
    BY <1>0, <2>12 DEF TypeOK, ReleaseLock, At, Acquire, counters
  <2>13. CASE Push(t)
    <3>1. connList' \in Seq(Handles)
      BY <1>0, <2>13, AppendProperties DEF TypeOK, Push, At
    <3> QED
      BY <1>0, <2>13, <3>1 DEF TypeOK, Push, At, counters
  <2>14. CASE Uncount(t)
    BY <1>0, <2>14 DEF TypeOK, Uncount, At
  <2>15. CASE ReleaseUnlock(t)
    BY <1>0, <2>15 DEF TypeOK, ReleaseUnlock, At, Release, counters
  <2>16. CASE Post(t)
    BY <1>0, <2>16 DEF TypeOK, Post, At, counters
  <2> QED
    BY <1>2, <2>1, <2>2, <2>3, <2>4, <2>5, <2>6, <2>7, <2>8, <2>9, <2>10,
       <2>11, <2>12, <2>13, <2>14, <2>15, <2>16 DEF Get, GiveBack
<1> QED
  BY <1>1, <1>2 DEF Next

LEMMA MutexStep ==
    ASSUME PoolAssumption, Inv, [Next]_vars
    PROVE  MutexHeld'
<1> USE PoolAssumption DEF PoolAssumption, MutexHeld, Inside, At
<1>0. TypeOK /\ MutexHeld
  BY DEF Inv
<1>1. CASE UNCHANGED vars
  BY <1>0, <1>1 DEF vars
<1>2. ASSUME NEW t \in Threads, Get(t) \/ GiveBack(t) \/ ReserveInterrupted(t)
      PROVE  MutexHeld'
  <2>1. CASE Lock(t) \/ ReleaseLock(t)
    BY <1>0, <2>1 DEF TypeOK, Lock, ReleaseLock, Acquire
  <2>2. CASE Unlock(t) \/ ReleaseUnlock(t)
    BY <1>0, <2>2 DEF TypeOK, Unlock, ReleaseUnlock, Release
  <2>3. CASE \/ SizeIsZero(t) \/ SizeNotZero(t) \/ Reserve(t)
             \/ ReserveInterrupted(t) \/ ReleaseNull(t) \/ Post(t)
    BY <1>0, <2>3 DEF TypeOK, SizeIsZero, SizeNotZero, Reserve,
       ReserveInterrupted, ReleaseNull, Post
  <2>4. CASE \/ Front(t) \/ FrontOfEmpty(t) \/ Pop(t) \/ Count(t) \/ Push(t)
             \/ Uncount(t)
    BY <1>0, <2>4 DEF TypeOK, Front, FrontOfEmpty, Pop, Count, Push, Uncount
  <2> QED
    BY <1>2, <2>1, <2>2, <2>3, <2>4 DEF Get, GiveBack
<1> QED
  BY <1>1, <1>2 DEF Next

LEMMA HeadStep ==
    ASSUME PoolAssumption, Inv, [Next]_vars
    PROVE  HeadTaken'
<1> USE PoolAssumption DEF PoolAssumption, HeadTaken, At
<1>0. TypeOK /\ MutexHeld /\ HeadTaken
  BY DEF Inv
<1>1. CASE UNCHANGED vars
  BY <1>0, <1>1 DEF vars
<1>2. ASSUME NEW t \in Threads, Get(t) \/ GiveBack(t) \/ ReserveInterrupted(t)
      PROVE  HeadTaken'
  <2>1. CASE Front(t)
    BY <1>0, <2>1 DEF TypeOK, Front
  <2>2. CASE Pop(t) \/ Push(t)
    <3>1. \A u \in Threads : u # t => pc[u] # "pop"
      BY <1>0, <2>2 DEF MutexHeld, Inside, Pop, Push
    <3> QED
      BY <1>0, <2>2, <3>1 DEF TypeOK, Pop, Push
  <2>3. CASE ~(Front(t) \/ Pop(t) \/ Push(t))
    <3>1. /\ UNCHANGED <<connList, con>>
          /\ \A u \in Threads : pc'[u] = "pop" => pc[u] = "pop"
      BY <1>0, <1>2, <2>3 DEF TypeOK, Get, GiveBack, SizeIsZero, SizeNotZero,
         Reserve, ReserveInterrupted, Lock, FrontOfEmpty, Count, Unlock,
         ReleaseNull, ReleaseLock, Uncount, ReleaseUnlock, Post
    <3> QED
      BY <1>0, <3>1
  <2> QED
    BY <2>1, <2>2, <2>3
<1> QED
  BY <1>1, <1>2 DEF Next

LEMMA InvStep ==
    ASSUME PoolAssumption, Inv, [Next]_vars
    PROVE  Inv'
BY TypeStep, MutexStep, HeadStep DEF Inv

LEMMA InvInit ==
    ASSUME PoolAssumption, Init
    PROVE  Inv
<1>1. PICK n \in 1..Cardinality(Handles) : connList \in [1..n -> Handles]
  BY DEF Init
<1>2. Cardinality(Handles) \in Nat
  BY FS_CardinalityType DEF PoolAssumption
<1>3. connList \in Seq(Handles)
  BY <1>1, <1>2, SeqDef
<1>4. Len(connList) \in Nat
  BY <1>3, LenProperties
<1> QED
  BY <1>3, <1>4 DEF PoolAssumption, Init, Inv, TypeOK, MutexHeld, HeadTaken,
     Inside, PCs

LEMMA InvAlways == Spec => []Inv
<1>1. Init => Inv
  BY PoolAssumption, InvInit
<1>2. Inv /\ [Next]_vars => Inv'
  BY PoolAssumption, InvStep
<1> QED
  BY <1>1, <1>2, PTL DEF Spec

(* Every variable keeps to the values the code can give it.                *)
THEOREM TypeCorrect == Spec => []TypeOK
<1>1. Spec => []Inv
  BY InvAlways
<1>2. Inv => TypeOK
  BY DEF Inv
<1> QED
  BY <1>1, <1>2, PTL

(* No two threads are in the critical sections of the pool at once.        *)
THEOREM MutualExclusion == Spec => []MutexHeld
<1>1. Spec => []Inv
  BY InvAlways
<1>2. Inv => MutexHeld
  BY DEF Inv
<1> QED
  BY <1>1, <1>2, PTL

-----------------------------------------------------------------------------
(* Only pop_front() and push_back() change who has what.                   *)
LEMMA HoldersChange ==
    ASSUME PoolAssumption, Inv, [Next]_vars,
           \A t \in Threads : ~Pop(t) /\ ~Push(t)
    PROVE  /\ UNCHANGED <<m_MaxConn, connList>>
           /\ Holders' = Holders
           /\ \A t \in Holders : con'[t] = con[t]
<1> USE PoolAssumption DEF PoolAssumption, At
<1>0. TypeOK
  BY DEF Inv
<1>1. CASE UNCHANGED vars
  BY <1>1 DEF vars, Holders
<1>2. ASSUME NEW t \in Threads, Get(t) \/ GiveBack(t) \/ ReserveInterrupted(t)
      PROVE  /\ UNCHANGED <<m_MaxConn, connList>>
             /\ Holders' = Holders
             /\ \A u \in Holders : con'[u] = con[u]
  <2>1. CASE Front(t)
    <3>1. t \notin Holders /\ pc'[t] = "pop"
      BY <1>0, <2>1 DEF TypeOK, Front, Holders
    <3>2. \A u \in Threads \ {t} : con'[u] = con[u] /\ pc'[u] = pc[u]
      BY <1>0, <2>1 DEF TypeOK, Front
    <3> QED
      BY <2>1, <3>1, <3>2 DEF Front, Holders
  <2>2. CASE ~Front(t)
    <3>1. UNCHANGED <<m_MaxConn, connList, con>>
      BY <1>2, <2>2 DEF Get, GiveBack, SizeIsZero, SizeNotZero, Reserve,
         ReserveInterrupted, Lock, FrontOfEmpty, Count, Unlock, ReleaseNull,
         ReleaseLock, Uncount, ReleaseUnlock, Post
    <3>2. \A u \in Threads : pc'[u] = "pop" <=> pc[u] = "pop"
      BY <1>0, <1>2, <2>2 DEF TypeOK, Get, GiveBack, SizeIsZero, SizeNotZero,
         Reserve, ReserveInterrupted, Lock, FrontOfEmpty, Count, Unlock,
         ReleaseNull, ReleaseLock, Uncount, ReleaseUnlock, Post
    <3> QED
      BY <3>1, <3>2 DEF Holders
  <2> QED
    BY <2>1, <2>2
<1> QED
  BY <1>1, <1>2 DEF Next

LEMMA OneHolderStep ==
    ASSUME PoolAssumption, Inv, OneHolder, [Next]_vars
    PROVE  OneHolder'
<1> USE PoolAssumption
<1>0. TypeOK /\ Inv' /\ connList \in Seq(Handles) /\ Len(connList) \in Nat
      /\ Holders \in SUBSET Threads
  BY InvStep, LenProperties DEF Inv, TypeOK, Holders
<1>1. Cardinality(Holders) \in Nat
  BY <1>0, SubsetCounts
<1>2. ASSUME NEW t \in Threads, Pop(t) PROVE OneHolder'
  <2>1. /\ connList # << >> /\ con[t] = Head(connList) /\ con[t] = connList[1]
        /\ t \notin Holders
    BY <1>0, <1>2 DEF Pop, At, Inv, HeadTaken, Holders
  <2>2. /\ Len(connList') = Len(connList) - 1
        /\ \A i \in 1..Len(connList') : connList'[i] = connList[i + 1]
    BY <1>0, <1>2, <2>1, HeadTailProperties DEF Pop
  <2>3. con' = con /\ m_MaxConn' = m_MaxConn /\ Holders' = Holders \cup {t}
    BY <1>0, <1>2 DEF Pop, At, Holders, TypeOK
  <2>4. Cardinality(Holders') = Cardinality(Holders) + 1
    BY <1>0, <2>1, <2>3, SubsetCounts
  <2>5. Distinct(connList')
    BY <1>0, <2>2 DEF OneHolder, Distinct
  <2>6. 1 \in 1..Len(connList)
    BY <1>0, <2>1, EmptySeq
  <2>7. ASSUME NEW u \in Holders'
        PROVE  /\ \A v \in Holders' : con'[v] = con'[u] => v = u
               /\ \A i \in 1..Len(connList') : connList'[i] # con'[u]
    <3>1. CASE u = t
      <4>1. \A v \in Holders : con[v] # con[t]
        BY <2>1, <2>6 DEF OneHolder
      <4>2. \A i \in 1..Len(connList') : connList[i + 1] # con[t]
        BY <1>0, <2>1, <2>2, <2>6 DEF OneHolder, Distinct
      <4> QED
        BY <2>2, <2>3, <3>1, <4>1, <4>2
    <3>2. CASE u # t
      <4>1. con[t] # con[u]
        BY <2>1, <2>3, <2>6, <3>2 DEF OneHolder
      <4> QED
        BY <1>0, <2>2, <2>3, <3>2, <4>1 DEF OneHolder
    <3> QED
      BY <3>1, <3>2
  <2> QED
    BY <1>0, <1>1, <2>2, <2>3, <2>4, <2>5, <2>7
    DEF OneHolder, Inv, HeadTaken
<1>3. ASSUME NEW t \in Threads, Push(t) PROVE OneHolder'
  <2>1. t \in Holders /\ con[t] \in Handles /\ con[t] # NULL
    BY <1>0, <1>3 DEF Push, At, Holders, TypeOK
  <2>2. /\ Len(connList') = Len(connList) + 1
        /\ \A i \in 1..Len(connList) : connList'[i] = connList[i]
        /\ connList'[Len(connList) + 1] = con[t]
    BY <1>0, <1>3, <2>1, AppendProperties DEF Push
  <2>3. /\ m_MaxConn' = m_MaxConn /\ Holders' = Holders \ {t}
        /\ \A u \in Holders' : con'[u] = con[u]
    BY <1>0, <1>3 DEF Push, At, Holders, TypeOK
  <2>4. Cardinality(Holders') = Cardinality(Holders) - 1
    BY <1>0, <2>1, <2>3, SubsetCounts
  <2>5. Distinct(connList')
    <3> SUFFICES ASSUME NEW i \in 1..Len(connList'), NEW j \in 1..Len(connList'),
                        connList'[i] = connList'[j]
                 PROVE  i = j
      BY DEF Distinct
    <3>1. \A k \in 1..Len(connList) : connList[k] # con[t]
      BY <2>1 DEF OneHolder
    <3> QED
      BY <1>0, <2>2, <3>1 DEF OneHolder, Distinct
  <2>6. ASSUME NEW u \in Holders'
        PROVE  /\ \A v \in Holders' : con'[v] = con'[u] => v = u
               /\ \A i \in 1..Len(connList') : connList'[i] # con'[u]
    <3>1. u \in Holders /\ con[u] # con[t]
      BY <2>1, <2>3 DEF OneHolder
    <3> QED
      BY <1>0, <2>2, <2>3, <3>1 DEF OneHolder
  <2> QED
    BY <1>0, <1>1, <2>2, <2>3, <2>4, <2>5, <2>6 DEF OneHolder, Inv, HeadTaken
<1>4. CASE \A t \in Threads : ~Pop(t) /\ ~Push(t)
  BY <1>0, <1>4, HoldersChange DEF OneHolder, Distinct, Inv, HeadTaken
<1> QED
  BY <1>2, <1>3, <1>4

(* No handle is lost and none is used by two threads.                      *)
THEOREM NoHandleShared == Spec => []OneHolder
<1>1. Init => OneHolder
  <2> SUFFICES ASSUME Init PROVE OneHolder
    OBVIOUS
  <2>1. Holders = {} /\ Inv
    BY PoolAssumption, InvInit DEF Init, Holders
  <2>2. Len(connList) \in Nat
    BY <2>1, LenProperties DEF Inv, TypeOK
  <2> QED
    BY <2>1, <2>2, FS_EmptySet DEF Init, OneHolder, Inv, HeadTaken
<1>2. Inv /\ OneHolder /\ [Next]_vars => OneHolder'
  BY PoolAssumption, OneHolderStep
<1>3. Spec => []Inv
  BY InvAlways
<1> QED
  BY <1>1, <1>2, <1>3, PTL DEF Spec

-----------------------------------------------------------------------------
(* What each unit of the semaphore is backed by.                           *)
LEMMA BackedStep ==
    ASSUME PoolAssumption, Inv, ReserveBacked, [Next]_vars
    PROVE  ReserveBacked'
<1> USE PoolAssumption
<1>0. /\ TypeOK /\ TypeOK' /\ connList \in Seq(Handles) /\ reserve \in Nat
      /\ Len(connList) \in Nat /\ Len(connList') \in Nat
      /\ Granted \in SUBSET Threads /\ Unposted \in SUBSET Threads
      /\ Granted' \in SUBSET Threads /\ Unposted' \in SUBSET Threads
      /\ signals \in Nat /\ signals' \in Nat
  BY InvStep, LenProperties
  DEF Inv, TypeOK, Granted, Unposted, PoolAssumption
<1>1. /\ Cardinality(Granted) \in Nat /\ Cardinality(Unposted) \in Nat
      /\ Cardinality(Granted') \in Nat /\ Cardinality(Unposted') \in Nat
  BY <1>0, SubsetCounts
<1>2. CASE UNCHANGED <<connList, reserve, signals, Granted, Unposted>>
  BY <1>2 DEF ReserveBacked
<1>3. CASE UNCHANGED vars
  BY <1>2, <1>3 DEF vars, Granted, Unposted
<1>4. ASSUME NEW t \in Threads, Get(t) \/ GiveBack(t) \/ ReserveInterrupted(t)
      PROVE  ReserveBacked'
  <2>1. CASE Reserve(t) \/ ReserveInterrupted(t)
    <3>1. /\ t \notin Granted /\ Granted' = Granted \cup {t}
          /\ Unposted' = Unposted /\ connList' = connList
      BY <1>0, <2>1 DEF Reserve, ReserveInterrupted, At, Granted, Unposted, TypeOK
    <3>2. Cardinality(Granted') = Cardinality(Granted) + 1
      BY <1>0, <3>1, SubsetCounts
    <3>3. \/ reserve' = reserve - 1 /\ signals' = signals
          \/ reserve' = reserve /\ signals' = signals + 1
      BY <1>0, <2>1 DEF Reserve, ReserveInterrupted
    <3>4. /\ Cardinality(Unposted') = Cardinality(Unposted)
          /\ Len(connList') = Len(connList)
      BY <3>1
    <3> QED
      BY <1>0, <1>1, <3>2, <3>3, <3>4 DEF ReserveBacked
  <2>2. CASE FrontOfEmpty(t)
    <3>1. /\ t \in Granted /\ Granted' = Granted \ {t} /\ Unposted' = Unposted
          /\ UNCHANGED <<connList, reserve, signals>>
      BY <1>0, <2>2 DEF FrontOfEmpty, At, Granted, Unposted, TypeOK
    <3>2. Cardinality(Granted') = Cardinality(Granted) - 1
      BY <1>0, <3>1, SubsetCounts
    <3> QED
      BY <1>0, <1>1, <3>1, <3>2 DEF ReserveBacked
  <2>3. CASE Pop(t)
    <3>1. connList # << >>
      BY <2>3 DEF Inv, HeadTaken, Pop, At
    <3>2. Len(connList') = Len(connList) - 1
      BY <1>0, <2>3, <3>1, HeadTailProperties DEF Pop
    <3>3. /\ t \in Granted /\ Granted' = Granted \ {t} /\ Unposted' = Unposted
          /\ UNCHANGED <<reserve, signals>>
      BY <1>0, <2>3 DEF Pop, At, Granted, Unposted, TypeOK
    <3>4. Cardinality(Granted') = Cardinality(Granted) - 1
      BY <1>0, <3>3, SubsetCounts
    <3> QED
      BY <1>0, <1>1, <3>2, <3>3, <3>4 DEF ReserveBacked
  <2>4. CASE Push(t)
    <3>1. Len(connList') = Len(connList) + 1
      BY <1>0, <2>4, AppendProperties DEF Push, At, TypeOK
    <3>2. /\ t \notin Unposted /\ Unposted' = Unposted \cup {t}
          /\ Granted' = Granted /\ UNCHANGED <<reserve, signals>>
      BY <1>0, <2>4 DEF Push, At, Granted, Unposted, TypeOK
    <3>3. Cardinality(Unposted') = Cardinality(Unposted) + 1
      BY <1>0, <3>2, SubsetCounts
    <3> QED
      BY <1>0, <1>1, <3>1, <3>2, <3>3 DEF ReserveBacked
  <2>5. CASE Post(t)
    <3>1. /\ t \in Unposted /\ Unposted' = Unposted \ {t} /\ Granted' = Granted
          /\ reserve' = reserve + 1 /\ UNCHANGED <<connList, signals>>
      BY <1>0, <2>5 DEF Post, At, Granted, Unposted, TypeOK
    <3>2. Cardinality(Unposted') = Cardinality(Unposted) - 1
      BY <1>0, <3>1, SubsetCounts
    <3> QED
      BY <1>0, <1>1, <3>1, <3>2 DEF ReserveBacked
  <2>6. CASE \/ SizeIsZero(t) \/ SizeNotZero(t) \/ Lock(t) \/ Front(t)
             \/ Count(t) \/ Unlock(t) \/ ReleaseNull(t) \/ ReleaseLock(t)
             \/ Uncount(t) \/ ReleaseUnlock(t)
    <3>1. UNCHANGED <<connList, reserve, signals, Granted, Unposted>>
      BY <1>0, <2>6 DEF SizeIsZero, SizeNotZero, Lock, Front, Count, Unlock,
         ReleaseNull, ReleaseLock, Uncount, ReleaseUnlock, At, Granted,
         Unposted, TypeOK
    <3> QED
      BY <1>2, <3>1
  <2> QED
    BY <1>4, <2>1, <2>2, <2>3, <2>4, <2>5, <2>6 DEF Get, GiveBack
<1> QED
  BY <1>3, <1>4 DEF Next

(* Every unit of reserve, and every thread past reserve.wait(), is backed  *)
(* by an idle connection, except for one per interrupted wait.             *)
THEOREM UnitsBacked == Spec => []ReserveBacked
<1>1. Init => ReserveBacked
  <2> SUFFICES ASSUME Init PROVE ReserveBacked
    OBVIOUS
  <2>1. Granted = {} /\ Unposted = {} /\ Inv
    BY PoolAssumption, InvInit DEF Init, Granted, Unposted
  <2>2. Len(connList) \in Nat
    BY <2>1, LenProperties DEF Inv, TypeOK
  <2> QED
    BY <2>1, <2>2, FS_EmptySet DEF Init, ReserveBacked
<1>2. Inv /\ ReserveBacked /\ [Next]_vars => ReserveBacked'
  BY PoolAssumption, BackedStep
<1>3. Spec => []Inv
  BY InvAlways
<1> QED
  BY <1>1, <1>2, <1>3, PTL DEF Spec

-----------------------------------------------------------------------------
(* As long as some thread holds no handle, and there is one for each, the  *)
(* list is not empty.                                                      *)
LEMMA SpareHandle ==
    ASSUME PoolAssumption, Inv, OneHolder,
           Cardinality(Threads) <= m_MaxConn,
           NEW t \in Threads, t \notin Holders
    PROVE  connList # << >>
<1>1. Holders \in SUBSET Threads /\ IsFiniteSet(Threads)
  BY DEF Holders, PoolAssumption
<1>2. Holders # Threads
  OBVIOUS
<1>3. Cardinality(Holders) < Cardinality(Threads)
  BY <1>1, <1>2, FS_Subset, FS_CardinalityType
<1>4. Len(connList) # 0
  BY <1>1, <1>3, FS_CardinalityType, SubsetCounts DEF OneHolder, Inv, TypeOK
<1> QED
  BY <1>4, EmptySeq

LEMMA EmptyFrontStep ==
    ASSUME PoolAssumption, Inv, OneHolder, ReserveBacked, NoEmptyFront,
           [Next]_vars
    PROVE  NoEmptyFront'
<1> USE PoolAssumption
<1>0. TypeOK
  BY DEF Inv
<1>1. CASE \E t \in Threads : FrontOfEmpty(t)
  <2>1. PICK t \in Threads : FrontOfEmpty(t)
    BY <1>1
  <2>2. Len(connList) = 0
    BY <2>1, EmptySeq DEF FrontOfEmpty
  <2>3. signals # 0
    <3>1. t \in Granted /\ Granted \in SUBSET Threads /\ Unposted \in SUBSET Threads
      BY <2>1 DEF FrontOfEmpty, At, Granted, Unposted
    <3>2. IsFiniteSet(Granted) /\ Cardinality(Granted) \in Nat
          /\ Cardinality(Unposted) \in Nat
      BY <3>1, SubsetCounts
    <3>3. Cardinality(Granted) # 0
      BY <3>1, <3>2, FS_EmptySet
    <3> QED
      BY <1>0, <2>2, <3>2, <3>3 DEF ReserveBacked, TypeOK
  <2>4. ~(Cardinality(Threads) <= m_MaxConn)
    <3>1. t \notin Holders /\ connList = << >>
      BY <1>0, <2>1 DEF FrontOfEmpty, At, Holders, TypeOK
    <3> QED
      BY <3>1, SpareHandle
  <2>5. UNCHANGED <<signals, m_MaxConn>>
    BY <2>1 DEF FrontOfEmpty
  <2> QED
    BY <2>3, <2>4, <2>5 DEF NoEmptyFront
<1>2. CASE ~(\E t \in Threads : FrontOfEmpty(t))
  <2>1. /\ m_MaxConn' = m_MaxConn
        /\ signals' = 0 => signals = 0
        /\ \A t \in Threads : pc'[t] = "undefined" => pc[t] = "undefined"
    <3>1. CASE UNCHANGED vars
      BY <3>1 DEF vars
    <3>2. ASSUME NEW t \in Threads,
                 Get(t) \/ GiveBack(t) \/ ReserveInterrupted(t)
          PROVE  /\ m_MaxConn' = m_MaxConn
                 /\ signals' = 0 => signals = 0
                 /\ \A u \in Threads : pc'[u] = "undefined" => pc[u] = "undefined"
      <4>1. CASE ReserveInterrupted(t)
        BY <1>0, <4>1 DEF ReserveInterrupted, At, TypeOK, PoolAssumption
      <4>2. CASE ~ReserveInterrupted(t)
        <5>1. UNCHANGED <<m_MaxConn, signals>>
          BY <1>2, <3>2, <4>2 DEF Get, GiveBack, SizeIsZero, SizeNotZero,
             Reserve, Lock, Front, Pop, Count, Unlock, ReleaseNull,
             ReleaseLock, Push, Uncount, ReleaseUnlock, Post
        <5>2. \A u \in Threads : pc'[u] = "undefined" => pc[u] = "undefined"
          BY <1>0, <1>2, <3>2, <4>2 DEF Get, GiveBack, SizeIsZero, SizeNotZero,
             Reserve, Lock, Front, Pop, Count, Unlock, ReleaseNull,
             ReleaseLock, Push, Uncount, ReleaseUnlock, Post, At, TypeOK
        <5> QED
          BY <5>1, <5>2
      <4> QED
        BY <4>1, <4>2
    <3> QED
      BY <3>1, <3>2 DEF Next
  <2> QED
    BY <2>1 DEF NoEmptyFront
<1> QED
  BY <1>1, <1>2

(* front() is applied to an empty list only if a wait was interrupted and  *)
(* the pool has fewer connections than the server has threads.             *)
THEOREM FrontOfSomething == Spec => []NoEmptyFront
<1>1. Init => NoEmptyFront
  BY DEF Init, NoEmptyFront
<1>2. Inv /\ OneHolder /\ ReserveBacked /\ NoEmptyFront /\ [Next]_vars
        => NoEmptyFront'
  BY PoolAssumption, EmptyFrontStep
<1>3. Spec => []Inv
  BY InvAlways
<1>4. Spec => []OneHolder
  BY NoHandleShared
<1>5. Spec => []ReserveBacked
  BY UnitsBacked
<1> QED
  BY <1>1, <1>2, <1>3, <1>4, <1>5, PTL DEF Spec

-----------------------------------------------------------------------------
LEMMA EnoughStep ==
    ASSUME PoolAssumption, Inv, Inv', OneHolder, EnoughForAll, [Next]_vars
    PROVE  EnoughForAll'
<1> USE PoolAssumption
<1>0. TypeOK /\ TypeOK'
  BY DEF Inv
<1> SUFFICES ASSUME Cardinality(Threads) <= m_MaxConn',
                    NEW u \in Threads, pc'[u] = "using"
             PROVE  con'[u] # NULL
  BY DEF EnoughForAll
<1>1. CASE UNCHANGED vars
  BY <1>1 DEF vars, EnoughForAll
<1>2. ASSUME NEW t \in Threads, Get(t) \/ GiveBack(t) \/ ReserveInterrupted(t)
      PROVE  con'[u] # NULL
  <2>1. m_MaxConn' = m_MaxConn
    BY <1>2 DEF Get, GiveBack, SizeIsZero, SizeNotZero, Reserve,
       ReserveInterrupted, Lock, Front, FrontOfEmpty, Pop, Count, Unlock,
       ReleaseNull, ReleaseLock, Push, Uncount, ReleaseUnlock, Post
  <2>2. CASE SizeIsZero(t)
    <3>1. t \notin Holders /\ connList = << >>
      BY <1>0, <2>2 DEF SizeIsZero, At, Holders, TypeOK
    <3> QED
      BY <2>1, <3>1, SpareHandle
  <2>3. CASE Unlock(t)
    BY <1>0, <2>1, <2>3 DEF Unlock, At, EnoughForAll, TypeOK
  <2>4. CASE ~SizeIsZero(t) /\ ~Unlock(t)
    <3>1. pc[u] = "using" /\ con'[u] = con[u]
      BY <1>0, <1>2, <2>4 DEF Get, GiveBack, SizeNotZero, Reserve,
         ReserveInterrupted, Lock, Front, FrontOfEmpty, Pop, Count,
         ReleaseNull, ReleaseLock, Push, Uncount, ReleaseUnlock, Post, At, TypeOK
    <3> QED
      BY <2>1, <3>1 DEF EnoughForAll
  <2> QED
    BY <2>2, <2>3, <2>4
<1> QED
  BY <1>1, <1>2 DEF Next

(* With a connection for every thread GetConnection never returns NULL.    *)
THEOREM NobodySentAway == Spec => []EnoughForAll
<1>1. Init => EnoughForAll
  BY DEF Init, EnoughForAll
<1>2. Inv /\ Inv' /\ OneHolder /\ EnoughForAll /\ [Next]_vars => EnoughForAll'
  BY PoolAssumption, EnoughStep
<1>3. Spec => []Inv
  BY InvAlways
<1>4. Spec => []OneHolder
  BY NoHandleShared
<1> QED
  BY <1>1, <1>2, <1>3, <1>4, PTL DEF Spec

-----------------------------------------------------------------------------
(* The threads counted by m_CurConn: from ++m_CurConn to --m_CurConn.      *)
Counted == {t \in Threads : \/ pc[t] \in {"unlock", "push", "uncount"}
                            \/ pc[t] = "using" /\ con[t] # NULL}

(* The counters count those threads, whoever holds the mutex.              *)
CountersAgree ==
    /\ m_CurConn = Cardinality(Counted)
    /\ m_FreeConn = m_MaxConn - m_CurConn

LEMMA CountersStep ==
    ASSUME PoolAssumption, Inv, CountersAgree, [Next]_vars
    PROVE  CountersAgree'
<1> USE PoolAssumption
<1>0. TypeOK /\ TypeOK' /\ Counted \in SUBSET Threads /\ m_MaxConn \in Nat
  BY InvStep DEF Inv, Counted, TypeOK
<1>1. Cardinality(Counted) \in Nat
  BY <1>0, SubsetCounts
<1>2. CASE UNCHANGED <<m_MaxConn, m_FreeConn, m_CurConn, Counted>>
  BY <1>2 DEF CountersAgree
<1>3. CASE UNCHANGED vars
  BY <1>2, <1>3 DEF vars, counters, Counted
<1>4. ASSUME NEW t \in Threads, Get(t) \/ GiveBack(t) \/ ReserveInterrupted(t)
      PROVE  CountersAgree'
  <2>1. CASE Count(t)
    <3>1. /\ t \notin Counted /\ Counted' = Counted \cup {t}
          /\ m_CurConn' = m_CurConn + 1 /\ m_FreeConn' = m_FreeConn - 1
          /\ m_MaxConn' = m_MaxConn
      BY <1>0, <2>1 DEF Count, At, Counted, TypeOK
    <3>2. Cardinality(Counted') = Cardinality(Counted) + 1
      BY <1>0, <3>1, SubsetCounts
    <3> QED
      BY <1>0, <1>1, <3>1, <3>2 DEF CountersAgree
  <2>2. CASE Uncount(t)
    <3>1. /\ t \in Counted /\ Counted' = Counted \ {t}
          /\ m_CurConn' = m_CurConn - 1 /\ m_FreeConn' = m_FreeConn + 1
          /\ m_MaxConn' = m_MaxConn
      BY <1>0, <2>2 DEF Uncount, At, Counted, TypeOK
    <3>2. Cardinality(Counted') = Cardinality(Counted) - 1
      BY <1>0, <3>1, SubsetCounts
    <3> QED
      BY <1>0, <1>1, <3>1, <3>2 DEF CountersAgree
  <2>3. CASE \/ SizeIsZero(t) \/ SizeNotZero(t) \/ Reserve(t)
             \/ ReserveInterrupted(t) \/ Lock(t) \/ Front(t) \/ FrontOfEmpty(t)
             \/ Pop(t) \/ Unlock(t) \/ ReleaseNull(t) \/ ReleaseLock(t)
             \/ Push(t) \/ ReleaseUnlock(t) \/ Post(t)
    <3>1. UNCHANGED <<m_MaxConn, m_FreeConn, m_CurConn>>
      BY <2>3 DEF SizeIsZero, SizeNotZero, Reserve, ReserveInterrupted, Lock,
         Front, FrontOfEmpty, Pop, Unlock, ReleaseNull, ReleaseLock, Push,
         ReleaseUnlock, Post, counters
    <3>2. \A u \in Threads : u \in Counted' <=> u \in Counted
      BY <1>0, <2>3 DEF SizeIsZero, SizeNotZero, Reserve, ReserveInterrupted,
         Lock, Front, FrontOfEmpty, Pop, Unlock, ReleaseNull, ReleaseLock,
         Push, ReleaseUnlock, Post, At, Counted, TypeOK
    <3>3. Counted' = Counted
      BY <3>2 DEF Counted
    <3> QED
      BY <1>2, <3>1, <3>3
  <2> QED
    BY <1>4, <2>1, <2>2, <2>3 DEF Get, GiveBack
<1> QED
  BY <1>3, <1>4 DEF Next

LEMMA AgreeIsExact ==
    ASSUME PoolAssumption, Inv, OneHolder, CountersAgree
    PROVE  CountersExact
<1> SUFFICES ASSUME lock = Nobody
             PROVE  m_FreeConn = Len(connList) /\ m_CurConn = Cardinality(Holders)
  BY DEF CountersExact
<1>1. \A t \in Threads : ~Inside(t)
  BY DEF PoolAssumption, Inv, MutexHeld
<1>2. \A t \in Threads : t \in Counted <=> t \in Holders
  BY <1>1 DEF Inside, Counted, Holders, Inv, TypeOK
<1>3. Counted = Holders
  BY <1>2 DEF Counted, Holders
<1>4. Len(connList) \in Nat /\ Cardinality(Holders) \in Nat
  BY LenProperties, SubsetCounts DEF Inv, TypeOK, Holders
<1> QED
  BY <1>3, <1>4 DEF CountersAgree, OneHolder

(* With the mutex free m_FreeConn is the length of the list and m_CurConn  *)
(* the number of handles in use.                                           *)
THEOREM CountersRight == Spec => []CountersExact
<1>1. Init => CountersAgree
  <2> SUFFICES ASSUME Init PROVE CountersAgree
    OBVIOUS
  <2>1. Counted = {} /\ Inv
    BY PoolAssumption, InvInit DEF Init, Counted
  <2> QED
    BY <2>1, FS_EmptySet, LenProperties DEF Init, CountersAgree, Inv, TypeOK
<1>2. Inv /\ CountersAgree /\ [Next]_vars => CountersAgree'
  BY PoolAssumption, CountersStep
<1>3. Inv /\ OneHolder /\ CountersAgree => CountersExact
  BY PoolAssumption, AgreeIsExact
<1>4. Spec => []Inv
  BY InvAlways
<1>5. Spec => []OneHolder
  BY NoHandleShared
<1> QED
  BY <1>1, <1>2, <1>3, <1>4, <1>5, PTL DEF Spec
=============================================================================
