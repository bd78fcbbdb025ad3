------------------------------ MODULE SqlPool ------------------------------
(***************************************************************************)
(* ConnPool/sql_connection_pool.cpp: the MySQL handles the worker threads  *)
(* share.  Every thread brackets each request by a connectionRAII:         *)
(* GetConnection, use, ReleaseConnection, modelled statement by statement. *)
(* As in WorkQueue a signal may end the semaphore's wait early, and        *)
(* GetConnection ignores what wait() returns.                              *)
(***************************************************************************)
EXTENDS Integers, FiniteSets, Sequences

CONSTANTS
    Threads,     \* the worker threads
    Nobody,      \* holder of a free mutex
    Handles,     \* the MYSQL* that mysql_real_connect can return
    NULL,
    MaxSignals   \* bound: signals that interrupt a sem_wait

ASSUME PoolAssumption ==
    /\ IsFiniteSet(Threads) /\ IsFiniteSet(Handles)
    /\ Nobody \notin Threads
    /\ NULL \notin Handles
    /\ MaxSignals \in Nat

VARIABLES
    m_MaxConn,             \* connections made by init
    connList,              \* the idle ones
    m_FreeConn, m_CurConn,
    reserve,               \* the semaphore's count
    lock,                  \* who holds the mutex
    pc, con,               \* each thread's place and its handle
    signals                \* interruptions so far

counters == <<m_FreeConn, m_CurConn>>
vars == <<m_MaxConn, connList, counters, reserve, lock, pc, con, signals>>

Distinct(s) == \A i, j \in 1..Len(s) : s[i] = s[j] => i = j

(* connection_pool::init, run by main before any worker exists.            *)
Init ==
    /\ connList \in UNION {[1..n -> Handles] : n \in 1..Cardinality(Handles)}
    /\ Distinct(connList)
    /\ m_MaxConn = Len(connList)
    /\ m_FreeConn = Len(connList) /\ m_CurConn = 0
    /\ reserve = Len(connList)
    /\ lock = Nobody
    /\ pc = [t \in Threads |-> "idle"] /\ con = [t \in Threads |-> NULL]
    /\ signals = 0

At(t, here, next) == pc[t] = here /\ pc' = [pc EXCEPT ![t] = next]

(* Mutant: lock() does not wait for the holder.                            *)
AcquireBroken(t) == lock' = t

Acquire(t) == lock = Nobody /\ lock' = t
Release(t) == lock = t /\ lock' = Nobody

-----------------------------------------------------------------------------
(* GetConnection.                                                          *)

(* Mutant: size() <= 1 is taken for empty.                                 *)
SizeIsOne(t) ==
    /\ Len(connList) <= 1 /\ At(t, "idle", "using")
    /\ UNCHANGED <<m_MaxConn, connList, counters, reserve, lock, con, signals>>

(* 0 == connList.size(), read without the lock: return NULL.               *)
SizeIsZero(t) ==
    /\ connList = << >> /\ At(t, "idle", "using")
    /\ UNCHANGED <<m_MaxConn, connList, counters, reserve, lock, con, signals>>

SizeNotZero(t) ==
    /\ connList # << >> /\ At(t, "idle", "reserve")
    /\ UNCHANGED <<m_MaxConn, connList, counters, reserve, lock, con, signals>>

(* Mutant: the semaphore does not block.                                   *)
ReserveNoBlock(t) ==
    /\ At(t, "reserve", "lock")
    /\ reserve' = reserve - 1
    /\ UNCHANGED <<m_MaxConn, connList, counters, lock, con, signals>>

Reserve(t) ==
    /\ At(t, "reserve", "lock")
    /\ reserve > 0
    /\ reserve' = reserve - 1
    /\ UNCHANGED <<m_MaxConn, connList, counters, lock, con, signals>>

ReserveInterrupted(t) ==
    /\ At(t, "reserve", "lock")
    /\ signals < MaxSignals
    /\ signals' = signals + 1
    /\ UNCHANGED <<m_MaxConn, connList, counters, reserve, lock, con>>

Lock(t) ==
    /\ At(t, "lock", "front") /\ Acquire(t)
    /\ UNCHANGED <<m_MaxConn, connList, counters, reserve, con, signals>>

Front(t) ==
    /\ connList # << >> /\ At(t, "front", "pop")
    /\ con' = [con EXCEPT ![t] = Head(connList)]
    /\ UNCHANGED <<m_MaxConn, connList, counters, reserve, lock, signals>>

(* front() of an empty list is undefined; nothing is said of the thread    *)
(* after that, and it holds the mutex.                                     *)
FrontOfEmpty(t) ==
    /\ connList = << >> /\ At(t, "front", "undefined")
    /\ UNCHANGED <<m_MaxConn, connList, counters, reserve, lock, con, signals>>

Pop(t) ==
    /\ At(t, "pop", "count")
    /\ connList' = Tail(connList)
    /\ UNCHANGED <<m_MaxConn, counters, reserve, lock, con, signals>>

Count(t) ==
    /\ At(t, "count", "unlock")
    /\ m_FreeConn' = m_FreeConn - 1 /\ m_CurConn' = m_CurConn + 1
    /\ UNCHANGED <<m_MaxConn, connList, reserve, lock, con, signals>>

Unlock(t) ==
    /\ At(t, "unlock", "using") /\ Release(t)
    /\ UNCHANGED <<m_MaxConn, connList, counters, reserve, con, signals>>

-----------------------------------------------------------------------------
(* ReleaseConnection, from ~connectionRAII.                                *)

(* Mutant: reserve is posted for NULL, too.                                *)
ReleaseNullPosts(t) ==
    /\ con[t] = NULL /\ At(t, "using", "idle")
    /\ reserve' = reserve + 1
    /\ UNCHANGED <<m_MaxConn, connList, counters, lock, con, signals>>

(* NULL is not given back.                                                 *)
ReleaseNull(t) ==
    /\ con[t] = NULL /\ At(t, "using", "idle")
    /\ UNCHANGED <<m_MaxConn, connList, counters, reserve, lock, con, signals>>

ReleaseLock(t) ==
    /\ con[t] # NULL /\ At(t, "using", "push") /\ Acquire(t)
    /\ UNCHANGED <<m_MaxConn, connList, counters, reserve, con, signals>>

Push(t) ==
    /\ At(t, "push", "uncount")
    /\ connList' = Append(connList, con[t])
    /\ con' = [con EXCEPT ![t] = NULL]
    /\ UNCHANGED <<m_MaxConn, counters, reserve, lock, signals>>

(* Mutant: --m_CurConn is missing.                                         *)
UncountHalf(t) ==
    /\ At(t, "uncount", "runlock")
    /\ m_FreeConn' = m_FreeConn + 1
    /\ UNCHANGED <<m_MaxConn, connList, m_CurConn, reserve, lock, con, signals>>

Uncount(t) ==
    /\ At(t, "uncount", "runlock")
    /\ m_FreeConn' = m_FreeConn + 1 /\ m_CurConn' = m_CurConn - 1
    /\ UNCHANGED <<m_MaxConn, connList, reserve, lock, con, signals>>

ReleaseUnlock(t) ==
    /\ At(t, "runlock", "post") /\ Release(t)
    /\ UNCHANGED <<m_MaxConn, connList, counters, reserve, con, signals>>

(* Mutant: the connection is back in the list but reserve is not posted.   *)
NoPost(t) ==
    /\ At(t, "post", "idle")
    /\ UNCHANGED <<m_MaxConn, connList, counters, reserve, lock, con, signals>>

Post(t) ==
    /\ At(t, "post", "idle")
    /\ reserve' = reserve + 1
    /\ UNCHANGED <<m_MaxConn, connList, counters, lock, con, signals>>

Get(t) == SizeIsZero(t) \/ SizeNotZero(t) \/ Reserve(t) \/ Lock(t) \/ Front(t)
          \/ FrontOfEmpty(t) \/ Pop(t) \/ Count(t) \/ Unlock(t)

GiveBack(t) == ReleaseNull(t) \/ ReleaseLock(t) \/ Push(t) \/ Uncount(t)
               \/ ReleaseUnlock(t) \/ Post(t)

Next == \E t \in Threads : Get(t) \/ GiveBack(t) \/ ReserveInterrupted(t)

Spec == Init /\ [][Next]_vars

-----------------------------------------------------------------------------
PCs == {"idle", "reserve", "lock", "front", "pop", "count", "unlock", "using",
        "push", "uncount", "runlock", "post", "undefined"}

Inside(t) == pc[t] \in {"front", "pop", "count", "unlock", "push", "uncount",
                        "runlock", "undefined"}

(* The threads whose handle is out of the list.                            *)
Holders == {t \in Threads : con[t] # NULL /\ pc[t] # "pop"}

(* The threads that passed reserve.wait() and have not popped yet, and     *)
(* those that have given back a handle and not posted yet.                 *)
Granted == {t \in Threads : pc[t] \in {"lock", "front", "pop"}}
Unposted == {t \in Threads : pc[t] \in {"uncount", "runlock", "post"}}

(* The values of every variable; a handle is held exactly from front() to  *)
(* push_back().                                                            *)
TypeOK ==
    /\ m_MaxConn \in Nat
    /\ connList \in Seq(Handles)
    /\ m_FreeConn \in Int /\ m_CurConn \in Int
    /\ reserve \in Nat
    /\ lock \in Threads \cup {Nobody}
    /\ pc \in [Threads -> PCs]
    /\ con \in [Threads -> Handles \cup {NULL}]
    /\ signals \in 0..MaxSignals
    /\ \A t \in Threads :
         /\ pc[t] \in {"pop", "count", "unlock", "push"} => con[t] # NULL
         /\ con[t] # NULL => pc[t] \in {"pop", "count", "unlock", "using", "push"}

(* Whoever is between lock and unlock holds the mutex.                     *)
MutexHeld == \A t \in Threads : Inside(t) <=> lock = t

(* No MYSQL handle is used by two threads or lost: every connection is     *)
(* either idle in the list, once, or in the hands of exactly one thread.   *)
OneHolder ==
    /\ Distinct(connList)
    /\ \A t \in Threads : pc[t] = "pop" => connList # << >> /\ con[t] = Head(connList)
    /\ \A t \in Holders :
         /\ \A u \in Holders : con[u] = con[t] => u = t
         /\ \A i \in 1..Len(connList) : connList[i] # con[t]
    /\ Len(connList) + Cardinality(Holders) = m_MaxConn

(* m_FreeConn and m_CurConn say how many connections are idle and in use   *)
(* whenever the mutex is free (the comment of GetConnection, line 62).     *)
CountersExact ==
    lock = Nobody =>
        /\ m_FreeConn = Len(connList)
        /\ m_CurConn = Cardinality(Holders)

(* reserve and the list agree: a unit of the semaphore, or the right of a  *)
(* thread past wait(), is backed by a connection - except for one unit per *)
(* interrupted wait.                                                       *)
ReserveBacked ==
    reserve + Cardinality(Granted) + Cardinality(Unposted)
      <= Len(connList) + signals

(* front() meets an empty list only if a wait was interrupted and there    *)
(* are more threads than connections (never with the defaults 8 and 8).    *)
NoEmptyFront ==
    signals = 0 \/ Cardinality(Threads) <= m_MaxConn
      => \A t \in Threads : pc[t] # "undefined"

(* With as many connections as threads nobody is sent away with NULL.      *)
EnoughForAll ==
    Cardinality(Threads) <= m_MaxConn
      => \A t \in Threads : pc[t] = "using" => con[t] # NULL
=============================================================================
