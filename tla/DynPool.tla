------------------------------ MODULE DynPool -------------------------------
(***************************************************************************)
(* ThreadPool/ccthreadPool.cpp: the pool whose manager thread adds and     *)
(* removes workers.  m_lock is a std::mutex: what is done while it is held *)
(* is one step, except where the code lets something else happen in        *)
(* between - m_shutdown is written without it, so a worker's test of it    *)
(* and its wait are two steps.                                             *)
(***************************************************************************)
EXTENDS Integers, SequencesExt, FiniteSetsExt

CONSTANTS
    Sizes,       \* the m_minNum and m_maxNum a pool is made with
    MaxTasks,    \* bound: tasks that are added
    NUMBER       \* threads the manager adds or removes at once

ASSUME PoolAssumption ==
    /\ {MaxTasks, NUMBER} \subseteq Nat \ {0}
    /\ \A s \in Sizes : s.min \in Nat \ {0} /\ s.max \in Nat /\ s.min <= s.max

VARIABLES
    size,        \* m_minNum and m_maxNum
    m_taskQ,
    m_busyNum, m_aliveNum, m_exitNum, m_shutdown,
    worker,      \* where the thread in each place of m_threadIDs is
    hand,        \* the task each has taken and not yet begun, 0 for none
    manager,     \* where the manager is, and the numbers it has read
    owner,       \* the thread that adds the tasks and destroys the pool
    started,     \* the tasks that were begun, in that order
    raced        \* history: of the workers that are about to take a task,
                 \* two were so at once

counts == <<m_busyNum, m_aliveNum, m_exitNum>>
tasks == <<m_taskQ, hand, started>>
vars == <<size, tasks, counts, m_shutdown, worker, manager, owner, raced>>

Places == UNION {1..s.max : s \in Sizes}

(* The manager at a place where its numbers are out of scope.              *)
Without(place) == [at |-> place, queue |-> 0, live |-> 0, busy |-> 0]

(* The constructor.                                                        *)
Init ==
    /\ size \in Sizes
    /\ m_taskQ = << >> /\ hand = [i \in Places |-> 0] /\ started = << >> /\ raced = FALSE
    /\ m_busyNum = 0 /\ m_aliveNum = size.min /\ m_exitNum = 0 /\ m_shutdown = FALSE
    /\ worker = [i \in Places |-> IF i <= size.min THEN "loop" ELSE "none"]
    /\ manager = Without("loop")
    /\ owner = [at |-> "adding", added |-> 0, calls |-> 0]

(* A worker that is about to wait has m_lock, and one that has met the     *)
(* empty queue keeps it.                                                   *)
Unlocked == \A i \in Places : worker[i] \notin {"wait", "undefined"}

Asleep == {i \in Places : worker[i] \in {"waiting", "late"}}

notify_all == worker' = [i \in Places |-> IF i \in Asleep THEN "woken" ELSE worker[i]]

-----------------------------------------------------------------------------
(* worker.                                                                 *)
ByWorker == UNCHANGED <<size, m_shutdown, manager, owner>>
Goes(i, from, to) == worker[i] = from /\ worker' = [worker EXCEPT ![i] = to]

(* Where the tests of lines 103 and 125 lead: a pool that shuts down is    *)
(* left, whatever is in the queue.                                         *)
Next103 == IF m_shutdown THEN "ended" ELSE IF m_taskQ = << >> THEN "wait" ELSE "take"

(* Between the test and the use of the queue m_lock is given up (line      *)
(* 132): i comes there while another worker is there.                      *)
Others(i) == \E j \in Places \ {i} : worker[j] = "take"
Meets(i) == worker'[i] = "take" /\ Others(i)

Loop(i) ==
    /\ Goes(i, "loop", Next103) /\ Unlocked
    /\ raced' = (raced \/ Meets(i))
    /\ UNCHANGED <<tasks, counts>> /\ ByWorker

(* m_notEmpty.wait lets go of m_lock; it may also end by itself.  "late":  *)
(* m_shutdown was set after the test.                                      *)
Wait(i) ==
    /\ Goes(i, "wait", IF m_shutdown THEN "late" ELSE "waiting")
    /\ UNCHANGED <<tasks, counts, raced>> /\ ByWorker

WakesByItself(i) ==
    /\ i \in Asleep /\ worker' = [worker EXCEPT ![i] = "woken"]
    /\ UNCHANGED <<tasks, counts, raced>> /\ ByWorker

MayLeave == m_exitNum > 0 /\ m_aliveNum > size.min

(* Mutant: an if where the loop is.                                        *)
WokenTestsOnce(i) ==
    /\ Goes(i, "woken", IF m_shutdown THEN "ended" ELSE "take") /\ Unlocked
    /\ raced' = (raced \/ Meets(i))
    /\ UNCHANGED <<tasks, counts>> /\ ByWorker

(* Awake with m_lock: the thread ends if the manager wants fewer, or tests *)
(* the queue again.                                                        *)
Woken(i) ==
    /\ Goes(i, "woken", IF MayLeave THEN "ended" ELSE Next103) /\ Unlocked
    /\ m_exitNum' = Max({m_exitNum - 1, 0})
    /\ m_aliveNum' = IF MayLeave THEN m_aliveNum - 1 ELSE m_aliveNum
    /\ raced' = (raced \/ Meets(i))
    /\ UNCHANGED <<tasks, m_busyNum>> /\ ByWorker

(* Mutant: the task is looked at, not taken.                               *)
TakeNoPop(i) ==
    /\ m_taskQ # << >> /\ Goes(i, "take", "holds") /\ Unlocked
    /\ hand' = [hand EXCEPT ![i] = Head(m_taskQ)]
    /\ m_busyNum' = m_busyNum + 1
    /\ UNCHANGED <<m_taskQ, started, m_aliveNum, m_exitNum, raced>> /\ ByWorker

(* m_lock was given up after the test, and is taken again for front() and  *)
(* pop().                                                                  *)
Take(i) ==
    /\ m_taskQ # << >> /\ Goes(i, "take", "holds") /\ Unlocked
    /\ hand' = [hand EXCEPT ![i] = Head(m_taskQ)] /\ m_taskQ' = Tail(m_taskQ)
    /\ m_busyNum' = m_busyNum + 1
    /\ raced' = (raced /\ Others(i))
    /\ UNCHANGED <<started, m_aliveNum, m_exitNum>> /\ ByWorker

(* task.function begins, after the unlock: in which order those of several *)
(* workers begin is the scheduler's choice.                                *)
Begin(i) ==
    /\ Goes(i, "holds", "run")
    /\ started' = Append(started, hand[i]) /\ hand' = [hand EXCEPT ![i] = 0]
    /\ UNCHANGED <<m_taskQ, counts, raced>> /\ ByWorker

(* front() and pop() of an empty queue are undefined; nothing is said of   *)
(* the thread after that.                                                  *)
TakeFromEmpty(i) ==
    /\ m_taskQ = << >> /\ Goes(i, "take", "undefined") /\ Unlocked
    /\ UNCHANGED <<tasks, counts, raced>> /\ ByWorker

(* Mutant: m_busyNum is not reduced again.                                 *)
FinishStaysBusy(i) ==
    /\ Goes(i, "run", "loop") /\ Unlocked
    /\ UNCHANGED <<tasks, counts, raced>> /\ ByWorker

(* The task's function returns.                                            *)
Finish(i) ==
    /\ Goes(i, "run", "loop") /\ Unlocked
    /\ m_busyNum' = m_busyNum - 1
    /\ UNCHANGED <<tasks, m_aliveNum, m_exitNum, raced>> /\ ByWorker

Work(i) == \/ Loop(i) \/ Wait(i) \/ Woken(i)
           \/ Take(i) \/ TakeFromEmpty(i) \/ Begin(i) \/ Finish(i)

-----------------------------------------------------------------------------
(* manager: one round of its loop every five seconds.                      *)
ByManager == UNCHANGED <<size, tasks, m_busyNum, m_shutdown, owner, raced>>
Manages(from, to) == manager.at = from /\ manager' = [manager EXCEPT !.at = to]

ManagerLoop ==
    /\ Manages("loop", IF m_shutdown THEN "ended" ELSE "read")
    /\ UNCHANGED <<m_aliveNum, m_exitNum, worker>> /\ ByManager

ReadNumbers ==
    /\ manager.at = "read" /\ Unlocked
    /\ manager' = [at |-> "create", queue |-> Len(m_taskQ), live |-> m_aliveNum, busy |-> m_busyNum]
    /\ UNCHANGED <<m_aliveNum, m_exitNum, worker>> /\ ByManager

TooFew == manager.queue > manager.live /\ manager.live < size.max
TooMany == manager.busy * 2 < manager.live /\ manager.live > size.min

(* The places that are not joinable: a thread that ended still is.         *)
Vacant == {i \in 1..size.max : worker[i] = "none"}

(* The first of them, as many as the limits allow.                         *)
NewThreads ==
    LET n == Min({NUMBER, size.max - m_aliveNum, Cardinality(Vacant)})
    IN {i \in Vacant : TooFew /\ Cardinality({j \in Vacant : j < i}) < n}

Create ==
    /\ Manages("create", "destroy") /\ (TooFew => Unlocked)
    /\ worker' = [i \in Places |-> IF i \in NewThreads THEN "loop" ELSE worker[i]]
    /\ m_aliveNum' = m_aliveNum + Cardinality(NewThreads)
    /\ UNCHANGED m_exitNum /\ ByManager

Destroy ==
    /\ manager.at = "destroy" /\ (TooMany => Unlocked)
    /\ manager' = Without(IF TooMany THEN "notify" ELSE "loop")
    /\ m_exitNum' = IF TooMany THEN NUMBER ELSE m_exitNum
    /\ UNCHANGED <<m_aliveNum, worker>> /\ ByManager

(* NUMBER calls of notify_all; that a worker waits again between two of    *)
(* them, and wakes again, is what WakesByItself allows anyway.             *)
ManagerNotifies ==
    /\ manager.at = "notify" /\ manager' = Without("loop")
    /\ notify_all
    /\ UNCHANGED <<m_aliveNum, m_exitNum>> /\ ByManager

Manage == ManagerLoop \/ ReadNumbers \/ Create \/ Destroy \/ ManagerNotifies

-----------------------------------------------------------------------------
(* The thread that has the pool: addTask, then the destructor.             *)
ByOwner == UNCHANGED <<size, counts, manager, hand, started, raced>>

(* Mutant: nobody is told.                                                 *)
addTaskSilent ==
    /\ owner.at = "adding" /\ owner.added < MaxTasks /\ Unlocked
    /\ m_taskQ' = Append(m_taskQ, owner.added + 1)
    /\ owner' = [owner EXCEPT !.added = @ + 1]
    /\ UNCHANGED <<m_shutdown, worker>> /\ ByOwner

(* A call while m_shutdown is set changes nothing (lines 75-76); the owner *)
(* makes none, because it is in the destructor then.                       *)
addTask ==
    /\ owner.at = "adding" /\ owner.added < MaxTasks /\ Unlocked /\ ~m_shutdown
    /\ m_taskQ' = Append(m_taskQ, owner.added + 1)
    /\ owner' = [owner EXCEPT !.added = @ + 1]
    /\ notify_all
    /\ UNCHANGED m_shutdown /\ ByOwner

(* m_shutdown = 1, without m_lock.                                         *)
Shutdown ==
    /\ owner.at = "adding" /\ owner' = [owner EXCEPT !.at = "manager"]
    /\ m_shutdown' = TRUE
    /\ UNCHANGED <<m_taskQ, worker>> /\ ByOwner

JoinManager ==
    /\ owner.at = "manager" /\ manager.at = "ended"
    /\ owner' = [owner EXCEPT !.at = "notify"]
    /\ UNCHANGED <<m_taskQ, m_shutdown, worker>> /\ ByOwner

(* Mutant: the destructor wakes nobody.                                    *)
NotifiesNobody ==
    /\ owner.at = "notify" /\ owner' = [owner EXCEPT !.at = "join"]
    /\ UNCHANGED <<m_taskQ, m_shutdown, worker>> /\ ByOwner

(* for (i = 0; i < m_aliveNum; i++) m_notEmpty.notify_all().               *)
OwnerNotifies ==
    /\ owner.at = "notify"
    /\ IF owner.calls < m_aliveNum
       THEN owner' = [owner EXCEPT !.calls = @ + 1] /\ notify_all
       ELSE owner' = [owner EXCEPT !.at = "join"] /\ UNCHANGED worker
    /\ UNCHANGED <<m_taskQ, m_shutdown>> /\ ByOwner

Join ==
    /\ owner.at = "join" /\ owner' = [owner EXCEPT !.at = "done"]
    /\ \A i \in Places : worker[i] \in {"none", "ended"}
    /\ UNCHANGED <<m_taskQ, m_shutdown, worker>> /\ ByOwner

Destruct == JoinManager \/ OwnerNotifies \/ Join

Next == \/ \E i \in Places : Work(i) \/ WakesByItself(i)
        \/ Manage \/ addTask \/ Shutdown \/ Destruct

Spec == Init /\ [][Next]_vars

(* No thread is overtaken for ever at m_lock, and tasks return.  Whether   *)
(* the pool is ever destroyed is its owner's choice.                       *)
FairSpec == /\ Spec
            /\ \A i \in Places : SF_vars(Work(i))
            /\ SF_vars(Manage) /\ WF_vars(Destruct)

-----------------------------------------------------------------------------
Crashed == \E i \in Places : worker[i] = "undefined"
Alive == {i \in Places : worker[i] \notin {"none", "ended"}}
Busy == {i \in Places : worker[i] \in {"holds", "run"}}

Begun == {started[n] : n \in DOMAIN started}
Holding == {i \in Places : worker[i] = "holds"}
InHand == {hand[i] : i \in Holding}

(* The values of every variable.                                           *)
TypeOK ==
    /\ size \in Sizes
    /\ m_taskQ \in Seq(1..MaxTasks) /\ started \in Seq(1..MaxTasks)
    /\ hand \in [Places -> 0..MaxTasks] /\ raced \in BOOLEAN
    /\ m_busyNum \in Nat /\ m_aliveNum \in Nat /\ m_exitNum \in 0..NUMBER
    /\ m_shutdown \in BOOLEAN
    /\ worker \in [Places -> {"none", "loop", "wait", "waiting", "late", "woken", "take",
                            "holds", "run", "undefined", "ended"}]
    /\ manager \in [at : {"loop", "read", "create", "destroy", "notify", "ended"},
                    queue : Nat, live : Nat, busy : Nat]
    /\ owner \in [at : {"adding", "manager", "notify", "join", "done"},
                  added : 0..MaxTasks, calls : Nat]

(* Every variable has its type and the numbers the manager decides by are  *)
(* right: m_busyNum workers have a task, and while the pool is not being   *)
(* shut down m_aliveNum of them exist, never fewer than m_minNum and never *)
(* more than m_maxNum - whatever the manager decided from numbers that     *)
(* were old when it acted.                                                 *)
CountsExact ==
    /\ TypeOK
    /\ m_busyNum = Cardinality(Busy)
    /\ ~m_shutdown => m_aliveNum = Cardinality(Alive)
    /\ m_aliveNum \in size.min..size.max

(* A task that was added is in the queue, in one worker's hand or begun    *)
(* once, and in no two of these; the queue is in the order of addTask.     *)
(* What a task begun can overtake are the tasks in other workers' hands    *)
(* (lines 140-145), and with a single worker nothing.                      *)
BegunOnce ==
    /\ m_taskQ = [k \in 1..Len(m_taskQ) |-> owner.added - Len(m_taskQ) + k]
    /\ Begun \cup InHand = 1..(owner.added - Len(m_taskQ))
    /\ Begun \cap InHand = {}
    /\ \A m, n \in DOMAIN started : started[m] = started[n] => m = n
    /\ \A i, j \in Holding : hand[i] = hand[j] => i = j
    /\ size.max = 1 => \A n \in DOMAIN started : started[n] = n

(* front() is called on an empty queue only if the worker, or one it met   *)
(* there, came to its use of the queue while another was between test and  *)
(* use, because m_lock is given up there (line 132): no notify_all, no     *)
(* spurious wake-up and no decision of the manager leads there otherwise,  *)
(* and a single worker never gets there.                                   *)
NoEmptyFront == Crashed => raced /\ size.max > 1

(* A task that was added is begun, as long as the pool is not being        *)
(* destroyed.  Of a pool that is, the comments of lines 61 and 164 say     *)
(* that the remaining tasks are finished, but worker returns at line 125   *)
(* whatever is in the queue: see ShutdownFinishesTasks.                    *)
TaskBegun ==
    \A k \in 1..MaxTasks :
        owner.added >= k ~> k \in Begun \/ m_shutdown \/ Crashed

(* "Wake all the consumers and let them finish their work" (line 61), "the *)
(* remaining tasks have to be finished" (line 164): when the destructor is *)
(* done every task that was added was begun.                               *)
ShutdownFinishesTasks == owner.at = "done" => Begun = 1..owner.added

(* The destructor comes to an end, unless a worker tested m_shutdown       *)
(* before it was set and waits after the last notify_all.                  *)
DestructorEnds ==
    m_shutdown ~> \/ owner.at = "done" \/ Crashed
                  \/ owner.at = "join" /\ \E i \in Places : worker[i] = "late"
=============================================================================
