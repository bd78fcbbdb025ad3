----------------------------- MODULE TimerList ------------------------------
(***************************************************************************)
(* Timer/timer.cpp: sort_timer_lst, the ascending doubly linked list of    *)
(* util_timers, pointer by pointer.  Only the main thread uses it, so each *)
(* member function is one step.  A Timers value is an address: `new` may   *)
(* return the address of a timer that was deleted, and what a deleted      *)
(* timer held stays in memory.  The callers are WebServer's: a timer is    *)
(* made and renewed with expire = time(NULL) + 3 * TIMESLOT, and only a    *)
(* timer that is in the list is adjusted or deleted (TimerAlive and        *)
(* DeletesLiveTimer of WebServer).                                         *)
(***************************************************************************)
EXTENDS Integers, FiniteSets, SequencesExt

CONSTANTS
    Timers,    \* addresses
    NULL,
    Lease,     \* 3 * TIMESLOT
    MaxNow,    \* bound: the latest time
    MaxBack    \* bound: seconds the wall clock is set back, in all

ASSUME ListAssumption ==
    /\ IsFiniteSet(Timers) /\ NULL \notin Timers
    /\ Lease \in Nat \ {0}
    /\ MaxNow \in Nat /\ MaxBack \in Nat

VARIABLES
    head, tail,
    next, prev, expire,   \* the members of every address
    live,                 \* the addresses that hold a timer
    now,                  \* time(NULL)
    back                  \* seconds it has been set back so far

links == <<head, tail, next, prev>>
vars == <<links, expire, live, now, back>>

Init ==
    /\ head = NULL /\ tail = NULL
    /\ next = [t \in Timers |-> NULL] /\ prev = [t \in Timers |-> NULL]
    /\ expire = [t \in Timers |-> 0]
    /\ live = {}
    /\ now = 0 /\ back = 0

(* The timers met from `start` on, following `nx`; one more than there are *)
(* addresses if that never ends.                                           *)
Chain(nx, start) ==
    LET many == Cardinality(Timers)
        node[i \in 0..many] ==
            IF i = 0 THEN start
            ELSE IF node[i - 1] = NULL THEN NULL ELSE nx[node[i - 1]]
        ends == {i \in 0..many : node[i] = NULL}
    IN  [i \in 1 .. (IF ends = {} THEN many + 1 ELSE Min(ends)) |-> node[i - 1]]

(* f[at] := to, where there is such a timer.                               *)
SetAt(f, at, to) == IF at = NULL THEN f ELSE [f EXCEPT ![at] = to]

(* Make n (or NULL) the successor and p the predecessor of t.              *)
Link(t, p, n, nx, pv) ==
    /\ next' = [nx EXCEPT ![p] = t, ![t] = n]
    /\ prev' = SetAt([pv EXCEPT ![t] = p], n, t)
    /\ tail' = IF n = NULL THEN t ELSE tail

(* add_timer(timer, lst_head): behind lst_head, before the first timer     *)
(* that expires later.                                                     *)
AddAfter(t, lst_head, nx, pv) ==
    LET rest  == Chain(nx, lst_head)
        later == {i \in 2..Len(rest) : expire'[t] < expire'[rest[i]]}
        i     == IF later = {} THEN Len(rest) + 1 ELSE Min(later)
    IN  Link(t, rest[i - 1], IF later = {} THEN NULL ELSE rest[i], nx, pv)

(* new util_timer: the constructor clears both links.                      *)
New(t) ==
    /\ t \notin live /\ live' = live \cup {t}
    /\ expire' = [expire EXCEPT ![t] = now + Lease]

AddTimer(t) ==
    /\ New(t)
    /\ LET nx == [next EXCEPT ![t] = NULL]
           pv == [prev EXCEPT ![t] = NULL]
       IN  \/ /\ head = NULL
              /\ head' = t /\ tail' = t /\ next' = nx /\ prev' = pv
           \/ /\ head # NULL /\ expire'[t] < expire[head]
              /\ next' = [nx EXCEPT ![t] = head]
              /\ prev' = [pv EXCEPT ![head] = t]
              /\ head' = t /\ UNCHANGED tail
           \/ /\ head # NULL /\ expire'[t] >= expire[head]
              /\ AddAfter(t, head, nx, pv) /\ UNCHANGED head
    /\ UNCHANGED <<now, back>>

(* Mutant: the comparison with the next timer is the wrong way round.      *)
StaysPutWrong(t) == next[t] # NULL => expire'[t] > expire[next[t]]

(* The timer is the last one or still due before the next one.             *)
StaysPut(t) == next[t] # NULL => expire'[t] < expire[next[t]]

(* Mutant: the new head keeps its link to the timer that moved.            *)
AdjustHeadLinked(t) ==
    /\ head' = next[t]
    /\ AddAfter(t, next[t], [next EXCEPT ![t] = NULL], prev)

AdjustHead(t) ==
    /\ head' = next[t]
    /\ AddAfter(t, next[t], [next EXCEPT ![t] = NULL], [prev EXCEPT ![next[t]] = NULL])

AdjustInner(t) ==
    /\ AddAfter(t, next[t], [next EXCEPT ![prev[t]] = next[t]],
                [prev EXCEPT ![next[t]] = prev[t]])
    /\ UNCHANGED head

AdjustTimer(t) ==
    /\ t \in live
    /\ expire' = [expire EXCEPT ![t] = now + Lease]
    /\ \/ StaysPut(t) /\ UNCHANGED links
       \/ ~StaysPut(t) /\ t = head /\ AdjustHead(t)
       \/ ~StaysPut(t) /\ t # head /\ AdjustInner(t)
    /\ UNCHANGED <<live, now, back>>

DelOnly(t) ==
    /\ t = head /\ t = tail
    /\ head' = NULL /\ tail' = NULL /\ UNCHANGED <<next, prev>>

DelHead(t) ==
    /\ t = head /\ t # tail
    /\ head' = next[t] /\ prev' = [prev EXCEPT ![next[t]] = NULL]
    /\ UNCHANGED <<next, tail>>

DelTail(t) ==
    /\ t # head /\ t = tail
    /\ tail' = prev[t] /\ next' = [next EXCEPT ![prev[t]] = NULL]
    /\ UNCHANGED <<head, prev>>

DelInner(t) ==
    /\ t # head /\ t # tail
    /\ next' = [next EXCEPT ![prev[t]] = next[t]]
    /\ prev' = [prev EXCEPT ![next[t]] = prev[t]]
    /\ UNCHANGED <<head, tail>>

DelTimer(t) ==
    /\ t \in live /\ live' = live \ {t}
    /\ DelOnly(t) \/ DelHead(t) \/ DelTail(t) \/ DelInner(t)
    /\ UNCHANGED <<expire, now, back>>

(* Mutant: cur <= tmp->expire ends the loop.                               *)
NotDueYetStrict(t) == now <= expire[t]

(* cur < tmp->expire ends the loop.                                        *)
NotDueYet(t) == now < expire[t]

(* tick: every timer up to the first that is not due is called and         *)
(* deleted.  tail is left alone, even when the list is empty afterwards.   *)
Tick ==
    /\ head # NULL
    /\ LET chain == Chain(next, head)
           stay  == {i \in 1..Len(chain) : NotDueYet(chain[i])}
           gone  == IF stay = {} THEN Len(chain) ELSE Min(stay) - 1
       IN  /\ live' = live \ {chain[i] : i \in 1..gone}
           /\ head' = IF stay = {} THEN NULL ELSE chain[gone + 1]
           /\ prev' = IF gone = 0 THEN prev ELSE SetAt(prev, head', NULL)
    /\ UNCHANGED <<tail, next, expire, now, back>>

(* The wall clock, and whoever sets it back.                               *)
Passes == now < MaxNow /\ now' = now + 1 /\ UNCHANGED back

SetBack == \E d \in 1..now :
    back + d <= MaxBack /\ now' = now - d /\ back' = back + d

Clock == (Passes \/ SetBack) /\ UNCHANGED <<links, expire, live>>

Next == \/ \E t \in Timers : AddTimer(t) \/ AdjustTimer(t) \/ DelTimer(t)
        \/ Tick \/ Clock

Spec == Init /\ [][Next]_vars

-----------------------------------------------------------------------------
(* The values of every variable; head is no deleted timer.                 *)
TypeOK ==
    /\ head \in live \cup {NULL} /\ tail \in Timers \cup {NULL}
    /\ next \in [Timers -> Timers \cup {NULL}]
    /\ prev \in [Timers -> Timers \cup {NULL}]
    /\ expire \in [Timers -> Nat]
    /\ live \subseteq Timers
    /\ now \in 0..MaxNow /\ back \in 0..MaxBack

(* After any sequence of add, adjust, del and tick, whatever the clock did *)
(* and wherever the allocator put the timers: from head the timers of the  *)
(* server are each met once and no deleted one is, prev is the inverse of  *)
(* next, and tail is the last.  tick leaves tail dangling when it empties  *)
(* the list; nothing reads it before add_timer sets it.                    *)
WellLinked ==
    LET chain == Chain(next, head) IN
    /\ TypeOK
    /\ ToSet(chain) = live /\ Len(chain) = Cardinality(live)
    /\ \A i \in 1..Len(chain) :
         prev[chain[i]] = IF i = 1 THEN NULL ELSE chain[i - 1]
    /\ live # {} => tail = Last(chain)

(* The list is ascending up to the seconds the clock has been set back: a  *)
(* timer is never due more than `back` before one in front of it, although *)
(* adjust_timer only ever moves a timer towards the tail.                  *)
NearlyAscending ==
    LET chain == Chain(next, head) IN
    \A i, j \in 1..Len(chain) :
        i < j => expire[chain[i]] <= expire[chain[j]] + back

(* The list is the set of timers the event loop takes it for: no operation *)
(* loses, revives or renews another timer, and a tick takes exactly the    *)
(* timers that are due - all but those overdue by less than the clock has  *)
(* been set back.                                                          *)
Set == INSTANCE TimerSet
IsTimerSet == Set!Spec
=============================================================================
