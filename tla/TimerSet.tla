------------------------------ MODULE TimerSet ------------------------------
(***************************************************************************)
(* What the event loop expects of sort_timer_lst: a set of timers, each    *)
(* with its time of expiry, from which a tick takes those that are due.    *)
(* The times come from time(NULL), which an administrator may set back:    *)
(* a tick may then overlook a timer, but never by more than the clock has  *)
(* been set back in all, and it never takes one that is not due.           *)
(***************************************************************************)
EXTENDS Integers

CONSTANTS Timers,  \* addresses of util_timers
          Lease    \* 3 * TIMESLOT

VARIABLES live,    \* the timers in the set
          expire,  \* when each of them is due
          now,     \* time(NULL)
          back     \* by how much the clock has been set back so far

vars == <<live, expire, now, back>>

Init == live = {} /\ expire \in [Timers -> {0}] /\ now = 0 /\ back = 0

Renewed(t) == expire' = [expire EXCEPT ![t] = now + Lease]

Add(t)    == t \notin live /\ live' = live \cup {t} /\ Renewed(t)
Adjust(t) == t \in live /\ Renewed(t) /\ UNCHANGED live
Del(t)    == t \in live /\ live' = live \ {t} /\ UNCHANGED expire

Tick ==
    /\ live' \subseteq live /\ UNCHANGED expire
    /\ \A t \in live \ live' : expire[t] <= now
    /\ \A t \in live' : now < expire[t] + back

Clock ==
    /\ now' # now
    /\ back' = IF now' < now THEN back + (now - now') ELSE back
    /\ UNCHANGED <<live, expire>>

Next == \/ /\ \/ \E t \in Timers : Add(t) \/ Adjust(t) \/ Del(t)
              \/ Tick
           /\ UNCHANGED <<now, back>>
        \/ Clock

Spec == Init /\ [][Next]_vars
=============================================================================
