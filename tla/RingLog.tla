------------------------------ MODULE RingLog -------------------------------
(***************************************************************************)
(* Log/log.cpp: the asynchronous log.  Every thread of the server calls    *)
(* try_append (the LOG_ macros), which puts its line into a ring of        *)
(* buffers; one background thread runs persist, which writes the oldest    *)
(* buffer to the log file when it is full or a second has passed.          *)
(*                                                                         *)
(* _mutex protects the ring, so a critical section is one step - except    *)
(* the one that moves to another buffer: it stores _lst_lts and tests it   *)
(* again, while other threads clear _lst_lts without the mutex.  The       *)
(* file is written without the mutex, too.  The ring is a sequence that    *)
(* starts at _prst_buf.  A buffer holds Room lines, whatever their length. *)
(***************************************************************************)
EXTENDS Integers, SequencesExt

CONSTANTS
    Producers,  \* the threads that log
    MaxLines,   \* bound: lines they log in all
    Room,       \* lines in one buffer (_one_buff_len)
    InitBuffs,  \* _buff_cnt at the start
    MaxBuffs    \* the buffers MEM_USE_LIMIT allows

ASSUME LogAssumption ==
    /\ {MaxLines, Room} \subseteq Nat \ {0}
    /\ InitBuffs \in Nat \ {0, 1} /\ MaxBuffs \in Nat /\ MaxBuffs >= InitBuffs

VARIABLES
    ring,     \* the buffers: status and lines
    curr,     \* the place of _curr_buf in the ring
    lts,      \* _lst_lts # 0: a line was given up
    ppc,      \* what each producer is about to do
    sent,     \* lines each producer has logged so far
    cpc,      \* what the background thread is about to do
    file,     \* the lines handed to fwrite
    order,    \* history: the lines put into the ring, in that order
    limited,  \* history: MEM_USE_LIMIT was reached
    dropped,  \* history: a line was given up
    spoiled   \* history: a short fwrite, or the race on _lst_lts

producer == <<ppc, sent>>
history  == <<order, limited, dropped, spoiled>>
vars == <<ring, curr, lts, producer, cpc, file, history>>

Fresh == [status |-> "FREE", lines |-> << >>]

(* The constructor.                                                        *)
Init ==
    /\ ring = [i \in 1..InitBuffs |-> Fresh] /\ curr = 1
    /\ lts = FALSE
    /\ ppc = [p \in Producers |-> "idle"] /\ sent = [p \in Producers |-> 0]
    /\ cpc = "lock"
    /\ file = << >> /\ order = << >>
    /\ limited = FALSE /\ dropped = FALSE /\ spoiled = FALSE

(* _mutex is held between two steps.                                       *)
Locked == \E p \in Producers : ppc[p] = "retest"

Succ(i) == IF i = Len(ring) THEN 1 ELSE i + 1

HasRoom(i) == Len(ring[i].lines) < Room
Line(p) == <<p, sent[p]>>
Logged == FoldFunction(+, 0, sent)
Goes(p, from, to) == ppc[p] = from /\ ppc' = [ppc EXCEPT ![p] = to]

(* cell_buffer::append drops what does not fit.                            *)
append(i, line) ==
    IF HasRoom(i)
    THEN /\ ring' = [ring EXCEPT ![i].lines = Append(@, line)]
         /\ order' = Append(order, line)
         /\ UNCHANGED dropped
    ELSE dropped' = TRUE /\ UNCHANGED <<ring, order>>

-----------------------------------------------------------------------------
(* try_append.                                                             *)

(* A line was given up less than RELOG_THRESOLD seconds ago: say nothing.  *)
(* The time of the line was read before that test, perhaps long ago; if    *)
(* _lst_lts is later their unsigned difference wraps.  So either may be.   *)
Suppress(p) ==
    /\ ppc[p] = "idle" /\ Logged < MaxLines
    /\ lts
    /\ sent' = [sent EXCEPT ![p] = @ + 1]
    /\ dropped' = TRUE
    /\ UNCHANGED <<ring, curr, lts, ppc, cpc, file, order, limited, spoiled>>

Format(p) ==
    /\ Goes(p, "idle", "clear") /\ Logged < MaxLines
    /\ sent' = [sent EXCEPT ![p] = @ + 1]
    /\ UNCHANGED <<ring, curr, lts, cpc, file, history>>

(* _lst_lts = 0, without the mutex.                                        *)
ClearLts(p) ==
    /\ Goes(p, "clear", "place")
    /\ lts' = FALSE
    /\ spoiled' = (spoiled \/ (Locked /\ lts))
    /\ UNCHANGED <<ring, curr, sent, cpc, file, order, limited, dropped>>

AppendHere(p) ==
    /\ Goes(p, "place", "idle") /\ ~Locked
    /\ ring[curr].status = "FREE" /\ HasRoom(curr)
    /\ append(curr, Line(p))
    /\ UNCHANGED <<curr, lts, sent, cpc, file, limited, spoiled>>

(* _curr_buf has no room: it is FULL from now on.                          *)
Filled == [ring EXCEPT ![curr].status = "FULL"]

(* Mutant: the next buffer is taken whatever its status.                   *)
NextFreeUntested(p) ==
    /\ ring' = Filled /\ curr' = Succ(curr)
    /\ UNCHANGED <<lts, limited>>

NextFree(p) ==
    /\ ring[Succ(curr)].status = "FREE"
    /\ ring' = Filled /\ curr' = Succ(curr)
    /\ UNCHANGED <<lts, limited>>

(* Mutant: the new buffer is linked in front of the full one.              *)
NewBufferBefore(p) ==
    /\ ring[Succ(curr)].status = "FULL" /\ Len(ring) < MaxBuffs
    /\ ring' = InsertAt(Filled, curr, Fresh)
    /\ UNCHANGED <<curr, lts, limited>>

NewBuffer(p) ==
    /\ ring[Succ(curr)].status = "FULL" /\ Len(ring) < MaxBuffs
    /\ ring' = InsertAt(Filled, curr + 1, Fresh) /\ curr' = curr + 1
    /\ UNCHANGED <<lts, limited>>

NoMoreSpace(p) ==
    /\ ring[Succ(curr)].status = "FULL" /\ Len(ring) >= MaxBuffs
    /\ ring' = Filled /\ curr' = Succ(curr)
    /\ lts' = TRUE /\ limited' = TRUE

MoveOn(p) ==
    /\ Goes(p, "place", "retest") /\ ~Locked
    /\ ring[curr].status = "FREE" /\ ~HasRoom(curr)
    /\ NextFree(p) \/ NewBuffer(p) \/ NoMoreSpace(p)
    /\ UNCHANGED <<sent, cpc, file, order, dropped, spoiled>>

(* if (!_lst_lts), the test that follows in the same critical section.     *)
Retest(p) ==
    /\ Goes(p, "retest", "idle")
    /\ IF lts THEN dropped' = TRUE /\ UNCHANGED <<ring, order>>
       ELSE append(curr, Line(p))
    /\ UNCHANGED <<curr, lts, sent, cpc, file, limited, spoiled>>

(* _curr_buf is FULL: the line is given up.                                *)
GiveUp(p) ==
    /\ Goes(p, "place", "idle") /\ ~Locked
    /\ ring[curr].status = "FULL"
    /\ lts' = TRUE /\ dropped' = TRUE
    /\ UNCHANGED <<ring, curr, sent, cpc, file, order, limited, spoiled>>

try_append(p) == Suppress(p) \/ Format(p) \/ ClearLts(p) \/ AppendHere(p)
                 \/ MoveOn(p) \/ Retest(p) \/ GiveUp(p)

-----------------------------------------------------------------------------
(* persist.  pthread_cond_timedwait ends by a signal or by itself within a *)
(* second, so that it may end at any time is all that matters.             *)
ByPersist == UNCHANGED <<lts, producer, order, limited, dropped>>

Await ==
    /\ cpc = "lock" /\ ~Locked
    /\ ring[1].status = "FREE"
    /\ cpc' = "wait"
    /\ UNCHANGED <<ring, curr, file, spoiled>> /\ ByPersist

(* After the wait, or at once when the buffer is FULL already.             *)
Look == ~Locked /\ (cpc = "wait" \/ (cpc = "lock" /\ ring[1].status = "FULL"))

NothingThere ==
    /\ Look /\ ring[1].lines = << >>
    /\ cpc' = "lock"
    /\ UNCHANGED <<ring, curr, file, spoiled>> /\ ByPersist

(* Mutant: a buffer is only taken when it is FULL.                         *)
TakeNotFree ==
    /\ Look /\ ring[1].lines # << >> /\ ring[1].status = "FREE"
    /\ cpc' = "lock"
    /\ UNCHANGED <<ring, curr, file, spoiled>> /\ ByPersist

(* Mutant: the producers stay in the buffer that is taken.                 *)
TakeFreeShared ==
    /\ Look /\ ring[1].lines # << >> /\ ring[1].status = "FREE"
    /\ cpc' = "write"
    /\ UNCHANGED <<ring, curr, file, spoiled>> /\ ByPersist

(* The buffer is still the producers': they are sent to the next one.      *)
TakeFree ==
    /\ Look /\ ring[1].lines # << >> /\ ring[1].status = "FREE"
    /\ ring' = Filled /\ curr' = Succ(curr)
    /\ cpc' = "write"
    /\ UNCHANGED <<file, spoiled>> /\ ByPersist

TakeFull ==
    /\ Look /\ ring[1].lines # << >> /\ ring[1].status = "FULL"
    /\ cpc' = "write"
    /\ UNCHANGED <<ring, curr, file, spoiled>> /\ ByPersist

(* decis_file cannot open a file: try again later.                         *)
NoFile ==
    /\ cpc = "write" /\ cpc' = "lock"
    /\ UNCHANGED <<ring, curr, file, spoiled>> /\ ByPersist

(* cell_buffer::persist; what fwrite could not write is lost.              *)
Write ==
    /\ cpc = "write" /\ cpc' = "advance"
    /\ file' = file \o ring[1].lines
    /\ UNCHANGED <<ring, curr, spoiled>> /\ ByPersist

WriteShort ==
    /\ cpc = "write" /\ cpc' = "advance"
    /\ spoiled' = TRUE
    /\ UNCHANGED <<ring, curr, file>> /\ ByPersist

(* clear(), and on to the next buffer: the ring starts there now.          *)
Advance ==
    /\ cpc = "advance" /\ ~Locked /\ cpc' = "lock"
    /\ ring' = Append(Tail(ring), Fresh)
    /\ curr' = IF curr = 1 THEN Len(ring) ELSE curr - 1
    /\ UNCHANGED <<file, spoiled>> /\ ByPersist

Take == NothingThere \/ TakeFree \/ TakeFull

persist == Await \/ Take \/ NoFile \/ Write \/ WriteShort \/ Advance

Next == (\E p \in Producers : try_append(p)) \/ persist

Spec == Init /\ [][Next]_vars

-----------------------------------------------------------------------------
Lines == Producers \X Nat

(* The values of every variable.                                           *)
TypeOK ==
    /\ ring \in Seq([status : {"FREE", "FULL"}, lines : Seq(Lines)])
    /\ Len(ring) \in InitBuffs..MaxBuffs
    /\ \A i \in 1..Len(ring) : Len(ring[i].lines) <= Room
    /\ curr \in 1..Len(ring)
    /\ lts \in BOOLEAN
    /\ ppc \in [Producers -> {"idle", "clear", "place", "retest"}]
    /\ sent \in [Producers -> Nat]
    /\ cpc \in {"lock", "wait", "write", "advance"}
    /\ file \in Seq(Lines) /\ order \in Seq(Lines)
    /\ limited \in BOOLEAN /\ dropped \in BOOLEAN /\ spoiled \in BOOLEAN

Full(i) == ring[i].status = "FULL"

(* The FULL buffers are those from _prst_buf up to _curr_buf, so that the  *)
(* one being persisted is a FULL one and, as persist asserts (line 124), a *)
(* free buffer with lines at _prst_buf is _curr_buf.  Only when there is   *)
(* no more space the producers stand on a FULL buffer, _prst_buf itself.   *)
RingShape ==
    /\ TypeOK
    /\ \/ \A i \in 1..Len(ring) : Full(i) <=> i < curr
       \/ curr = 1 /\ limited /\ \A i \in 1..Len(ring) : Full(i)
    /\ \A i \in 1..Len(ring) : ring[i].lines # << >> => Full(i) \/ i = curr
    /\ cpc \in {"write", "advance"} => Full(1)

Pending == FlattenSeq([i \in 1..Len(ring) |-> ring[i].lines])

(* The log file followed by the ring, from the oldest buffer on, is every  *)
(* line that was put into the ring, in that order: the writers, the        *)
(* growing ring, the forced flush and the unlocked write lose nothing,     *)
(* repeat nothing and swap nothing.  It takes a failed fwrite or the race  *)
(* on _lst_lts (a line put into a FULL buffer) to break that.              *)
LogFaithful ==
    ~spoiled => order = file \o (IF cpc = "advance"
                                 THEN SubSeq(Pending, Len(ring[1].lines) + 1, Len(Pending))
                                 ELSE Pending)

(* A line is only ever given up after MEM_USE_LIMIT was reached.           *)
DropsOnlyAtLimit == dropped => limited
=============================================================================
