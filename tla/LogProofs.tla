----------------------------- MODULE LogProofs ------------------------------
(* Proofs about RingLog and LogFiles, for any threads, lines and buffers.  *)
EXTENDS LogFiles, TLAPS, SequenceTheorems, WellFoundedInduction

Buffer == [status : {"FREE", "FULL"}, lines : Seq(Lines)]

(* The thread between MoveOn and Retest holds _mutex, and has a buffer     *)
(* with room unless there was no more space.                               *)
RetestAlone ==
    /\ \A p, q \in Producers : ppc[p] = "retest" /\ ppc[q] = "retest" => p = q
    /\ Locked => limited \/ HasRoom(curr)

(* _lst_lts is only set after MEM_USE_LIMIT was reached.                   *)
LimitFirst == lts \/ dropped => limited

Inv == RingShape /\ RetestAlone /\ LimitFirst

USE DEF producer, history, ByPersist

-----------------------------------------------------------------------------
(* The ring.                                                               *)
LEMMA RingFacts ==
    ASSUME LogAssumption, TypeOK
    PROVE  /\ ring \in Seq(Buffer) /\ Len(ring) \in Nat /\ Len(ring) >= 2
           /\ curr \in 1..Len(ring) /\ Succ(curr) \in 1..Len(ring) /\ Succ(curr) # curr
           /\ MaxBuffs \in Nat /\ InitBuffs \in Nat /\ Room \in Nat \ {0}
           /\ \A i \in 1..Len(ring) :
                 /\ ring[i] \in Buffer /\ ring[i].lines \in Seq(Lines)
                 /\ ring[i].status \in {"FREE", "FULL"}
                 /\ Len(ring[i].lines) \in Nat /\ Len(ring[i].lines) <= Room
<1>1. /\ ring \in Seq(Buffer) /\ curr \in 1..Len(ring) /\ Len(ring) \in InitBuffs..MaxBuffs
      /\ \A i \in 1..Len(ring) : Len(ring[i].lines) <= Room
  BY DEF TypeOK, Buffer
<1>2. Len(ring) \in Nat
  BY <1>1, LenProperties
<1>3. /\ MaxBuffs \in Nat /\ InitBuffs \in Nat /\ InitBuffs >= 2 /\ Room \in Nat \ {0}
  BY DEF LogAssumption
<1>4. \A i \in 1..Len(ring) : ring[i] \in Buffer
  BY <1>1, ElementOfSeq
<1>5. \A i \in 1..Len(ring) :
         /\ ring[i].lines \in Seq(Lines) /\ ring[i].status \in {"FREE", "FULL"}
  BY <1>4 DEF Buffer
<1>6. \A i \in 1..Len(ring) : Len(ring[i].lines) \in Nat
  BY <1>5, LenProperties
<1>7. Succ(curr) \in 1..Len(ring) /\ Succ(curr) # curr /\ Len(ring) >= 2
  BY <1>1, <1>2, <1>3 DEF Succ
<1> QED
  BY <1>1, <1>2, <1>3, <1>4, <1>5, <1>6, <1>7

LEMMA FreshFacts ==
    /\ Fresh \in Buffer /\ Fresh.status = "FREE" /\ Fresh.lines = << >> /\ Len(Fresh.lines) = 0
<1>1. << >> \in Seq(Lines) /\ Len(<< >>) = 0
  BY EmptySeq
<1> QED
  BY <1>1 DEF Fresh, Buffer

LEMMA FilledFacts ==
    ASSUME LogAssumption, TypeOK
    PROVE  /\ Filled \in Seq(Buffer) /\ Len(Filled) = Len(ring)
           /\ \A i \in 1..Len(ring) :
                 /\ Filled[i].lines = ring[i].lines
                 /\ Filled[i].status = IF i = curr THEN "FULL" ELSE ring[i].status
<1>1. /\ ring \in Seq(Buffer) /\ curr \in 1..Len(ring)
      /\ \A i \in 1..Len(ring) : ring[i] \in Buffer
  BY RingFacts
<1> DEFINE e == [ring[curr] EXCEPT !.status = "FULL"]
<1>2. e \in Buffer /\ e.status = "FULL" /\ e.lines = ring[curr].lines
  BY <1>1 DEF Buffer
<1>3. Filled = [ring EXCEPT ![curr] = e]
  BY DEF Filled
<1> HIDE DEF e
<1>4. /\ Filled \in Seq(Buffer) /\ Len(Filled) = Len(ring)
      /\ \A i \in 1..Len(ring) : Filled[i] = IF i = curr THEN e ELSE ring[i]
  BY <1>1, <1>2, <1>3, ExceptSeq
<1> QED
  BY <1>2, <1>4

(* InsertAt behind the last one.                                           *)
LEMMA InsertLast ==
    ASSUME NEW S, NEW s \in Seq(S), NEW e \in S
    PROVE  InsertAt(s, Len(s) + 1, e) = Append(s, e)
<1>1. Len(s) \in Nat
  BY LenProperties
<1>2. Len(s) + 1 - 1 = Len(s) /\ Len(s) < Len(s) + 1 /\ Len(s) + 1 \in Int /\ Len(s) \in Int
  BY <1>1
<1>3. SubSeq(s, 1, Len(s)) = s /\ SubSeq(s, Len(s) + 1, Len(s)) = << >>
  BY <1>2, SubSeqFull, SubSeqEmpty
<1>4. Append(s, e) = s \o <<e>> /\ Append(s, e) \in Seq(S)
  BY AppendIsConcat, AppendProperties
<1>5. Append(s, e) \o << >> = Append(s, e)
  BY <1>4, ConcatEmptySeq
<1> DEFINE n == Len(s) + 1
<1>6. n - 1 = Len(s)
  BY <1>1
<1>7. SubSeq(s, n, Len(s)) = << >>
  BY <1>3
<1>8. InsertAt(s, n, e) = Append(s, e)
  <2> HIDE DEF n
  <2>1. InsertAt(s, n, e) = SubSeq(s, 1, n - 1) \o <<e>> \o SubSeq(s, n, Len(s))
    BY Zenon DEF InsertAt
  <2>2. SubSeq(s, 1, n - 1) = s
    BY <1>3, <1>6, Zenon
  <2> QED
    BY <1>4, <1>5, <1>7, <2>1, <2>2, Zenon
<1> QED
  BY <1>8

(* What a new ring has to be for RingShape and the type to go on.          *)
RingOK(r, c, lim, pc) ==
    /\ r \in Seq(Buffer) /\ Len(r) \in InitBuffs..MaxBuffs /\ c \in 1..Len(r)
    /\ \A i \in 1..Len(r) : Len(r[i].lines) <= Room
    /\ \/ \A i \in 1..Len(r) : r[i].status = "FULL" <=> i < c
       \/ c = 1 /\ lim /\ \A i \in 1..Len(r) : r[i].status = "FULL"
    /\ \A i \in 1..Len(r) : r[i].lines # << >> => r[i].status = "FULL" \/ i = c
    /\ pc \in {"write", "advance"} => r[1].status = "FULL"

LEMMA ShapeIs ==
    RingShape <=> TypeOK /\ RingOK(ring, curr, limited, cpc)
BY DEF RingShape, RingOK, TypeOK, Full, Buffer

(* A buffer that is FULL and _curr_buf means that there is no more space.  *)
LEMMA NoSpace ==
    ASSUME LogAssumption, RingShape, Full(curr)
    PROVE  limited
<1>1. curr \in 1..Len(ring) /\ Len(ring) \in Nat
  BY RingFacts DEF RingShape
<1> QED
  BY <1>1 DEF RingShape

(* The next buffer is FULL only if _curr_buf is the last of the ring.      *)
LEMMA NextFull ==
    ASSUME LogAssumption, RingShape, ~Full(curr)
    PROVE  /\ \A i \in 1..Len(ring) : Full(i) <=> i < curr
           /\ Full(Succ(curr)) => curr = Len(ring) /\ Succ(curr) = 1
           /\ ~Full(Succ(curr)) => curr < Len(ring) /\ Succ(curr) = curr + 1
<1>1. /\ curr \in 1..Len(ring) /\ Len(ring) \in Nat /\ Len(ring) >= 2
      /\ Succ(curr) \in 1..Len(ring)
  BY RingFacts DEF RingShape
<1>2. \A i \in 1..Len(ring) : Full(i) <=> i < curr
  BY <1>1 DEF RingShape
<1> QED
  BY <1>1, <1>2 DEF Succ

-----------------------------------------------------------------------------
(* A line goes into _curr_buf.                                             *)
LEMMA Appended ==
    ASSUME LogAssumption, RingShape, NEW p \in Producers, append(curr, Line(p))
    PROVE  /\ RingOK(ring', curr, limited, cpc)
           /\ order' \in Seq(Lines) /\ dropped' \in BOOLEAN
           /\ HasRoom(curr) => dropped' = dropped
<1>1. /\ ring \in Seq(Buffer) /\ curr \in 1..Len(ring) /\ Len(ring) \in Nat
      /\ \A i \in 1..Len(ring) :
            /\ ring[i] \in Buffer /\ ring[i].lines \in Seq(Lines)
            /\ Len(ring[i].lines) \in Nat /\ Len(ring[i].lines) <= Room
      /\ Room \in Nat
  BY RingFacts DEF RingShape
<1>2. order \in Seq(Lines) /\ dropped \in BOOLEAN /\ Line(p) \in Lines
  BY DEF RingShape, TypeOK, Line, Lines
<1>3. CASE HasRoom(curr)
  <2>1. /\ ring' = [ring EXCEPT ![curr].lines = Append(@, Line(p))]
        /\ order' = Append(order, Line(p)) /\ dropped' = dropped
    BY <1>3 DEF append
  <2> DEFINE more == Append(ring[curr].lines, Line(p))
             e == [ring[curr] EXCEPT !.lines = more]
  <2>2. more \in Seq(Lines) /\ Len(more) = Len(ring[curr].lines) + 1
    BY <1>1, <1>2, AppendProperties
  <2>3. Len(more) <= Room
    BY <1>1, <1>3, <2>2 DEF HasRoom
  <2>4. e \in Buffer /\ e.status = ring[curr].status /\ e.lines = more
    <3> HIDE DEF more
    <3> QED
      BY <1>1, <2>2 DEF Buffer
  <2>5. ring' = [ring EXCEPT ![curr] = e]
    BY <2>1
  <2> HIDE DEF e, more
  <2>6. /\ ring' \in Seq(Buffer) /\ Len(ring') = Len(ring)
        /\ \A i \in 1..Len(ring) : ring'[i] = IF i = curr THEN e ELSE ring[i]
    BY <1>1, <2>4, <2>5, ExceptSeq
  <2>7. \A i \in 1..Len(ring) : ring'[i].status = ring[i].status
    BY <2>4, <2>6
  <2>8. \A i \in 1..Len(ring) : Len(ring'[i].lines) <= Room
    BY <1>1, <2>3, <2>4, <2>6
  <2>9. \A i \in 1..Len(ring) : i # curr => ring'[i].lines = ring[i].lines
    BY <2>6
  <2>10. RingOK(ring', curr, limited, cpc)
    <3>1. RingOK(ring, curr, limited, cpc)
      BY ShapeIs
    <3>2. \A i \in 1..Len(ring') :
             ring'[i].lines # << >> => ring'[i].status = "FULL" \/ i = curr
      BY <2>6, <2>7, <2>9, <3>1 DEF RingOK
    <3>3. 1 \in 1..Len(ring)
      BY <1>1
    <3> QED
      BY <1>1, <2>6, <2>7, <2>8, <3>1, <3>2, <3>3 DEF RingOK
  <2>11. order' \in Seq(Lines)
    BY <1>2, <2>1, AppendProperties
  <2> QED
    BY <1>2, <2>1, <2>10, <2>11
<1>4. CASE ~HasRoom(curr)
  BY <1>2, <1>4, ShapeIs DEF append
<1> QED
  BY <1>3, <1>4

(* _curr_buf is FULL and the next buffer is taken, or a new one made.      *)
LEMMA MovedOn ==
    ASSUME LogAssumption, RingShape, NEW p \in Producers, ~Full(curr),
           NextFree(p) \/ NewBuffer(p) \/ NoMoreSpace(p)
    PROVE  /\ RingOK(ring', curr', limited', cpc)
           /\ Len(ring'[curr'].lines) < Room \/ limited'
           /\ limited => limited'
           /\ lts' => lts \/ limited'
           /\ limited' \in BOOLEAN /\ lts' \in BOOLEAN
<1>1. /\ ring \in Seq(Buffer) /\ curr \in 1..Len(ring) /\ Len(ring) \in Nat
      /\ Succ(curr) \in 1..Len(ring)
      /\ \A i \in 1..Len(ring) :
            /\ ring[i].status \in {"FREE", "FULL"} /\ Len(ring[i].lines) <= Room
      /\ Room \in Nat \ {0} /\ MaxBuffs \in Nat /\ InitBuffs \in Nat
      /\ Len(ring) \in InitBuffs..MaxBuffs
      /\ limited \in BOOLEAN /\ lts \in BOOLEAN
  BY RingFacts DEF RingShape, TypeOK
<1>2. /\ Filled \in Seq(Buffer) /\ Len(Filled) = Len(ring)
      /\ \A i \in 1..Len(ring) :
            /\ Filled[i].lines = ring[i].lines
            /\ Filled[i].status = IF i = curr THEN "FULL" ELSE ring[i].status
  BY FilledFacts DEF RingShape
<1>3. /\ \A i \in 1..Len(ring) : ring[i].status = "FULL" <=> i < curr
      /\ ring[Succ(curr)].status = "FULL" => curr = Len(ring) /\ Succ(curr) = 1
      /\ ring[Succ(curr)].status # "FULL" => curr < Len(ring) /\ Succ(curr) = curr + 1
  BY NextFull DEF Full
<1>4. /\ \A i \in 1..Len(ring) : ring[i].lines # << >> => i <= curr
      /\ cpc \in {"write", "advance"} => ring[1].status = "FULL"
  BY <1>1, <1>3 DEF RingShape, Full
<1>5. \A i \in 1..Len(ring) : Filled[i].status = "FULL" <=> i <= curr
  BY <1>1, <1>2, <1>3
<1>6. 1 \in 1..Len(ring) /\ 1 <= curr
  BY <1>1
<1>7. CASE NextFree(p)
  <2>1. /\ ring' = Filled /\ curr' = curr + 1 /\ curr < Len(ring)
        /\ limited' = limited /\ lts' = lts
    BY <1>3, <1>7 DEF NextFree
  <2>2. curr + 1 \in 1..Len(ring) /\ ring[curr + 1].lines = << >>
    BY <1>1, <1>4, <2>1
  <2>3. Len(Filled[curr + 1].lines) = 0
    BY <1>2, <2>2, EmptySeq
  <2>4. RingOK(Filled, curr + 1, limited, cpc)
    <3>1. \A i \in 1..Len(ring) : Filled[i].status = "FULL" <=> i < curr + 1
      BY <1>1, <1>5
    <3>2. \A i \in 1..Len(ring) :
             Filled[i].lines # << >> => Filled[i].status = "FULL" \/ i = curr + 1
      BY <1>2, <1>4, <1>5
    <3>3. Filled[1].status = "FULL" /\ \A i \in 1..Len(ring) : Len(Filled[i].lines) <= Room
      BY <1>1, <1>2, <1>5, <1>6
    <3> QED
      BY <1>1, <1>2, <2>2, <3>1, <3>2, <3>3 DEF RingOK
  <2> QED
    BY <1>1, <2>1, <2>3, <2>4
<1>8. CASE NewBuffer(p)
  <2>1. /\ ring' = InsertAt(Filled, Len(Filled) + 1, Fresh) /\ curr' = Len(ring) + 1
        /\ curr = Len(ring) /\ Len(ring) < MaxBuffs
        /\ limited' = limited /\ lts' = lts
    BY <1>2, <1>3, <1>8 DEF NewBuffer
  <2>2. ring' = Append(Filled, Fresh)
    BY <1>2, <2>1, InsertLast, FreshFacts
  <2>3. /\ ring' \in Seq(Buffer) /\ Len(ring') = Len(ring) + 1
        /\ \A i \in 1..Len(ring) : ring'[i] = Filled[i]
        /\ ring'[Len(ring) + 1] = Fresh
    BY <1>2, <2>2, AppendProperties, FreshFacts
  <2>4. RingOK(ring', Len(ring) + 1, limited, cpc)
    <3>1. \A i \in 1..Len(ring') : i \in 1..Len(ring) \/ i = Len(ring) + 1
      BY <1>1, <2>3
    <3>2. \A i \in 1..Len(ring') : ring'[i].status = "FULL" <=> i < Len(ring) + 1
      BY <1>1, <1>5, <2>1, <2>3, <3>1, FreshFacts
    <3>3. \A i \in 1..Len(ring') : Len(ring'[i].lines) <= Room
      <4>1. \A i \in 1..Len(ring) : Len(ring'[i].lines) <= Room
        BY <1>1, <1>2, <2>3
      <4>2. Len(ring'[Len(ring) + 1].lines) <= Room
        BY <1>1, <2>3, FreshFacts
      <4> QED
        BY <3>1, <4>1, <4>2
    <3>4. \A i \in 1..Len(ring') :
             ring'[i].lines # << >> => ring'[i].status = "FULL" \/ i = Len(ring) + 1
      BY <1>1, <3>1, <3>2
    <3>5. Len(ring') \in InitBuffs..MaxBuffs /\ Len(ring) + 1 \in 1..Len(ring')
      BY <1>1, <2>1, <2>3
    <3>6. ring'[1].status = "FULL"
      BY <1>1, <1>6, <2>3, <3>2
    <3> QED
      BY <2>3, <3>2, <3>3, <3>4, <3>5, <3>6 DEF RingOK
  <2> QED
    BY <1>1, <2>1, <2>3, <2>4, FreshFacts
<1>9. CASE NoMoreSpace(p)
  <2>1. /\ ring' = Filled /\ curr' = 1 /\ curr = Len(ring)
        /\ limited' = TRUE /\ lts' = TRUE
    BY <1>3, <1>9 DEF NoMoreSpace
  <2>2. RingOK(Filled, 1, TRUE, cpc)
    BY <1>1, <1>2, <1>5, <1>6, <2>1, SMTT(30) DEF RingOK
  <2> QED
    BY <2>1, <2>2
<1> QED
  BY <1>7, <1>8, <1>9

-----------------------------------------------------------------------------
(* The steps.                                                              *)
LEMMA ProducerSteps ==
    ASSUME LogAssumption, Inv, NEW p \in Producers, try_append(p)
    PROVE  Inv'
<1> USE DEF Goes
<1>1. /\ RingShape /\ TypeOK /\ RingOK(ring, curr, limited, cpc) /\ curr \in 1..Len(ring)
      /\ ring[curr].status \in {"FREE", "FULL"}
  BY ShapeIs, RingFacts DEF Inv
<1>2. /\ sent' \in [Producers -> Nat]
      /\ ppc' \in [Producers -> {"idle", "clear", "place", "retest"}]
      /\ file' = file /\ cpc' = cpc
  <2>1. sent' \in {sent, [sent EXCEPT ![p] = @ + 1]}
    BY DEF try_append, Suppress, Format, ClearLts, AppendHere, MoveOn, Retest, GiveUp
  <2>2. \/ ppc' = ppc
        \/ \E to \in {"idle", "clear", "place", "retest"} : ppc' = [ppc EXCEPT ![p] = to]
    BY DEF try_append, Suppress, Format, ClearLts, AppendHere, MoveOn, Retest, GiveUp
  <2>3. file' = file /\ cpc' = cpc
    BY DEF try_append, Suppress, Format, ClearLts, AppendHere, MoveOn, Retest, GiveUp
  <2>4. sent' \in [Producers -> Nat]
    BY <1>1, <2>1, SMTT(30) DEF TypeOK
  <2>5. ppc' \in [Producers -> {"idle", "clear", "place", "retest"}]
    BY <1>1, <2>2 DEF TypeOK
  <2> QED
    BY <2>3, <2>4, <2>5
<1>3. ASSUME RingOK(ring', curr', limited', cpc), lts' \in BOOLEAN, order' \in Seq(Lines),
             limited' \in BOOLEAN, dropped' \in BOOLEAN, spoiled' \in BOOLEAN
      PROVE  RingShape'
  <2>1. TypeOK'
    BY <1>1, <1>2, <1>3 DEF TypeOK, RingOK, Buffer
  <2> QED
    BY <1>2, <1>3, <2>1 DEF RingShape, RingOK, Full
<1>4. CASE Suppress(p)
  <2>1. /\ UNCHANGED <<ring, curr, lts, ppc, cpc, file, order, limited, spoiled>>
        /\ lts /\ dropped' = TRUE
    BY <1>4 DEF Suppress
  <2>2. RingShape'
    BY <1>1, <1>3, <2>1 DEF TypeOK
  <2> QED
    BY <2>1, <2>2 DEF Inv, RetestAlone, LimitFirst, Locked, HasRoom
<1>5. CASE Format(p) \/ ClearLts(p)
  <2>1. /\ UNCHANGED <<ring, curr, cpc, file, order, limited, dropped>>
        /\ lts' \in {lts, FALSE} /\ spoiled' \in BOOLEAN
    BY <1>1, <1>5 DEF Format, ClearLts, TypeOK
  <2>2. RingShape'
    BY <1>1, <1>3, <2>1 DEF TypeOK
  <2>3. \A q \in Producers : ppc'[q] = "retest" <=> ppc[q] = "retest"
    BY <1>1, <1>5 DEF Format, ClearLts, TypeOK
  <2>4. RetestAlone'
    BY <2>1, <2>3 DEF Inv, RetestAlone, Locked, HasRoom
  <2>5. lts' => lts
    BY <2>1
  <2> QED
    BY <2>1, <2>2, <2>4, <2>5 DEF Inv, LimitFirst
<1>6. CASE AppendHere(p)
  <2>1. /\ ~Locked /\ HasRoom(curr) /\ append(curr, Line(p))
        /\ UNCHANGED <<curr, lts, limited, spoiled>>
    BY <1>6 DEF AppendHere
  <2>2. /\ RingOK(ring', curr, limited, cpc) /\ order' \in Seq(Lines)
        /\ dropped' \in BOOLEAN /\ dropped' = dropped
    BY <1>1, <2>1, Appended
  <2>3. RingShape'
    BY <1>1, <1>3, <2>1, <2>2 DEF TypeOK
  <2>4. ~Locked' /\ \A q \in Producers : ppc'[q] # "retest"
    BY <1>1, <1>6, <2>1 DEF AppendHere, Locked, TypeOK
  <2> QED
    BY <2>1, <2>2, <2>3, <2>4 DEF Inv, RetestAlone, LimitFirst
<1>7. CASE MoveOn(p)
  <2>1. /\ ~Locked /\ ~Full(curr) /\ UNCHANGED <<order, dropped, spoiled>>
        /\ NextFree(p) \/ NewBuffer(p) \/ NoMoreSpace(p)
    BY <1>7 DEF MoveOn, Full
  <2>2. /\ RingOK(ring', curr', limited', cpc)
        /\ Len(ring'[curr'].lines) < Room \/ limited'
        /\ limited => limited'
        /\ lts' => lts \/ limited'
        /\ limited' \in BOOLEAN /\ lts' \in BOOLEAN
    BY <1>1, <2>1, MovedOn
  <2>3. RingShape'
    BY <1>1, <1>3, <2>1, <2>2 DEF TypeOK
  <2>4. \A q \in Producers : ppc'[q] = "retest" => q = p
    BY <1>1, <1>7, <2>1 DEF MoveOn, Locked, TypeOK
  <2>5. limited' \/ HasRoom(curr)'
    BY <2>2 DEF HasRoom
  <2>6. RetestAlone'
    BY <2>4, <2>5 DEF RetestAlone
  <2> QED
    BY <2>1, <2>2, <2>3, <2>6 DEF Inv, LimitFirst
<1>8. CASE Retest(p)
  <2>1. /\ Locked /\ UNCHANGED <<curr, lts, limited, spoiled>>
        /\ \/ lts /\ dropped' = TRUE /\ UNCHANGED <<ring, order>>
           \/ ~lts /\ append(curr, Line(p))
    BY <1>8 DEF Retest, Locked
  <2>2. /\ RingOK(ring', curr, limited, cpc) /\ order' \in Seq(Lines)
        /\ dropped' \in BOOLEAN /\ (dropped' => limited)
    <3>1. CASE lts /\ dropped' = TRUE /\ UNCHANGED <<ring, order>>
      BY <1>1, <3>1 DEF Inv, LimitFirst, TypeOK
    <3>2. CASE append(curr, Line(p))
      <4>1. limited \/ HasRoom(curr)
        BY <2>1 DEF Inv, RetestAlone
      <4>2. dropped => limited
        BY DEF Inv, LimitFirst
      <4> QED
        BY <1>1, <3>2, <4>1, <4>2, Appended
    <3> QED
      BY <2>1, <3>1, <3>2
  <2>3. RingShape'
    BY <1>1, <1>3, <2>1, <2>2 DEF TypeOK
  <2>4. \A q \in Producers : ppc'[q] # "retest"
    BY <1>1, <1>8 DEF Retest, Inv, RetestAlone, TypeOK
  <2>5. RetestAlone'
    BY <2>4 DEF RetestAlone, Locked
  <2> QED
    BY <2>1, <2>2, <2>3, <2>5 DEF Inv, LimitFirst
<1>9. CASE GiveUp(p)
  <2>1. /\ ~Locked /\ Full(curr) /\ lts' = TRUE /\ dropped' = TRUE
        /\ UNCHANGED <<ring, curr, order, limited, spoiled>>
    BY <1>9 DEF GiveUp, Full
  <2>2. RingShape'
    BY <1>1, <1>3, <2>1 DEF TypeOK
  <2>3. limited
    BY <1>1, <2>1, NoSpace
  <2>4. \A q \in Producers : ppc'[q] # "retest"
    BY <1>1, <1>9, <2>1 DEF GiveUp, Locked, TypeOK
  <2> QED
    BY <2>1, <2>2, <2>3, <2>4 DEF Inv, RetestAlone, LimitFirst, Locked
<1> QED
  BY <1>4, <1>5, <1>6, <1>7, <1>8, <1>9 DEF try_append

(* persist moves _curr_buf or the start of the ring only when nobody is    *)
(* between MoveOn and Retest.                                              *)
LEMMA PersistSteps ==
    ASSUME LogAssumption, Inv, persist
    PROVE  Inv'
<1>1. /\ RingShape /\ TypeOK /\ RingOK(ring, curr, limited, cpc) /\ curr \in 1..Len(ring)
      /\ ring \in Seq(Buffer) /\ Len(ring) \in Nat /\ Len(ring) >= 2
      /\ \A i \in 1..Len(ring) :
            /\ ring[i].lines \in Seq(Lines) /\ ring[i].status \in {"FREE", "FULL"}
            /\ Len(ring[i].lines) <= Room
      /\ limited \in BOOLEAN /\ Room \in Nat \ {0}
  BY ShapeIs, RingFacts DEF Inv, TypeOK
<1>2. UNCHANGED <<lts, ppc, sent, order, limited, dropped>> /\ cpc' \in {"lock", "wait",
                                                                       "write", "advance"}
  BY DEF persist, Await, Take, NothingThere, TakeFree, TakeFull, NoFile, Write, WriteShort,
     Advance
<1>3. ASSUME RingOK(ring', curr', limited, cpc'), file' \in Seq(Lines), spoiled' \in BOOLEAN
      PROVE  RingShape'
  <2>1. TypeOK'
    BY <1>1, <1>2, <1>3 DEF TypeOK, RingOK, Buffer
  <2> QED
    BY <1>2, <1>3, <2>1 DEF RingShape, RingOK, Full
<1>4. ASSUME ~Locked \/ UNCHANGED <<ring, curr>>, RingShape'
      PROVE  Inv'
  <2>1. RetestAlone'
    BY <1>2, <1>4 DEF Inv, RetestAlone, Locked, HasRoom
  <2> QED
    BY <1>2, <1>4, <2>1 DEF Inv, LimitFirst
<1>5. CASE Await \/ NothingThere \/ NoFile
  <2>1. UNCHANGED <<ring, curr, file, spoiled>> /\ cpc' \in {"lock", "wait"}
    BY <1>5 DEF Await, NothingThere, NoFile
  <2>2. RingOK(ring', curr', limited, cpc')
    BY <1>1, <2>1 DEF RingOK
  <2> QED
    BY <1>1, <1>3, <1>4, <2>1, <2>2 DEF TypeOK
<1>6. CASE TakeFull
  <2>1. UNCHANGED <<ring, curr, file, spoiled>> /\ ring[1].status = "FULL"
    BY <1>6 DEF TakeFull
  <2>2. RingOK(ring', curr', limited, cpc')
    BY <1>1, <2>1 DEF RingOK
  <2> QED
    BY <1>1, <1>3, <1>4, <2>1, <2>2 DEF TypeOK
<1>7. CASE Write \/ WriteShort
  <2>1. /\ UNCHANGED <<ring, curr>> /\ cpc = "write"
        /\ file' \in {file, file \o ring[1].lines} /\ spoiled' \in {spoiled, TRUE}
    BY <1>7 DEF Write, WriteShort
  <2>2. file \in Seq(Lines) /\ ring[1].lines \in Seq(Lines) /\ spoiled \in BOOLEAN
    BY <1>1 DEF TypeOK
  <2>3. file \o ring[1].lines \in Seq(Lines)
    BY <2>2, ConcatProperties
  <2>4. RingOK(ring', curr', limited, cpc')
    BY <1>1, <2>1 DEF RingOK
  <2> QED
    BY <1>3, <1>4, <2>1, <2>2, <2>3, <2>4
<1>8. CASE TakeFree
  <2>1. /\ ring' = Filled /\ curr' = Succ(curr) /\ UNCHANGED <<file, spoiled>> /\ ~Locked
        /\ ring[1].lines # << >> /\ ring[1].status = "FREE"
    BY <1>8 DEF TakeFree, Look
  <2>2. /\ curr = 1 /\ curr' = 2
        /\ \A i \in 1..Len(ring) : ring[i].status = "FULL" <=> i < 1
        /\ \A i \in 1..Len(ring) : ring[i].lines # << >> => i = 1
    BY <1>1, <2>1 DEF RingOK, Succ
  <2>3. /\ Filled \in Seq(Buffer) /\ Len(Filled) = Len(ring)
        /\ \A i \in 1..Len(ring) :
              /\ Filled[i].lines = ring[i].lines
              /\ Filled[i].status = IF i = 1 THEN "FULL" ELSE ring[i].status
    BY <1>1, <2>2, FilledFacts
  <2>4. \A i \in 1..Len(ring) : Filled[i].status = "FULL" <=> i < 2
    BY <1>1, <2>2, <2>3
  <2>5. RingOK(Filled, 2, limited, cpc')
    <3>1. \A i \in 1..Len(ring) :
             Filled[i].lines # << >> => Filled[i].status = "FULL" \/ i = 2
      BY <2>2, <2>3
    <3>2. 2 \in 1..Len(ring) /\ 1 \in 1..Len(ring) /\ Filled[1].status = "FULL"
      BY <1>1, <2>3
    <3>3. \A i \in 1..Len(ring) : Len(Filled[i].lines) <= Room
      BY <1>1, <2>3
    <3>4. Len(ring) \in InitBuffs..MaxBuffs
      BY <1>1 DEF RingOK
    <3> QED
      BY <2>3, <2>4, <3>1, <3>2, <3>3, <3>4 DEF RingOK
  <2> QED
    BY <1>1, <1>3, <1>4, <2>1, <2>2, <2>5 DEF TypeOK
<1>9. CASE Advance
  <2>1. /\ ring' = Append(Tail(ring), Fresh) /\ cpc = "advance" /\ cpc' = "lock" /\ ~Locked
        /\ curr' = IF curr = 1 THEN Len(ring) ELSE curr - 1
        /\ UNCHANGED <<file, spoiled>>
    BY <1>9 DEF Advance
  <2>2. /\ Tail(ring) \in Seq(Buffer) /\ Len(Tail(ring)) = Len(ring) - 1
        /\ \A i \in 1..Len(ring) - 1 : Tail(ring)[i] = ring[i + 1]
    <3>1. ring # << >>
      BY <1>1, EmptySeq
    <3>2. /\ Tail(ring) \in Seq(Buffer) /\ Len(Tail(ring)) = Len(ring) - 1
          /\ \A i \in 1..Len(Tail(ring)) : Tail(ring)[i] = ring[i + 1]
      BY <1>1, <3>1, HeadTailProperties
    <3> QED
      BY <3>2
  <2>3. /\ ring' \in Seq(Buffer) /\ Len(ring') = Len(ring)
        /\ \A i \in 1..Len(ring) - 1 : ring'[i] = ring[i + 1]
        /\ ring'[Len(ring)] = Fresh
    <3> DEFINE t == Tail(ring)
    <3>1. /\ t \in Seq(Buffer) /\ Len(t) = Len(ring) - 1 /\ Len(t) + 1 = Len(ring)
          /\ \A i \in 1..Len(t) : t[i] = ring[i + 1]
          /\ ring' = Append(t, Fresh)
      BY <1>1, <2>1, <2>2
    <3> HIDE DEF t
    <3>2. /\ ring' \in Seq(Buffer) /\ Len(ring') = Len(t) + 1
          /\ \A i \in 1..Len(t) : ring'[i] = t[i]
          /\ ring'[Len(t) + 1] = Fresh
      BY <3>1, AppendProperties, FreshFacts
    <3> QED
      BY <3>1, <3>2
  <2>4. \A i \in 1..Len(ring) : i = Len(ring) \/ (i \in 1..Len(ring) - 1
                                                  /\ i + 1 \in 1..Len(ring))
    BY <1>1
  <2>5. ring[1].status = "FULL"
    BY <1>1, <2>1 DEF RingOK
  <2>6. curr' \in 1..Len(ring)
    BY <1>1, <2>1
  <2>7. \A i \in 1..Len(ring) : Len(ring'[i].lines) <= Room
    BY <1>1, <2>3, <2>4, FreshFacts
  <2>8. \A i \in 1..Len(ring) : ring'[i].status = "FULL" <=> i < curr'
    <3>1. CASE curr = 1
      <4>1. \A i \in 1..Len(ring) : ring[i].status = "FULL"
        BY <1>1, <2>5, <3>1 DEF RingOK
      <4> QED
        BY <1>1, <2>1, <2>3, <2>4, <3>1, <4>1, FreshFacts
    <3>2. CASE curr # 1
      <4>1. \A i \in 1..Len(ring) : ring[i].status = "FULL" <=> i < curr
        BY <1>1, <3>2 DEF RingOK
      <4>2. ring'[Len(ring)].status # "FULL" /\ ~(Len(ring) < curr')
        BY <1>1, <2>3, <2>6, FreshFacts
      <4>3. ASSUME NEW i \in 1..Len(ring) - 1, i + 1 \in 1..Len(ring)
            PROVE  ring'[i].status = "FULL" <=> i < curr'
        BY <1>1, <2>1, <2>3, <3>2, <4>1, <4>3
      <4> QED
        BY <2>4, <4>2, <4>3
    <3> QED
      BY <3>1, <3>2
  <2>9. \A i \in 1..Len(ring) :
           ring'[i].lines # << >> => ring'[i].status = "FULL" \/ i = curr'
    <3>1. \A i \in 1..Len(ring) :
             ring[i].lines # << >> => ring[i].status = "FULL" \/ i = curr
      BY <1>1 DEF RingOK
    <3>2. SUFFICES ASSUME NEW i \in 1..Len(ring) - 1, i + 1 \in 1..Len(ring),
                          ring[i + 1].lines # << >>, ring[i + 1].status # "FULL"
                   PROVE  i = curr'
      BY <2>3, <2>4, FreshFacts
    <3>3. i + 1 = curr
      BY <3>1, <3>2
    <3> QED
      BY <1>1, <2>1, <3>2, <3>3
  <2>10. RingOK(ring', curr', limited, cpc')
    BY <1>1, <2>1, <2>3, <2>6, <2>7, <2>8, <2>9 DEF RingOK
  <2> QED
    BY <1>1, <1>3, <1>4, <2>1, <2>10 DEF TypeOK
<1> QED
  BY <1>5, <1>6, <1>7, <1>8, <1>9 DEF persist, Take

LEMMA InvInit ==
    ASSUME LogAssumption, Init
    PROVE  Inv
<1>1. /\ ring = [i \in 1..InitBuffs |-> Fresh] /\ InitBuffs \in Nat /\ InitBuffs >= 2
      /\ MaxBuffs \in Nat /\ InitBuffs <= MaxBuffs /\ Room \in Nat
  BY DEF Init, LogAssumption
<1>2. /\ ring \in Seq(Buffer) /\ Len(ring) = InitBuffs
      /\ \A i \in 1..InitBuffs : ring[i] = Fresh
  BY <1>1, FreshFacts, IsASeq
<1>3. \A i \in 1..InitBuffs : /\ ring[i].status = "FREE" /\ ring[i].lines = << >>
                              /\ Len(ring[i].lines) = 0
  BY <1>2, FreshFacts
<1>4. RingOK(ring, curr, limited, cpc)
  <2>1. curr = 1 /\ cpc = "lock" /\ 1 \in 1..InitBuffs /\ InitBuffs \in InitBuffs..MaxBuffs
    BY <1>1 DEF Init
  <2> QED
    BY <1>1, <1>2, <1>3, <2>1 DEF RingOK
<1>5. TypeOK
  <2>1. << >> \in Seq(Lines)
    BY EmptySeq
  <2> QED
    BY <1>4, <2>1 DEF Init, TypeOK, RingOK, Buffer
<1>6. RingShape
  BY <1>4, <1>5, ShapeIs
<1> QED
  BY <1>6 DEF Inv, RetestAlone, LimitFirst, Locked, Init

LEMMA InvStep ==
    ASSUME LogAssumption, Inv, [Next]_vars
    PROVE  Inv'
<1>1. CASE UNCHANGED vars
  <2>1. RingShape'
    <3>1. TypeOK'
      BY <1>1 DEF Inv, RingShape, TypeOK, vars
    <3> QED
      BY <1>1, <3>1 DEF Inv, RingShape, Full, vars
  <2> QED
    BY <1>1, <2>1 DEF Inv, RetestAlone, LimitFirst, Locked, HasRoom, vars
<1> QED
  BY <1>1, ProducerSteps, PersistSteps DEF Next

LEMMA InvAlways == Spec => []Inv
<1> USE LogAssumption
<1>1. Init => Inv
  BY InvInit
<1>2. Inv /\ [Next]_vars => Inv'
  BY InvStep
<1> QED
  BY <1>1, <1>2, PTL DEF Spec

(* Wherever the producers grow the ring and the background thread empties  *)
(* it, the FULL buffers are those from _prst_buf up to _curr_buf, and the  *)
(* assertion of persist (log.cpp:124) holds.                               *)
THEOREM RingKeepsShape == Spec => []RingShape
<1>1. Inv => RingShape
  BY DEF Inv
<1> QED
  BY <1>1, InvAlways, PTL

(* However the threads interleave, also in the race on _lst_lts, a line is *)
(* given up only after MEM_USE_LIMIT was reached.                          *)
THEOREM DropsAtLimit == Spec => []DropsOnlyAtLimit
<1>1. Inv => DropsOnlyAtLimit
  BY DEF Inv, LimitFirst, DropsOnlyAtLimit
<1> QED
  BY <1>1, InvAlways, PTL

-----------------------------------------------------------------------------
(* FlattenSeq.                                                             *)

(* Induction up to n, about a set of numbers.                              *)
LEMMA UpTo ==
    ASSUME NEW n \in Nat, NEW T, 1 \in T, \A k \in 1..n : k < n /\ k \in T => k + 1 \in T
    PROVE  \A k \in 1..n : k \in T
<1> DEFINE Bad == {k \in 1..n : k \notin T}
<1>1. SUFFICES ASSUME Bad # {} PROVE FALSE
  BY Zenon
<1>2. Bad \subseteq Nat
  OBVIOUS
<1> DEFINE Before == {ss \in Nat \X Nat : ss[1] < ss[2]}
<1>3. PICK x \in Bad : \A y \in Bad : <<y, x>> \notin Before
  <2>1. IsWellFoundedOn(Before, Nat)
    BY NatLessThanWellFounded, Zenon DEF OpToRel
  <2> HIDE DEF Bad, Before
  <2> QED
    BY <1>1, <1>2, <2>1, WFMin, Zenon
<1>4. \A y \in Bad : ~(y < x)
  BY <1>2, <1>3
<1>5. x \in 1..n /\ x \notin T /\ x # 1
  BY <1>3
<1>6. x - 1 \in 1..n /\ x - 1 < x /\ x - 1 < n /\ (x - 1) + 1 = x
  BY <1>5
<1>7. x - 1 \in T
  BY <1>4, <1>6
<1> QED
  BY <1>5, <1>6, <1>7

LEMMA ConcatAssoc ==
    ASSUME NEW L, NEW a \in Seq(L), NEW b \in Seq(L), NEW c \in Seq(L)
    PROVE  a \o (b \o c) = (a \o b) \o c
BY ConcatAssociative, SMTT(30)

LEMMA AppendBehind ==
    ASSUME NEW L, NEW a \in Seq(L), NEW b \in Seq(L), NEW c \in Seq(L),
           NEW ab, ab = a \o b, NEW bc, bc = b \o c, NEW abc, abc = ab \o c
    PROVE  abc = a \o bc
BY ConcatAssoc

(* FlattenSeq is defined by recursion; there is such a function.           *)
Flats(s, m, f) == f = [i \in 1..m |-> IF i = 1 THEN s[i] ELSE f[i - 1] \o s[i]]

LEMMA FlatsExists ==
    ASSUME NEW s, NEW n \in Nat \ {0}
    PROVE  \E f : Flats(s, n, f)
<1> DEFINE T == {m \in 1..n : \E f : Flats(s, m, f)}
<1>1. 1 \in T
  <2>1. Flats(s, 1, [i \in 1..1 |-> s[i]])
    BY DEF Flats
  <2> QED
    BY <2>1
<1>2. ASSUME NEW k \in 1..n, k < n, k \in T PROVE k + 1 \in T
  <2>1. PICK f : Flats(s, k, f)
    BY <1>2
  <2> DEFINE g == [i \in 1..(k + 1) |-> IF i = k + 1 THEN f[k] \o s[i] ELSE f[i]]
  <2>2. ASSUME NEW i \in 1..(k + 1)
        PROVE  g[i] = IF i = 1 THEN s[i] ELSE g[i - 1] \o s[i]
    <3>1. CASE i = k + 1
      <4>1. i # 1 /\ i - 1 = k /\ k \in 1..(k + 1) /\ k # k + 1
        BY <3>1
      <4> QED
        BY <3>1, <4>1
    <3>2. CASE i # k + 1
      <4>1. i \in 1..k /\ (i # 1 => i - 1 \in 1..k /\ i - 1 # k + 1)
        BY <3>2
      <4>2. f[i] = IF i = 1 THEN s[i] ELSE f[i - 1] \o s[i]
        BY <2>1, <4>1 DEF Flats
      <4> QED
        BY <3>2, <4>1, <4>2
    <3> QED
      BY <3>1, <3>2
  <2>3. Flats(s, k + 1, g)
    <3>1. g = [i \in 1..(k + 1) |-> g[i]]
      OBVIOUS
    <3> HIDE DEF g
    <3> QED
      BY <2>2, <3>1 DEF Flats
  <2>4. k + 1 \in 1..n
    BY <1>2
  <2> HIDE DEF g
  <2> QED
    BY <2>3, <2>4
<1>3. n \in T
  <2> HIDE DEF T
  <2>1. \A k \in 1..n : k \in T
    BY <1>1, <1>2, UpTo
  <2> QED
    BY <2>1
<1> QED
  BY <1>3

(* n sequences over L.                                                     *)
Parts(L, n, s) == Len(s) = n /\ \A i \in 1..n : s[i] \in Seq(L)

(* What they make when they are put one behind the other, as far as the    *)
(* i-th.                                                                   *)
Flattens(L, n, s, f) ==
    /\ f[1] = s[1] /\ \A i \in 2..n : f[i] = f[i - 1] \o s[i]
    /\ \A i \in 1..n : f[i] \in Seq(L)
    /\ FlattenSeq(s) = f[n]

LEMMA FlattenIs ==
    ASSUME NEW L, NEW n \in Nat \ {0}, NEW s, Parts(L, n, s)
    PROVE  /\ \E f : Flattens(L, n, s, f)
           /\ FlattenSeq(s) \in Seq(L)
<1> DEFINE c == CHOOSE f : Flats(s, n, f)
<1>1. Flats(s, n, c)
  BY FlatsExists, Zenon
<1>2. FlattenSeq(s) = c[n]
  BY DEF FlattenSeq, Flats, Parts
<1> HIDE DEF c
<1>3. \A i \in 1..n : c[i] = IF i = 1 THEN s[i] ELSE c[i - 1] \o s[i]
  BY <1>1 DEF Flats
<1>4. c[1] = s[1] /\ \A i \in 2..n : c[i] = c[i - 1] \o s[i]
  <2>1. 1 \in 1..n /\ \A i \in 2..n : i \in 1..n /\ i # 1
    OBVIOUS
  <2> QED
    BY <1>3, <2>1
<1> DEFINE T == {i \in 1..n : c[i] \in Seq(L)}
<1>5. \A i \in 1..n : i \in T
  <2>1. 1 \in T
    BY <1>4 DEF Parts
  <2>2. ASSUME NEW k \in 1..n, k < n, k \in T PROVE k + 1 \in T
    <3>1. k + 1 \in 2..n /\ k + 1 \in 1..n /\ (k + 1) - 1 = k
      BY <2>2
    <3>2. c[k + 1] = c[k] \o s[k + 1]
      BY <1>4, <3>1
    <3>3. c[k] \in Seq(L) /\ s[k + 1] \in Seq(L)
      BY <2>2, <3>1 DEF Parts
    <3> QED
      BY <3>1, <3>2, <3>3, ConcatProperties, ZenonT(30)
  <2> HIDE DEF T
  <2> QED
    BY <2>1, <2>2, UpTo
<1>6. Flattens(L, n, s, c)
  BY <1>2, <1>4, <1>5 DEF Flattens
<1>7. c[n] \in Seq(L)
  BY <1>5
<1> QED
  BY <1>2, <1>6, <1>7

Behind(a, b, c) == c = a \o b

(* Two sequences of sequences of which one is the other with ...           *)

(* ... an empty one behind the last.                                       *)
LEMMA FlattenLonger ==
    ASSUME NEW L, NEW n \in Nat \ {0}, NEW s, Parts(L, n, s), NEW t, Parts(L, n + 1, t),
           t[n + 1] = << >>, \A i \in 1..n : t[i] = s[i]
    PROVE  FlattenSeq(t) = FlattenSeq(s)
<1>1. PICK f : Flattens(L, n, s, f)
  BY FlattenIs
<1>2. PICK g : Flattens(L, n + 1, t, g)
  <2>1. n + 1 \in Nat \ {0}
    OBVIOUS
  <2> QED
    BY <2>1, FlattenIs
<1> DEFINE T == {i \in 1..n : g[i] = f[i]}
<1>3. n \in T
  <2>1. 1 \in T
    BY <1>1, <1>2 DEF Flattens
  <2>2. ASSUME NEW k \in 1..n, k < n, k \in T PROVE k + 1 \in T
    <3>1. k + 1 \in 2..n /\ k + 1 \in 2..(n + 1) /\ (k + 1) - 1 = k /\ k + 1 \in 1..n
      BY <2>2
    <3>2. f[k + 1] = f[k] \o s[k + 1] /\ g[k + 1] = g[k] \o t[k + 1]
      BY <1>1, <1>2, <3>1 DEF Flattens
    <3> QED
      BY <2>2, <3>1, <3>2
  <2> HIDE DEF T
  <2>3. \A k \in 1..n : k \in T
    BY <2>1, <2>2, UpTo
  <2> QED
    BY <2>3
<1>4. g[n + 1] = g[n] \o << >> /\ g[n] \in Seq(L)
  <2>1. n + 1 \in 2..(n + 1) /\ n \in 1..(n + 1) /\ (n + 1) - 1 = n
    OBVIOUS
  <2> QED
    BY <1>2, <2>1 DEF Flattens
<1>5. g[n + 1] = g[n]
  BY <1>4, ConcatEmptySeq
<1> QED
  BY <1>1, <1>2, <1>3, <1>5 DEF Flattens

(* ... some more at the end of the last that is not empty.                 *)
Grown(n, s, t, j, x) ==
    /\ t[j] = s[j] \o x
    /\ \A i \in 1..n : i # j => t[i] = s[i]
    /\ \A i \in 1..n : i > j => s[i] = << >>

LEMMA FlattenGrown ==
    ASSUME NEW L, NEW n \in Nat \ {0}, NEW s, Parts(L, n, s), NEW t, Parts(L, n, t),
           NEW x \in Seq(L), NEW j \in 1..n, Grown(n, s, t, j, x)
    PROVE  Behind(FlattenSeq(s), x, FlattenSeq(t))
<1>0. /\ t[j] = s[j] \o x
      /\ \A i \in 1..n : i # j => t[i] = s[i]
      /\ \A i \in 1..n : i > j => s[i] = << >>
  BY DEF Grown
<1>1. PICK f : Flattens(L, n, s, f)
  BY FlattenIs
<1>2. PICK g : Flattens(L, n, t, g)
  BY FlattenIs
<1> DEFINE T == {i \in 1..n : g[i] = IF i < j THEN f[i] ELSE f[i] \o x}
<1>3. n \in T
  <2>1. 1 \in T
    <3>1. f[1] = s[1] /\ g[1] = t[1] /\ 1 \in 1..n
      BY <1>1, <1>2 DEF Flattens
    <3>2. CASE j = 1
      <4>1. g[1] = f[1] \o x /\ ~(1 < j)
        BY <1>0, <3>1, <3>2
      <4> QED
        BY <3>1, <4>1
    <3>3. CASE j # 1
      <4>1. g[1] = f[1] /\ 1 < j
        BY <1>0, <3>1, <3>3
      <4> QED
        BY <3>1, <4>1
    <3> QED
      BY <3>2, <3>3
  <2>2. ASSUME NEW k \in 1..n, k < n, k \in T PROVE k + 1 \in T
    <3>1. k + 1 \in 2..n /\ (k + 1) - 1 = k /\ k + 1 \in 1..n
      BY <2>2
    <3>2. /\ f[k + 1] = f[k] \o s[k + 1] /\ g[k + 1] = g[k] \o t[k + 1]
          /\ f[k] \in Seq(L) /\ f[k + 1] \in Seq(L) /\ s[k + 1] \in Seq(L)
      BY <1>1, <1>2, <2>2, <3>1 DEF Flattens, Parts
    <3>3. g[k] = IF k < j THEN f[k] ELSE f[k] \o x
      BY <2>2
    <3>4. g[k + 1] = IF k + 1 < j THEN f[k + 1] ELSE f[k + 1] \o x
      <4>1. CASE k + 1 < j
        <5>1. k < j /\ k + 1 # j
          BY <4>1
        <5>2. g[k] = f[k] /\ t[k + 1] = s[k + 1]
          BY <1>0, <3>1, <3>3, <5>1
        <5> QED
          BY <3>2, <4>1, <5>2
      <4>2. CASE k + 1 = j
        <5>1. k < j /\ ~(k + 1 < j)
          BY <4>2
        <5>2. g[k + 1] = f[k] \o (s[k + 1] \o x)
          BY <1>0, <3>2, <3>3, <4>2, <5>1
        <5> DEFINE a == f[k]
                   b == s[k + 1]
        <5>3. a \o (b \o x) = (a \o b) \o x
          <6>1. a \in Seq(L) /\ b \in Seq(L)
            BY <3>2
          <6> HIDE DEF a, b
          <6> QED
            BY <6>1, ConcatAssoc
        <5> QED
          BY <3>2, <5>1, <5>2, <5>3
      <4>3. CASE k + 1 > j
        <5>1. ~(k < j) /\ ~(k + 1 < j) /\ k + 1 # j
          BY <4>3
        <5>2. t[k + 1] = << >> /\ s[k + 1] = << >>
          BY <1>0, <3>1, <4>3, <5>1
        <5>3. f[k] \o x \in Seq(L)
          BY <3>2, ConcatProperties
        <5>4. (f[k] \o x) \o << >> = f[k] \o x /\ f[k] \o << >> = f[k]
          BY <3>2, <5>3, ConcatEmptySeq
        <5> QED
          BY <3>2, <3>3, <5>1, <5>2, <5>4
      <4> QED
        BY <4>1, <4>2, <4>3
    <3> QED
      BY <3>1, <3>4
  <2> HIDE DEF T
  <2>3. \A k \in 1..n : k \in T
    BY <2>1, <2>2, UpTo
  <2> QED
    BY <2>3
<1>4. g[n] = f[n] \o x
  <2>1. ~(n < j)
    OBVIOUS
  <2> QED
    BY <1>3, <2>1
<1> QED
  BY <1>1, <1>2, <1>4 DEF Flattens, Behind

(* ... the first one left out.                                             *)
LEMMA FlattenFirst ==
    ASSUME NEW L, NEW n \in Nat \ {0}, NEW s, Parts(L, n, s), NEW t, Parts(L, n, t),
           t[1] = << >>, \A i \in 2..n : t[i] = s[i]
    PROVE  Behind(s[1], FlattenSeq(t), FlattenSeq(s))
<1>1. PICK f : Flattens(L, n, s, f)
  BY FlattenIs
<1>2. PICK g : Flattens(L, n, t, g)
  BY FlattenIs
<1> DEFINE T == {i \in 1..n : f[i] = s[1] \o g[i]}
<1>3. s[1] \in Seq(L)
  BY DEF Parts
<1>4. n \in T
  <2>1. 1 \in T
    <3>1. f[1] = s[1] /\ g[1] = << >> /\ 1 \in 1..n
      BY <1>1, <1>2 DEF Flattens
    <3>2. s[1] \o << >> = s[1]
      BY <1>3, ConcatEmptySeq
    <3> QED
      BY <3>1, <3>2
  <2>2. ASSUME NEW k \in 1..n, k < n, k \in T PROVE k + 1 \in T
    <3>1. k + 1 \in 2..n /\ (k + 1) - 1 = k /\ k + 1 \in 1..n
      BY <2>2
    <3>2. /\ f[k + 1] = f[k] \o s[k + 1] /\ g[k + 1] = g[k] \o s[k + 1]
          /\ g[k] \in Seq(L) /\ s[k + 1] \in Seq(L)
      BY <1>1, <1>2, <2>2, <3>1 DEF Flattens, Parts
    <3>3. f[k] = s[1] \o g[k]
      BY <2>2
    <3> DEFINE a == s[1]
               b == g[k]
               d == s[k + 1]
    <3>4. (a \o b) \o d = a \o (b \o d)
      <4>1. a \in Seq(L) /\ b \in Seq(L) /\ d \in Seq(L)
        BY <1>3, <3>2
      <4> HIDE DEF a, b, d
      <4> QED
        BY <4>1, ConcatAssociative
    <3> QED
      BY <3>1, <3>2, <3>3, <3>4
  <2> HIDE DEF T
  <2>3. \A k \in 1..n : k \in T
    BY <2>1, <2>2, UpTo
  <2> QED
    BY <2>3
<1>5. f[n] = s[1] \o g[n]
  BY <1>4
<1> QED
  BY <1>1, <1>2, <1>5 DEF Flattens, Behind

(* ... an empty first one gone and an empty one behind the last instead.   *)
LEMMA FlattenShift ==
    ASSUME NEW L, NEW n \in Nat \ {0}, NEW s, Parts(L, n + 1, s), NEW t, Parts(L, n + 1, t),
           s[1] = << >>, t[n + 1] = << >>, \A i \in 1..n : t[i] = s[i + 1]
    PROVE  FlattenSeq(t) = FlattenSeq(s)
<1>0. n + 1 \in Nat \ {0}
  OBVIOUS
<1>1. PICK f : Flattens(L, n + 1, s, f)
  BY <1>0, FlattenIs
<1>2. PICK g : Flattens(L, n + 1, t, g)
  BY <1>0, FlattenIs
<1> DEFINE T == {i \in 1..n : g[i] = f[i + 1]}
<1>3. n \in T
  <2>1. 1 \in T
    <3>1. 2 \in 2..(n + 1) /\ 2 \in 1..(n + 1) /\ 2 - 1 = 1 /\ 1 + 1 = 2 /\ 1 \in 1..n
      OBVIOUS
    <3>2. f[2] = << >> \o s[2] /\ g[1] = s[2] /\ s[2] \in Seq(L)
      BY <1>1, <1>2, <3>1 DEF Flattens, Parts
    <3>3. << >> \o s[2] = s[2]
      BY <3>2, ConcatEmptySeq
    <3> QED
      BY <3>1, <3>2, <3>3
  <2>2. ASSUME NEW k \in 1..n, k < n, k \in T PROVE k + 1 \in T
    <3>1. /\ k + 1 \in 2..(n + 1) /\ (k + 1) - 1 = k /\ k + 1 \in 1..n
          /\ (k + 1) + 1 \in 2..(n + 1) /\ ((k + 1) + 1) - 1 = k + 1
      BY <2>2
    <3>2. f[(k + 1) + 1] = f[k + 1] \o s[(k + 1) + 1]
      BY <1>1, <3>1 DEF Flattens
    <3>3. g[k + 1] = g[k] \o t[k + 1] /\ t[k + 1] = s[(k + 1) + 1]
      BY <1>2, <3>1 DEF Flattens
    <3> QED
      BY <2>2, <3>1, <3>2, <3>3
  <2> HIDE DEF T
  <2>3. \A k \in 1..n : k \in T
    BY <2>1, <2>2, UpTo
  <2> QED
    BY <2>3
<1>4. g[n] = f[n + 1]
  BY <1>3
<1>5. g[n + 1] = g[n] \o << >> /\ g[n] \in Seq(L)
  <2>1. n + 1 \in 2..(n + 1) /\ n \in 1..(n + 1) /\ (n + 1) - 1 = n
    OBVIOUS
  <2> QED
    BY <1>2, <2>1 DEF Flattens
<1>6. g[n + 1] = g[n]
  BY <1>5, ConcatEmptySeq
<1> QED
  BY <1>1, <1>2, <1>4, <1>6 DEF Flattens

-----------------------------------------------------------------------------
(* What is still to be written, by buffer: the one that was written last   *)
(* has not been cleared when persist is at "advance".                      *)
Texts(r, pc) == [i \in 1..Len(r) |-> IF pc = "advance" /\ i = 1 THEN << >> ELSE r[i].lines]
Rest == FlattenSeq(Texts(ring, cpc))

(* A thread that stands on a FULL buffer in MoveOn's critical section sees *)
(* in _lst_lts that its line has no place.                                 *)
Faithful == ~spoiled => /\ order = file \o Rest
                        /\ Locked /\ Full(curr) => lts

LEMMA TextsFacts ==
    ASSUME NEW r \in Seq(Buffer), Len(r) \in Nat \ {0}, NEW pc
    PROVE  /\ Parts(Lines, Len(r), Texts(r, pc))
           /\ \A i \in 1..Len(r) : Texts(r, pc)[i] = IF pc = "advance" /\ i = 1 THEN << >>
                                                     ELSE r[i].lines
           /\ FlattenSeq(Texts(r, pc)) \in Seq(Lines)
<1>1. \A i \in 1..Len(r) : r[i].lines \in Seq(Lines)
  <2>1. \A i \in 1..Len(r) : r[i] \in Buffer
    BY ElementOfSeq
  <2> QED
    BY <2>1 DEF Buffer
<1> DEFINE n == Len(r)
<1>2. n \in Nat \ {0}
  OBVIOUS
<1>3. Texts(r, pc) = [i \in 1..n |-> IF pc = "advance" /\ i = 1 THEN << >> ELSE r[i].lines]
  BY DEF Texts
<1> HIDE DEF n
<1>4. Len(Texts(r, pc)) = n
  BY <1>2, <1>3
<1>5. \A i \in 1..n : Texts(r, pc)[i] = IF pc = "advance" /\ i = 1 THEN << >> ELSE r[i].lines
  BY <1>3
<1>6. \A i \in 1..n : Texts(r, pc)[i] \in Seq(Lines)
  BY <1>1, <1>5, EmptySeq DEF n
<1>7. Parts(Lines, n, Texts(r, pc))
  BY <1>4, <1>6 DEF Parts
<1>8. FlattenSeq(Texts(r, pc)) \in Seq(Lines)
  BY <1>2, <1>7, FlattenIs
<1> QED
  BY <1>5, <1>7, <1>8 DEF n

LEMMA TextsSame ==
    ASSUME NEW r, NEW q, Len(r) = Len(q), \A i \in 1..Len(r) : r[i].lines = q[i].lines,
           NEW pc, NEW pd, pc = "advance" <=> pd = "advance"
    PROVE  Texts(r, pc) = Texts(q, pd)
BY DEF Texts

(* A line that is appended to _curr_buf goes behind all the others.        *)
LEMMA RestAppended ==
    ASSUME LogAssumption, RingShape, NEW p \in Producers, ~Full(curr), HasRoom(curr),
           append(curr, Line(p)), cpc' = cpc
    PROVE  Rest' = Rest \o <<Line(p)>> /\ order' = order \o <<Line(p)>>
<1> DEFINE n == Len(ring)
           s == Texts(ring, cpc)
           t == Texts(ring', cpc)
           x == <<Line(p)>>
<1>1. /\ ring \in Seq(Buffer) /\ curr \in 1..n /\ n \in Nat \ {0} /\ x \in Seq(Lines)
      /\ \A i \in 1..n : ring[i] \in Buffer /\ ring[i].lines \in Seq(Lines)
  <2>1. Line(p) \in Lines
    BY DEF RingShape, Line, Lines, TypeOK
  <2>2. TypeOK
    BY DEF RingShape
  <2> QED
    BY <2>1, <2>2, RingFacts
<1>2. ring' \in Seq(Buffer)
  BY Appended DEF RingOK
<1>3. /\ Len(ring') = n /\ ring'[curr].lines = Append(ring[curr].lines, Line(p))
      /\ \A i \in 1..n : i # curr => ring'[i] = ring[i]
      /\ order' = Append(order, Line(p))
  BY <1>1, SMTT(30) DEF append, Buffer
<1>4. ring'[curr].lines = ring[curr].lines \o x /\ order' = order \o x
  <2>1. order \in Seq(Lines) /\ Line(p) \in Lines
    BY DEF RingShape, TypeOK, Line, Lines
  <2>2. \A ss \in Seq(Lines) : Append(ss, Line(p)) = ss \o <<Line(p)>>
    BY <2>1, AppendIsConcat
  <2> QED
    BY <1>1, <1>3, <2>1, <2>2
<1>5. /\ \A i \in 1..n : Full(i) <=> i < curr
      /\ \A i \in 1..n : i > curr => ring[i].lines = << >>
      /\ cpc = "advance" => curr # 1
  <2>1. \A i \in 1..n : Full(i) <=> i < curr
    BY NextFull
  <2>2. \A i \in 1..n : i > curr => ring[i].lines = << >>
    BY <1>1, <2>1 DEF RingShape
  <2>3. cpc = "advance" => curr # 1
    BY DEF RingShape
  <2> QED
    BY <2>1, <2>2, <2>3
<1>6. /\ Parts(Lines, n, s)
      /\ \A i \in 1..n : s[i] = IF cpc = "advance" /\ i = 1 THEN << >> ELSE ring[i].lines
  BY <1>1, TextsFacts
<1>7. /\ Parts(Lines, n, t)
      /\ \A i \in 1..n : t[i] = IF cpc = "advance" /\ i = 1 THEN << >> ELSE ring'[i].lines
  BY <1>1, <1>2, <1>3, TextsFacts
<1> HIDE DEF n, s, t, x
<1>8. Grown(n, s, t, curr, x)
  <2>1. s[curr] = ring[curr].lines /\ t[curr] = ring'[curr].lines
    BY <1>1, <1>5, <1>6, <1>7
  <2>2. \A i \in 1..n : i # curr => t[i] = s[i]
    BY <1>3, <1>6, <1>7
  <2>3. \A i \in 1..n : i > curr => s[i] = << >>
    BY <1>5, <1>6
  <2> QED
    BY <1>4, <2>1, <2>2, <2>3 DEF Grown
<1>9. Behind(FlattenSeq(s), x, FlattenSeq(t))
  <2>1. Parts(Lines, n, s) /\ Parts(Lines, n, t)
    BY <1>6, <1>7
  <2>2. n \in Nat \ {0} /\ curr \in 1..n /\ x \in Seq(Lines)
    BY <1>1
  <2> QED
    BY <1>8, <2>1, <2>2, FlattenGrown
<1> QED
  BY <1>4, <1>9 DEF Rest, s, t, x, Behind

LEMMA RestType ==
    ASSUME LogAssumption, RingShape
    PROVE  Rest \in Seq(Lines) /\ file \in Seq(Lines)
<1>1. ring \in Seq(Buffer) /\ Len(ring) \in Nat \ {0}
  BY RingFacts DEF RingShape
<1> QED
  BY <1>1, TextsFacts DEF Rest, RingShape, TypeOK

LEMMA FaithfulAppended ==
    ASSUME LogAssumption, RingShape, NEW p \in Producers, ~Full(curr), HasRoom(curr),
           append(curr, Line(p)), cpc' = cpc, file' = file, order = file \o Rest
    PROVE  order' = file' \o Rest'
<1>1. Rest' = Rest \o <<Line(p)>> /\ order' = order \o <<Line(p)>>
  BY RestAppended
<1>2. Rest \in Seq(Lines) /\ file \in Seq(Lines) /\ <<Line(p)>> \in Seq(Lines)
  BY RestType DEF RingShape, TypeOK, Line, Lines
<1>3. order = file \o Rest /\ file' = file
  OBVIOUS
<1> QED
  BY <1>1, <1>2, <1>3, AppendBehind

LEMMA FaithfulMovedOn ==
    ASSUME LogAssumption, RingShape, NEW p \in Producers, ~Full(curr),
           NextFree(p) \/ NewBuffer(p) \/ NoMoreSpace(p), cpc' = cpc
    PROVE  Rest' = Rest /\ (ring'[curr'].status = "FULL" => lts')
<1>1. /\ ring \in Seq(Buffer) /\ Len(ring) \in Nat /\ Len(ring) >= 2 /\ curr \in 1..Len(ring)
      /\ Succ(curr) \in 1..Len(ring) /\ Succ(curr) # curr
  BY RingFacts DEF RingShape
<1>2. /\ Filled \in Seq(Buffer) /\ Len(Filled) = Len(ring)
      /\ \A i \in 1..Len(ring) :
            /\ Filled[i].lines = ring[i].lines
            /\ Filled[i].status = IF i = curr THEN "FULL" ELSE ring[i].status
  BY FilledFacts DEF RingShape
<1>3. Texts(Filled, cpc) = Texts(ring, cpc)
  BY <1>2, TextsSame
<1>4. CASE NextFree(p)
  <2>1. ring' = Filled /\ curr' = Succ(curr) /\ ring[Succ(curr)].status = "FREE"
    BY <1>4 DEF NextFree
  <2>2. ring'[curr'].status # "FULL"
    BY <1>1, <1>2, <2>1
  <2> QED
    BY <1>3, <2>1, <2>2 DEF Rest
<1>5. CASE NewBuffer(p)
  <2> DEFINE n == Len(ring)
  <2>1. ring' = InsertAt(Filled, Len(Filled) + 1, Fresh) /\ curr' = n + 1
    BY <1>2, <1>5, NextFull DEF NewBuffer, Full
  <2>2. ring' = Append(Filled, Fresh)
    BY <1>2, <2>1, InsertLast, FreshFacts
  <2>3. /\ ring' \in Seq(Buffer) /\ Len(ring') = n + 1
        /\ \A i \in 1..n : ring'[i] = Filled[i]
        /\ ring'[n + 1] = Fresh
    BY <1>2, <2>2, AppendProperties, FreshFacts
  <2>4. n \in Nat \ {0} /\ n + 1 \in Nat \ {0} /\ n >= 2
    BY <1>1
  <2> DEFINE s == Texts(Filled, cpc)
             t == Texts(ring', cpc)
  <2>5. /\ Parts(Lines, n, s)
        /\ \A i \in 1..n : s[i] = IF cpc = "advance" /\ i = 1 THEN << >> ELSE Filled[i].lines
    BY <1>2, <2>4, TextsFacts
  <2>6. /\ Parts(Lines, n + 1, t)
        /\ \A i \in 1..n + 1 : t[i] = IF cpc = "advance" /\ i = 1 THEN << >>
                                      ELSE ring'[i].lines
    BY <2>3, <2>4, TextsFacts
  <2> HIDE DEF n, s, t
  <2>7. t[n + 1] = << >> /\ \A i \in 1..n : t[i] = s[i]
    <3>1. n + 1 \in 1..n + 1 /\ n + 1 # 1 /\ \A i \in 1..n : i \in 1..n + 1
      BY <2>4
    <3>2. t[n + 1] = << >>
      BY <2>3, <2>6, <3>1, FreshFacts
    <3>3. \A i \in 1..n : t[i] = s[i]
      BY <2>3, <2>5, <2>6, <3>1
    <3> QED
      BY <3>2, <3>3
  <2>8. FlattenSeq(t) = FlattenSeq(s)
    BY <2>4, <2>5, <2>6, <2>7, FlattenLonger
  <2>9. ring'[curr'].status # "FULL"
    BY <2>1, <2>3, FreshFacts
  <2> QED
    BY <1>3, <2>8, <2>9 DEF Rest, s, t
<1>6. CASE NoMoreSpace(p)
  BY <1>3, <1>6 DEF NoMoreSpace, Rest
<1> QED
  BY <1>4, <1>5, <1>6

LEMMA FaithfulProducer ==
    ASSUME LogAssumption, Inv, Faithful, NEW p \in Producers, try_append(p)
    PROVE  Faithful'
<1> USE DEF Goes
<1>1. RingShape /\ TypeOK /\ RetestAlone /\ cpc' = cpc /\ file' = file
  BY DEF Inv, RingShape, try_append, Suppress, Format, ClearLts, AppendHere, MoveOn, Retest,
     GiveUp
<1>2. SUFFICES ASSUME ~spoiled'
               PROVE  order' = file' \o Rest' /\ (Locked' /\ Full(curr)' => lts')
  BY DEF Faithful
<1>3. ~spoiled
  BY <1>2 DEF try_append, Suppress, Format, ClearLts, AppendHere, MoveOn, Retest, GiveUp
<1>4. order = file \o Rest /\ (Locked /\ Full(curr) => lts)
  BY <1>3 DEF Faithful
<1>5. ASSUME ring' = ring, order' = order, curr' = curr
      PROVE  order' = file' \o Rest' /\ (Full(curr)' <=> Full(curr))
  BY <1>1, <1>4, <1>5 DEF Rest, Full
<1>6. CASE Suppress(p) \/ Format(p)
  <2>1. /\ ring' = ring /\ order' = order /\ curr' = curr /\ lts' = lts
        /\ Locked' => Locked
    BY <1>1, <1>6 DEF Suppress, Format, Locked, TypeOK
  <2> QED
    BY <1>4, <1>5, <2>1
<1>7. CASE ClearLts(p)
  <2>1. /\ ring' = ring /\ order' = order /\ curr' = curr /\ (Locked' => Locked)
        /\ spoiled' = (spoiled \/ (Locked /\ lts))
    BY <1>1, <1>7 DEF ClearLts, Locked, TypeOK
  <2>2. ~(Locked /\ lts)
    BY <1>2, <2>1
  <2> QED
    BY <1>4, <1>5, <2>1, <2>2
<1>8. CASE AppendHere(p)
  <2>1. /\ ~Full(curr) /\ HasRoom(curr) /\ append(curr, Line(p)) /\ ~Locked'
    BY <1>1, <1>8 DEF AppendHere, Full, Locked, TypeOK
  <2> QED
    BY <1>1, <1>4, <2>1, FaithfulAppended
<1>9. CASE MoveOn(p)
  <2>1. ~Full(curr) /\ (NextFree(p) \/ NewBuffer(p) \/ NoMoreSpace(p)) /\ order' = order
    BY <1>9 DEF MoveOn, Full
  <2>2. Rest' = Rest /\ (ring'[curr'].status = "FULL" => lts')
    BY <1>1, <2>1, FaithfulMovedOn
  <2> QED
    BY <1>1, <1>4, <2>1, <2>2 DEF Full
<1>10. CASE Retest(p)
  <2>1. /\ Locked /\ curr' = curr
        /\ \/ lts /\ UNCHANGED <<ring, order>>
           \/ ~lts /\ append(curr, Line(p))
    BY <1>10 DEF Retest, Locked
  <2>2. ~Locked'
    BY <1>1, <1>10 DEF Retest, RetestAlone, Locked, TypeOK
  <2>3. order' = file' \o Rest'
    <3>1. CASE UNCHANGED <<ring, order>>
      BY <1>5, <2>1, <3>1
    <3>2. CASE ~lts /\ append(curr, Line(p)) /\ HasRoom(curr)
      BY <1>1, <1>4, <2>1, <3>2, FaithfulAppended
    <3>3. CASE append(curr, Line(p)) /\ ~HasRoom(curr)
      <4>1. UNCHANGED <<ring, order>>
        BY <3>3 DEF append
      <4> QED
        BY <1>5, <2>1, <4>1
    <3> QED
      BY <2>1, <3>1, <3>2, <3>3
  <2> QED
    BY <2>2, <2>3
<1>11. CASE GiveUp(p)
  <2>1. ring' = ring /\ order' = order /\ curr' = curr /\ lts' = TRUE
    BY <1>11 DEF GiveUp
  <2> QED
    BY <1>5, <2>1
<1> QED
  BY <1>6, <1>7, <1>8, <1>9, <1>10, <1>11 DEF try_append

LEMMA FaithfulWritten ==
    ASSUME LogAssumption, RingShape, Write, order = file \o Rest
    PROVE  order' = file' \o Rest'
<1> DEFINE n == Len(ring)
           s == Texts(ring, cpc)
           t == Texts(ring, "advance")
<1>1. ring \in Seq(Buffer) /\ n \in Nat \ {0}
  BY RingFacts DEF RingShape
<1>2. /\ cpc = "write" /\ cpc' = "advance" /\ file' = file \o ring[1].lines
      /\ order' = order /\ ring' = ring
  BY DEF Write
<1>3. /\ Parts(Lines, n, s) /\ FlattenSeq(s) \in Seq(Lines)
      /\ \A i \in 1..n : s[i] = ring[i].lines
  <2>1. /\ Parts(Lines, n, s) /\ FlattenSeq(s) \in Seq(Lines)
        /\ \A i \in 1..n : s[i] = IF cpc = "advance" /\ i = 1 THEN << >> ELSE ring[i].lines
    BY <1>1, TextsFacts
  <2> HIDE DEF n, s
  <2> QED
    BY <1>2, <2>1
<1>4. /\ Parts(Lines, n, t) /\ FlattenSeq(t) \in Seq(Lines)
      /\ \A i \in 1..n : t[i] = IF i = 1 THEN << >> ELSE ring[i].lines
  <2>1. /\ Parts(Lines, n, t) /\ FlattenSeq(t) \in Seq(Lines)
        /\ \A i \in 1..n : t[i] = IF "advance" = "advance" /\ i = 1 THEN << >>
                                  ELSE ring[i].lines
    BY <1>1, TextsFacts
  <2> HIDE DEF n, t
  <2> QED
    BY <2>1
<1>5. Rest = FlattenSeq(s) /\ Rest' = FlattenSeq(t) /\ file \in Seq(Lines)
  BY <1>2, RestType DEF Rest
<1> HIDE DEF n, s, t
<1>6. s[1] \in Seq(Lines) /\ s[1] = ring[1].lines /\ t[1] = << >> /\ \A i \in 2..n : t[i] = s[i]
  <2>1. 1 \in 1..n /\ \A i \in 2..n : i \in 1..n /\ i # 1
    BY <1>1
  <2> QED
    BY <1>3, <1>4, <2>1 DEF Parts
<1>7. FlattenSeq(s) = s[1] \o FlattenSeq(t)
  <2>1. /\ Parts(Lines, n, s) /\ Parts(Lines, n, t) /\ n \in Nat \ {0}
        /\ t[1] = << >> /\ \A i \in 2..n : t[i] = s[i]
    BY <1>1, <1>3, <1>4, <1>6
  <2>2. Behind(s[1], FlattenSeq(t), FlattenSeq(s))
    BY <2>1, FlattenFirst
  <2> QED
    BY <2>2 DEF Behind
<1> DEFINE a == s[1]
           b == FlattenSeq(t)
<1>8. file \o (a \o b) = (file \o a) \o b
  <2>1. a \in Seq(Lines) /\ b \in Seq(Lines) /\ file \in Seq(Lines)
    BY <1>4, <1>5, <1>6
  <2> HIDE DEF a, b
  <2> QED
    BY <2>1, ConcatAssoc, SMTT(30)
<1> QED
  BY <1>2, <1>5, <1>6, <1>7, <1>8

LEMMA FaithfulAdvanced ==
    ASSUME LogAssumption, RingShape, Advance
    PROVE  Rest' = Rest
<1> DEFINE n == Len(ring) - 1
           s == Texts(ring, cpc)
           t == Texts(ring', cpc')
<1>1. /\ ring \in Seq(Buffer) /\ Len(ring) = n + 1 /\ n \in Nat \ {0} /\ ring # << >>
  <2>1. ring \in Seq(Buffer) /\ Len(ring) \in Nat /\ Len(ring) >= 2
    BY RingFacts DEF RingShape
  <2>2. ring # << >>
    BY <2>1, EmptySeq
  <2>3. \A k \in Nat : k >= 2 => k = (k - 1) + 1 /\ k - 1 \in Nat \ {0}
    OBVIOUS
  <2>4. Len(ring) = n + 1 /\ n \in Nat \ {0}
    BY <2>1, <2>3
  <2> QED
    BY <2>1, <2>2, <2>4
<1>2. /\ cpc = "advance" /\ cpc' = "lock" /\ ring' = Append(Tail(ring), Fresh)
  BY DEF Advance
<1>3. /\ Tail(ring) \in Seq(Buffer) /\ Len(Tail(ring)) = n
      /\ \A i \in 1..n : Tail(ring)[i] = ring[i + 1]
  BY <1>1, HeadTailProperties
<1>4. /\ ring' \in Seq(Buffer) /\ Len(ring') = n + 1
      /\ \A i \in 1..n : ring'[i] = ring[i + 1]
      /\ ring'[n + 1] = Fresh
  BY <1>2, <1>3, AppendProperties, FreshFacts
<1>5. n + 1 \in Nat \ {0}
  BY <1>1
<1>6. /\ Parts(Lines, n + 1, s)
      /\ \A i \in 1..n + 1 : s[i] = IF i = 1 THEN << >> ELSE ring[i].lines
  BY <1>1, <1>2, <1>5, TextsFacts
<1>7. /\ Parts(Lines, n + 1, t)
      /\ \A i \in 1..n + 1 : t[i] = ring'[i].lines
  <2>1. /\ Parts(Lines, n + 1, t)
        /\ \A i \in 1..n + 1 : t[i] = IF cpc' = "advance" /\ i = 1 THEN << >>
                                      ELSE ring'[i].lines
    BY <1>4, <1>5, TextsFacts
  <2> HIDE DEF n, t
  <2> QED
    BY <1>2, <2>1
<1>8. Rest = FlattenSeq(s) /\ Rest' = FlattenSeq(t)
  BY DEF Rest
<1> HIDE DEF n, s, t
<1>9. s[1] = << >> /\ t[n + 1] = << >> /\ \A i \in 1..n : t[i] = s[i + 1]
  <2>1. /\ 1 \in 1..n + 1 /\ n + 1 \in 1..n + 1
        /\ \A i \in 1..n : i \in 1..n + 1 /\ i + 1 \in 1..n + 1 /\ i + 1 # 1
    BY <1>1
  <2>2. s[1] = << >> /\ t[n + 1] = << >>
    BY <1>4, <1>6, <1>7, <2>1, FreshFacts
  <2>3. \A i \in 1..n : t[i] = s[i + 1]
    BY <1>4, <1>6, <1>7, <2>1
  <2> QED
    BY <2>2, <2>3
<1>10. FlattenSeq(t) = FlattenSeq(s)
  <2>1. Parts(Lines, n + 1, s) /\ Parts(Lines, n + 1, t) /\ n \in Nat \ {0}
    BY <1>1, <1>6, <1>7
  <2> QED
    BY <1>9, <2>1, FlattenShift
<1> QED
  BY <1>8, <1>10

LEMMA FaithfulPersist ==
    ASSUME LogAssumption, Inv, Faithful, persist
    PROVE  Faithful'
<1>1. RingShape /\ TypeOK
  BY DEF Inv, RingShape
<1>2. SUFFICES ASSUME ~spoiled'
               PROVE  order' = file' \o Rest' /\ (Locked' /\ Full(curr)' => lts')
  BY DEF Faithful
<1>3. ~spoiled /\ order' = order /\ lts' = lts /\ (Locked' <=> Locked)
  BY <1>2 DEF persist, Take, Await, NothingThere, TakeFree, TakeFull, NoFile, Write, WriteShort,
     Advance, Locked
<1>4. order = file \o Rest /\ (Locked /\ Full(curr) => lts)
  BY <1>3 DEF Faithful
<1>5. CASE Await \/ NothingThere \/ TakeFull \/ NoFile
  <2>1. /\ ring' = ring /\ curr' = curr /\ file' = file
        /\ cpc # "advance" /\ cpc' # "advance"
    BY <1>5 DEF Await, NothingThere, TakeFull, NoFile, Look
  <2>2. Texts(ring', cpc') = Texts(ring, cpc)
    BY <2>1, TextsSame
  <2> QED
    BY <1>3, <1>4, <2>1, <2>2 DEF Rest, Full
<1>6. CASE TakeFree
  <2>1. /\ ring' = Filled /\ file' = file /\ ~Locked /\ cpc # "advance" /\ cpc' # "advance"
    BY <1>6 DEF TakeFree, Look
  <2>2. Len(Filled) = Len(ring) /\ \A i \in 1..Len(ring) : Filled[i].lines = ring[i].lines
    BY <1>1, FilledFacts
  <2>3. Texts(Filled, cpc') = Texts(ring, cpc)
    BY <2>1, <2>2, TextsSame
  <2> QED
    BY <1>3, <1>4, <2>1, <2>3 DEF Rest
<1>7. CASE Write
  <2>1. order' = file' \o Rest'
    BY <1>1, <1>4, <1>7, FaithfulWritten
  <2> QED
    BY <1>3, <1>4, <1>7, <2>1 DEF Write, Full
<1>8. CASE WriteShort
  BY <1>2, <1>8 DEF WriteShort
<1>9. CASE Advance
  <2>1. Rest' = Rest
    BY <1>1, <1>9, FaithfulAdvanced
  <2> QED
    BY <1>3, <1>4, <1>9, <2>1 DEF Advance
<1> QED
  BY <1>5, <1>6, <1>7, <1>8, <1>9 DEF persist, Take

LEMMA FlattenEmpty ==
    ASSUME NEW L, NEW n \in Nat \ {0}, NEW s, Parts(L, n, s), \A i \in 1..n : s[i] = << >>
    PROVE  FlattenSeq(s) = << >>
<1>1. PICK f : Flattens(L, n, s, f)
  BY FlattenIs
<1> DEFINE T == {i \in 1..n : f[i] = << >>}
<1>2. 1 \in T
  BY <1>1 DEF Flattens
<1>3. ASSUME NEW k \in 1..n, k < n, k \in T PROVE k + 1 \in T
  <2>1. k + 1 \in 2..n /\ (k + 1) - 1 = k /\ k + 1 \in 1..n
    BY <1>3
  <2>2. f[k + 1] = f[k] \o << >> /\ f[k] \in Seq(L)
    BY <1>1, <1>3, <2>1 DEF Flattens
  <2>3. f[k + 1] = f[k]
    BY <2>2, ConcatEmptySeq
  <2> QED
    BY <1>3, <2>1, <2>3
<1> HIDE DEF T
<1>4. \A k \in 1..n : k \in T
  BY <1>2, <1>3, UpTo
<1>5. n \in T
  BY <1>4
<1> QED
  BY <1>1, <1>5 DEF Flattens, T

LEMMA SubSeqBehind ==
    ASSUME NEW L, NEW a \in Seq(L), NEW b \in Seq(L), NEW c, Behind(a, b, c)
    PROVE  SubSeq(c, Len(a) + 1, Len(c)) = b
<1>1. c = a \o b /\ Len(a) \in Nat /\ Len(b) \in Nat /\ a \o b \in Seq(L)
      /\ Len(a \o b) = Len(a) + Len(b)
  BY ConcatProperties, LenProperties DEF Behind
<1>2. CASE b = << >>
  <2>1. Len(c) < Len(a) + 1 /\ Len(c) \in Int /\ Len(a) + 1 \in Int
    BY <1>1, <1>2
  <2> QED
    BY <1>2, <2>1, SubSeqEmpty
<1>3. CASE b # << >>
  <2> DEFINE m == Len(a) + 1
             k == Len(a) + Len(b)
  <2>1. Len(b) # 0
    BY <1>3, EmptySeq
  <2>2. /\ m \in Len(a) + 1..Len(a) + Len(b) /\ k \in Len(a) + 1..Len(a) + Len(b)
        /\ m - Len(a) = 1 /\ k - Len(a) = Len(b)
    BY <1>1, <2>1
  <2> HIDE DEF m, k
  <2>3. SubSeq(a \o b, m, k) = SubSeq(b, m - Len(a), k - Len(a))
    BY <2>2, SubSeqOfConcat2
  <2>4. SubSeq(b, 1, Len(b)) = b
    BY SubSeqFull
  <2> QED
    BY <1>1, <2>2, <2>3, <2>4 DEF m, k
<1> QED
  BY <1>2, <1>3

LEMMA FaithfulInit ==
    ASSUME LogAssumption, Init
    PROVE  Faithful
<1> DEFINE n == Len(ring)
           s == Texts(ring, cpc)
<1>1. RingShape /\ ring = [i \in 1..InitBuffs |-> Fresh] /\ cpc = "lock" /\ file = << >>
      /\ order = << >> /\ ~Locked
  BY InvInit DEF Inv, Init, Locked
<1>2. ring \in Seq(Buffer) /\ n \in Nat \ {0} /\ \A i \in 1..n : ring[i].lines = << >>
  <2>1. ring \in Seq(Buffer) /\ n \in Nat \ {0}
    BY <1>1, RingFacts DEF RingShape
  <2>2. n = InitBuffs
    BY <1>1 DEF LogAssumption
  <2> QED
    BY <1>1, <2>1, <2>2, FreshFacts
<1>3. /\ Parts(Lines, n, s)
      /\ \A i \in 1..n : s[i] = IF cpc = "advance" /\ i = 1 THEN << >> ELSE ring[i].lines
  BY <1>2, TextsFacts
<1>4. Rest = FlattenSeq(s)
  BY DEF Rest
<1> HIDE DEF n, s
<1>5. Parts(Lines, n, s) /\ \A i \in 1..n : s[i] = << >>
  BY <1>2, <1>3
<1>6. Rest = << >>
  BY <1>2, <1>4, <1>5, FlattenEmpty
<1>7. << >> \o << >> = << >>
  BY EmptySeq, ConcatEmptySeq
<1> QED
  BY <1>1, <1>6, <1>7 DEF Faithful

LEMMA FaithfulStep ==
    ASSUME LogAssumption, Inv, Faithful, [Next]_vars
    PROVE  Faithful'
<1>1. CASE \E p \in Producers : try_append(p)
  BY <1>1, FaithfulProducer
<1>2. CASE persist
  BY <1>2, FaithfulPersist
<1>3. CASE UNCHANGED vars
  BY <1>3 DEF vars, Faithful, Rest, Texts, Locked, Full
<1> QED
  BY <1>1, <1>2, <1>3 DEF Next

LEMMA FaithfulIs ==
    ASSUME LogAssumption, RingShape, Faithful
    PROVE  LogFaithful
<1> DEFINE n == Len(ring)
           s == Texts(ring, "write")
           t == Texts(ring, "advance")
<1>1. SUFFICES ASSUME ~spoiled PROVE LogFaithful
  BY DEF LogFaithful
<1>2. order = file \o Rest
  BY <1>1 DEF Faithful
<1>3. ring \in Seq(Buffer) /\ n \in Nat \ {0}
  BY RingFacts DEF RingShape
<1>4. s = [i \in 1..Len(ring) |-> ring[i].lines] /\ Pending = FlattenSeq(s)
  BY DEF Texts, Pending
<1>5. CASE cpc = "advance"
  <2>1. Rest = FlattenSeq(t)
    BY <1>5 DEF Rest
  <2>2. /\ Parts(Lines, n, s) /\ Parts(Lines, n, t)
        /\ FlattenSeq(s) \in Seq(Lines) /\ FlattenSeq(t) \in Seq(Lines)
        /\ \A i \in 1..n : s[i] = IF "write" = "advance" /\ i = 1 THEN << >>
                                  ELSE ring[i].lines
        /\ \A i \in 1..n : t[i] = IF "advance" = "advance" /\ i = 1 THEN << >>
                                  ELSE ring[i].lines
    BY <1>3, TextsFacts
  <2> HIDE DEF n, s, t
  <2>3. s[1] = ring[1].lines /\ s[1] \in Seq(Lines) /\ t[1] = << >>
        /\ \A i \in 2..n : t[i] = s[i]
    <3>1. 1 \in 1..n /\ \A i \in 2..n : i \in 1..n /\ i # 1
      BY <1>3
    <3> QED
      BY <2>2, <3>1 DEF Parts
  <2>4. Behind(s[1], FlattenSeq(t), FlattenSeq(s))
    BY <1>3, <2>2, <2>3, FlattenFirst
  <2>5. SubSeq(FlattenSeq(s), Len(s[1]) + 1, Len(FlattenSeq(s))) = FlattenSeq(t)
    BY <2>2, <2>3, <2>4, SubSeqBehind
  <2> QED
    BY <1>2, <1>4, <1>5, <2>1, <2>3, <2>5 DEF LogFaithful
<1>6. CASE cpc # "advance"
  <2>1. Texts(ring, cpc) = s
    BY <1>6, TextsSame, SMTT(30)
  <2>2. Rest = Pending
    BY <1>4, <2>1, Zenon DEF Rest
  <2> QED
    BY <1>2, <1>6, <2>2, Zenon DEF LogFaithful
<1> QED
  BY <1>5, <1>6

LEMMA FaithfulAlways == Spec => [](Inv /\ Faithful)
<1> USE LogAssumption
<1>1. Init => Inv /\ Faithful
  BY InvInit, FaithfulInit
<1>2. Inv /\ Faithful /\ [Next]_vars => (Inv /\ Faithful)'
  BY InvStep, FaithfulStep
<1> QED
  BY <1>1, <1>2, PTL DEF Spec

(* Whatever the producers, the ring and the background thread do, the log  *)
(* file followed by the ring is every line that was put into the ring, in  *)
(* that order, until a short fwrite or the race on _lst_lts.               *)
THEOREM NoLineLost == Spec => []LogFaithful
<1> USE LogAssumption
<1>1. Inv /\ Faithful => LogFaithful
  BY FaithfulIs DEF Inv
<1> QED
  BY <1>1, FaithfulAlways, PTL

-----------------------------------------------------------------------------
(* The files.                                                              *)
LogFile == Seq(Lines)

(* The files of one day, the oldest first.                                 *)
OneDay(logs) == FlattenSeq(Reverse(logs))

LEMMA ReverseFacts ==
    ASSUME NEW logs \in Seq(LogFile)
    PROVE  /\ Len(logs) \in Nat
           /\ Parts(Lines, Len(logs), Reverse(logs)) /\ Parts(Lines, Len(logs), logs)
           /\ \A i \in 1..Len(logs) : Reverse(logs)[i] = logs[Len(logs) - i + 1]
<1> DEFINE n == Len(logs)
           r == Reverse(logs)
<1>1. n \in Nat /\ \A i \in 1..n : logs[i] \in LogFile
  BY ElementOfSeq, LenProperties
<1>2. r = [i \in 1..n |-> logs[n - i + 1]]
  BY DEF Reverse
<1> HIDE DEF n, r
<1>3. Len(r) = n /\ \A i \in 1..n : r[i] = logs[n - i + 1] /\ n - i + 1 \in 1..n
  BY <1>1, <1>2
<1>4. \A i \in 1..n : r[i] \in LogFile
  BY <1>1, <1>3
<1> QED
  BY <1>1, <1>3, <1>4 DEF Parts, LogFile, n, r

LEMMA NoFileNoLine ==
    FlattenSeq(Reverse(<< >>)) = << >>
<1> DEFINE r == Reverse(<< >>)
<1>1. Len(r) = 0 /\ r = << >>
  BY DEF Reverse
<1> HIDE DEF r
<1>2. FlattenSeq(r) = r
  BY <1>1 DEF FlattenSeq
<1> QED
  BY <1>1, <1>2 DEF r

LEMMA OneDayType ==
    ASSUME NEW logs \in Seq(LogFile)
    PROVE  OneDay(logs) \in Seq(Lines)
<1>1. CASE logs = << >>
  BY <1>1, NoFileNoLine, EmptySeq DEF OneDay
<1>2. CASE logs # << >>
  <2>1. Len(logs) \in Nat \ {0}
    BY <1>2, ReverseFacts, EmptySeq
  <2> QED
    BY <2>1, ReverseFacts, FlattenIs DEF OneDay
<1> QED
  BY <1>1, <1>2

(* A new empty file in front of the others.                                *)
LEMMA OneDayRenamed ==
    ASSUME NEW logs \in Seq(LogFile)
    PROVE  /\ <<<< >>>> \o logs \in Seq(LogFile)
           /\ Len(<<<< >>>> \o logs) = Len(logs) + 1
           /\ (<<<< >>>> \o logs)[1] = << >>
           /\ OneDay(<<<< >>>> \o logs) = OneDay(logs)
<1> DEFINE n == Len(logs)
           e == <<<< >>>>
           t == e \o logs
<1>1. e \in Seq(LogFile) /\ Len(e) = 1 /\ e[1] = << >>
  <2>1. << >> \in LogFile
    BY EmptySeq DEF LogFile
  <2> QED
    BY <2>1
<1>2. n \in Nat
  BY ReverseFacts
<1> HIDE DEF e
<1>3. /\ t \in Seq(LogFile) /\ Len(t) = n + 1 /\ t[1] = << >>
      /\ \A i \in 2..n + 1 : t[i] = logs[i - 1]
  <2>1. /\ t \in Seq(LogFile) /\ Len(t) = Len(e) + n
        /\ \A i \in 1..Len(e) + n : t[i] = IF i <= Len(e) THEN e[i] ELSE logs[i - Len(e)]
    BY <1>1, ConcatProperties
  <2>2. Len(e) + n = n + 1
    BY <1>1, <1>2
  <2>3. 1 \in 1..n + 1 /\ \A i \in 2..n + 1 : i \in 1..n + 1 /\ ~(i <= 1)
    BY <1>2
  <2> HIDE DEF t, n
  <2> QED
    BY <1>1, <2>1, <2>2, <2>3
<1> HIDE DEF t
<1>4. OneDay(t) = OneDay(logs)
  <2> DEFINE r == Reverse(logs)
             q == Reverse(t)
  <2>1. Parts(Lines, n, r) /\ \A i \in 1..n : r[i] = logs[n - i + 1]
    BY ReverseFacts
  <2>2. Parts(Lines, n + 1, q) /\ \A i \in 1..n + 1 : q[i] = t[n + 1 - i + 1]
    BY <1>3, ReverseFacts
  <2> HIDE DEF n, r, q
  <2>3. q[n + 1] = << >> /\ \A i \in 1..n : q[i] = r[i]
    <3>1. n + 1 \in 1..n + 1 /\ n + 1 - (n + 1) + 1 = 1
      BY <1>2
    <3>2. q[n + 1] = << >>
      BY <1>3, <2>2, <3>1
    <3>3. ASSUME NEW i \in 1..n PROVE q[i] = r[i]
      <4>1. /\ i \in 1..n + 1 /\ n + 1 - i + 1 \in 2..n + 1
            /\ (n + 1 - i + 1) - 1 = n - i + 1
        BY <1>2
      <4>2. q[i] = t[n + 1 - i + 1] /\ t[n + 1 - i + 1] = logs[(n + 1 - i + 1) - 1]
        BY <1>3, <2>2, <4>1
      <4> QED
        BY <2>1, <4>1, <4>2
    <3> QED
      BY <3>2, <3>3
  <2>4. CASE n = 0
    <3>1. logs = << >>
      BY <2>4, EmptySeq DEF n
    <3>2. 1 \in Nat \ {0} /\ Parts(Lines, 1, q) /\ \A i \in 1..1 : q[i] = << >>
      BY <2>2, <2>3, <2>4
    <3>3. FlattenSeq(q) = << >>
      BY <3>2, FlattenEmpty
    <3> QED
      BY <3>1, <3>3, NoFileNoLine DEF OneDay, q
  <2>5. CASE n # 0
    <3>1. n \in Nat \ {0}
      BY <1>2, <2>5
    <3>2. FlattenSeq(q) = FlattenSeq(r)
      BY <2>1, <2>2, <2>3, <3>1, FlattenLonger
    <3> QED
      BY <3>2 DEF OneDay, q, r
  <2> QED
    BY <2>4, <2>5
<1> QED
  BY <1>3, <1>4 DEF t, e, n

(* More lines in the newest file.                                          *)
LEMMA OneDayWritten ==
    ASSUME NEW logs \in Seq(LogFile), Len(logs) \in Nat \ {0}, NEW x \in Seq(Lines),
           NEW t, t = [logs EXCEPT ![1] = @ \o x]
    PROVE  /\ t \in Seq(LogFile) /\ Len(t) = Len(logs)
           /\ Behind(OneDay(logs), x, OneDay(t))
<1> DEFINE n == Len(logs)
           w == logs[1] \o x
<1>1. n \in Nat \ {0} /\ 1 \in 1..n /\ \A i \in 1..n : logs[i] \in LogFile
  BY ElementOfSeq
<1>2. w \in LogFile
  BY <1>1, ConcatProperties DEF LogFile
<1> HIDE DEF w
<1>3. /\ t \in Seq(LogFile) /\ Len(t) = n
      /\ \A i \in 1..n : t[i] = IF i = 1 THEN w ELSE logs[i]
  <2>1. t = [logs EXCEPT ![1] = w]
    BY DEF w
  <2> DEFINE l == [logs EXCEPT ![1] = w]
  <2>2. /\ l \in Seq(LogFile) /\ Len(l) = Len(logs)
        /\ \A i \in 1..Len(logs) : l[i] = IF i = 1 THEN w ELSE logs[i]
    BY <1>1, <1>2, ExceptSeq
  <2> HIDE DEF l
  <2>3. t = l
    BY <2>1 DEF l
  <2> QED
    BY <2>2, <2>3
<1> DEFINE r == Reverse(logs)
           q == Reverse(t)
<1>4. Parts(Lines, n, r) /\ \A i \in 1..n : r[i] = logs[n - i + 1]
  BY ReverseFacts
<1>5. Parts(Lines, n, q) /\ \A i \in 1..n : q[i] = t[n - i + 1]
  <2>1. Parts(Lines, Len(t), q) /\ \A i \in 1..Len(t) : q[i] = t[Len(t) - i + 1]
    BY <1>3, ReverseFacts
  <2> QED
    BY <1>3, <2>1
<1> HIDE DEF n, r, q
<1>6. Grown(n, r, q, n, x)
  <2>1. n \in 1..n /\ n - n + 1 = 1
    BY <1>1
  <2>2. q[n] = r[n] \o x
    <3>1. q[n] = t[n - n + 1] /\ r[n] = logs[n - n + 1] /\ t[1] = w
      BY <1>1, <1>3, <1>4, <1>5, <2>1
    <3> QED
      BY <2>1, <3>1 DEF w
  <2>3. \A i \in 1..n : i # n => n - i + 1 \in 1..n /\ n - i + 1 # 1
    BY <1>1
  <2>4. \A i \in 1..n : i # n => q[i] = r[i]
    BY <1>3, <1>4, <1>5, <2>3
  <2>5. \A i \in 1..n : ~(i > n)
    BY <1>1
  <2> QED
    BY <2>2, <2>4, <2>5 DEF Grown
<1>7. Behind(FlattenSeq(r), x, FlattenSeq(q))
  <2>1. n \in 1..n
    BY <1>1
  <2> QED
    BY <1>1, <1>4, <1>5, <1>6, <2>1, FlattenGrown
<1> QED
  BY <1>3, <1>7 DEF n, r, q, OneDay

AllDays(logs) == [d \in Days |-> OneDay(logs[d])]

LEMMA AllDaysFacts ==
    ASSUME FilesAssumption, NEW logs \in [Days -> Seq(LogFile)]
    PROVE  /\ Parts(Lines, LastDay, AllDays(logs)) /\ LastDay \in Nat \ {0}
           /\ \A d \in Days : AllDays(logs)[d] = OneDay(logs[d])
<1>1. LastDay \in Nat \ {0} /\ Days = 1..LastDay
  BY DEF FilesAssumption, Days
<1>2. \A d \in Days : OneDay(logs[d]) \in Seq(Lines)
  BY OneDayType
<1> DEFINE s == AllDays(logs)
<1>3. s = [d \in 1..LastDay |-> OneDay(logs[d])]
  BY <1>1 DEF AllDays
<1>4. Len(s) = LastDay /\ \A d \in 1..LastDay : s[d] = OneDay(logs[d])
  <2> HIDE DEF s
  <2> QED
    BY <1>1, <1>3
<1> HIDE DEF s
<1>5. Parts(Lines, LastDay, s)
  BY <1>1, <1>2, <1>4 DEF Parts
<1> QED
  BY <1>1, <1>4, <1>5 DEF s

(* The last day that has files grows.                                      *)
LEMMA AllDaysWritten ==
    ASSUME FilesAssumption, NEW F \in [Days -> Seq(LogFile)], NEW G \in [Days -> Seq(LogFile)],
           NEW e \in Days, NEW x \in Seq(Lines), Behind(OneDay(F[e]), x, OneDay(G[e])),
           \A d \in Days : d # e => G[d] = F[d], \A d \in Days : d > e => F[d] = << >>
    PROVE  Behind(FlattenSeq(AllDays(F)), x, FlattenSeq(AllDays(G)))
<1> DEFINE n == LastDay
           s == AllDays(F)
           t == AllDays(G)
<1>1. n \in Nat \ {0} /\ e \in 1..n /\ Days = 1..n
  BY AllDaysFacts DEF Days
<1>2. Parts(Lines, n, s) /\ \A d \in Days : s[d] = OneDay(F[d])
  BY AllDaysFacts
<1>3. Parts(Lines, n, t) /\ \A d \in Days : t[d] = OneDay(G[d])
  BY AllDaysFacts
<1> HIDE DEF n, s, t
<1>4. Grown(n, s, t, e, x)
  <2>1. t[e] = s[e] \o x
    BY <1>2, <1>3 DEF Behind
  <2>2. \A d \in 1..n : d # e => t[d] = s[d]
    BY <1>1, <1>2, <1>3
  <2>3. \A d \in 1..n : d > e => s[d] = << >>
    BY <1>1, <1>2, NoFileNoLine DEF OneDay
  <2> QED
    BY <2>1, <2>2, <2>3 DEF Grown
<1>5. Behind(FlattenSeq(s), x, FlattenSeq(t))
  BY <1>1, <1>2, <1>3, <1>4, FlattenGrown
<1> QED
  BY <1>5 DEF s, t

(* fopen empties a file that is empty already.                             *)
LEMMA TruncatedFacts ==
    ASSUME NEW logs \in Seq(LogFile), logs = << >> \/ logs[1] = << >>
    PROVE  /\ Truncated(logs) \in Seq(LogFile) /\ Truncated(logs)[1] = << >>
           /\ Len(Truncated(logs)) = IF logs = << >> THEN 1 ELSE Len(logs)
           /\ OneDay(Truncated(logs)) = OneDay(logs)
<1> DEFINE rest == SubSeq(logs, 2, Len(logs))
<1>1. Truncated(logs) = <<<< >>>> \o rest
  BY DEF Truncated
<1>2. Len(logs) \in Nat
  BY ReverseFacts
<1>3. CASE logs = << >>
  <2>1. Len(logs) = 0 /\ Len(logs) < 2
    BY <1>3, EmptySeq
  <2>2. rest = << >>
    BY <2>1, SubSeqEmpty
  <2>3. Truncated(logs) = <<<< >>>> \o logs
    BY <1>1, <1>3, <2>2
  <2> DEFINE t == <<<< >>>> \o logs
  <2>4. t \in Seq(LogFile) /\ Len(t) = Len(logs) + 1 /\ t[1] = << >> /\ OneDay(t) = OneDay(logs)
    BY OneDayRenamed
  <2>5. Truncated(logs) = t
    BY <2>3
  <2> HIDE DEF t
  <2> QED
    BY <1>3, <2>1, <2>4, <2>5
<1>4. CASE logs # << >>
  <2>1. Len(logs) \in Nat \ {0} /\ logs[1] = << >>
    BY <1>2, <1>4, EmptySeq
  <2>2. 1 \in 1..Len(logs) /\ Len(logs) \in 1..Len(logs)
    BY <2>1
  <2>3. SubSeq(logs, 1, Len(logs)) = <<logs[1]>> \o SubSeq(logs, 2, Len(logs))
    <3> DEFINE m == 1
    <3>1. SubSeq(logs, m, Len(logs)) = <<logs[m]>> \o SubSeq(logs, m + 1, Len(logs))
      <4>1. m \in 1..Len(logs)
        BY <2>2
      <4> HIDE DEF m
      <4> QED
        BY <2>2, <4>1, SubSeqRecursiveFirst
    <3>2. m + 1 = 2
      OBVIOUS
    <3> QED
      BY <3>1, <3>2
  <2>4. SubSeq(logs, 1, Len(logs)) = logs
    BY SubSeqFull
  <2>5. Truncated(logs) = logs
    BY <1>1, <2>1, <2>3, <2>4, Zenon
  <2> QED
    BY <1>4, <2>1, <2>5
<1> QED
  BY <1>3, <1>4

(* No rename overwrites a file as long as _log_cnt counts them all.        *)
LEMMA ShiftedFacts ==
    ASSUME NEW logs \in Seq(LogFile), fp.cnt \in Nat, Len(logs) <= fp.cnt
    PROVE  /\ Shifted(logs) \in Seq(LogFile) /\ Shifted(logs)[1] = << >>
           /\ Len(Shifted(logs)) = Len(logs) + 1
           /\ OneDay(Shifted(logs)) = OneDay(logs)
<1> DEFINE n == Min({fp.cnt, Len(logs)})
<1>1. Len(logs) \in Nat
  BY ReverseFacts
<1>2. n = Len(logs)
  BY <1>1 DEF Min
<1>3. Shifted(logs) = <<<< >>>> \o SubSeq(logs, 1, n) \o SubSeq(logs, n + 2, Len(logs))
  BY DEF Shifted
<1> HIDE DEF n
<1>4. SubSeq(logs, 1, n) = logs /\ SubSeq(logs, n + 2, Len(logs)) = << >>
  BY <1>1, <1>2, SubSeqFull, SubSeqEmpty
<1> DEFINE t == <<<< >>>> \o logs
<1>5. /\ t \in Seq(LogFile) /\ Len(t) = Len(logs) + 1 /\ t[1] = << >>
      /\ OneDay(t) = OneDay(logs)
  BY OneDayRenamed
<1>6. Shifted(logs) = t \o << >>
  BY <1>3, <1>4, Zenon
<1>7. t \o << >> = t
  <2> HIDE DEF t
  <2> QED
    BY <1>5, ConcatEmptySeq
<1> QED
  BY <1>5, <1>6, <1>7

-----------------------------------------------------------------------------
(* What decis_file relies on, of fp and of the files: none of a later day  *)
(* than _day, and of _day as many as _log_cnt counts, or one more that is  *)
(* still empty because it could not be opened.                             *)
FilesCounted(f, logs) ==
    IF f.open THEN Len(logs) \in 1..f.cnt
    ELSE logs = << >> \/ (logs[1] = << >> /\ Len(logs) <= f.cnt + 1)

FilesShape(f, F) ==
    /\ f \in [open : BOOLEAN, day : 0..LastDay, cnt : Nat, asked : 0..LastDay]
    /\ F \in [Days -> Seq(LogFile)]
    /\ f.day <= f.asked
    /\ f.open => f.day # 0
    /\ f.day # 0 => FilesCounted(f, F[f.day])
    /\ \A d \in Days : d > f.day => F[d] = << >>

(* The files while they are followed.  asked is a day that has come when   *)
(* persist has a buffer.                                                   *)
FilesOK ==
    /\ today \in Days
    /\ Followed => /\ FilesShape(fp, files)
                   /\ fp.asked <= today
                   /\ cpc = "write" => fp.asked # 0
                   /\ AllFiles = file

LEMMA AllFilesIs == AllFiles = FlattenSeq(AllDays(files))
BY DEF AllFiles, AllDays, OfDay, OneDay

LEMMA FilesSame ==
    ASSUME NEW F \in [Days -> Seq(LogFile)], NEW e \in Days, NEW logs \in Seq(LogFile),
           OneDay(logs) = OneDay(F[e])
    PROVE  /\ [F EXCEPT ![e] = logs] \in [Days -> Seq(LogFile)]
           /\ AllDays([F EXCEPT ![e] = logs]) = AllDays(F)
BY DEF AllDays

LEMMA OpenDayFacts ==
    ASSUME FilesAssumption, FilesShape(fp, files), fp.asked # 0, NewDay, NEW opened \in BOOLEAN
    PROVE  /\ FilesShape(OpenDay(opened).fp, OpenDay(opened).files)
           /\ OpenDay(opened).fp.asked = fp.asked /\ OpenDay(opened).fp.day = fp.asked
           /\ OpenDay(opened).fp.open = opened
           /\ AllDays(OpenDay(opened).files) = AllDays(files)
<1> DEFINE f == OpenDay(opened).fp
           F == OpenDay(opened).files
           a == fp.asked
           logs == files[a]
<1>1. /\ fp \in [open : BOOLEAN, day : 0..LastDay, cnt : Nat, asked : 0..LastDay]
      /\ files \in [Days -> Seq(LogFile)] /\ fp.day <= a /\ a \in Days /\ logs \in Seq(LogFile)
      /\ LastDay \in Nat
  BY DEF FilesShape, Days, FilesAssumption
<1>2. /\ f = [fp EXCEPT !.open = opened, !.day = fp.asked,
                        !.cnt = IF ~opened THEN @ ELSE IF fp.open THEN 1 ELSE @ + 1]
      /\ F = IF opened THEN [files EXCEPT ![a] = Truncated(@)] ELSE files
  BY DEF OpenDay
<1>3. \/ logs = << >>
      \/ ~fp.open /\ logs[1] = << >> /\ Len(logs) <= fp.cnt + 1
  <2>1. CASE fp.day < a
    BY <1>1, <2>1 DEF FilesShape
  <2>2. CASE fp.day = a
    <3>1. ~fp.open /\ FilesCounted(fp, logs)
      BY <2>2 DEF NewDay, FilesShape
    <3> QED
      BY <3>1 DEF FilesCounted
  <2> QED
    BY <1>1, <2>1, <2>2 DEF Days
<1>4. /\ f \in [open : BOOLEAN, day : 0..LastDay, cnt : Nat, asked : 0..LastDay]
      /\ f.open = opened /\ f.day = a /\ f.asked = a
      /\ f.cnt = IF ~opened THEN fp.cnt ELSE IF fp.open THEN 1 ELSE fp.cnt + 1
  <2> DEFINE c == IF ~opened THEN fp.cnt ELSE IF fp.open THEN 1 ELSE fp.cnt + 1
  <2>1. c \in Nat /\ a \in 0..LastDay
    BY <1>1 DEF Days
  <2>2. f = [fp EXCEPT !.open = opened, !.day = a, !.cnt = c]
    BY <1>2
  <2> HIDE DEF f, a, c
  <2>3. f \in [open : BOOLEAN, day : 0..LastDay, cnt : Nat, asked : 0..LastDay]
    BY <1>1, <2>1, <2>2
  <2>4. f.open = opened /\ f.day = a /\ f.asked = fp.asked /\ f.cnt = c
    BY <1>1, <2>2
  <2> QED
    BY <2>3, <2>4 DEF a, c
<1> HIDE DEF f, F
<1>5. /\ Truncated(logs) \in Seq(LogFile)
      /\ Len(Truncated(logs)) = IF logs = << >> THEN 1 ELSE Len(logs)
      /\ OneDay(Truncated(logs)) = OneDay(logs)
  BY <1>1, <1>3, TruncatedFacts
<1>6. Len(logs) \in Nat /\ (logs # << >> => Len(logs) # 0)
  BY <1>1, ReverseFacts, EmptySeq
<1>7. F \in [Days -> Seq(LogFile)] /\ AllDays(F) = AllDays(files)
  BY <1>1, <1>2, <1>5, FilesSame
<1>8. /\ \A d \in Days : d # a => F[d] = files[d]
      /\ F[a] = IF opened THEN Truncated(logs) ELSE logs
  BY <1>1, <1>2
<1> HIDE DEF logs, a
<1>9. FilesCounted(f, F[a])
  <2>1. CASE opened
    <3>1. f.open /\ F[a] = Truncated(logs)
      BY <1>4, <1>8, <2>1
    <3>2. fp.cnt \in Nat
      BY <1>1
    <3>3. Len(Truncated(logs)) \in 1..f.cnt
      BY <1>3, <1>4, <1>5, <1>6, <2>1, <3>2
    <3> QED
      BY <3>1, <3>3 DEF FilesCounted
  <2>2. CASE ~opened
    <3>1. ~f.open /\ f.cnt = fp.cnt /\ F[a] = logs
      BY <1>4, <1>8, <2>2
    <3> QED
      BY <1>3, <3>1 DEF FilesCounted
  <2> QED
    BY <2>1, <2>2
<1>10. \A d \in Days : d > a => F[d] = << >>
  <2>1. ASSUME NEW d \in Days, d > a PROVE d # a /\ d > fp.day
    BY <1>1, <2>1 DEF Days
  <2> QED
    BY <1>8, <2>1 DEF FilesShape
<1>11. FilesShape(f, F)
  <2>1. a # 0 /\ a <= a
    BY <1>1 DEF a, Days
  <2> QED
    BY <1>4, <1>7, <1>9, <1>10, <2>1 DEF FilesShape
<1> QED
  BY <1>4, <1>7, <1>11 DEF f, F, a

LEMMA OpenNextFacts ==
    ASSUME FilesAssumption, FilesShape(fp, files), fp.asked # 0, ~NewDay, NEW opened \in BOOLEAN
    PROVE  /\ FilesShape(OpenNext(opened).fp, OpenNext(opened).files)
           /\ OpenNext(opened).fp.asked = fp.asked /\ OpenNext(opened).fp.day = fp.asked
           /\ OpenNext(opened).fp.open = opened
           /\ AllDays(OpenNext(opened).files) = AllDays(files)
<1> DEFINE f == OpenNext(opened).fp
           F == OpenNext(opened).files
           a == fp.asked
           logs == files[a]
<1>1. /\ fp \in [open : BOOLEAN, day : 0..LastDay, cnt : Nat, asked : 0..LastDay]
      /\ files \in [Days -> Seq(LogFile)] /\ a \in Days /\ logs \in Seq(LogFile)
      /\ LastDay \in Nat /\ fp.open /\ fp.day = a
  BY DEF FilesShape, Days, FilesAssumption, NewDay
<1>2. /\ f = [fp EXCEPT !.open = opened, !.cnt = IF opened THEN @ + 1 ELSE @]
      /\ F = [files EXCEPT ![a] = Shifted(@)]
  BY <1>1 DEF OpenNext
<1>3. Len(logs) \in 1..fp.cnt /\ fp.cnt \in Nat
  <2>1. FilesCounted(fp, logs)
    BY <1>1 DEF FilesShape
  <2> QED
    BY <1>1, <2>1 DEF FilesCounted
<1>4. /\ f \in [open : BOOLEAN, day : 0..LastDay, cnt : Nat, asked : 0..LastDay]
      /\ f.open = opened /\ f.day = a /\ f.asked = a
      /\ f.cnt = IF opened THEN fp.cnt + 1 ELSE fp.cnt
  <2> DEFINE c == IF opened THEN fp.cnt + 1 ELSE fp.cnt
  <2>1. c \in Nat
    BY <1>1
  <2>2. f = [fp EXCEPT !.open = opened, !.cnt = c]
    BY <1>2
  <2> HIDE DEF f, a, c
  <2>3. f \in [open : BOOLEAN, day : 0..LastDay, cnt : Nat, asked : 0..LastDay]
    BY <1>1, <2>1, <2>2
  <2>4. f.open = opened /\ f.day = fp.day /\ f.asked = fp.asked /\ f.cnt = c
    BY <1>1, <2>2
  <2> QED
    BY <1>1, <2>3, <2>4 DEF a, c
<1> HIDE DEF f, F
<1>5. /\ Shifted(logs) \in Seq(LogFile) /\ Shifted(logs)[1] = << >>
      /\ Len(Shifted(logs)) = Len(logs) + 1
      /\ OneDay(Shifted(logs)) = OneDay(logs)
  BY <1>1, <1>3, ShiftedFacts
<1>6. F \in [Days -> Seq(LogFile)] /\ AllDays(F) = AllDays(files)
  <2> DEFINE new == Shifted(logs)
  <2>1. F = [files EXCEPT ![a] = new]
    BY <1>2
  <2>2. new \in Seq(LogFile) /\ OneDay(new) = OneDay(files[a])
    BY <1>5
  <2> HIDE DEF new, a
  <2> QED
    BY <1>1, <2>1, <2>2, FilesSame, ZenonT(30)
<1>7. (\A d \in Days : d # a => F[d] = files[d]) /\ F[a] = Shifted(logs)
  BY <1>1, <1>2
<1> HIDE DEF logs, a
<1>8. FilesCounted(f, F[a])
  BY <1>3, <1>4, <1>5, <1>7 DEF FilesCounted
<1>9. \A d \in Days : d > a => F[d] = << >>
  <2>1. ASSUME NEW d \in Days, d > a PROVE d # a /\ d > fp.day
    BY <1>1, <2>1 DEF Days
  <2> QED
    BY <1>7, <2>1 DEF FilesShape
<1>10. FilesShape(f, F)
  <2>1. a # 0 /\ a <= a
    BY <1>1 DEF a, Days
  <2> QED
    BY <1>4, <1>6, <1>8, <1>9, <2>1 DEF FilesShape
<1> QED
  BY <1>4, <1>6, <1>10 DEF f, F, a

LEMMA DecisFile ==
    ASSUME FilesAssumption, Followed, FilesShape(fp, files), fp.asked # 0, NEW opened \in BOOLEAN
    PROVE  /\ FilesShape(decis_file(opened).fp, decis_file(opened).files)
           /\ decis_file(opened).fp.asked = fp.asked
           /\ opened => decis_file(opened).fp.open /\ decis_file(opened).fp.day = fp.asked
           /\ AllDays(decis_file(opened).files) = AllDays(files)
<1>1. CASE ~Opens
  <2>1. decis_file(opened).fp = fp /\ decis_file(opened).files = files
    BY <1>1 DEF decis_file
  <2>2. fp.open /\ fp.day = fp.asked
    BY <1>1 DEF Opens, NewDay, FilesShape
  <2> QED
    BY <2>1, <2>2
<1>2. CASE Opens /\ NewDay
  <2>1. decis_file(opened) = OpenDay(opened)
    BY <1>2 DEF decis_file
  <2> QED
    BY <1>2, <2>1, OpenDayFacts
<1>3. CASE Opens /\ ~NewDay
  <2>1. decis_file(opened) = OpenNext(opened)
    BY <1>3 DEF decis_file
  <2> QED
    BY <1>3, <2>1, OpenNextFacts
<1> QED
  BY <1>1, <1>2, <1>3

(* Every step of LogFiles is one of RingLog.                               *)
LEMMA StepsOfRing ==
    ASSUME [FilesNext]_allVars
    PROVE  [Next]_vars
<1>1. CASE \E p \in Producers : Logs(p)
  BY <1>1 DEF Logs, Next
<1>2. CASE Background
  BY <1>2 DEF Background, Waits, TakesBuffer, CannotOpen, Persists, PersistsShort, Next, persist,
     Take
<1>3. CASE UNCHANGED allVars
  BY <1>3 DEF allVars
<1> QED
  BY <1>1, <1>2, <1>3 DEF FilesNext

LEMMA FilesOKInit ==
    ASSUME FilesAssumption, FilesInit
    PROVE  FilesOK
<1>1. /\ today = 1 /\ fp = NotOpen /\ files = NoFiles /\ file = << >> /\ cpc = "lock"
      /\ LastDay \in Nat \ {0} /\ 1 \in Days
  BY DEF FilesInit, Init, FilesAssumption, Days
<1>2. /\ files \in [Days -> Seq(LogFile)] /\ \A d \in Days : files[d] = << >>
  BY <1>1, EmptySeq DEF NoFiles
<1>3. /\ fp \in [open : BOOLEAN, day : 0..LastDay, cnt : Nat, asked : 0..LastDay]
      /\ ~fp.open /\ fp.day = 0 /\ fp.asked = 0
  BY <1>1 DEF NotOpen
<1>4. FilesShape(fp, files)
  BY <1>2, <1>3 DEF FilesShape
<1>5. AllFiles = << >>
  <2> DEFINE n == LastDay
             s == AllDays(files)
  <2>1. n \in Nat \ {0} /\ Parts(Lines, n, s) /\ \A d \in Days : s[d] = OneDay(files[d])
    BY <1>2, AllDaysFacts
  <2>2. \A d \in 1..n : s[d] = << >>
    BY <1>2, <2>1, NoFileNoLine DEF OneDay, Days
  <2>3. AllFiles = FlattenSeq(s)
    BY AllFilesIs
  <2> HIDE DEF n, s
  <2> QED
    BY <2>1, <2>2, <2>3, FlattenEmpty
<1> QED
  BY <1>1, <1>3, <1>4, <1>5 DEF FilesOK

(* Once the files are not followed any more, they never are again.         *)
LEMMA FollowedBefore ==
    ASSUME FilesNext, Followed'
    PROVE  Followed
<1>1. CASE \E p \in Producers : Logs(p)
  <2>1. PICK p \in Producers : Logs(p)
    BY <1>1
  <2>2. spoiled => spoiled'
    <3>1. try_append(p)
      BY <2>1 DEF Logs
    <3> QED
      BY <3>1 DEF try_append, Suppress, Format, ClearLts, AppendHere, MoveOn, Retest, GiveUp
  <2>3. (astray => astray') /\ _env_ok' = _env_ok
    BY <2>1 DEF Logs, get_curr_time
  <2> QED
    BY <2>2, <2>3 DEF Followed
<1>2. CASE Background
  <2>1. (astray => astray') /\ _env_ok' = _env_ok
    <3>1. UNCHANGED astray \/ astray' = TRUE
      BY <1>2 DEF Background, Waits, TakesBuffer, CannotOpen, Persists, PersistsShort,
         RenameFails, fileVars
    <3>2. _env_ok' = _env_ok
      BY <1>2 DEF Background, Waits, TakesBuffer, CannotOpen, Persists, PersistsShort, fileVars
    <3>3. CASE UNCHANGED astray
      BY <3>2, <3>3
    <3>4. CASE astray' = TRUE
      BY <3>2, <3>4
    <3> QED
      BY <3>1, <3>3, <3>4
  <2>2. spoiled => spoiled'
    BY <1>2 DEF Background, Waits, TakesBuffer, CannotOpen, Persists, PersistsShort, Await,
       NothingThere, Advance, TakeFree, TakeFull, NoFile, Write, WriteShort
  <2> QED
    BY <2>1, <2>2 DEF Followed
<1> QED
  BY <1>1, <1>2 DEF FilesNext

(* A buffer is written to the file of the day it was taken on.             *)
LEMMA FilesWritten ==
    ASSUME LogAssumption, FilesAssumption, RingShape, FilesOK, Persists, Followed, Followed'
    PROVE  FilesShape(fp', files') /\ fp'.asked = fp.asked /\ AllFiles' = file'
<1> DEFINE f == decis_file(TRUE).fp
           F == decis_file(TRUE).files
           a == fp.asked
           x == ring[1].lines
<1>1. /\ cpc = "write" /\ file' = file \o x /\ fp' = f
      /\ files' = [F EXCEPT ![a][1] = @ \o x]
  BY DEF Persists, RenameFails, Write, Followed
<1>2. FilesShape(fp, files) /\ a # 0 /\ AllFiles = file
  BY <1>1 DEF FilesOK
<1>3. FilesShape(f, F) /\ f.asked = a /\ f.open /\ f.day = a /\ AllDays(F) = AllDays(files)
  BY <1>2, DecisFile
<1> HIDE DEF f, F
<1>4. F \in [Days -> Seq(LogFile)] /\ a \in Days /\ \A d \in Days : d > a => F[d] = << >>
  BY <1>2, <1>3 DEF FilesShape, Days
<1>5. Len(F[a]) \in 1..f.cnt
  <2>1. FilesCounted(f, F[a])
    BY <1>2, <1>3 DEF FilesShape
  <2> QED
    BY <1>3, <2>1 DEF FilesCounted
<1>6. x \in Seq(Lines)
  <2>1. 1 \in 1..Len(ring)
    BY RingFacts DEF RingShape
  <2> QED
    BY <2>1, RingFacts DEF RingShape
<1> DEFINE logs == F[a]
           new == [logs EXCEPT ![1] = @ \o x]
<1>7. new \in Seq(LogFile) /\ Len(new) = Len(logs) /\ Behind(OneDay(logs), x, OneDay(new))
  <2>1. logs \in Seq(LogFile) /\ Len(logs) \in Nat \ {0}
    <3>1. Len(logs) \in Nat
      BY <1>4, ReverseFacts
    <3> QED
      BY <1>4, <1>5, <3>1
  <2> HIDE DEF logs, x
  <2> QED
    BY <1>6, <2>1, OneDayWritten
<1>8. files' = [F EXCEPT ![a] = new]
  BY <1>1
<1> HIDE DEF new, x
<1>9. /\ files' \in [Days -> Seq(LogFile)] /\ files'[a] = new
      /\ \A d \in Days : d # a => files'[d] = F[d]
  BY <1>4, <1>7, <1>8
<1>10. FilesShape(f, files')
  <2>1. FilesCounted(f, files'[a])
    BY <1>3, <1>5, <1>7, <1>9 DEF FilesCounted
  <2>2. \A d \in Days : d > a => d # a
    BY <1>4 DEF Days
  <2>3. \A d \in Days : d > a => files'[d] = << >>
    BY <1>4, <1>9, <2>2
  <2> QED
    BY <1>3, <1>9, <2>1, <2>3 DEF FilesShape
<1>11. Behind(FlattenSeq(AllDays(F)), x, FlattenSeq(AllDays(files')))
  <2>1. Behind(OneDay(F[a]), x, OneDay(files'[a]))
    BY <1>7, <1>9
  <2> DEFINE G == files'
  <2>2. G \in [Days -> Seq(LogFile)] /\ \A d \in Days : d # a => G[d] = F[d]
    BY <1>9
  <2>3. Behind(OneDay(F[a]), x, OneDay(G[a]))
    BY <2>1
  <2> HIDE DEF G, a
  <2>4. Behind(FlattenSeq(AllDays(F)), x, FlattenSeq(AllDays(G)))
    BY <1>4, <1>6, <2>2, <2>3, AllDaysWritten
  <2> QED
    BY <2>4 DEF G
<1>12. AllFiles' = FlattenSeq(AllDays(files'))
  BY DEF AllFiles, AllDays, OfDay, OneDay
<1>13. AllFiles' = AllFiles \o x
  BY <1>3, <1>11, <1>12, AllFilesIs DEF Behind
<1> QED
  BY <1>1, <1>2, <1>3, <1>10, <1>13

LEMMA FilesOKStep ==
    ASSUME LogAssumption, FilesAssumption, RingShape, FilesOK, FilesNext
    PROVE  FilesOK'
<1>1. today \in Days /\ Days \subseteq Nat
  BY DEF FilesOK, Days, FilesAssumption
<1>2. today' \in Days
  BY <1>1 DEF FilesNext, Logs, get_curr_time, Background, Waits, TakesBuffer, CannotOpen, Persists,
     PersistsShort, fileVars
<1>3. SUFFICES ASSUME Followed'
               PROVE  /\ FilesShape(fp', files') /\ fp'.asked <= today'
                      /\ cpc' = "write" => fp'.asked # 0
                      /\ AllFiles' = file'
  BY <1>2 DEF FilesOK, FilesShape, FilesCounted
<1>4. Followed
  BY <1>3, FollowedBefore
<1>5. /\ FilesShape(fp, files) /\ fp.asked <= today /\ (cpc = "write" => fp.asked # 0)
      /\ AllFiles = file /\ fp.asked \in Nat
      /\ fp \in [open : BOOLEAN, day : 0..LastDay, cnt : Nat, asked : 0..LastDay]
  BY <1>4 DEF FilesOK, FilesShape
<1>6. ASSUME fp' = fp, files' = files, file' = file, fp.asked <= today',
             cpc' = "write" => cpc = "write"
      PROVE  /\ FilesShape(fp', files') /\ fp'.asked <= today'
             /\ cpc' = "write" => fp'.asked # 0
             /\ AllFiles' = file'
  BY <1>5, <1>6 DEF FilesShape, FilesCounted, AllFiles, OfDay
<1>7. CASE \E p \in Producers : Logs(p)
  <2>1. PICK p \in Producers : Logs(p)
    BY <1>7
  <2>2. fp' = fp /\ files' = files
    BY <1>3, <2>1 DEF Logs
  <2>3. cpc' = cpc /\ file' = file
    <3>1. try_append(p)
      BY <2>1 DEF Logs
    <3> QED
      BY <3>1 DEF try_append, Suppress, Format, ClearLts, AppendHere, MoveOn, Retest, GiveUp
  <2>4. today' >= today
    <3>1. ~astray'
      BY <1>3 DEF Followed
    <3>2. CASE ppc[p] = "idle"
      <4>1. PICK d \in Days : today' = d /\ astray' = (astray \/ d < today)
        BY <2>1, <3>2 DEF Logs, get_curr_time
      <4>2. ~(d < today)
        BY <3>1, <4>1
      <4> QED
        BY <1>1, <4>1, <4>2
    <3>3. CASE ppc[p] # "idle"
      <4>1. today' = today
        BY <2>1, <3>3 DEF Logs
      <4> QED
        BY <1>1, <4>1
    <3> QED
      BY <3>2, <3>3
  <2>5. fp.asked <= today'
    BY <1>1, <1>2, <1>5, <2>4
  <2> QED
    BY <1>6, <2>2, <2>3, <2>5
<1>8. CASE Waits
  <2>1. /\ fp' = fp /\ files' = files /\ today' = today /\ file' = file /\ cpc' # "write"
    BY <1>8 DEF Waits, fileVars, Await, NothingThere, Advance
  <2> QED
    BY <1>5, <1>6, <2>1
<1>9. CASE TakesBuffer
  <2>1. /\ fp' = [fp EXCEPT !.asked = today] /\ files' = files /\ today' = today /\ file' = file
    BY <1>4, <1>9 DEF TakesBuffer, TakeFree, TakeFull
  <2>2. today \in 0..LastDay /\ today # 0
    BY <1>1 DEF Days
  <2>3. /\ fp' \in [open : BOOLEAN, day : 0..LastDay, cnt : Nat, asked : 0..LastDay]
        /\ fp'.open = fp.open /\ fp'.day = fp.day /\ fp'.cnt = fp.cnt /\ fp'.asked = today
    BY <1>5, <2>1, <2>2
  <2>4. fp.day <= today
    <3>1. fp.day \in Nat /\ fp.asked \in Nat /\ today \in Nat /\ fp.day <= fp.asked
      BY <1>1, <1>5 DEF FilesShape
    <3> QED
      BY <1>5, <3>1
  <2>5. FilesShape(fp', files')
    <3>1. fp'.day # 0 => FilesCounted(fp', files'[fp'.day])
      <4> DEFINE f == fp'
                 logs == files[fp.day]
      <4>1. f.open = fp.open /\ f.cnt = fp.cnt
        BY <2>3
      <4>2. fp.day # 0 => FilesCounted(fp, logs)
        BY <1>5 DEF FilesShape
      <4>3. files'[fp'.day] = logs
        BY <2>1, <2>3
      <4> HIDE DEF f, logs
      <4>4. FilesCounted(fp, logs) => FilesCounted(f, logs)
        BY <4>1 DEF FilesCounted
      <4>5. fp.day # 0 => FilesCounted(f, logs)
        BY <4>2, <4>4
      <4> QED
        BY <2>3, <4>3, <4>5 DEF f
    <3> QED
      BY <1>5, <2>1, <2>3, <2>4, <3>1 DEF FilesShape
  <2>6. AllFiles' = AllFiles
    BY <2>1 DEF AllFiles, OfDay
  <2>7. today <= today
    BY <1>1
  <2> QED
    BY <1>5, <2>1, <2>2, <2>3, <2>5, <2>6, <2>7
<1>10. CASE CannotOpen
  <2>1. /\ fp' = decis_file(FALSE).fp /\ files' = decis_file(FALSE).files
        /\ today' = today /\ file' = file /\ cpc = "write" /\ cpc' # "write"
    BY <1>3, <1>10 DEF CannotOpen, RenameFails, NoFile, Followed
  <2>2. /\ FilesShape(fp', files') /\ fp'.asked = fp.asked
        /\ AllDays(files') = AllDays(files)
    BY <1>4, <1>5, <2>1, DecisFile
  <2>3. AllFiles' = FlattenSeq(AllDays(files'))
    BY DEF AllFiles, AllDays, OfDay, OneDay
  <2> QED
    BY <1>5, <2>1, <2>2, <2>3, AllFilesIs
<1>11. CASE Persists
  <2>1. FilesShape(fp', files') /\ fp'.asked = fp.asked /\ AllFiles' = file'
    BY <1>3, <1>4, <1>11, FilesWritten
  <2>2. today' = today /\ cpc' # "write"
    BY <1>11 DEF Persists, Write
  <2> QED
    BY <1>5, <2>1, <2>2
<1>12. CASE PersistsShort
  BY <1>3, <1>12 DEF PersistsShort, WriteShort, Followed
<1> QED
  BY <1>7, <1>8, <1>9, <1>10, <1>11, <1>12 DEF FilesNext, Background

LEMMA FilesOKAlways == FilesSpec => [](Inv /\ Faithful /\ FilesOK)
<1> USE LogAssumption, FilesAssumption
<1>1. FilesInit => Inv /\ Faithful /\ FilesOK
  BY InvInit, FaithfulInit, FilesOKInit DEF FilesInit
<1>2. Inv /\ Faithful /\ FilesOK /\ [FilesNext]_allVars => (Inv /\ Faithful /\ FilesOK)'
  <2> SUFFICES ASSUME Inv, Faithful, FilesOK, [FilesNext]_allVars
               PROVE  (Inv /\ Faithful /\ FilesOK)'
    OBVIOUS
  <2>1. Inv' /\ Faithful'
    BY StepsOfRing, InvStep, FaithfulStep
  <2>2. CASE FilesNext
    BY <2>1, <2>2, FilesOKStep DEF Inv
  <2>3. CASE UNCHANGED allVars
    <3>1. FilesOK'
      BY <2>3 DEF allVars, vars, fileVars, FilesOK, Followed, FilesShape, FilesCounted, AllFiles,
         OfDay
    <3> QED
      BY <2>1, <3>1
  <2> QED
    BY <2>2, <2>3
<1> QED
  BY <1>1, <1>2, PTL DEF FilesSpec

(* The files of all days, the oldest first, are what persist has handed to *)
(* fwrite, however often a day begins, a file grows too large or cannot be *)
(* opened - and what is missing there is in the ring: no rename overwrites *)
(* lines and no fopen empties a file that has some, as long as renames     *)
(* succeed and no older day is stored over a later one.                    *)
THEOREM NoFileLost == FilesSpec => []LogKept
<1> USE LogAssumption
<1>1. Inv /\ Faithful /\ FilesOK => LogKept
  BY FaithfulIs DEF Inv, FilesOK, LogKept
<1> QED
  BY <1>1, FilesOKAlways, PTL
=============================================================================
