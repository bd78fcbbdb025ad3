-------------------------- MODULE TimerListProofs --------------------------
(* Proofs about TimerList, for any addresses, lease and clock.             *)
EXTENDS TimerList, TLAPS, FiniteSetTheorems, SequenceTheorems, WellFoundedInduction

(* s is the order of n timers, each met once.                              *)
Order(n, s) ==
    /\ n \in Nat /\ s \in [1..n -> Timers]
    /\ \A i, j \in 1..n : s[i] = s[j] => i = j

(* The links nx and pv are those of a list in that order.                  *)
Linked(n, s, nx, pv) ==
    /\ Order(n, s)
    /\ \A i \in 1..n : nx[s[i]] = IF i = n THEN NULL ELSE s[i + 1]
    /\ \A i \in 1..n : pv[s[i]] = IF i = 1 THEN NULL ELSE s[i - 1]

Spans(n, s, S) == \A t \in Timers : t \in S <=> \E i \in 1..n : s[i] = t

(* Ascending up to b seconds.                                              *)
Sorted(n, s, ex, b) == \A i, j \in 1..n : i < j => ex[s[i]] <= ex[s[j]] + b

(* From head to tail the list has the n timers of s, in that order.        *)
IsList(n, s) ==
    /\ Linked(n, s, next, prev) /\ Spans(n, s, live)
    /\ head = (IF n = 0 THEN NULL ELSE s[1]) /\ (n > 0 => tail = s[n])
    /\ Sorted(n, s, expire, back)

(* now has never been more than `back` later than it is.                   *)
Bounded == \A t \in live : expire[t] <= now + Lease + back

Listed == \E n \in Nat : \E s \in [1..n -> Timers] : IsList(n, s)

LInv == TypeOK /\ Bounded /\ Listed

-----------------------------------------------------------------------------
(* Chain follows the links.                                                *)
IsWalk(w, nx, start) ==
    w = [i \in 0..Cardinality(Timers) |->
           IF i = 0 THEN start ELSE IF w[i - 1] = NULL THEN NULL ELSE nx[w[i - 1]]]

Walk(nx, start) == CHOOSE w : IsWalk(w, nx, start)

Ends(w) == {i \in 0..Cardinality(Timers) : w[i] = NULL}

LEMMA ChainIsWalk ==
    ASSUME NEW nx, NEW start
    PROVE  Chain(nx, start)
             = [i \in 1 .. (IF Ends(Walk(nx, start)) = {} THEN Cardinality(Timers) + 1
                            ELSE Min(Ends(Walk(nx, start)))) |->
                  Walk(nx, start)[i - 1]]
BY DEF Chain, Walk, IsWalk, Ends

(* Induction, on a set instead of a formula.                               *)
LEMMA FromZero ==
    ASSUME NEW m \in Nat, NEW T, 0 \in T, \A k \in 1..m : k - 1 \in T => k \in T
    PROVE  \A k \in 0..m : k \in T
<1> DEFINE Miss == {k \in 0..m : k \notin T}
           Before == {ss \in Nat \X Nat : ss[1] < ss[2]}
<1>1. SUFFICES ASSUME Miss # {} PROVE FALSE
  BY Zenon
<1>2. Miss \subseteq Nat
  OBVIOUS
<1>3. PICK x \in Miss : \A y \in Miss : <<y, x>> \notin Before
  <2>1. IsWellFoundedOn(Before, Nat)
    BY NatLessThanWellFounded, Zenon DEF OpToRel
  <2> HIDE DEF Miss, Before
  <2> QED
    BY <1>1, <1>2, <2>1, WFMin, Zenon
<1>4. \A y \in Miss : ~(y < x)
  BY <1>2, <1>3
<1>5. x \in 1..m /\ x \notin T /\ x - 1 \in 0..m /\ x - 1 < x
  BY <1>3
<1>6. x - 1 \in T
  BY <1>4, <1>5
<1> QED
  BY <1>5, <1>6

LEMMA MinIs ==
    ASSUME NEW S \in SUBSET Nat, S # {}
    PROVE  Min(S) \in S /\ \A i \in S : Min(S) <= i
<1> DEFINE Before == {ss \in Nat \X Nat : ss[1] < ss[2]}
<1>1. PICK x \in S : \A y \in S : <<y, x>> \notin Before
  <2>1. IsWellFoundedOn(Before, Nat)
    BY NatLessThanWellFounded, Zenon DEF OpToRel
  <2> HIDE DEF Before
  <2> QED
    BY <2>1, WFMin, Zenon
<1>2. \A y \in S : ~(y < x)
  BY <1>1
<1>3. \E i \in S : \A j \in S : i <= j
  <2> HIDE DEF Before
  <2>1. \A y \in S : y \in Nat
    OBVIOUS
  <2>2. \A y \in S : x <= y
    BY <1>2, <2>1
  <2> QED
    BY <2>2
<1> QED
  BY <1>3, Zenon DEF Min

LEMMA OrderFits ==
    ASSUME ListAssumption, NEW n, NEW s, Order(n, s)
    PROVE  n <= Cardinality(Timers) /\ Cardinality(Timers) \in Nat
<1>1. n \in Nat /\ s \in Injection(1..n, Timers)
  BY DEF Order, Injection, IsInjective
<1>2. IsFiniteSet(Timers) /\ Cardinality(Timers) \in Nat
  BY FS_CardinalityType DEF ListAssumption
<1>3. Cardinality(1..n) <= Cardinality(Timers)
  BY <1>1, <1>2, FS_Injection
<1>4. Cardinality(1..n) = n
  BY <1>1, FS_Interval
<1> QED
  BY <1>2, <1>3, <1>4

(* From the k-th timer on.                                                 *)
Onwards(n, s, k) == [i \in 1 .. n - k + 1 |-> s[k + i - 1]]

LEMMA ChainIs ==
    ASSUME ListAssumption, NEW n, NEW s, NEW nx, NEW pv, Linked(n, s, nx, pv),
           NEW k \in 1 .. n + 1, NEW start, start = IF k = n + 1 THEN NULL ELSE s[k]
    PROVE  Chain(nx, start) = Onwards(n, s, k)
<1> DEFINE many == Cardinality(Timers)
           m == n - k + 1
           path == [i \in 0..many |-> IF i < m THEN s[k + i] ELSE NULL]
<1>1. n \in Nat /\ n <= many /\ many \in Nat /\ s \in [1..n -> Timers] /\ NULL \notin Timers
  BY OrderFits, ZenonT(30) DEF Linked, Order, ListAssumption
<1>2. m \in 0..many /\ m \in Nat
  BY <1>1
<1>3. PICK w : w = Walk(nx, start)
  OBVIOUS
<1> HIDE DEF many
<1>4. IsWalk(path, nx, start)
  <2>1. path[0] = start
    BY <1>1, <1>2
  <2>2. ASSUME NEW i \in 0..many, i # 0
        PROVE  path[i] = IF path[i - 1] = NULL THEN NULL ELSE nx[path[i - 1]]
    <3>1. i - 1 \in 0..many /\ path[i - 1] = IF i - 1 < m THEN s[k + i - 1] ELSE NULL
      BY <1>1, <2>2
    <3>2. CASE i - 1 < m
      <4>1. k + i - 1 \in 1..n /\ s[k + i - 1] \in Timers
        BY <1>1, <1>2, <2>2, <3>2
      <4>2. PICK a \in 1..n : a = k + i - 1
        BY <4>1
      <4>3. nx[s[a]] = IF a = n THEN NULL ELSE s[a + 1]
        BY DEF Linked
      <4>4. path[i] = IF a = n THEN NULL ELSE s[a + 1]
        BY <1>1, <1>2, <2>2, <4>2
      <4> QED
        BY <1>1, <3>1, <3>2, <4>1, <4>2, <4>3, <4>4
    <3>3. CASE ~(i - 1 < m)
      <4>1. ~(i < m)
        BY <1>1, <1>2, <2>2, <3>3
      <4> QED
        BY <2>2, <3>1, <3>3, <4>1
    <3> QED
      BY <3>2, <3>3
  <2>3. path = [i \in 0..many |-> path[i]]
    OBVIOUS
  <2> HIDE DEF path, m
  <2>4. path = [i \in 0..many |->
           IF i = 0 THEN start ELSE IF path[i - 1] = NULL THEN NULL ELSE nx[path[i - 1]]]
    BY <2>1, <2>2, <2>3
  <2> QED
    BY <2>4 DEF IsWalk, many
<1>5. IsWalk(w, nx, start)
  BY <1>3, <1>4 DEF Walk
<1>6. \A i \in 0..many : w[i] = path[i]
  <2> DEFINE T == {i \in 0..many : w[i] = path[i]}
  <2> HIDE DEF path
  <2>1. \A i \in 0..many :
          /\ w[i] = IF i = 0 THEN start ELSE IF w[i - 1] = NULL THEN NULL ELSE nx[w[i - 1]]
          /\ path[i] = IF i = 0 THEN start
                       ELSE IF path[i - 1] = NULL THEN NULL ELSE nx[path[i - 1]]
    BY <1>4, <1>5 DEF IsWalk, many
  <2>2. 0 \in T
    BY <1>1, <2>1
  <2>3. \A i \in 1..many : i - 1 \in T => i \in T
    <3>1. \A i \in 1..many : i \in 0..many /\ i # 0
      BY <1>1
    <3> QED
      BY <2>1, <3>1
  <2>4. \A i \in 0..many : i \in T
    <3> HIDE DEF T
    <3> QED
      BY <1>1, <2>2, <2>3, FromZero
  <2> QED
    BY <2>4
<1>7. \A i \in 0..many : w[i] = NULL <=> m <= i
  <2>1. \A i \in 0..many : i < m => s[k + i] \in Timers
    BY <1>1, <1>2
  <2> QED
    BY <1>1, <1>2, <1>6, <2>1
<1>8. Ends(w) # {} /\ Min(Ends(w)) = m
  <2>1. PICK e : e = Ends(w)
    OBVIOUS
  <2>2. \A i : i \in e <=> i \in 0..many /\ m <= i
    BY <1>7, <2>1 DEF Ends, many
  <2> HIDE DEF m
  <2>3. e \in SUBSET Nat /\ m \in e /\ \A i \in e : m <= i
    BY <1>1, <1>2, <2>2
  <2>4. Min(e) \in e /\ \A i \in e : Min(e) <= i
    BY <2>3, MinIs
  <2>5. PICK x : x = Min(e)
    OBVIOUS
  <2>6. x \in Nat /\ x <= m /\ m <= x
    BY <2>3, <2>4, <2>5
  <2> QED
    BY <1>2, <2>1, <2>3, <2>5, <2>6
<1>9. Chain(nx, start) = [i \in 1..m |-> w[i - 1]]
  <2> HIDE DEF m
  <2> QED
    BY <1>3, <1>8, ChainIsWalk
<1>10. \A i \in 1..m : w[i - 1] = s[k + i - 1]
  <2>1. ASSUME NEW i \in 1..m PROVE w[i - 1] = s[k + i - 1]
    <3>1. i - 1 \in 0..many /\ i - 1 < m /\ k + (i - 1) = k + i - 1
      BY <1>1, <1>2
    <3> QED
      BY <1>6, <3>1
  <2> QED
    BY <2>1
<1> QED
  BY <1>9, <1>10 DEF Onwards

-----------------------------------------------------------------------------
(* The order with t in the j-th place, and the order without its k-th.     *)
Ins(n, s, j, t) ==
    [i \in 1 .. n + 1 |-> IF i < j THEN s[i] ELSE IF i = j THEN t ELSE s[i - 1]]

Del(n, s, k) == [i \in 1 .. n - 1 |-> IF i < k THEN s[i] ELSE s[i + 1]]

Absent(n, s, t) == t \in Timers /\ \A i \in 1..n : s[i] # t

(* What is written to put t into the j-th place.                           *)
PutIn(n, s, j, t, nx, pv, nx2, pv2) ==
    /\ nx2[t] = IF j = n + 1 THEN NULL ELSE s[j]
    /\ pv2[t] = IF j = 1 THEN NULL ELSE s[j - 1]
    /\ \A i \in 1..n : nx2[s[i]] = IF i = j - 1 THEN t ELSE nx[s[i]]
    /\ \A i \in 1..n : pv2[s[i]] = IF i = j THEN t ELSE pv[s[i]]

(* What is written to take the k-th out.                                   *)
TakenOut(n, s, k, nx, pv, nx2, pv2) ==
    \A i \in 1..n : i # k =>
        /\ nx2[s[i]] = IF i = k - 1 THEN nx[s[k]] ELSE nx[s[i]]
        /\ pv2[s[i]] = IF i = k + 1 THEN pv[s[k]] ELSE pv[s[i]]

LEMMA InsOrder ==
    ASSUME NEW n, NEW s, Order(n, s), NEW j \in 1 .. n + 1, NEW t, Absent(n, s, t)
    PROVE  Order(n + 1, Ins(n, s, j, t))
<1> DEFINE u == Ins(n, s, j, t)
<1>1. n \in Nat /\ s \in [1..n -> Timers] /\ t \in Timers
  BY DEF Order, Absent
<1>2. u \in [1 .. n + 1 -> Timers]
  BY <1>1 DEF Ins
<1>3. \A a \in 1 .. n + 1 :
        \/ a < j /\ a \in 1..n /\ u[a] = s[a]
        \/ a = j /\ u[a] = t
        \/ a > j /\ a - 1 \in 1..n /\ u[a] = s[a - 1]
  BY <1>1 DEF Ins
<1>4. ASSUME NEW a \in 1 .. n + 1, NEW b \in 1 .. n + 1, u[a] = u[b]
      PROVE  a = b
  <2> HIDE DEF u
  <2>1. \A x, y \in 1..n : s[x] = s[y] => x = y
    BY DEF Order
  <2>2. \A x \in 1..n : s[x] # t
    BY DEF Absent
  <2> QED
    BY <1>1, <1>3, <1>4, <2>1, <2>2
<1> QED
  BY <1>1, <1>2, <1>4 DEF Order

LEMMA InsLinks ==
    ASSUME NEW n, NEW s, NEW nx, NEW pv, Linked(n, s, nx, pv),
           NEW j \in 1 .. n + 1, NEW t, Absent(n, s, t),
           NEW nx2, NEW pv2, PutIn(n, s, j, t, nx, pv, nx2, pv2)
    PROVE  Linked(n + 1, Ins(n, s, j, t), nx2, pv2)
<1> DEFINE u == Ins(n, s, j, t)
<1>1. n \in Nat /\ s \in [1..n -> Timers] /\ n + 1 \in Nat
  BY DEF Linked, Order
<1>2. \A a \in 1 .. n + 1 :
        u[a] = IF a < j THEN s[a] ELSE IF a = j THEN t ELSE s[a - 1]
  BY DEF Ins
<1> HIDE DEF u
<1>3. ASSUME NEW a \in 1 .. n + 1
      PROVE  /\ nx2[u[a]] = IF a = n + 1 THEN NULL ELSE u[a + 1]
             /\ pv2[u[a]] = IF a = 1 THEN NULL ELSE u[a - 1]
  <2>1. CASE a < j
    <3>1. a \in 1..n /\ u[a] = s[a]
      BY <1>1, <1>2, <2>1
    <3>2. nx2[s[a]] = IF a = j - 1 THEN t ELSE IF a = n THEN NULL ELSE s[a + 1]
      BY <3>1 DEF Linked, PutIn
    <3>3. pv2[s[a]] = IF a = 1 THEN NULL ELSE s[a - 1]
      BY <1>1, <2>1, <3>1 DEF Linked, PutIn
    <3>4. a + 1 \in 1 .. n + 1 /\ u[a + 1] = IF a = j - 1 THEN t ELSE s[a + 1]
      BY <1>1, <1>2, <2>1, <3>1
    <3>5. a # 1 => u[a - 1] = s[a - 1]
      BY <1>1, <1>2, <2>1, <3>1
    <3>6. a # n + 1 /\ (a = n => a = j - 1)
      BY <1>1, <2>1, <3>1
    <3> QED
      BY <3>1, <3>2, <3>3, <3>4, <3>5, <3>6
  <2>2. CASE a = j
    <3>1. u[a] = t /\ (a # n + 1 => u[a + 1] = s[j]) /\ (a # 1 => u[a - 1] = s[j - 1])
      BY <1>1, <1>2, <2>2
    <3> QED
      BY <2>2, <3>1 DEF PutIn
  <2>3. CASE a > j
    <3>1. PICK b \in 1..n : b = a - 1
      BY <1>1, <2>3
    <3>2. u[a] = s[b] /\ b >= j
      BY <1>1, <1>2, <2>3, <3>1
    <3>3. nx2[s[b]] = IF b = n THEN NULL ELSE s[b + 1]
      BY <1>1, <3>2 DEF Linked, PutIn
    <3>4. pv2[s[b]] = IF b = j THEN t ELSE IF b = 1 THEN NULL ELSE s[b - 1]
      BY DEF Linked, PutIn
    <3>5. a # n + 1 => u[a + 1] = s[b + 1]
      BY <1>1, <1>2, <2>3, <3>1
    <3>6. u[a - 1] = IF b = j THEN t ELSE s[b - 1]
      BY <1>1, <1>2, <2>3, <3>1, <3>2
    <3>7. a # 1 /\ (b = n <=> a = n + 1) /\ (b = 1 => b = j)
      BY <1>1, <2>3, <3>1, <3>2
    <3> QED
      BY <3>2, <3>3, <3>4, <3>5, <3>6, <3>7
  <2> QED
    BY <1>1, <2>1, <2>2, <2>3
<1>4. Order(n + 1, u)
  BY InsOrder DEF Linked, u
<1> QED
  BY <1>3, <1>4 DEF Linked, u

LEMMA InsSpans ==
    ASSUME NEW n \in Nat, NEW s, NEW S, Spans(n, s, S), NEW j \in 1 .. n + 1,
           NEW t \in Timers
    PROVE  Spans(n + 1, Ins(n, s, j, t), S \cup {t})
<1> DEFINE u == Ins(n, s, j, t)
<1>1. \A a \in 1 .. n + 1 :
        \/ a < j /\ a \in 1..n /\ u[a] = s[a]
        \/ a = j /\ u[a] = t
        \/ a > j /\ a - 1 \in 1..n /\ u[a] = s[a - 1]
  BY DEF Ins
<1>2. \A i \in 1..n : \E a \in 1 .. n + 1 : u[a] = s[i]
  <2>1. ASSUME NEW i \in 1..n PROVE \E a \in 1 .. n + 1 : u[a] = s[i]
    <3>1. i < j => u[i] = s[i] /\ i \in 1 .. n + 1
      BY DEF Ins
    <3>2. ~(i < j) => u[i + 1] = s[i] /\ i + 1 \in 1 .. n + 1
      BY DEF Ins
    <3> HIDE DEF u
    <3> QED
      BY <3>1, <3>2
  <2> QED
    BY <2>1
<1>3. \E a \in 1 .. n + 1 : u[a] = t
  BY DEF Ins
<1> HIDE DEF u
<1>4. ASSUME NEW x \in Timers
      PROVE  x \in S \cup {t} <=> \E a \in 1 .. n + 1 : u[a] = x
  <2>1. x \in S <=> \E i \in 1..n : s[i] = x
    BY DEF Spans
  <2>2. (\E a \in 1 .. n + 1 : u[a] = x) => x = t \/ \E i \in 1..n : s[i] = x
    BY <1>1
  <2>3. (\E i \in 1..n : s[i] = x) => \E a \in 1 .. n + 1 : u[a] = x
    BY <1>2
  <2> QED
    BY <1>3, <2>1, <2>2, <2>3
<1> QED
  BY <1>4 DEF Spans, u

LEMMA InsSorted ==
    ASSUME NEW n \in Nat, NEW s, NEW ex \in [Timers -> Nat], NEW b \in Nat,
           Sorted(n, s, ex, b), s \in [1..n -> Timers],
           NEW j \in 1 .. n + 1, NEW t \in Timers,
           \A i \in 1..n : ex[s[i]] <= ex[t] + b,
           \A i \in 1..n : i >= j => ex[t] <= ex[s[i]] + b
    PROVE  Sorted(n + 1, Ins(n, s, j, t), ex, b)
<1> DEFINE u == Ins(n, s, j, t)
<1>1. \A a \in 1 .. n + 1 :
        \/ a < j /\ a \in 1..n /\ u[a] = s[a]
        \/ a = j /\ u[a] = t
        \/ a > j /\ a - 1 \in 1..n /\ a - 1 >= j /\ u[a] = s[a - 1]
  BY DEF Ins
<1> HIDE DEF u
<1>2. ASSUME NEW a \in 1 .. n + 1, NEW c \in 1 .. n + 1, a < c
      PROVE  ex[u[a]] <= ex[u[c]] + b
  <2>1. \A x, y \in 1..n : x < y => ex[s[x]] <= ex[s[y]] + b
    BY DEF Sorted
  <2>2. CASE a < j /\ c < j
    BY <1>1, <1>2, <2>1, <2>2
  <2>3. CASE a < j /\ c = j
    BY <1>1, <2>3
  <2>4. CASE a < j /\ c > j
    <3>1. PICK x \in 1..n, y \in 1..n : x < y /\ u[a] = s[x] /\ u[c] = s[y]
      BY <1>1, <2>4, SMTT(30)
    <3> QED
      BY <2>1, <3>1
  <2>5. CASE a = j /\ c > j
    <3>1. PICK y \in 1..n : y >= j /\ u[c] = s[y]
      BY <1>1, <2>5
    <3>2. u[a] = t /\ ex[t] <= ex[s[y]] + b
      BY <1>1, <2>5, <3>1
    <3> QED
      BY <3>1, <3>2
  <2>6. CASE a > j /\ c > j
    <3>1. PICK x \in 1..n : x = a - 1 /\ u[a] = s[x]
      BY <1>1, <2>6
    <3>2. PICK y \in 1..n : y = c - 1 /\ u[c] = s[y]
      BY <1>1, <2>6
    <3>3. x < y
      BY <1>2, <3>1, <3>2
    <3> QED
      BY <2>1, <3>1, <3>2, <3>3
  <2> QED
    BY <1>2, <2>2, <2>3, <2>4, <2>5, <2>6
<1> QED
  BY <1>2 DEF Sorted, u

LEMMA DelOrder ==
    ASSUME NEW n, NEW s, Order(n, s), NEW k \in 1..n
    PROVE  Order(n - 1, Del(n, s, k)) /\ Absent(n - 1, Del(n, s, k), s[k])
<1> DEFINE u == Del(n, s, k)
<1>1. n \in Nat /\ s \in [1..n -> Timers] /\ n - 1 \in Nat /\ s[k] \in Timers
  BY DEF Order
<1>2. u \in [1 .. n - 1 -> Timers]
  BY <1>1 DEF Del
<1>3. \A a \in 1 .. n - 1 :
        \/ a < k /\ a \in 1..n /\ u[a] = s[a]
        \/ a >= k /\ a + 1 \in 1..n /\ u[a] = s[a + 1]
  BY <1>1 DEF Del
<1> HIDE DEF u
<1>4. \A x, y \in 1..n : s[x] = s[y] => x = y
  BY DEF Order
<1>5. ASSUME NEW a \in 1 .. n - 1, NEW b \in 1 .. n - 1, u[a] = u[b]
      PROVE  a = b
  BY <1>1, <1>3, <1>4, <1>5
<1>6. \A a \in 1 .. n - 1 : u[a] # s[k]
  BY <1>1, <1>3, <1>4
<1>7. Order(n - 1, u)
  BY <1>1, <1>2, <1>5 DEF Order
<1>8. Absent(n - 1, u, s[k])
  BY <1>1, <1>6 DEF Absent
<1> QED
  BY <1>7, <1>8 DEF u

LEMMA DelLinks ==
    ASSUME NEW n, NEW s, NEW nx, NEW pv, Linked(n, s, nx, pv), NEW k \in 1..n,
           NEW nx2, NEW pv2, TakenOut(n, s, k, nx, pv, nx2, pv2)
    PROVE  Linked(n - 1, Del(n, s, k), nx2, pv2)
<1> DEFINE u == Del(n, s, k)
<1>1. n \in Nat /\ s \in [1..n -> Timers] /\ n - 1 \in Nat
  BY DEF Linked, Order
<1>2. \A a \in 1 .. n - 1 : u[a] = IF a < k THEN s[a] ELSE s[a + 1]
  BY DEF Del
<1> HIDE DEF u
<1>3. ASSUME NEW a \in 1 .. n - 1
      PROVE  /\ nx2[u[a]] = IF a = n - 1 THEN NULL ELSE u[a + 1]
             /\ pv2[u[a]] = IF a = 1 THEN NULL ELSE u[a - 1]
  <2>1. CASE a < k
    <3>1. a \in 1..n /\ a # k /\ u[a] = s[a] /\ a # n /\ a # k + 1
      BY <1>1, <1>2, <2>1
    <3>2. nx2[s[a]] = IF a = k - 1 THEN nx[s[k]] ELSE s[a + 1]
      BY <3>1 DEF Linked, TakenOut
    <3>3. nx[s[k]] = IF k = n THEN NULL ELSE s[k + 1]
      BY DEF Linked
    <3>4. pv2[s[a]] = IF a = 1 THEN NULL ELSE s[a - 1]
      BY <3>1 DEF Linked, TakenOut
    <3>5. a # 1 => u[a - 1] = s[a - 1]
      BY <1>1, <1>2, <2>1
    <3>6. a # n - 1 => u[a + 1] = IF a = k - 1 THEN s[k + 1] ELSE s[a + 1]
      BY <1>1, <1>2, <2>1
    <3>7. /\ a = k - 1 => (k = n <=> a = n - 1)
          /\ a # k - 1 => a # n - 1
      BY <1>1, <2>1
    <3> QED
      BY <3>1, <3>2, <3>3, <3>4, <3>5, <3>6, <3>7
  <2>2. CASE a >= k
    <3>1. PICK b \in 1..n : b = a + 1
      BY <1>1
    <3>2. u[a] = s[b] /\ b # k /\ b # k - 1 /\ b # 1
      BY <1>1, <1>2, <2>2, <3>1
    <3>3. nx2[s[b]] = IF b = n THEN NULL ELSE s[b + 1]
      BY <3>2 DEF Linked, TakenOut
    <3>4. pv2[s[b]] = IF b = k + 1 THEN pv[s[k]] ELSE s[b - 1]
      BY <3>2 DEF Linked, TakenOut
    <3>5. pv[s[k]] = IF k = 1 THEN NULL ELSE s[k - 1]
      BY DEF Linked
    <3>6. a # n - 1 => u[a + 1] = s[b + 1]
      BY <1>1, <1>2, <2>2, <3>1
    <3>7. a # 1 => u[a - 1] = IF b = k + 1 THEN s[k - 1] ELSE s[b - 1]
      BY <1>1, <1>2, <2>2, <3>1
    <3>8. (b = n <=> a = n - 1) /\ (b = k + 1 <=> a = k) /\ (a = 1 => a = k)
      BY <1>1, <2>2, <3>1
    <3> QED
      BY <3>2, <3>3, <3>4, <3>5, <3>6, <3>7, <3>8
  <2> QED
    BY <1>1, <2>1, <2>2
<1>4. Order(n - 1, u)
  BY DelOrder DEF Linked, u
<1> QED
  BY <1>3, <1>4 DEF Linked, u

LEMMA DelSpans ==
    ASSUME NEW n, NEW s, Order(n, s), NEW S, Spans(n, s, S), NEW k \in 1..n
    PROVE  Spans(n - 1, Del(n, s, k), S \ {s[k]})
<1> DEFINE u == Del(n, s, k)
<1>1. n \in Nat
  BY DEF Order
<1>2. \A a \in 1 .. n - 1 : \E i \in 1..n : i # k /\ u[a] = s[i]
  <2>1. ASSUME NEW a \in 1 .. n - 1 PROVE \E i \in 1..n : i # k /\ u[a] = s[i]
    <3>1. a < k => u[a] = s[a] /\ a \in 1..n /\ a # k
      BY <1>1 DEF Del
    <3>2. ~(a < k) => u[a] = s[a + 1] /\ a + 1 \in 1..n /\ a + 1 # k
      BY <1>1 DEF Del
    <3> HIDE DEF u
    <3> QED
      BY <3>1, <3>2
  <2> QED
    BY <2>1
<1>3. ASSUME NEW i \in 1..n, i # k PROVE \E a \in 1 .. n - 1 : u[a] = s[i]
  <2>1. i < k => u[i] = s[i] /\ i \in 1 .. n - 1
    BY <1>1 DEF Del
  <2>2. ~(i < k) => u[i - 1] = s[i] /\ i - 1 \in 1 .. n - 1
    BY <1>1, <1>3 DEF Del
  <2> HIDE DEF u
  <2> QED
    BY <2>1, <2>2
<1> HIDE DEF u
<1>4. \A i \in 1..n : i # k => s[i] # s[k]
  BY DEF Order
<1>5. ASSUME NEW x \in Timers
      PROVE  x \in S \ {s[k]} <=> \E a \in 1 .. n - 1 : u[a] = x
  <2>1. x \in S <=> \E i \in 1..n : s[i] = x
    BY DEF Spans
  <2>2. (\E a \in 1 .. n - 1 : u[a] = x) => x # s[k] /\ \E i \in 1..n : s[i] = x
    BY <1>2, <1>4
  <2>3. x # s[k] /\ (\E i \in 1..n : s[i] = x) => \E a \in 1 .. n - 1 : u[a] = x
    BY <1>3
  <2> QED
    BY <2>1, <2>2, <2>3
<1> QED
  BY <1>5 DEF Spans, u

LEMMA DelSorted ==
    ASSUME NEW n \in Nat, NEW s, NEW k \in 1..n, NEW ex, NEW ex2, NEW b,
           Sorted(n, s, ex, b), \A i \in 1..n : i # k => ex2[s[i]] = ex[s[i]]
    PROVE  Sorted(n - 1, Del(n, s, k), ex2, b)
<1> DEFINE u == Del(n, s, k)
<1>1. ASSUME NEW a \in 1 .. n - 1, NEW c \in 1 .. n - 1, a < c
      PROVE  ex2[u[a]] <= ex2[u[c]] + b
  <2>1. PICK x \in 1..n : x # k /\ u[a] = s[x] /\ x = IF a < k THEN a ELSE a + 1
    BY DEF Del
  <2>2. PICK y \in 1..n : y # k /\ u[c] = s[y] /\ y = IF c < k THEN c ELSE c + 1
    BY DEF Del
  <2>3. x < y
    BY <1>1, <2>1, <2>2
  <2> HIDE DEF u
  <2>4. ex[s[x]] <= ex[s[y]] + b /\ ex2[s[x]] = ex[s[x]] /\ ex2[s[y]] = ex[s[y]]
    BY <2>1, <2>2, <2>3 DEF Sorted
  <2> QED
    BY <2>1, <2>2, <2>4
<1> QED
  BY <1>1 DEF Sorted

-----------------------------------------------------------------------------
(* Where AddAfter puts t: somewhere behind s[k], before the first that is  *)
(* due later.                                                              *)
Placed(n, s, k, j, t, nx, pv) ==
    /\ j \in k + 1 .. n + 1
    /\ j <= n => expire'[t] < expire'[s[j]]
    /\ Link(t, s[j - 1], IF j = n + 1 THEN NULL ELSE s[j], nx, pv)

LEMMA AddAfterPlaces ==
    ASSUME ListAssumption, NEW n, NEW s, NEW nx, NEW pv, Linked(n, s, nx, pv),
           NEW k \in 1..n, NEW t, AddAfter(t, s[k], nx, pv)
    PROVE  \E j \in Nat : Placed(n, s, k, j, t, nx, pv)
<1> DEFINE rest  == Chain(nx, s[k])
           later == {i \in 2..Len(rest) : expire'[t] < expire'[rest[i]]}
           i0    == IF later = {} THEN Len(rest) + 1 ELSE Min(later)
<1>1. n \in Nat /\ s \in [1..n -> Timers]
  BY DEF Linked, Order
<1>2. rest = [i \in 1 .. n - k + 1 |-> s[k + i - 1]]
  <2>1. PICK h : h = s[k]
    OBVIOUS
  <2>2. k \in 1 .. n + 1 /\ h = IF k = n + 1 THEN NULL ELSE s[k]
    BY <1>1, <2>1
  <2> HIDE DEF rest, later, i0
  <2>3. Chain(nx, h) = Onwards(n, s, k)
    BY <2>2, ChainIs
  <2> QED
    BY <2>1, <2>3 DEF rest, Onwards
<1>3. PICK m \in Nat : m = n - k + 1 /\ m >= 1
  BY <1>1
<1>4. Len(rest) = m /\ \A i \in 1..m : rest[i] = s[k + i - 1]
  <2>1. rest = [i \in 1..m |-> s[k + i - 1]]
    BY <1>2, <1>3
  <2> HIDE DEF rest
  <2>2. DOMAIN rest = 1..m
    BY <2>1
  <2>3. rest \in Seq({s[i] : i \in 1..n})
    <3>1. \A i \in 1..m : k + i - 1 \in 1..n
      BY <1>1, <1>3
    <3>2. rest \in [1..m -> {s[i] : i \in 1..n}]
      BY <2>1, <3>1
    <3> QED
      BY <3>2, SeqDef
  <2>4. Len(rest) \in Nat /\ DOMAIN rest = 1..Len(rest)
    BY <2>3, LenProperties
  <2>5. Len(rest) = m
    BY <2>2, <2>4
  <2> QED
    BY <2>1, <2>5
<1>5. PICK l : l = later
  OBVIOUS
<1>6. \A i : i \in l <=> i \in 2..m /\ expire'[t] < expire'[s[k + i - 1]]
  <2> HIDE DEF rest
  <2> QED
    BY <1>3, <1>4, <1>5
<1>7. PICK i \in Nat : i = i0
  <2>1. later = l /\ Len(rest) = m
    BY <1>4, <1>5
  <2>2. l # {} => Min(l) \in l
    BY <1>6, MinIs
  <2>3. l # {} => Min(l) \in Nat
    BY <1>6, <2>2
  <2> HIDE DEF rest, later
  <2> QED
    BY <1>3, <2>1, <2>3
<1>8. i = IF l = {} THEN m + 1 ELSE Min(l)
  <2>1. later = l /\ Len(rest) = m
    BY <1>4, <1>5
  <2> HIDE DEF rest, later
  <2> QED
    BY <1>7, <2>1
<1>9. Link(t, rest[i - 1], IF l = {} THEN NULL ELSE rest[i], nx, pv)
  <2> HIDE DEF Chain
  <2> QED
    BY <1>5, <1>7 DEF AddAfter
<1> HIDE DEF rest, later, i0
<1>10. i \in 2 .. m + 1 /\ (l = {} <=> i = m + 1) /\ (l # {} => i \in l)
  <2>1. l # {} => Min(l) \in l
    BY <1>6, MinIs
  <2>2. l # {} => i \in l /\ i \in 2..m
    BY <1>6, <1>8, <2>1
  <2> QED
    BY <1>3, <1>8, <2>2
<1>11. PICK j \in Nat : j = k + i - 1
  BY <1>1, <1>10
<1>12. j \in k + 1 .. n + 1 /\ (l = {} <=> j = n + 1)
  BY <1>1, <1>3, <1>10, <1>11
<1>13. rest[i - 1] = s[j - 1] /\ (l # {} => rest[i] = s[j])
  <2>1. i - 1 \in 1..m /\ k + (i - 1) - 1 = j - 1
    BY <1>3, <1>10, <1>11
  <2>2. l # {} => i \in 1..m
    BY <1>3, <1>10
  <2> QED
    BY <1>4, <1>11, <2>1, <2>2
<1>14. j <= n => expire'[t] < expire'[s[j]]
  <2>1. j <= n => l # {}
    BY <1>1, <1>12
  <2> QED
    BY <1>6, <1>10, <1>11, <2>1
<1>15. Link(t, s[j - 1], IF j = n + 1 THEN NULL ELSE s[j], nx, pv)
  <2>1. (IF l = {} THEN NULL ELSE rest[i]) = (IF j = n + 1 THEN NULL ELSE s[j])
    BY <1>12, <1>13
  <2> QED
    BY <1>9, <1>13, <2>1
<1> QED
  BY <1>12, <1>14, <1>15 DEF Placed

(* The links as functions on the addresses.                                *)
LinkTypes(nx, pv) ==
    nx \in [Timers -> Timers \cup {NULL}] /\ pv \in [Timers -> Timers \cup {NULL}]

LEMMA LinkPutsIn ==
    ASSUME ListAssumption, NEW n, NEW s, NEW nx, NEW pv, LinkTypes(nx, pv),
           Linked(n, s, nx, pv), NEW t, Absent(n, s, t), NEW j \in 2 .. n + 1,
           Link(t, s[j - 1], IF j = n + 1 THEN NULL ELSE s[j], nx, pv)
    PROVE  PutIn(n, s, j, t, nx, pv, next', prev') /\ LinkTypes(next', prev')
<1>1. n \in Nat /\ s \in [1..n -> Timers] /\ t \in Timers /\ NULL \notin Timers
  BY DEF Linked, Order, Absent, ListAssumption
<1>2. \A a, c \in 1..n : s[a] = s[c] => a = c
  BY DEF Linked, Order
<1>3. \A i \in 1..n : s[i] # t /\ s[i] \in Timers
  BY <1>1 DEF Absent
<1>4. PICK h \in 1..n : h = j - 1
  BY <1>1
<1>5. PICK e \in Timers \cup {NULL} : e = IF j = n + 1 THEN NULL ELSE s[j]
  BY <1>1
<1>6. /\ next' = [nx EXCEPT ![s[h]] = t, ![t] = e]
      /\ prev' = SetAt([pv EXCEPT ![t] = s[h]], e, t)
  BY <1>4, <1>5 DEF Link
<1>7. /\ next'[t] = e
      /\ \A x \in Timers : x # t => next'[x] = IF x = s[h] THEN t ELSE nx[x]
      /\ next' \in [Timers -> Timers \cup {NULL}]
  BY <1>1, <1>3, <1>6 DEF LinkTypes
<1>8. e # t
  BY <1>1, <1>3, <1>5
<1>9. /\ prev'[t] = s[h]
      /\ \A x \in Timers : x # t => prev'[x] = IF x = e THEN t ELSE pv[x]
      /\ prev' \in [Timers -> Timers \cup {NULL}]
  <2>1. CASE e = NULL
    BY <1>1, <1>3, <1>6, <2>1 DEF LinkTypes, SetAt
  <2>2. CASE e # NULL
    <3>1. prev' = [[pv EXCEPT ![t] = s[h]] EXCEPT ![e] = t] /\ e \in Timers
      BY <1>5, <1>6, <2>2 DEF SetAt
    <3> QED
      BY <1>1, <1>3, <1>8, <3>1 DEF LinkTypes
  <2> QED
    BY <2>1, <2>2
<1>10. \A i \in 1..n : next'[s[i]] = IF i = j - 1 THEN t ELSE nx[s[i]]
  BY <1>2, <1>3, <1>4, <1>7
<1>11. \A i \in 1..n : prev'[s[i]] = IF i = j THEN t ELSE pv[s[i]]
  <2>1. \A i \in 1..n : s[i] = e <=> i = j
    BY <1>1, <1>2, <1>5
  <2> QED
    BY <1>3, <1>9, <2>1
<1>12. next'[t] = (IF j = n + 1 THEN NULL ELSE s[j])
       /\ prev'[t] = (IF j = 1 THEN NULL ELSE s[j - 1])
  BY <1>4, <1>5, <1>7, <1>9
<1> QED
  BY <1>7, <1>9, <1>10, <1>11, <1>12 DEF PutIn, LinkTypes

(* add_timer behind a timer of the list leaves a list.                     *)
LEMMA AddAfterListed ==
    ASSUME ListAssumption, NEW n, NEW s, NEW nx, NEW pv, LinkTypes(nx, pv),
           Linked(n, s, nx, pv), NEW t, Absent(n, s, t), NEW k \in 1..n,
           AddAfter(t, s[k], nx, pv), tail = s[n],
           NEW S, Spans(n, s, S), live' = S \cup {t}, head' = s[1],
           expire' \in [Timers -> Nat], NEW b \in Nat, back' = b,
           Sorted(n, s, expire', b),
           \A i \in 1..n : expire'[s[i]] <= expire'[t] + b
    PROVE  LinkTypes(next', prev') /\ tail' \in Timers /\ Listed'
<1>1. n \in Nat /\ s \in [1..n -> Timers] /\ t \in Timers
  BY DEF Linked, Order, Absent
<1>2. PICK j \in Nat : Placed(n, s, k, j, t, nx, pv)
  BY AddAfterPlaces
<1>3. /\ j \in 2 .. n + 1 /\ (j <= n => expire'[t] < expire'[s[j]])
      /\ Link(t, s[j - 1], IF j = n + 1 THEN NULL ELSE s[j], nx, pv)
  BY <1>1, <1>2 DEF Placed
<1>4. PutIn(n, s, j, t, nx, pv, next', prev') /\ LinkTypes(next', prev')
  BY <1>3, LinkPutsIn
<1>5. j \in 1 .. n + 1
  BY <1>1, <1>3
<1>6. PICK u : u = Ins(n, s, j, t)
  OBVIOUS
<1>7. Linked(n + 1, u, next', prev')
  BY <1>4, <1>5, <1>6, InsLinks
<1>8. Spans(n + 1, u, live')
  BY <1>1, <1>5, <1>6, InsSpans
<1>9. Sorted(n + 1, u, expire', b)
  <2>1. ASSUME NEW i \in 1..n, i >= j PROVE expire'[t] <= expire'[s[i]] + b
    <3>1. i # j => expire'[s[j]] <= expire'[s[i]] + b
      BY <1>1, <1>5, <2>1 DEF Sorted
    <3>2. expire'[t] < expire'[s[j]] /\ j \in 1..n
      BY <1>1, <1>3, <1>5, <2>1
    <3>3. expire'[t] \in Nat /\ expire'[s[j]] \in Nat /\ expire'[s[i]] \in Nat
      BY <1>1, <3>2
    <3> QED
      BY <3>1, <3>2, <3>3
  <2>2. PICK ex \in [Timers -> Nat] : ex = expire'
    OBVIOUS
  <2>3. Sorted(n + 1, u, ex, b)
    BY <1>1, <1>5, <1>6, <2>1, <2>2, InsSorted
  <2> QED
    BY <2>2, <2>3
<1>10. PICK m \in Nat : m = n + 1 /\ m > 0
  BY <1>1
<1>11. u[1] = s[1] /\ u[m] = tail' /\ tail' \in Timers
  <2>1. u[1] = s[1]
    BY <1>1, <1>3, <1>6 DEF Ins
  <2>2. u[m] = IF j = m THEN t ELSE s[n]
    BY <1>1, <1>5, <1>6, <1>10 DEF Ins
  <2>3. tail' = IF j = m THEN t ELSE tail
    <3>1. j # m => s[j] \in Timers /\ s[j] # NULL
      BY <1>1, <1>5, <1>10 DEF ListAssumption
    <3> QED
      BY <1>3, <1>10, <3>1 DEF Link
  <2> QED
    BY <1>1, <2>1, <2>2, <2>3
<1>12. IsList(m, u)'
  BY <1>7, <1>8, <1>9, <1>10, <1>11 DEF IsList
<1>13. u \in [1..m -> Timers]
  BY <1>7, <1>10 DEF Linked, Order
<1>14. Listed'
  BY <1>10, <1>12, <1>13 DEF Listed
<1> QED
  BY <1>4, <1>11, <1>14

-----------------------------------------------------------------------------
(* A lease that starts now ends last, up to what the clock was set back.   *)
LEMMA RenewedLast ==
    ASSUME ListAssumption, LInv, NEW n, NEW s, IsList(n, s), NEW t \in Timers,
           expire' = [expire EXCEPT ![t] = now + Lease]
    PROVE  /\ expire' \in [Timers -> Nat] /\ expire'[t] = now + Lease
           /\ \A x \in Timers : x # t => expire'[x] = expire[x]
           /\ \A i \in 1..n : s[i] \in live /\ expire'[s[i]] <= expire'[t] + back
<1>1. now \in Nat /\ back \in Nat /\ Lease \in Nat /\ expire \in [Timers -> Nat]
  BY DEF LInv, TypeOK, ListAssumption
<1>2. s \in [1..n -> Timers]
  BY DEF IsList, Linked, Order
<1>3. \A i \in 1..n : s[i] \in live /\ s[i] \in Timers
  BY <1>2 DEF IsList, Spans
<1>4. /\ expire' \in [Timers -> Nat] /\ expire'[t] = now + Lease
      /\ \A x \in Timers : x # t => expire'[x] = expire[x]
  BY <1>1
<1>5. ASSUME NEW i \in 1..n PROVE expire'[s[i]] <= expire'[t] + back
  <2>1. expire[s[i]] <= now + Lease + back
    BY <1>3 DEF LInv, Bounded
  <2> QED
    BY <1>1, <1>3, <1>4, <2>1
<1> QED
  BY <1>3, <1>4, <1>5

LEMMA AddKeepsList ==
    ASSUME ListAssumption, LInv, NEW t \in Timers, AddTimer(t)
    PROVE  LinkTypes(next', prev') /\ tail' \in Timers /\ Listed'
<1>1. PICK n \in Nat : \E s \in [1..n -> Timers] : IsList(n, s)
  BY DEF LInv, Listed
<1>2. PICK s \in [1..n -> Timers] : IsList(n, s)
  BY <1>1
<1>3. /\ t \notin live /\ live' = live \cup {t} /\ back' = back
      /\ expire' = [expire EXCEPT ![t] = now + Lease]
  BY DEF AddTimer, New
<1>4. PICK nx, pv : nx = [next EXCEPT ![t] = NULL] /\ pv = [prev EXCEPT ![t] = NULL]
  OBVIOUS
<1>5. \/ head = NULL /\ head' = t /\ tail' = t /\ next' = nx /\ prev' = pv
      \/ /\ head # NULL /\ expire'[t] < expire[head]
         /\ next' = [nx EXCEPT ![t] = head] /\ prev' = [pv EXCEPT ![head] = t]
         /\ head' = t /\ tail' = tail
      \/ head # NULL /\ AddAfter(t, head, nx, pv) /\ head' = head
  <2> USE <1>4
  <2> QED
    BY DEF AddTimer
<1>6. NULL \notin Timers /\ back \in Nat /\ LinkTypes(next, prev)
  BY DEF LInv, TypeOK, LinkTypes, ListAssumption
<1>7. /\ Linked(n, s, next, prev) /\ Spans(n, s, live) /\ Sorted(n, s, expire, back)
      /\ head = (IF n = 0 THEN NULL ELSE s[1]) /\ (n > 0 => tail = s[n])
  BY <1>2 DEF IsList
<1>8. Absent(n, s, t)
  BY <1>2, <1>3, <1>7 DEF Absent, Spans
<1>9. /\ LinkTypes(nx, pv) /\ nx[t] = NULL /\ pv[t] = NULL
      /\ \A x \in Timers : x # t => nx[x] = next[x] /\ pv[x] = prev[x]
  BY <1>4, <1>6 DEF LinkTypes
<1>10. \A i \in 1..n : s[i] \in Timers /\ s[i] # t
  BY <1>8 DEF Absent
<1>11. Linked(n, s, nx, pv)
  BY <1>7, <1>9, <1>10 DEF Linked
<1>12. /\ expire' \in [Timers -> Nat]
       /\ \A x \in Timers : x # t => expire'[x] = expire[x]
       /\ \A i \in 1..n : expire'[s[i]] <= expire'[t] + back
  BY <1>2, <1>3, RenewedLast
<1>13. Sorted(n, s, expire', back)
  BY <1>7, <1>10, <1>12 DEF Sorted
<1>14. PICK b \in Nat : b = back
  BY <1>6
(* The new timer comes first.                                              *)
<1>15. ASSUME PutIn(n, s, 1, t, nx, pv, next', prev'), LinkTypes(next', prev'),
              head' = t, tail' = (IF n = 0 THEN t ELSE tail),
              \A i \in 1..n : expire'[t] <= expire'[s[i]] + b
       PROVE  LinkTypes(next', prev') /\ tail' \in Timers /\ Listed'
  <2>1. PICK u : u = Ins(n, s, 1, t)
    OBVIOUS
  <2>2. 1 \in 1 .. n + 1
    OBVIOUS
  <2>3. Linked(n + 1, u, next', prev')
    BY <1>8, <1>11, <1>15, <2>1, <2>2, InsLinks
  <2>4. Spans(n + 1, u, live')
    BY <1>3, <1>7, <2>1, <2>2, InsSpans
  <2>5. Sorted(n + 1, u, expire', b)
    <3>1. PICK ex \in [Timers -> Nat] : ex = expire'
      BY <1>12
    <3>2. Sorted(n, s, ex, b) /\ (\A i \in 1..n : i >= 1 => ex[t] <= ex[s[i]] + b)
          /\ (\A i \in 1..n : ex[s[i]] <= ex[t] + b)
      BY <1>12, <1>13, <1>14, <1>15, <3>1
    <3>3. Sorted(n + 1, u, ex, b)
      BY <2>1, <2>2, <3>2, InsSorted
    <3> QED
      BY <3>1, <3>3
  <2>6. PICK m \in Nat : m = n + 1 /\ m > 0
    OBVIOUS
  <2>7. u[1] = t /\ u[m] = tail' /\ tail' \in Timers
    BY <1>7, <1>15, <2>1, <2>6 DEF Ins
  <2>8. IsList(m, u)'
    BY <1>3, <1>14, <1>15, <2>3, <2>4, <2>5, <2>6, <2>7 DEF IsList
  <2>9. u \in [1..m -> Timers]
    BY <2>3, <2>6 DEF Linked, Order
  <2> QED
    BY <1>15, <2>6, <2>7, <2>8, <2>9 DEF Listed
<1>16. CASE head = NULL /\ head' = t /\ tail' = t /\ next' = nx /\ prev' = pv
  <2>1. n = 0
    BY <1>6, <1>7, <1>16
  <2>2. PutIn(n, s, 1, t, nx, pv, next', prev')
    BY <1>9, <1>16, <2>1 DEF PutIn
  <2> QED
    BY <1>9, <1>15, <1>16, <2>1, <2>2
<1>17. CASE /\ head # NULL /\ expire'[t] < expire[head]
            /\ next' = [nx EXCEPT ![t] = head] /\ prev' = [pv EXCEPT ![head] = t]
            /\ head' = t /\ tail' = tail
  <2>1. n > 0 /\ n # 0 /\ 1 \in 1..n /\ n + 1 # 1 /\ head = s[1] /\ head \in Timers
    BY <1>7, <1>17
  <2>2. \A i \in 1..n : s[i] = head <=> i = 1
    BY <1>7, <2>1 DEF Linked, Order
  <2>3. PutIn(n, s, 1, t, nx, pv, next', prev')
    <3>1. /\ next'[t] = head
          /\ \A x \in Timers : x # t => next'[x] = nx[x]
      BY <1>9, <1>17 DEF LinkTypes
    <3>2. /\ prev'[head] = t
          /\ \A x \in Timers : x # head => prev'[x] = pv[x]
      BY <1>9, <1>17, <2>1 DEF LinkTypes
    <3>3. \A i \in 1..n : next'[s[i]] = nx[s[i]] /\ i # 0
      BY <1>10, <3>1
    <3>4. \A i \in 1..n : prev'[s[i]] = IF i = 1 THEN t ELSE pv[s[i]]
      BY <1>10, <2>2, <3>2
    <3>5. prev'[t] = NULL
      BY <1>9, <1>10, <2>1, <3>2
    <3> QED
      BY <2>1, <3>1, <3>3, <3>4, <3>5 DEF PutIn
  <2>4. LinkTypes(next', prev')
    BY <1>9, <1>17, <2>1 DEF LinkTypes
  <2>5. ASSUME NEW i \in 1..n PROVE expire'[t] <= expire'[s[i]] + b
    <3>1. expire'[head] = expire[head]
      BY <1>10, <1>12, <2>1
    <3>2. i # 1 => expire'[s[1]] <= expire'[s[i]] + b
      BY <1>13, <1>14, <2>1 DEF Sorted
    <3>3. expire'[t] \in Nat /\ expire'[head] \in Nat /\ expire'[s[i]] \in Nat
      BY <1>10, <1>12, <2>1
    <3>4. expire'[t] < expire'[head]
      BY <1>17, <3>1
    <3> QED
      BY <2>1, <3>2, <3>3, <3>4
  <2> QED
    BY <1>15, <1>17, <2>1, <2>3, <2>4, <2>5
<1>18. CASE head # NULL /\ AddAfter(t, head, nx, pv) /\ head' = head
  <2>1. n > 0 /\ 1 \in 1..n /\ head = s[1] /\ tail = s[n]
    BY <1>7, <1>18
  <2>2. AddAfter(t, s[1], nx, pv)
    BY <1>18, <2>1
  <2>3. PICK S : S = live
    OBVIOUS
  <2>4. /\ Spans(n, s, S) /\ live' = S \cup {t} /\ head' = s[1] /\ back' = b
        /\ Sorted(n, s, expire', b)
        /\ \A i \in 1..n : expire'[s[i]] <= expire'[t] + b
    BY <1>3, <1>7, <1>12, <1>13, <1>14, <1>18, <2>1, <2>3
  <2> QED
    BY <1>8, <1>9, <1>11, <1>12, <2>1, <2>2, <2>4, AddAfterListed
<1> QED
  BY <1>5, <1>16, <1>17, <1>18

(* A timer of the list has a place in it.                                  *)
LEMMA HasPlace ==
    ASSUME NEW n, NEW s, IsList(n, s), NEW t \in Timers, t \in live
    PROVE  \E k \in 1..n : s[k] = t
BY DEF IsList, Spans

LEMMA AdjustKeepsList ==
    ASSUME ListAssumption, LInv, NEW t \in Timers, AdjustTimer(t)
    PROVE  LinkTypes(next', prev') /\ tail' \in Timers \cup {NULL} /\ Listed'
<1>1. PICK n \in Nat : \E s \in [1..n -> Timers] : IsList(n, s)
  BY DEF LInv, Listed
<1>2. PICK s \in [1..n -> Timers] : IsList(n, s)
  BY <1>1
<1>3. /\ t \in live /\ live' = live /\ back' = back
      /\ expire' = [expire EXCEPT ![t] = now + Lease]
  BY DEF AdjustTimer
<1>4. /\ NULL \notin Timers /\ back \in Nat /\ LinkTypes(next, prev)
      /\ tail \in Timers \cup {NULL} /\ expire \in [Timers -> Nat]
  BY DEF LInv, TypeOK, LinkTypes, ListAssumption
<1>5. /\ Linked(n, s, next, prev) /\ Spans(n, s, live) /\ Sorted(n, s, expire, back)
      /\ head = (IF n = 0 THEN NULL ELSE s[1]) /\ (n > 0 => tail = s[n])
      /\ Order(n, s)
  BY <1>2 DEF IsList, Linked
<1>6. PICK k \in 1..n : s[k] = t
  BY <1>2, <1>3, HasPlace
<1>7. /\ next[t] = (IF k = n THEN NULL ELSE s[k + 1])
      /\ prev[t] = (IF k = 1 THEN NULL ELSE s[k - 1])
  BY <1>5, <1>6 DEF Linked
<1>8. PICK b \in Nat : b = back
  BY <1>4
<1>9. \A i \in 1..n : i # k => s[i] # t
  BY <1>5, <1>6 DEF Order
<1>10. /\ expire' \in [Timers -> Nat]
       /\ \A x \in Timers : x # t => expire'[x] = expire[x]
       /\ \A i \in 1..n : expire'[s[i]] <= expire'[t] + b
  BY <1>2, <1>3, <1>8, RenewedLast
<1>11. CASE StaysPut(t) /\ UNCHANGED links
  <2>1. ASSUME NEW i \in 1..n, NEW j \in 1..n, i < j
        PROVE  expire'[s[i]] <= expire'[s[j]] + b
    <3>1. expire[s[i]] <= expire[s[j]] + b
      BY <1>5, <1>8, <2>1 DEF Sorted
    <3>2. CASE i = k
      <4>1. k # n /\ k + 1 \in 1..n /\ next[t] = s[k + 1] /\ next[t] \in Timers
        BY <1>7, <2>1, <3>2
      <4>2. expire'[t] < expire[s[k + 1]]
        BY <1>4, <1>11, <4>1 DEF StaysPut
      <4>3. j = k + 1 \/ expire[s[k + 1]] <= expire[s[j]] + b
        BY <1>5, <1>8, <2>1, <3>2, <4>1 DEF Sorted
      <4>4. expire'[s[j]] = expire[s[j]]
        BY <1>9, <1>10, <2>1, <3>2
      <4>5. expire'[t] \in Nat /\ expire[s[j]] \in Nat /\ expire[s[k + 1]] \in Nat
        BY <1>4, <1>10, <4>1
      <4> QED
        BY <1>6, <3>2, <4>2, <4>3, <4>4, <4>5
    <3>3. CASE j = k
      BY <1>6, <1>10, <3>3
    <3>4. CASE i # k /\ j # k
      BY <1>9, <1>10, <3>1, <3>4
    <3> QED
      BY <3>2, <3>3, <3>4
  <2>2. IsList(n, s)'
    BY <1>3, <1>5, <1>8, <1>11, <2>1 DEF IsList, Sorted, links
  <2> QED
    BY <1>4, <1>11, <2>2 DEF Listed, links
<1>12. ASSUME ~StaysPut(t),
              NEW nx, NEW pv, LinkTypes(nx, pv), TakenOut(n, s, k, next, prev, nx, pv),
              AddAfter(t, next[t], nx, pv),
              head' = (IF k = 1 THEN next[t] ELSE head)
       PROVE  LinkTypes(next', prev') /\ tail' \in Timers \cup {NULL} /\ Listed'
  <2>1. k # n /\ next[t] = s[k + 1] /\ n > 0
    BY <1>7, <1>12 DEF StaysPut
  <2>2. PICK u, m : u = Del(n, s, k) /\ m = n - 1
    OBVIOUS
  <2>3. m \in Nat /\ k \in 1..m /\ 1 \in 1..m
    BY <2>1, <2>2
  <2>4. Linked(m, u, nx, pv)
    BY <1>5, <1>12, <2>2, DelLinks
  <2>5. Absent(m, u, t)
    BY <1>5, <1>6, <2>2, DelOrder
  <2>6. u[k] = s[k + 1] /\ tail = u[m] /\ head' = u[1]
    <3>1. u[k] = s[k + 1] /\ u[m] = s[n]
      BY <2>1, <2>2, <2>3 DEF Del
    <3>2. k # 1 => u[1] = s[1]
      BY <2>1, <2>2, <2>3 DEF Del
    <3> QED
      BY <1>5, <1>12, <2>1, <3>1, <3>2
  <2>7. AddAfter(t, u[k], nx, pv)
    BY <1>12, <2>1, <2>6
  <2>8. PICK S : S = live \ {t}
    OBVIOUS
  <2>9. Spans(m, u, S) /\ live' = S \cup {t}
    <3>1. PICK L : L = live
      OBVIOUS
    <3>2. Spans(m, u, L \ {s[k]})
      BY <1>5, <2>2, <3>1, DelSpans
    <3> QED
      BY <1>3, <1>6, <2>8, <3>1, <3>2
  <2>10. Sorted(m, u, expire', b)
    <3>1. PICK ex, ex2 : ex = expire /\ ex2 = expire'
      OBVIOUS
    <3>2. Sorted(n, s, ex, b) /\ \A i \in 1..n : i # k => ex2[s[i]] = ex[s[i]]
      BY <1>5, <1>8, <1>9, <1>10, <3>1
    <3>3. Sorted(m, u, ex2, b)
      BY <2>2, <3>2, DelSorted
    <3> QED
      BY <3>1, <3>3
  <2>11. \A i \in 1..m : expire'[u[i]] <= expire'[t] + b
    <3>1. \A i \in 1..m : \E a \in 1..n : u[i] = s[a]
      <4>1. ASSUME NEW i \in 1..m PROVE \E a \in 1..n : u[i] = s[a]
        <5>1. i \in 1..n /\ i + 1 \in 1..n
          BY <2>1, <2>2
        <5>2. u[i] = s[i] \/ u[i] = s[i + 1]
          BY <2>2 DEF Del
        <5> QED
          BY <5>1, <5>2
      <4> QED
        BY <4>1
    <3> QED
      BY <1>10, <3>1
  <2>12. back' = b
    BY <1>3, <1>8
  <2> QED
    BY <1>10, <1>12, <2>3, <2>4, <2>5, <2>6, <2>7, <2>9, <2>10, <2>11, <2>12,
       AddAfterListed
<1>13. ~StaysPut(t) => k # n /\ next[t] = s[k + 1] /\ k + 1 \in 1..n
  BY <1>7 DEF StaysPut
<1>14. \A i, j \in 1..n : s[i] = s[j] <=> i = j
  BY <1>5 DEF Order
<1>15. CASE ~StaysPut(t) /\ t = head /\ AdjustHead(t)
  <2>1. k = 1
    BY <1>5, <1>6, <1>14, <1>15
  <2>2. PICK nx, pv : nx = [next EXCEPT ![t] = NULL] /\ pv = [prev EXCEPT ![next[t]] = NULL]
    OBVIOUS
  <2>3. LinkTypes(nx, pv)
    BY <1>4, <2>2 DEF LinkTypes
  <2>4. TakenOut(n, s, k, next, prev, nx, pv)
    <3>1. \A i \in 1..n : i # k => nx[s[i]] = next[s[i]] /\ i # k - 1
      BY <1>4, <1>9, <2>1, <2>2 DEF LinkTypes
    <3>2. \A i \in 1..n : i # k + 1 => pv[s[i]] = prev[s[i]]
      BY <1>4, <1>13, <1>14, <1>15, <2>2 DEF LinkTypes
    <3>3. pv[s[k + 1]] = prev[s[k]]
      <4>1. s[k + 1] \in Timers
        BY <1>13, <1>15
      <4> QED
        BY <1>4, <1>6, <1>7, <1>13, <1>15, <2>1, <2>2, <4>1 DEF LinkTypes
    <3> QED
      BY <3>1, <3>2, <3>3 DEF TakenOut
  <2>5. AddAfter(t, next[t], nx, pv) /\ head' = (IF k = 1 THEN next[t] ELSE head)
    BY <1>15, <2>1, <2>2 DEF AdjustHead
  <2> QED
    BY <1>12, <1>15, <2>3, <2>4, <2>5
<1>16. CASE ~StaysPut(t) /\ t # head /\ AdjustInner(t)
  <2>1. k # 1 /\ k - 1 \in 1..n
    BY <1>5, <1>6, <1>16
  <2>2. PICK nx, pv : /\ nx = [next EXCEPT ![prev[t]] = next[t]]
                      /\ pv = [prev EXCEPT ![next[t]] = prev[t]]
    OBVIOUS
  <2>3. prev[t] = s[k - 1] /\ next[t] = s[k + 1] /\ prev[t] \in Timers /\ next[t] \in Timers
    BY <1>7, <1>13, <1>16, <2>1
  <2>4. LinkTypes(nx, pv)
    BY <1>4, <2>2, <2>3 DEF LinkTypes
  <2>5. TakenOut(n, s, k, next, prev, nx, pv)
    <3>1. /\ nx[s[k - 1]] = next[s[k]] /\ pv[s[k + 1]] = prev[s[k]]
          /\ \A x \in Timers : x # s[k - 1] => nx[x] = next[x]
          /\ \A x \in Timers : x # s[k + 1] => pv[x] = prev[x]
      BY <1>4, <1>6, <2>2, <2>3 DEF LinkTypes
    <3>2. \A i \in 1..n : (s[i] = s[k - 1] <=> i = k - 1) /\ (s[i] = s[k + 1] <=> i = k + 1)
      BY <1>13, <1>14, <1>16, <2>1
    <3> QED
      BY <3>1, <3>2 DEF TakenOut
  <2>6. AddAfter(t, next[t], nx, pv) /\ head' = (IF k = 1 THEN next[t] ELSE head)
    BY <1>16, <2>1, <2>2 DEF AdjustInner
  <2> QED
    BY <1>12, <1>16, <2>4, <2>5, <2>6
<1> QED
  BY <1>11, <1>15, <1>16 DEF AdjustTimer

LEMMA DelKeepsList ==
    ASSUME ListAssumption, LInv, NEW t \in Timers, DelTimer(t)
    PROVE  LinkTypes(next', prev') /\ tail' \in Timers \cup {NULL} /\ Listed'
<1>1. PICK n \in Nat : \E s \in [1..n -> Timers] : IsList(n, s)
  BY DEF LInv, Listed
<1>2. PICK s \in [1..n -> Timers] : IsList(n, s)
  BY <1>1
<1>3. t \in live /\ live' = live \ {t} /\ expire' = expire /\ back' = back
  BY DEF DelTimer
<1>4. NULL \notin Timers /\ LinkTypes(next, prev) /\ tail \in Timers \cup {NULL}
  BY DEF LInv, TypeOK, LinkTypes, ListAssumption
<1>5. /\ Linked(n, s, next, prev) /\ Spans(n, s, live) /\ Sorted(n, s, expire, back)
      /\ head = (IF n = 0 THEN NULL ELSE s[1]) /\ (n > 0 => tail = s[n])
      /\ Order(n, s)
  BY <1>2 DEF IsList, Linked
<1>6. PICK k \in 1..n : s[k] = t
  BY <1>2, <1>3, HasPlace
<1>7. /\ next[t] = (IF k = n THEN NULL ELSE s[k + 1])
      /\ prev[t] = (IF k = 1 THEN NULL ELSE s[k - 1])
  BY <1>5, <1>6 DEF Linked
<1>8. \A i, j \in 1..n : s[i] = s[j] <=> i = j
  BY <1>5 DEF Order
<1>9. (t = head <=> k = 1) /\ (t = tail <=> k = n)
  BY <1>5, <1>6, <1>8
<1>10. ASSUME TakenOut(n, s, k, next, prev, next', prev'),
              LinkTypes(next', prev'), tail' \in Timers \cup {NULL},
              head' = (IF k # 1 THEN head ELSE IF n = 1 THEN NULL ELSE s[2]),
              n # 1 => tail' = IF k = n THEN s[n - 1] ELSE tail
       PROVE  LinkTypes(next', prev') /\ tail' \in Timers \cup {NULL} /\ Listed'
  <2>1. PICK u, m : u = Del(n, s, k) /\ m = n - 1
    OBVIOUS
  <2>2. Linked(m, u, next', prev') /\ m \in Nat /\ u \in [1..m -> Timers]
    <3>1. Linked(m, u, next', prev')
      BY <1>5, <1>10, <2>1, DelLinks
    <3> QED
      BY <3>1 DEF Linked, Order
  <2>3. Spans(m, u, live')
    <3>1. PICK L : L = live
      OBVIOUS
    <3>2. Spans(m, u, L \ {s[k]})
      BY <1>5, <2>1, <3>1, DelSpans
    <3> QED
      BY <1>3, <1>6, <3>1, <3>2
  <2>4. Sorted(m, u, expire', back')
    <3>1. PICK ex, b : ex = expire /\ b = back
      OBVIOUS
    <3>2. Sorted(m, u, ex, b)
      BY <1>5, <2>1, <3>1, DelSorted
    <3> QED
      BY <1>3, <3>1, <3>2
  <2>5. head' = IF m = 0 THEN NULL ELSE u[1]
    <3>1. m # 0 => u[1] = IF k = 1 THEN s[2] ELSE s[1]
      BY <2>1 DEF Del
    <3>2. (n = 1 <=> m = 0) /\ (n = 1 => k = 1)
      BY <2>1
    <3> QED
      BY <1>5, <1>10, <3>1, <3>2
  <2>6. m > 0 => tail' = u[m]
    <3>1. m > 0 => u[m] = IF k = n THEN s[n - 1] ELSE s[n]
      BY <2>1 DEF Del
    <3> QED
      BY <1>5, <1>10, <2>1, <3>1
  <2>7. IsList(m, u)'
    BY <2>2, <2>3, <2>4, <2>5, <2>6 DEF IsList
  <2> QED
    BY <1>10, <2>2, <2>7 DEF Listed
<1>11. CASE DelOnly(t)
  <2>1. k = 1 /\ k = n /\ n = 1
    BY <1>9, <1>11 DEF DelOnly
  <2>2. TakenOut(n, s, k, next, prev, next', prev')
    BY <2>1 DEF TakenOut
  <2> QED
    BY <1>4, <1>10, <1>11, <2>1, <2>2 DEF DelOnly
<1>12. CASE DelHead(t)
  <2>1. k = 1 /\ k # n /\ n # 1 /\ k + 1 \in 1..n /\ k + 1 = 2
    BY <1>9, <1>12 DEF DelHead
  <2>2. next[t] = s[2] /\ s[2] \in Timers /\ prev[t] = NULL
    BY <1>7, <2>1
  <2>3. /\ prev' \in [Timers -> Timers \cup {NULL}] /\ prev'[s[2]] = NULL
        /\ \A x \in Timers : x # s[2] => prev'[x] = prev[x]
    BY <1>4, <1>12, <2>2 DEF DelHead, LinkTypes
  <2>4. TakenOut(n, s, k, next, prev, next', prev')
    <3>1. \A i \in 1..n : i # k - 1 /\ next'[s[i]] = next[s[i]]
      BY <1>12, <2>1 DEF DelHead
    <3>2. \A i \in 1..n : prev'[s[i]] = IF i = k + 1 THEN prev[s[k]] ELSE prev[s[i]]
      BY <1>6, <1>8, <2>1, <2>2, <2>3
    <3> QED
      BY <3>1, <3>2 DEF TakenOut
  <2> QED
    BY <1>4, <1>10, <1>12, <2>1, <2>2, <2>3, <2>4 DEF DelHead, LinkTypes
<1>13. CASE DelTail(t)
  <2>1. k = n /\ k # 1 /\ n # 1 /\ k - 1 \in 1..n
    BY <1>9, <1>13 DEF DelTail
  <2>2. prev[t] = s[n - 1] /\ s[n - 1] \in Timers /\ next[t] = NULL
    BY <1>7, <2>1
  <2>3. /\ next' \in [Timers -> Timers \cup {NULL}] /\ next'[s[n - 1]] = NULL
        /\ \A x \in Timers : x # s[n - 1] => next'[x] = next[x]
    BY <1>4, <1>13, <2>2 DEF DelTail, LinkTypes
  <2>4. TakenOut(n, s, k, next, prev, next', prev')
    <3>1. \A i \in 1..n : i # k + 1 /\ prev'[s[i]] = prev[s[i]]
      BY <1>13, <2>1 DEF DelTail
    <3>2. \A i \in 1..n : next'[s[i]] = IF i = k - 1 THEN next[s[k]] ELSE next[s[i]]
      BY <1>6, <1>8, <2>1, <2>2, <2>3
    <3> QED
      BY <3>1, <3>2 DEF TakenOut
  <2> QED
    BY <1>4, <1>10, <1>13, <2>1, <2>2, <2>3, <2>4 DEF DelTail, LinkTypes
<1>14. CASE DelInner(t)
  <2>1. k # n /\ k # 1 /\ n # 1 /\ k - 1 \in 1..n /\ k + 1 \in 1..n
    BY <1>9, <1>14 DEF DelInner
  <2>2. prev[t] = s[k - 1] /\ next[t] = s[k + 1] /\ prev[t] \in Timers /\ next[t] \in Timers
    BY <1>7, <2>1
  <2>3. /\ LinkTypes(next', prev')
        /\ next'[s[k - 1]] = next[s[k]] /\ prev'[s[k + 1]] = prev[s[k]]
        /\ \A x \in Timers : x # s[k - 1] => next'[x] = next[x]
        /\ \A x \in Timers : x # s[k + 1] => prev'[x] = prev[x]
    BY <1>4, <1>6, <1>14, <2>2 DEF DelInner, LinkTypes
  <2>4. TakenOut(n, s, k, next, prev, next', prev')
    <3>1. \A i \in 1..n : (s[i] = s[k - 1] <=> i = k - 1) /\ (s[i] = s[k + 1] <=> i = k + 1)
      BY <1>8, <2>1
    <3> QED
      BY <2>3, <3>1 DEF TakenOut
  <2> QED
    BY <1>4, <1>10, <1>14, <2>1, <2>3, <2>4 DEF DelInner
<1> QED
  BY <1>11, <1>12, <1>13, <1>14 DEF DelTimer

(* What a tick takes: the first g, up to one that is not due.              *)
Ticked(n, s, g) ==
    /\ g \in 0..n
    /\ live' = live \ {s[i] : i \in 1..g}
    /\ head' = IF g = n THEN NULL ELSE s[g + 1]
    /\ prev' = IF g = 0 THEN prev ELSE SetAt(prev, head', NULL)
    /\ \A i \in 1..g : expire[s[i]] <= now
    /\ g # n => now < expire[s[g + 1]]

LEMMA TickTakes ==
    ASSUME ListAssumption, TypeOK, NEW n, NEW s, IsList(n, s), Tick
    PROVE  \E g \in Nat : Ticked(n, s, g)
<1> DEFINE chain == Chain(next, head)
           stay  == {i \in 1..Len(chain) : NotDueYet(chain[i])}
           gone  == IF stay = {} THEN Len(chain) ELSE Min(stay) - 1
<1>1. n \in Nat /\ s \in [1..n -> Timers] /\ NULL \notin Timers
  BY DEF IsList, Linked, Order, ListAssumption
<1>2. chain = Onwards(n, s, 1)
  <2>1. PICK nx, pv, h : nx = next /\ pv = prev /\ h = head
    OBVIOUS
  <2>2. PICK one \in 1 .. n + 1 : one = 1
    BY <1>1
  <2>3. Linked(n, s, nx, pv) /\ h = (IF one = n + 1 THEN NULL ELSE s[one])
    <3>1. one = n + 1 <=> n = 0
      BY <1>1, <2>2
    <3> QED
      BY <2>1, <2>2, <3>1 DEF IsList
  <2>4. Chain(nx, h) = Onwards(n, s, one)
    BY <2>3, ChainIs
  <2> QED
    BY <2>1, <2>2, <2>4
<1>3. Len(chain) = n /\ \A i \in 1..n : chain[i] = s[i]
  <2>1. \A i \in 1..n : 1 + i - 1 = i
    BY <1>1
  <2>2. chain = [i \in 1..n |-> s[i]]
    BY <1>1, <1>2, <2>1 DEF Onwards
  <2>3. s \in Seq(Timers) /\ chain = s
    BY <1>1, <2>2, SeqDef
  <2> QED
    BY <1>1, <2>3, LenProperties
<1>4. PICK l : l = stay
  OBVIOUS
<1>5. \A i : i \in l <=> i \in 1..n /\ now < expire[s[i]]
  <2> HIDE DEF chain
  <2> QED
    BY <1>3, <1>4 DEF NotDueYet
<1>6. PICK g : g = IF l = {} THEN n ELSE Min(l) - 1
  OBVIOUS
<1>7. gone = g
  <2>1. stay = l /\ Len(chain) = n
    BY <1>3, <1>4
  <2> HIDE DEF chain, stay
  <2> QED
    BY <1>6, <2>1
<1>8. l # {} => Min(l) \in l /\ \A i \in l : Min(l) <= i
  BY <1>5, MinIs
<1>9. g \in 0..n /\ (l = {} <=> g = n) /\ (g # n => g + 1 \in l)
      /\ \A i \in l : g < i
  <2>1. CASE l = {}
    BY <1>1, <1>6, <2>1
  <2>2. CASE l # {}
    <3>1. PICK x \in 1..n : x = Min(l)
      BY <1>5, <1>8, <2>2
    <3>2. g = x - 1 /\ x \in l /\ \A i \in l : x <= i
      BY <1>6, <1>8, <2>2, <3>1
    <3> QED
      BY <1>1, <1>5, <2>2, <3>1, <3>2
  <2> QED
    BY <2>1, <2>2
<1>10. /\ live' = live \ {chain[i] : i \in 1..gone}
       /\ head' = IF stay = {} THEN NULL ELSE chain[gone + 1]
       /\ prev' = IF gone = 0 THEN prev ELSE SetAt(prev, head', NULL)
  BY DEF Tick
<1> HIDE DEF gone, stay, chain
<1>11. \A i \in 1..g : i \in 1..n /\ chain[i] = s[i]
  BY <1>1, <1>3, <1>9
<1>12. live' = live \ {s[i] : i \in 1..g}
  <2>1. {chain[i] : i \in 1..g} = {s[i] : i \in 1..g}
    BY <1>11
  <2> QED
    BY <1>7, <1>10, <2>1
<1>13. head' = IF g = n THEN NULL ELSE s[g + 1]
  <2>1. g # n => g + 1 \in 1..n
    BY <1>1, <1>9
  <2> QED
    BY <1>3, <1>4, <1>7, <1>9, <1>10, <2>1
<1>14. \A i \in 1..g : expire[s[i]] <= now
  <2>1. ASSUME NEW i \in 1..g PROVE expire[s[i]] <= now
    <3>1. i \in 1..n /\ i \notin l
      BY <1>1, <1>9, <2>1
    <3>2. ~(now < expire[s[i]])
      BY <1>5, <3>1
    <3>3. expire[s[i]] \in Nat /\ now \in Nat
      BY <1>1, <3>1 DEF TypeOK, ListAssumption
    <3> QED
      BY <3>2, <3>3
  <2> QED
    BY <2>1
<1> QED
  BY <1>5, <1>7, <1>9, <1>10, <1>12, <1>13, <1>14 DEF Ticked

LEMMA TickKeepsList ==
    ASSUME ListAssumption, LInv, Tick
    PROVE  LinkTypes(next', prev') /\ tail' \in Timers \cup {NULL} /\ Listed'
<1>1. PICK n \in Nat : \E s \in [1..n -> Timers] : IsList(n, s)
  BY DEF LInv, Listed
<1>2. PICK s \in [1..n -> Timers] : IsList(n, s)
  BY <1>1
<1>3. PICK g \in Nat : Ticked(n, s, g)
  BY <1>2, TickTakes DEF LInv
<1>4. next' = next /\ tail' = tail /\ expire' = expire /\ back' = back
  BY DEF Tick
<1>5. NULL \notin Timers /\ LinkTypes(next, prev) /\ tail \in Timers \cup {NULL}
  BY DEF LInv, TypeOK, LinkTypes, ListAssumption
<1>6. /\ Linked(n, s, next, prev) /\ Spans(n, s, live) /\ Sorted(n, s, expire, back)
      /\ head = (IF n = 0 THEN NULL ELSE s[1]) /\ (n > 0 => tail = s[n])
      /\ \A i, j \in 1..n : s[i] = s[j] <=> i = j
  BY <1>2 DEF IsList, Linked, Order
<1>7. PICK m \in Nat : m = n - g
  BY <1>3 DEF Ticked
<1>8. PICK u : u = [i \in 1..m |-> s[g + i]]
  OBVIOUS
<1>9. \A i \in 1..m : g + i \in 1..n /\ u[i] = s[g + i]
  BY <1>3, <1>7, <1>8 DEF Ticked
<1>10. u \in [1..m -> Timers]
  BY <1>2, <1>8, <1>9
<1>11. g # n => g + 1 \in 1..n /\ head' = s[g + 1] /\ head' \in Timers
  BY <1>2, <1>3 DEF Ticked
<1>12. LinkTypes(next', prev') /\ \A i \in 1..m :
         prev'[u[i]] = IF i = 1 THEN NULL ELSE prev[u[i]]
  <2>1. CASE g = 0
    <3>1. \A i \in 1..m : g + i = i
      BY <2>1
    <3> QED
      BY <1>3, <1>4, <1>5, <1>6, <1>9, <2>1, <3>1 DEF Ticked, Linked
  <2>2. CASE g # 0 /\ g = n
    <3>1. m = 0 /\ head' = NULL /\ prev' = prev
      BY <1>3, <1>7, <2>2 DEF Ticked, SetAt
    <3> QED
      BY <1>4, <1>5, <3>1
  <2>3. CASE g # 0 /\ g # n
    <3>1. prev' = [prev EXCEPT ![s[g + 1]] = NULL] /\ s[g + 1] \in Timers
      BY <1>3, <1>5, <1>11, <2>3 DEF Ticked, SetAt
    <3>2. \A i \in 1..m : u[i] \in Timers /\ (u[i] = s[g + 1] <=> i = 1)
      BY <1>6, <1>9, <1>10, <1>11, <2>3
    <3> QED
      BY <1>4, <1>5, <3>1, <3>2 DEF LinkTypes
  <2> QED
    BY <2>1, <2>2, <2>3
<1>13. Linked(m, u, next', prev')
  <2>1. ASSUME NEW i \in 1..m, NEW j \in 1..m, u[i] = u[j] PROVE i = j
    <3>1. g + i = g + j
      BY <1>6, <1>9, <2>1
    <3> QED
      BY <3>1
  <2>2. ASSUME NEW i \in 1..m
        PROVE  /\ next'[u[i]] = IF i = m THEN NULL ELSE u[i + 1]
               /\ prev'[u[i]] = IF i = 1 THEN NULL ELSE u[i - 1]
    <3>1. PICK a \in 1..n : a = g + i
      BY <1>9
    <3>2. /\ next[s[a]] = IF a = n THEN NULL ELSE s[a + 1]
          /\ prev[s[a]] = IF a = 1 THEN NULL ELSE s[a - 1]
      BY <1>6 DEF Linked
    <3>3. i # m => i + 1 \in 1..m /\ u[i + 1] = s[a + 1]
      BY <1>9, <3>1
    <3>4. i # 1 => i - 1 \in 1..m /\ u[i - 1] = s[a - 1] /\ a # 1
      <4>1. i # 1 => i - 1 \in 1..m /\ g + (i - 1) = a - 1
        BY <3>1
      <4> QED
        BY <1>9, <3>1, <4>1
    <3>5. a = n <=> i = m
      BY <1>7, <3>1
    <3> QED
      BY <1>4, <1>9, <1>12, <3>1, <3>2, <3>3, <3>4, <3>5
  <2> QED
    BY <1>10, <2>1, <2>2 DEF Linked, Order
<1>14. Spans(m, u, live')
  <2>1. ASSUME NEW t \in Timers
        PROVE  t \in live' <=> \E i \in 1..m : u[i] = t
    <3>1. t \in live' <=> t \in live /\ \A i \in 1..g : s[i] # t
      BY <1>3 DEF Ticked
    <3>2. t \in live <=> \E i \in 1..n : s[i] = t
      BY <1>6 DEF Spans
    <3>3. ASSUME NEW i \in 1..n, s[i] = t, \A a \in 1..g : s[a] # t
          PROVE  \E a \in 1..m : u[a] = t
      <4>1. ~(i <= g)
        BY <1>3, <3>3
      <4>2. i - g \in 1..m /\ g + (i - g) = i
        BY <1>3, <1>7, <4>1
      <4> QED
        BY <1>9, <3>3, <4>2
    <3>4. ASSUME NEW a \in 1..m, u[a] = t
          PROVE  t \in live /\ \A i \in 1..g : s[i] # t
      <4>1. g + a \in 1..n /\ s[g + a] = t
        BY <1>9, <3>4
      <4>2. \A i \in 1..g : i \in 1..n /\ i # g + a
        BY <1>3 DEF Ticked
      <4> QED
        BY <1>6, <3>2, <4>1, <4>2
    <3> QED
      BY <3>1, <3>2, <3>3, <3>4
  <2> QED
    BY <2>1 DEF Spans
<1>15. Sorted(m, u, expire', back')
  <2>1. \A i, j \in 1..m : i < j => g + i < g + j
    OBVIOUS
  <2> QED
    BY <1>4, <1>6, <1>9, <2>1 DEF Sorted
<1>16. /\ head' = (IF m = 0 THEN NULL ELSE u[1])
       /\ m > 0 => tail' = u[m]
  <2>1. m = 0 <=> g = n
    BY <1>3, <1>7
  <2>2. m # 0 => 1 \in 1..m /\ m \in 1..m /\ g + m = n /\ n > 0
    BY <1>3, <1>7
  <2> QED
    BY <1>3, <1>4, <1>6, <1>9, <1>11, <2>1, <2>2 DEF Ticked
<1>17. IsList(m, u)'
  BY <1>13, <1>14, <1>15, <1>16 DEF IsList
<1> QED
  BY <1>4, <1>5, <1>10, <1>12, <1>17 DEF Listed

LEMMA ClockKeepsList ==
    ASSUME ListAssumption, LInv, Clock
    PROVE  LinkTypes(next', prev') /\ tail' \in Timers \cup {NULL} /\ Listed'
<1>1. PICK n \in Nat : \E s \in [1..n -> Timers] : IsList(n, s)
  BY DEF LInv, Listed
<1>2. PICK s \in [1..n -> Timers] : IsList(n, s)
  BY <1>1
<1>3. /\ head' = head /\ tail' = tail /\ next' = next /\ prev' = prev
      /\ expire' = expire /\ live' = live
  BY DEF Clock, links
<1>4. back \in Nat /\ back' \in Nat /\ back <= back'
  BY DEF LInv, TypeOK, Clock, Passes, SetBack, ListAssumption
<1>5. Sorted(n, s, expire', back')
  <2>1. \A i \in 1..n : expire[s[i]] \in Nat
    BY <1>2 DEF LInv, TypeOK
  <2>2. \A i, j \in 1..n : i < j => expire[s[i]] <= expire[s[j]] + back
    BY <1>2 DEF IsList, Sorted
  <2> QED
    BY <1>3, <1>4, <2>1, <2>2 DEF Sorted
<1>6. IsList(n, s)'
  BY <1>2, <1>3, <1>5 DEF IsList
<1>7. LinkTypes(next, prev) /\ tail \in Timers \cup {NULL}
  BY DEF LInv, TypeOK, LinkTypes
<1> QED
  BY <1>2, <1>3, <1>6, <1>7 DEF Listed

-----------------------------------------------------------------------------
LEMMA LInvInit == ListAssumption /\ Init => LInv
<1> SUFFICES ASSUME ListAssumption, Init PROVE LInv
  OBVIOUS
<1>1. TypeOK
  BY DEF Init, TypeOK, ListAssumption
<1>2. Bounded
  BY DEF Init, Bounded
<1>3. PICK s : s = [i \in 1..0 |-> NULL]
  OBVIOUS
<1>4. s \in [1..0 -> Timers]
  BY <1>3
<1>5. IsList(0, s)
  BY <1>4 DEF Init, IsList, Linked, Order, Spans, Sorted
<1> QED
  BY <1>1, <1>2, <1>4, <1>5 DEF LInv, Listed

LEMMA LInvStep == ListAssumption /\ LInv /\ [Next]_vars => LInv'
<1> SUFFICES ASSUME ListAssumption, LInv, [Next]_vars PROVE LInv'
  OBVIOUS
<1>1. /\ Lease \in Nat /\ MaxNow \in Nat /\ MaxBack \in Nat
      /\ now \in 0..MaxNow /\ back \in 0..MaxBack
      /\ now \in Nat /\ back \in Nat /\ live \subseteq Timers
      /\ expire \in [Timers -> Nat]
  BY DEF LInv, TypeOK, ListAssumption
<1>2. \A t \in live : expire[t] <= now + Lease + back
  BY DEF LInv, Bounded
<1>3. CASE UNCHANGED vars
  BY <1>3 DEF LInv, TypeOK, Bounded, Listed, IsList, vars, links
<1>4. CASE Next
  <2>1. LinkTypes(next', prev') /\ tail' \in Timers \cup {NULL} /\ Listed'
    BY <1>4, AddKeepsList, AdjustKeepsList, DelKeepsList, TickKeepsList, ClockKeepsList
    DEF Next
  <2>2. head' \in live' \cup {NULL}
    <3>1. PICK n \in Nat : \E s \in [1..n -> Timers] : IsList(n, s)'
      BY <2>1 DEF Listed
    <3>2. PICK s \in [1..n -> Timers] : IsList(n, s)'
      BY <3>1
    <3>3. n # 0 => 1 \in 1..n /\ s[1] \in Timers
      BY <3>1, <3>2
    <3> QED
      BY <3>2, <3>3 DEF IsList, Spans
  <2> DEFINE Times ==
        /\ live \subseteq Timers /\ expire \in [Timers -> Nat]
        /\ now \in 0..MaxNow /\ back \in 0..MaxBack
        /\ \A t \in live : expire[t] <= now + Lease + back
  <2>3. Times'
    <3>1. ASSUME NEW t \in Timers, AddTimer(t) \/ AdjustTimer(t)
          PROVE  Times'
      <4>1. /\ live' \subseteq live \cup {t} /\ now' = now /\ back' = back
            /\ expire' = [expire EXCEPT ![t] = now + Lease]
        BY <3>1 DEF AddTimer, AdjustTimer, New
      <4> QED
        BY <1>1, <1>2, <4>1
    <3>2. ASSUME NEW t \in Timers, DelTimer(t)
          PROVE  Times'
      <4>1. /\ live' \subseteq live /\ now' = now /\ back' = back
            /\ expire' = expire
        BY <3>2 DEF DelTimer
      <4> QED
        BY <1>1, <1>2, <4>1
    <3>3. CASE Clock
      <4>1. live' = live /\ expire' = expire
        BY <3>3 DEF Clock
      <4>2. now' \in 0..MaxNow /\ back' \in 0..MaxBack /\ now + back <= now' + back'
        BY <1>1, <3>3 DEF Clock, Passes, SetBack
      <4>3. ASSUME NEW t \in live PROVE expire[t] <= now' + Lease + back'
        <5>1. PICK x \in Nat : x = expire[t]
          BY <1>1
        <5>2. x <= now + Lease + back
          BY <1>2, <5>1
        <5>3. PICK l \in Nat, v \in Nat, w \in Nat : l = Lease /\ v = now' /\ w = back'
          BY <1>1, <4>2
        <5>4. PICK v0 \in Nat, w0 \in Nat : v0 = now /\ w0 = back
          BY <1>1
        <5>5. x <= v0 + l + w0 /\ v0 + w0 <= v + w
          BY <4>2, <5>2, <5>3, <5>4
        <5>6. x <= v + l + w
          BY <5>5
        <5> QED
          BY <5>1, <5>3, <5>6
      <4> QED
        BY <1>1, <4>1, <4>2, <4>3
    <3>4. CASE Tick
      <4>1. /\ live' \subseteq live /\ now' = now /\ back' = back
            /\ expire' = expire
        BY <3>4 DEF Tick
      <4> QED
        BY <1>1, <1>2, <4>1
    <3> QED
      BY <1>4, <3>1, <3>2, <3>3, <3>4 DEF Next
  <2> QED
    BY <2>1, <2>2, <2>3 DEF LInv, TypeOK, Bounded, LinkTypes
<1> QED
  BY <1>3, <1>4

(* What the list looks like from head.                                     *)
LEMMA ListedIsWell ==
    ASSUME ListAssumption, LInv
    PROVE  WellLinked /\ NearlyAscending
<1>1. PICK n \in Nat : \E s \in [1..n -> Timers] : IsList(n, s)
  BY DEF LInv, Listed
<1>2. PICK s \in [1..n -> Timers] : IsList(n, s)
  BY <1>1
<1>3. PICK c : c = Chain(next, head)
  OBVIOUS
<1>4. c = s
  <2>1. PICK nx, pv, h : nx = next /\ pv = prev /\ h = head
    OBVIOUS
  <2>2. PICK one \in 1 .. n + 1 : one = 1
    BY <1>1
  <2>3. Linked(n, s, nx, pv) /\ h = (IF one = n + 1 THEN NULL ELSE s[one])
    <3>1. one = n + 1 <=> n = 0
      BY <1>1, <2>2
    <3> QED
      BY <1>2, <2>1, <2>2, <3>1 DEF IsList
  <2>4. Chain(nx, h) = Onwards(n, s, one)
    BY <2>3, ChainIs
  <2>5. n - one + 1 = n /\ \A i \in 1..n : one + i - 1 = i
    BY <2>2
  <2>6. Onwards(n, s, one) = [i \in 1..n |-> s[i]]
    BY <2>5 DEF Onwards
  <2> QED
    BY <1>2, <1>3, <2>1, <2>4, <2>6
<1>5. Len(c) = n /\ DOMAIN c = 1..n
  BY <1>2, <1>4, SeqDef, LenProperties
<1>6. /\ Linked(n, s, next, prev) /\ Spans(n, s, live) /\ Sorted(n, s, expire, back)
      /\ (n > 0 => tail = s[n])
      /\ \A i, j \in 1..n : s[i] = s[j] => i = j
  BY <1>2 DEF IsList, Linked, Order
<1>7. live \subseteq Timers /\ TypeOK
  BY DEF LInv, TypeOK
<1>8. ToSet(c) = live
  <2>1. ToSet(c) = {s[i] : i \in 1..n}
    BY <1>4, <1>5 DEF ToSet
  <2> QED
    BY <1>2, <1>6, <1>7, <2>1 DEF Spans
<1>9. Cardinality(live) = n
  <2>1. live = {s[i] : i \in 1..n}
    BY <1>4, <1>5, <1>8 DEF ToSet
  <2>2. s \in Bijection(1..n, live)
    BY <1>2, <1>6, <2>1 DEF Bijection, Injection, Surjection, IsInjective
  <2> QED
    BY <2>2, FS_CountingElements DEF ExistsBijection
<1>10. live # {} => tail = Last(c)
  <2>1. live # {} => n > 0
    BY <1>6, <1>7 DEF Spans
  <2> QED
    BY <1>4, <1>5, <1>6, <2>1 DEF Last
<1>11. \A i \in 1..Len(c) : prev[c[i]] = IF i = 1 THEN NULL ELSE c[i - 1]
  BY <1>4, <1>5, <1>6 DEF Linked
<1>12. WellLinked
  BY <1>3, <1>5, <1>7, <1>8, <1>9, <1>10, <1>11 DEF WellLinked
<1>13. NearlyAscending
  BY <1>3, <1>4, <1>5, <1>6 DEF NearlyAscending, Sorted
<1> QED
  BY <1>12, <1>13

LEMMA AlwaysList == Spec => []LInv
<1>1. Init => LInv
  BY LInvInit, ListAssumption
<1>2. LInv /\ [Next]_vars => LInv'
  BY LInvStep, ListAssumption
<1> QED
  BY <1>1, <1>2, PTL DEF Spec

(* After any sequence of operations the pointers form a list: from head    *)
(* every timer of the server is met once and no deleted one, prev is the   *)
(* inverse of next, and tail is the last.                                  *)
THEOREM StaysLinked == Spec => []WellLinked
<1>1. LInv => WellLinked
  BY ListedIsWell, ListAssumption
<1> QED
  BY <1>1, AlwaysList, PTL

(* A timer is never due later than one behind it by more than the clock    *)
(* has been set back.                                                      *)
THEOREM StaysAscending == Spec => []NearlyAscending
<1>1. LInv => NearlyAscending
  BY ListedIsWell, ListAssumption
<1> QED
  BY <1>1, AlwaysList, PTL

-----------------------------------------------------------------------------
(* A tick takes no timer that is not due, and leaves none that has been    *)
(* due for longer than the clock was set back.                             *)
LEMMA TickTakesDue ==
    ASSUME ListAssumption, LInv, Tick
    PROVE  Set!Tick
<1>1. PICK n \in Nat : \E s \in [1..n -> Timers] : IsList(n, s)
  BY DEF LInv, Listed
<1>2. PICK s \in [1..n -> Timers] : IsList(n, s)
  BY <1>1
<1>3. PICK g \in Nat : Ticked(n, s, g)
  BY <1>2, TickTakes DEF LInv
<1>4. /\ g \in 0..n /\ live' = live \ {s[i] : i \in 1..g}
      /\ \A i \in 1..g : expire[s[i]] <= now
      /\ g # n => now < expire[s[g + 1]]
  BY <1>3 DEF Ticked
<1>5. PICK ex \in [Timers -> Nat], v \in Nat, b \in Nat : ex = expire /\ v = now /\ b = back
  BY DEF LInv, TypeOK, ListAssumption
<1>6. /\ \A t \in live : \E i \in 1..n : s[i] = t
      /\ \A i, j \in 1..n : i < j => ex[s[i]] <= ex[s[j]] + b
  BY <1>2, <1>5 DEF IsList, Spans, Sorted, LInv, TypeOK
<1>7. ASSUME NEW t \in live \ live' PROVE ex[t] <= v
  BY <1>4, <1>5, <1>7
<1>8. ASSUME NEW t \in live' PROVE v < ex[t] + b
  <2>1. PICK i \in 1..n : s[i] = t /\ ~(i \in 1..g)
    BY <1>4, <1>6, <1>8
  <2>2. PICK j \in 1..n : j = g + 1 /\ g # n
    BY <1>4, <2>1
  <2>3. v < ex[s[j]] /\ (i = j \/ j < i)
    BY <1>4, <1>5, <2>1, <2>2
  <2>4. i = j \/ ex[s[j]] <= ex[s[i]] + b
    BY <1>6, <2>3
  <2>5. ex[s[i]] \in Nat /\ ex[s[j]] \in Nat
    BY <1>2, <1>5
  <2> QED
    BY <1>5, <2>1, <2>3, <2>4, <2>5
<1>9. live' \subseteq live /\ UNCHANGED expire
  BY <1>4 DEF Tick
<1> QED
  BY <1>5, <1>7, <1>8, <1>9 DEF Set!Tick

(* The linked list implements the set of timers that the event loop takes  *)
(* it for: no operation loses or revives a timer or renews another one,    *)
(* and a tick takes those that are due.                                    *)
THEOREM ListIsSet == Spec => IsTimerSet
<1> USE ListAssumption
<1>1. Init => Set!Init
  BY DEF Init, Set!Init
<1>2. LInv /\ [Next]_vars => [Set!Next]_(Set!vars)
  <2> SUFFICES ASSUME LInv, [Next]_vars PROVE [Set!Next]_(Set!vars)
    OBVIOUS
  <2>1. ASSUME NEW t \in Timers, AddTimer(t) PROVE Set!Next
    BY <2>1 DEF AddTimer, New, Set!Next, Set!Add, Set!Renewed
  <2>2. ASSUME NEW t \in Timers, AdjustTimer(t) PROVE Set!Next
    BY <2>2 DEF AdjustTimer, Set!Next, Set!Adjust, Set!Renewed
  <2>3. ASSUME NEW t \in Timers, DelTimer(t) PROVE Set!Next
    BY <2>3 DEF DelTimer, Set!Next, Set!Del
  <2>4. CASE Tick
    <3>1. UNCHANGED <<now, back>>
      BY <2>4 DEF Tick
    <3> QED
      BY <2>4, <3>1, TickTakesDue DEF Set!Next
  <2>5. CASE Clock
    <3>1. now \in Nat /\ back \in Nat
      BY DEF LInv, TypeOK, ListAssumption
    <3>2. UNCHANGED <<live, expire>>
      BY <2>5 DEF Clock
    <3>3. CASE Passes
      BY <3>1, <3>2, <3>3 DEF Passes, Set!Next, Set!Clock
    <3>4. CASE SetBack
      <4>1. PICK d \in 1..now : now' = now - d /\ back' = back + d
        BY <3>4 DEF SetBack
      <4>2. now' # now /\ now' < now /\ back' = back + (now - now')
        BY <3>1, <4>1
      <4> QED
        BY <3>2, <4>2 DEF Set!Next, Set!Clock
    <3> QED
      BY <2>5, <3>3, <3>4 DEF Clock
  <2>6. CASE UNCHANGED vars
    BY <2>6 DEF vars, Set!vars
  <2> QED
    BY <2>1, <2>2, <2>3, <2>4, <2>5, <2>6 DEF Next
<1> QED
  BY <1>1, <1>2, AlwaysList, PTL DEF Spec, IsTimerSet, Set!Spec
=============================================================================
