------------------------- MODULE RegistrationProofs ------------------------
(* Proofs about Registration, for any threads, names, passwords and rows.  *)
EXTENDS Registration, SqlPoolProofs, WellFoundedInduction

Steps == {"none", "page", "register", "login", "lock", "query", "insert", "failed", "inserting",
          "failing", "registered", "refused", "welcome"}

(* The values of the variables of Registration.                            *)
RegTypeOK ==
    /\ users \in [Names -> Passwords \cup {None}]
    /\ table \in Seq(Forms)
    /\ form \in [Threads -> Forms \cup {None}] /\ step \in [Threads -> Steps]
    /\ up \in BOOLEAN
    /\ told \subseteq Forms /\ raced \subseteq Names /\ unsaved \subseteq Names

(* From m_lock.lock() to m_lock.unlock().                                  *)
Critical == {"query", "insert", "failed", "inserting", "failing"}
UsersLockHeld == \A t \in Threads : step[t] \in Critical <=> m_lock = t

HasForm == \A t \in Threads : step[t] \notin {"none", "page"} => form[t] \in Forms

Down == ~up => unsaved = {} /\ \A t \in Threads : step[t] = "none"

(* A name that is not raced is registered by one thread at a time, and by  *)
(* none when it has a row.                                                 *)
Alone == \A n \in Names \ raced : \A t, u \in Registering(n) : t = u
SingleRow == \A n \in Names \ raced : \A i, j \in Rows(n) : i = j

HasRow(rows, f) == \E i \in DOMAIN rows : rows[i] = f

(* What do_request knows of its name from place to place.                  *)
InsertedRow(t) == step[t] \in {"insert", "inserting"} => HasRow(table, form[t])
FailedUnsaved(t) == step[t] = "failing" => form[t].name \in unsaved
NewName(t) ==
    form[t].name \notin raced =>
        /\ step[t] \in {"lock", "query"} =>
             users[form[t].name] = None /\ Rows(form[t].name) = {}
        /\ step[t] \in {"insert", "inserting", "failed", "failing"} =>
             users[form[t].name] = None /\ \A i \in Rows(form[t].name) : table[i] = form[t]
Places == \A t \in Threads : InsertedRow(t) /\ FailedUnsaved(t) /\ NewName(t)

(* A name is in the map because it is in the table or its INSERT failed.   *)
UsersHaveRows == \A n \in Names :
    users[n] # None => n \in unsaved \/ HasRow(table, [name |-> n, password |-> users[n]])
UnsavedInMap == \A n \in unsaved : users[n] # None \/ Registering(n) # {}

ToldHasRow == \A f \in told : HasRow(table, f)
WelcomeRow == \A t \in Threads :
    step[t] = "welcome" /\ form[t].name \notin unsaved => HasRow(table, form[t])

Inv0 == RegTypeOK /\ UsersLockHeld /\ HasForm /\ Down
Inv1 == Alone /\ SingleRow /\ Places /\ MapAgrees
Inv2 == UsersHaveRows /\ UnsavedInMap /\ ToldHasRow /\ WelcomeRow
RInv == Inv0 /\ Inv1 /\ Inv2

USE DEF bounds

-----------------------------------------------------------------------------
(* The table.                                                              *)
RowsOf(rows, n) == {i \in DOMAIN rows : rows[i].name = n}

LEMMA LastExists ==
    ASSUME NEW k \in Nat, NEW S \in SUBSET (1..k), S # {}
    PROVE  \E i \in S : \A j \in S : j <= i
<1> DEFINE Before == {ss \in Nat \X Nat : ss[1] < ss[2]}
           B == {k - i : i \in S}
<1>1. B \subseteq Nat /\ B # {}
  <2>1. \A i \in S : i \in 1..k
    OBVIOUS
  <2>2. \A i \in 1..k : k - i \in Nat
    OBVIOUS
  <2> QED
    BY <2>1, <2>2
<1>2. PICK x \in B : \A y \in B : <<y, x>> \notin Before
  <2>1. IsWellFoundedOn(Before, Nat)
    BY NatLessThanWellFounded, Zenon DEF OpToRel
  <2> HIDE DEF B, Before
  <2> QED
    BY <1>1, <2>1, WFMin, Zenon
<1>3. PICK i \in S : x = k - i
  BY <1>2
<1>4. \A j \in S : k - j \in B
  OBVIOUS
<1>5. \A y \in B : ~(y < x)
  BY <1>1, <1>2
<1>6. \A j \in S : j <= i
  <2> HIDE DEF B
  <2>1. \A j \in S : ~(k - j < k - i)
    BY <1>3, <1>4, <1>5
  <2> QED
    BY <2>1
<1> QED
  BY <1>6

LastOf(S) == CHOOSE i \in S : \A j \in S : j <= i

LEMMA LastRowIs ==
    ASSUME NEW rows, NEW n
    PROVE  LastRow(rows, n) = IF RowsOf(rows, n) = {} THEN None
                              ELSE rows[LastOf(RowsOf(rows, n))].password
BY DEF LastRow, RowsOf, LastOf

LEMMA LastRowChosen ==
    ASSUME NEW rows \in Seq(Forms), NEW n
    PROVE  /\ RowsOf(rows, n) = {} => LastRow(rows, n) = None
           /\ RowsOf(rows, n) # {} =>
                \E i \in RowsOf(rows, n) : LastRow(rows, n) = rows[i].password
<1> DEFINE at == RowsOf(rows, n)
           k == Len(rows)
<1>1. LastRow(rows, n) = IF at = {} THEN None ELSE rows[LastOf(at)].password
  BY LastRowIs
<1>2. k \in Nat /\ at \subseteq 1..k
  BY LenProperties DEF RowsOf
<1> HIDE DEF at, k
<1>3. ASSUME at # {}
      PROVE  LastOf(at) \in at
  <2>1. \E i \in at : \A j \in at : j <= i
    BY <1>2, <1>3, LastExists
  <2> QED
    BY <2>1 DEF LastOf
<1> QED
  BY <1>1, <1>3 DEF at

LEMMA LastRowFacts ==
    ASSUME RegistrationAssumption, NEW rows \in Seq(Forms), NEW n \in Names
    PROVE  /\ LastRow(rows, n) \in Passwords \cup {None}
           /\ LastRow(rows, n) = None <=> RowsOf(rows, n) = {}
           /\ LastRow(rows, n) # None =>
                HasRow(rows, [name |-> n, password |-> LastRow(rows, n)])
           /\ \A f \in Forms :
                HasRow(rows, f) /\ f.name = n /\ (\A i \in RowsOf(rows, n) : rows[i] = f)
                => LastRow(rows, n) = f.password
<1> DEFINE at == RowsOf(rows, n)
           last == LastRow(rows, n)
<1>1. /\ at = {} => last = None
      /\ at # {} => \E i \in at : last = rows[i].password
  BY LastRowChosen
<1>2. \A i \in at : i \in DOMAIN rows /\ rows[i] \in Forms /\ rows[i].name = n
  BY ElementOfSeq DEF RowsOf
<1>3. None \notin Passwords
  BY DEF RegistrationAssumption
<1>4. \A f \in Forms : HasRow(rows, f) /\ f.name = n => at # {}
  BY DEF HasRow, RowsOf
<1> HIDE DEF at, last
<1>5. \A f \in Forms : f = [name |-> f.name, password |-> f.password] /\ f.password \in Passwords
  BY DEF Forms
<1>6. last \in Passwords \cup {None} /\ (last = None <=> at = {})
  BY <1>1, <1>2, <1>3, <1>5
<1>7. last # None => HasRow(rows, [name |-> n, password |-> last])
  <2>1. SUFFICES ASSUME last # None PROVE HasRow(rows, [name |-> n, password |-> last])
    OBVIOUS
  <2>2. PICK i \in at : last = rows[i].password
    BY <1>1, <2>1
  <2>3. rows[i] = [name |-> n, password |-> last] /\ i \in DOMAIN rows
    BY <1>2, <1>5, <2>2
  <2> QED
    BY <2>3 DEF HasRow
<1>8. ASSUME NEW f \in Forms, HasRow(rows, f), f.name = n, \A i \in at : rows[i] = f
      PROVE  last = f.password
  BY <1>1, <1>4, <1>8
<1> QED
  BY <1>6, <1>7, <1>8 DEF at, last

(* One row more.                                                           *)
OneMore(rows, more, f) ==
    /\ more \in Seq(Forms) /\ HasRow(more, f)
    /\ \A g : HasRow(rows, g) => HasRow(more, g)
    /\ \A n : n # f.name => /\ RowsOf(more, n) = RowsOf(rows, n)
                            /\ LastRow(more, n) = LastRow(rows, n)
    /\ RowsOf(rows, f.name) = {} => RowsOf(more, f.name) = {Len(rows) + 1}
    /\ \A i \in RowsOf(more, f.name) : i \in RowsOf(rows, f.name) \/ more[i] = f
    /\ \A i \in DOMAIN rows : more[i] = rows[i]

LEMMA AppendRow ==
    ASSUME NEW rows \in Seq(Forms), NEW f \in Forms, NEW more, more = Append(rows, f)
    PROVE  OneMore(rows, more, f)
<1> DEFINE k == Len(rows)
<1>1. /\ more \in Seq(Forms) /\ Len(more) = k + 1 /\ k \in Nat
      /\ \A i \in 1..k : more[i] = rows[i]
      /\ more[k + 1] = f
  BY AppendProperties, LenProperties
<1>2. DOMAIN rows = 1..k /\ DOMAIN more = 1..(k + 1)
  BY <1>1, LenProperties
<1> HIDE DEF k
<1>3. \A i \in DOMAIN rows : i \in DOMAIN more /\ more[i] = rows[i]
  BY <1>1, <1>2
<1>4. k + 1 \in DOMAIN more /\ \A i \in DOMAIN more : i \in DOMAIN rows \/ i = k + 1
  BY <1>1, <1>2
<1>5. HasRow(more, f) /\ \A g : HasRow(rows, g) => HasRow(more, g)
  BY <1>1, <1>3, <1>4 DEF HasRow
<1>6. ASSUME NEW n, n # f.name
      PROVE  RowsOf(more, n) = RowsOf(rows, n) /\ LastRow(more, n) = LastRow(rows, n)
  <2>1. RowsOf(more, n) = RowsOf(rows, n)
    <3>1. \A i \in DOMAIN more : more[i].name = n => i \in DOMAIN rows
      BY <1>1, <1>4, <1>6
    <3> QED
      BY <1>3, <3>1 DEF RowsOf
  <2> DEFINE at == RowsOf(rows, n)
             last == LastOf(at)
  <2>2. LastRow(more, n) = (IF at = {} THEN None ELSE more[last].password)
    BY <2>1, LastRowIs
  <2>3. LastRow(rows, n) = (IF at = {} THEN None ELSE rows[last].password)
    BY LastRowIs
  <2>4. at # {} => last \in at
    <3>1. k \in Nat /\ at \in SUBSET (1..k)
      BY <1>1, <1>2 DEF RowsOf
    <3>2. at # {} => \E i \in at : \A j \in at : j <= i
      <4> HIDE DEF at
      <4> QED
        BY <3>1, LastExists
    <3> HIDE DEF at
    <3> QED
      BY <3>2 DEF LastOf
  <2>5. \A i \in at : more[i] = rows[i]
    BY <1>3 DEF RowsOf
  <2> HIDE DEF last, at
  <2> QED
    BY <2>1, <2>2, <2>3, <2>4, <2>5
<1>7. RowsOf(rows, f.name) = {} => RowsOf(more, f.name) = {k + 1}
  BY <1>1, <1>3, <1>4 DEF RowsOf
<1>8. \A i \in RowsOf(more, f.name) : i \in RowsOf(rows, f.name) \/ more[i] = f
  BY <1>1, <1>3, <1>4 DEF RowsOf
<1> QED
  BY <1>1, <1>3, <1>5, <1>6, <1>7, <1>8 DEF k, OneMore

-----------------------------------------------------------------------------
(* Steps that only move a thread that has no place in the registrations.   *)
Places6 == {"lock", "query", "insert", "failed", "inserting", "failing"}


LEMMA Quiet ==
    ASSUME RInv, UNCHANGED <<users, table, m_lock, up, told, raced, unsaved>>, up,
           NEW t \in Threads, NEW f \in Forms \cup {None}, NEW next \in Steps \ Places6,
           step[t] \notin Places6, step' = [step EXCEPT ![t] = next],
           form' = [form EXCEPT ![t] = f], next \notin {"none", "page"} => f \in Forms,
           next = "welcome" /\ f.name \notin unsaved => HasRow(table, f)
    PROVE  RInv'
<1>1. RegTypeOK /\ step \in [Threads -> Steps] /\ form \in [Threads -> Forms \cup {None}]
  BY DEF RInv, Inv0, RegTypeOK
<1>2. /\ step'[t] = next /\ form'[t] = f
      /\ \A u \in Threads : u # t => step'[u] = step[u] /\ form'[u] = form[u]
  BY <1>1
<1>3. RegTypeOK'
  <2>1. step' \in [Threads -> Steps] /\ form' \in [Threads -> Forms \cup {None}]
    BY <1>1
  <2> QED
    BY <1>1, <2>1 DEF RegTypeOK
<1>4. \A n : Registering(n)' = Registering(n) /\ Rows(n)' = Rows(n)
  <2>1. \A n : Rows(n)' = Rows(n)
    BY DEF Rows
  <2>2. next \notin Places6
    OBVIOUS
  <2>3. ASSUME NEW n PROVE Registering(n)' = Registering(n)
    BY <1>2, <2>2 DEF Registering, Places6
  <2> QED
    BY <2>1, <2>3
<1>5. Inv0'
  <2>1. UsersLockHeld'
    <3>1. next \notin Critical /\ step[t] \notin Critical
      BY DEF Critical, Places6
    <3> QED
      BY <1>2, <3>1 DEF RInv, Inv0, UsersLockHeld
  <2>2. HasForm'
    BY <1>2 DEF RInv, Inv0, HasForm
  <2> QED
    BY <1>3, <2>1, <2>2 DEF Inv0, Down
<1>6. Inv1'
  <2>1. Alone' /\ SingleRow'
    BY <1>4 DEF RInv, Inv1, Alone, SingleRow
  <2>2. MapAgrees'
    BY <1>4 DEF RInv, Inv1, MapAgrees
  <2>3. ASSUME NEW u \in Threads
        PROVE  (InsertedRow(u) /\ FailedUnsaved(u) /\ NewName(u))'
    <3>1. CASE u = t
      <4>1. next \notin Places6
        OBVIOUS
      <4> QED
        BY <1>2, <3>1, <4>1 DEF InsertedRow, FailedUnsaved, NewName, Places6
    <3>2. CASE u # t
      <4>1. step'[u] = step[u] /\ form'[u] = form[u]
        BY <1>2, <3>2
      <4>2. InsertedRow(u) /\ FailedUnsaved(u) /\ NewName(u)
        BY DEF RInv, Inv1, Places
      <4> QED
        BY <1>4, <4>1, <4>2 DEF InsertedRow, FailedUnsaved, NewName
    <3> QED
      BY <3>1, <3>2
  <2> QED
    BY <2>1, <2>2, <2>3 DEF Inv1, Places
<1>7. Inv2'
  <2>1. UsersHaveRows' /\ ToldHasRow'
    BY DEF RInv, Inv2, UsersHaveRows, ToldHasRow
  <2>2. UnsavedInMap'
    BY <1>4 DEF RInv, Inv2, UnsavedInMap
  <2>3. WelcomeRow'
    <3>1. ASSUME NEW u \in Threads, step'[u] = "welcome", form'[u].name \notin unsaved
          PROVE  HasRow(table, form'[u])
      <4>1. CASE u = t
        BY <1>2, <3>1, <4>1
      <4>2. CASE u # t
        BY <1>2, <3>1, <4>2 DEF RInv, Inv2, WelcomeRow
      <4> QED
        BY <4>1, <4>2
    <3> QED
      BY <3>1 DEF WelcomeRow
  <2> QED
    BY <2>1, <2>2, <2>3 DEF Inv2
<1> QED
  BY <1>5, <1>6, <1>7 DEF RInv

LEMMA QuietSteps ==
    ASSUME RInv, RegistrationAssumption, up, NEW t \in Threads,
           \/ Page(t) \/ (\E f \in Forms : Submit(t, f)) \/ FindTaken(t)
           \/ Welcome(t) \/ LogError(t) \/ Replied(t)
    PROVE  RInv'
<1> USE DEF Goes
<1>1. /\ step \in [Threads -> Steps] /\ form \in [Threads -> Forms \cup {None}]
      /\ users \in [Names -> Passwords \cup {None}] /\ HasForm /\ UsersHaveRows
  BY DEF RInv, Inv0, Inv2, RegTypeOK
<1>2. UNCHANGED <<users, table, m_lock, up, told, raced, unsaved>>
  BY DEF Page, Submit, FindTaken, Welcome, LogError, Replied
<1>3. form[t] \in Forms \cup {None} /\ form = [form EXCEPT ![t] = form[t]]
  BY <1>1
<1>4. CASE Page(t)
  <2>1. /\ "page" \in Steps \ Places6 /\ step[t] \notin Places6
        /\ step' = [step EXCEPT ![t] = "page"] /\ form' = [form EXCEPT ![t] = form[t]]
    BY <1>3, <1>4 DEF Page, Steps, Places6
  <2> QED
    BY <1>2, <1>3, <2>1, Quiet
<1>5. CASE \E f \in Forms : Submit(t, f)
  <2>1. PICK f \in Forms : Submit(t, f)
    BY <1>5
  <2>2. PICK next \in {"register", "login"} : step' = [step EXCEPT ![t] = next]
    BY <2>1 DEF Submit
  <2>3. /\ next \in Steps \ Places6 /\ step[t] \notin Places6 /\ next # "welcome"
        /\ form' = [form EXCEPT ![t] = f]
    BY <2>1 DEF Submit, Steps, Places6
  <2> QED
    BY <1>2, <2>2, <2>3, Quiet
<1>6. CASE FindTaken(t) \/ LogError(t)
  <2>1. /\ "refused" \in Steps \ Places6 /\ step[t] \notin Places6 /\ form[t] \in Forms
        /\ step' = [step EXCEPT ![t] = "refused"] /\ form' = [form EXCEPT ![t] = form[t]]
    BY <1>1, <1>3, <1>6 DEF FindTaken, LogError, Steps, Places6, HasForm
  <2> QED
    BY <1>2, <2>1, Quiet
<1>7. CASE Welcome(t)
  <2>1. /\ "welcome" \in Steps \ Places6 /\ step[t] \notin Places6 /\ form[t] \in Forms
        /\ step' = [step EXCEPT ![t] = "welcome"] /\ form' = [form EXCEPT ![t] = form[t]]
    BY <1>1, <1>3, <1>7 DEF Welcome, Steps, Places6, HasForm
  <2> DEFINE f == form[t]
  <2>2. /\ f.name \in Names /\ f.password # None /\ users[f.name] = f.password
        /\ f = [name |-> f.name, password |-> f.password]
    BY <1>7, <2>1 DEF Welcome, Forms, RegistrationAssumption
  <2> HIDE DEF f
  <2>3. f.name \notin unsaved => HasRow(table, f)
    BY <1>1, <2>2 DEF UsersHaveRows
  <2> QED
    BY <1>2, <2>1, <2>3, Quiet DEF f
<1>8. CASE Replied(t)
  <2>1. /\ "none" \in Steps \ Places6 /\ step[t] \notin Places6 /\ None \in Forms \cup {None}
        /\ step' = [step EXCEPT ![t] = "none"] /\ form' = [form EXCEPT ![t] = None]
    BY <1>8 DEF Replied, Steps, Places6
  <2> QED
    BY <1>2, <2>1, Quiet
<1> QED
  BY <1>4, <1>5, <1>6, <1>7, <1>8

-----------------------------------------------------------------------------
(* The steps of a registration.                                            *)
Moves(t, next) ==
    /\ t \in Threads /\ form[t] \in Forms /\ next \in Steps
    /\ step' = [step EXCEPT ![t] = next] /\ form' = form

LEMMA MovesFacts ==
    ASSUME RInv, NEW t, NEW next, Moves(t, next), NEW n, n = form[t].name
    PROVE  /\ n \in Names /\ step \in [Threads -> Steps] /\ step' \in [Threads -> Steps]
           /\ step'[t] = next /\ \A u \in Threads : u # t => step'[u] = step[u]
           /\ \A m : m # n => Registering(m)' = Registering(m)
           /\ next \in Places6 => Registering(n)' = Registering(n) \cup {t}
           /\ next \notin Places6 => Registering(n)' = Registering(n) \ {t}
           /\ step[t] \in Places6 => t \in Registering(n)
<1>1. /\ step \in [Threads -> Steps] /\ form[t] \in Forms /\ form' = form
      /\ step' = [step EXCEPT ![t] = next] /\ next \in Steps /\ t \in Threads
  BY DEF RInv, Inv0, RegTypeOK, Moves
<1>2. /\ step' \in [Threads -> Steps] /\ step'[t] = next
      /\ \A u \in Threads : u # t => step'[u] = step[u]
  BY <1>1
<1>3. n \in Names
  BY <1>1 DEF Forms
<1>4. \A m, u : u \in Registering(m) <=> u \in Threads /\ step[u] \in Places6 /\ form[u].name = m
  BY DEF Registering, Places6
<1>5. \A m, u : u \in Registering(m)'
                <=> u \in Threads /\ step'[u] \in Places6 /\ form[u].name = m
  BY <1>1 DEF Registering, Places6
<1>6. ASSUME NEW m, m # n PROVE Registering(m)' = Registering(m)
  <2>1. \A u : u \in Registering(m)' <=> u \in Registering(m)
    BY <1>2, <1>4, <1>5, <1>6
  <2>2. Registering(m) \subseteq Threads /\ Registering(m)' \subseteq Threads
    BY DEF Registering
  <2> QED
    BY <2>1, <2>2
<1>7. ASSUME next \in Places6 PROVE Registering(n)' = Registering(n) \cup {t}
  <2>1. \A u : u \in Registering(n)' <=> u \in Registering(n) \cup {t}
    BY <1>1, <1>2, <1>4, <1>5, <1>7
  <2>2. Registering(n) \subseteq Threads /\ Registering(n)' \subseteq Threads
    BY DEF Registering
  <2> QED
    BY <2>1, <2>2
<1>8. ASSUME next \notin Places6 PROVE Registering(n)' = Registering(n) \ {t}
  <2>1. \A u : u \in Registering(n)' <=> u \in Registering(n) \ {t}
    BY <1>1, <1>2, <1>4, <1>5, <1>8
  <2>2. Registering(n) \subseteq Threads /\ Registering(n)' \subseteq Threads
    BY DEF Registering
  <2> QED
    BY <2>1, <2>2
<1> QED
  BY <1>1, <1>2, <1>3, <1>4, <1>6, <1>7, <1>8

LEMMA FindNewStep ==
    ASSUME RInv, RegistrationAssumption, up, NEW t \in Threads, FindNew(t)
    PROVE  RInv'
<1>0. PICK n \in Names : n = form[t].name
  BY DEF RInv, Inv0, HasForm, FindNew, Goes, Forms
<1>1. /\ step[t] = "register" /\ FALSE \in Finds(n) /\ form[t] \in Forms /\ Moves(t, "lock")
      /\ UNCHANGED <<users, table, m_lock, form, up, told, unsaved>>
      /\ raced' = IF Unseen(n) THEN raced \cup {n} ELSE raced
  BY <1>0 DEF FindNew, Goes, Moves, Steps, RInv, Inv0, HasForm
<1>2. /\ RegTypeOK /\ UsersLockHeld /\ HasForm /\ Alone /\ SingleRow /\ Places /\ MapAgrees
      /\ UsersHaveRows /\ UnsavedInMap /\ ToldHasRow /\ WelcomeRow /\ Down
  BY DEF RInv, Inv0, Inv1, Inv2
<1>3. /\ n \in Names /\ step' \in [Threads -> Steps]
      /\ step'[t] = "lock" /\ \A u \in Threads : u # t => step'[u] = step[u]
      /\ \A m : m # n => Registering(m)' = Registering(m)
      /\ Registering(n)' = Registering(n) \cup {t}
  BY <1>0, <1>1, MovesFacts DEF Places6
<1>4. \A m : Rows(m)' = Rows(m)
  BY <1>1 DEF Rows
<1>5. n \notin raced' => /\ Registering(n) = {} /\ users[n] = None /\ Rows(n) = {}
  <2>1. SUFFICES ASSUME n \notin raced'
                 PROVE  Registering(n) = {} /\ users[n] = None /\ Rows(n) = {}
    OBVIOUS
  <2>2. ~Inserting /\ Registering(n) = {} /\ n \notin raced
    BY <1>1, <2>1 DEF Unseen
  <2>3. users[n] = None
    BY <1>1, <2>2 DEF Finds
  <2>4. n \notin unsaved
    BY <1>2, <2>2, <2>3 DEF UnsavedInMap
  <2>5. LastRow(table, n) = None
    BY <1>2, <1>3, <2>2, <2>3, <2>4 DEF MapAgrees
  <2>6. Rows(n) = {}
    <3>1. RowsOf(table, n) = {}
      BY <1>2, <1>3, <2>5, LastRowFacts DEF RegTypeOK
    <3> QED
      BY <3>1 DEF Rows, RowsOf
  <2> QED
    BY <2>2, <2>3, <2>6
<1>6. raced \subseteq raced' /\ raced' \subseteq Names
  BY <1>1, <1>2, <1>3 DEF RegTypeOK
<1>7. Inv0'
  <2>1. RegTypeOK'
    BY <1>1, <1>2, <1>3, <1>6 DEF RegTypeOK
  <2>2. UsersLockHeld'
    BY <1>1, <1>2, <1>3 DEF UsersLockHeld, Critical
  <2>3. HasForm'
    BY <1>1, <1>2, <1>3 DEF HasForm
  <2> QED
    BY <1>1, <2>1, <2>2, <2>3 DEF Inv0, Down
<1>8. Alone' /\ SingleRow'
  <2>1. ASSUME NEW m \in Names \ raced', NEW u \in Registering(m)', NEW v \in Registering(m)'
        PROVE  u = v
    <3>1. CASE m = n
      BY <1>3, <1>5, <2>1, <3>1
    <3>2. CASE m # n
      BY <1>2, <1>3, <1>6, <2>1, <3>2 DEF Alone
    <3> QED
      BY <3>1, <3>2
  <2>2. SingleRow'
    BY <1>2, <1>4, <1>6 DEF SingleRow
  <2> QED
    BY <2>1, <2>2 DEF Alone
<1>9. MapAgrees'
  <2>1. ASSUME NEW m \in Names \ (raced' \cup unsaved), Registering(m)' = {}
        PROVE  users[m] = LastRow(table, m)
    <3>1. m # n
      BY <1>3, <2>1
    <3> QED
      BY <1>2, <1>3, <1>6, <2>1, <3>1 DEF MapAgrees
  <2> QED
    BY <1>1, <2>1 DEF MapAgrees
<1>10. Places'
  <2>1. ASSUME NEW u \in Threads
        PROVE  (InsertedRow(u) /\ FailedUnsaved(u) /\ NewName(u))'
    <3>1. CASE u = t
      BY <1>0, <1>1, <1>3, <1>4, <1>5, <3>1 DEF InsertedRow, FailedUnsaved, NewName
    <3>2. CASE u # t
      <4>1. step'[u] = step[u] /\ form' = form
        BY <1>1, <1>3, <3>2
      <4>2. InsertedRow(u) /\ FailedUnsaved(u) /\ NewName(u)
        BY <1>2 DEF Places
      <4> QED
        BY <1>1, <1>4, <1>6, <4>1, <4>2 DEF InsertedRow, FailedUnsaved, NewName
    <3> QED
      BY <3>1, <3>2
  <2> QED
    BY <2>1 DEF Places
<1>11. Inv2'
  <2>1. UsersHaveRows' /\ ToldHasRow'
    BY <1>1, <1>2 DEF UsersHaveRows, ToldHasRow
  <2>2. UnsavedInMap'
    <3>1. \A m : Registering(m) # {} => Registering(m)' # {}
      BY <1>3
    <3> QED
      BY <1>1, <1>2, <3>1 DEF UnsavedInMap
  <2>3. WelcomeRow'
    BY <1>1, <1>2, <1>3 DEF WelcomeRow
  <2> QED
    BY <2>1, <2>2, <2>3 DEF Inv2
<1> QED
  BY <1>7, <1>8, <1>9, <1>10, <1>11 DEF RInv, Inv1

LEMMA UsersLockStep ==
    ASSUME RInv, up, NEW t \in Threads, UsersLock(t), PoolAssumption
    PROVE  RInv'
<1>0. PICK n \in Names : n = form[t].name
  BY DEF RInv, Inv0, HasForm, UsersLock, Goes, Forms
<1>1. /\ step[t] = "lock" /\ m_lock = Nobody /\ m_lock' = t /\ Moves(t, "query")
      /\ UNCHANGED <<users, table, form, up, told, raced, unsaved>>
  BY DEF UsersLock, Goes, Moves, Steps, RInv, Inv0, HasForm
<1>2. /\ RegTypeOK /\ UsersLockHeld /\ HasForm /\ Alone /\ SingleRow /\ Places /\ MapAgrees
      /\ UsersHaveRows /\ UnsavedInMap /\ ToldHasRow /\ WelcomeRow /\ Down
  BY DEF RInv, Inv0, Inv1, Inv2
<1>3. /\ n \in Names /\ step' \in [Threads -> Steps]
      /\ step'[t] = "query" /\ \A u \in Threads : u # t => step'[u] = step[u]
      /\ \A m : Registering(m)' = Registering(m)
  <2>1. "query" \in Places6 /\ "lock" \in Places6
    BY DEF Places6
  <2> QED
    BY <1>0, <1>1, <2>1, MovesFacts
<1>4. \A m : Rows(m)' = Rows(m)
  BY <1>1 DEF Rows
<1>5. Inv0'
  <2>1. RegTypeOK'
    BY <1>1, <1>2, <1>3 DEF RegTypeOK
  <2>2. UsersLockHeld'
    <3>1. \A u \in Threads : step[u] \notin Critical
      BY <1>1, <1>2 DEF UsersLockHeld, PoolAssumption
    <3> QED
      BY <1>1, <1>3, <3>1 DEF UsersLockHeld, Critical
  <2>3. HasForm'
    BY <1>1, <1>2, <1>3 DEF HasForm
  <2> QED
    BY <1>1, <2>1, <2>2, <2>3 DEF Inv0, Down
<1>6. Places'
  <2>1. ASSUME NEW u \in Threads
        PROVE  (InsertedRow(u) /\ FailedUnsaved(u) /\ NewName(u))'
    <3>0. InsertedRow(u) /\ FailedUnsaved(u) /\ NewName(u) /\ form' = form
      BY <1>1, <1>2 DEF Places
    <3>1. CASE u = t
      BY <1>1, <1>3, <1>4, <3>0, <3>1 DEF InsertedRow, FailedUnsaved, NewName
    <3>2. CASE u # t
      BY <1>1, <1>3, <1>4, <3>0, <3>2 DEF InsertedRow, FailedUnsaved, NewName
    <3> QED
      BY <3>1, <3>2
  <2> QED
    BY <2>1 DEF Places
<1>7. Inv1'
  <2>1. Alone' /\ SingleRow' /\ MapAgrees'
    BY <1>1, <1>2, <1>3, <1>4 DEF Alone, SingleRow, MapAgrees
  <2> QED
    BY <1>6, <2>1 DEF Inv1
<1>8. Inv2'
  <2>1. UsersHaveRows' /\ ToldHasRow' /\ UnsavedInMap'
    BY <1>1, <1>2, <1>3 DEF UsersHaveRows, ToldHasRow, UnsavedInMap
  <2>2. WelcomeRow'
    BY <1>1, <1>2, <1>3 DEF WelcomeRow
  <2> QED
    BY <2>1, <2>2 DEF Inv2
<1> QED
  BY <1>5, <1>7, <1>8 DEF RInv

(* What the INSERT of the name n may do to the table.                      *)
Grows(n, f, next) ==
    /\ table' \in Seq(Forms)
    /\ \A g : HasRow(table, g) => HasRow(table', g)
    /\ \A m : m # n => Rows(m)' = Rows(m) /\ LastRow(table', m) = LastRow(table, m)
    /\ next = "insert" => HasRow(table', f)
    /\ \A i \in Rows(n)' : i \in Rows(n) \/ table'[i] = f
    /\ Rows(n) = {} => \A i, j \in Rows(n)' : i = j
    /\ \A i \in DOMAIN table : table'[i] = table[i]

LEMMA QueryGrows ==
    ASSUME table \in Seq(Forms), NEW f \in Forms, NEW n, n = f.name, NEW next,
           \/ table' = Append(table, f)
           \/ table' = table /\ next # "insert"
    PROVE  Grows(n, f, next)
<1>1. \A m : Rows(m) = RowsOf(table, m) /\ Rows(m)' = RowsOf(table', m)
  BY DEF Rows, RowsOf
<1>2. CASE table' = table /\ next # "insert"
  <2>1. \A m : Rows(m)' = Rows(m)
    BY <1>1, <1>2
  <2>2. \A g : HasRow(table, g) => HasRow(table', g)
    BY <1>2
  <2> QED
    BY <1>2, <2>1, <2>2 DEF Grows
<1>3. CASE table' = Append(table, f)
  <2> DEFINE more == table'
             k == Len(table) + 1
  <2>1. /\ more \in Seq(Forms) /\ HasRow(more, f)
        /\ \A g : HasRow(table, g) => HasRow(more, g)
        /\ \A m : m # n => /\ RowsOf(more, m) = RowsOf(table, m)
                           /\ LastRow(more, m) = LastRow(table, m)
        /\ RowsOf(table, n) = {} => RowsOf(more, n) = {k}
        /\ \A i \in RowsOf(more, n) : i \in RowsOf(table, n) \/ more[i] = f
        /\ \A i \in DOMAIN table : more[i] = table[i]
    <3>1. more = Append(table, f)
      BY <1>3
    <3> HIDE DEF more
    <3>2. OneMore(table, more, f)
      BY <3>1, AppendRow
    <3> QED
      BY <3>2 DEF OneMore
  <2>2. \A m : Rows(m)' = RowsOf(more, m)
    BY <1>1
  <2> HIDE DEF k
  <2>3. Rows(n) = {} => \A i, j \in Rows(n)' : i = j
    BY <1>1, <2>1, <2>2
  <2> QED
    BY <1>1, <2>1, <2>2, <2>3 DEF Grows
<1> QED
  BY <1>2, <1>3

LEMMA QueryStep ==
    ASSUME RInv, NEW t \in Threads, Query(t) \/ QueryFails(t)
    PROVE  RInv'
<1>0. PICK n \in Names : n = form[t].name
  BY DEF RInv, Inv0, HasForm, Query, QueryFails, Goes, Forms
<1>1. PICK next \in {"insert", "failed"} :
         /\ step[t] = "query" /\ Moves(t, next) /\ form[t] \in Forms
         /\ UNCHANGED <<users, m_lock, form, up, told, raced, unsaved>>
         /\ \/ table' = Append(table, form[t])
            \/ table' = table /\ next # "insert"
  BY DEF Query, QueryFails, Goes, Moves, Steps, RInv, Inv0, HasForm
<1>2. /\ RegTypeOK /\ UsersLockHeld /\ HasForm /\ Alone /\ SingleRow /\ Places /\ MapAgrees
      /\ UsersHaveRows /\ UnsavedInMap /\ ToldHasRow /\ WelcomeRow /\ Down
  BY DEF RInv, Inv0, Inv1, Inv2
<1>3. /\ step' \in [Threads -> Steps] /\ t \in Registering(n)
      /\ step'[t] = next /\ \A u \in Threads : u # t => step'[u] = step[u]
      /\ \A m : Registering(m)' = Registering(m)
  <2>1. next \in Places6 /\ step[t] \in Places6
    BY <1>1 DEF Places6
  <2>2. Moves(t, next)
    BY <1>1
  <2>3. /\ step' \in [Threads -> Steps]
        /\ step'[t] = next /\ \A u \in Threads : u # t => step'[u] = step[u]
        /\ \A m : m # n => Registering(m)' = Registering(m)
        /\ next \in Places6 => Registering(n)' = Registering(n) \cup {t}
        /\ step[t] \in Places6 => t \in Registering(n)
    BY <1>0, <2>2, MovesFacts
  <2>4. Registering(n)' = Registering(n)
    BY <2>1, <2>3
  <2> QED
    BY <2>1, <2>3, <2>4
<1>4. Grows(n, form[t], next)
  BY <1>0, <1>1, <1>2, QueryGrows DEF RegTypeOK
<1>5. n \notin raced => users[n] = None /\ Rows(n) = {}
  BY <1>0, <1>1, <1>2 DEF Places, NewName
<1>6. n \notin raced => \A u \in Registering(n) : u = t
  BY <1>2, <1>3 DEF Alone
<1>7. Inv0'
  <2>1. RegTypeOK'
    BY <1>1, <1>2, <1>3, <1>4 DEF RegTypeOK, Grows
  <2>2. UsersLockHeld'
    BY <1>1, <1>2, <1>3 DEF UsersLockHeld, Critical
  <2>3. HasForm'
    BY <1>1, <1>2, <1>3 DEF HasForm
  <2>4. Down'
    BY <1>1, <1>2, <1>3 DEF Down
  <2> QED
    BY <2>1, <2>2, <2>3, <2>4 DEF Inv0
<1>8. SingleRow'
  <2>1. ASSUME NEW m \in Names \ raced, NEW i \in Rows(m)', NEW j \in Rows(m)'
        PROVE  i = j
    <3>1. CASE m = n
      BY <1>4, <1>5, <2>1, <3>1 DEF Grows
    <3>2. CASE m # n
      BY <1>2, <1>4, <2>1, <3>2 DEF Grows, SingleRow
    <3> QED
      BY <3>1, <3>2
  <2> QED
    BY <1>1, <2>1 DEF SingleRow
<1>9. MapAgrees'
  <2>1. ASSUME NEW m \in Names \ (raced \cup unsaved), up, Registering(m) = {}
        PROVE  users[m] = LastRow(table', m)
    <3>1. m # n
      BY <1>3, <2>1
    <3> QED
      BY <1>2, <1>4, <2>1, <3>1 DEF MapAgrees, Grows
  <2> QED
    BY <1>1, <1>3, <2>1 DEF MapAgrees
<1>10. Places'
  <2>1. ASSUME NEW u \in Threads
        PROVE  (InsertedRow(u) /\ FailedUnsaved(u) /\ NewName(u))'
    <3>0. InsertedRow(u) /\ FailedUnsaved(u) /\ NewName(u) /\ form' = form
      BY <1>1, <1>2 DEF Places
    <3>1. CASE u = t
      <4>1. next \in {"insert", "failed"} /\ (next = "insert" => HasRow(table', form[t]))
        BY <1>4 DEF Grows
      <4>2. n \notin raced => \A i \in Rows(n)' : table'[i] = form[t]
        BY <1>4, <1>5 DEF Grows
      <4> QED
        BY <1>0, <1>1, <1>3, <1>5, <3>0, <3>1, <4>1, <4>2 DEF InsertedRow, FailedUnsaved, NewName
    <3>2. CASE u # t
      <4>1. step'[u] = step[u]
        BY <1>3, <3>2
      <4>2. InsertedRow(u)' /\ FailedUnsaved(u)'
        BY <1>1, <1>4, <3>0, <4>1 DEF InsertedRow, FailedUnsaved, Grows
      <4>3. NewName(u)'
        <5>1. CASE form[u].name = n /\ step[u] \in Places6
          <6>1. u \in Registering(n)
            BY <5>1 DEF Registering, Places6
          <6> QED
            BY <1>1, <1>6, <3>0, <3>2, <5>1, <6>1 DEF NewName
        <5>2. CASE step[u] \notin Places6
          BY <4>1, <5>2 DEF NewName, Places6
        <5>3. CASE form[u].name # n
          <6>1. PICK k : k = form[u].name
            OBVIOUS
          <6>2. k # n /\ Rows(k)' = Rows(k) /\ \A i \in Rows(k) : table'[i] = table[i]
            BY <1>4, <5>3, <6>1 DEF Grows, Rows
          <6> QED
            BY <1>1, <3>0, <4>1, <6>1, <6>2 DEF NewName
        <5> QED
          BY <5>1, <5>2, <5>3
      <4> QED
        BY <4>2, <4>3
    <3> QED
      BY <3>1, <3>2
  <2> QED
    BY <2>1 DEF Places
<1>11. Alone'
  BY <1>1, <1>2, <1>3 DEF Alone
<1>12. Inv2'
  <2>1. UsersHaveRows' /\ ToldHasRow' /\ UnsavedInMap'
    BY <1>1, <1>2, <1>3, <1>4 DEF UsersHaveRows, ToldHasRow, UnsavedInMap, Grows
  <2>2. WelcomeRow'
    BY <1>1, <1>2, <1>3, <1>4 DEF WelcomeRow, Grows
  <2> QED
    BY <2>1, <2>2 DEF Inv2
<1> QED
  BY <1>7, <1>8, <1>9, <1>10, <1>11, <1>12 DEF RInv, Inv1

LEMMA InsertStep ==
    ASSUME RInv, NEW t \in Threads, Insert(t)
    PROVE  RInv'
<1>0. PICK n \in Names : n = form[t].name
  BY DEF RInv, Inv0, HasForm, Insert, Goes, Forms
<1>1. PICK next \in {"inserting", "failing"} :
         /\ step[t] = IF next = "inserting" THEN "insert" ELSE "failed"
         /\ unsaved' = IF next = "inserting" THEN unsaved ELSE unsaved \cup {n}
         /\ Moves(t, next) /\ form[t] \in Forms
         /\ UNCHANGED <<users, table, m_lock, form, up, told, raced>>
  BY <1>0 DEF Insert, Goes, Moves, Steps, RInv, Inv0, HasForm
<1>2. /\ RegTypeOK /\ UsersLockHeld /\ HasForm /\ Alone /\ SingleRow /\ Places /\ MapAgrees
      /\ UsersHaveRows /\ UnsavedInMap /\ ToldHasRow /\ WelcomeRow /\ Down
  BY DEF RInv, Inv0, Inv1, Inv2
<1>3. /\ step' \in [Threads -> Steps] /\ t \in Registering(n)
      /\ step'[t] = next /\ \A u \in Threads : u # t => step'[u] = step[u]
      /\ \A m : Registering(m)' = Registering(m)
  <2>1. next \in Places6 /\ step[t] \in Places6
    BY <1>1 DEF Places6
  <2>2. Moves(t, next)
    BY <1>1
  <2>3. /\ step' \in [Threads -> Steps]
        /\ step'[t] = next /\ \A u \in Threads : u # t => step'[u] = step[u]
        /\ \A m : m # n => Registering(m)' = Registering(m)
        /\ next \in Places6 => Registering(n)' = Registering(n) \cup {t}
        /\ step[t] \in Places6 => t \in Registering(n)
    BY <1>0, <2>2, MovesFacts
  <2>4. Registering(n)' = Registering(n)
    BY <2>1, <2>3
  <2> QED
    BY <2>1, <2>3, <2>4
<1>4. /\ \A m : Rows(m)' = Rows(m)
      /\ unsaved \subseteq unsaved' /\ unsaved' \subseteq unsaved \cup {n}
  BY <1>1 DEF Rows
<1>5. Inv0'
  <2>1. RegTypeOK'
    BY <1>1, <1>2, <1>3, <1>4 DEF RegTypeOK
  <2>2. UsersLockHeld'
    BY <1>1, <1>2, <1>3 DEF UsersLockHeld, Critical
  <2>3. HasForm'
    BY <1>1, <1>2, <1>3 DEF HasForm
  <2>4. Down'
    BY <1>1, <1>2 DEF Down
  <2> QED
    BY <2>1, <2>2, <2>3, <2>4 DEF Inv0
<1>6. Places'
  <2>1. ASSUME NEW u \in Threads
        PROVE  (InsertedRow(u) /\ FailedUnsaved(u) /\ NewName(u))'
    <3>0. InsertedRow(u) /\ FailedUnsaved(u) /\ NewName(u) /\ form' = form
      BY <1>1, <1>2 DEF Places
    <3>1. CASE u = t
      BY <1>0, <1>1, <1>3, <1>4, <3>0, <3>1 DEF InsertedRow, FailedUnsaved, NewName
    <3>2. CASE u # t
      BY <1>1, <1>3, <1>4, <3>0, <3>2 DEF InsertedRow, FailedUnsaved, NewName
    <3> QED
      BY <3>1, <3>2
  <2> QED
    BY <2>1 DEF Places
<1>7. Inv1'
  <2>1. Alone' /\ SingleRow' /\ MapAgrees'
    BY <1>1, <1>2, <1>3, <1>4 DEF Alone, SingleRow, MapAgrees
  <2> QED
    BY <1>6, <2>1 DEF Inv1
<1>8. Inv2'
  <2>1. UsersHaveRows' /\ ToldHasRow' /\ UnsavedInMap'
    BY <1>1, <1>2, <1>3, <1>4 DEF UsersHaveRows, ToldHasRow, UnsavedInMap
  <2>2. WelcomeRow'
    BY <1>1, <1>2, <1>3, <1>4 DEF WelcomeRow
  <2> QED
    BY <2>1, <2>2 DEF Inv2
<1> QED
  BY <1>5, <1>7, <1>8 DEF RInv

LEMMA InsertEndsStep ==
    ASSUME RInv, RegistrationAssumption, PoolAssumption, NEW t \in Threads, InsertEnds(t)
    PROVE  RInv'
<1>0. PICK n \in Names : n = form[t].name
  BY DEF RInv, Inv0, HasForm, InsertEnds, Goes, Forms
<1>1. PICK next \in {"registered", "refused"} :
         /\ step[t] = IF next = "registered" THEN "inserting" ELSE "failing"
         /\ told' = IF next = "registered" THEN told \cup {form[t]} ELSE told
         /\ Moves(t, next) /\ form[t] \in Forms
         /\ users' = Inserted(form[t]) /\ m_lock' = Nobody
         /\ UNCHANGED <<table, form, up, raced, unsaved>>
  BY <1>0 DEF InsertEnds, Goes, Moves, Steps, RInv, Inv0, HasForm
<1>2. /\ RegTypeOK /\ UsersLockHeld /\ HasForm /\ Alone /\ SingleRow /\ Places /\ MapAgrees
      /\ UsersHaveRows /\ UnsavedInMap /\ ToldHasRow /\ WelcomeRow /\ Down
  BY DEF RInv, Inv0, Inv1, Inv2
<1>3. /\ step' \in [Threads -> Steps] /\ t \in Registering(n)
      /\ step'[t] = next /\ \A u \in Threads : u # t => step'[u] = step[u]
      /\ \A m : m # n => Registering(m)' = Registering(m)
      /\ Registering(n)' = Registering(n) \ {t}
  <2>1. next \notin Places6 /\ step[t] \in Places6
    BY <1>1 DEF Places6
  <2>2. Moves(t, next)
    BY <1>1
  <2>3. /\ step' \in [Threads -> Steps]
        /\ step'[t] = next /\ \A u \in Threads : u # t => step'[u] = step[u]
        /\ \A m : m # n => Registering(m)' = Registering(m)
        /\ next \notin Places6 => Registering(n)' = Registering(n) \ {t}
        /\ step[t] \in Places6 => t \in Registering(n)
    BY <1>0, <2>2, MovesFacts
  <2> QED
    BY <2>1, <2>3
<1>4. \A m : Rows(m)' = Rows(m)
  BY <1>1 DEF Rows
<1>5. PICK p \in Passwords : p = form[t].password /\ form[t] = [name |-> n, password |-> p]
  BY <1>0, <1>1 DEF Forms
<1>6. /\ users' \in [Names -> Passwords \cup {None}]
      /\ \A m \in Names : m # n => users'[m] = users[m]
      /\ users[n] # None => users'[n] = users[n]
      /\ users[n] = None => users'[n] = p
      /\ p # None
  <2>1. users' = IF users[n] = None THEN [users EXCEPT ![n] = p] ELSE users
    BY <1>0, <1>1, <1>5 DEF Inserted
  <2>2. p # None
    BY <1>5 DEF RegistrationAssumption
  <2> QED
    BY <1>2, <2>1, <2>2 DEF RegTypeOK
<1>7. /\ InsertedRow(t) /\ FailedUnsaved(t) /\ NewName(t)
      /\ next = "registered" => HasRow(table, form[t])
      /\ next # "registered" => n \in unsaved
  <2>1. InsertedRow(t) /\ FailedUnsaved(t) /\ NewName(t)
    BY <1>2 DEF Places
  <2> QED
    BY <1>0, <1>1, <2>1 DEF InsertedRow, FailedUnsaved
<1>8. Inv0'
  <2>1. RegTypeOK'
    <3>1. told' \subseteq Forms
      BY <1>1, <1>2 DEF RegTypeOK
    <3> QED
      BY <1>1, <1>2, <1>3, <1>6, <3>1 DEF RegTypeOK
  <2>2. UsersLockHeld'
    <3>1. \A u \in Threads : u # t => step[u] \notin Critical
      <4>1. step[t] \in Critical
        BY <1>1 DEF Critical
      <4> QED
        BY <1>2, <4>1 DEF UsersLockHeld
    <3>2. next \notin Critical /\ Nobody \notin Threads
      BY <1>1 DEF Critical, PoolAssumption
    <3> QED
      BY <1>1, <1>3, <3>1, <3>2 DEF UsersLockHeld
  <2>3. HasForm'
    BY <1>1, <1>2, <1>3 DEF HasForm
  <2>4. Down'
    BY <1>1, <1>2 DEF Down
  <2> QED
    BY <2>1, <2>2, <2>3, <2>4 DEF Inv0
<1>9. Places'
  <2>1. ASSUME NEW u \in Threads
        PROVE  (InsertedRow(u) /\ FailedUnsaved(u) /\ NewName(u))'
    <3>0. InsertedRow(u) /\ FailedUnsaved(u) /\ NewName(u) /\ form' = form
      BY <1>1, <1>2 DEF Places
    <3>1. CASE u = t
      BY <1>1, <1>3, <3>1 DEF InsertedRow, FailedUnsaved, NewName
    <3>2. CASE u # t
      <4>1. step'[u] = step[u]
        BY <1>3, <3>2
      <4>2. InsertedRow(u)' /\ FailedUnsaved(u)'
        BY <1>1, <3>0, <4>1 DEF InsertedRow, FailedUnsaved
      <4>3. NewName(u)'
        <5>1. CASE step[u] \notin Places6
          BY <4>1, <5>1 DEF NewName, Places6
        <5>2. CASE step[u] \in Places6 /\ form[u].name = n
          <6>1. u \in Registering(n)
            BY <5>2 DEF Registering, Places6
          <6>2. n \in raced
            BY <1>2, <1>3, <3>2, <6>1 DEF Alone
          <6> QED
            BY <1>1, <3>0, <5>2, <6>2 DEF NewName
        <5>3. CASE step[u] \in Places6 /\ form[u].name # n
          <6>1. PICK m \in Names : m = form[u].name
            BY <1>2, <5>3 DEF HasForm, Forms, Places6
          <6>2. users'[m] = users[m] /\ Rows(m)' = Rows(m)
            BY <1>4, <1>6, <5>3, <6>1
          <6> QED
            BY <1>1, <3>0, <4>1, <6>1, <6>2 DEF NewName
        <5> QED
          BY <5>1, <5>2, <5>3
      <4> QED
        BY <4>2, <4>3
    <3> QED
      BY <3>1, <3>2
  <2> QED
    BY <2>1 DEF Places
<1>10. MapAgrees'
  <2>1. ASSUME NEW m \in Names \ (raced \cup unsaved), up, Registering(m)' = {}
        PROVE  users'[m] = LastRow(table, m)
    <3>1. CASE m # n
      <4>1. Registering(m) = {} /\ users'[m] = users[m]
        BY <1>3, <1>6, <2>1, <3>1
      <4> QED
        BY <1>2, <2>1, <4>1 DEF MapAgrees
    <3>2. CASE m = n
      <4>1. next = "registered" /\ n \notin raced
        BY <1>7, <2>1, <3>2
      <4>2. HasRow(table, form[t]) /\ users[n] = None /\ \A i \in Rows(n) : table[i] = form[t]
        BY <1>0, <1>1, <1>7, <4>1 DEF NewName
      <4>3. \A i \in RowsOf(table, n) : table[i] = form[t]
        BY <4>2 DEF Rows, RowsOf
      <4>4. LastRow(table, n) = form[t].password
        BY <1>0, <1>1, <1>2, <4>2, <4>3, LastRowFacts DEF RegTypeOK
      <4> QED
        BY <1>5, <1>6, <3>2, <4>2, <4>4
    <3> QED
      BY <3>1, <3>2
  <2> QED
    BY <1>1, <2>1 DEF MapAgrees
<1>11. Alone' /\ SingleRow'
  <2>1. \A m : Registering(m)' \subseteq Registering(m)
    BY <1>3
  <2> QED
    BY <1>1, <1>2, <1>4, <2>1 DEF Alone, SingleRow
<1>12. UsersHaveRows'
  <2>1. ASSUME NEW m \in Names, users'[m] # None
        PROVE  m \in unsaved \/ HasRow(table, [name |-> m, password |-> users'[m]])
    <3>1. CASE users'[m] = users[m]
      BY <1>2, <2>1, <3>1 DEF UsersHaveRows
    <3>2. CASE users'[m] # users[m]
      <4>1. m = n /\ users'[n] = p
        BY <1>6, <3>2
      <4> QED
        BY <1>5, <1>7, <4>1
    <3> QED
      BY <3>1, <3>2
  <2> QED
    BY <1>1, <2>1 DEF UsersHaveRows
<1>13. UnsavedInMap'
  <2>1. ASSUME NEW m \in unsaved PROVE users'[m] # None \/ Registering(m)' # {}
    <3>1. m \in Names
      BY <1>2 DEF RegTypeOK
    <3>2. users[m] # None \/ Registering(m) # {}
      BY <1>2 DEF UnsavedInMap
    <3> QED
      BY <1>3, <1>6, <3>1, <3>2
  <2> QED
    BY <1>1, <2>1 DEF UnsavedInMap
<1>14. ToldHasRow' /\ WelcomeRow'
  <2>1. ToldHasRow'
    BY <1>1, <1>2, <1>7 DEF ToldHasRow
  <2>2. WelcomeRow'
    BY <1>1, <1>2, <1>3 DEF WelcomeRow
  <2> QED
    BY <2>1, <2>2
<1> QED
  BY <1>8, <1>9, <1>10, <1>11, <1>12, <1>13, <1>14 DEF RInv, Inv1, Inv2

-----------------------------------------------------------------------------
(* The process ends and starts.                                            *)

(* Nobody is in do_request.                                                *)
Idle == form = [t \in Threads |-> None] /\ step = [t \in Threads |-> "none"]

LEMMA EndsStep ==
    ASSUME RInv, PoolAssumption, RegistrationAssumption, Ends
    PROVE  RInv'
<1>1. /\ RegTypeOK /\ SingleRow /\ ToldHasRow
      /\ Idle' /\ m_lock' = Nobody /\ up' = FALSE /\ unsaved' = {}
      /\ UNCHANGED <<table, told, raced>>
  BY DEF RInv, Inv0, Inv1, Inv2, Ends, Idle
<1>2. \A n \in Names : users'[n] = None
  <2>1. users' = [n \in Names |-> LastRow(<< >>, n)]
    BY DEF Ends, initmysql_result
  <2>2. ASSUME NEW n PROVE LastRow(<< >>, n) = None
    <3>1. \A i : i \notin DOMAIN << >>
      BY EmptySeq, LenProperties
    <3>2. RowsOf(<< >>, n) = {}
      BY <3>1 DEF RowsOf
    <3> QED
      BY <3>2, LastRowIs
  <2> QED
    BY <2>1, <2>2
<1>3. users' \in [Names -> Passwords \cup {None}]
  <2>1. users' = [n \in Names |-> LastRow(<< >>, n)]
    BY DEF Ends, initmysql_result
  <2> QED
    BY <1>2, <2>1
<1>4. /\ step' \in [Threads -> Steps] /\ form' \in [Threads -> Forms \cup {None}]
      /\ \A t \in Threads : step'[t] = "none"
      /\ \A n : Registering(n)' = {}
  <2>1. step' = [t \in Threads |-> "none"] /\ form' = [t \in Threads |-> None]
    BY <1>1 DEF Idle
  <2>2. step' \in [Threads -> Steps] /\ form' \in [Threads -> Forms \cup {None}]
    BY <2>1 DEF Steps
  <2>3. \A t \in Threads : step'[t] = "none"
    BY <2>1
  <2> QED
    BY <2>2, <2>3 DEF Registering
<1>5. Inv0'
  <2>1. RegTypeOK'
    BY <1>1, <1>3, <1>4 DEF RegTypeOK
  <2>2. UsersLockHeld'
    BY <1>1, <1>4 DEF UsersLockHeld, Critical, PoolAssumption
  <2> QED
    BY <1>1, <1>4, <2>1, <2>2 DEF Inv0, HasForm, Down
<1>6. Inv1'
  <2>1. Alone' /\ MapAgrees' /\ SingleRow'
    BY <1>1, <1>4 DEF Alone, MapAgrees, SingleRow, Rows
  <2>2. Places'
    BY <1>4 DEF Places, InsertedRow, FailedUnsaved, NewName
  <2> QED
    BY <2>1, <2>2 DEF Inv1
<1>7. Inv2'
  BY <1>1, <1>2, <1>4 DEF Inv2, UsersHaveRows, UnsavedInMap, ToldHasRow, WelcomeRow
<1> QED
  BY <1>5, <1>6, <1>7 DEF RInv

(* users as initmysql_result reads it is right.                            *)
LEMMA MapRead ==
    ASSUME RegistrationAssumption, NEW rows \in Seq(Forms),
           NEW map, map = initmysql_result(rows)
    PROVE  /\ map \in [Names -> Passwords \cup {None}]
           /\ \A n \in Names : map[n] = LastRow(rows, n)
           /\ \A n \in Names : map[n] # None =>
                HasRow(rows, [name |-> n, password |-> map[n]])
<1>1. \A n \in Names : map[n] = LastRow(rows, n)
  BY DEF initmysql_result
<1>2. \A n \in Names : /\ LastRow(rows, n) \in Passwords \cup {None}
                       /\ LastRow(rows, n) # None =>
                            HasRow(rows, [name |-> n, password |-> LastRow(rows, n)])
  BY LastRowFacts
<1>3. map \in [Names -> Passwords \cup {None}]
  BY <1>2 DEF initmysql_result
<1> QED
  BY <1>1, <1>2, <1>3

LEMMA StartStep ==
    ASSUME RInv, RegistrationAssumption, Start
    PROVE  RInv'
<1>1. /\ ~up /\ up' = TRUE /\ users' = initmysql_result(table)
      /\ UNCHANGED <<table, m_lock, form, step, told, raced, unsaved>>
  BY DEF Start
<1>2. /\ RegTypeOK /\ UsersLockHeld /\ HasForm /\ Alone /\ SingleRow /\ Places
      /\ ToldHasRow /\ WelcomeRow /\ unsaved = {} /\ \A t \in Threads : step[t] = "none"
  BY <1>1 DEF RInv, Inv0, Inv1, Inv2, Down
<1>3. /\ users' \in [Names -> Passwords \cup {None}]
      /\ \A n \in Names : users'[n] = LastRow(table, n)
      /\ \A n \in Names : users'[n] # None =>
           HasRow(table, [name |-> n, password |-> users'[n]])
  <2>1. table \in Seq(Forms)
    BY <1>2 DEF RegTypeOK
  <2>2. PICK map : map = users'
    OBVIOUS
  <2>3. map = initmysql_result(table)
    BY <1>1, <2>2
  <2> QED
    BY <2>1, <2>2, <2>3, MapRead
<1>4. Inv0'
  <2>1. RegTypeOK'
    BY <1>1, <1>2, <1>3 DEF RegTypeOK
  <2> QED
    BY <1>1, <1>2, <2>1 DEF Inv0, UsersLockHeld, HasForm, Down
<1>5. Inv1'
  <2>1. Alone' /\ SingleRow'
    BY <1>1, <1>2 DEF Alone, SingleRow, Registering, Rows
  <2>2. MapAgrees'
    BY <1>1, <1>3 DEF MapAgrees
  <2>3. Places'
    BY <1>1, <1>2 DEF Places, InsertedRow, FailedUnsaved, NewName
  <2> QED
    BY <2>1, <2>2, <2>3 DEF Inv1
<1>6. Inv2'
  BY <1>1, <1>2, <1>3 DEF Inv2, UsersHaveRows, UnsavedInMap, ToldHasRow, WelcomeRow
<1> QED
  BY <1>4, <1>5, <1>6 DEF RInv

LEMMA UnchangedStep ==
    ASSUME RInv, UNCHANGED <<users, table, m_lock, form, step, up, told, raced, unsaved>>
    PROVE  RInv'
<1>1. Inv0'
  BY DEF RInv, Inv0, RegTypeOK, UsersLockHeld, HasForm, Down
<1>2. Inv1'
  <2>1. Alone' /\ SingleRow' /\ MapAgrees'
    BY DEF RInv, Inv1, Alone, SingleRow, MapAgrees, Registering, Rows
  <2>2. Places'
    BY DEF RInv, Inv1, Places, InsertedRow, FailedUnsaved, NewName, Rows
  <2> QED
    BY <2>1, <2>2 DEF Inv1
<1>3. Inv2'
  BY DEF RInv, Inv2, UsersHaveRows, UnsavedInMap, ToldHasRow, WelcomeRow, Registering
<1> QED
  BY <1>1, <1>2, <1>3 DEF RInv

LEMMA RInvInit ==
    ASSUME RegInit, PoolAssumption, RegistrationAssumption
    PROVE  RInv
<1>1. /\ table \in Seq(Forms) /\ users = initmysql_result(table) /\ m_lock = Nobody
      /\ Idle /\ up = TRUE /\ raced = {} /\ unsaved = {}
      /\ told = {table[i] : i \in DOMAIN table}
      /\ \A i, j \in DOMAIN table : table[i].name = table[j].name => i = j
  BY DEF RegInit, RegistrationAssumption, Forms, Idle
<1>2. /\ users \in [Names -> Passwords \cup {None}]
      /\ \A n \in Names : users[n] = LastRow(table, n)
      /\ \A n \in Names : users[n] # None =>
           HasRow(table, [name |-> n, password |-> users[n]])
  BY <1>1, MapRead
<1>3. /\ step \in [Threads -> Steps] /\ form \in [Threads -> Forms \cup {None}]
      /\ \A t \in Threads : step[t] = "none"
      /\ \A n : Registering(n) = {}
  <2>1. step = [t \in Threads |-> "none"] /\ form = [t \in Threads |-> None]
    BY <1>1 DEF Idle
  <2>2. step \in [Threads -> Steps] /\ form \in [Threads -> Forms \cup {None}]
    BY <2>1 DEF Steps
  <2>3. \A t \in Threads : step[t] = "none"
    BY <2>1
  <2> QED
    BY <2>2, <2>3 DEF Registering
<1>4. told \subseteq Forms /\ ToldHasRow
  <2>1. \A i \in DOMAIN table : table[i] \in Forms
    BY <1>1, ElementOfSeq
  <2> QED
    BY <1>1, <2>1 DEF ToldHasRow, HasRow
<1>5. Inv0
  <2>1. RegTypeOK
    BY <1>1, <1>2, <1>3, <1>4 DEF RegTypeOK
  <2>2. UsersLockHeld
    BY <1>1, <1>3 DEF UsersLockHeld, Critical, PoolAssumption
  <2> QED
    BY <1>1, <1>3, <2>1, <2>2 DEF Inv0, HasForm, Down
<1>6. Inv1
  <2>1. Alone /\ MapAgrees
    BY <1>2, <1>3 DEF Alone, MapAgrees
  <2>2. SingleRow
    BY <1>1 DEF SingleRow, Rows
  <2>3. Places
    BY <1>3 DEF Places, InsertedRow, FailedUnsaved, NewName
  <2> QED
    BY <2>1, <2>2, <2>3 DEF Inv1
<1>7. Inv2
  BY <1>1, <1>2, <1>3, <1>4 DEF Inv2, UsersHaveRows, UnsavedInMap, WelcomeRow
<1> QED
  BY <1>5, <1>6, <1>7 DEF RInv

LEMMA RInvNext ==
    ASSUME RInv, RegNext, PoolAssumption, RegistrationAssumption
    PROVE  RInv'
<1>1. CASE Stop
  BY <1>1, EndsStep DEF Stop
<1>2. CASE Start
  BY <1>2, StartStep
<1>3. ASSUME up, NEW t \in Threads, TakesHandle(t) \/ Interrupted(t)
      PROVE  RInv'
  BY <1>3, UnchangedStep DEF TakesHandle, Interrupted, userVars
<1>4. ASSUME up, NEW t \in Threads, Serves(t)
      PROVE  RInv'
  <2>1. CASE Page(t) \/ (\E f \in Forms : Submit(t, f))
    BY <1>4, <2>1, QuietSteps
  <2>2. CASE do_request(t)
    <3>1. \/ FindNew(t) \/ UsersLock(t) \/ Query(t) \/ QueryFails(t) \/ Insert(t)
          \/ InsertEnds(t) \/ FindTaken(t) \/ Welcome(t) \/ LogError(t)
      BY <2>2 DEF do_request
    <3>2. CASE FindNew(t)
      BY <1>4, <3>2, FindNewStep
    <3>3. CASE UsersLock(t)
      BY <1>4, <3>3, UsersLockStep
    <3>4. CASE Query(t) \/ QueryFails(t)
      BY <3>4, QueryStep
    <3>5. CASE Insert(t)
      BY <3>5, InsertStep
    <3>6. CASE InsertEnds(t)
      BY <3>6, InsertEndsStep
    <3>7. CASE FindTaken(t) \/ Welcome(t) \/ LogError(t)
      BY <1>4, <3>7, QuietSteps
    <3> QED
      BY <3>1, <3>2, <3>3, <3>4, <3>5, <3>6, <3>7
  <2> QED
    BY <1>4, <2>1, <2>2 DEF Serves
<1>5. ASSUME up, NEW t \in Threads, GivesBack(t)
      PROVE  RInv'
  <2>1. CASE Replied(t)
    BY <1>5, <2>1, QuietSteps
  <2>2. CASE UNCHANGED userVars
    BY <2>2, UnchangedStep DEF userVars
  <2> QED
    BY <1>5, <2>1, <2>2 DEF GivesBack
<1>6. ASSUME NEW t \in Threads, QueryNull(t)
      PROVE  RInv'
  BY <1>6, EndsStep DEF QueryNull
<1> QED
  BY <1>1, <1>2, <1>3, <1>4, <1>5, <1>6 DEF RegNext

LEMMA RInvAlways == RegSpec => []RInv
<1>1. RegInit => RInv
  BY RInvInit, PoolAssumption, RegistrationAssumption
<1>2. RInv /\ [RegNext]_allVars => RInv'
  <2>1. RInv /\ RegNext => RInv'
    BY RInvNext, PoolAssumption, RegistrationAssumption
  <2>2. RInv /\ UNCHANGED allVars => RInv'
    BY UnchangedStep DEF allVars, userVars
  <2> QED
    BY <2>1, <2>2
<1> QED
  BY <1>1, <1>2, PTL DEF RegSpec

(* Whatever the workers, failing queries and restarts do, a name whose     *)
(* registrations did not overlap has one row, the one its owner was told   *)
(* of, and users agrees with the table (do_request, initmysql_result).     *)
THEOREM RegisteredOnce == RegSpec => []RegisteredForGood
<1>1. RInv => RegisteredForGood
  <2> SUFFICES ASSUME RInv PROVE RegisteredForGood
    OBVIOUS
  <2>1. RegTypeOK /\ SingleRow /\ ToldHasRow /\ WelcomeRow /\ MapAgrees
    BY DEF RInv, Inv0, Inv1, Inv2
  <2>2. OneRow
    <3>1. SUFFICES ASSUME NEW n \in Names \ raced PROVE Cardinality(Rows(n)) <= 1
      BY DEF OneRow
    <3>2. CASE Rows(n) = {}
      BY <3>2, FS_EmptySet
    <3>3. CASE Rows(n) # {}
      <4>1. PICK i : i \in Rows(n)
        BY <3>3
      <4>2. Rows(n) = {i}
        BY <2>1, <4>1 DEF SingleRow
      <4>3. Cardinality({i}) = 1
        BY FS_Singleton
      <4> QED
        BY <4>2, <4>3
    <3> QED
      BY <3>2, <3>3
  <2>3. ToldIsRow
    BY <2>1 DEF ToldHasRow, ToldIsRow, HasRow
  <2>4. WelcomeHasRow
    BY <2>1 DEF WelcomeRow, WelcomeHasRow, HasRow
  <2> QED
    BY <2>1, <2>2, <2>3, <2>4 DEF RegisteredForGood
<1> QED
  BY <1>1, RInvAlways, PTL

-----------------------------------------------------------------------------
(* The pool under the registrations, across stops and starts.              *)
PoolInv == /\ Inv /\ OneHolder /\ ReserveBacked /\ NoEmptyFront /\ EnoughForAll
           /\ CountersAgree

(* A process that is gone has no thread in the pool and no handle.         *)
Gone == ~up => /\ lock = Nobody /\ m_CurConn = 0
               /\ \A t \in Threads : pc[t] = "idle" /\ con[t] = NULL

LEMMA PoolStep == PoolInv /\ [Next]_vars => PoolInv'
BY PoolAssumption, InvStep, OneHolderStep, BackedStep, EmptyFrontStep, EnoughStep,
   CountersStep
DEF PoolInv

(* No thread is in the pool, and its counts fit its handles.               *)
Fresh ==
    /\ connList \in Seq(Handles) /\ Distinct(connList)
    /\ m_MaxConn = Len(connList) /\ m_FreeConn = Len(connList) /\ m_CurConn = 0
    /\ reserve = Len(connList) /\ lock = Nobody /\ signals \in 0..MaxSignals
    /\ pc = [t \in Threads |-> "idle"] /\ con = [t \in Threads |-> NULL]

LEMMA FreshPool == Fresh => PoolInv
<1> SUFFICES ASSUME Fresh PROVE PoolInv
  OBVIOUS
<1> USE PoolAssumption
<1>1. Len(connList) \in Nat /\ signals \in Nat
  BY LenProperties DEF Fresh, PoolAssumption
<1>2. Inv
  BY <1>1 DEF Fresh, Inv, TypeOK, MutexHeld, HeadTaken, Inside, PCs, PoolAssumption
<1>3. Holders = {} /\ Granted = {} /\ Unposted = {} /\ Counted = {}
  BY DEF Fresh, Holders, Granted, Unposted, Counted
<1>4. OneHolder
  BY <1>1, <1>3, FS_EmptySet DEF Fresh, OneHolder
<1>5. ReserveBacked
  BY <1>1, <1>3, FS_EmptySet DEF Fresh, ReserveBacked
<1>6. NoEmptyFront /\ EnoughForAll
  BY DEF Fresh, NoEmptyFront, EnoughForAll
<1>7. CountersAgree
  BY <1>1, <1>3, FS_EmptySet DEF Fresh, CountersAgree
<1> QED
  BY <1>2, <1>4, <1>5, <1>6, <1>7 DEF PoolInv

(* The handles that init opens.                                            *)
LEMMA OpenedSeq ==
    \A list \in UNION {[1..n -> Handles] : n \in 1..Cardinality(Handles)} :
        list \in Seq(Handles)
<1>1. Cardinality(Handles) \in Nat
  BY PoolAssumption, FS_CardinalityType DEF PoolAssumption
<1>2. ASSUME NEW n \in 1..Cardinality(Handles), NEW list \in [1..n -> Handles]
      PROVE  list \in Seq(Handles)
  BY <1>1, <1>2, SeqDef
<1> QED
  BY <1>2

LEMMA PoolInvNext == PoolInv /\ Gone /\ [RegNext]_allVars => PoolInv' /\ Gone'
<1> SUFFICES ASSUME PoolInv, Gone, [RegNext]_allVars PROVE PoolInv' /\ Gone'
  OBVIOUS
<1>1. ASSUME [Next]_vars, UNCHANGED up, up \/ UNCHANGED vars
      PROVE  PoolInv' /\ Gone'
  BY <1>1, PoolStep DEF Gone, vars, counters
<1>2. CASE UNCHANGED allVars
  BY <1>1, <1>2 DEF allVars, userVars
<1>3. ASSUME up, NEW t \in Threads,
             TakesHandle(t) \/ Serves(t) \/ GivesBack(t) \/ Interrupted(t)
      PROVE  PoolInv' /\ Gone'
  <2>1. CASE TakesHandle(t)
    BY <1>1, <1>3, <2>1 DEF TakesHandle, Next, userVars
  <2>2. CASE Serves(t)
    <3>1. UNCHANGED vars
      BY <2>2 DEF Serves
    <3>2. UNCHANGED up
      BY <2>2 DEF Serves, Page, Submit, do_request, FindNew, FindTaken, UsersLock,
         Query, QueryFails, Insert, InsertEnds, Welcome, LogError
    <3> QED
      BY <1>1, <3>1, <3>2
  <2>3. CASE Replied(t)
    BY <1>1, <1>3, <2>3 DEF Replied, GiveBack, Next
  <2>4. CASE (Push(t) \/ Uncount(t) \/ ReleaseUnlock(t) \/ Post(t)) /\ UNCHANGED userVars
    BY <1>1, <1>3, <2>4 DEF GiveBack, Next, userVars
  <2>5. CASE Interrupted(t)
    BY <1>1, <1>3, <2>5 DEF Interrupted, Next, userVars
  <2> QED
    BY <1>3, <2>1, <2>2, <2>3, <2>4, <2>5 DEF GivesBack
<1>4. CASE Ends
  <2>1. << >> \in Seq(Handles) /\ Len(<< >>) = 0
    BY EmptySeq
  <2>2. Fresh'
    <3>1. Distinct(<< >>)
      BY <2>1 DEF Distinct
    <3> QED
      BY <1>4, <2>1, <3>1 DEF Ends, Fresh, PoolInv, Inv, TypeOK
  <2>3. Gone'
    BY <1>4 DEF Ends, Gone
  <2>4. PoolInv'
    BY <2>2, FreshPool, PTL
  <2> QED
    BY <2>3, <2>4
<1>5. CASE Start
  <2>1. pc = [t \in Threads |-> "idle"] /\ con = [t \in Threads |-> NULL]
        /\ lock = Nobody /\ m_CurConn = 0 /\ signals \in 0..MaxSignals
    BY <1>5 DEF Start, Gone, PoolInv, Inv, TypeOK
  <2>2. connList' \in Seq(Handles)
    BY <1>5, OpenedSeq DEF Start
  <2>3. Fresh'
    BY <1>5, <2>1, <2>2 DEF Start, Fresh
  <2>4. Gone'
    BY <1>5 DEF Start, Gone
  <2>5. PoolInv'
    BY <2>3, FreshPool, PTL
  <2> QED
    BY <2>4, <2>5
<1> QED
  BY <1>2, <1>3, <1>4, <1>5 DEF RegNext, QueryNull, Stop

LEMMA PoolInvInit == RegInit => PoolInv /\ Gone
<1> SUFFICES ASSUME RegInit PROVE PoolInv /\ Gone
  OBVIOUS
<1>1. Fresh
  BY OpenedSeq, PoolAssumption DEF RegInit, Init, Fresh, PoolAssumption
<1> QED
  BY <1>1, FreshPool DEF RegInit, Gone

(* Whatever is registered, and however often the process ends in the       *)
(* middle of it and is started again, what SqlPoolProofs shows of one life *)
(* of the pool holds: a handle has one user and none is lost, the counters *)
(* are right, front() has something to return unless a wait was            *)
(* interrupted, and a handle for every thread is enough.                   *)
THEOREM PoolSurvives ==
    RegSpec => [](/\ TypeOK /\ OneHolder /\ CountersExact /\ ReserveBacked
                  /\ NoEmptyFront /\ EnoughForAll)
<1>1. PoolInv => /\ TypeOK /\ OneHolder /\ CountersExact /\ ReserveBacked
                 /\ NoEmptyFront /\ EnoughForAll
  <2> SUFFICES ASSUME PoolInv
               PROVE  /\ TypeOK /\ OneHolder /\ CountersExact /\ ReserveBacked
                      /\ NoEmptyFront /\ EnoughForAll
    OBVIOUS
  <2>1. CountersExact
    BY PoolAssumption, AgreeIsExact DEF PoolInv
  <2> QED
    BY <2>1 DEF PoolInv, Inv
<1> QED
  BY <1>1, PoolInvInit, PoolInvNext, PTL DEF RegSpec
=============================================================================
