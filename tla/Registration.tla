--------------------------- MODULE Registration ---------------------------
(***************************************************************************)
(* The users of the site: the branch of http_conn::do_request that serves  *)
(* the register and log-in forms, the map `users` all workers share, the   *)
(* table `user` behind it, and what a restart of the server makes of them. *)
(* A worker runs it between GetConnection and ReleaseConnection, so this   *)
(* module is composed with SqlPool, whose every step it takes over.        *)
(*                                                                         *)
(* users.find is outside m_lock.  A search of a std::map during an insert  *)
(* of another thread is a data race; the outcomes taken here are that the  *)
(* search finds the name or misses it.                                     *)
(***************************************************************************)
EXTENDS SqlPool

CONSTANTS
    Names, Passwords,
    Known,         \* the rows the table holds before the first start
    None,          \* no form; and the password of a name `users` lacks
    MaxRegister,   \* bound: registrations submitted
    MaxFailures,   \* bound: INSERTs that mysql_query reports as failed
    MaxRestarts    \* bound: times the server is started again

ASSUME RegistrationAssumption ==
    /\ IsFiniteSet(Names) /\ IsFiniteSet(Passwords)
    /\ None \notin Names \cup Passwords
    /\ Known \in Seq([name : Names, password : Passwords])
    /\ \A i, j \in DOMAIN Known : Known[i].name = Known[j].name => i = j
    /\ {MaxRegister, MaxFailures, MaxRestarts} \subseteq Nat

VARIABLES
    users,         \* the map: name -> password
    table,         \* the rows of MySQL's table, oldest first
    m_lock,        \* who holds it
    form,          \* the form each worker is serving
    step,          \* each worker's place in do_request
    up,            \* the process runs
    told,          \* the forms answered with /log.html
    raced,         \* names whose registrations overlapped (see Unseen)
    unsaved,       \* names in users although their INSERT failed
    registered, failures, restarts \* the bounded counters

bounds == <<registered, failures, restarts>>
userVars == <<users, table, m_lock, form, step, up, told, raced, unsaved, bounds>>
allVars == <<vars, userVars>>

Forms == [name : Names, password : Passwords]

(* users[temp1] = temp2, row after row: the last one of a name stays.      *)
LastRow(rows, n) ==
    LET at == {i \in DOMAIN rows : rows[i].name = n}
    IN  IF at = {} THEN None
        ELSE rows[CHOOSE i \in at : \A j \in at : j <= i].password

initmysql_result(rows) == [n \in Names |-> LastRow(rows, n)]

RegInit ==
    /\ Init
    /\ table = Known /\ users = initmysql_result(table)
    /\ m_lock = Nobody
    /\ form = [t \in Threads |-> None] /\ step = [t \in Threads |-> "none"]
    /\ up = TRUE
    /\ told = {Known[i] : i \in DOMAIN Known} /\ raced = {} /\ unsaved = {}
    /\ registered = 0 /\ failures = 0 /\ restarts = 0

-----------------------------------------------------------------------------
(* do_request.                                                             *)

Goes(t, here, next) == step[t] = here /\ step' = [step EXCEPT ![t] = next]

(* process_read has a request: a page, or one of the two forms.            *)
Page(t) ==
    /\ pc[t] = "using" /\ Goes(t, "none", "page")
    /\ UNCHANGED <<users, table, m_lock, form, up, told, raced, unsaved, bounds>>

Submit(t, f) ==
    /\ pc[t] = "using"
    /\ form' = [form EXCEPT ![t] = f]
    /\ \/ registered < MaxRegister /\ registered' = registered + 1
          /\ Goes(t, "none", "register")
       \/ registered' = registered /\ Goes(t, "none", "login")
    /\ UNCHANGED <<users, table, m_lock, up, told, raced, unsaved, failures, restarts>>

Inserting == \E t \in Threads : step[t] \in {"inserting", "failing"}

(* What users.find(name) != users.end() can be.                            *)
Finds(n) == (IF users[n] # None THEN {TRUE} ELSE {FALSE})
            \cup (IF Inserting THEN {FALSE} ELSE {})

(* Registrations that passed the search and are not in users yet.          *)
Registering(n) == {t \in Threads :
    /\ step[t] \in {"lock", "query", "insert", "failed", "inserting", "failing"}
    /\ form[t].name = n}

(* The search missed what another registration, of this name or just       *)
(* being inserted, was about to make visible.                              *)
Unseen(n) == Inserting \/ Registering(n) # {}

(* users.find(name) == users.end(), without m_lock.                        *)
FindNew(t) ==
    LET n == form[t].name
    IN  /\ Goes(t, "register", "lock")
        /\ FALSE \in Finds(n)
        /\ raced' = IF Unseen(n) THEN raced \cup {n} ELSE raced
        /\ UNCHANGED <<users, table, m_lock, form, up, told, unsaved, bounds>>

FindTaken(t) ==
    /\ Goes(t, "register", "refused")
    /\ TRUE \in Finds(form[t].name)
    /\ UNCHANGED <<users, table, m_lock, form, up, told, raced, unsaved, bounds>>

UsersLock(t) ==
    /\ m_lock = Nobody /\ m_lock' = t /\ Goes(t, "lock", "query")
    /\ UNCHANGED <<users, table, form, up, told, raced, unsaved, bounds>>

(* mysql_query(INSERT) with the slot's member mysql, which init() clears   *)
(* and connectionRAII then sets to the handle this worker has got: it is   *)
(* the worker's own as long as the slot is one worker's (OneOwner of       *)
(* WebServer).                                                             *)
Query(t) ==
    /\ con[t] # NULL /\ Goes(t, "query", "insert")
    /\ table' = Append(table, form[t])
    /\ UNCHANGED <<users, m_lock, form, up, told, raced, unsaved, bounds>>

(* It reports an error; if that is a lost answer the row is there.         *)
QueryFails(t) ==
    /\ con[t] # NULL /\ Goes(t, "query", "failed")
    /\ failures < MaxFailures /\ failures' = failures + 1
    /\ table' \in {table, Append(table, form[t])}
    /\ UNCHANGED <<users, m_lock, form, up, told, raced, unsaved, registered, restarts>>

(* Mutant: the new user is not put into users.                             *)
KeptOut(f) == users

(* users.insert leaves an entry that is there as it is.                    *)
Inserted(f) == IF users[f.name] = None
               THEN [users EXCEPT ![f.name] = f.password] ELSE users

(* users.insert, whatever mysql_query returned, begins and ends.           *)
Insert(t) ==
    /\ \/ Goes(t, "insert", "inserting") /\ UNCHANGED unsaved
       \/ Goes(t, "failed", "failing") /\ unsaved' = unsaved \cup {form[t].name}
    /\ UNCHANGED <<users, table, m_lock, form, up, told, raced, bounds>>

(* m_lock.unlock(), and the page that the INSERT's result calls for.       *)
InsertEnds(t) ==
    /\ \/ Goes(t, "inserting", "registered") /\ told' = told \cup {form[t]}
       \/ Goes(t, "failing", "refused") /\ UNCHANGED told
    /\ users' = Inserted(form[t])
    /\ m_lock' = Nobody
    /\ UNCHANGED <<table, form, up, raced, unsaved, bounds>>

(* The log-in form: users only, and again without m_lock.                  *)
Welcome(t) ==
    /\ Goes(t, "login", "welcome")
    /\ users[form[t].name] = form[t].password
    /\ UNCHANGED <<users, table, m_lock, form, up, told, raced, unsaved, bounds>>

LogError(t) ==
    /\ Goes(t, "login", "refused")
    /\ users[form[t].name] # form[t].password \/ Inserting
    /\ UNCHANGED <<users, table, m_lock, form, up, told, raced, unsaved, bounds>>

do_request(t) ==
    \/ FindNew(t) \/ FindTaken(t) \/ UsersLock(t) \/ Query(t) \/ QueryFails(t)
    \/ Insert(t) \/ InsertEnds(t) \/ Welcome(t) \/ LogError(t)

-----------------------------------------------------------------------------
(* The worker around it, and the process.                                  *)

TakesHandle(t) == Get(t) /\ UNCHANGED userVars

Serves(t) ==
    /\ Page(t) \/ (\E f \in Forms : Submit(t, f)) \/ do_request(t)
    /\ UNCHANGED vars

(* ~connectionRAII, when process() has returned, and ReleaseConnection.    *)
Replied(t) ==
    /\ ReleaseNull(t) \/ ReleaseLock(t)
    /\ step[t] \in {"page", "registered", "refused", "welcome"}
    /\ step' = [step EXCEPT ![t] = "none"]
    /\ form' = [form EXCEPT ![t] = None]
    /\ UNCHANGED <<users, table, m_lock, up, told, raced, unsaved, bounds>>

GivesBack(t) ==
    \/ Replied(t)
    \/ /\ Push(t) \/ Uncount(t) \/ ReleaseUnlock(t) \/ Post(t)
       /\ UNCHANGED userVars

Interrupted(t) == ReserveInterrupted(t) /\ UNCHANGED userVars

(* The process is gone, and with it all but the table.                     *)
Ends ==
    /\ up /\ up' = FALSE
    /\ connList' = << >> /\ m_MaxConn' = 0 /\ m_FreeConn' = 0 /\ m_CurConn' = 0
    /\ reserve' = 0
    /\ lock' = Nobody /\ m_lock' = Nobody
    /\ pc' = [t \in Threads |-> "idle"] /\ con' = [t \in Threads |-> NULL]
    /\ form' = [t \in Threads |-> None] /\ step' = [t \in Threads |-> "none"]
    /\ users' = initmysql_result(<< >>) /\ unsaved' = {}
    /\ UNCHANGED <<signals, table, told, raced, bounds>>

(* A signal ends the event loop and main returns, between any two steps of *)
(* the workers; ~connection_pool closes the handles.                       *)
Stop == Ends /\ restarts < MaxRestarts

(* mysql_query(NULL, ...), with what GetConnection may have returned, is   *)
(* undefined; libmysqlclient reads through it and the process goes down.   *)
QueryNull(t) == con[t] = NULL /\ step[t] = "query" /\ Ends

(* The server is started again: new handles, and users read from MySQL.    *)
Start ==
    /\ ~up /\ up' = TRUE
    /\ restarts < MaxRestarts /\ restarts' = restarts + 1
    /\ connList' \in UNION {[1..n -> Handles] : n \in 1..Cardinality(Handles)}
    /\ Distinct(connList')
    /\ m_MaxConn' = Len(connList')
    /\ m_FreeConn' = m_MaxConn' /\ reserve' = m_MaxConn'
    /\ users' = initmysql_result(table)
    /\ UNCHANGED <<m_CurConn, lock, pc, con, signals, table, m_lock, form,
                   step, told, raced, unsaved, registered, failures>>

RegNext ==
    \/ /\ up
       /\ \E t \in Threads :
             \/ TakesHandle(t) \/ Serves(t) \/ GivesBack(t) \/ Interrupted(t)
             \/ QueryNull(t)
    \/ Stop \/ Start

(* Threads are scheduled and not overtaken for ever at the semaphore or a  *)
(* mutex; a worker with a request goes on with it.  Nothing stops or       *)
(* starts the process for sure.                                            *)
Fairness ==
    \A t \in Threads : SF_allVars(up /\ (TakesHandle(t) \/ Serves(t) \/ GivesBack(t)))

RegSpec == RegInit /\ [][RegNext]_allVars

FairSpec == RegSpec /\ Fairness

-----------------------------------------------------------------------------
Rows(n) == {i \in DOMAIN table : table[i].name = n}

(* One name, one row.                                                      *)
OneRow == \A n \in Names \ raced : Cardinality(Rows(n)) <= 1

(* Who was answered with /log.html is in the table, with that password.    *)
ToldIsRow == \A f \in told : \E i \in DOMAIN table : table[i] = f

(* The map says of a name what the table says, but for an INSERT whose     *)
(* result has not been entered yet, or that failed.                        *)
MapAgrees == \A n \in Names \ (raced \cup unsaved) :
    up /\ Registering(n) = {} => users[n] = LastRow(table, n)

(* Nobody is welcomed who is not in the table ("in the table", line 482).  *)
WelcomeHasRow == \A t \in Threads :
    up /\ step[t] = "welcome" /\ form[t].name \notin unsaved
      => \E i \in DOMAIN table : table[i] = form[t]

(* A registration is for good and for one: whatever the workers, failing   *)
(* queries and restarts do, a name has one row, which is the one its owner *)
(* was told of, and the map the log-in looks at agrees with it - unless    *)
(* two registrations of the name overlapped (raced), which line 463, the   *)
(* search outside m_lock, lets happen.                                     *)
RegisteredForGood == OneRow /\ ToldIsRow /\ MapAgrees /\ WelcomeHasRow

(* A thread that waits for a connection gets one, unless the process ends  *)
(* or a front() of the empty list has taken it down.                       *)
WaiterServed ==
    \A t \in Threads :
        pc[t] = "reserve" ~> \/ pc[t] = "using" \/ ~up
                             \/ \E u \in Threads : pc[u] = "undefined"
=============================================================================
