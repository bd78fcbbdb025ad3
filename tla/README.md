# A verification project for Giles_WebServer

Giles_WebServer is a small HTTP server in C++: one thread runs an epoll loop,
a pool of worker threads handles requests, a list of timers closes idle
connections, a pool of MySQL handles is shared by the workers, and a background
thread writes the log. The modules in this directory model those parts, TLC
checks them on small instances, and TLAPS proves what matters most for every
value of the constants.

## 1. The system

### Components, their state and operations

| component | source | state | operations |
|---|---|---|---|
| event loop `WebServer` | `Server/webserver.cpp`, `Timer/timer.cpp:155-223` | epoll interest list, `users[]`, `users_timer[]`, signal pipe, `timeout` | `eventLoop`, `dealclinetdata`, `dealwithsignal`, `dealwithread`, `dealwithwrite`, `timer`, `adjust_timer`, `deal_timer`, `timer_handler`, `cb_func` |
| connection slot `http_conn` | `HttpConn/http_conn.cpp` | `m_sockfd`, read and write buffers, parser state, `improv`, `timer_flag`, `m_state`, the static `m_user_count` | `init`, `read_once`, `process`, `write`, `close_conn`, the HTTP parser and response builder |
| user table | `http_conn.cpp:22-52,424-492` | the map `users`, `m_lock`, MySQL's table `user` | `initmysql_result`, login and registration in `do_request` |
| worker pool `threadpool` | `ConnPool/threadpool.hpp`, `Lock/locker.hpp` | `m_workqueue`, `m_queuelocker`, `m_queuestat` | `append`, `append_p`, `run` |
| connection pool | `ConnPool/sql_connection_pool.cpp` | `connList`, `m_FreeConn`, `m_CurConn`, `reserve`, `lock` | `init`, `GetConnection`, `ReleaseConnection` (through `connectionRAII`), `DestroyPool` |
| timer list `sort_timer_lst` | `Timer/timer.cpp:1-153` | doubly linked list of `util_timer` | `add_timer`, `adjust_timer`, `del_timer`, `tick` |
| log `ring_log` | `Log/log.cpp`, `Log/log.hpp` | ring of buffers, `_curr_buf`, `_prst_buf`, `_lst_lts`, the date `_tm`, `_fp`, `_log_cnt` | `init_path`, `try_append`, `persist`, `decis_file`, `get_curr_time` |
| dynamic pool | `ThreadPool/ccthreadPool.cpp` | task queue, thread counts, `m_shutdown` | `addTask`, `worker`, `manager`; its own test program, not linked into the server |
| start-up | `main.cpp`, `config.cpp` | - | argument parsing, construction |

### How they interact

* A connection slot is its descriptor number. `users[fd]` and
  `users_timer[fd]` are reused by whichever client `accept` gives the number to
  next; queue, workers and pending events refer to the slot, never to the client.
* Proactor (`m_actormodel` 0): main reads and writes, workers only parse.
  Reactor (1): main puts the slot into the queue and *busy-waits* on
  `users[fd].improv`, which a worker sets.
* Workers and main share the slot without a lock. What keeps them apart is
  `EPOLLONESHOT`: a reported descriptor is disarmed until `modfd` arms it again.
* A connection can be closed by main (hang-up, failed read or write, expired
  timer - all of them delete the timer) or by a worker (`process` ->
  `close_conn`, which does not).
* SIGALRM writes to a pipe that epoll watches; main sets `timeout` and runs
  `tick` after the whole batch of events; only `timer_handler` calls `alarm`
  again. The signal can also interrupt a worker in `sem_wait`.
* A worker holds a MySQL handle while it processes a request, and uses it for
  the INSERT of a registration; all workers share the map `users`.
* Every thread logs.

### What is hard here

Descriptor reuse against late workers, late events and left-over timers; flags
shared without synchronisation (`improv`, `timer_flag`, `m_user_count`,
`_lst_lts`); queues at their limit whose refusal is ignored; semaphores whose
wait is interrupted; a busy-wait; a pointer (`users_timer[fd].timer`) that is
never cleared; the special cases of a hand-made list; requests and answers cut
anywhere by `recv` and `writev`; a search of the map outside its lock; an INSERT
that fails, or whose process ends; a date stored without a lock that decides
which file is opened and emptied; a manager that acts on old numbers.
`PROJECT.json` lists each at its line, with the properties that cover it or the
reason none does.

### What makes each part correct

* event loop: handlers only touch live timers; a timer is deleted once; a slot
  is in one place at a time; no client is sent another's answer; a lease is
  respected; every connection is reaped in the end; the busy-wait ends.
* connection slot: a request is understood as it was sent wherever it was cut,
  and nothing of an earlier request or client is left in it; the bytes of an
  answer go out once and in order; files are unmapped; every request is
  answered or its connection closed.
* user table: a name has one row, the one its owner was told of, and the map
  agrees with it, also after a restart.
* worker pool: mutual exclusion, no `front()` of an empty list, bounded, FIFO,
  nothing accepted is stranded.
* connection pool: a handle has one user, none is lost, counters agree.
* timer list: well linked, ascending, and the set of timers main takes it for.
* log: files and ring together are the lines in order, whatever is renamed or
  cannot be opened; lines are given up only at the memory limit; everything is
  written.
* dynamic pool: the numbers the manager decides by are right, a task is begun
  once, all are begun (also when the pool is destroyed, say the comments), the
  destructor ends.

## 2. Modules

| module | models | proofs |
|---|---|---|
| `WebServer` | the event loop with slots, workers, timers (as a set), clients and time | `WebServerProofs` |
| `WorkQueue` | `threadpool::append`, `run` with `locker` and `sem`, a statement per step | `WorkQueueProofs` |
| `RequestFifo` | what the pool promises: a bounded FIFO | refined by `WorkQueue` (proved) |
| `HttpConn` | one slot from `read_once` through the parser to `write` | `HttpConnProofs` |
| `SqlPool` | `connection_pool`, a statement per step | `SqlPoolProofs` |
| `Registration` | login, registration and restarts; extends `SqlPool` | `RegistrationProofs` |
| `TimerList` | `sort_timer_lst`, pointer by pointer | `TimerListProofs` |
| `TimerSet` | what the event loop expects of it: a set of timers | refined by `TimerList` (proved) |
| `RingLog` | `try_append` and `persist` | `LogProofs` |
| `LogFiles` | `decis_file`, the date, `init_path`; extends `RingLog` | `LogProofs` |
| `DynPool` | `ccthreadPool` | `DynPoolProofs` |
| `MC*` | instances for TLC (symmetry sets) | |

Composition: `WebServer` contains the queue as the atomic FIFO that `WorkQueue`
implements, and the timers as the set that `TimerList` implements; conversely
`TimerList` lets its callers adjust and delete only timers that are in the list,
which is what `TimerAlive` and `DeletesLiveTimer` of `WebServer` say.
`WebServer` and `HttpConn` divide the slot between them: to `WebServer` a call of
`process` or `write` has an outcome, to `HttpConn` the calls happen whenever the
descriptor is armed, and what they do to the buffers is the question.
`Registration` contains every step of `SqlPool`: a worker goes through
`do_request` between `GetConnection` and `ReleaseConnection`. `LogFiles` contains
every step of `RingLog`.

### WebServer

State follows the code: `m_sockfd`, `improv`, `timer_flag`, `m_state`,
`m_user_count` are the members of that name. `sock[fd]` is the client a
descriptor belongs to, `ep[fd]` its epoll interest (`off`: disarmed by
EPOLLONESHOT), `rbuf`/`resp` whose bytes are in the slot's buffers, `tptr[fd]`
`users_timer[fd].timer`, `lst` the timers in the list, `tfd` the slot a timer's
`user_data` points to, `left` the time to its `expire`. A client identity also
names the `util_timer` made for it. `mpc` and `wpc` are the places of main and
of each worker; `ev` is the rest of the batch `epoll_wait` returned.

One action is one stretch of a handler in which no other thread can change what
it reads: `m_user_count++` and `--` are a load and a store, `improv = 1` and
`timer_flag = 1` are two steps, `close_conn` is close, then `m_sockfd = -1`,
then the count, then the final `modfd`. Events of a batch are handled in any
order, `tick` handles the timers that were due at its start in any order.

Abstractions: a request is in pieces (`Send`); `process()` has the outcomes
`more` (NO_REQUEST), `reply` and `fail` (`process_write` returned false), any of
them for a non-empty buffer; an answer takes 1..`Chunks` calls of `writev`;
`ReadOk`/`ReadFails` allow what either trigger mode of a connection allows.

`reused[fd]` is a history variable: the slot was given to a new client while a
worker, the queue or a pending event still referred to it (a lease that ran out
during a request). What the code guarantees about owners and answers is stated
for slots to which that has not happened.

### HttpConn

A symbol stands for the text of a line, for CR, for LF or for a part of a body;
`conn` holds the members `init()` clears, with the buffer indices of the code
counting symbols. `Reads` takes any number of symbols `recv` may return; each
action of `process_read` is one turn of its loop, with `parse_line`'s search
(`LineEnd`, `Ended`, `Unended`: a CR at the end of what is there, a LF that
comes later, a CR or LF alone) inside it. `resp` holds `bytes_to_send`,
`bytes_have_send` and the two `iovec`s with offsets and lengths; `Writev` sends
any number of bytes and updates them as the code does (`Advanced`).

What the code does wrong is in the model and excepted by name in the properties:
a body that is not there when the header ends (`split`; `http_body` shows that
it is never complete), a request sent before the last was answered
(`pipelined`; `init()` throws it away), two writes that end within the header
(`inHeader`), an answer cut off with its file still mapped (`cutOff`).
`ParsedAsSent` compares the parser's members with what the request says to a
reader who has all of it (`Has`, `Body`); `Legible` names the requests of which
that can be asked, and TLC evaluates it for those of the run.

`open` and `mmap` are not looked at: a file that cannot be opened or mapped is
answered like one that can (`failed`), and the `writev` that should send it
fails (`Unreadable`). A mapping left by a client that was cut off is `stale`
once `stat` was asked for another file, because `munmap` takes its size from
`m_file_stat`: it may then stay in part, or reach behind its end. The first is in
the model (`unmap` may leave it), the second - what it does to mappings behind
it - is not.

Two writes that end within the header of an error page do worse than send wrong
bytes: `m_iv` is empty then while `bytes_to_send` is not 0, `writev` returns 0,
and the loop of `write()` never ends: the event loop's own in the proactor, a
worker's in the reactor, for whose `improv` the event loop then waits. The server
stands still. `Answered` excepts this (`Excused`).

### Registration

The query goes through the slot's member `mysql`, which `connectionRAII` in
`threadpool::run` sets to the handle it got; the model uses the worker's handle
itself, which is the same as long as the slot is one worker's (`OneOwner` of
`WebServer`). The branch of `do_request` for the two forms: `users.find` is
outside `m_lock`,
the INSERT and `users.insert` are inside it, and the answer depends on the
INSERT's result. The search is a data race with an insert under way: it finds
the name or misses it (`Finds`). A query may fail with or without the row being
there. `Stop` ends the process between any two steps, `Start` opens new handles
and reads the map from the table; `QueryNull` is the INSERT with the NULL handle
`GetConnection` may return. `raced` collects the names whose registrations
overlapped, `unsaved` those that are in the map although their INSERT failed;
the first may have two rows, the second may log in until the next start.

### WorkQueue, RequestFifo

Steps are the statements of `append` (main) and `run` (workers). `sem::wait` may
return early up to `MaxSignals` times: SIGALRM is handled without SA_RESTART and
`run` ignores the result. `IsFifo` is the refinement: the abstract queue is
`m_workqueue` at the moment of push and pop, requests that were accepted leave
it in order, each once.

### SqlPool

The statements of `GetConnection` and `ReleaseConnection`; the unlocked
`connList.size()` test is its own step. `init` may have opened any number of
handles from 1 on. After `front()` of an empty list (undefined behaviour) a
thread makes no further step.

### TimerList, TimerSet

`next` and `prev` are functions on addresses; a deleted timer keeps its stale
links and `new` may return any address that is not live. Only main uses the
list, so one member function is one step. `expire` is `time(NULL)` + a fixed
lease, as in `WebServer::timer`; the wall clock may be set back (`MaxBack`
seconds in all, `back` so far) - without that the first and the inner insertion
cases of `add_timer` are never reached by this server. `adjust_timer`'s comment
says it only handles a later expiry; `NearlyAscending` says exactly how much
order survives a clock that was set back, and `TimerSet`'s `Tick` how much a
tick may then overlook. With `back = 0` both are exact.

### RingLog

The ring is a sequence that starts at `_prst_buf`; lengths are counted in lines
(`Room` per buffer). A critical section is one step except the one that stores
and re-tests `_lst_lts`, which other threads clear without the mutex
(`ClearLts`). The condition variable is only an optimisation - the wait ends
within a second anyway - so waking is always possible. Whether a line is
suppressed after `_lst_lts` was set is left open: line 160 compares it with a
time that was read before. `spoiled` records the two things that can break the
ring: that race and a short `fwrite`.

### LogFiles

`files[d]` are the files of a day, `.log` first; `fp` is `_fp`, `_day` and
`_log_cnt`. `decis_file(opened)` is the function with `fopen`'s result as its
argument: first file, next day, rotation (`Shifted` is the loop of renames), or
`/dev/null` when `init_path` found the directory not writable. It runs in the
step that writes the buffer, because no other thread touches files; the date it
goes by was read with the buffer. `get_curr_time` stores any day: a delayed
thread stores the one it read long ago. When that is older than the day it
replaces, `decis_file` opens yesterday's file with mode "w" and empties it. A
rename that fails (`RenameFails`) has the same effect on a file of today: its
result is ignored and `fopen` empties the file that kept its name. `astray`
records both, and from there on, as after `spoiled`, the content of the files is
not followed.

### DynPool

`m_lock` is a `std::mutex`; what is done while it is held is one step. `m_shutdown`
is written without it, so a worker that has tested it and not yet waits is
`late`: it sleeps through the destructor's `notify_all` unless it is woken by
itself. Between its test of the queue and its `front()` a worker gives the lock
up; `undefined` is `front()` of the empty queue, and `raced` records that two
workers were between test and use at once. A task that was taken is in the
worker's `hand` until it begins, after the unlock, so that tasks of several
workers may begin in any order. The manager reads its three numbers in one step
and acts on them in later ones. `addTask` does nothing once `m_shutdown` is set;
the owner, which is in the destructor then, does not call it.

## 3. Runs

| run | instance | shows |
|---|---|---|
| `server_slots` | 1 descriptor, 2 clients, 2 workers, queue of 1, both models, both listen modes, all outcomes | types, `TimerAlive`, `DeletesLiveTimer`, `OneOwner`, `AnswersOwnClient`, `SpinServed` |
| `server_pair` | 2 descriptors, 2 clients, 1 worker, lease of 2, no worker close, level-triggered listening, fair | `UserCountExact`, `LeaseRespected`, `SpinTerminates`, `EveryConnReaped`, `BacklogDrains` |
| `server_stale_timer` (violation) | as `server_slots`, 1 worker | a timer left by `close_conn` closes the next client: `LeaseRespected` fails |
| `server_count` (violation) | same | `m_user_count` is decremented twice for one connection: `UserCountExact` fails |
| `work_queue` | 2 workers, 2 requests, capacity 2, 2 interrupted waits | `FrontNotEmpty`, `NoStranded`, `Taken`, refinement `IsFifo` |
| `sql_pool` | 2 threads, 1 or 2 handles, 1 interrupted wait, 2 registrations, 1 failing INSERT, 1 restart; a name that is registered and one that is not | types, `OneHolder`, `CountersExact`, `NoEmptyFront`, `EnoughForAll`, `RegisteredForGood`, `WaiterServed` |
| `http_conn` | 2 clients, 2 requests of 4 kinds in all pieces, answers in all pieces, both trigger modes | types, `ParsedAsSent`, `SentFaithful`, `MapsBounded`, `Answered` |
| `http_body` (violation) | same | a body that arrives in two pieces is never complete: `CompleteIsTaken` fails |
| `timer_list` | 4 addresses, times 0..3, setbacks of 2 in all | `WellLinked`, `NearlyAscending`, refinement `IsTimerSet` |
| `ring_log` | 2 threads, 5 lines, 2 buffers growing to 3, 2 days, a file per buffer, writable directory or not | `RingShape`, `LogKept`, `DropsOnlyAtLimit`, `EventuallyOnDisk` |
| `dyn_pool` | a pool of 1 worker and one of 1 to 3, 2 tasks | `CountsExact`, `BegunOnce`, `NoEmptyFront`, `TaskBegun`, `DestructorEnds` |
| `dyn_shutdown` (violation) | same | the destructor is done and a task was never begun: `ShutdownFinishesTasks` fails |

The four violation runs are disagreements between the code and what its
comments say; `PROJECT.json` quotes both ("findings"). `BacklogDrains` is about
level-triggered listening, the default: edge-triggered, the accept loop stops at
`MAX_FD` and what is left in the backlog causes no new edge. `UserCountExact`
says nothing of the lost update that two threads counting at once can cause
(`http_conn.cpp:131`): only a close by a worker makes two threads count, and with
one the count is wrong anyway. The type invariants of
`TimerList`, `RingLog` and `DynPool` are the first conjunct of `WellLinked`,
`RingShape` and `CountsExact`; mutual exclusion and the bound of `WorkQueue` and
`ReserveBacked` of `SqlPool` are proved and not run separately.

### Bounds, and why they are enough

* One descriptor and two clients is the smallest instance in which a slot is
  handed on, and with two workers both can refer to it; a second descriptor
  matters for counting and for leases of neighbours, hence `server_pair`.
  `MaxRequests = 1` makes the queue overflow. `MaxSteps` (pieces and hang-ups)
  is 3: a request, its rest or a second one, and a hang-up.
* Queue: two workers and two requests let one worker take what another was
  woken for; capacity 2 with `append` to a full queue; two interruptions.
* Connection pool and registration: two threads on one or two handles cover
  fewer, and as many, handles as threads; two registrations can be of one name
  or of two, overlap, and be cut by the restart.
* Connection slot: the requests are a page with keep-alive, a form with a body,
  one that cannot be understood and one with a LF alone; `BufSize` 13 holds the
  longest, not two of them. Header 3 and file 2 bytes leave room for two cuts in
  the header and one in the file.
* Timer list: four timers give head, two inner ones and tail; times 0..3 give
  four different expiries, and equal ones.
* Log: five lines fill three buffers of one line and overflow them twice; two
  days and a limit of one line per file give every order of a new day, a
  rotation and a failing `fopen`.
* Dynamic pool: two tasks make the manager create (`queue` 2, `live` 1) and then
  remove two threads; one task fewer never does.

Every bound is a constant of the specification and named in its comment.

### Fairness

`server_pair` assumes weak fairness of main, of every worker and of the
clock: threads are scheduled and time passes. Nothing is assumed of clients.
`work_queue` and `sql_pool` add strong fairness where a thread competes for a
mutex or a semaphore: glibc's do not starve a thread for ever under a fair
scheduler; `sql_pool` says so of every thread while the process is up, and
nothing of stops and starts. `http_conn` assumes weak fairness of the slot's own
steps, nothing of clients. `ring_log` assumes strong fairness of the background
thread at `_mutex`, and that opening the log file succeeds now and then.
`dyn_pool` assumes it of workers and manager, that tasks return, and that a
destructor once begun goes on. Deadlock is not checked where the system may
stop: after a `front()` of an empty list, when all clients have been served, and
when a pool has been destroyed.

## 4. Proofs

All proofs are of `Spec => []P` (or of a refinement), for any values the
`ASSUME`s of the modules allow: any number of workers, clients, descriptors,
handles, timers and lines, any requests, any limits. Every safety invariant a
passing run checks is a theorem, and so are both refinements. Each proof follows the same
pattern: an inductive invariant, an induction step with one case per action, and
the property as a consequence; what follows says which strengthening was needed.

* **WorkQueueProofs.** The inductive invariant is the type invariant, "who is
  inside holds the mutex", "a worker at `front` or `pop` sees a non-empty list"
  and the bound. The second is needed because the test and the access are
  separate steps. `NothingStranded` adds a count: the queue is never longer
  than the units of the semaphore plus the workers awake plus the post owed by
  main; interruptions only add awake workers. `ImplementsFifo` maps each step
  to a step of `RequestFifo` or a stutter.
* **SqlPoolProofs.** Invariant: types, mutex, "a thread between `front` and
  `pop` has the head of the list". `OneHolder` is inductive over it;
  `UnitsBacked` counts units of the semaphore and threads that may still pop
  against the list; `NobodySentAway` and `FrontOfSomething` use the spare
  handle a pool with a handle per thread always has. `CountersRight` needs the
  counters at every place of a critical section. These are about one life of
  the process (`SqlPool`'s `Spec`); the next module carries them over restarts.
* **RegistrationProofs.** `RegisteredOnce`: for a name whose registrations did
  not overlap, `Places` says what a thread knows of it at each place of
  `do_request` - between the search and the lock the name has no row, after the
  INSERT it has exactly the one just inserted - and `Alone` that no second
  thread is there. `MapAgrees` and `UsersHaveRows` tie the map to the table,
  with `unsaved` for the names whose INSERT failed. A restart keeps all of it
  because the map is read from the last row of each name. `PoolSurvives`:
  whatever a registration does between `GetConnection` and `ReleaseConnection`,
  and however often the process ends and starts, the invariants of
  `SqlPoolProofs` hold; `Gone` describes the pool of a process that is not
  there, `Fresh` the one `init` builds.
* **WebServerProofs.** `TimerAlive` is not inductive by itself. The invariant
  adds: an armed or reported descriptor is open (`InterestOpen`), a timer in
  the list belongs to a client that was accepted (`TimersAccepted`), what main
  is about to do at each of its places (`PlaceInv`: registering a new client's
  slot, closing, spinning, ticking after the whole batch), and the due timers
  are in the list. `SpinIsServed` needs where the request main waits for can be
  (`Turns`: queued, with a worker that will report, or reported).
  `OneOwnerHolds` is proved of `Owners`, which says the same without counting:
  of a slot's places - worker, queue, epoll, main's batch - no two are taken at
  once (`Alone`). `AnswersOwnClient` is inductive as it stands.
  `LeasesRespected` and `UserCountRight` assume that `process_write` never
  fails (`"fail" \notin Outcomes`): otherwise they are false, as
  `server_stale_timer` and `server_count` show. Then only main closes
  descriptors, and a listed timer is that of the client in its slot (`Steady`);
  `Counted` gives `m_user_count` in the middle of `++` and `--`.
* **HttpConnProofs.** `HInv` has the ranges of all members; what is mapped and
  where `m_file_address` points (`MapsOK`); and, while an answer is sent, where
  `m_iv` stands in it (`Aligned`: `iov_base` and `iov_len` are those of the first
  byte not sent, until two writes have ended in the header). `process_write`
  does not set `bytes_have_send`: that it is 0 whenever no answer is being sent
  is part of the invariant. Together they give
  `MembersInRange`, `MapsLeakOnlyOnCutOff` and `AnswerSentInOrder`.
  `UnderstoodAsSent` is for all sets of requests that are `Legible` - the
  statement has no meaning for a request with, say, "keep-alive" in its body.
  Its invariant `Understood` compares the parser with the request: what is
  behind `m_start_line` is the request's, in the buffer and then in the socket
  (`InBuffer`), what is before it has been understood (`Known`: method,
  keep-alive and length as far as the lines parsed say), and between two
  requests the slot is as `init()` leaves it. `InBuffer` also says that nothing
  between `m_start_line` and `m_checked_idx` is a CR or LF and that the symbol
  before is a NUL, which is why `parse_line` can take a LF that arrives alone
  together with the CR before it and never with an older one.
* **TimerListProofs.** The order of the list is a sequence that exists
  (`Listed`): `next`, `prev`, `head` and `tail` are its links, and it spans the
  live timers. Lemmas say what linking a timer in and out does to it (`Ins`,
  `Del`). For the order, `Bounded`: no timer expires later than a full lease
  from now, plus what the clock was set back. The refinement `ListIsSet` maps
  each operation to that of `TimerSet`; `tick` takes a prefix of the sequence.
* **LogProofs.** The shape of the ring needs that a thread at the re-test of
  `_lst_lts` holds the mutex and stands where `MoveOn` left it
  (`RetestAlone`), and that `_lst_lts` is only set after the limit was reached.
  `NoLineLost` is `order = file \o Rest`: what was written, followed by what
  the ring still holds from `_prst_buf` on, are the lines in order. `NoFileLost`
  does the same for the files of all days: `_log_cnt` counts the files of `_day`
  (one more may be there that is empty because it could not be opened) and no
  later day has any, so no rename overwrites lines and no `fopen` empties them.
  Both hold until `spoiled` or `astray`, which are the code's own flaws (a short
  write, the race on `_lst_lts`, a date that goes back, a failed rename).
* **DynPoolProofs.** The counters are compared with the cardinality of the
  workers' places, which changes by one with every step of a worker;
  `Seated` bounds the places by `m_maxNum`. `EachBegunOnce` states element by
  element where a task is: in the queue, in one hand, or begun. `CrashTakesTwo`
  needs that a worker alone between test and use, with `raced` not set, still
  has the task it saw; with two there, `front()` of an empty queue is reached.

Facts about data that need induction - the last row of a name, the walk along
the `next` pointers, the concatenation of the ring's buffers - are proved with
the well-foundedness of `<` on a set of numbers, because the induction theorems
of the library take an operator as a parameter.

Only model-checked: liveness (`SpinTerminates`, `EveryConnReaped`,
`BacklogDrains`, `Taken`, `WaiterServed`, `Answered`, `EventuallyOnDisk`, `TaskBegun`,
`DestructorEnds`), which needs fairness and is out of the prover's reach.

## 5. What is not modelled

* SIGTERM while the server runs: the destructor of `WebServer` frees `users` and
  `users_timer` while detached workers still use them, which has no outcome a
  model could bound. What the end of the process leaves of the database and the
  map is in `Registration`.
* EINTR of `epoll_wait`, failing system calls of the set-up (they assert).
* Other descriptors of the process (files, MySQL, log) drawing numbers from
  the same space as clients.
* The text of requests, answers, lines and time stamps, and the lengths of log
  lines (`log.cpp:176` adds what `vsnprintf` would have written).
* The date as more than a day: `decis_file` compares the day of the month only.
* Which page a request names: `do_request` is a choice of `stat`'s outcomes in
  `HttpConn` and the two forms in `Registration`.
* A negative `Content-length`, and the '\0' that `parse_content` writes behind
  the body: in a full buffer it is the byte behind the bytes read, which is 0
  already.
* What `munmap` of too large a size does to other mappings (`HttpConn` above).
* The class `TaskQueue` beside `ccthreadPool` (unused), start-up, pages, the
  vendored benchmark.

## 6. Plan

Done: all modules of section 2 and the eight proof modules. Worth adding:

1. `CompleteIsTaken` for requests without a body: `Understood` already says
   where the parser is when the descriptor is armed.
2. The step properties that follow from the invariants: what a tick or a
   rotation never does, for every instance.
3. A refinement of the slot's life in `WebServer` by `HttpConn`'s handlers.
