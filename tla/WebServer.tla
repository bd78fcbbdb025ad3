----------------------------- MODULE WebServer -----------------------------
(***************************************************************************)
(* The event loop of Server/webserver.cpp with the parts of http_conn,     *)
(* Utils/sort_timer_lst and threadpool::run that share state with it:      *)
(*                                                                         *)
(*   main     one thread: epoll_wait, then one handler per reported        *)
(*            event, then the expired timers (eventLoop);                  *)
(*   workers  threadpool<http_conn>::run: take a connection slot from the  *)
(*            queue, read / parse / answer it, re-arm its descriptor;      *)
(*   clients  connect, send request pieces and hang up when they like;     *)
(*   time     the lease of every timer and the alarm run down.             *)
(*                                                                         *)
(* A connection slot is its descriptor: users[fd] and users_timer[fd] are  *)
(* reused by whichever client accept() gives that number next.  A member   *)
(* of Conns is one client connection; it is accepted at most once, so it   *)
(* also names the util_timer made for it.  The request queue is the atomic *)
(* FIFO that module WorkQueue shows threadpool to be.                      *)
(***************************************************************************)
EXTENDS Integers, FiniteSets, Sequences

CONSTANTS
    Fds,          \* descriptor numbers clients can get (indices of users[])
    NoFd,         \* -1
    Conns,        \* client connections, one identity each
    NoConn,
    NoResp,       \* bytes_to_send = 0
    Workers,      \* threads of the pool
    MaxUsers,     \* MAX_FD
    MaxRequests,  \* m_max_requests
    Timeslot,     \* TIMESLOT, the period of SIGALRM
    Lease,        \* 3 * TIMESLOT, what adjust_timer grants
    Chunks,       \* bound: writev calls the longest answer needs
    MaxSteps,     \* bound: pieces sent and hang-ups, of all clients together
    Outcomes,     \* what process() can do with the bytes it was given
    ActorModels,  \* the concurrency models the server may be started in
    ListenModes   \* the trigger modes of its listen socket

ASSUME ServerAssumption ==
    /\ NoFd \notin Fds
    /\ NoConn \notin Conns
    /\ NoResp \notin [src : Conns, left : 1..Chunks, keep : BOOLEAN]
    /\ {MaxUsers, MaxRequests, Timeslot, Lease, Chunks} \subseteq Nat \ {0}
    /\ MaxSteps \in Nat
    /\ Outcomes \subseteq {"more", "reply", "fail"}
    /\ ActorModels \subseteq {"proactor", "reactor"}
    /\ ListenModes \subseteq {"LT", "ET"}

VARIABLES
    \* configuration, fixed at start (m_actormodel, m_LISTENTrigmode)
    m_actormodel, m_LISTENTrigmode,
    \* the kernel's side: sockets, epoll interest list, listen queue, data
    sock, ep, fresh, backlog, edge, inbox, hup, steps,
    \* users[fd]
    m_sockfd, rbuf, resp, improv, timer_flag, m_state, m_user_count,
    \* users_timer[fd].timer, the util_timers in m_timer_lst, the signal pipe
    tptr, lst, tfd, left, alarm, pipe,
    \* the main thread: its program counter, the batch of reported events
    mpc, mfd, mtimer, mcnt, mback, ev, evListen, evSignal, timeout, due,
    \* the pool: m_workqueue and each worker's program counter and locals
    m_workqueue, wpc, wfd, wcnt,
    \* history: slot was handed to a new client while still referred to
    reused

config   == <<m_actormodel, m_LISTENTrigmode>>
arrivals == <<fresh, backlog, edge, steps>>
net      == <<sock, ep, inbox, hup>>
buffers  == <<rbuf, resp, timer_flag, m_state>>
conn     == <<m_sockfd, buffers, improv>>
timers   == <<tptr, lst, tfd, left>>
signals  == <<alarm, pipe>>
batch    == <<ev, evListen, evSignal>>
frame    == <<mfd, mtimer, mcnt, mback>>
main     == <<mpc, frame, batch, timeout, due>>
workers  == <<wpc, wfd, wcnt>>

vars == <<config, arrivals, net, conn, m_user_count, timers, signals, main,
          m_workqueue, workers, reused>>

Kinds   == {"none", "in", "out", "hup"}
MainPCs == {"wait", "batch", "accept", "register", "close", "spin", "tick"}
WorkPCs == {"idle", "read", "write", "flag", "parse", "rearm_in",
            "rearm_out", "unset", "store"}
Response == [src : Conns, left : 1..Chunks, keep : BOOLEAN]

Open(fd) == sock[fd] # NoConn
InQueue(fd) == \E i \in 1..Len(m_workqueue) : m_workqueue[i] = fd
InWorker(fd) == {w \in Workers : wpc[w] # "idle" /\ wfd[w] = fd}

(* The slot is still referred to by a worker, the queue or a pending event. *)
Referenced(fd) == InQueue(fd) \/ InWorker(fd) # {} \/ ev[fd] # "none"

Init ==
    /\ m_actormodel \in ActorModels
    /\ m_LISTENTrigmode \in ListenModes
    /\ sock = [fd \in Fds |-> NoConn]
    /\ ep = [fd \in Fds |-> "none"]
    /\ fresh = Conns /\ backlog = {} /\ edge = FALSE
    /\ inbox = [c \in Conns |-> FALSE] /\ hup = [c \in Conns |-> FALSE]
    /\ steps = 0
    /\ m_sockfd = [fd \in Fds |-> NoFd]
    /\ rbuf = [fd \in Fds |-> NoConn] /\ resp = [fd \in Fds |-> NoResp]
    /\ improv = [fd \in Fds |-> 0] /\ timer_flag = [fd \in Fds |-> 0]
    /\ m_state = [fd \in Fds |-> 0]
    /\ m_user_count = 0
    /\ tptr = [fd \in Fds |-> NoConn] /\ lst = {}
    /\ tfd = [c \in Conns |-> NoFd] /\ left = [c \in Conns |-> 0]
    /\ alarm = Timeslot /\ pipe = FALSE
    /\ mpc = "wait" /\ mfd = NoFd /\ mtimer = NoConn /\ mcnt = 0
    /\ mback = "wait"
    /\ ev = [fd \in Fds |-> "none"] /\ evListen = FALSE /\ evSignal = FALSE
    /\ timeout = FALSE /\ due = {}
    /\ m_workqueue = << >>
    /\ wpc = [w \in Workers |-> "idle"] /\ wfd = [w \in Workers |-> NoFd]
    /\ wcnt = [w \in Workers |-> 0]
    /\ reused = [fd \in Fds |-> FALSE]

-----------------------------------------------------------------------------
(* What http_conn and the kernel do for both kinds of thread.              *)

(* modfd: EPOLL_CTL_MOD with EPOLLONESHOT on the slot's m_sockfd.  On a     *)
(* descriptor that is not open (or -1) the call fails and is ignored.      *)
modfd(fd, interest) ==
    ep' = IF m_sockfd[fd] = fd /\ Open(fd)
          THEN [ep EXCEPT ![fd] = interest] ELSE ep

(* close(fd): the socket, its epoll registration and its unread data go.   *)
CloseFd(fd) ==
    /\ sock' = [sock EXCEPT ![fd] = NoConn]
    /\ ep' = [ep EXCEPT ![fd] = "none"]
    /\ inbox' = [c \in Conns |-> inbox[c] /\ c # sock[fd]]
    /\ hup' = [c \in Conns |-> hup[c] /\ c # sock[fd]]

(* Mutant: init() forgets bytes_to_send.                                   *)
ClearBuffersNotAnswer(fd) ==
    /\ rbuf' = [rbuf EXCEPT ![fd] = NoConn]
    /\ m_state' = [m_state EXCEPT ![fd] = 0]
    /\ timer_flag' = [timer_flag EXCEPT ![fd] = 0]
    /\ UNCHANGED resp

(* http_conn::init(): the buffers and flags of the slot are cleared.       *)
ClearBuffers(fd) ==
    /\ rbuf' = [rbuf EXCEPT ![fd] = NoConn]
    /\ resp' = [resp EXCEPT ![fd] = NoResp]
    /\ m_state' = [m_state EXCEPT ![fd] = 0]
    /\ timer_flag' = [timer_flag EXCEPT ![fd] = 0]

Readable(fd) == m_sockfd[fd] = fd /\ Open(fd)

(* read_once() returning true: the waiting piece moves to m_read_buf.  In  *)
(* ET mode EAGAIN ends the loop with true, also when nothing was there.    *)
ReadOk(fd) ==
    /\ Readable(fd)
    /\ inbox[sock[fd]] \/ ~hup[sock[fd]]
    /\ inbox' = [inbox EXCEPT ![sock[fd]] = FALSE]
    /\ rbuf' = IF inbox[sock[fd]] THEN [rbuf EXCEPT ![fd] = sock[fd]] ELSE rbuf

(* read_once() returning false: bad descriptor, end of stream, nothing to  *)
(* read in LT mode, or m_read_buf already full.                            *)
ReadFails(fd) ==
    \/ ~Readable(fd)
    \/ Readable(fd) /\ (hup[sock[fd]] \/ ~inbox[sock[fd]])
    \/ rbuf[fd] # NoConn

(* write(): what it returns is the second argument.  init() inside it      *)
(* clears improv too, which the caller's own assignment follows.           *)
WriteNothing(fd) ==                      \* bytes_to_send = 0
    /\ resp[fd] = NoResp
    /\ modfd(fd, "in")
    /\ ClearBuffers(fd)

WriteAgain(fd) ==                        \* EAGAIN after some progress
    /\ resp[fd] # NoResp /\ Readable(fd)
    /\ \E n \in 1..Chunks :
         /\ n < resp[fd].left
         /\ resp' = [resp EXCEPT ![fd].left = n]
    /\ modfd(fd, "out")
    /\ UNCHANGED <<rbuf, m_state, timer_flag>>

WriteKept(fd) ==                         \* all sent, keep-alive
    /\ resp[fd] # NoResp /\ Readable(fd) /\ resp[fd].keep
    /\ modfd(fd, "in")
    /\ ClearBuffers(fd)

WriteOk(fd) == WriteNothing(fd) \/ WriteAgain(fd) \/ WriteKept(fd)

WriteClosing(fd) ==                      \* all sent, connection: close
    /\ resp[fd] # NoResp /\ Readable(fd) /\ ~resp[fd].keep
    /\ modfd(fd, "in")
    /\ resp' = [resp EXCEPT ![fd] = NoResp]
    /\ UNCHANGED <<rbuf, m_state, timer_flag>>

WriteError(fd) ==                        \* writev fails
    /\ resp[fd] # NoResp
    /\ Readable(fd) => hup[sock[fd]]
    /\ UNCHANGED <<ep, resp, rbuf, m_state, timer_flag>>

WriteFails(fd) == WriteClosing(fd) \/ WriteError(fd)

(* Mutant: one place of the queue is never used.                           *)
HasRoomLess == Len(m_workqueue) < MaxRequests - 1

(* threadpool::append / append_p: the caller ignores the result, so a full *)
(* queue drops the request.                                                *)
HasRoom == Len(m_workqueue) < MaxRequests

append(fd) ==
    m_workqueue' = IF HasRoom THEN Append(m_workqueue, fd) ELSE m_workqueue

(* Mutant: the lease is added to what is left.                             *)
adjust_timer_adds(fd) ==
    left' = [left EXCEPT ![tptr[fd]] = left[tptr[fd]] + Lease]

(* adjust_timer: the timer is the one users_timer[fd] points to.           *)
adjust_timer(fd) == left' = [left EXCEPT ![tptr[fd]] = Lease]

-----------------------------------------------------------------------------
(* The main thread.                                                        *)
ByMain == UNCHANGED <<config, fresh, steps, workers>>

(* Mutant: the listen socket is edge-triggered whatever its handler.       *)
ListenReadyEdge == edge

(* The listen socket is reported while clients wait, or once per arrival.  *)
ListenReady == IF m_LISTENTrigmode = "LT" THEN backlog # {} ELSE edge

(* What epoll reports for a slot; the handlers test the hang-up bits first.*)
(* `writable` are the sockets whose send buffer has room.                  *)
Ready(fd, writable) ==
    CASE ep[fd] \notin {"in", "out"}            -> "none"
      [] ep[fd] \in {"in", "out"} /\ hup[sock[fd]] -> "hup"
      [] ep[fd] = "in" /\ ~hup[sock[fd]]  ->
            IF inbox[sock[fd]] THEN "in" ELSE "none"
      [] ep[fd] = "out" /\ ~hup[sock[fd]] ->
            IF fd \in writable THEN "out" ELSE "none"

(* Mutant: the descriptor was added without EPOLLONESHOT.                  *)
NotDisarmed(report) == ep' = ep

(* EPOLLONESHOT: what is reported is disarmed until the next modfd.        *)
Disarm(report) ==
    ep' = [fd \in Fds |-> IF report[fd] = "none" THEN ep[fd] ELSE "off"]

(* epoll_wait: everything ready is reported and disarmed; the listen edge  *)
(* is consumed, the pipe is level-triggered.                               *)
EpollWait ==
    /\ mpc = "wait"
    /\ \E writable \in SUBSET {fd \in Fds : ep[fd] = "out"} :
         LET report == [fd \in Fds |-> Ready(fd, writable)] IN
         /\ ListenReady \/ pipe \/ \E fd \in Fds : report[fd] # "none"
         /\ ev' = report
         /\ Disarm(report)
    /\ evListen' = ListenReady /\ evSignal' = pipe
    /\ edge' = FALSE
    /\ mpc' = "batch"
    /\ UNCHANGED <<sock, backlog, inbox, hup, conn, m_user_count, timers, signals,
                   frame, timeout, due, m_workqueue, reused>>
    /\ ByMain

(* Every reported event has been handled.                                  *)
BatchEmpty ==
    /\ \A fd \in Fds : ev[fd] = "none"
    /\ ~evListen /\ ~evSignal

(* The end of the for loop: timers are looked at only now.                 *)
BatchDone ==
    /\ mpc = "batch" /\ BatchEmpty
    /\ mpc' = IF timeout THEN "tick" ELSE "wait"
    /\ due' = IF timeout THEN {c \in lst : left[c] = 0} ELSE {}
    /\ UNCHANGED <<backlog, edge, net, conn, m_user_count, timers, signals, frame,
                   batch, timeout, m_workqueue, reused>>
    /\ ByMain

(* dealclinetdata: one accept() when the listen socket is level-triggered, *)
(* accept() until it fails or the server is full when edge-triggered.      *)
DealClientData ==
    /\ mpc = "batch" /\ evListen
    /\ evListen' = FALSE
    /\ mpc' = "accept"
    /\ UNCHANGED <<backlog, edge, net, conn, m_user_count, timers, signals, frame,
                   ev, evSignal, timeout, due, m_workqueue, reused>>
    /\ ByMain

(* accept() returns -1: nobody is waiting or no descriptor is left.        *)
AcceptFails ==
    /\ mpc = "accept"
    /\ backlog = {} \/ \A fd \in Fds : Open(fd)
    /\ mpc' = "batch"
    /\ UNCHANGED <<backlog, edge, net, conn, m_user_count, timers, signals, frame,
                   batch, timeout, due, m_workqueue, reused>>
    /\ ByMain

(* m_user_count >= MAX_FD: show_error() steps a line and closes.           *)
RefuseConn(c) ==
    /\ mpc = "accept" /\ c \in backlog
    /\ \E fd \in Fds : ~Open(fd)
    /\ m_user_count >= MaxUsers
    /\ backlog' = backlog \ {c}
    /\ inbox' = [inbox EXCEPT ![c] = FALSE] /\ hup' = [hup EXCEPT ![c] = FALSE]
    /\ mpc' = "batch"
    /\ UNCHANGED <<edge, sock, ep, conn, m_user_count, timers, signals, frame, batch,
                   timeout, due, m_workqueue, reused>>
    /\ ByMain

(* accept() and http_conn::init() up to the load of m_user_count++.        *)
AcceptConn(c, fd) ==
    /\ mpc = "accept" /\ c \in backlog /\ ~Open(fd)
    /\ m_user_count < MaxUsers
    /\ backlog' = backlog \ {c}
    /\ sock' = [sock EXCEPT ![fd] = c]
    /\ m_sockfd' = [m_sockfd EXCEPT ![fd] = fd]
    /\ ep' = [ep EXCEPT ![fd] = "in"]
    /\ mcnt' = m_user_count
    /\ mfd' = fd /\ mtimer' = c
    /\ reused' = [reused EXCEPT ![fd] = Referenced(fd)]
    /\ mpc' = "register"
    /\ UNCHANGED <<edge, inbox, hup, buffers, improv, m_user_count, timers, signals,
                   mback, batch, timeout, due, m_workqueue>>
    /\ ByMain

(* Mutant: users_timer[connfd].timer is not set.                           *)
AddTimerUnlinked(fd, timer) ==
    /\ lst' = lst \cup {timer}
    /\ tfd' = [tfd EXCEPT ![timer] = fd]
    /\ left' = [left EXCEPT ![timer] = Lease]
    /\ UNCHANGED tptr

(* WebServer::timer(): a new timer for the slot, with a full lease.        *)
AddTimer(fd, timer) ==
    /\ tptr' = [tptr EXCEPT ![fd] = timer]
    /\ lst' = lst \cup {timer}
    /\ tfd' = [tfd EXCEPT ![timer] = fd]
    /\ left' = [left EXCEPT ![timer] = Lease]

(* The store of m_user_count++, init(), and WebServer::timer().            *)
RegisterConn ==
    /\ mpc = "register"
    /\ m_user_count' = mcnt + 1
    /\ ClearBuffers(mfd)
    /\ improv' = [improv EXCEPT ![mfd] = 0]
    /\ AddTimer(mfd, mtimer)
    /\ mpc' = IF m_LISTENTrigmode = "LT" THEN "batch" ELSE "accept"
    /\ mfd' = NoFd /\ mtimer' = NoConn /\ mcnt' = 0
    /\ UNCHANGED <<backlog, edge, net, m_sockfd, signals, mback, batch, timeout, due,
                   m_workqueue, reused>>
    /\ ByMain

(* cb_func up to the load of m_user_count--: it closes the descriptor the  *)
(* timer was made for, whoever owns that number now.                       *)
CbFunc(fd, timer, back) ==
    /\ CloseFd(fd)
    /\ mcnt' = m_user_count
    /\ mfd' = fd /\ mtimer' = timer /\ mback' = back
    /\ mpc' = "close"

(* Mutant: the timer is left in the list.                                  *)
DelTimerForgotten(timer) == UNCHANGED <<lst, tfd, left>>

(* sort_timer_lst::del_timer, and what tick does with the head.            *)
DelTimer(timer) ==
    /\ lst' = lst \ {timer}
    /\ tfd' = [tfd EXCEPT ![timer] = NoFd]
    /\ left' = [left EXCEPT ![timer] = 0]

(* The store of m_user_count-- and the deletion of the timer.              *)
TimerRemoved ==
    /\ mpc = "close"
    /\ m_user_count' = mcnt - 1
    /\ DelTimer(mtimer)
    /\ mfd' = NoFd /\ mtimer' = NoConn /\ mcnt' = 0 /\ mback' = "wait"
    /\ UNCHANGED <<backlog, edge, net, m_sockfd, rbuf, resp, m_state, tptr, signals,
                   batch, timeout, m_workqueue, reused>>
    /\ ByMain

(* deal_timer returns to the batch.                                        *)
DealTimerDone ==
    /\ mback = "batch"
    /\ TimerRemoved
    /\ mpc' = "batch"
    /\ UNCHANGED <<improv, timer_flag, due>>

(* deal_timer returns to the reactor's spin, which clears both flags.      *)
SpinCloseDone ==
    /\ mback = "spin"
    /\ TimerRemoved
    /\ timer_flag' = [timer_flag EXCEPT ![mfd] = 0]
    /\ improv' = [improv EXCEPT ![mfd] = 0]
    /\ mpc' = "batch"
    /\ UNCHANGED due

(* One event of the batch, taken in any order.                             *)
Handle(fd, kinds) ==
    /\ mpc = "batch" /\ ev[fd] \in kinds
    /\ ev' = [ev EXCEPT ![fd] = "none"]
    /\ UNCHANGED <<backlog, edge, m_user_count, tptr, lst, tfd, signals,
                   evListen, evSignal, timeout, due, reused>>

(* The peer closed: EPOLLRDHUP | EPOLLHUP | EPOLLERR.                      *)
DealHup(fd) ==
    /\ Handle(fd, {"hup"})
    /\ CbFunc(fd, tptr[fd], "batch")
    /\ UNCHANGED <<conn, left, m_workqueue>>
    /\ ByMain

DealWithSignal ==
    /\ mpc = "batch" /\ evSignal
    /\ evSignal' = FALSE
    /\ pipe' = FALSE
    /\ timeout' = TRUE
    /\ UNCHANGED <<backlog, edge, net, conn, m_user_count, timers, alarm, mpc, frame,
                   ev, evListen, due, m_workqueue, reused>>
    /\ ByMain

(* dealwithread, proactor: read in the main thread, then queue.            *)
ReadAndQueue(fd) ==
    /\ m_actormodel = "proactor"
    /\ Handle(fd, {"in"})
    /\ ReadOk(fd)
    /\ append(fd)
    /\ adjust_timer(fd)
    /\ UNCHANGED <<sock, ep, hup, m_sockfd, resp, improv, timer_flag,
                   m_state, mpc, frame>>
    /\ ByMain

ReadAndClose(fd) ==
    /\ m_actormodel = "proactor"
    /\ Handle(fd, {"in"})
    /\ ReadFails(fd)
    /\ CbFunc(fd, tptr[fd], "batch")
    /\ UNCHANGED <<conn, left, m_workqueue>>
    /\ ByMain

(* dealwithwrite, proactor: write in the main thread.                      *)
WriteAndAdjust(fd) ==
    /\ m_actormodel = "proactor"
    /\ Handle(fd, {"out"})
    /\ WriteOk(fd)
    /\ adjust_timer(fd)
    /\ UNCHANGED <<sock, inbox, hup, m_sockfd, improv, mpc, frame,
                   m_workqueue>>
    /\ ByMain

(* The modfd of a finished answer is undone by the close that follows it   *)
(* in the same thread, so only the close is left to see.                   *)
WriteAndClose(fd) ==
    /\ m_actormodel = "proactor"
    /\ Handle(fd, {"out"})
    /\ resp[fd] # NoResp
    /\ resp' = IF Readable(fd) /\ ~resp[fd].keep
               THEN [resp EXCEPT ![fd] = NoResp] ELSE resp
    /\ Readable(fd) => ~resp[fd].keep \/ hup[sock[fd]]
    /\ CbFunc(fd, tptr[fd], "batch")
    /\ UNCHANGED <<m_sockfd, rbuf, improv, timer_flag, m_state, left, m_workqueue>>
    /\ ByMain

(* dealwithread / dealwithwrite, reactor: extend the lease, queue the slot *)
(* with m_state, then spin until a worker has done the I/O.                *)
QueueAndSpin(fd) ==
    /\ m_actormodel = "reactor"
    /\ Handle(fd, {"in", "out"})
    /\ adjust_timer(fd)
    /\ append(fd)
    /\ m_state' = IF HasRoom
                  THEN [m_state EXCEPT ![fd] = IF ev[fd] = "in" THEN 0 ELSE 1]
                  ELSE m_state
    /\ mfd' = fd /\ mpc' = "spin"
    /\ UNCHANGED <<net, m_sockfd, rbuf, resp, improv, timer_flag,
                   mtimer, mcnt, mback>>
    /\ ByMain

(* The spin sees improv = 1 and timer_flag = 0: the batch goes on.         *)
SpinEnds ==
    /\ mpc = "spin" /\ improv[mfd] = 1 /\ timer_flag[mfd] = 0
    /\ improv' = [improv EXCEPT ![mfd] = 0]
    /\ mpc' = "batch" /\ mfd' = NoFd
    /\ UNCHANGED <<backlog, edge, net, m_sockfd, buffers, m_user_count, timers,
                   signals, mtimer, mcnt, mback, batch, timeout, due,
                   m_workqueue, reused>>
    /\ ByMain

(* The spin sees both flags: the worker asked for the connection's end.    *)
SpinCloses ==
    /\ mpc = "spin" /\ improv[mfd] = 1 /\ timer_flag[mfd] = 1
    /\ CbFunc(mfd, tptr[mfd], "spin")
    /\ UNCHANGED <<backlog, edge, conn, m_user_count, timers, signals, batch, timeout,
                   due, m_workqueue, reused>>
    /\ ByMain

(* sort_timer_lst::tick: every timer that had expired when it started.     *)
ExpireTimer(c) ==
    /\ mpc = "tick" /\ c \in due
    /\ CbFunc(tfd[c], c, "tick")
    /\ UNCHANGED <<backlog, edge, conn, m_user_count, timers, signals, batch, timeout,
                   due, m_workqueue, reused>>
    /\ ByMain

ExpireTimerDone ==
    /\ mback = "tick"
    /\ TimerRemoved
    /\ due' = due \ {mtimer}
    /\ mpc' = "tick"
    /\ UNCHANGED <<improv, timer_flag>>

(* Mutant: alarm() is not called again after a tick.                       *)
TickDoneSilent ==
    /\ mpc = "tick" /\ due = {}
    /\ timeout' = FALSE
    /\ mpc' = "wait"
    /\ UNCHANGED <<backlog, edge, net, conn, m_user_count, timers, signals, frame,
                   batch, due, m_workqueue, reused>>
    /\ ByMain

(* timer_handler: the alarm is set again only after the tick.              *)
TickDone ==
    /\ mpc = "tick" /\ due = {}
    /\ alarm' = Timeslot
    /\ timeout' = FALSE
    /\ mpc' = "wait"
    /\ UNCHANGED <<backlog, edge, net, conn, m_user_count, timers, pipe, frame, batch,
                   due, m_workqueue, reused>>
    /\ ByMain

Main ==
    \/ EpollWait \/ BatchDone \/ DealClientData \/ AcceptFails
    \/ \E c \in Conns : RefuseConn(c)
    \/ \E c \in Conns, fd \in Fds : AcceptConn(c, fd)
    \/ RegisterConn \/ DealTimerDone \/ SpinCloseDone \/ DealWithSignal
    \/ \E fd \in Fds :
         \/ DealHup(fd) \/ ReadAndQueue(fd) \/ ReadAndClose(fd)
         \/ WriteAndAdjust(fd) \/ WriteAndClose(fd) \/ QueueAndSpin(fd)
    \/ SpinEnds \/ SpinCloses
    \/ \E c \in Conns : ExpireTimer(c)
    \/ ExpireTimerDone \/ TickDone

-----------------------------------------------------------------------------
(* The workers.  A worker's step of module WorkQueue up to the unlock is   *)
(* Take here.                                                              *)
ByWorker == UNCHANGED <<config, arrivals, timers, signals, main, reused>>

WorkerGoes(w, pc) ==
    /\ wpc' = [wpc EXCEPT ![w] = pc]
    /\ wfd' = IF pc = "idle" THEN [wfd EXCEPT ![w] = NoFd] ELSE wfd

Take(w) ==
    /\ wpc[w] = "idle" /\ m_workqueue # << >>
    /\ LET fd == Head(m_workqueue) IN
         /\ wfd' = [wfd EXCEPT ![w] = fd]
         /\ wpc' = [wpc EXCEPT ![w] =
                      CASE m_actormodel = "proactor" -> "parse"
                        [] m_actormodel = "reactor" /\ m_state[fd] = 0 -> "read"
                        [] m_actormodel = "reactor" /\ m_state[fd] = 1 -> "write"]
    /\ m_workqueue' = Tail(m_workqueue)
    /\ UNCHANGED <<net, conn, m_user_count, wcnt>>
    /\ ByWorker

(* Mutant: improv is never set.                                            *)
IoNotReported(w) == UNCHANGED improv

(* request->improv = 1: main may go on.                                    *)
IoDone(w) == improv' = [improv EXCEPT ![wfd[w]] = 1]

(* Reactor, m_state = 0: read_once(), improv = 1, then process().          *)
WorkerReads(w) ==
    /\ wpc[w] = "read"
    /\ ReadOk(wfd[w])
    /\ IoDone(w)
    /\ WorkerGoes(w, "parse")
    /\ UNCHANGED <<sock, ep, hup, m_sockfd, resp, timer_flag, m_state, m_user_count,
                   m_workqueue, wcnt>>
    /\ ByWorker

(* The read failed: improv = 1 first, timer_flag = 1 in a later step.      *)
WorkerReadFails(w) ==
    /\ wpc[w] = "read"
    /\ ReadFails(wfd[w])
    /\ IoDone(w)
    /\ WorkerGoes(w, "flag")
    /\ UNCHANGED <<net, m_sockfd, buffers, m_user_count, m_workqueue, wcnt>>
    /\ ByWorker

(* Reactor, m_state = 1: write(), improv = 1, and timer_flag = 1 later if  *)
(* the connection is to be closed.                                         *)
WorkerWrites(w) ==
    /\ wpc[w] = "write"
    /\ \/ WriteOk(wfd[w]) /\ WorkerGoes(w, "idle")
       \/ WriteFails(wfd[w]) /\ WorkerGoes(w, "flag")
    /\ IoDone(w)
    /\ UNCHANGED <<sock, inbox, hup, m_sockfd, m_user_count, m_workqueue, wcnt>>
    /\ ByWorker

WorkerFlags(w) ==
    /\ wpc[w] = "flag"
    /\ timer_flag' = [timer_flag EXCEPT ![wfd[w]] = 1]
    /\ WorkerGoes(w, "idle")
    /\ UNCHANGED <<net, m_sockfd, rbuf, resp, improv, m_state, m_user_count,
                   m_workqueue, wcnt>>
    /\ ByWorker

(* process(): process_read on the bytes in the slot, then process_write.   *)
(* "more": the request is not complete (NO_REQUEST).                       *)
ParseMore(w) ==
    /\ wpc[w] = "parse"
    /\ "more" \in Outcomes \/ rbuf[wfd[w]] = NoConn
    /\ WorkerGoes(w, "rearm_in")
    /\ UNCHANGED <<net, conn, m_user_count, m_workqueue, wcnt>>
    /\ ByWorker

(* "reply": an answer to the request in the buffer is ready to be sent.    *)
ParseReply(w) ==
    /\ wpc[w] = "parse" /\ "reply" \in Outcomes
    /\ rbuf[wfd[w]] # NoConn
    /\ \E n \in 1..Chunks, keep \in BOOLEAN :
         resp' = [resp EXCEPT ![wfd[w]] =
                    [src |-> rbuf[wfd[w]], left |-> n, keep |-> keep]]
    /\ WorkerGoes(w, "rearm_out")
    /\ UNCHANGED <<net, m_sockfd, rbuf, improv, timer_flag, m_state, m_user_count,
                   m_workqueue, wcnt>>
    /\ ByWorker

(* "fail": process_write returns false (NO_RESOURCE, an empty file) and    *)
(* close_conn removes and closes the descriptor unless m_sockfd is -1.     *)
ParseFails(w) ==
    /\ wpc[w] = "parse" /\ "fail" \in Outcomes
    /\ rbuf[wfd[w]] # NoConn
    /\ IF m_sockfd[wfd[w]] = NoFd
       THEN /\ UNCHANGED net
            /\ WorkerGoes(w, "rearm_out")
       ELSE /\ CloseFd(wfd[w])
            /\ WorkerGoes(w, "unset")
    /\ UNCHANGED <<conn, m_user_count, m_workqueue, wcnt>>
    /\ ByWorker

(* close_conn: m_sockfd = -1 and the load, then the store, of              *)
(* m_user_count--.  The timer stays where it is.                           *)
UnsetSockfd(w) ==
    /\ wpc[w] = "unset"
    /\ m_sockfd' = [m_sockfd EXCEPT ![wfd[w]] = NoFd]
    /\ wcnt' = [wcnt EXCEPT ![w] = m_user_count]
    /\ WorkerGoes(w, "store")
    /\ UNCHANGED <<net, buffers, improv, m_user_count, m_workqueue>>
    /\ ByWorker

StoreCount(w) ==
    /\ wpc[w] = "store"
    /\ m_user_count' = wcnt[w] - 1
    /\ wcnt' = [wcnt EXCEPT ![w] = 0]
    /\ WorkerGoes(w, "rearm_out")
    /\ UNCHANGED <<net, conn, m_workqueue>>
    /\ ByWorker

(* The last statement of process(): modfd, also after close_conn.          *)
Rearm(w) ==
    /\ \/ wpc[w] = "rearm_in" /\ modfd(wfd[w], "in")
       \/ wpc[w] = "rearm_out" /\ modfd(wfd[w], "out")
    /\ WorkerGoes(w, "idle")
    /\ UNCHANGED <<sock, inbox, hup, conn, m_user_count, m_workqueue, wcnt>>
    /\ ByWorker

Worker(w) ==
    \/ Take(w) \/ WorkerReads(w) \/ WorkerReadFails(w) \/ WorkerWrites(w)
    \/ WorkerFlags(w) \/ ParseMore(w) \/ ParseReply(w) \/ ParseFails(w)
    \/ UnsetSockfd(w) \/ StoreCount(w) \/ Rearm(w)

-----------------------------------------------------------------------------
(* Clients and time.                                                       *)
ByClient == UNCHANGED <<config, sock, ep, conn, m_user_count, timers, signals,
                        main, m_workqueue, workers, reused>>

Connect(c) ==
    /\ c \in fresh
    /\ fresh' = fresh \ {c} /\ backlog' = backlog \cup {c}
    /\ edge' = TRUE
    /\ UNCHANGED <<inbox, hup, steps>>
    /\ ByClient

Connected(c) == c \in backlog \/ \E fd \in Fds : sock[fd] = c

Send(c) ==
    /\ Connected(c) /\ ~hup[c] /\ ~inbox[c]
    /\ steps < MaxSteps
    /\ inbox' = [inbox EXCEPT ![c] = TRUE]
    /\ steps' = steps + 1
    /\ UNCHANGED <<fresh, backlog, edge, hup>>
    /\ ByClient

Hangup(c) ==
    /\ Connected(c) /\ ~hup[c]
    /\ steps < MaxSteps
    /\ hup' = [hup EXCEPT ![c] = TRUE]
    /\ steps' = steps + 1
    /\ UNCHANGED <<fresh, backlog, edge, inbox>>
    /\ ByClient

Client(c) == Connect(c) \/ Send(c) \/ Hangup(c)

(* One unit of time: leases run down to 0, the alarm to its SIGALRM, whose *)
(* handler writes the signal number to the pipe.                           *)
Clock ==
    /\ left' = [c \in Conns |-> IF left[c] = 0 THEN 0 ELSE left[c] - 1]
    /\ alarm' = IF alarm = 0 THEN 0 ELSE alarm - 1
    /\ pipe' = (pipe \/ alarm = 1)
    /\ UNCHANGED <<config, arrivals, net, conn, m_user_count, tptr, lst, tfd, main,
                   m_workqueue, workers, reused>>

Next ==
    \/ Main
    \/ \E w \in Workers : Worker(w)
    \/ \E c \in Conns : Client(c)
    \/ Clock

(* The main thread and the workers keep running and time passes; nothing   *)
(* is assumed of the clients.                                              *)
Fairness ==
    /\ WF_vars(Main)
    /\ \A w \in Workers : WF_vars(Worker(w))
    /\ WF_vars(Clock)

Spec == Init /\ [][Next]_vars

FairSpec == Spec /\ Fairness

-----------------------------------------------------------------------------
(* The values of every variable.                                           *)
ConfigOK ==
    /\ m_actormodel \in ActorModels
    /\ m_LISTENTrigmode \in ListenModes

KernelOK ==
    /\ sock \in [Fds -> Conns \cup {NoConn}]
    /\ ep \in [Fds -> {"none", "in", "out", "off"}]
    /\ fresh \subseteq Conns /\ backlog \subseteq Conns /\ edge \in BOOLEAN
    /\ inbox \in [Conns -> BOOLEAN] /\ hup \in [Conns -> BOOLEAN]
    /\ steps \in 0..MaxSteps

SlotsOK ==
    /\ m_sockfd \in [Fds -> Fds \cup {NoFd}]
    /\ rbuf \in [Fds -> Conns \cup {NoConn}]
    /\ resp \in [Fds -> Response \cup {NoResp}]
    /\ improv \in [Fds -> {0, 1}] /\ timer_flag \in [Fds -> {0, 1}]
    /\ m_state \in [Fds -> {0, 1}]
    /\ m_user_count \in Int

TimersOK ==
    /\ tptr \in [Fds -> Conns \cup {NoConn}]
    /\ lst \subseteq Conns
    /\ tfd \in [Conns -> Fds \cup {NoFd}]
    /\ left \in [Conns -> 0..Lease]
    /\ alarm \in 0..Timeslot /\ pipe \in BOOLEAN

MainOK ==
    /\ mpc \in MainPCs
    /\ mfd \in Fds \cup {NoFd} /\ mtimer \in Conns \cup {NoConn}
    /\ mcnt \in Int
    /\ mback \in {"wait", "batch", "spin", "tick"}
    /\ ev \in [Fds -> Kinds]
    /\ evListen \in BOOLEAN /\ evSignal \in BOOLEAN
    /\ timeout \in BOOLEAN
    /\ due \subseteq Conns

PoolOK ==
    /\ m_workqueue \in Seq(Fds)
    /\ wpc \in [Workers -> WorkPCs]
    /\ wfd \in [Workers -> Fds \cup {NoFd}]
    /\ wcnt \in [Workers -> Int]
    /\ reused \in [Fds -> BOOLEAN]

(* Every variable of main, pool, slots, timers and kernel has a value the  *)
(* code can give it: no index is -1 where an array is indexed, the lease   *)
(* stays within 3 * TIMESLOT.                                              *)
TypeOK ==
    /\ ConfigOK /\ KernelOK /\ SlotsOK /\ TimersOK /\ MainOK /\ PoolOK

(* The handlers dereference users_timer[sockfd].timer and delete it        *)
(* (deal_timer, adjust_timer) although the pointer is never cleared after a*)
(* delete and any slot can be closed by a worker or a stale timer.  The    *)
(* timer of every open socket, of every reported event and of the slot main*)
(* spins on is in the list and made for that slot: no handler touches a    *)
(* deleted util_timer, and no open connection is without a timer.          *)
TimerOf(fd) == tptr[fd] \in lst /\ tfd[tptr[fd]] = fd

TimerAlive ==
    \A fd \in Fds :
        \/ Open(fd) /\ ~(mpc = "register" /\ mfd = fd)
        \/ ev[fd] # "none"
        \/ mpc = "spin" /\ mfd = fd
      => TimerOf(fd)

(* The timer about to be deleted is in the list, once: `delete timer` is   *)
(* never applied twice, by deal_timer, by the spin or by tick.             *)
DeletesLiveTimer ==
    /\ mpc = "close" => mtimer \in lst /\ tfd[mtimer] = mfd
    /\ mpc \in {"tick", "close"} => due \subseteq lst

(* What EPOLLONESHOT is for: as long as no client has been given a slot    *)
(* that something still refers to, a slot is in one place only - armed in  *)
(* epoll, reported to main, queued, or in the hands of one worker (which   *)
(* no longer owns it once it only has timer_flag left to set).             *)
OneOwner ==
    \A fd \in Fds : ~reused[fd] =>
        LET busy == {w \in InWorker(fd) : wpc[w] # "flag"}
            queued == {i \in 1..Len(m_workqueue) : m_workqueue[i] = fd}
            armed == {x \in {fd} : ep[x] \in {"in", "out"}}
            event == {x \in {fd} : ev[x] # "none"}
        IN Cardinality(busy) + Cardinality(queued) + Cardinality(armed)
             + Cardinality(event) <= 1

(* An answer in a slot is the answer to the client that holds the slot, and*)
(* so is the half-read request: init() leaves nothing of the previous      *)
(* client behind, and only main can be inside accept.                      *)
AnswersOwnClient ==
    \A fd \in Fds :
        Open(fd) /\ ~reused[fd] /\ ~(mpc = "register" /\ mfd = fd) =>
          /\ rbuf[fd] \in {sock[fd], NoConn}
          /\ resp[fd] # NoResp => resp[fd].src = sock[fd]

(* Reactor mode: main busy-waits on improv with nothing to wake it, so the *)
(* request it spins on is still on its way through the pool or improv is 1.*)
SpinServed ==
    mpc = "spin" =>
        \/ improv[mfd] = 1
        \/ InQueue(mfd)
        \/ \E w \in InWorker(mfd) : wpc[w] \in {"read", "write"}

(* m_user_count "counts the users" (http_conn.hpp:202): while no ++ or --  *)
(* is half done it is the number of open client sockets.                   *)
UserCountExact ==
    mpc \notin {"register", "close"} /\ (\A w \in Workers : wpc[w] \notin {"unset", "store"})
      => m_user_count = Cardinality({fd \in Fds : Open(fd)})

(* adjust_timer "pushes the timer back three units when data moves"        *)
(* (webserver.cpp:208): a tick never closes a connection whose own lease   *)
(* has not run out.                                                        *)
TickCloses(fd) == mpc = "tick" /\ mpc' = "close" /\ mfd' = fd

LeaseRespected ==
    [][ \A fd \in Fds :
          TickCloses(fd) /\ Open(fd) => left[sock[fd]] = 0 ]_vars

(* Nothing a client or a worker does keeps main in the busy-wait for good. *)
SpinTerminates == (mpc = "spin") ~> (mpc # "spin")

(* Whatever happens to its request - dropped by a full queue, its          *)
(* timer_flag missed by main, its descriptor left disarmed - no connection *)
(* outlives its client's activity: the timer list reaps it.                *)
EveryConnReaped ==
    \A c \in Conns : (\E fd \in Fds : sock[fd] = c)
                       ~> (\A fd \in Fds : sock[fd] # c)

(* With a level-triggered listen socket (the default) every client that    *)
(* connects is accepted or refused.                                        *)
BacklogDrains ==
    \A c \in Conns : (m_LISTENTrigmode = "LT" /\ c \in backlog)
                       ~> (c \notin backlog)
=============================================================================
