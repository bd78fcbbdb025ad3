-------------------------- MODULE WebServerProofs --------------------------
(* Proofs about WebServer, for any number of clients, slots and workers.   *)
EXTENDS WebServer, TLAPS, SequenceTheorems, FiniteSetTheorems

LEMMA TypeInit ==
    ASSUME ServerAssumption, Init
    PROVE  TypeOK
<1>1. << >> \in Seq(Fds)
  BY EmptySeq
<1>2. 0 \in 0..MaxSteps /\ Timeslot \in 0..Timeslot /\ 0 \in 0..Lease
  BY DEF ServerAssumption
<1>3. ConfigOK /\ KernelOK
  <2>1. inbox \in [Conns -> BOOLEAN] /\ hup \in [Conns -> BOOLEAN]
    BY Zenon DEF Init
  <2> QED
    BY <1>2, <2>1 DEF Init, ConfigOK, KernelOK
<1>4. SlotsOK /\ TimersOK
  <2>1. SlotsOK
    BY DEF Init, SlotsOK
  <2> QED
    BY <1>2, <2>1 DEF Init, TimersOK
<1>5. MainOK /\ PoolOK
  <2>1. reused \in [Fds -> BOOLEAN]
    BY Zenon DEF Init
  <2>2. PoolOK
    BY <1>1, <2>1 DEF Init, PoolOK, WorkPCs
  <2>3. evListen \in BOOLEAN /\ evSignal \in BOOLEAN /\ timeout \in BOOLEAN
    BY Zenon DEF Init
  <2>4. MainOK
    BY <2>3 DEF Init, MainOK, MainPCs, Kinds
  <2> QED
    BY <2>2, <2>4
<1> QED
  BY <1>3, <1>4, <1>5 DEF TypeOK

-----------------------------------------------------------------------------
(* Helpers: the operators the handlers are made of keep the types.         *)
LEMMA ModfdType ==
    ASSUME KernelOK, NEW fd, NEW interest \in {"in", "out"}, modfd(fd, interest)
    PROVE  ep' \in [Fds -> {"none", "in", "out", "off"}]
BY DEF KernelOK, modfd

LEMMA CloseType ==
    ASSUME KernelOK, NEW fd, CloseFd(fd)
    PROVE  /\ sock' \in [Fds -> Conns \cup {NoConn}]
           /\ ep' \in [Fds -> {"none", "in", "out", "off"}]
           /\ inbox' \in [Conns -> BOOLEAN] /\ hup' \in [Conns -> BOOLEAN]
BY DEF KernelOK, CloseFd

LEMMA WriteType ==
    ASSUME ServerAssumption, KernelOK, SlotsOK, NEW fd,
           WriteOk(fd) \/ WriteFails(fd)
    PROVE  /\ ep' \in [Fds -> {"none", "in", "out", "off"}]
           /\ rbuf' \in [Fds -> Conns \cup {NoConn}]
           /\ resp' \in [Fds -> Response \cup {NoResp}]
           /\ timer_flag' \in [Fds -> {0, 1}]
           /\ m_state' \in [Fds -> {0, 1}]
<1>1. CASE WriteNothing(fd) \/ WriteKept(fd)
  BY <1>1, ModfdType DEF WriteNothing, WriteKept, ClearBuffers, SlotsOK
<1>2. CASE WriteAgain(fd)
  <2>1. PICK n \in 1..Chunks : resp' = [resp EXCEPT ![fd].left = n]
    BY <1>2 DEF WriteAgain
  <2>2. resp' \in [Fds -> Response \cup {NoResp}]
    <3>1. CASE fd \in Fds
      <4>1. resp[fd] \in Response
        BY <1>2, <3>1 DEF WriteAgain, SlotsOK
      <4>2. [resp[fd] EXCEPT !.left = n] \in Response
        BY <4>1 DEF Response
      <4>3. resp' = [resp EXCEPT ![fd] = [resp[fd] EXCEPT !.left = n]]
        BY <2>1
      <4> QED
        BY <4>2, <4>3 DEF SlotsOK
    <3>2. CASE fd \notin Fds
      BY <2>1, <3>2 DEF SlotsOK
    <3> QED
      BY <3>1, <3>2
  <2> QED
    BY <1>2, <2>2, ModfdType DEF WriteAgain, SlotsOK
<1>3. CASE WriteClosing(fd)
  BY <1>3, ModfdType DEF WriteClosing, SlotsOK
<1>4. CASE WriteError(fd)
  BY <1>4 DEF WriteError, SlotsOK, KernelOK
<1> QED
  BY <1>1, <1>2, <1>3, <1>4 DEF WriteOk, WriteFails

LEMMA ReadType ==
    ASSUME KernelOK, SlotsOK, NEW fd, ReadOk(fd)
    PROVE  /\ inbox' \in [Conns -> BOOLEAN]
           /\ rbuf' \in [Fds -> Conns \cup {NoConn}]
BY DEF KernelOK, SlotsOK, ReadOk

USE DEF config, arrivals, net, buffers, conn, timers, signals, batch, frame, main,
        workers, ByMain, ByWorker, ByClient

(* main's locals: the slot it spins on, the new client it registers.       *)
FrameOK ==
    /\ mpc \in {"register", "spin"} => mfd \in Fds
    /\ mpc = "register" => mtimer \in Conns

(* Waiting and accepting keep the types.                                   *)
LEMMA AcceptTypes ==
    ASSUME ServerAssumption, TypeOK, FrameOK,
           \/ EpollWait \/ BatchDone \/ DealClientData \/ AcceptFails
           \/ \E c \in Conns : RefuseConn(c)
           \/ \E c \in Conns, fd \in Fds : AcceptConn(c, fd)
           \/ RegisterConn
    PROVE  TypeOK'
<1> USE ServerAssumption DEF TypeOK, ConfigOK, PoolOK, MainPCs
<1>1. CASE EpollWait
  <2>1. PICK writable \in SUBSET {fd \in Fds : ep[fd] = "out"} :
           /\ ev' = [fd \in Fds |-> Ready(fd, writable)]
           /\ Disarm([fd \in Fds |-> Ready(fd, writable)])
    BY <1>1 DEF EpollWait
  <2>2. \A fd \in Fds : Ready(fd, writable) \in Kinds
    BY DEF Ready, Kinds, KernelOK
  <2>3. ev' \in [Fds -> Kinds] /\ ep' \in [Fds -> {"none", "in", "out", "off"}]
    BY <2>1, <2>2 DEF Disarm, KernelOK
  <2>4. evListen' \in BOOLEAN /\ evSignal' \in BOOLEAN /\ edge' \in BOOLEAN
    BY <1>1 DEF EpollWait, KernelOK, TimersOK, ListenReady
  <2> QED
    BY <1>1, <2>3, <2>4 DEF EpollWait, KernelOK, SlotsOK, TimersOK, MainOK
<1>2. CASE BatchDone
  BY <1>2 DEF BatchDone, KernelOK, SlotsOK, TimersOK, MainOK
<1>3. CASE DealClientData
  BY <1>3 DEF DealClientData, KernelOK, SlotsOK, TimersOK, MainOK
<1>4. CASE AcceptFails
  BY <1>4 DEF AcceptFails, KernelOK, SlotsOK, TimersOK, MainOK
<1>5. ASSUME NEW c \in Conns, RefuseConn(c) PROVE TypeOK'
  BY <1>5 DEF RefuseConn, KernelOK, SlotsOK, TimersOK, MainOK
<1>6. ASSUME NEW c \in Conns, NEW fd \in Fds, AcceptConn(c, fd) PROVE TypeOK'
  <2>1. reused' \in [Fds -> BOOLEAN]
    BY <1>6 DEF AcceptConn, Referenced
  <2> QED
    BY <1>6, <2>1 DEF AcceptConn, KernelOK, SlotsOK, TimersOK, MainOK
<1>7. CASE RegisterConn
  <2>1. Lease \in 0..Lease /\ mtimer \in Conns
    BY <1>7 DEF RegisterConn, FrameOK
  <2>2. SlotsOK'
    <3>1. m_user_count' \in Int
      BY <1>7 DEF RegisterConn, MainOK
    <3>2. resp' \in [Fds -> Response \cup {NoResp}]
      BY <1>7 DEF RegisterConn, ClearBuffers, SlotsOK
    <3>3. rbuf' \in [Fds -> Conns \cup {NoConn}]
      BY <1>7 DEF RegisterConn, ClearBuffers, SlotsOK
    <3> QED
      BY <1>7, <3>1, <3>2, <3>3 DEF RegisterConn, ClearBuffers, SlotsOK
  <2>3. TimersOK'
    BY <1>7, <2>1 DEF RegisterConn, AddTimer, TimersOK, MainOK
  <2> QED
    BY <1>7, <2>2, <2>3 DEF RegisterConn, KernelOK, MainOK
<1> QED
  BY <1>1, <1>2, <1>3, <1>4, <1>5, <1>6, <1>7

(* So does handling an event, whichever thread does the reading.           *)
LEMMA EventTypes ==
    ASSUME ServerAssumption, TypeOK, NEW fd \in Fds,
           \/ DealHup(fd) \/ ReadAndQueue(fd) \/ ReadAndClose(fd)
           \/ WriteAndAdjust(fd) \/ WriteAndClose(fd) \/ QueueAndSpin(fd)
    PROVE  TypeOK'
<1> USE ServerAssumption DEF TypeOK, ConfigOK, PoolOK, MainPCs, Kinds, Handle
<1>1. Lease \in 0..Lease
  OBVIOUS
<1>2. ASSUME append(fd) PROVE m_workqueue' \in Seq(Fds)
  BY <1>2, AppendProperties DEF append
<1>3. CASE DealHup(fd)
  BY <1>3, CloseType DEF DealHup, CbFunc, KernelOK, SlotsOK, TimersOK, MainOK
<1>4. CASE ReadAndQueue(fd)
  BY <1>1, <1>2, <1>4, ReadType, ZenonT(30) DEF ReadAndQueue, adjust_timer, KernelOK, SlotsOK,
     TimersOK, MainOK
<1>5. CASE ReadAndClose(fd)
  BY <1>5, CloseType DEF ReadAndClose, CbFunc, KernelOK, SlotsOK, TimersOK, MainOK
<1>6. CASE WriteAndAdjust(fd)
  BY <1>1, <1>6, WriteType, ZenonT(30) DEF WriteAndAdjust, adjust_timer, KernelOK, SlotsOK,
     TimersOK, MainOK
<1>7. CASE WriteAndClose(fd)
  BY <1>7, CloseType DEF WriteAndClose, CbFunc, KernelOK, SlotsOK, TimersOK, MainOK
<1>8. CASE QueueAndSpin(fd)
  BY <1>1, <1>2, <1>8, ZenonT(30) DEF QueueAndSpin, adjust_timer, KernelOK, SlotsOK,
     TimersOK, MainOK
<1> QED
  BY <1>3, <1>4, <1>5, <1>6, <1>7, <1>8

(* The busy-wait, the signal and the timers.                               *)
LEMMA TimerTypes ==
    ASSUME ServerAssumption, TypeOK, FrameOK,
           \/ DealTimerDone \/ SpinCloseDone \/ DealWithSignal
           \/ SpinEnds \/ SpinCloses
           \/ \E c \in Conns : ExpireTimer(c)
           \/ ExpireTimerDone \/ TickDone
    PROVE  TypeOK'
<1> USE ServerAssumption DEF TypeOK, ConfigOK, PoolOK, MainPCs
<1>1. ASSUME TimerRemoved
      PROVE  /\ lst' \subseteq Conns /\ tfd' \in [Conns -> Fds \cup {NoFd}]
             /\ left' \in [Conns -> 0..Lease] /\ m_user_count' \in Int
  <2>1. 0 \in 0..Lease
    BY DEF ServerAssumption
  <2>2. lst' \subseteq Conns
    BY <1>1 DEF TimerRemoved, DelTimer, TimersOK
  <2>3. tfd' \in [Conns -> Fds \cup {NoFd}]
    BY <1>1 DEF TimerRemoved, DelTimer, TimersOK
  <2>4. left' \in [Conns -> 0..Lease]
    BY <1>1, <2>1 DEF TimerRemoved, DelTimer, TimersOK
  <2>5. m_user_count' \in Int
    BY <1>1 DEF TimerRemoved, MainOK
  <2> QED
    BY <2>2, <2>3, <2>4, <2>5
<1>2. CASE DealTimerDone
  BY <1>1, <1>2 DEF DealTimerDone, TimerRemoved, KernelOK, SlotsOK, TimersOK, MainOK
<1>3. CASE SpinCloseDone
  <2>1. SlotsOK'
    BY <1>1, <1>3 DEF SpinCloseDone, TimerRemoved, SlotsOK
  <2> QED
    BY <1>1, <1>3, <2>1 DEF SpinCloseDone, TimerRemoved, KernelOK, TimersOK, MainOK
<1>4. CASE ExpireTimerDone
  BY <1>1, <1>4 DEF ExpireTimerDone, TimerRemoved, KernelOK, SlotsOK, TimersOK, MainOK
<1>5. CASE DealWithSignal
  BY <1>5 DEF DealWithSignal, KernelOK, SlotsOK, TimersOK, MainOK
<1>6. CASE SpinEnds
  BY <1>6 DEF SpinEnds, KernelOK, SlotsOK, TimersOK, MainOK
<1>7. CASE SpinCloses
  BY <1>7, CloseType DEF FrameOK, SpinCloses, CbFunc, KernelOK, SlotsOK, TimersOK, MainOK
<1>8. ASSUME NEW c \in Conns, ExpireTimer(c) PROVE TypeOK'
  BY <1>8, CloseType DEF ExpireTimer, CbFunc, KernelOK, SlotsOK, TimersOK, MainOK
<1>9. CASE TickDone
  <2>1. Timeslot \in 0..Timeslot
    BY DEF ServerAssumption
  <2> QED
    BY <1>9, <2>1 DEF TickDone, KernelOK, SlotsOK, TimersOK, MainOK
<1> QED
  BY <1>2, <1>3, <1>4, <1>5, <1>6, <1>7, <1>8, <1>9

(* The workers.                                                            *)
LEMMA WorkerTypes ==
    ASSUME ServerAssumption, TypeOK, NEW w \in Workers, Worker(w)
    PROVE  TypeOK'
<1> USE ServerAssumption DEF TypeOK, ConfigOK, WorkPCs
<1>1. ASSUME NEW pc \in WorkPCs, WorkerGoes(w, pc)
      PROVE  /\ wpc' \in [Workers -> WorkPCs]
             /\ wfd' \in [Workers -> Fds \cup {NoFd}]
  BY <1>1 DEF WorkerGoes, PoolOK
<1>2. CASE Take(w)
  <2>1. Head(m_workqueue) \in Fds /\ Tail(m_workqueue) \in Seq(Fds)
    BY <1>2, HeadTailProperties DEF Take, PoolOK
  <2>2. /\ wpc' \in [Workers -> WorkPCs] /\ m_workqueue' \in Seq(Fds)
        /\ wfd' \in [Workers -> Fds \cup {NoFd}]
    <3>1. \/ m_actormodel = "proactor"
          \/ m_actormodel = "reactor" /\ m_state[Head(m_workqueue)] = 0
          \/ m_actormodel = "reactor" /\ m_state[Head(m_workqueue)] = 1
      BY <2>1 DEF ServerAssumption, SlotsOK
    <3> QED
      BY <1>2, <2>1, <3>1 DEF Take, PoolOK
  <2> QED
    BY <1>2, <2>2, SMTT(30) DEF Take, KernelOK, SlotsOK, TimersOK, MainOK, PoolOK
<1>3. CASE WorkerReads(w)
  BY <1>1, <1>3, ReadType, ZenonT(30) DEF WorkerReads, IoDone, KernelOK, SlotsOK, TimersOK,
     MainOK, PoolOK
<1>4. CASE WorkerReadFails(w)
  BY <1>1, <1>4, ZenonT(30) DEF WorkerReadFails, IoDone, KernelOK, SlotsOK, TimersOK, MainOK,
     PoolOK
<1>5. CASE WorkerWrites(w)
  <2>1. improv' \in [Fds -> {0, 1}]
    BY <1>5 DEF WorkerWrites, IoDone, SlotsOK
  <2>2. /\ wpc' \in [Workers -> WorkPCs]
        /\ wfd' \in [Workers -> Fds \cup {NoFd}]
        /\ WriteOk(wfd[w]) \/ WriteFails(wfd[w])
    BY <1>1, <1>5 DEF WorkerWrites
  <2> QED
    BY <1>5, <2>1, <2>2, WriteType DEF WorkerWrites, KernelOK, SlotsOK, TimersOK,
       MainOK, PoolOK
<1>6. CASE WorkerFlags(w)
  BY <1>1, <1>6, ZenonT(30) DEF WorkerFlags, KernelOK, SlotsOK, TimersOK, MainOK, PoolOK
<1>7. CASE ParseMore(w)
  BY <1>1, <1>7 DEF ParseMore, KernelOK, SlotsOK, TimersOK, MainOK, PoolOK
<1>8. CASE ParseReply(w)
  <2>1. resp' \in [Fds -> Response \cup {NoResp}]
    <3>1. PICK n \in 1..Chunks, keep \in BOOLEAN :
             resp' = [resp EXCEPT ![wfd[w]] =
                        [src |-> rbuf[wfd[w]], left |-> n, keep |-> keep]]
      BY <1>8 DEF ParseReply
    <3>2. wfd[w] \in Fds =>
            [src |-> rbuf[wfd[w]], left |-> n, keep |-> keep] \in Response
      BY <1>8 DEF ParseReply, SlotsOK, Response
    <3> QED
      BY <3>1, <3>2 DEF SlotsOK
  <2>2. /\ wpc' \in [Workers -> WorkPCs]
        /\ wfd' \in [Workers -> Fds \cup {NoFd}]
    BY <1>1, <1>8 DEF ParseReply
  <2> QED
    BY <1>8, <2>1, <2>2 DEF ParseReply, KernelOK, SlotsOK, TimersOK, MainOK, PoolOK
<1>9. CASE ParseFails(w)
  <2>1. /\ wpc' \in [Workers -> WorkPCs]
        /\ wfd' \in [Workers -> Fds \cup {NoFd}]
    BY <1>1, <1>9 DEF ParseFails
  <2>2. KernelOK'
    BY <1>9, CloseType DEF ParseFails, KernelOK
  <2> QED
    BY <1>9, <2>1, <2>2 DEF ParseFails, SlotsOK, TimersOK, MainOK, PoolOK
<1>10. CASE UnsetSockfd(w)
  BY <1>1, <1>10, ZenonT(30) DEF UnsetSockfd, KernelOK, SlotsOK, TimersOK, MainOK, PoolOK
<1>11. CASE StoreCount(w)
  BY <1>1, <1>11 DEF StoreCount, KernelOK, SlotsOK, TimersOK, MainOK, PoolOK
<1>12. CASE Rearm(w)
  BY <1>1, <1>12, ModfdType DEF Rearm, KernelOK, SlotsOK, TimersOK, MainOK, PoolOK
<1> QED
  BY <1>2, <1>3, <1>4, <1>5, <1>6, <1>7, <1>8, <1>9, <1>10, <1>11, <1>12 DEF Worker

(* The clients and the clock.                                              *)
LEMMA OutsideTypes ==
    ASSUME ServerAssumption, TypeOK,
           (\E c \in Conns : Client(c)) \/ Clock \/ UNCHANGED vars
    PROVE  TypeOK'
<1> USE ServerAssumption DEF TypeOK, ConfigOK
<1>1. ASSUME NEW c \in Conns, Client(c) PROVE TypeOK'
  <2>1. CASE Connect(c)
    <3>1. edge' \in BOOLEAN
      BY <2>1 DEF Connect
    <3> QED
      BY <2>1, <3>1 DEF Connect, KernelOK, SlotsOK, TimersOK, MainOK, PoolOK
  <2>2. CASE Send(c) \/ Hangup(c)
    <3>1. steps' \in 0..MaxSteps
      BY <2>2 DEF Send, Hangup, KernelOK, ServerAssumption
    <3>2. inbox' \in [Conns -> BOOLEAN] /\ hup' \in [Conns -> BOOLEAN]
      BY <2>2 DEF Send, Hangup, KernelOK
    <3> QED
      BY <2>2, <3>1, <3>2, SMTT(30) DEF Send, Hangup, KernelOK, SlotsOK, TimersOK, MainOK,
         PoolOK
  <2> QED
    BY <1>1, <2>1, <2>2 DEF Client
<1>2. CASE Clock
  <2>1. left' \in [Conns -> 0..Lease] /\ alarm' \in 0..Timeslot
    BY <1>2 DEF Clock, TimersOK, ServerAssumption
  <2>2. pipe' \in BOOLEAN
    BY <1>2 DEF Clock, TimersOK
  <2> QED
    BY <1>2, <2>1, <2>2 DEF Clock, KernelOK, SlotsOK, TimersOK, MainOK, PoolOK
<1>3. CASE UNCHANGED vars
  BY <1>3 DEF vars, KernelOK, SlotsOK, TimersOK, MainOK, PoolOK
<1> QED
  BY <1>1, <1>2, <1>3

LEMMA TypeStep ==
    ASSUME ServerAssumption, TypeOK, FrameOK, [Next]_vars
    PROVE  TypeOK'
BY AcceptTypes, EventTypes, TimerTypes, WorkerTypes, OutsideTypes DEF Next, Main

-----------------------------------------------------------------------------
(* The inductive invariant behind TimerAlive and DeletesLiveTimer.         *)

(* Only open descriptors are in epoll's interest list.                     *)
InterestOpen == \A fd \in Fds : ep[fd] # "none" => Open(fd)

(* A client that is not accepted yet has no timer; every timer has a slot. *)
TimersAccepted ==
    /\ fresh \cap backlog = {}
    /\ \A c \in lst : c \notin fresh \cup backlog /\ tfd[c] \in Fds

(* What main's locals mean at each place that uses them.                   *)
RegisterNew ==
    mpc = "register" =>
        mfd \in Fds /\ mtimer \in Conns \ (lst \cup fresh \cup backlog)
SpinSlot == mpc = "spin" => mfd \in Fds /\ ev[mfd] = "none"
CloseSlot ==
    mpc = "close" => /\ mfd \in Fds /\ ~Open(mfd) /\ ev[mfd] = "none"
                     /\ mtimer \in lst /\ tfd[mtimer] = mfd

(* tick runs between two batches; only then timers are due.                *)
Ticking == mpc = "tick" \/ (mpc = "close" /\ mback = "tick")
BatchOver == Ticking => \A fd \in Fds : ev[fd] = "none"
DueListed == due \subseteq (IF Ticking THEN lst ELSE {})

PlaceInv == RegisterNew /\ SpinSlot /\ CloseSlot /\ BatchOver /\ DueListed
Inv == TypeOK /\ InterestOpen /\ TimersAccepted /\ PlaceInv /\ TimerAlive

(* What the invariant speaks of.                                           *)
seen == <<sock, ep, fresh, backlog, tptr, lst, tfd, mpc, mfd, mtimer, mback, ev, due>>

(* The parts apart from the types.                                         *)
Links == InterestOpen /\ TimersAccepted /\ PlaceInv /\ TimerAlive

USE DEF InterestOpen, TimersAccepted, PlaceInv, RegisterNew, SpinSlot, CloseSlot,
        Ticking, BatchOver, DueListed, TimerAlive, TimerOf, Open

LEMMA LinksUnseen ==
    ASSUME Links, UNCHANGED seen
    PROVE  Links'
BY DEF Links, seen

(* A thread that closes a descriptor or re-arms it disturbs nothing.       *)
LEMMA LinksNet ==
    ASSUME TypeOK, Links, NEW fd,
           CloseFd(fd) \/ (\E interest \in {"in", "out"} : modfd(fd, interest)
                             /\ UNCHANGED sock),
           UNCHANGED <<fresh, backlog, tptr, lst, tfd, mpc, mfd, mtimer, mback,
                       ev, due>>
    PROVE  Links'
<1>1. \A g \in Fds : /\ sock'[g] # NoConn => sock[g] # NoConn
                     /\ ep'[g] # "none" => sock'[g] # NoConn
  BY DEF CloseFd, modfd, Links, TypeOK, KernelOK
<1> QED
  BY <1>1 DEF Links

(* epoll_wait reports open descriptors only.                               *)
LEMMA LinksWait ==
    ASSUME TypeOK, Links, EpollWait
    PROVE  Links'
<1>1. PICK writable \in SUBSET {fd \in Fds : ep[fd] = "out"} :
         /\ ev' = [fd \in Fds |-> Ready(fd, writable)]
         /\ Disarm([fd \in Fds |-> Ready(fd, writable)])
  BY DEF EpollWait
<1>2. \A fd \in Fds : ev'[fd] # "none" => ep[fd] # "none"
  BY <1>1 DEF Ready
<1>3. \A fd \in Fds : ep'[fd] # "none" => ep[fd] # "none"
  BY <1>1 DEF Disarm, Ready
<1>4. mpc = "wait" /\ mpc' = "batch"
      /\ UNCHANGED <<sock, fresh, backlog, tptr, lst, tfd, mfd, mtimer, mback, due>>
  BY DEF EpollWait
<1> QED
  BY <1>2, <1>3, <1>4 DEF Links

(* A new client gets a slot, and then the slot a timer of its own.         *)
LEMMA LinksAccept ==
    ASSUME ServerAssumption, TypeOK, Links,
           \/ DealClientData \/ AcceptFails
           \/ \E c \in Conns : RefuseConn(c)
           \/ \E c \in Conns, fd \in Fds : AcceptConn(c, fd)
           \/ RegisterConn
    PROVE  Links'
<1> USE DEF Links
<1>1. CASE DealClientData \/ AcceptFails
  BY <1>1 DEF DealClientData, AcceptFails
<1>2. ASSUME NEW c \in Conns, RefuseConn(c) PROVE Links'
  BY <1>2 DEF RefuseConn
<1>3. ASSUME NEW c \in Conns, NEW fd \in Fds, AcceptConn(c, fd) PROVE Links'
  <2>1. mpc = "accept" /\ mpc' = "register" /\ mfd' = fd /\ mtimer' = c
        /\ c \in backlog /\ backlog' = backlog \ {c}
        /\ UNCHANGED <<fresh, tptr, lst, tfd, mback, ev, due>>
    BY <1>3 DEF AcceptConn
  <2>2. /\ InterestOpen'
        /\ \A g \in Fds : sock'[g] # NoConn => g = fd \/ sock[g] # NoConn
    BY <1>3 DEF AcceptConn, TypeOK, KernelOK, ServerAssumption
  <2>3. TimersAccepted' /\ PlaceInv'
    BY <2>1
  <2>4. TimerAlive'
    BY <2>1, <2>2
  <2> QED
    BY <2>2, <2>3, <2>4
<1>4. CASE RegisterConn
  <2>1. /\ mpc = "register" /\ mpc' \in {"batch", "accept"}
        /\ mfd \in Fds /\ mtimer \in Conns \ (lst \cup fresh \cup backlog)
        /\ UNCHANGED <<sock, ep, fresh, backlog, mback, ev, due>>
    BY <1>4 DEF RegisterConn
  <2>2. /\ tptr' = [tptr EXCEPT ![mfd] = mtimer]
        /\ lst' = lst \cup {mtimer}
        /\ tfd' = [tfd EXCEPT ![mtimer] = mfd]
    BY <1>4 DEF RegisterConn, AddTimer
  <2>3. TimersAccepted'
    BY <2>1, <2>2 DEF TypeOK, TimersOK
  <2>4. TimerAlive'
    <3>1. tptr'[mfd] \in lst' /\ tfd'[tptr'[mfd]] = mfd
      BY <2>1, <2>2 DEF TypeOK, TimersOK
    <3>2. ASSUME NEW g \in Fds \ {mfd}, tptr[g] \in lst, tfd[tptr[g]] = g
          PROVE  tptr'[g] \in lst' /\ tfd'[tptr'[g]] = g
      BY <2>1, <2>2, <3>2 DEF TypeOK, TimersOK
    <3> QED
      BY <2>1, <3>1, <3>2
  <2> QED
    BY <2>1, <2>3, <2>4
<1> QED
  BY <1>1, <1>2, <1>3, <1>4

(* cb_func closes the slot of a timer that is in the list.                 *)
LEMMA LinksCallback ==
    ASSUME TypeOK, Links, NEW fd \in Fds, NEW timer,
           NEW back \in {"batch", "spin", "tick"},
           CbFunc(fd, timer, back),
           timer \in lst, tfd[timer] = fd,
           \A g \in Fds : ev'[g] = (IF g = fd THEN "none" ELSE ev[g]),
           IF back = "tick" THEN mpc = "tick" ELSE mpc \in {"batch", "spin"},
           UNCHANGED <<fresh, backlog, tptr, lst, tfd, due>>
    PROVE  Links'
<1>1. /\ \A g \in Fds : sock'[g] # NoConn => g # fd /\ sock[g] # NoConn
      /\ InterestOpen'
  BY DEF CbFunc, CloseFd, Links, TypeOK, KernelOK
<1>2. mpc' = "close" /\ mfd' = fd /\ mtimer' = timer /\ mback' = back
  BY DEF CbFunc
<1>3. PlaceInv'
  BY <1>1, <1>2 DEF Links
<1>4. TimerAlive'
  BY <1>1, <1>2 DEF Links
<1> QED
  BY <1>1, <1>3, <1>4 DEF Links

(* The end of cb_func's caller: the timer leaves the list and with it goes *)
(* the only slot that pointed to it.                                       *)
LEMMA LinksRemoved ==
    ASSUME ServerAssumption, TypeOK, Links,
           DealTimerDone \/ SpinCloseDone \/ ExpireTimerDone
    PROVE  Links'
<1>1. /\ mpc = "close" /\ mpc' = (IF mback = "tick" THEN "tick" ELSE "batch")
      /\ lst' = lst \ {mtimer} /\ tfd' = [tfd EXCEPT ![mtimer] = NoFd]
      /\ due' = (IF mback = "tick" THEN due \ {mtimer} ELSE due)
      /\ UNCHANGED <<sock, ep, fresh, backlog, tptr, ev>>
  BY DEF DealTimerDone, SpinCloseDone, ExpireTimerDone, TimerRemoved, DelTimer
<1>2. TimersAccepted' /\ PlaceInv'
  BY <1>1 DEF Links, TypeOK, TimersOK
<1>3. ASSUME NEW g \in Fds, tptr[g] \in lst, tfd[tptr[g]] = g, g # mfd
      PROVE  tptr'[g] \in lst' /\ tfd'[tptr'[g]] = g
  BY <1>1, <1>3 DEF Links, TypeOK, TimersOK
<1>4. TimerAlive'
  <2>1. mpc' # "spin" /\ mpc' # "register"
    BY <1>1
  <2>2. SUFFICES ASSUME NEW g \in Fds, sock[g] # NoConn \/ ev[g] # "none"
                 PROVE  tptr'[g] \in lst' /\ tfd'[tptr'[g]] = g
    BY <1>1, <2>1
  <2>3. g # mfd
    BY <1>1, <2>2 DEF Links
  <2>4. tptr[g] \in lst /\ tfd[tptr[g]] = g
    BY <1>1, <2>2 DEF Links
  <2> QED
    BY <1>3, <2>3, <2>4
<1> QED
  BY <1>1, <1>2, <1>4 DEF Links

(* The events.                                                             *)
LEMMA LinksEvents ==
    ASSUME ServerAssumption, TypeOK, Links, NEW fd \in Fds,
           \/ DealHup(fd) \/ ReadAndQueue(fd) \/ ReadAndClose(fd)
           \/ WriteAndAdjust(fd) \/ WriteAndClose(fd) \/ QueueAndSpin(fd)
    PROVE  Links'
<1>1. /\ mpc = "batch" /\ ev[fd] # "none" /\ ev' = [ev EXCEPT ![fd] = "none"]
      /\ UNCHANGED <<fresh, backlog, tptr, lst, tfd, due>>
  BY DEF DealHup, ReadAndQueue, ReadAndClose, WriteAndAdjust, WriteAndClose,
     QueueAndSpin, Handle
<1>2. tptr[fd] \in lst /\ tfd[tptr[fd]] = fd
  BY <1>1 DEF Links
<1>3. \A g \in Fds : ev'[g] = (IF g = fd THEN "none" ELSE ev[g])
  BY <1>1 DEF TypeOK, MainOK
<1>4. CASE DealHup(fd) \/ ReadAndClose(fd) \/ WriteAndClose(fd)
  <2>1. CbFunc(fd, tptr[fd], "batch")
    BY <1>4 DEF DealHup, ReadAndClose, WriteAndClose
  <2> QED
    BY <1>1, <1>2, <1>3, <2>1, LinksCallback
<1>5. CASE ReadAndQueue(fd) \/ WriteAndAdjust(fd) \/ QueueAndSpin(fd)
  <2>1. /\ mpc' = mpc \/ (mpc' = "spin" /\ mfd' = fd)
        /\ sock' = sock /\ UNCHANGED <<mtimer, mback>>
    BY <1>5 DEF ReadAndQueue, WriteAndAdjust, QueueAndSpin
  <2>2. InterestOpen'
    BY <1>5, <2>1 DEF ReadAndQueue, WriteAndAdjust, QueueAndSpin, WriteOk,
       WriteNothing, WriteAgain, WriteKept, modfd, Links, TypeOK, KernelOK
  <2>3. TimersAccepted' /\ PlaceInv'
    BY <1>1, <1>3, <2>1 DEF Links
  <2>4. TimerAlive'
    BY <1>1, <1>2, <1>3, <2>1 DEF Links
  <2> QED
    BY <2>2, <2>3, <2>4 DEF Links
<1> QED
  BY <1>4, <1>5

(* The busy-wait, the signal and the ticks.                                *)
LEMMA LinksTick ==
    ASSUME ServerAssumption, TypeOK, Links,
           \/ BatchDone \/ DealWithSignal \/ SpinEnds \/ SpinCloses
           \/ \E c \in Conns : ExpireTimer(c)
           \/ TickDone
    PROVE  Links'
<1>1. CASE BatchDone
  <2>1. /\ mpc = "batch" /\ mpc' \in {"tick", "wait"}
        /\ \A fd \in Fds : ev[fd] = "none"
        /\ due' \subseteq lst /\ (mpc' = "wait" => due' = {})
        /\ UNCHANGED <<sock, ep, fresh, backlog, tptr, lst, tfd, mfd, mtimer,
                       mback, ev>>
    BY <1>1 DEF BatchDone, BatchEmpty
  <2> QED
    BY <2>1 DEF Links
<1>2. CASE DealWithSignal
  BY <1>2, LinksUnseen DEF DealWithSignal, seen
<1>3. CASE SpinEnds
  <2>1. /\ mpc = "spin" /\ mpc' = "batch"
        /\ UNCHANGED <<sock, ep, fresh, backlog, tptr, lst, tfd, ev, due>>
    BY <1>3 DEF SpinEnds
  <2> QED
    BY <2>1 DEF Links
<1>4. CASE SpinCloses
  <2>1. /\ mpc = "spin" /\ CbFunc(mfd, tptr[mfd], "spin")
        /\ UNCHANGED <<fresh, backlog, tptr, lst, tfd, ev, due>>
    BY <1>4 DEF SpinCloses
  <2>2. /\ mfd \in Fds /\ ev[mfd] = "none"
        /\ tptr[mfd] \in lst /\ tfd[tptr[mfd]] = mfd
    BY <2>1 DEF Links
  <2> QED
    BY <2>1, <2>2, LinksCallback
<1>5. ASSUME NEW c \in Conns, ExpireTimer(c) PROVE Links'
  <2>1. /\ mpc = "tick" /\ c \in due /\ CbFunc(tfd[c], c, "tick")
        /\ UNCHANGED <<fresh, backlog, tptr, lst, tfd, ev, due>>
    BY <1>5 DEF ExpireTimer
  <2>2. c \in lst /\ tfd[c] \in Fds /\ \A fd \in Fds : ev[fd] = "none"
    BY <2>1 DEF Links
  <2> QED
    BY <2>1, <2>2, LinksCallback
<1>6. CASE TickDone
  <2>1. /\ mpc = "tick" /\ mpc' = "wait" /\ due = {}
        /\ UNCHANGED <<sock, ep, fresh, backlog, tptr, lst, tfd, mfd, mtimer,
                       mback, ev, due>>
    BY <1>6 DEF TickDone
  <2> QED
    BY <2>1 DEF Links
<1> QED
  BY <1>1, <1>2, <1>3, <1>4, <1>5, <1>6

(* Workers close slots and re-arm them, but touch no timer.                *)
LEMMA LinksWorker ==
    ASSUME ServerAssumption, TypeOK, Links, NEW w \in Workers, Worker(w)
    PROVE  Links'
<1>1. UNCHANGED <<fresh, backlog, tptr, lst, tfd, mpc, mfd, mtimer, mback, ev, due>>
  BY DEF Worker, Take, WorkerReads, WorkerReadFails, WorkerWrites, WorkerFlags,
     ParseMore, ParseReply, ParseFails, UnsetSockfd, StoreCount, Rearm
<1>2. \/ UNCHANGED <<sock, ep>>
      \/ \E fd : \/ CloseFd(fd)
                 \/ \E interest \in {"in", "out"} :
                      modfd(fd, interest) /\ UNCHANGED sock
  <2>1. CASE WorkerWrites(w)
    BY <2>1 DEF WorkerWrites, WriteOk, WriteFails, WriteNothing, WriteAgain,
       WriteKept, WriteClosing, WriteError
  <2>2. CASE Rearm(w)
    BY <2>2 DEF Rearm
  <2>3. CASE ParseFails(w)
    BY <2>3 DEF ParseFails
  <2>4. CASE ~WorkerWrites(w) /\ ~Rearm(w) /\ ~ParseFails(w)
    BY <2>4 DEF Worker, Take, WorkerReads, WorkerReadFails, WorkerFlags,
       ParseMore, ParseReply, UnsetSockfd, StoreCount
  <2> QED
    BY <2>1, <2>2, <2>3, <2>4
<1> QED
  BY <1>1, <1>2, LinksNet, LinksUnseen DEF seen

LEMMA LinksOutside ==
    ASSUME ServerAssumption, TypeOK, Links,
           (\E c \in Conns : Client(c)) \/ Clock \/ UNCHANGED vars
    PROVE  Links'
<1>1. ASSUME NEW c \in Conns, Client(c) PROVE Links'
  <2>1. CASE Connect(c)
    <3>1. /\ c \in fresh /\ fresh' = fresh \ {c} /\ backlog' = backlog \cup {c}
          /\ UNCHANGED <<sock, ep, tptr, lst, tfd, mpc, mfd, mtimer, mback, ev, due>>
      BY <2>1 DEF Connect
    <3> QED
      BY <3>1 DEF Links
  <2>2. CASE Send(c) \/ Hangup(c)
    BY <2>2, LinksUnseen DEF Send, Hangup, seen
  <2> QED
    BY <1>1, <2>1, <2>2 DEF Client
<1>2. CASE Clock
  BY <1>2, LinksUnseen DEF Clock, seen
<1>3. CASE UNCHANGED vars
  BY <1>3, LinksUnseen DEF vars, seen
<1> QED
  BY <1>1, <1>2, <1>3

LEMMA InvStep ==
    ASSUME ServerAssumption, Inv, [Next]_vars
    PROVE  Inv'
<1>1. TypeOK /\ Links /\ FrameOK
  BY DEF Inv, Links, FrameOK
<1>2. TypeOK'
  BY <1>1, TypeStep
<1>3. Links'
  BY <1>1, LinksWait, LinksAccept, LinksRemoved, LinksEvents, LinksTick,
     LinksWorker, LinksOutside DEF Next, Main
<1> QED
  BY <1>2, <1>3 DEF Inv, Links

LEMMA InvInit ==
    ASSUME ServerAssumption, Init
    PROVE  Inv
<1>1. TypeOK
  BY TypeInit
<1> QED
  BY <1>1 DEF Init, Inv

LEMMA InvAlways == Spec => []Inv
<1>1. Init => Inv
  BY ServerAssumption, InvInit
<1>2. Inv /\ [Next]_vars => Inv'
  BY ServerAssumption, InvStep
<1> QED
  BY <1>1, <1>2, PTL DEF Spec

(* Every variable of the server keeps to the values the code can give it.  *)
THEOREM TypeCorrect == Spec => []TypeOK
<1>1. Spec => []Inv
  BY InvAlways
<1>2. Inv => TypeOK
  BY DEF Inv
<1> QED
  BY <1>1, <1>2, PTL

(* The timer pointer of every open or reported slot is a live timer made   *)
(* for that slot: no handler dereferences a deleted util_timer.            *)
THEOREM NoDeadTimer == Spec => []TimerAlive
<1>1. Spec => []Inv
  BY InvAlways
<1>2. Inv => TimerAlive
  BY DEF Inv
<1> QED
  BY <1>1, <1>2, PTL

(* `delete timer` meets a timer that is in the list, from deal_timer, from *)
(* the busy-wait and from tick.                                            *)
THEOREM NoDoubleDelete == Spec => []DeletesLiveTimer
<1>1. Spec => []Inv
  BY InvAlways
<1>2. Inv => DeletesLiveTimer
  BY DEF Inv, DeletesLiveTimer
<1> QED
  BY <1>1, <1>2, PTL

-----------------------------------------------------------------------------
(* The reactor's hand-over: main and the pool take turns.  While main is   *)
(* not in the busy-wait the pool does no I/O, nothing is queued and no     *)
(* improv is set, so the queue has room for the next request.              *)
InIO(w) == wpc[w] \in {"read", "write"}
PoolQuiet == m_workqueue = << >> /\ \A w \in Workers : ~InIO(w)
NoImprov == \A fd \in Fds : improv[fd] = 0
Spinning == mpc = "spin" \/ (mpc = "close" /\ mback = "spin")

Queued == /\ mpc = "spin" /\ m_workqueue = <<mfd>>
          /\ \A w \in Workers : ~InIO(w)
          /\ NoImprov
Served == /\ mpc = "spin" /\ m_workqueue = << >>
          /\ \E w \in Workers : /\ InIO(w) /\ wfd[w] = mfd
                                /\ \A v \in Workers : InIO(v) => v = w
          /\ NoImprov
Reported == /\ Spinning /\ PoolQuiet
            /\ \A fd \in Fds : improv[fd] = 1 <=> fd = mfd
Resting == ~Spinning /\ PoolQuiet /\ NoImprov

Turns ==
    /\ Spinning => m_actormodel = "reactor"
    /\ \A w \in Workers : InIO(w) => m_actormodel = "reactor"
    /\ m_actormodel = "reactor" => Queued \/ Served \/ Reported \/ Resting

USE DEF InIO, PoolQuiet, NoImprov, Spinning

(* Main hands over a request and takes the answer.                         *)
LEMMA TurnsMain ==
    ASSUME ServerAssumption, Inv, Turns, Main
    PROVE  Turns'
<1> USE DEF Turns, Queued, Served, Reported, Resting
<1>0. UNCHANGED <<m_actormodel, wpc, wfd>>
  BY DEF Main, EpollWait, BatchDone, DealClientData, AcceptFails, RefuseConn,
     AcceptConn, RegisterConn, DealTimerDone, SpinCloseDone, DealWithSignal,
     DealHup, ReadAndQueue, ReadAndClose, WriteAndAdjust, WriteAndClose,
     QueueAndSpin, SpinEnds, SpinCloses, ExpireTimer, ExpireTimerDone, TickDone,
     TimerRemoved, Handle
<1>1. ASSUME ~Spinning, ~Spinning', m_workqueue' = m_workqueue,
             \A fd \in Fds : improv'[fd] \in {0, improv[fd]}
      PROVE  Turns'
  BY <1>0, <1>1 DEF Inv, TypeOK, SlotsOK
<1>2. CASE \/ EpollWait \/ BatchDone \/ DealClientData \/ AcceptFails
           \/ \E c \in Conns : RefuseConn(c)
           \/ \E c \in Conns, fd \in Fds : AcceptConn(c, fd)
           \/ DealWithSignal \/ TickDone
  <2>1. /\ mpc \notin {"spin", "close"} /\ mpc' \notin {"spin", "close"}
        /\ UNCHANGED <<m_workqueue, improv>>
    BY <1>2 DEF EpollWait, BatchDone, DealClientData, AcceptFails, RefuseConn,
       AcceptConn, DealWithSignal, TickDone
  <2> QED
    BY <1>1, <2>1
<1>3. CASE RegisterConn
  <2>1. /\ mpc = "register" /\ mpc' \in {"batch", "accept"}
        /\ m_workqueue' = m_workqueue
        /\ improv' = [improv EXCEPT ![mfd] = 0]
    BY <1>3 DEF RegisterConn
  <2> QED
    BY <1>1, <2>1 DEF Inv, TypeOK, SlotsOK
<1>4. CASE DealTimerDone \/ ExpireTimerDone
  <2>1. /\ mpc = "close" /\ mback # "spin" /\ mpc' \in {"batch", "tick"}
        /\ UNCHANGED <<m_workqueue, improv>>
    BY <1>4 DEF DealTimerDone, ExpireTimerDone, TimerRemoved
  <2> QED
    BY <1>1, <2>1
<1>5. CASE SpinCloseDone
  <2>1. /\ mpc = "close" /\ mback = "spin" /\ mpc' = "batch"
        /\ m_workqueue' = m_workqueue /\ improv' = [improv EXCEPT ![mfd] = 0]
    BY <1>5 DEF SpinCloseDone, TimerRemoved
  <2>2. Reported
    BY <2>1
  <2> QED
    BY <1>0, <2>1, <2>2 DEF Inv, TypeOK, SlotsOK
<1>6. CASE SpinEnds
  <2>1. /\ mpc = "spin" /\ improv[mfd] = 1 /\ mpc' = "batch"
        /\ m_workqueue' = m_workqueue /\ improv' = [improv EXCEPT ![mfd] = 0]
    BY <1>6 DEF SpinEnds
  <2>2. Reported
    BY <2>1 DEF Inv
  <2> QED
    BY <1>0, <2>1, <2>2 DEF Inv, TypeOK, SlotsOK
<1>7. CASE SpinCloses
  <2>1. /\ mpc = "spin" /\ improv[mfd] = 1
        /\ mpc' = "close" /\ mback' = "spin" /\ mfd' = mfd
        /\ UNCHANGED <<m_workqueue, improv>>
    BY <1>7 DEF SpinCloses, CbFunc
  <2>2. Reported
    BY <2>1 DEF Inv
  <2> QED
    BY <1>0, <2>1, <2>2
<1>8. ASSUME NEW c \in Conns, ExpireTimer(c) PROVE Turns'
  <2>1. /\ mpc = "tick" /\ mpc' = "close" /\ mback' = "tick"
        /\ UNCHANGED <<m_workqueue, improv>>
    BY <1>8 DEF ExpireTimer, CbFunc
  <2> QED
    BY <1>1, <2>1
<1>9. ASSUME NEW fd \in Fds,
             DealHup(fd) \/ ReadAndClose(fd) \/ WriteAndClose(fd)
      PROVE  Turns'
  <2>1. /\ mpc = "batch" /\ mpc' = "close" /\ mback' = "batch"
        /\ UNCHANGED <<m_workqueue, improv>>
    BY <1>9 DEF DealHup, ReadAndClose, WriteAndClose, Handle, CbFunc
  <2> QED
    BY <1>1, <2>1
<1>10. ASSUME NEW fd \in Fds, ReadAndQueue(fd) \/ WriteAndAdjust(fd)
       PROVE  Turns'
  <2>1. m_actormodel = "proactor" /\ mpc = "batch" /\ mpc' = "batch"
    BY <1>10 DEF ReadAndQueue, WriteAndAdjust, Handle
  <2> QED
    BY <1>0, <2>1
<1>11. ASSUME NEW fd \in Fds, QueueAndSpin(fd) PROVE Turns'
  <2>1. /\ m_actormodel = "reactor" /\ mpc = "batch"
        /\ mpc' = "spin" /\ mfd' = fd /\ improv' = improv /\ append(fd)
    BY <1>11 DEF QueueAndSpin, Handle
  <2>2. Resting
    BY <2>1
  <2>3. m_workqueue' = <<fd>>
    BY <2>1, <2>2 DEF append, HasRoom, ServerAssumption
  <2> QED
    BY <1>0, <2>1, <2>2, <2>3
<1> QED
  BY <1>2, <1>3, <1>4, <1>5, <1>6, <1>7, <1>8, <1>9, <1>10, <1>11 DEF Main

(* A worker takes the request, does its I/O and reports.                   *)
LEMMA TurnsWorker ==
    ASSUME ServerAssumption, Inv, Turns, NEW w \in Workers, Worker(w)
    PROVE  Turns'
<1> USE DEF Turns, Queued, Served, Reported, Resting
<1>0. UNCHANGED <<m_actormodel, mpc, mfd, mback>>
  BY DEF Worker, Take, WorkerReads, WorkerReadFails, WorkerWrites, WorkerFlags,
     ParseMore, ParseReply, ParseFails, UnsetSockfd, StoreCount, Rearm
<1>1. CASE Take(w)
  <2>1. /\ ~InIO(w) /\ m_workqueue # << >> /\ m_workqueue' = Tail(m_workqueue)
        /\ wfd' = [wfd EXCEPT ![w] = Head(m_workqueue)]
        /\ improv' = improv
    BY <1>1 DEF Take
  <2>2. \A v \in Workers \ {w} : wpc'[v] = wpc[v]
    BY <1>1 DEF Take, Inv, TypeOK, PoolOK
  <2>3. CASE m_actormodel = "proactor"
    <3>1. wpc'[w] = "parse"
      BY <1>1, <2>3 DEF Take, Inv, TypeOK, PoolOK
    <3> QED
      BY <1>0, <2>2, <2>3, <3>1
  <2>4. CASE m_actormodel = "reactor"
    <3>1. Queued
      BY <2>1, <2>4
    <3>2. mfd \in Fds /\ Head(m_workqueue) = mfd /\ m_workqueue' = << >>
      BY <2>1, <3>1 DEF Inv
    <3>3. InIO(w)'
      <4>1. m_state[mfd] = 0 \/ m_state[mfd] = 1
        BY <3>2 DEF Inv, TypeOK, SlotsOK
      <4> QED
        BY <1>1, <2>4, <3>2, <4>1 DEF Take, Inv, TypeOK, PoolOK
    <3> QED
      BY <1>0, <2>1, <2>2, <2>4, <3>1, <3>2, <3>3 DEF Inv, TypeOK, PoolOK
  <2> QED
    BY <2>3, <2>4 DEF Inv, TypeOK, ConfigOK, ServerAssumption
<1>2. CASE WorkerReads(w) \/ WorkerReadFails(w) \/ WorkerWrites(w)
  <2>1. /\ InIO(w) /\ m_workqueue' = m_workqueue
        /\ improv' = [improv EXCEPT ![wfd[w]] = 1]
    BY <1>2 DEF WorkerReads, WorkerReadFails, WorkerWrites, IoDone
  <2>2. /\ wpc'[w] \in {"parse", "flag", "idle"}
        /\ \A v \in Workers \ {w} : wpc'[v] = wpc[v]
    BY <1>2 DEF WorkerReads, WorkerReadFails, WorkerWrites, WorkerGoes, Inv,
       TypeOK, PoolOK
  <2>3. Served
    BY <2>1
  <2>4. Reported'
    BY <1>0, <2>1, <2>2, <2>3 DEF Inv, TypeOK, SlotsOK
  <2> QED
    BY <1>0, <2>1, <2>2, <2>4
<1>3. CASE \/ WorkerFlags(w) \/ ParseMore(w) \/ ParseReply(w) \/ ParseFails(w)
           \/ UnsetSockfd(w) \/ StoreCount(w) \/ Rearm(w)
  <2>1. /\ ~InIO(w) /\ ~InIO(w)' /\ UNCHANGED <<m_workqueue, improv>>
        /\ \A v \in Workers \ {w} : wpc'[v] = wpc[v] /\ wfd'[v] = wfd[v]
    BY <1>3 DEF WorkerFlags, ParseMore, ParseReply, ParseFails, UnsetSockfd,
       StoreCount, Rearm, WorkerGoes, Inv, TypeOK, PoolOK
  <2> QED
    BY <1>0, <2>1
<1> QED
  BY <1>1, <1>2, <1>3 DEF Worker

LEMMA TurnsStep ==
    ASSUME ServerAssumption, Inv, Turns, [Next]_vars
    PROVE  Turns'
<1>1. CASE (\E c \in Conns : Client(c)) \/ Clock \/ UNCHANGED vars
  <2>1. UNCHANGED <<m_actormodel, mpc, mfd, mback, m_workqueue, improv, wpc, wfd>>
    BY <1>1 DEF Client, Connect, Send, Hangup, Clock, vars
  <2> QED
    BY <2>1 DEF Turns, Queued, Served, Reported, Resting
<1> QED
  BY <1>1, TurnsMain, TurnsWorker DEF Next

(* The reactor's main thread never busy-waits on a request that was        *)
(* dropped or already answered: it is queued, with a worker, or reported.  *)
THEOREM SpinIsServed == Spec => []SpinServed
<1>1. Init => Turns
  BY DEF Init, Turns, Resting
<1>2. Inv /\ Turns /\ [Next]_vars => Turns'
  BY ServerAssumption, TurnsStep
<1>3. Inv /\ Turns => SpinServed
  <2> SUFFICES ASSUME Inv, Turns, mpc = "spin"
               PROVE  \/ improv[mfd] = 1
                      \/ InQueue(mfd)
                      \/ \E w \in InWorker(mfd) : wpc[w] \in {"read", "write"}
    BY DEF SpinServed
  <2>1. mfd \in Fds /\ (Queued \/ Served \/ Reported)
    BY DEF Turns, Resting, Inv
  <2>2. CASE Queued
    <3>1. Len(m_workqueue) = 1 /\ m_workqueue[1] = mfd
      BY <2>2 DEF Queued
    <3> QED
      BY <3>1 DEF InQueue
  <2>3. CASE Served
    BY <2>3 DEF Served, InWorker
  <2>4. CASE Reported
    BY <2>1, <2>4 DEF Reported
  <2> QED
    BY <2>1, <2>2, <2>3, <2>4
<1>4. Spec => []Inv
  BY InvAlways
<1> QED
  BY <1>1, <1>2, <1>3, <1>4, PTL DEF Spec

-----------------------------------------------------------------------------
(* EPOLLONESHOT: the places of a slot, one against the other.  Alone is    *)
(* OneOwner without counting, which is what a step can be compared by.     *)
Busy(w, fd) == wpc[w] \notin {"idle", "flag"} /\ wfd[w] = fd
Armed(fd) == ep[fd] \in {"in", "out"}
Pending(fd) == ev[fd] # "none"

Alone(fd) ==
    /\ \A v, w \in Workers : Busy(v, fd) /\ Busy(w, fd) => v = w
    /\ \A i, j \in 1..Len(m_workqueue) :
         m_workqueue[i] = fd /\ m_workqueue[j] = fd => i = j
    /\ \A w \in Workers : Busy(w, fd) => ~InQueue(fd) /\ ~Armed(fd) /\ ~Pending(fd)
    /\ InQueue(fd) => ~Armed(fd) /\ ~Pending(fd)
    /\ Armed(fd) => ~Pending(fd)

Owners == \A fd \in Fds : ~reused[fd] => Alone(fd)

(* A slot that no new place refers to stays with the place it has.         *)
LEMMA AloneKept ==
    ASSUME NEW fd \in Fds, Alone(fd),
           \A w \in Workers : Busy(w, fd)' => Busy(w, fd),
           m_workqueue' = m_workqueue,
           Armed(fd)' => Armed(fd), Pending(fd)' => Pending(fd)
    PROVE  Alone(fd)'
BY DEF Alone, InQueue

(* write() re-arms its own slot, if any.                                   *)
LEMMA WriteElsewhere ==
    ASSUME NEW fd, ep \in [Fds -> {"none", "in", "out", "off"}],
           WriteOk(fd) \/ WriteFails(fd)
    PROVE  \A g \in Fds : g # fd => ep'[g] = ep[g]
<1>1. ASSUME NEW interest, modfd(fd, interest)
      PROVE  \A g \in Fds : g # fd => ep'[g] = ep[g]
  BY <1>1 DEF modfd
<1> QED
  BY <1>1 DEF WriteOk, WriteNothing, WriteAgain, WriteKept, WriteFails, WriteClosing,
     WriteError

(* An event passes the slot to the queue, or back to epoll.                *)
LEMMA AloneHandled ==
    ASSUME NEW fd \in Fds, NEW g \in Fds, Alone(g), m_workqueue \in Seq(Fds),
           Pending(fd), g = fd => ~Pending(g)', g # fd => ev'[g] = ev[g],
           \/ append(fd) /\ ep' = ep
           \/ m_workqueue' = m_workqueue /\ (g # fd => ep'[g] = ep[g]),
           UNCHANGED <<wpc, wfd>>
    PROVE  Alone(g)'
<1>1. CASE append(fd) /\ ep' = ep
  <2>1. CASE ~HasRoom
    BY <1>1, <2>1 DEF append, Alone, InQueue, Armed, Pending, Busy
  <2>2. CASE HasRoom
    <3>1. /\ Len(m_workqueue') = Len(m_workqueue) + 1 /\ Len(m_workqueue) \in Nat
          /\ \A i \in 1..Len(m_workqueue) : m_workqueue'[i] = m_workqueue[i]
          /\ m_workqueue'[Len(m_workqueue) + 1] = fd
      BY <1>1, <2>2, AppendProperties, LenProperties DEF append
    <3>2. \A i \in 1..Len(m_workqueue') :
             i \in 1..Len(m_workqueue) \/ i = Len(m_workqueue) + 1
      BY <3>1
    <3>3. g = fd => \A i \in 1..Len(m_workqueue) : m_workqueue[i] # g
      BY DEF Alone, InQueue
    <3>4. \A i, j \in 1..Len(m_workqueue') :
             m_workqueue'[i] = g /\ m_workqueue'[j] = g => i = j
      BY <3>1, <3>2, <3>3 DEF Alone
    <3>5. g # fd => (InQueue(g)' => InQueue(g))
      BY <3>1, <3>2 DEF InQueue
    <3> QED
      BY <1>1, <3>4, <3>5 DEF Alone, Armed, Pending, Busy
  <2> QED
    BY <2>1, <2>2
<1>2. CASE m_workqueue' = m_workqueue /\ (g # fd => ep'[g] = ep[g])
  BY <1>2 DEF Alone, InQueue, Armed, Pending, Busy
<1> QED
  BY <1>1, <1>2

LEMMA OwnersMain ==
    ASSUME ServerAssumption, Inv, Owners, Main
    PROVE  Owners'
<1> USE DEF Owners
<1>0. /\ UNCHANGED <<wpc, wfd>> /\ m_workqueue \in Seq(Fds)
      /\ ev \in [Fds -> Kinds] /\ ep \in [Fds -> {"none", "in", "out", "off"}]
      /\ sock \in [Fds -> Conns \cup {NoConn}]
  BY DEF Main, EpollWait, BatchDone, DealClientData, AcceptFails, RefuseConn,
     AcceptConn, RegisterConn, DealTimerDone, SpinCloseDone, DealWithSignal,
     DealHup, ReadAndQueue, ReadAndClose, WriteAndAdjust, WriteAndClose,
     QueueAndSpin, SpinEnds, SpinCloses, ExpireTimer, ExpireTimerDone, TickDone,
     TimerRemoved, Handle, Inv, TypeOK, PoolOK, MainOK, KernelOK
<1>1. ASSUME m_workqueue' = m_workqueue, reused' = reused,
             \A g \in Fds : /\ ep'[g] \in {"none", ep[g]}
                            /\ ev'[g] \in {"none", ev[g]}
      PROVE  Owners'
  BY <1>0, <1>1, AloneKept DEF Busy, Armed, Pending
<1>2. CASE \/ BatchDone \/ DealClientData \/ AcceptFails
           \/ \E c \in Conns : RefuseConn(c)
           \/ RegisterConn \/ DealTimerDone \/ SpinCloseDone \/ DealWithSignal
           \/ SpinEnds \/ ExpireTimerDone \/ TickDone
  <2>1. UNCHANGED <<m_workqueue, reused, ep, ev>>
    BY <1>2 DEF BatchDone, DealClientData, AcceptFails, RefuseConn, RegisterConn,
       DealTimerDone, SpinCloseDone, DealWithSignal, SpinEnds, ExpireTimerDone,
       TickDone, TimerRemoved
  <2> QED
    BY <1>1, <2>1
<1>3. CASE \/ SpinCloses \/ \E c \in Conns : ExpireTimer(c)
           \/ \E fd \in Fds : DealHup(fd) \/ ReadAndClose(fd) \/ WriteAndClose(fd)
  <2>1. /\ m_workqueue' = m_workqueue /\ reused' = reused
        /\ \E h : CloseFd(h)
        /\ ev' = ev \/ \E fd \in Fds : ev' = [ev EXCEPT ![fd] = "none"]
    BY <1>3 DEF SpinCloses, ExpireTimer, DealHup, ReadAndClose, WriteAndClose,
       Handle, CbFunc
  <2>2. PICK h : ep' = [ep EXCEPT ![h] = "none"]
    BY <2>1 DEF CloseFd
  <2> QED
    BY <1>0, <1>1, <2>1, <2>2
<1>4. CASE EpollWait
  <2>1. PICK writable \in SUBSET {fd \in Fds : ep[fd] = "out"} :
           /\ ev' = [fd \in Fds |-> Ready(fd, writable)]
           /\ Disarm([fd \in Fds |-> Ready(fd, writable)])
    BY <1>4 DEF EpollWait
  <2>2. \A fd \in Fds : /\ Pending(fd)' => Armed(fd) /\ ~Armed(fd)'
                        /\ Armed(fd)' => Armed(fd)
    BY <2>1 DEF Ready, Disarm, Pending, Armed
  <2>3. UNCHANGED <<m_workqueue, reused>>
    BY <1>4 DEF EpollWait
  <2> QED
    BY <1>0, <2>2, <2>3 DEF Alone, InQueue, Busy
<1>5. ASSUME NEW c \in Conns, NEW fd \in Fds, AcceptConn(c, fd) PROVE Owners'
  <2>1. /\ m_workqueue' = m_workqueue /\ ev' = ev
        /\ reused' = [reused EXCEPT ![fd] = Referenced(fd)]
        /\ ep' = [ep EXCEPT ![fd] = "in"]
    BY <1>5 DEF AcceptConn
  <2>2. reused \in [Fds -> BOOLEAN]
    BY DEF Inv, TypeOK, PoolOK
  <2>3. ~reused'[fd] => Alone(fd)'
    <3>1. SUFFICES ASSUME ~Referenced(fd) PROVE Alone(fd)'
      BY <2>1, <2>2
    <3>2. /\ ~InQueue(fd) /\ ~Pending(fd) /\ \A w \in Workers : ~Busy(w, fd)
      BY <3>1 DEF Referenced, InWorker, Busy, Pending
    <3> QED
      BY <1>0, <2>1, <3>2 DEF Alone, InQueue, Busy, Pending
  <2>4. ASSUME NEW g \in Fds \ {fd}, ~reused'[g] PROVE Alone(g)'
    BY <1>0, <2>1, <2>2, <2>4 DEF Alone, InQueue, Busy, Armed, Pending
  <2> QED
    BY <2>3, <2>4
<1>6. ASSUME NEW fd \in Fds, ReadAndQueue(fd) \/ WriteAndAdjust(fd) \/ QueueAndSpin(fd)
      PROVE  Owners'
  <2>1. /\ reused' = reused /\ Pending(fd) /\ ev' = [ev EXCEPT ![fd] = "none"]
    BY <1>6 DEF ReadAndQueue, WriteAndAdjust, QueueAndSpin, Handle, Pending, Kinds
  <2>2. \/ append(fd) /\ ep' = ep
        \/ m_workqueue' = m_workqueue /\ \A g \in Fds : g # fd => ep'[g] = ep[g]
    <3>1. CASE WriteAndAdjust(fd)
      BY <1>0, <3>1, WriteElsewhere DEF WriteAndAdjust
    <3> QED
      BY <1>6, <3>1 DEF ReadAndQueue, QueueAndSpin
  <2>3. ASSUME NEW g \in Fds, ~reused'[g] PROVE Alone(g)'
    <3>1. Alone(g) /\ (g = fd => ~Pending(g)') /\ (g # fd => ev'[g] = ev[g])
      BY <1>0, <2>1, <2>3 DEF Pending
    <3> QED
      BY <1>0, <2>1, <2>2, <3>1, AloneHandled
  <2> QED
    BY <2>3
<1> QED
  BY <1>2, <1>3, <1>4, <1>5, <1>6 DEF Main

LEMMA OwnersWorker ==
    ASSUME ServerAssumption, Inv, Owners, NEW w \in Workers, Worker(w)
    PROVE  Owners'
<1> USE DEF Owners
<1>0. /\ m_workqueue \in Seq(Fds) /\ UNCHANGED <<reused, ev>>
      /\ wpc \in [Workers -> WorkPCs] /\ wfd \in [Workers -> Fds \cup {NoFd}]
      /\ ep \in [Fds -> {"none", "in", "out", "off"}]
  BY DEF Worker, Take, WorkerReads, WorkerReadFails, WorkerWrites, WorkerFlags,
     ParseMore, ParseReply, ParseFails, UnsetSockfd, StoreCount, Rearm,
     Inv, TypeOK, PoolOK, KernelOK
<1>1. CASE Take(w)
  <2>1. /\ wpc[w] = "idle" /\ m_workqueue # << >> /\ ep' = ep
        /\ wfd' = [wfd EXCEPT ![w] = Head(m_workqueue)]
        /\ m_workqueue' = Tail(m_workqueue)
        /\ \A v \in Workers \ {w} : wpc'[v] = wpc[v]
    BY <1>0, <1>1 DEF Take
  <2>2. /\ Len(m_workqueue) \in Nat \ {0} /\ Head(m_workqueue) = m_workqueue[1]
        /\ Len(m_workqueue') = Len(m_workqueue) - 1
        /\ \A i \in 1..Len(m_workqueue') : /\ m_workqueue'[i] = m_workqueue[i + 1]
                                           /\ i + 1 \in 1..Len(m_workqueue)
                                           /\ i + 1 # 1
    BY <1>0, <2>1, HeadTailProperties, LenProperties, EmptySeq
  <2>3. ASSUME NEW g \in Fds, ~reused[g] PROVE Alone(g)'
    <3>1. \A i, j \in 1..Len(m_workqueue') :
             m_workqueue'[i] = g /\ m_workqueue'[j] = g => i = j
      <4>1. SUFFICES ASSUME NEW i \in 1..Len(m_workqueue'), NEW j \in 1..Len(m_workqueue'),
                            m_workqueue[i + 1] = g, m_workqueue[j + 1] = g
                     PROVE  i = j
        BY <2>2
      <4>2. i + 1 = j + 1
        BY <2>2, <2>3, <4>1 DEF Alone
      <4> QED
        BY <4>2
    <3>2. InQueue(g)' => InQueue(g) /\ m_workqueue[1] # g
      <4>1. SUFFICES ASSUME NEW i \in 1..Len(m_workqueue'), m_workqueue[i + 1] = g
                     PROVE  InQueue(g) /\ m_workqueue[1] # g
        BY <2>2 DEF InQueue
      <4>2. 1 \in 1..Len(m_workqueue) /\ i + 1 \in 1..Len(m_workqueue) /\ i + 1 # 1
        BY <2>2
      <4>3. m_workqueue[1] # g
        BY <2>3, <4>1, <4>2 DEF Alone
      <4> QED
        BY <4>1, <4>2, <4>3 DEF InQueue
    <3>3. g = m_workqueue[1] => InQueue(g)
      BY <2>2 DEF InQueue
    <3>4. \A v \in Workers : Busy(v, g)' => Busy(v, g) \/ (v = w /\ g = m_workqueue[1])
      BY <1>0, <2>1, <2>2 DEF Busy
    <3> QED
      BY <1>0, <2>1, <2>3, <3>1, <3>2, <3>3, <3>4 DEF Alone, Armed, Pending
  <2> QED
    BY <1>0, <2>3
<1>2. CASE WorkerWrites(w) \/ Rearm(w)
  <2>1. /\ m_workqueue' = m_workqueue /\ Busy(w, wfd[w])
        /\ wpc'[w] \in {"idle", "flag"}
        /\ \A v \in Workers \ {w} : wpc'[v] = wpc[v] /\ wfd'[v] = wfd[v]
    BY <1>0, <1>2 DEF WorkerWrites, Rearm, WorkerGoes, Busy
  <2>2. \A g \in Fds : g # wfd[w] => ep'[g] = ep[g]
    <3>1. CASE WorkerWrites(w)
      BY <1>0, <3>1, WriteElsewhere DEF WorkerWrites
    <3>2. CASE Rearm(w)
      BY <1>0, <3>2 DEF Rearm, modfd
    <3> QED
      BY <1>2, <3>1, <3>2
  <2>3. ASSUME NEW g \in Fds, ~reused[g] PROVE Alone(g)'
    <3>1. \A v \in Workers : Busy(v, g)' => Busy(v, g) /\ v # w
      BY <2>1 DEF Busy
    <3>2. CASE g = wfd[w]
      BY <1>0, <2>1, <2>3, <3>1, <3>2 DEF Alone, InQueue, Pending, Armed
    <3>3. CASE g # wfd[w]
      BY <1>0, <2>1, <2>2, <2>3, <3>1, <3>3 DEF Alone, InQueue, Pending, Armed
    <3> QED
      BY <3>2, <3>3
  <2> QED
    BY <1>0, <2>3
<1>3. CASE \/ WorkerReads(w) \/ WorkerReadFails(w) \/ WorkerFlags(w)
           \/ ParseMore(w) \/ ParseReply(w) \/ ParseFails(w)
           \/ UnsetSockfd(w) \/ StoreCount(w)
  <2>1. /\ m_workqueue' = m_workqueue /\ wpc[w] # "idle"
        /\ wpc[w] = "flag" => wpc'[w] = "idle"
        /\ wpc'[w] = "idle" \/ wfd'[w] = wfd[w]
        /\ \A v \in Workers \ {w} : wpc'[v] = wpc[v] /\ wfd'[v] = wfd[v]
    BY <1>0, <1>3 DEF WorkerReads, WorkerReadFails, WorkerFlags, ParseMore,
       ParseReply, ParseFails, UnsetSockfd, StoreCount, WorkerGoes
  <2>2. ep' = ep \/ CloseFd(wfd[w])
    BY <1>3 DEF WorkerReads, WorkerReadFails, WorkerFlags, ParseMore,
       ParseReply, ParseFails, UnsetSockfd, StoreCount
  <2>3. \A g \in Fds : Armed(g)' => Armed(g)
    BY <1>0, <2>2 DEF CloseFd, Armed
  <2>4. \A g \in Fds, v \in Workers : Busy(v, g)' => Busy(v, g)
    BY <2>1 DEF Busy
  <2> QED
    BY <1>0, <2>1, <2>3, <2>4, AloneKept DEF Pending
<1> QED
  BY <1>1, <1>2, <1>3 DEF Worker

LEMMA OwnersAlways == Spec => []Owners
<1>1. Init => Owners
  <2> SUFFICES ASSUME Init, NEW fd \in Fds PROVE Alone(fd)
    BY DEF Owners
  <2>1. /\ \A w \in Workers : ~Busy(w, fd)
        /\ ~InQueue(fd) /\ ~Armed(fd) /\ ~Pending(fd)
    BY DEF Init, Busy, InQueue, Armed, Pending
  <2> QED
    BY <2>1 DEF Alone, InQueue
<1>2. Inv /\ Owners /\ [Next]_vars => Owners'
  <2> SUFFICES ASSUME Inv, Owners, [Next]_vars PROVE Owners'
    OBVIOUS
  <2>1. CASE (\E c \in Conns : Client(c)) \/ Clock \/ UNCHANGED vars
    <3>1. UNCHANGED <<ep, ev, m_workqueue, wpc, wfd, reused>>
      BY <2>1 DEF Client, Connect, Send, Hangup, Clock, vars
    <3> QED
      BY <3>1 DEF Owners, Alone, InQueue, Busy, Armed, Pending
  <2> QED
    BY <2>1, ServerAssumption, OwnersMain, OwnersWorker DEF Next
<1>3. Spec => []Inv
  BY InvAlways
<1> QED
  BY <1>1, <1>2, <1>3, PTL DEF Spec

LEMMA AtMostOne ==
    ASSUME NEW S, \A x, y \in S : x = y
    PROVE  Cardinality(S) \in {0, 1} /\ (S = {} => Cardinality(S) = 0)
<1>1. CASE S = {}
  BY <1>1, FS_EmptySet
<1>2. CASE S # {}
  <2>1. PICK x : S = {x}
    BY <1>2
  <2> QED
    BY <1>2, <2>1, FS_Singleton
<1> QED
  BY <1>1, <1>2

(* EPOLLONESHOT works: of a slot that no new client was given while it was *)
(* still in use, the worker that has it, the request queue, epoll and      *)
(* main's batch never have two copies, in either model and for any number  *)
(* of workers.                                                             *)
THEOREM OneOwnerHolds == Spec => []OneOwner
<1>1. Inv /\ Owners => OneOwner
  <2> SUFFICES ASSUME Inv, Owners, NEW fd \in Fds, ~reused[fd]
               PROVE  LET busy == {w \in InWorker(fd) : wpc[w] # "flag"}
                          queued == {i \in 1..Len(m_workqueue) : m_workqueue[i] = fd}
                          armed == {x \in {fd} : ep[x] \in {"in", "out"}}
                          event == {x \in {fd} : ev[x] # "none"}
                      IN  Cardinality(busy) + Cardinality(queued) + Cardinality(armed)
                            + Cardinality(event) <= 1
    BY DEF OneOwner
  <2> DEFINE busy == {w \in InWorker(fd) : wpc[w] # "flag"}
             queued == {i \in 1..Len(m_workqueue) : m_workqueue[i] = fd}
             armed == {x \in {fd} : ep[x] \in {"in", "out"}}
             event == {x \in {fd} : ev[x] # "none"}
  <2>1. Alone(fd)
    BY DEF Owners
  <2>2. /\ \A v, w \in busy : v = w
        /\ \A i, j \in queued : i = j
        /\ \A x, y \in armed : x = y
        /\ \A x, y \in event : x = y
    BY <2>1 DEF Alone, InWorker, Busy
  <2>3. /\ busy # {} => queued = {} /\ armed = {} /\ event = {}
        /\ queued # {} => armed = {} /\ event = {}
        /\ armed # {} => event = {}
    BY <2>1 DEF Alone, InWorker, Busy, InQueue, Armed, Pending
  <2>4. /\ Cardinality(busy) \in {0, 1} /\ (busy = {} => Cardinality(busy) = 0)
        /\ Cardinality(queued) \in {0, 1} /\ (queued = {} => Cardinality(queued) = 0)
        /\ Cardinality(armed) \in {0, 1} /\ (armed = {} => Cardinality(armed) = 0)
        /\ Cardinality(event) \in {0, 1} /\ (event = {} => Cardinality(event) = 0)
    <3> HIDE DEF busy, queued, armed, event
    <3> QED
      BY <2>2, AtMostOne
  <2> HIDE DEF busy, queued, armed, event
  <2>5. Cardinality(busy) + Cardinality(queued) + Cardinality(armed)
          + Cardinality(event) <= 1
    BY <2>3, <2>4
  <2> QED
    BY <2>5 DEF busy, queued, armed, event
<1> QED
  BY <1>1, InvAlways, OwnersAlways, PTL

-----------------------------------------------------------------------------
(* Whose bytes a slot holds.  AnswersOwnClient is inductive as it stands:  *)
(* the one moment it says nothing of a slot, between accept() and init(),  *)
(* ends with init() clearing it.                                           *)
Registering(fd) == mpc = "register" /\ mfd = fd

(* What every step but those two may do to a slot.                         *)
LEMMA AnswersKept ==
    ASSUME AnswersOwnClient, reused' = reused,
           \A g \in Fds :
              /\ sock'[g] \in {sock[g], NoConn}
              /\ Registering(g) => Registering(g)'
              /\ sock'[g] # NoConn => rbuf'[g] \in {rbuf[g], sock[g], NoConn}
              /\ resp'[g] # NoResp =>
                   \/ resp[g] # NoResp /\ resp'[g].src = resp[g].src
                   \/ rbuf[g] # NoConn /\ resp'[g].src = rbuf[g]
    PROVE  AnswersOwnClient'
BY DEF AnswersOwnClient, Registering

(* write() and read_once() take nothing from another client's slot.        *)
LEMMA WriteKeepsSource ==
    ASSUME SlotsOK, NEW fd, WriteOk(fd) \/ WriteFails(fd)
    PROVE  \A g \in Fds :
              /\ rbuf'[g] \in {rbuf[g], NoConn}
              /\ resp'[g] # NoResp => resp[g] # NoResp /\ resp'[g].src = resp[g].src
<1>1. CASE WriteNothing(fd) \/ WriteKept(fd)
  BY <1>1 DEF WriteNothing, WriteKept, ClearBuffers, SlotsOK
<1>2. CASE WriteAgain(fd)
  <2>1. PICK n \in 1..Chunks : resp' = [resp EXCEPT ![fd].left = n]
    BY <1>2 DEF WriteAgain
  <2>2. rbuf' = rbuf /\ resp[fd] # NoResp
    BY <1>2 DEF WriteAgain
  <2>3. fd \in Fds => resp[fd] \in Response
    BY <2>2 DEF SlotsOK
  <2>4. fd \in Fds => resp'[fd].src = resp[fd].src
    BY <2>1, <2>3 DEF SlotsOK, Response
  <2> QED
    BY <2>1, <2>2, <2>4 DEF SlotsOK
<1>3. CASE WriteClosing(fd) \/ WriteError(fd)
  BY <1>3 DEF WriteClosing, WriteError, SlotsOK
<1> QED
  BY <1>1, <1>2, <1>3 DEF WriteOk, WriteFails

LEMMA AnswersMain ==
    ASSUME ServerAssumption, Inv, AnswersOwnClient, Main
    PROVE  AnswersOwnClient'
<1>0. /\ rbuf \in [Fds -> Conns \cup {NoConn}] /\ resp \in [Fds -> Response \cup {NoResp}]
      /\ sock \in [Fds -> Conns \cup {NoConn}] /\ reused \in [Fds -> BOOLEAN] /\ SlotsOK
  BY DEF Inv, TypeOK, SlotsOK, KernelOK, PoolOK
<1>1. CASE \/ EpollWait \/ BatchDone \/ DealClientData \/ AcceptFails
           \/ \E c \in Conns : RefuseConn(c)
           \/ DealTimerDone \/ SpinCloseDone \/ DealWithSignal
           \/ SpinEnds \/ ExpireTimerDone \/ TickDone
  <2>1. mpc # "register" /\ UNCHANGED <<reused, sock, rbuf, resp>>
    BY <1>1 DEF EpollWait, BatchDone, DealClientData, AcceptFails, RefuseConn,
       DealTimerDone, SpinCloseDone, DealWithSignal, SpinEnds, ExpireTimerDone,
       TickDone, TimerRemoved
  <2> QED
    BY <2>1, AnswersKept DEF Registering
<1>2. CASE \/ SpinCloses \/ \E c \in Conns : ExpireTimer(c)
           \/ \E fd \in Fds : DealHup(fd) \/ ReadAndClose(fd) \/ WriteAndClose(fd)
  <2>1. /\ mpc # "register" /\ reused' = reused /\ rbuf' = rbuf
        /\ \E h : sock' = [sock EXCEPT ![h] = NoConn]
        /\ resp' = resp \/ \E h : resp' = [resp EXCEPT ![h] = NoResp]
    BY <1>2 DEF SpinCloses, ExpireTimer, DealHup, ReadAndClose, WriteAndClose,
       Handle, CbFunc, CloseFd
  <2>2. \A g \in Fds : sock'[g] \in {sock[g], NoConn} /\ resp'[g] \in {resp[g], NoResp}
    BY <1>0, <2>1
  <2> QED
    BY <2>1, <2>2, AnswersKept DEF Registering
<1>3. ASSUME NEW fd \in Fds, ReadAndQueue(fd) \/ WriteAndAdjust(fd) \/ QueueAndSpin(fd)
      PROVE  AnswersOwnClient'
  <2>1. mpc = "batch" /\ reused' = reused /\ sock' = sock
    BY <1>3 DEF ReadAndQueue, WriteAndAdjust, QueueAndSpin, Handle
  <2>2. \A g \in Fds :
           /\ rbuf'[g] \in {rbuf[g], sock[g], NoConn}
           /\ resp'[g] # NoResp => resp[g] # NoResp /\ resp'[g].src = resp[g].src
    <3>1. CASE ReadAndQueue(fd)
      BY <1>0, <3>1 DEF ReadAndQueue, ReadOk
    <3>2. CASE WriteAndAdjust(fd)
      BY <1>0, <3>2, WriteKeepsSource DEF WriteAndAdjust
    <3>3. CASE QueueAndSpin(fd)
      BY <3>3 DEF QueueAndSpin
    <3> QED
      BY <1>3, <3>1, <3>2, <3>3
  <2> QED
    BY <2>1, <2>2, AnswersKept DEF Registering
<1>4. ASSUME NEW c \in Conns, NEW fd \in Fds, AcceptConn(c, fd)
      PROVE  AnswersOwnClient'
  <2>1. /\ mpc = "accept" /\ mpc' = "register" /\ mfd' = fd
        /\ sock' = [sock EXCEPT ![fd] = c]
        /\ reused' = [reused EXCEPT ![fd] = Referenced(fd)]
        /\ UNCHANGED <<rbuf, resp>>
    BY <1>4 DEF AcceptConn
  <2>2. \A g \in Fds \ {fd} : sock'[g] = sock[g] /\ reused'[g] = reused[g]
    BY <1>0, <2>1
  <2> QED
    BY <2>1, <2>2 DEF AnswersOwnClient
<1>5. CASE RegisterConn
  <2>1. /\ mpc = "register" /\ mfd \in Fds
        /\ rbuf' = [rbuf EXCEPT ![mfd] = NoConn] /\ resp' = [resp EXCEPT ![mfd] = NoResp]
        /\ UNCHANGED <<sock, reused>>
    BY <1>5 DEF RegisterConn, ClearBuffers, Inv
  <2>2. rbuf'[mfd] = NoConn /\ resp'[mfd] = NoResp
    BY <1>0, <2>1
  <2>3. \A g \in Fds \ {mfd} : rbuf'[g] = rbuf[g] /\ resp'[g] = resp[g]
    BY <1>0, <2>1
  <2> QED
    BY <2>1, <2>2, <2>3 DEF AnswersOwnClient
<1> QED
  BY <1>1, <1>2, <1>3, <1>4, <1>5 DEF Main

LEMMA AnswersWorker ==
    ASSUME ServerAssumption, Inv, AnswersOwnClient, NEW w \in Workers, Worker(w)
    PROVE  AnswersOwnClient'
<1>0. /\ rbuf \in [Fds -> Conns \cup {NoConn}] /\ resp \in [Fds -> Response \cup {NoResp}]
      /\ sock \in [Fds -> Conns \cup {NoConn}] /\ SlotsOK
      /\ UNCHANGED <<reused, mpc, mfd>>
  BY DEF Inv, TypeOK, SlotsOK, KernelOK, Worker, Take, WorkerReads, WorkerReadFails,
     WorkerWrites, WorkerFlags, ParseMore, ParseReply, ParseFails, UnsetSockfd,
     StoreCount, Rearm
<1>1. CASE \/ Take(w) \/ WorkerReadFails(w) \/ WorkerFlags(w) \/ ParseMore(w)
           \/ ParseFails(w) \/ UnsetSockfd(w) \/ StoreCount(w) \/ Rearm(w)
  <2>1. /\ UNCHANGED <<rbuf, resp>>
        /\ sock' = sock \/ sock' = [sock EXCEPT ![wfd[w]] = NoConn]
    BY <1>1 DEF Take, WorkerReadFails, WorkerFlags, ParseMore, ParseFails, UnsetSockfd,
       StoreCount, Rearm, CloseFd
  <2>2. \A g \in Fds : sock'[g] \in {sock[g], NoConn}
    BY <1>0, <2>1
  <2> QED
    BY <1>0, <2>1, <2>2, AnswersKept DEF Registering
<1>2. CASE WorkerReads(w)
  <2>1. UNCHANGED <<sock, resp>> /\ \A g \in Fds : rbuf'[g] \in {rbuf[g], sock[g]}
    BY <1>0, <1>2 DEF WorkerReads, ReadOk
  <2> QED
    BY <1>0, <2>1, AnswersKept DEF Registering
<1>3. CASE WorkerWrites(w)
  <2>1. sock' = sock /\ (WriteOk(wfd[w]) \/ WriteFails(wfd[w]))
    BY <1>3 DEF WorkerWrites
  <2>2. \A g \in Fds :
           /\ rbuf'[g] \in {rbuf[g], NoConn}
           /\ resp'[g] # NoResp => resp[g] # NoResp /\ resp'[g].src = resp[g].src
    BY <1>0, <2>1, WriteKeepsSource
  <2> QED
    BY <1>0, <2>1, <2>2, AnswersKept DEF Registering
<1>4. CASE ParseReply(w)
  <2>1. PICK n \in 1..Chunks, keep \in BOOLEAN :
           resp' = [resp EXCEPT ![wfd[w]] =
                      [src |-> rbuf[wfd[w]], left |-> n, keep |-> keep]]
    BY <1>4 DEF ParseReply
  <2>2. UNCHANGED <<sock, rbuf>> /\ rbuf[wfd[w]] # NoConn
    BY <1>4 DEF ParseReply
  <2>3. \A g \in Fds : \/ resp'[g] = resp[g]
                       \/ rbuf[g] # NoConn /\ resp'[g].src = rbuf[g]
    BY <1>0, <2>1, <2>2
  <2> QED
    BY <1>0, <2>2, <2>3, AnswersKept DEF Registering
<1> QED
  BY <1>1, <1>2, <1>3, <1>4 DEF Worker

(* No client is sent another client's answer, or parsed together with      *)
(* another client's bytes, as long as its slot was free of work when it    *)
(* was given to it.                                                        *)
THEOREM AnswersGoHome == Spec => []AnswersOwnClient
<1>1. Init => AnswersOwnClient
  BY DEF Init, AnswersOwnClient
<1>2. Inv /\ AnswersOwnClient /\ [Next]_vars => AnswersOwnClient'
  <2> SUFFICES ASSUME Inv, AnswersOwnClient, [Next]_vars PROVE AnswersOwnClient'
    OBVIOUS
  <2>1. CASE (\E c \in Conns : Client(c)) \/ Clock \/ UNCHANGED vars
    <3>1. UNCHANGED <<sock, rbuf, resp, reused, mpc, mfd>>
      BY <2>1 DEF Client, Connect, Send, Hangup, Clock, vars
    <3> QED
      BY <3>1 DEF AnswersOwnClient
  <2> QED
    BY <2>1, ServerAssumption, AnswersMain, AnswersWorker DEF Next
<1> QED
  BY <1>1, <1>2, InvAlways, PTL DEF Spec

-----------------------------------------------------------------------------
(* When process_write never fails only main closes descriptors, and always *)
(* those of timers.  Steady: the timer in the list is that of the client   *)
(* that has its slot, and what is due when tick begins stays due.          *)
Steady ==
    /\ \A w \in Workers : wpc[w] \notin {"unset", "store"}
    /\ \A c \in lst : (mpc = "close" /\ mtimer = c) \/ sock[tfd[c]] = c
    /\ mpc = "register" => sock[mfd] = mtimer
    /\ \A c \in due : left[c] = 0

(* The descriptor that main is about to close is that of its timer.        *)
LEMMA CloseOwn ==
    ASSUME ServerAssumption, Inv, Steady,
           \/ SpinCloses \/ \E c \in Conns : ExpireTimer(c)
           \/ \E fd \in Fds : DealHup(fd) \/ ReadAndClose(fd) \/ WriteAndClose(fd)
    PROVE  /\ \E fd \in Fds, back \in {"batch", "spin", "tick"} :
                 /\ CbFunc(fd, sock[fd], back)
                 /\ sock[fd] \in lst /\ tfd[sock[fd]] = fd /\ Open(fd)
                 /\ back = "tick" => mpc = "tick" /\ sock[fd] \in due
           /\ mpc \in {"batch", "spin", "tick"}
           /\ UNCHANGED <<lst, tfd, left, due, wpc, m_user_count>>
<1>1. CASE SpinCloses
  <2>1. /\ mpc = "spin" /\ CbFunc(mfd, tptr[mfd], "spin")
        /\ UNCHANGED <<lst, tfd, left, due, wpc, m_user_count>>
    BY <1>1 DEF SpinCloses
  <2>2. mfd \in Fds /\ tptr[mfd] \in lst /\ tfd[tptr[mfd]] = mfd
    BY <2>1 DEF Inv
  <2>3. sock[mfd] = tptr[mfd]
    BY <2>1, <2>2 DEF Steady
  <2> QED
    BY <2>1, <2>2, <2>3 DEF Inv, TypeOK, TimersOK, ServerAssumption
<1>2. ASSUME NEW c \in Conns, ExpireTimer(c)
      PROVE  /\ tfd[c] \in Fds /\ sock[tfd[c]] = c /\ c \in lst /\ c \in due
             /\ CbFunc(tfd[c], c, "tick") /\ mpc = "tick"
             /\ UNCHANGED <<lst, tfd, left, due, wpc, m_user_count>>
  <2>1. /\ mpc = "tick" /\ c \in due /\ CbFunc(tfd[c], c, "tick")
        /\ UNCHANGED <<lst, tfd, left, due, wpc, m_user_count>>
    BY <1>2 DEF ExpireTimer
  <2>2. c \in lst /\ tfd[c] \in Fds
    BY <2>1 DEF Inv
  <2> QED
    BY <2>1, <2>2 DEF Steady
<1>3. ASSUME NEW fd \in Fds, DealHup(fd) \/ ReadAndClose(fd) \/ WriteAndClose(fd)
      PROVE  /\ sock[fd] = tptr[fd] /\ tptr[fd] \in lst /\ tfd[tptr[fd]] = fd
             /\ CbFunc(fd, tptr[fd], "batch") /\ mpc = "batch"
             /\ UNCHANGED <<lst, tfd, left, due, wpc, m_user_count>>
  <2>1. /\ mpc = "batch" /\ ev[fd] # "none" /\ CbFunc(fd, tptr[fd], "batch")
        /\ UNCHANGED <<lst, tfd, left, due, wpc, m_user_count>>
    BY <1>3 DEF DealHup, ReadAndClose, WriteAndClose, Handle
  <2>2. tptr[fd] \in lst /\ tfd[tptr[fd]] = fd
    BY <2>1 DEF Inv
  <2> QED
    BY <2>1, <2>2 DEF Steady
<1>4. lst \subseteq Conns /\ NoConn \notin Conns
  BY DEF Inv, TypeOK, TimersOK, ServerAssumption
<1> QED
  BY <1>1, <1>2, <1>3, <1>4

LEMMA SteadyMain ==
    ASSUME ServerAssumption, Inv, Steady, Main
    PROVE  Steady'
<1>0. /\ sock \in [Fds -> Conns \cup {NoConn}] /\ tfd \in [Conns -> Fds \cup {NoFd}]
      /\ left \in [Conns -> 0..Lease] /\ lst \subseteq Conns /\ wpc' = wpc
      /\ NoFd \notin Fds /\ NoConn \notin Conns /\ due \subseteq Conns
  BY DEF Inv, TypeOK, KernelOK, TimersOK, MainOK, ServerAssumption, Main, EpollWait,
     BatchDone, DealClientData, AcceptFails, RefuseConn, AcceptConn, RegisterConn,
     DealTimerDone, SpinCloseDone, DealWithSignal, DealHup, ReadAndQueue,
     ReadAndClose, WriteAndAdjust, WriteAndClose, QueueAndSpin, SpinEnds,
     SpinCloses, ExpireTimer, ExpireTimerDone, TickDone, TimerRemoved, Handle
<1>1. CASE \/ EpollWait \/ BatchDone \/ DealClientData \/ AcceptFails
           \/ \E c \in Conns : RefuseConn(c)
           \/ DealWithSignal \/ SpinEnds \/ TickDone
  <2>1. /\ mpc \notin {"register", "close"} /\ mpc' \notin {"register", "close"}
        /\ UNCHANGED <<sock, lst, tfd, left>>
        /\ due' = due \/ due' = {} \/ due' = {c \in lst : left[c] = 0}
    BY <1>1 DEF EpollWait, BatchDone, DealClientData, AcceptFails, RefuseConn,
       DealWithSignal, SpinEnds, TickDone
  <2> QED
    BY <1>0, <2>1 DEF Steady
<1>2. CASE DealTimerDone \/ SpinCloseDone \/ ExpireTimerDone
  <2>1. /\ mpc = "close" /\ mpc' \in {"batch", "tick"}
        /\ lst' = lst \ {mtimer} /\ tfd' = [tfd EXCEPT ![mtimer] = NoFd]
        /\ left' = [left EXCEPT ![mtimer] = 0] /\ due' \subseteq due /\ sock' = sock
    BY <1>2 DEF DealTimerDone, SpinCloseDone, ExpireTimerDone, TimerRemoved, DelTimer
  <2> QED
    BY <1>0, <2>1 DEF Steady
<1>3. CASE \/ SpinCloses \/ \E c \in Conns : ExpireTimer(c)
           \/ \E fd \in Fds : DealHup(fd) \/ ReadAndClose(fd) \/ WriteAndClose(fd)
  <2>1. PICK fd \in Fds, back \in {"batch", "spin", "tick"} :
           CbFunc(fd, sock[fd], back) /\ sock[fd] \in lst /\ Open(fd)
    BY <1>3, CloseOwn
  <2>2. /\ mpc \in {"batch", "spin", "tick"} /\ mpc' = "close" /\ mtimer' = sock[fd]
        /\ sock' = [sock EXCEPT ![fd] = NoConn] /\ UNCHANGED <<lst, tfd, left, due>>
    BY <1>3, <2>1, CloseOwn DEF CbFunc, CloseFd
  <2> QED
    BY <1>0, <2>1, <2>2 DEF Steady
<1>4. ASSUME NEW fd \in Fds, ReadAndQueue(fd) \/ WriteAndAdjust(fd) \/ QueueAndSpin(fd)
      PROVE  Steady'
  <2>1. /\ mpc = "batch" /\ mpc' \in {"batch", "spin"}
        /\ UNCHANGED <<sock, lst, tfd, due>>
    BY <1>4 DEF ReadAndQueue, WriteAndAdjust, QueueAndSpin, Handle
  <2>2. due = {}
    BY <2>1 DEF Inv
  <2> QED
    BY <1>0, <2>1, <2>2 DEF Steady
<1>5. ASSUME NEW c \in Conns, NEW fd \in Fds, AcceptConn(c, fd) PROVE Steady'
  <2>1. /\ mpc = "accept" /\ mpc' = "register" /\ mfd' = fd /\ mtimer' = c
        /\ sock' = [sock EXCEPT ![fd] = c] /\ ~Open(fd)
        /\ UNCHANGED <<lst, tfd, left, due>>
    BY <1>5 DEF AcceptConn
  <2> QED
    BY <1>0, <2>1 DEF Steady
<1>6. CASE RegisterConn
  <2>1. /\ mpc = "register" /\ mpc' \in {"batch", "accept"} /\ mfd \in Fds /\ mtimer \in Conns
        /\ lst' = lst \cup {mtimer} /\ tfd' = [tfd EXCEPT ![mtimer] = mfd]
        /\ left' = [left EXCEPT ![mtimer] = Lease] /\ UNCHANGED <<sock, due>>
    BY <1>6 DEF RegisterConn, AddTimer, Inv
  <2>2. due = {}
    BY <2>1 DEF Inv
  <2> QED
    BY <1>0, <2>1, <2>2 DEF Steady
<1> QED
  BY <1>1, <1>2, <1>3, <1>4, <1>5, <1>6 DEF Main

(* Without a failing process_write no worker closes a descriptor.          *)
LEMMA WorkersClose ==
    ASSUME "fail" \notin Outcomes, ServerAssumption, Inv, Steady,
           NEW w \in Workers, Worker(w)
    PROVE  /\ UNCHANGED <<sock, m_user_count, lst, tfd, left, due, mpc, mfd, mtimer, mcnt>>
           /\ wpc'[w] \notin {"unset", "store"}
           /\ \A v \in Workers \ {w} : wpc'[v] = wpc[v]
<1>0. wpc \in [Workers -> WorkPCs]
  BY DEF Inv, TypeOK, PoolOK
<1>1. CASE Take(w)
  <2>1. wpc'[w] \in {"parse", "read", "write"}
    <3>1. Head(m_workqueue) \in Fds
      BY <1>1, HeadTailProperties DEF Take, Inv, TypeOK, PoolOK
    <3>2. \/ m_actormodel = "proactor"
          \/ m_actormodel = "reactor" /\ m_state[Head(m_workqueue)] = 0
          \/ m_actormodel = "reactor" /\ m_state[Head(m_workqueue)] = 1
      BY <3>1 DEF ServerAssumption, Inv, TypeOK, ConfigOK, SlotsOK
    <3> QED
      BY <1>0, <1>1, <3>2 DEF Take
  <2> QED
    BY <1>0, <1>1, <2>1 DEF Take
<1>2. CASE WorkerReads(w) \/ WorkerReadFails(w) \/ WorkerWrites(w) \/ WorkerFlags(w)
  BY <1>0, <1>2 DEF WorkerReads, WorkerReadFails, WorkerWrites, WorkerFlags, WorkerGoes
<1>3. CASE ParseMore(w) \/ ParseReply(w) \/ Rearm(w)
  BY <1>0, <1>3 DEF ParseMore, ParseReply, Rearm, WorkerGoes
<1>4. CASE ParseFails(w) \/ UnsetSockfd(w) \/ StoreCount(w)
  BY <1>4 DEF ParseFails, UnsetSockfd, StoreCount, Steady
<1> QED
  BY <1>1, <1>2, <1>3, <1>4 DEF Worker

LEMMA SteadyStep ==
    ASSUME "fail" \notin Outcomes, ServerAssumption, Inv, Steady, [Next]_vars
    PROVE  Steady'
<1>1. ASSUME NEW w \in Workers, Worker(w) PROVE Steady'
  BY <1>1, WorkersClose DEF Steady
<1>2. CASE Clock
  <2>1. UNCHANGED <<sock, lst, tfd, mpc, mfd, mtimer, due, wpc>>
        /\ left' = [c \in Conns |-> IF left[c] = 0 THEN 0 ELSE left[c] - 1]
    BY <1>2 DEF Clock
  <2>2. due \subseteq Conns
    BY DEF Inv, TypeOK, MainOK
  <2> QED
    BY <2>1, <2>2 DEF Steady
<1>3. CASE (\E c \in Conns : Client(c)) \/ UNCHANGED vars
  <2>1. UNCHANGED <<sock, lst, tfd, left, mpc, mfd, mtimer, due, wpc>>
    BY <1>3 DEF Client, Connect, Send, Hangup, vars
  <2> QED
    BY <2>1 DEF Steady
<1> QED
  BY <1>1, <1>2, <1>3, SteadyMain DEF Next

LEMMA SteadyAlways ==
    ASSUME "fail" \notin Outcomes
    PROVE  Spec => []Steady
<1>1. Init => Steady
  BY DEF Init, Steady
<1>2. Inv /\ Steady /\ [Next]_vars => Steady'
  BY ServerAssumption, SteadyStep
<1> QED
  BY <1>1, <1>2, InvAlways, PTL DEF Spec

(* While process_write does not fail a tick never closes a connection      *)
(* whose lease has not run out: the 3 * TIMESLOT since data last moved     *)
(* are the client's.                                                       *)
THEOREM LeasesRespected ==
    ASSUME "fail" \notin Outcomes
    PROVE  Spec => LeaseRespected
<1>1. Inv /\ Steady /\ [Next]_vars =>
        [\A fd \in Fds : TickCloses(fd) /\ Open(fd) => left[sock[fd]] = 0]_vars
  <2> SUFFICES ASSUME Inv, Steady, Next, NEW fd \in Fds, TickCloses(fd), Open(fd)
               PROVE  left[sock[fd]] = 0
    BY DEF vars
  <2>1. PICK c \in Conns : ExpireTimer(c)
    BY DEF TickCloses, Next, Main, EpollWait, BatchDone, DealClientData, AcceptFails,
       RefuseConn, AcceptConn, RegisterConn, DealTimerDone, SpinCloseDone,
       TimerRemoved, DealWithSignal, DealHup, ReadAndQueue, ReadAndClose,
       WriteAndAdjust, WriteAndClose, QueueAndSpin, Handle, SpinEnds, SpinCloses,
       ExpireTimerDone, TickDone, Worker, Take, WorkerReads, WorkerReadFails,
       WorkerWrites, WorkerFlags, ParseMore, ParseReply, ParseFails, UnsetSockfd,
       StoreCount, Rearm, Client, Connect, Send, Hangup, Clock
  <2>2. c \in due /\ mpc = "tick" /\ fd = tfd[c]
    BY <2>1 DEF ExpireTimer, CbFunc, TickCloses
  <2>3. c \in lst
    BY <2>2 DEF Inv
  <2> QED
    BY <2>2, <2>3 DEF Steady
<1> QED
  BY <1>1, InvAlways, SteadyAlways, PTL DEF Spec, LeaseRespected

-----------------------------------------------------------------------------
(* m_user_count, with the halves of ++ and -- that main may be between.    *)
Users == {fd \in Fds : Open(fd)}

Counted ==
    /\ IsFiniteSet(Users)
    /\ m_user_count = CASE mpc = "register" -> Cardinality(Users) - 1
                        [] mpc = "close" -> Cardinality(Users) + 1
                        [] OTHER -> Cardinality(Users)
    /\ mpc \in {"register", "close"} => mcnt = m_user_count

LEMMA CountedMain ==
    ASSUME ServerAssumption, Inv, Steady, Counted, Main
    PROVE  Counted'
<1>0. /\ sock \in [Fds -> Conns \cup {NoConn}] /\ NoConn \notin Conns
      /\ IsFiniteSet(Users) /\ Cardinality(Users) \in Nat
  BY FS_CardinalityType DEF Inv, TypeOK, KernelOK, ServerAssumption, Counted
<1>1. CASE \/ EpollWait \/ BatchDone \/ DealClientData \/ AcceptFails
           \/ \E c \in Conns : RefuseConn(c)
           \/ DealWithSignal \/ SpinEnds \/ TickDone
  <2>1. /\ mpc \notin {"register", "close"} /\ mpc' \notin {"register", "close"}
        /\ UNCHANGED <<sock, m_user_count>>
    BY <1>1 DEF EpollWait, BatchDone, DealClientData, AcceptFails, RefuseConn,
       DealWithSignal, SpinEnds, TickDone
  <2>2. Users' = Users
    BY <2>1 DEF Users
  <2> QED
    BY <2>1, <2>2 DEF Counted
<1>2. ASSUME NEW fd \in Fds, ReadAndQueue(fd) \/ WriteAndAdjust(fd) \/ QueueAndSpin(fd)
      PROVE  Counted'
  <2>1. /\ mpc = "batch" /\ mpc' \in {"batch", "spin"} /\ UNCHANGED <<sock, m_user_count>>
    BY <1>2 DEF ReadAndQueue, WriteAndAdjust, QueueAndSpin, Handle
  <2>2. Users' = Users
    BY <2>1 DEF Users
  <2> QED
    BY <2>1, <2>2 DEF Counted
<1>3. CASE RegisterConn \/ DealTimerDone \/ SpinCloseDone \/ ExpireTimerDone
  <2>1. /\ mpc' \notin {"register", "close"} /\ sock' = sock
        /\ \/ mpc = "register" /\ m_user_count' = mcnt + 1
           \/ mpc = "close" /\ m_user_count' = mcnt - 1
    BY <1>3 DEF RegisterConn, DealTimerDone, SpinCloseDone, ExpireTimerDone, TimerRemoved
  <2>2. Users' = Users
    BY <2>1 DEF Users
  <2> QED
    BY <1>0, <2>1, <2>2 DEF Counted
<1>4. ASSUME NEW c \in Conns, NEW fd \in Fds, AcceptConn(c, fd) PROVE Counted'
  <2>1. /\ mpc = "accept" /\ mpc' = "register" /\ fd \notin Users
        /\ sock' = [sock EXCEPT ![fd] = c]
        /\ m_user_count' = m_user_count /\ mcnt' = m_user_count
    BY <1>4 DEF AcceptConn, Users
  <2>2. Users' = Users \cup {fd}
    BY <1>0, <2>1 DEF Users
  <2>3. IsFiniteSet(Users') /\ Cardinality(Users') = Cardinality(Users) + 1
    BY <1>0, <2>1, <2>2, FS_AddElement
  <2> QED
    BY <1>0, <2>1, <2>3 DEF Counted
<1>5. CASE \/ SpinCloses \/ \E c \in Conns : ExpireTimer(c)
           \/ \E fd \in Fds : DealHup(fd) \/ ReadAndClose(fd) \/ WriteAndClose(fd)
  <2>1. PICK fd \in Fds, back \in {"batch", "spin", "tick"} :
           CbFunc(fd, sock[fd], back) /\ Open(fd)
    BY <1>5, CloseOwn
  <2>2. /\ mpc \in {"batch", "spin", "tick"} /\ mpc' = "close" /\ fd \in Users
        /\ sock' = [sock EXCEPT ![fd] = NoConn]
        /\ m_user_count' = m_user_count /\ mcnt' = m_user_count
    BY <1>5, <2>1, CloseOwn DEF CbFunc, CloseFd, Users
  <2>3. Users' = Users \ {fd}
    BY <1>0, <2>2 DEF Users
  <2>4. IsFiniteSet(Users') /\ Cardinality(Users') = Cardinality(Users) - 1
    BY <1>0, <2>2, <2>3, FS_RemoveElement
  <2> QED
    BY <1>0, <2>2, <2>4 DEF Counted
<1> QED
  BY <1>1, <1>2, <1>3, <1>4, <1>5 DEF Main

(* m_user_count is the number of open client sockets whenever no ++ or --  *)
(* of it is half done, as long as process_write does not fail: the ++ and  *)
(* -- of main alone never lose an update.                                  *)
THEOREM UserCountRight ==
    ASSUME "fail" \notin Outcomes
    PROVE  Spec => []UserCountExact
<1>1. Init => Counted
  <2> SUFFICES ASSUME Init PROVE Counted
    OBVIOUS
  <2>1. Users = {} /\ m_user_count = 0 /\ mpc = "wait"
    BY DEF Init, Users
  <2> QED
    BY <2>1, FS_EmptySet DEF Counted
<1>2. Inv /\ Steady /\ Counted /\ [Next]_vars => Counted'
  <2> SUFFICES ASSUME Inv, Steady, Counted, [Next]_vars PROVE Counted'
    OBVIOUS
  <2>1. CASE (\E c \in Conns : Client(c)) \/ Clock \/ (\E w \in Workers : Worker(w))
             \/ UNCHANGED vars
    <3>1. UNCHANGED <<sock, m_user_count, mpc, mcnt>>
      BY <2>1, ServerAssumption, WorkersClose DEF Client, Connect, Send, Hangup, Clock, vars
    <3>2. Users' = Users
      BY <3>1 DEF Users
    <3> QED
      BY <3>1, <3>2 DEF Counted
  <2> QED
    BY <2>1, ServerAssumption, CountedMain DEF Next
<1>3. Counted => UserCountExact
  BY DEF Counted, UserCountExact, Users
<1> QED
  BY <1>1, <1>2, <1>3, InvAlways, SteadyAlways, PTL DEF Spec
=============================================================================
