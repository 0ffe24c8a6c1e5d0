------------------------------- MODULE Reactor -------------------------------
(***************************************************************************)
(* main()'s loop (main.c) with what it shares with the worker threads: the *)
(* kernel's descriptors and their epoll registrations, one http_conn object*)
(* per descriptor (http/http_conn.cpp), the request queue and the timers.  *)
(*                                                                         *)
(* A connection is a number, given in the order of arrival; descriptors    *)
(* are used again.  The bytes of requests and responses are abstracted to  *)
(* the connection they belong to; m_workqueue is the bounded queue that    *)
(* ThreadPool implements; the heap of timers is a set from which tick()    *)
(* takes the expired ones.                                                 *)
(*                                                                         *)
(* Time: left[c] is the number of periods of TIMESLOT until the timer of   *)
(* connection c expires, 0 once it has expired.  An alarm that is set comes *)
(* at any time; TimeHeap says when.                                        *)
(***************************************************************************)
EXTENDS Integers, Sequences, FiniteSets

CONSTANTS Fds,           (* descriptors accept() can return                *)
          Workers,       (* the threads of the pool                        *)
          MaxConns,      (* bound: clients that connect                    *)
          MaxSends,      (* bound: pieces of requests the clients send     *)
          MAX_FD,        (* the limit accept compares m_user_count with    *)
          QueueLimit,    (* length at which append() refuses               *)
          Slots,         (* a timer is set Slots periods ahead             *)
          Outcomes       (* how process() may end, see ProcessRead         *)

Conns == 1..MaxConns
None  == 0

ASSUME ReactorAssumption ==
    /\ IsFiniteSet(Fds)
    /\ Fds \subseteq Nat
    /\ IsFiniteSet(Workers) /\ 0 \notin Workers
    /\ MaxConns \in Nat
    /\ MaxSends \in Nat
    /\ MAX_FD \in Nat
    /\ QueueLimit \in Nat
    /\ Slots \in Nat \ {0}
    /\ Outcomes \subseteq {"more", "file", "error", "missing"}

VARIABLES
    arrived,      (* clients that connected so far                         *)
    accepted,     (* connections accept() returned so far                  *)
    edge,         (* listenfd has an event to report                       *)
    open,         (* the connection behind each descriptor, or None        *)
    interest,     (* its epoll entry: none, off (ONESHOT spent), in or out *)
    alarm,        (* SIGALRM: "set", "none", or "lost" for decades         *)
    closers,      (* history: who has closed a descriptor whose http_conn  *)
                  (* was in the queue or with a worker, "main" or "worker" *)
    unread,       (* connections with bytes in their receive buffer        *)
    gone,         (* connections whose client closed                       *)
    sends,        (* pieces sent so far                                    *)
    m_sockfd,     (* is users[fd].m_sockfd set, or -1?                     *)
    request,      (* users[fd]: whose bytes the read buffer holds          *)
    reply,        (* users[fd]: whose response bytes_to_send counts        *)
    m_user_count,
    timer,        (* users_timer[fd].timer, named by its connection        *)
    heap,         (* timers in timer_lst                                   *)
    live,         (* timers whose cb_func is set                           *)
    slot,         (* user_data of a timer: the descriptor it closes        *)
    left,         (* periods until a timer expires                         *)
    m_workqueue,  (* descriptors whose object was appended                 *)
    mpc,          (* where main() is                                       *)
    batch,        (* client events of this epoll_wait() to handle          *)
    listening,    (* listenfd is among them                                *)
    timeout,      (* SIGALRM was read from the pipe                        *)
    hand,         (* the descriptor or timer main() works on               *)
    wpc,          (* where each worker is                                  *)
    obj,          (* the descriptor of the object it processes             *)
    reg           (* m_user_count as each thread loaded it; main() is 0    *)

clientVars == <<arrived, unread, gone, sends>>
kernelVars == <<accepted, edge, open, interest, alarm, closers>>
objectVars == <<m_sockfd, request, reply>>
timerVars  == <<timer, heap, live, slot, left>>
mainVars   == <<mpc, batch, listening, timeout, hand>>
workerVars == <<wpc, obj>>
countVars  == <<m_user_count, reg>>

vars == <<clientVars, kernelVars, objectVars, timerVars, m_workqueue, mainVars,
          workerVars, countVars>>

MainPC   == {"wait", "batch", "accept", "accepted", "closing", "tick", "firing", "alarm"}
WorkerPC == {"idle", "read", "armIn", "armOut", "close", "mark", "store"}
Event    == [fd : Fds, ev : {"in", "out", "hup"}]

Init ==
    /\ arrived = 0 /\ accepted = 0 /\ edge = FALSE
    /\ open = [fd \in Fds |-> None]
    /\ interest = [fd \in Fds |-> "none"]
    /\ alarm = "set" /\ closers = {}
    /\ unread = {} /\ gone = {} /\ sends = 0
    /\ m_sockfd = [fd \in Fds |-> FALSE]
    /\ request = [fd \in Fds |-> None]
    /\ reply = [fd \in Fds |-> None]
    /\ m_user_count = 0
    /\ timer = [fd \in Fds |-> None]
    /\ heap = {} /\ live = {}
    /\ slot = [c \in Conns |-> None]
    /\ left = [c \in Conns |-> 0]
    /\ m_workqueue = <<>>
    /\ mpc = "wait" /\ batch = {} /\ listening = FALSE /\ timeout = FALSE /\ hand = None
    /\ wpc = [w \in Workers |-> "idle"]
    /\ obj = [w \in Workers |-> None]
    /\ reg = [t \in Workers \cup {0} |-> 0]

Opened == {fd \in Fds : open[fd] # None}
InQueue(fd)    == \E i \in 1..Len(m_workqueue) : m_workqueue[i] = fd
Processing(fd) == {w \in Workers : wpc[w] # "idle" /\ obj[w] = fd}
Busy(fd)       == InQueue(fd) \/ Processing(fd) # {}
-----------------------------------------------------------------------------
(***************************************************************************)
(* Seeded faults: plausible mistakes in the code below, each checked to be *)
(* caught by one of the properties at the end of the module.  They are not *)
(* part of the specification.                                              *)
(***************************************************************************)
EpollWaitLevel(S, signal) ==   (* registered without EPOLLONESHOT          *)
    /\ mpc = "wait"
    /\ S # {} \/ edge \/ signal
    /\ signal => alarm = "set"
    /\ \A fd \in S : \/ interest[fd] = "in" /\ open[fd] \in unread \cup gone
                     \/ interest[fd] = "out"
    /\ batch' = {[fd |-> fd, ev |-> IF open[fd] \in gone THEN "hup" ELSE interest[fd]] : fd \in S}
    /\ listening' = edge
    /\ edge' = FALSE
    /\ timeout' = signal
    /\ alarm' = IF signal THEN "none" ELSE alarm
    /\ mpc' = "batch"
    /\ UNCHANGED <<clientVars, accepted, open, interest, closers, objectVars, timerVars,
                   m_workqueue, hand, workerVars, countVars>>

AddTimerNoPointer(fd, c) ==    (* users_timer[connfd].timer is not set     *)
    /\ slot' = [slot EXCEPT ![c] = fd]
    /\ left' = [left EXCEPT ![c] = Slots]
    /\ heap' = heap \cup {c}
    /\ live' = live \cup {c}
    /\ UNCHANGED timer

AddTimerLost(fd, c) ==         (* add_timer() is not called                *)
    /\ timer' = [timer EXCEPT ![fd] = c]
    /\ UNCHANGED <<slot, left, heap, live>>

AcceptedOnce ==                (* one accept() for an event of listenfd    *)
    /\ mpc = "accepted"
    /\ m_user_count' = reg[0] + 1
    /\ request' = [request EXCEPT ![hand] = None]
    /\ timer' = [timer EXCEPT ![hand] = accepted]
    /\ slot' = [slot EXCEPT ![accepted] = hand]
    /\ left' = [left EXCEPT ![accepted] = Slots]
    /\ heap' = heap \cup {accepted}
    /\ live' = live \cup {accepted}
    /\ mpc' = "batch"
    /\ hand' = None
    /\ UNCHANGED <<clientVars, kernelVars, m_sockfd, reply, m_workqueue, batch, listening,
                   timeout, workerVars, reg>>

ClosedKeepTimer ==             (* del_timer() is not called                *)
    /\ mpc = "closing"
    /\ m_user_count' = reg[0] - 1
    /\ mpc' = "batch"
    /\ hand' = None
    /\ UNCHANGED <<clientVars, kernelVars, objectVars, timerVars, m_workqueue, batch,
                   listening, timeout, workerVars, reg>>

FiredUncounted ==              (* cb_func() does not count                 *)
    /\ mpc = "firing"
    /\ heap' = heap \ {hand}
    /\ live' = live \ {hand}
    /\ mpc' = "tick"
    /\ hand' = None
    /\ UNCHANGED <<clientVars, kernelVars, objectVars, timer, slot, left, m_workqueue,
                   batch, listening, timeout, workerVars, countVars>>

TickFreeAny(c) ==              (* a timer is freed without its callback    *)
    /\ mpc = "tick"
    /\ c \in heap /\ left[c] = 0
    /\ heap' = heap \ {c}
    /\ live' = live \ {c}
    /\ UNCHANGED <<clientVars, kernelVars, objectVars, timer, slot, left, m_workqueue,
                   mainVars, workerVars, countVars>>

ProcessReadAdds(w, how) ==     (* bytes_to_send is added to, not set       *)
    /\ wpc[w] = "read"
    /\ request[obj[w]] = None => how = "more"
    /\ wpc' = [wpc EXCEPT ![w] = CASE how = "more"    -> "armIn"
                                   [] how = "missing" -> "close"
                                   [] OTHER           -> "armOut"]
    /\ reply' = IF how = "file" /\ reply[obj[w]] = None
                THEN [reply EXCEPT ![obj[w]] = request[obj[w]]] ELSE reply
    /\ UNCHANGED <<clientVars, kernelVars, m_sockfd, request, timerVars, m_workqueue,
                   mainVars, obj, countVars>>
-----------------------------------------------------------------------------
(* The clients.                                                            *)

Connect ==
    /\ arrived < MaxConns
    /\ arrived' = arrived + 1
    /\ edge' = TRUE
    /\ UNCHANGED <<unread, gone, sends, accepted, open, interest, alarm, closers, objectVars,
                   timerVars, m_workqueue, mainVars, workerVars, countVars>>

Send(c) ==
    /\ c <= arrived /\ c \notin gone
    /\ sends < MaxSends
    /\ sends' = sends + 1
    /\ unread' = unread \cup {c}
    /\ UNCHANGED <<arrived, gone, kernelVars, objectVars, timerVars, m_workqueue,
                   mainVars, workerVars, countVars>>

Leave(c) ==
    /\ c <= arrived /\ c \notin gone
    /\ gone' = gone \cup {c}
    /\ UNCHANGED <<arrived, unread, sends, kernelVars, objectVars, timerVars, m_workqueue,
                   mainVars, workerVars, countVars>>

(* A period of TIMESLOT passes.                                            *)
Clock ==
    /\ mpc \notin {"tick", "firing"}       \* tick() reads the clock once
    /\ \E c \in heap : left[c] > 0
    /\ left' = [c \in Conns |-> IF left[c] > 0 THEN left[c] - 1 ELSE 0]
    /\ UNCHANGED <<clientVars, kernelVars, objectVars, timer, heap, live, slot, m_workqueue,
                   mainVars, workerVars, countVars>>
-----------------------------------------------------------------------------
(* main(): epoll_wait().  A ONESHOT entry reports once, with EPOLLRDHUP if *)
(* the client closed.  A SIGALRM is reported through the pipe.             *)

Ready(fd) ==
    \/ interest[fd] = "in" /\ open[fd] \in unread \cup gone
    \/ interest[fd] = "out"

EventOf(fd) == [fd |-> fd, ev |-> IF open[fd] \in gone THEN "hup" ELSE interest[fd]]

EpollWait(S, signal) ==
    /\ mpc = "wait"
    /\ S # {} \/ edge \/ signal
    /\ signal => alarm = "set"
    /\ \A fd \in S : Ready(fd)
    /\ batch' = {EventOf(fd) : fd \in S}
    /\ interest' = [fd \in Fds |-> IF fd \in S THEN "off" ELSE interest[fd]]
    /\ listening' = edge
    /\ edge' = FALSE
    /\ timeout' = signal
    /\ alarm' = IF signal THEN "none" ELSE alarm
    /\ mpc' = "batch"
    /\ UNCHANGED <<clientVars, accepted, open, closers, objectVars, timerVars, m_workqueue,
                   hand, workerVars, countVars>>

(* After the events of the batch: timer_handler() if SIGALRM was among     *)
(* them.                                                                   *)
EndBatch ==
    /\ mpc = "batch"
    /\ batch = {} /\ ~listening
    /\ mpc' = IF timeout THEN "tick" ELSE "wait"
    /\ timeout' = FALSE
    /\ UNCHANGED <<clientVars, kernelVars, objectVars, timerVars, m_workqueue, batch,
                   listening, hand, workerVars, countVars>>
-----------------------------------------------------------------------------
(* main(): the accept loop of listenfd, edge triggered.                    *)

FreeFds == {fd \in Fds : open[fd] = None}

Listen ==
    /\ mpc = "batch" /\ listening
    /\ listening' = FALSE
    /\ mpc' = "accept"
    /\ UNCHANGED <<clientVars, kernelVars, objectVars, timerVars, m_workqueue, batch,
                   timeout, hand, workerVars, countVars>>

(* accept() fails, with EAGAIN or because no descriptor is left.           *)
AcceptFails ==
    /\ mpc = "accept"
    /\ accepted = arrived \/ FreeFds = {}
    /\ mpc' = "batch"
    /\ UNCHANGED <<clientVars, kernelVars, objectVars, timerVars, m_workqueue, batch,
                   listening, timeout, hand, workerVars, countVars>>

(* show_error() closes the connection, and the loop ends.                  *)
AcceptBusy ==
    /\ mpc = "accept"
    /\ accepted < arrived /\ FreeFds # {}
    /\ m_user_count >= MAX_FD
    /\ accepted' = accepted + 1
    /\ mpc' = "batch"
    /\ UNCHANGED <<clientVars, edge, open, interest, alarm, closers, objectVars, timerVars,
                   m_workqueue, batch, listening, timeout, hand, workerVars, countVars>>

(* accept() returns the lowest free descriptor; init(sockfd, addr) sets    *)
(* m_sockfd, registers it, and loads m_user_count to increment it.         *)
Accept ==
    /\ mpc = "accept"
    /\ accepted < arrived
    /\ m_user_count < MAX_FD
    /\ \E fd \in FreeFds :
          /\ \A other \in FreeFds : fd <= other
          /\ open' = [open EXCEPT ![fd] = accepted + 1]
          /\ interest' = [interest EXCEPT ![fd] = "in"]
          /\ m_sockfd' = [m_sockfd EXCEPT ![fd] = TRUE]
          /\ hand' = fd
    /\ accepted' = accepted + 1
    /\ reg' = [reg EXCEPT ![0] = m_user_count]
    /\ mpc' = "accepted"
    /\ UNCHANGED <<clientVars, edge, alarm, closers, request, reply, timerVars, m_workqueue,
                   batch, listening, timeout, workerVars, m_user_count>>

(* new heap_timer and add_timer().                                         *)
AddTimer(fd, c) ==
    /\ timer' = [timer EXCEPT ![fd] = c]
    /\ slot' = [slot EXCEPT ![c] = fd]
    /\ left' = [left EXCEPT ![c] = Slots]
    /\ heap' = heap \cup {c}
    /\ live' = live \cup {c}

(* The end of a step that stored m_user_count.                             *)
Done == hand' = None /\ reg' = [reg EXCEPT ![0] = 0]

(* The store of the count, init(), which forgets the bytes read but not    *)
(* bytes_to_send, and a new timer.                                         *)
Accepted ==
    /\ mpc = "accepted"
    /\ m_user_count' = reg[0] + 1
    /\ request' = [request EXCEPT ![hand] = None]
    /\ AddTimer(hand, accepted)
    /\ mpc' = "accept"
    /\ Done
    /\ UNCHANGED <<clientVars, kernelVars, m_sockfd, reply, m_workqueue, batch, listening,
                   timeout, workerVars>>
-----------------------------------------------------------------------------
(* main(): the events of a connection.                                     *)

(* cb_func(), up to the load of m_user_count it decrements.                *)
CloseFd(fd, next) ==
    /\ open' = [open EXCEPT ![fd] = None]
    /\ interest' = [interest EXCEPT ![fd] = "none"]
    /\ closers' = IF Busy(fd) THEN closers \cup {"main"} ELSE closers
    /\ reg' = [reg EXCEPT ![0] = m_user_count]
    /\ mpc' = next

(* timer->expire = cur + 3 * TIMESLOT, and adjust().                       *)
Delay(fd) == left' = [left EXCEPT ![timer[fd]] = Slots]

(* pool->append(): the request is dropped if the queue is full.            *)
AppendRequest(fd) ==
    m_workqueue' = IF Len(m_workqueue) > QueueLimit THEN m_workqueue
                                                    ELSE Append(m_workqueue, fd)

(* modfd(): the entry is armed again if there is one.                      *)
Modfd(fd, ev) ==
    interest' = IF m_sockfd[fd] /\ interest[fd] # "none"
                THEN [interest EXCEPT ![fd] = ev] ELSE interest

(* EPOLLRDHUP, a read_once() that fails, a write() that fails: the         *)
(* connection is closed, and so it is by a descriptor that is -1 or shut.  *)
HandleFailure(e) ==
    /\ mpc = "batch" /\ e \in batch
    /\ batch' = batch \ {e}
    /\ hand' = e.fd
    /\ CloseFd(e.fd, "closing")
    /\ UNCHANGED <<clientVars, accepted, edge, alarm, objectVars, timerVars, m_workqueue,
                   listening, timeout, workerVars, m_user_count>>

(* The store of the count, then del_timer().                               *)
Closed ==
    /\ mpc = "closing"
    /\ m_user_count' = reg[0] - 1
    /\ live' = live \ {timer[hand]}
    /\ mpc' = "batch"
    /\ Done
    /\ UNCHANGED <<clientVars, kernelVars, objectVars, timer, heap, slot, left, m_workqueue,
                   batch, listening, timeout, workerVars>>

(* read_once() drains the socket; append() may refuse, and nobody asks.    *)
HandleIn(e) ==
    /\ mpc = "batch" /\ e \in batch
    /\ e.ev = "in"
    /\ m_sockfd[e.fd] /\ open[e.fd] # None /\ open[e.fd] \notin gone
    /\ batch' = batch \ {e}
    /\ IF open[e.fd] \in unread
       THEN request' = [request EXCEPT ![e.fd] = open[e.fd]]
       ELSE UNCHANGED request
    /\ unread' = unread \ {open[e.fd]}
    /\ AppendRequest(e.fd)
    /\ Delay(e.fd)
    /\ UNCHANGED <<arrived, gone, sends, kernelVars, m_sockfd, reply, timer, heap, live,
                   slot, mpc, listening, timeout, hand, workerVars, countVars>>

(* write() with bytes_to_send = 0: read again, init().                     *)
HandleOutNothing(e) ==
    /\ mpc = "batch" /\ e \in batch
    /\ e.ev = "out"
    /\ reply[e.fd] = None
    /\ batch' = batch \ {e}
    /\ Modfd(e.fd, "in")
    /\ request' = [request EXCEPT ![e.fd] = None]
    /\ Delay(e.fd)
    /\ UNCHANGED <<clientVars, accepted, edge, open, alarm, closers, m_sockfd, reply, timer,
                   heap, live, slot, m_workqueue, mpc, listening, timeout, hand, workerVars,
                   countVars>>

Writing(e) ==
    /\ mpc = "batch" /\ e \in batch
    /\ e.ev = "out"
    /\ reply[e.fd] # None
    /\ m_sockfd[e.fd] /\ open[e.fd] # None
    /\ batch' = batch \ {e}

(* The whole response is sent on a connection to keep: init().             *)
HandleOutKeep(e) ==
    /\ Writing(e)
    /\ Modfd(e.fd, "in")
    /\ request' = [request EXCEPT ![e.fd] = None]
    /\ reply' = [reply EXCEPT ![e.fd] = None]
    /\ Delay(e.fd)
    /\ UNCHANGED <<clientVars, accepted, edge, open, alarm, closers, m_sockfd, timer, heap,
                   live, slot, m_workqueue, mpc, listening, timeout, hand, workerVars,
                   countVars>>

(* The whole response is sent on a connection to close: write() is false.  *)
HandleOutLast(e) ==
    /\ Writing(e)
    /\ reply' = [reply EXCEPT ![e.fd] = None]
    /\ hand' = e.fd
    /\ CloseFd(e.fd, "closing")
    /\ UNCHANGED <<clientVars, accepted, edge, alarm, m_sockfd, request, timerVars,
                   m_workqueue, listening, timeout, workerVars, m_user_count>>

(* The send buffer is full: wait for EPOLLOUT again.                       *)
HandleOutAgain(e) ==
    /\ Writing(e)
    /\ Modfd(e.fd, "out")
    /\ Delay(e.fd)
    /\ UNCHANGED <<clientVars, accepted, edge, open, alarm, closers, objectVars, timer, heap,
                   live, slot, m_workqueue, mpc, listening, timeout, hand, workerVars,
                   countVars>>
-----------------------------------------------------------------------------
(* main(): tick(), one expired timer after the other; timers that          *)
(* del_timer() left in the heap are only freed.                            *)

Expired == {c \in heap : left[c] = 0}

TickFire(c) ==
    /\ mpc = "tick"
    /\ c \in Expired \cap live
    /\ hand' = c
    /\ CloseFd(slot[c], "firing")
    /\ UNCHANGED <<clientVars, accepted, edge, alarm, objectVars, timerVars, m_workqueue,
                   batch, listening, timeout, workerVars, m_user_count>>

Fired ==
    /\ mpc = "firing"
    /\ m_user_count' = reg[0] - 1
    /\ heap' = heap \ {hand}
    /\ live' = live \ {hand}
    /\ mpc' = "tick"
    /\ Done
    /\ UNCHANGED <<clientVars, kernelVars, objectVars, timer, slot, left, m_workqueue,
                   batch, listening, timeout, workerVars>>

TickFree(c) ==
    /\ mpc = "tick"
    /\ c \in Expired \ live
    /\ heap' = heap \ {c}
    /\ UNCHANGED <<clientVars, kernelVars, objectVars, timer, live, slot, left, m_workqueue,
                   mainVars, workerVars, countVars>>

TickEnd ==
    /\ mpc = "tick"
    /\ Expired = {}
    /\ mpc' = "alarm"
    /\ UNCHANGED <<clientVars, kernelVars, objectVars, timerVars, m_workqueue, batch,
                   listening, timeout, hand, workerVars, countVars>>

(* timer_handler() reads the clock again: alarm() is called with the time  *)
(* to the first deadline, which 0 cancels and a negative number puts off.  *)
SetAlarm ==
    /\ mpc = "alarm"
    /\ alarm' = IF Expired = {} THEN "set" ELSE "lost"
    /\ mpc' = "wait"
    /\ UNCHANGED <<clientVars, accepted, edge, open, interest, closers, objectVars, timerVars,
                   m_workqueue, batch, listening, timeout, hand, workerVars, countVars>>
-----------------------------------------------------------------------------
(* The workers: run() takes an object, process() works on it.              *)

Take(w) ==
    /\ wpc[w] = "idle"
    /\ m_workqueue # <<>>
    /\ obj' = [obj EXCEPT ![w] = Head(m_workqueue)]
    /\ m_workqueue' = Tail(m_workqueue)
    /\ wpc' = [wpc EXCEPT ![w] = "read"]
    /\ UNCHANGED <<clientVars, kernelVars, objectVars, timerVars, mainVars, countVars>>

(* process_read() and process_wirte(): the request is not complete; or a   *)
(* file answers it; or an error page, or the page for an empty file, which *)
(* leave bytes_to_send as it was; or NO_RESOURCE, which process_wirte()    *)
(* has no answer for.  An empty read buffer is never a complete request.   *)
ProcessRead(w, how) ==
    /\ wpc[w] = "read"
    /\ request[obj[w]] = None => how = "more"
    /\ wpc' = [wpc EXCEPT ![w] = CASE how = "more"    -> "armIn"
                                   [] how = "missing" -> "close"
                                   [] OTHER           -> "armOut"]
    /\ reply' = IF how = "file" THEN [reply EXCEPT ![obj[w]] = request[obj[w]]] ELSE reply
    /\ UNCHANGED <<clientVars, kernelVars, m_sockfd, request, timerVars, m_workqueue,
                   mainVars, obj, countVars>>

(* The modfd() that ends process().                                        *)
Arm(w) ==
    /\ wpc[w] \in {"armIn", "armOut"}
    /\ Modfd(obj[w], IF wpc[w] = "armIn" THEN "in" ELSE "out")
    /\ wpc' = [wpc EXCEPT ![w] = "idle"]
    /\ obj' = [obj EXCEPT ![w] = None]
    /\ UNCHANGED <<clientVars, accepted, edge, open, alarm, closers, objectVars, timerVars,
                   m_workqueue, mainVars, countVars>>

(* close_conn(): removefd() if m_sockfd is not -1 ...                      *)
WorkerClose(w) ==
    /\ wpc[w] = "close"
    /\ IF m_sockfd[obj[w]]
       THEN /\ open' = [open EXCEPT ![obj[w]] = None]
            /\ interest' = [interest EXCEPT ![obj[w]] = "none"]
            /\ closers' = closers \cup {"worker"}
            /\ wpc' = [wpc EXCEPT ![w] = "mark"]
       ELSE /\ wpc' = [wpc EXCEPT ![w] = "armOut"]
            /\ UNCHANGED <<open, interest, closers>>
    /\ UNCHANGED <<clientVars, accepted, edge, alarm, objectVars, timerVars, m_workqueue,
                   mainVars, obj, countVars>>

(* ... m_sockfd = -1, and the load of m_user_count ...                     *)
WorkerMark(w) ==
    /\ wpc[w] = "mark"
    /\ m_sockfd' = [m_sockfd EXCEPT ![obj[w]] = FALSE]
    /\ reg' = [reg EXCEPT ![w] = m_user_count]
    /\ wpc' = [wpc EXCEPT ![w] = "store"]
    /\ UNCHANGED <<clientVars, kernelVars, request, reply, timerVars, m_workqueue, mainVars,
                   obj, m_user_count>>

(* ... and its store.  The timer of the connection stays as it was.        *)
WorkerStore(w) ==
    /\ wpc[w] = "store"
    /\ m_user_count' = reg[w] - 1
    /\ reg' = [reg EXCEPT ![w] = 0]
    /\ wpc' = [wpc EXCEPT ![w] = "armOut"]
    /\ UNCHANGED <<clientVars, kernelVars, objectVars, timerVars, m_workqueue, mainVars,
                   obj>>
-----------------------------------------------------------------------------
Clients == Connect \/ \E c \in Conns : Send(c) \/ Leave(c)

HandleToEnd(e) ==
    \/ HandleFailure(e)
    \/ HandleIn(e)
    \/ HandleOutNothing(e)
    \/ HandleOutKeep(e)
    \/ HandleOutLast(e)

Handle(e) == HandleToEnd(e) \/ HandleOutAgain(e)

Wait == \E S \in SUBSET Fds, signal \in BOOLEAN : EpollWait(S, signal)

MainStep ==
    \/ EndBatch
    \/ Listen \/ AcceptFails \/ AcceptBusy \/ Accept \/ Accepted
    \/ \E e \in batch : Handle(e)
    \/ Closed
    \/ \E c \in Conns : TickFire(c) \/ TickFree(c)
    \/ Fired \/ TickEnd \/ SetAlarm

Work(w) ==
    \/ Take(w)
    \/ \E how \in Outcomes : ProcessRead(w, how)
    \/ Arm(w)
    \/ WorkerClose(w) \/ WorkerMark(w) \/ WorkerStore(w)

Next == Clients \/ Clock \/ Wait \/ MainStep \/ \E w \in Workers : Work(w)

Spec == Init /\ [][Next]_vars

(***************************************************************************)
(* The scheduler runs main() and the workers; a queued request is taken,   *)
(* which ThreadPool shows of the pool; epoll_wait() has room for every     *)
(* event and leaves no ready descriptor out for ever; time passes, and an  *)
(* alarm comes if it is set; a response is finite and EPOLLOUT comes only  *)
(* when some of it can be sent, so write() does not answer EAGAIN for ever.*)
(* Nothing makes a client connect, send or leave.                          *)
(***************************************************************************)
Fairness ==
    /\ WF_vars(MainStep)
    /\ SF_vars(Clock)
    /\ WF_vars(Wait)
    /\ SF_vars(\E S \in SUBSET Fds : EpollWait(S, TRUE))
    /\ \A fd \in Fds :
          /\ SF_vars(\E S \in SUBSET Fds, signal \in BOOLEAN : fd \in S /\ EpollWait(S, signal))
          /\ SF_vars(\E e \in batch : e.fd = fd /\ HandleToEnd(e))
    /\ WF_vars(\E w \in Workers : Take(w))
    /\ \A w \in Workers :
          WF_vars((\E how \in Outcomes : ProcessRead(w, how)) \/ Arm(w)
                    \/ WorkerClose(w) \/ WorkerMark(w) \/ WorkerStore(w))

FairSpec == Spec /\ Fairness
-----------------------------------------------------------------------------
ClientsType ==
    /\ arrived \in 0..MaxConns /\ accepted \in 0..arrived /\ edge \in BOOLEAN
    /\ unread \subseteq 1..arrived /\ gone \subseteq 1..arrived /\ sends \in 0..MaxSends

ObjectsType ==
    /\ open \in [Fds -> 0..accepted]
    /\ interest \in [Fds -> {"none", "off", "in", "out"}]
    /\ m_sockfd \in [Fds -> BOOLEAN]
    /\ request \in [Fds -> 0..accepted]
    /\ reply \in [Fds -> 0..accepted]
    /\ alarm \in {"set", "none", "lost"} /\ closers \subseteq {"main", "worker"}

TimersType ==
    /\ timer \in [Fds -> 0..accepted]
    /\ heap \subseteq 1..accepted /\ live \subseteq heap
    /\ slot \in [Conns -> Fds \cup {None}]
    /\ left \in [Conns -> 0..Slots]

QueueType == m_workqueue \in Seq(Fds) /\ Len(m_workqueue) <= QueueLimit + 1

MainType ==
    /\ mpc \in MainPC /\ batch \subseteq Event
    /\ listening \in BOOLEAN /\ timeout \in BOOLEAN
    /\ hand \in Fds \cup Conns \cup {None}

WorkersType ==
    /\ wpc \in [Workers -> WorkerPC]
    /\ obj \in [Workers -> Fds \cup {None}]

CountType == m_user_count \in Int /\ reg \in [Workers \cup {0} -> Int]

(* The types, the bound of the request queue, and no timer or response of  *)
(* a connection that was not accepted yet.                                 *)
TypeOK ==
    /\ ClientsType
    /\ ObjectsType
    /\ TimersType
    /\ QueueType
    /\ MainType
    /\ WorkersType
    /\ CountType

(* users_timer[fd].timer is never reset, so it dangles once the timer is   *)
(* freed: whatever workers and clients do, it is not freed whenever main() *)
(* is about to follow it.                                                  *)
TimerPointerSafe ==
    /\ \A e \in batch : timer[e.fd] \in heap
    /\ mpc = "closing" => timer[hand] \in heap

(* A descriptor epoll may report has a timer that will close it, so no     *)
(* connection is kept for ever by a client that says nothing.              *)
RegisteredHasTimer ==
    \A fd \in Fds : interest[fd] # "none" =>
        (mpc = "accepted" /\ hand = fd) \/ timer[fd] \in live

(* ONESHOT in use: at any time an http_conn is armed in epoll, or has one  *)
(* event to handle, or one entry in the queue, or one worker; never two of *)
(* them, so main() and the workers need no lock for it.  This ends when a  *)
(* descriptor is closed under a worker or a queued request: by its timer,  *)
(* or by the worker itself for a missing file.  Nothing else ends it.      *)
OneOwner ==
    closers = {} =>
        \A fd \in Fds :
            LET armed    == IF interest[fd] \in {"in", "out"} THEN 1 ELSE 0
                reported == Cardinality({e \in batch : e.fd = fd})
                queued   == Cardinality({i \in 1..Len(m_workqueue) : m_workqueue[i] = fd})
            IN  armed + reported + queued + Cardinality(Processing(fd)) <= 1

(* A timer whose cb_func is set belongs to the connection its descriptor   *)
(* is open for, so that it closes that connection and no other, however    *)
(* late the workers are, as long as none closes a descriptor itself.       *)
TimerClosesItsConnection ==
    "worker" \notin closers =>
        \A c \in live : mpc \in {"closing", "firing"} \/ open[slot[c]] = c

(* A timer that fires closes no connection but its own.                    *)
TimerClosesNoOther ==
    mpc = "tick" => \A c \in Expired \cap live : open[slot[c]] \in {c, None}

(* m_user_count is the number of open connections, except while main() is  *)
(* between closing or opening one and counting it, as long as no worker    *)
(* closes a descriptor itself.                                             *)
CountIsOpen ==
    "worker" \notin closers /\ mpc \notin {"accepted", "closing", "firing"} =>
        m_user_count = Cardinality(Opened)

(* What main() writes to a connection answers that connection's request,   *)
(* until a descriptor is closed under its request.                         *)
ReplyIsOwn ==
    closers = {} => \A e \in batch : e.ev = "out" => reply[e.fd] = open[e.fd]

(* As long as descriptors and MAX_FD suffice, no client is left in the     *)
(* backlog: listenfd is edge triggered, but a connection that waits is     *)
(* still to be reported, or main() is on its way to accept it.             *)
BacklogAnnounced ==
    (Cardinality(Fds) >= MaxConns /\ MAX_FD >= MaxConns /\ accepted < arrived)
        => edge \/ listening \/ mpc \in {"accept", "accepted"}

IsOpen(c) == \E fd \in Fds : open[fd] = c

(* Every connection is closed in the end once its client sends no more,    *)
(* also one whose request append() refused or whose answer is never sent,  *)
(* unless timer_handler() has lost the alarm.                              *)
EveryConnectionEnds ==
    \A c \in Conns : IsOpen(c) ~> (~IsOpen(c) \/ alarm = "lost")
==============================================================================
