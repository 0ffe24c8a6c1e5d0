---------------------------- MODULE ReactorProofs ----------------------------
(***************************************************************************)
(* Theorems about Reactor for every set of descriptors and workers, every  *)
(* number of clients and every limit, whatever the outcomes of process()   *)
(* and however late the workers are.  Those about connections and about    *)
(* ownership hold until a descriptor is closed by a worker, or under one.  *)
(***************************************************************************)
EXTENDS Reactor, FiniteSetTheorems, SequenceTheorems, TLAPS

(* What main() holds at each place.                                        *)
Handling ==
    /\ mpc = "accepted" =>
         hand \in Fds /\ accepted >= 1 /\ \A fd \in Fds : timer[fd] # accepted
    /\ mpc = "closing" => hand \in Fds /\ interest[hand] = "none"
    /\ mpc = "firing"  => hand \in heap /\ interest[slot[hand]] = "none"
    /\ mpc \in {"wait", "tick", "firing", "alarm"} => batch = {} /\ ~listening

(* A worker that is not idle has an object.                                *)
Holding == \A w \in Workers : wpc[w] # "idle" => obj[w] \in Fds

(* Every descriptor's pointer leads to a timer made for this descriptor,   *)
(* and every timer of the heap has a descriptor to close.                  *)
TimerLinks ==
    /\ \A fd \in Fds : timer[fd] # None => slot[timer[fd]] = fd
    /\ \A c \in heap : slot[c] \in Fds

IInv == TypeOK /\ Handling /\ Holding /\ TimerLinks /\ TimerPointerSafe /\ RegisteredHasTimer

USE DEF None

(* The initial state satisfies the invariant.                              *)
LEMMA InitInv == Init => IInv
  <1> SUFFICES ASSUME Init PROVE IInv
    OBVIOUS
  <1> USE ReactorAssumption DEF Init
  <1>1. ClientsType
    <2>1. arrived \in 0..MaxConns /\ accepted \in 0..arrived /\ sends \in 0..MaxSends
      OBVIOUS
    <2>2. unread \subseteq 1..arrived /\ gone \subseteq 1..arrived /\ edge \in BOOLEAN
      OBVIOUS
    <2>3. QED
      BY <2>1, <2>2 DEF ClientsType
  <1>2. ObjectsType
    BY DEF ObjectsType
  <1>3. TimersType
    BY DEF TimersType
  <1>4. QueueType
    <2>1. m_workqueue \in Seq(Fds) /\ Len(m_workqueue) = 0
      OBVIOUS
    <2>2. QED
      BY <2>1 DEF QueueType
  <1>5. MainType /\ WorkersType /\ CountType
    <2>1. MainType
      BY DEF MainType, MainPC
    <2>2. WorkersType
      BY DEF WorkersType, WorkerPC
    <2>3. CountType
      BY DEF CountType
    <2>4. QED
      BY <2>1, <2>2, <2>3
  <1>6. Handling /\ Holding /\ TimerLinks
    BY DEF Handling, Holding, TimerLinks
  <1>7. TimerPointerSafe /\ RegisteredHasTimer
    BY DEF TimerPointerSafe, RegisteredHasTimer
  <1>8. QED
    BY <1>1, <1>2, <1>3, <1>4, <1>5, <1>6, <1>7 DEF IInv, TypeOK

(* Assigning a value of its range keeps the type of a function.            *)
LEMMA ExceptType ==
  ASSUME NEW S, NEW T, NEW f \in [S -> T], NEW x, NEW v \in T
  PROVE  [f EXCEPT ![x] = v] \in [S -> T]
  OBVIOUS

(* A connection is still one after another was accepted.                   *)
LEMMA WiderType ==
  ASSUME NEW S, NEW n \in Int, NEW f \in [S -> 0..n]
  PROVE  f \in [S -> 0..(n + 1)]
  OBVIOUS

(* None is a value of every variable that names a connection.              *)
LEMMA NoneIsConn == TypeOK => None \in 0..accepted /\ Slots \in 0..Slots
  BY ReactorAssumption DEF TypeOK, ClientsType

(* append() keeps the queue a sequence of descriptors, one entry longer    *)
(* than the limit at most.                                                 *)
LEMMA AppendType ==
  ASSUME QueueType, NEW fd \in Fds, AppendRequest(fd)
  PROVE  QueueType'
  <1>1. Len(m_workqueue) \in Nat /\ QueueLimit \in Nat
    BY ReactorAssumption DEF QueueType
  <1>2. CASE Len(m_workqueue) > QueueLimit
    BY <1>2 DEF AppendRequest, QueueType
  <1>3. CASE ~(Len(m_workqueue) > QueueLimit)
    <2>1. m_workqueue' = Append(m_workqueue, fd)
      BY <1>3 DEF AppendRequest
    <2>2. m_workqueue' \in Seq(Fds) /\ Len(m_workqueue') = Len(m_workqueue) + 1
      BY <2>1 DEF QueueType
    <2>3. QED
      BY <2>2, <1>1, <1>3 DEF QueueType
  <1>4. QED
    BY <1>2, <1>3

(* Taking the first entry leaves a shorter sequence of descriptors.        *)
LEMMA TakeType ==
  ASSUME QueueType, m_workqueue # <<>>
  PROVE  /\ Head(m_workqueue) \in Fds
         /\ Tail(m_workqueue) \in Seq(Fds)
         /\ Len(Tail(m_workqueue)) <= QueueLimit + 1
  <1>1. m_workqueue \in Seq(Fds) /\ Len(m_workqueue) \in Nat /\ QueueLimit \in Nat
    BY ReactorAssumption DEF QueueType
  <1>2. Head(m_workqueue) \in Fds /\ Tail(m_workqueue) \in Seq(Fds)
    BY <1>1
  <1>3. Len(Tail(m_workqueue)) = Len(m_workqueue) - 1
    BY <1>1
  <1>4. QED
    BY <1>1, <1>2, <1>3 DEF QueueType
-----------------------------------------------------------------------------
(* The clients and the clock disturb the types only.                       *)
LEMMA ClientsStep ==
  ASSUME IInv, Clients \/ Clock
  PROVE  IInv'
  <1> USE ReactorAssumption
  <1> USE DEF IInv, TypeOK, ClientsType, ObjectsType, TimersType, QueueType, MainType,
          WorkersType, CountType, clientVars, kernelVars, objectVars, timerVars, mainVars,
          workerVars, countVars
  <1>1. CASE Connect
    <2>1. TypeOK'
      <3>1. ClientsType'
        BY <1>1 DEF Connect
      <3>2. ObjectsType' /\ TimersType' /\ QueueType'
        BY <1>1 DEF Connect
      <3>3. MainType' /\ WorkersType' /\ CountType'
        BY <1>1 DEF Connect
      <3>4. QED
        BY <3>1, <3>2, <3>3
    <2>2. QED
      BY <1>1, <2>1 DEF Connect, Handling, Holding, TimerLinks, TimerPointerSafe,
            RegisteredHasTimer
  <1>2. ASSUME NEW c \in Conns, Send(c) PROVE IInv'
    <2>1. c \in 1..arrived
      BY <1>2 DEF Send, Conns
    <2>2. TypeOK'
      <3>1. sends' \in 0..MaxSends
        BY <1>2 DEF Send
      <3>2. QED
        BY <1>2, <2>1, <3>1 DEF Send
    <2>3. QED
      BY <1>2, <2>2 DEF Send, Handling, Holding, TimerLinks, TimerPointerSafe,
            RegisteredHasTimer
  <1>3. ASSUME NEW c \in Conns, Leave(c) PROVE IInv'
    <2>1. c \in 1..arrived
      BY <1>3 DEF Leave, Conns
    <2>2. TypeOK'
      BY <1>3, <2>1 DEF Leave
    <2>3. QED
      BY <1>3, <2>2 DEF Leave, Handling, Holding, TimerLinks, TimerPointerSafe,
            RegisteredHasTimer
  <1>4. CASE Clock
    <2>1. left' \in [Conns -> 0..Slots]
      <3>1. left' = [c \in Conns |-> IF left[c] > 0 THEN left[c] - 1 ELSE 0]
        BY <1>4 DEF Clock
      <3>2. \A c \in Conns : left[c] \in 0..Slots
        OBVIOUS
      <3>3. \A c \in Conns : (IF left[c] > 0 THEN left[c] - 1 ELSE 0) \in 0..Slots
        BY <3>2
      <3>4. QED
        BY <3>1, <3>3
    <2>2. TypeOK'
      <3>1. TimersType'
        BY <1>4, <2>1 DEF Clock
      <3>2. (ClientsType /\ ObjectsType /\ QueueType)'
        BY <1>4 DEF Clock
      <3>3. (MainType /\ WorkersType /\ CountType)'
        BY <1>4 DEF Clock
      <3>4. QED
        BY <3>1, <3>2, <3>3
    <2>3. (Handling /\ Holding)'
      BY <1>4 DEF Clock, Handling, Holding
    <2>4. (TimerLinks /\ TimerPointerSafe /\ RegisteredHasTimer)'
      BY <1>4 DEF Clock, TimerLinks, TimerPointerSafe, RegisteredHasTimer
    <2>5. QED
      BY <2>2, <2>3, <2>4
  <1>5. QED
    BY <1>1, <1>2, <1>3, <1>4 DEF Clients

(* epoll_wait() reports descriptors that have a timer, and starts with no  *)
(* event left over; the end of a batch leaves none.                        *)
LEMMA WaitStep ==
  ASSUME IInv, Wait \/ EndBatch
  PROVE  IInv'
  <1> USE ReactorAssumption
  <1> USE DEF IInv, TypeOK, ClientsType, ObjectsType, TimersType, QueueType, MainType,
          WorkersType, CountType, clientVars, kernelVars, objectVars, timerVars, mainVars,
          workerVars, countVars
  <1>1. ASSUME NEW S \in SUBSET Fds, NEW signal \in BOOLEAN, EpollWait(S, signal)
        PROVE  IInv'
    <2>1. batch' \subseteq Event
      BY <1>1 DEF EpollWait, Ready, EventOf, Event
    <2>2. TypeOK'
      BY <1>1, <2>1 DEF EpollWait, MainPC
    <2>3. (Handling /\ Holding /\ TimerLinks)'
      BY <1>1 DEF EpollWait, Handling, Holding, TimerLinks
    <2>4. \A fd \in Fds : interest'[fd] # "none" => interest[fd] # "none"
      BY <1>1 DEF EpollWait, Ready
    <2>5. RegisteredHasTimer'
      BY <1>1, <2>4 DEF EpollWait, RegisteredHasTimer
    <2>6. ASSUME NEW e \in batch' PROVE timer[e.fd] \in heap
      <3>1. e.fd \in S /\ e.fd \in Fds
        <4>1. PICK fd \in S : e = EventOf(fd)
          BY <1>1 DEF EpollWait
        <4>2. e.fd = fd
          BY <4>1 DEF EventOf
        <4>3. QED
          BY <4>2
      <3>2. interest[e.fd] # "none"
        BY <1>1, <3>1 DEF EpollWait, Ready
      <3>3. QED
        BY <1>1, <3>1, <3>2 DEF EpollWait, RegisteredHasTimer
    <2>7. TimerPointerSafe'
      BY <1>1, <2>6 DEF EpollWait, TimerPointerSafe
    <2>8. QED
      BY <2>2, <2>3, <2>5, <2>7
  <1>2. CASE EndBatch
    <2>1. TypeOK'
      BY <1>2 DEF EndBatch, MainPC
    <2>2. (Handling /\ Holding)'
      BY <1>2 DEF EndBatch, Handling, Holding
    <2>3. (TimerLinks /\ TimerPointerSafe /\ RegisteredHasTimer)'
      BY <1>2 DEF EndBatch, TimerLinks, TimerPointerSafe, RegisteredHasTimer
    <2>4. QED
      BY <2>1, <2>2, <2>3
  <1> HIDE DEF IInv
  <1>3. QED
    BY <1>1, <1>2 DEF Wait

(* An accepted connection is registered first and given its timer next.    *)
LEMMA AcceptStep ==
  ASSUME IInv, Listen \/ AcceptFails \/ AcceptBusy \/ Accept \/ Accepted
  PROVE  IInv'
  <1> USE ReactorAssumption
  <1> USE DEF IInv, TypeOK, ClientsType, ObjectsType, TimersType, QueueType, MainType,
          WorkersType, CountType, clientVars, kernelVars, objectVars, timerVars, mainVars,
          workerVars, countVars
  <1>1. CASE Listen
    <2>1. TypeOK'
      BY <1>1 DEF Listen, MainPC
    <2>2. QED
      BY <1>1, <2>1 DEF Listen, Handling, Holding, TimerLinks, TimerPointerSafe,
            RegisteredHasTimer
  <1>2. CASE AcceptFails
    <2>1. TypeOK'
      BY <1>2 DEF AcceptFails, MainPC
    <2>2. QED
      BY <1>2, <2>1 DEF AcceptFails, Handling, Holding, TimerLinks, TimerPointerSafe,
            RegisteredHasTimer
  <1>3. CASE AcceptBusy
    <2>1. TypeOK'
      <3>1. accepted' = accepted + 1 /\ accepted' \in 0..arrived
        BY <1>3 DEF AcceptBusy
      <3>2. ObjectsType'
        <4>1. /\ open' = open /\ request' = request /\ reply' = reply
              /\ UNCHANGED <<interest, m_sockfd, alarm, closers>>
          BY <1>3 DEF AcceptBusy
        <4>2. /\ accepted \in Int /\ open \in [Fds -> 0..accepted]
              /\ request \in [Fds -> 0..accepted] /\ reply \in [Fds -> 0..accepted]
          OBVIOUS
        <4>3. /\ open \in [Fds -> 0..(accepted + 1)]
              /\ request \in [Fds -> 0..(accepted + 1)]
              /\ reply \in [Fds -> 0..(accepted + 1)]
          BY <4>2, WiderType
        <4>4. QED
          BY <3>1, <4>1, <4>3
      <3>3. TimersType'
        <4>1. UNCHANGED timerVars
          BY <1>3 DEF AcceptBusy
        <4>2. accepted \in Int /\ timer \in [Fds -> 0..accepted]
          OBVIOUS
        <4>3. timer \in [Fds -> 0..(accepted + 1)]
          BY <4>2, WiderType
        <4>4. heap \subseteq 1..(accepted + 1) /\ live \subseteq heap
          BY <4>2
        <4>5. QED
          BY <3>1, <4>1, <4>3, <4>4
      <3>4. ClientsType' /\ QueueType' /\ CountType'
        BY <1>3, <3>1 DEF AcceptBusy
      <3>5. MainType' /\ WorkersType'
        BY <1>3 DEF AcceptBusy, MainPC
      <3>6. QED
        BY <3>2, <3>3, <3>4, <3>5
    <2>2. QED
      BY <1>3, <2>1 DEF AcceptBusy, Handling, Holding, TimerLinks, TimerPointerSafe,
            RegisteredHasTimer
  <1>4. CASE Accept
    <2>1. PICK fd \in FreeFds :
             /\ open' = [open EXCEPT ![fd] = accepted + 1]
             /\ interest' = [interest EXCEPT ![fd] = "in"]
             /\ m_sockfd' = [m_sockfd EXCEPT ![fd] = TRUE]
             /\ hand' = fd
      BY <1>4 DEF Accept
    <2>2. fd \in Fds
      BY DEF FreeFds
    <2>3. accepted' = accepted + 1 /\ accepted' \in 0..arrived
      BY <1>4 DEF Accept
    <2>4. TypeOK'
      <3>1. open' \in [Fds -> 0..accepted']
        <4>1. accepted \in Int /\ open \in [Fds -> 0..accepted] /\ accepted + 1 \in 0..(accepted + 1)
          OBVIOUS
        <4>2. open \in [Fds -> 0..(accepted + 1)]
          BY <4>1, WiderType
        <4>3. QED
          BY <2>1, <2>3, <4>1, <4>2, ExceptType
      <3>2. ObjectsType'
        <4>1. request' \in [Fds -> 0..accepted'] /\ reply' \in [Fds -> 0..accepted']
          <5>1. request' = request /\ reply' = reply
            BY <1>4 DEF Accept
          <5>2. /\ accepted \in Int
                /\ request \in [Fds -> 0..accepted] /\ reply \in [Fds -> 0..accepted]
            OBVIOUS
          <5>3. QED
            BY <2>3, <5>1, <5>2, WiderType
        <4>2. interest' \in [Fds -> {"none", "off", "in", "out"}]
              /\ m_sockfd' \in [Fds -> BOOLEAN]
          BY <2>1, <2>2
        <4>3. alarm' = alarm /\ closers' = closers
          BY <1>4 DEF Accept
        <4>4. QED
          BY <3>1, <4>1, <4>2, <4>3
      <3>3. TimersType'
        <4>1. UNCHANGED timerVars
          BY <1>4 DEF Accept
        <4>2. accepted \in Int /\ timer \in [Fds -> 0..accepted]
          OBVIOUS
        <4>3. timer \in [Fds -> 0..(accepted + 1)]
          BY <4>2, WiderType
        <4>4. heap \subseteq 1..(accepted + 1) /\ live \subseteq heap
          BY <4>2
        <4>5. QED
          BY <2>3, <4>1, <4>3, <4>4
      <3>4. ClientsType' /\ QueueType' /\ CountType'
        BY <1>4, <2>3 DEF Accept
      <3>5. MainType' /\ WorkersType'
        BY <1>4, <2>1, <2>2 DEF Accept, MainPC
      <3>6. QED
        BY <3>2, <3>3, <3>4, <3>5
    <2>5. Handling'
      BY <1>4, <2>1, <2>2, <2>3 DEF Accept, Handling
    <2>6. RegisteredHasTimer'
      BY <1>4, <2>1, <2>2 DEF Accept, RegisteredHasTimer
    <2>7. (Holding /\ TimerLinks /\ TimerPointerSafe)'
      BY <1>4 DEF Accept, Holding, TimerLinks, TimerPointerSafe
    <2>8. QED
      BY <2>4, <2>5, <2>6, <2>7
  <1>5. CASE Accepted
    <2> USE DEF Accepted, AddTimer, Done
    <2>1. hand \in Fds /\ accepted \in 1..accepted /\ accepted \in Conns
      BY <1>5 DEF Handling, Conns
    <2>2. TypeOK'
      <3>1. TimersType'
        <4>1. timer' \in [Fds -> 0..accepted]
          BY <1>5, <2>1
        <4>2. slot' \in [Conns -> Fds \cup {None}] /\ left' \in [Conns -> 0..Slots]
          BY <1>5, <2>1
        <4>3. heap' \subseteq 1..accepted /\ live' \subseteq heap'
          BY <1>5, <2>1
        <4>4. QED
          BY <1>5, <4>1, <4>2, <4>3
      <3>2. ClientsType' /\ ObjectsType' /\ QueueType'
        <4>1. request' \in [Fds -> 0..accepted]
          BY <1>5, <2>1
        <4>2. ObjectsType'
          BY <1>5, <4>1
        <4>3. QED
          BY <1>5, <4>2
      <3>3. MainType' /\ WorkersType'
        BY <1>5 DEF MainPC
      <3>4. CountType'
        BY <1>5
      <3>5. QED
        BY <3>1, <3>2, <3>3, <3>4
    <2>3. Handling' /\ Holding'
      BY <1>5 DEF Handling, Holding
    <2>4. TimerLinks'
      <3>1. slot'[accepted] = hand /\ \A c \in Conns \ {accepted} : slot'[c] = slot[c]
        BY <1>5, <2>1
      <3>2. \A fd \in Fds : timer[fd] # None => timer[fd] \in Conns \ {accepted}
        <4>1. 0..accepted \subseteq Conns \cup {None}
          BY DEF Conns
        <4>2. QED
          BY <1>5, <4>1 DEF Handling
      <3>3. ASSUME NEW fd \in Fds, timer'[fd] # None PROVE slot'[timer'[fd]] = fd
        <4>1. CASE fd = hand
          BY <1>5, <3>1, <4>1
        <4>2. CASE fd # hand
          <5>1. timer'[fd] = timer[fd]
            BY <1>5, <4>2
          <5>2. QED
            BY <3>1, <3>2, <3>3, <5>1 DEF TimerLinks
        <4>3. QED
          BY <4>1, <4>2
      <3>4. ASSUME NEW c \in heap' PROVE slot'[c] \in Fds
        <4>1. CASE c = accepted
          BY <3>1, <2>1, <4>1
        <4>2. CASE c # accepted
          <5>1. c \in heap /\ c \in Conns
            BY <1>5, <4>2 DEF Conns
          <5>2. QED
            BY <3>1, <4>2, <5>1 DEF TimerLinks
        <4>3. QED
          BY <4>1, <4>2
      <3>5. QED
        BY <3>3, <3>4 DEF TimerLinks
    <2>5. RegisteredHasTimer'
      BY <1>5, <2>1 DEF RegisteredHasTimer
    <2>6. TimerPointerSafe'
      BY <1>5, <2>1 DEF TimerPointerSafe
    <2>7. QED
      BY <2>2, <2>3, <2>4, <2>5, <2>6
  <1>6. QED
    BY <1>1, <1>2, <1>3, <1>4, <1>5

(* modfd() registers nothing that was not registered.                      *)
LEMMA ModfdType ==
  ASSUME TypeOK, NEW fd, NEW ev \in {"in", "out"}, Modfd(fd, ev)
  PROVE  /\ interest' \in [Fds -> {"none", "off", "in", "out"}]
         /\ \A other \in Fds : interest'[other] # "none" <=> interest[other] # "none"
  BY DEF Modfd, TypeOK, ObjectsType

(* Closing a descriptor keeps its timer until the callback is cleared.     *)
LEMMA CloseStep ==
  ASSUME IInv, NEW e \in batch, HandleFailure(e) \/ HandleOutLast(e)
  PROVE  IInv'
  <1> USE ReactorAssumption
  <1> USE DEF IInv, TypeOK, ClientsType, ObjectsType, TimersType, QueueType, MainType,
          WorkersType, CountType, clientVars, kernelVars, objectVars, timerVars, mainVars,
          workerVars, countVars
  <1>1. e \in Event /\ e.fd \in Fds /\ mpc = "batch"
    BY DEF Event, HandleFailure, HandleOutLast, Writing
  <1>2. /\ interest' = [interest EXCEPT ![e.fd] = "none"]
        /\ open' = [open EXCEPT ![e.fd] = None]
        /\ batch' = batch \ {e}
        /\ mpc' = "closing" /\ hand' = e.fd
        /\ reg' = [reg EXCEPT ![0] = m_user_count]
        /\ UNCHANGED <<timer, heap, live, slot, accepted, wpc, obj>>
    BY DEF HandleFailure, HandleOutLast, Writing, CloseFd
  <1>3. TypeOK'
    <2>1. ObjectsType'
      <3>1. request' = request /\ m_sockfd' = m_sockfd
        BY DEF HandleFailure, HandleOutLast
      <3>2. reply' \in [Fds -> 0..accepted]
        <4>1. reply' = reply \/ reply' = [reply EXCEPT ![e.fd] = None]
          BY DEF HandleFailure, HandleOutLast
        <4>2. reply \in [Fds -> 0..accepted] /\ None \in 0..accepted
          OBVIOUS
        <4>3. CASE reply' = reply
          BY <4>2, <4>3
        <4>4. CASE reply' = [reply EXCEPT ![e.fd] = None]
          BY <4>2, <4>4, ExceptType
        <4>5. QED
          BY <4>1, <4>3, <4>4
      <3>3. open' \in [Fds -> 0..accepted] /\ interest' \in [Fds -> {"none", "off", "in", "out"}]
        <4>1. open' \in [Fds -> 0..accepted]
          <5>1. open \in [Fds -> 0..accepted] /\ None \in 0..accepted
            OBVIOUS
          <5>2. QED
            BY <1>2, <5>1, ExceptType
        <4>2. interest' \in [Fds -> {"none", "off", "in", "out"}]
          BY <1>2, ExceptType
        <4>3. QED
          BY <4>1, <4>2
      <3>4. alarm' = alarm /\ closers' \subseteq {"main", "worker"}
        BY DEF HandleFailure, HandleOutLast, CloseFd
      <3>5. QED
        BY <1>2, <3>1, <3>2, <3>3, <3>4
    <2>2. MainType' /\ WorkersType'
      BY <1>1, <1>2 DEF HandleFailure, HandleOutLast, MainPC
    <2>3. ClientsType' /\ TimersType' /\ QueueType' /\ CountType'
      BY <1>2 DEF HandleFailure, HandleOutLast
    <2>4. QED
      BY <2>1, <2>2, <2>3
  <1>4. Handling'
    BY <1>1, <1>2 DEF Handling
  <1>5. Holding' /\ TimerLinks'
    BY <1>2 DEF Holding, TimerLinks
  <1>6. TimerPointerSafe'
    BY <1>1, <1>2 DEF TimerPointerSafe
  <1>7. RegisteredHasTimer'
    BY <1>1, <1>2 DEF RegisteredHasTimer
  <1>8. QED
    BY <1>3, <1>4, <1>5, <1>6, <1>7

(* The other handlers keep the connection, its timer and the pointer to it.*)
LEMMA HandleStep ==
  ASSUME IInv, NEW e \in batch,
         HandleIn(e) \/ HandleOutNothing(e) \/ HandleOutKeep(e) \/ HandleOutAgain(e)
  PROVE  IInv'
  <1> USE ReactorAssumption
  <1> USE DEF IInv, TypeOK, ClientsType, ObjectsType, TimersType, QueueType, MainType,
          WorkersType, CountType, clientVars, kernelVars, objectVars, timerVars, mainVars,
          workerVars, countVars
  <1> USE DEF HandleIn, HandleOutNothing, HandleOutKeep, HandleOutAgain, Writing
  <1>1. e \in Event /\ e.fd \in Fds /\ mpc = "batch"
    BY DEF Event
  <1>2. UNCHANGED <<arrived, accepted, open, m_sockfd, timer, heap, live, slot, mpc, hand,
                    listening, timeout, workerVars, countVars>>
        /\ batch' = batch \ {e}
    OBVIOUS
  <1>3. /\ interest' \in [Fds -> {"none", "off", "in", "out"}]
        /\ \A fd \in Fds : interest'[fd] # "none" <=> interest[fd] # "none"
    BY <1>1, ModfdType
  <1>4. TypeOK'
    <2>1. request' \in [Fds -> 0..accepted] /\ reply' \in [Fds -> 0..accepted]
      <3>1. open[e.fd] \in 0..accepted
        BY <1>1
      <3>2. \/ request' = request
            \/ request' = [request EXCEPT ![e.fd] = open[e.fd]]
            \/ request' = [request EXCEPT ![e.fd] = None]
        OBVIOUS
      <3>3. reply' = reply \/ reply' = [reply EXCEPT ![e.fd] = None]
        OBVIOUS
      <3>4. request' \in [Fds -> 0..accepted]
        <4>1. CASE request' = request
          BY <4>1
        <4>2. CASE request' = [request EXCEPT ![e.fd] = open[e.fd]]
          BY <3>1, <4>2, ExceptType
        <4>3. CASE request' = [request EXCEPT ![e.fd] = None]
          BY <4>3, ExceptType, NoneIsConn
        <4>4. QED
          BY <3>2, <4>1, <4>2, <4>3
      <3>5. reply' \in [Fds -> 0..accepted]
        <4>1. CASE reply' = reply
          BY <4>1
        <4>2. CASE reply' = [reply EXCEPT ![e.fd] = None]
          BY <4>2, ExceptType, NoneIsConn
        <4>3. QED
          BY <3>3, <4>1, <4>2
      <3>6. QED
        BY <3>4, <3>5
    <2>2. ObjectsType'
      BY <1>2, <1>3, <2>1
    <2>3. left' \in [Conns -> 0..Slots]
      <3>1. left' = [left EXCEPT ![timer[e.fd]] = Slots]
        BY DEF Delay
      <3>2. QED
        BY <3>1, ExceptType, NoneIsConn
    <2>4. TimersType'
      BY <1>2, <2>3
    <2>5. QueueType'
      BY <1>1, AppendType
    <2>6. ClientsType' /\ MainType' /\ WorkersType' /\ CountType'
      BY <1>2
    <2>7. QED
      BY <2>2, <2>4, <2>5, <2>6
  <1>5. Handling' /\ Holding' /\ TimerLinks'
    BY <1>1, <1>2, <1>3 DEF Handling, Holding, TimerLinks
  <1>6. TimerPointerSafe'
    BY <1>1, <1>2 DEF TimerPointerSafe
  <1>7. RegisteredHasTimer'
    BY <1>1, <1>2, <1>3 DEF RegisteredHasTimer
  <1>8. QED
    BY <1>4, <1>5, <1>6, <1>7

(* A descriptor whose timer goes is not registered any more.               *)
LEMMA TickStep ==
  ASSUME IInv,
         \/ Closed \/ Fired \/ TickEnd \/ SetAlarm
         \/ \E c \in Conns : TickFire(c) \/ TickFree(c)
  PROVE  IInv'
  <1> USE ReactorAssumption
  <1> USE DEF IInv, TypeOK, ClientsType, ObjectsType, TimersType, QueueType, MainType,
          WorkersType, CountType, clientVars, kernelVars, objectVars, timerVars, mainVars,
          workerVars, countVars
  <1>1. CASE Closed
    <2> USE DEF Closed, Done
    <2>1. hand \in Fds /\ interest[hand] = "none" /\ timer[hand] \in heap
      BY <1>1 DEF Handling, TimerPointerSafe
    <2>2. TypeOK'
      <3>1. CountType'
        BY <1>1
      <3>2. MainType' /\ WorkersType'
        BY <1>1 DEF MainPC
      <3>3. ClientsType' /\ ObjectsType' /\ TimersType' /\ QueueType'
        BY <1>1
      <3>4. QED
        BY <3>1, <3>2, <3>3
    <2>3. (Handling /\ Holding /\ TimerLinks /\ TimerPointerSafe)'
      BY <1>1 DEF Handling, Holding, TimerLinks, TimerPointerSafe
    <2>4. ASSUME NEW fd \in Fds, interest[fd] # "none" PROVE timer[fd] \in live'
      <3>1. timer[fd] \in live /\ timer[fd] # None
        BY <1>1, <2>4 DEF RegisteredHasTimer
      <3>2. slot[timer[fd]] = fd /\ slot[timer[hand]] = hand
        BY <2>1, <3>1 DEF TimerLinks
      <3>3. timer[fd] # timer[hand]
        BY <2>1, <2>4, <3>2
      <3>4. QED
        BY <1>1, <3>1, <3>3
    <2>5. RegisteredHasTimer'
      BY <1>1, <2>4 DEF RegisteredHasTimer
    <2>6. QED
      BY <2>2, <2>3, <2>5
  <1>2. CASE Fired
    <2> USE DEF Fired, Done
    <2>1. hand \in heap /\ interest[slot[hand]] = "none"
      BY <1>2 DEF Handling
    <2>2. TypeOK'
      <3>1. CountType'
        BY <1>2
      <3>2. MainType' /\ WorkersType'
        BY <1>2 DEF MainPC
      <3>3. ClientsType' /\ ObjectsType' /\ TimersType' /\ QueueType'
        BY <1>2
      <3>4. QED
        BY <3>1, <3>2, <3>3
    <2>3. (Handling /\ Holding /\ TimerLinks /\ TimerPointerSafe)'
      BY <1>2 DEF Handling, Holding, TimerLinks, TimerPointerSafe
    <2>4. ASSUME NEW fd \in Fds, interest[fd] # "none" PROVE timer[fd] \in live'
      <3>1. timer[fd] \in live /\ timer[fd] # None
        BY <1>2, <2>4 DEF RegisteredHasTimer
      <3>2. slot[timer[fd]] = fd
        BY <3>1 DEF TimerLinks
      <3>3. timer[fd] # hand
        BY <2>1, <2>4, <3>2
      <3>4. QED
        BY <1>2, <3>1, <3>3
    <2>5. RegisteredHasTimer'
      BY <1>2, <2>4 DEF RegisteredHasTimer
    <2>6. QED
      BY <2>2, <2>3, <2>5
  <1>3. CASE TickEnd \/ SetAlarm
    <2>1. TypeOK'
      BY <1>3 DEF TickEnd, SetAlarm, MainPC
    <2>2. (Handling /\ Holding)'
      BY <1>3 DEF TickEnd, SetAlarm, Handling, Holding
    <2>3. (TimerLinks /\ TimerPointerSafe /\ RegisteredHasTimer)'
      BY <1>3 DEF TickEnd, SetAlarm, TimerLinks, TimerPointerSafe, RegisteredHasTimer
    <2>4. QED
      BY <2>1, <2>2, <2>3
  <1>4. ASSUME NEW c \in Conns, TickFire(c) PROVE IInv'
    <2> USE DEF TickFire, CloseFd, Expired
    <2>1. c \in heap /\ slot[c] \in Fds
      BY <1>4 DEF TimerLinks
    <2>2. TypeOK'
      <3>1. ObjectsType' /\ CountType'
        <4>1. open' \in [Fds -> 0..accepted]
          BY <1>4, ExceptType, NoneIsConn
        <4>2. interest' \in [Fds -> {"none", "off", "in", "out"}]
          BY <1>4, ExceptType
        <4>3. ObjectsType'
          BY <1>4, <4>1, <4>2
        <4>4. CountType'
          BY <1>4
        <4>5. QED
          BY <4>3, <4>4
      <3>2. MainType' /\ WorkersType'
        BY <1>4 DEF MainPC
      <3>3. ClientsType' /\ TimersType' /\ QueueType'
        BY <1>4
      <3>4. QED
        BY <3>1, <3>2, <3>3
    <2>3. (Handling /\ Holding /\ TimerLinks /\ TimerPointerSafe)'
      BY <1>4, <2>1 DEF Handling, Holding, TimerLinks, TimerPointerSafe
    <2>4. RegisteredHasTimer'
      BY <1>4 DEF RegisteredHasTimer
    <2>5. QED
      BY <2>2, <2>3, <2>4
  <1>5. ASSUME NEW c \in Conns, TickFree(c) PROVE IInv'
    <2> USE DEF TickFree, Expired
    <2>1. TypeOK'
      BY <1>5
    <2>2. (Handling /\ Holding /\ TimerLinks /\ TimerPointerSafe)'
      BY <1>5 DEF Handling, Holding, TimerLinks, TimerPointerSafe
    <2>3. RegisteredHasTimer'
      BY <1>5 DEF RegisteredHasTimer
    <2>4. QED
      BY <2>1, <2>2, <2>3
  <1>6. QED
    BY <1>1, <1>2, <1>3, <1>4, <1>5

(* A worker may close a descriptor at any time, but it registers none and  *)
(* touches no timer.                                                       *)
LEMMA WorkStep ==
  ASSUME IInv, NEW w \in Workers, Work(w)
  PROVE  IInv'
  <1> USE ReactorAssumption
  <1> USE DEF IInv, TypeOK, ClientsType, ObjectsType, TimersType, QueueType, MainType,
          WorkersType, CountType, clientVars, kernelVars, objectVars, timerVars, mainVars,
          workerVars, countVars
  <1> USE DEF Holding
  <1>1. CASE Take(w)
    <2>1. Head(m_workqueue) \in Fds /\ QueueType'
      BY <1>1, TakeType DEF Take
    <2>2. TypeOK'
      <3>1. wpc' \in [Workers -> WorkerPC] /\ obj' \in [Workers -> Fds \cup {None}]
        BY <1>1, <2>1 DEF Take, WorkerPC
      <3>2. (ClientsType /\ ObjectsType /\ TimersType)'
        BY <1>1 DEF Take
      <3>3. (MainType /\ CountType)'
        BY <1>1 DEF Take
      <3>4. QED
        BY <2>1, <3>1, <3>2, <3>3
    <2>3. (Handling /\ Holding)'
      BY <1>1, <2>1 DEF Take, Handling
    <2>4. (TimerLinks /\ TimerPointerSafe /\ RegisteredHasTimer)'
      BY <1>1 DEF Take, TimerLinks, TimerPointerSafe, RegisteredHasTimer
    <2>5. QED
      BY <2>2, <2>3, <2>4
  <1>2. ASSUME NEW how \in Outcomes, ProcessRead(w, how) PROVE IInv'
    <2>1. obj[w] \in Fds /\ request[obj[w]] \in 0..accepted
      BY <1>2 DEF ProcessRead
    <2>2. reply' \in [Fds -> 0..accepted]
      BY <1>2, <2>1 DEF ProcessRead
    <2>3. wpc' \in [Workers -> WorkerPC]
      BY <1>2 DEF ProcessRead, WorkerPC
    <2>4. TypeOK'
      BY <1>2, <2>2, <2>3 DEF ProcessRead
    <2>5. Holding'
      BY <1>2, <2>1 DEF ProcessRead
    <2>6. QED
      BY <1>2, <2>4, <2>5 DEF ProcessRead, Handling, TimerLinks, TimerPointerSafe,
            RegisteredHasTimer
  <1>3. CASE Arm(w)
    <2>1. /\ interest' \in [Fds -> {"none", "off", "in", "out"}]
          /\ \A fd \in Fds : interest'[fd] # "none" <=> interest[fd] # "none"
      BY <1>3, ModfdType DEF Arm
    <2>2. TypeOK'
      <3>1. wpc' \in [Workers -> WorkerPC] /\ obj' \in [Workers -> Fds \cup {None}]
        BY <1>3 DEF Arm, WorkerPC
      <3>2. ObjectsType'
        BY <1>3, <2>1 DEF Arm
      <3>3. (ClientsType /\ TimersType /\ QueueType /\ MainType /\ CountType)'
        BY <1>3 DEF Arm
      <3>4. QED
        BY <3>1, <3>2, <3>3
    <2>3. Handling'
      BY <1>3, <2>1 DEF Arm, Handling, TimerLinks
    <2>4. Holding'
      BY <1>3 DEF Arm
    <2>5. (TimerLinks /\ TimerPointerSafe)'
      BY <1>3 DEF Arm, TimerLinks, TimerPointerSafe
    <2>6. RegisteredHasTimer'
      BY <1>3, <2>1 DEF Arm, RegisteredHasTimer
    <2>7. QED
      BY <2>2, <2>3, <2>4, <2>5, <2>6
  <1>4. CASE WorkerClose(w)
    <2>1. obj[w] \in Fds
      BY <1>4 DEF WorkerClose
    <2>2. /\ open' \in [Fds -> 0..accepted]
          /\ interest' \in [Fds -> {"none", "off", "in", "out"}]
          /\ wpc' \in [Workers -> WorkerPC]
          /\ \A fd \in Fds : interest[fd] = "none" => interest'[fd] = "none"
      <3>1. CASE m_sockfd[obj[w]]
        <4>1. /\ open' = [open EXCEPT ![obj[w]] = None]
              /\ interest' = [interest EXCEPT ![obj[w]] = "none"]
              /\ wpc' = [wpc EXCEPT ![w] = "mark"]
          BY <1>4, <3>1 DEF WorkerClose
        <4>2. open' \in [Fds -> 0..accepted]
          BY <4>1, ExceptType, NoneIsConn
        <4>3. interest' \in [Fds -> {"none", "off", "in", "out"}]
          BY <4>1, ExceptType
        <4>4. wpc' \in [Workers -> WorkerPC]
          BY <4>1 DEF WorkerPC
        <4>5. \A fd \in Fds : interest[fd] = "none" => interest'[fd] = "none"
          BY <4>1
        <4>6. QED
          BY <4>2, <4>3, <4>4, <4>5
      <3>2. CASE ~m_sockfd[obj[w]]
        BY <1>4, <2>1, <3>2 DEF WorkerClose, WorkerPC
      <3>3. QED
        BY <3>1, <3>2
    <2>3. TypeOK'
      BY <1>4, <2>2 DEF WorkerClose
    <2>4. Handling'
      BY <1>4, <2>2 DEF WorkerClose, Handling, TimerLinks
    <2>5. Holding'
      BY <1>4, <2>1 DEF WorkerClose
    <2>6. QED
      BY <1>4, <2>2, <2>3, <2>4, <2>5 DEF WorkerClose, TimerLinks, TimerPointerSafe,
            RegisteredHasTimer
  <1>5. CASE WorkerMark(w)
    <2>0. /\ wpc' \in [Workers -> WorkerPC]
          /\ reg' \in [Workers \cup {0} -> Int]
          /\ m_sockfd' \in [Fds -> BOOLEAN]
      <3>1. wpc' \in [Workers -> WorkerPC]
        BY <1>5 DEF WorkerMark, WorkerPC
      <3>2. reg' \in [Workers \cup {0} -> Int]
        BY <1>5, ExceptType DEF WorkerMark
      <3>3. m_sockfd' \in [Fds -> BOOLEAN]
        BY <1>5, ExceptType DEF WorkerMark
      <3>4. QED
        BY <3>1, <3>2, <3>3
    <2>1. TypeOK'
      BY <1>5, <2>0 DEF WorkerMark
    <2>2. Holding'
      BY <1>5 DEF WorkerMark
    <2>3. (Handling /\ TimerLinks /\ TimerPointerSafe /\ RegisteredHasTimer)'
      BY <1>5 DEF WorkerMark, Handling, TimerLinks, TimerPointerSafe, RegisteredHasTimer
    <2>4. QED
      BY <2>1, <2>2, <2>3
  <1>6. CASE WorkerStore(w)
    <2>0. /\ wpc' \in [Workers -> WorkerPC]
          /\ m_user_count' \in Int
          /\ reg' \in [Workers \cup {0} -> Int]
      <3>1. wpc' \in [Workers -> WorkerPC]
        BY <1>6 DEF WorkerStore, WorkerPC
      <3>2. m_user_count' \in Int
        <4>1. reg[w] \in Int /\ m_user_count' = reg[w] - 1
          BY <1>6 DEF WorkerStore
        <4>2. QED
          BY <4>1
      <3>3. reg' \in [Workers \cup {0} -> Int]
        BY <1>6, ExceptType DEF WorkerStore
      <3>4. QED
        BY <3>1, <3>2, <3>3
    <2>1. TypeOK'
      BY <1>6, <2>0 DEF WorkerStore
    <2>2. Holding'
      BY <1>6 DEF WorkerStore
    <2>3. (Handling /\ TimerLinks /\ TimerPointerSafe /\ RegisteredHasTimer)'
      BY <1>6 DEF WorkerStore, Handling, TimerLinks, TimerPointerSafe, RegisteredHasTimer
    <2>4. QED
      BY <2>1, <2>2, <2>3
  <1>7. QED
    BY <1>1, <1>2, <1>3, <1>4, <1>5, <1>6 DEF Work

(* Every step preserves the invariant.                                     *)
LEMMA NextInv == IInv /\ [Next]_vars => IInv'
  <1> SUFFICES ASSUME IInv, [Next]_vars PROVE IInv'
    OBVIOUS
  <1>1. CASE UNCHANGED vars
    <2> USE <1>1 DEF vars, clientVars, kernelVars, objectVars, timerVars, mainVars, workerVars,
            countVars, IInv, TypeOK
    <2>1. TypeOK'
      BY DEF ClientsType, ObjectsType, TimersType, QueueType, MainType, WorkersType, CountType
    <2>2. (Handling /\ Holding /\ TimerLinks)'
      BY DEF Handling, Holding, TimerLinks
    <2>3. (TimerPointerSafe /\ RegisteredHasTimer)'
      BY DEF TimerPointerSafe, RegisteredHasTimer
    <2>4. QED
      BY <2>1, <2>2, <2>3
  <1>2. CASE MainStep
    BY <1>2, WaitStep, AcceptStep, CloseStep, HandleStep, TickStep
       DEF MainStep, Handle, HandleToEnd
  <1>3. CASE Clients \/ Clock \/ Wait \/ \E w \in Workers : Work(w)
    BY <1>3, ClientsStep, WaitStep, WorkStep
  <1>4. QED
    BY <1>1, <1>2, <1>3 DEF Next

(* The inductive invariant.                                                *)
THEOREM ReactorInvariant == Spec => []IInv
  BY InitInv, NextInv, PTL DEF Spec

(* The types, and the bound of the request queue.                          *)
THEOREM ReactorTypeCorrect == Spec => []TypeOK
  <1>1. IInv => TypeOK
    BY DEF IInv
  <1>2. QED
    BY <1>1, ReactorInvariant, PTL

(* main() follows no users_timer[fd].timer that was freed, although nothing*)
(* ever resets that pointer.                                               *)
THEOREM NoUseOfFreedTimer == Spec => []TimerPointerSafe
  <1>1. IInv => TimerPointerSafe
    BY DEF IInv
  <1>2. QED
    BY <1>1, ReactorInvariant, PTL

(* Whatever epoll may report has a timer that will close it.               *)
THEOREM NoConnectionWithoutTimer == Spec => []RegisteredHasTimer
  <1>1. IInv => RegisteredHasTimer
    BY DEF IInv
  <1>2. QED
    BY <1>1, ReactorInvariant, PTL
-----------------------------------------------------------------------------
(***************************************************************************)
(* The backlog.  An accept loop that stops early would leave clients       *)
(* unannounced; it stops early when no descriptor is free or m_user_count  *)
(* has reached MAX_FD.  Neither can happen before every client is accepted *)
(* if both numbers are large enough: open connections have descriptors of  *)
(* their own, and the racing updates of m_user_count by main() and the     *)
(* workers lose decrements and increments, but never make it exceed the    *)
(* number of connections accepted.                                         *)
(***************************************************************************)
OpenOnce == \A f, g \in Fds : f # g => open[f] # open[g] \/ open[f] = None

CountBound ==
    /\ m_user_count <= accepted
    /\ \A t \in Workers \cup {0} : reg[t] <= accepted
    /\ mpc = "accepted" => reg[0] < accepted

BInv == TypeOK /\ OpenOnce /\ CountBound /\ BacklogAnnounced

(* While a client waits, a descriptor is free if there is one per client.  *)
LEMMA FreeFdLeft ==
  ASSUME TypeOK, OpenOnce, accepted < arrived, Cardinality(Fds) >= MaxConns
  PROVE  FreeFds # {}
  <1> SUFFICES ASSUME FreeFds = {} PROVE FALSE
    OBVIOUS
  <1>1. arrived \in Nat /\ accepted \in Nat /\ MaxConns \in Nat /\ arrived <= MaxConns
    BY ReactorAssumption DEF TypeOK, ClientsType
  <1>2. open \in [Fds -> 1..accepted]
    <2>1. open \in [Fds -> 0..accepted]
      BY DEF TypeOK, ObjectsType
    <2>2. \A fd \in Fds : open[fd] # None
      BY DEF FreeFds
    <2>3. \A fd \in Fds : open[fd] \in 1..accepted
      BY <2>1, <2>2
    <2>4. QED
      BY <2>1, <2>3
  <1>3. IsFiniteSet(1..accepted) /\ Cardinality(1..accepted) = accepted
    BY <1>1, FS_Interval
  <1>4. IsFiniteSet(Fds) /\ Cardinality(Fds) \in Nat
    BY ReactorAssumption, FS_CardinalityType
  <1>5. Cardinality(1..accepted) < Cardinality(Fds)
    BY <1>1, <1>3, <1>4
  <1>6. \E f, g \in Fds : f # g /\ open[f] = open[g]
    BY <1>2, <1>3, <1>4, <1>5, FS_PigeonHole
  <1>7. QED
    BY <1>6 DEF OpenOnce, FreeFds

(* The initial state.                                                      *)
LEMMA InitBacklog == Init => BInv
  <1>1. Init => TypeOK
    BY InitInv DEF IInv
  <1>2. Init => OpenOnce /\ CountBound
    BY DEF Init, OpenOnce, CountBound
  <1>3. Init => BacklogAnnounced
    BY DEF Init, BacklogAnnounced
  <1>4. QED
    BY <1>1, <1>2, <1>3 DEF BInv

(* accept() and init(sockfd, addr) use a free descriptor and load a count  *)
(* below the number of connections accepted.                               *)
LEMMA AcceptBacklog ==
  ASSUME BInv, TypeOK', Listen \/ AcceptFails \/ AcceptBusy \/ Accept \/ Accepted
  PROVE  BInv'
  <1> USE ReactorAssumption DEF BInv, clientVars, kernelVars, objectVars, timerVars, mainVars,
          workerVars, countVars
  <1>1. /\ arrived \in Nat /\ accepted \in Nat /\ arrived <= MaxConns /\ m_user_count \in Int
        /\ reg \in [Workers \cup {0} -> Int]
    BY DEF TypeOK, ClientsType, CountType
  <1>2. CASE Listen
    BY <1>2 DEF Listen, OpenOnce, CountBound, BacklogAnnounced
  <1>3. CASE AcceptFails
    <2>1. OpenOnce' /\ CountBound'
      BY <1>3 DEF AcceptFails, OpenOnce, CountBound
    <2>2. Cardinality(Fds) >= MaxConns => accepted = arrived \/ ~(accepted < arrived)
      BY <1>3, FreeFdLeft DEF AcceptFails
    <2>3. BacklogAnnounced'
      BY <1>1, <1>3, <2>2 DEF AcceptFails, BacklogAnnounced
    <2>4. QED
      BY <2>1, <2>3
  <1>4. CASE AcceptBusy
    <2>1. OpenOnce'
      BY <1>4 DEF AcceptBusy, OpenOnce
    <2>2. CountBound'
      BY <1>1, <1>4 DEF AcceptBusy, CountBound
    <2>3. m_user_count <= accepted /\ accepted < arrived /\ m_user_count >= MAX_FD
      BY <1>4 DEF AcceptBusy, CountBound
    <2>4. ~(MAX_FD >= MaxConns)
      BY <1>1, <2>3
    <2>5. BacklogAnnounced'
      BY <2>4 DEF BacklogAnnounced
    <2>6. QED
      BY <2>1, <2>2, <2>5
  <1>5. CASE Accept
    <2>1. PICK fd \in FreeFds : open' = [open EXCEPT ![fd] = accepted + 1]
      BY <1>5 DEF Accept
    <2>2. \A other \in Fds : open[other] <= accepted /\ open[other] \in Nat
      BY <1>1 DEF TypeOK, ObjectsType
    <2>3. open \in [Fds -> 0..accepted] /\ fd \in Fds
      BY DEF TypeOK, ObjectsType, FreeFds
    <2>4. OpenOnce'
      <3>1. ASSUME NEW f \in Fds, NEW g \in Fds, f # g
            PROVE  open'[f] # open'[g] \/ open'[f] = None
        <4>1. CASE f = fd
          BY <1>1, <2>1, <2>2, <2>3, <3>1, <4>1
        <4>2. CASE g = fd
          BY <1>1, <2>1, <2>2, <2>3, <3>1, <4>2
        <4>3. CASE f # fd /\ g # fd
          BY <2>1, <2>3, <3>1, <4>3 DEF OpenOnce
        <4>4. QED
          BY <4>1, <4>2, <4>3
      <3>2. QED
        BY <3>1 DEF OpenOnce
    <2>5. CountBound'
      <3>1. accepted' = accepted + 1 /\ reg' = [reg EXCEPT ![0] = m_user_count]
            /\ m_user_count' = m_user_count
        BY <1>5 DEF Accept
      <3>2. ASSUME NEW t \in Workers \cup {0} PROVE reg'[t] <= accepted'
        <4>1. reg[t] <= accepted /\ m_user_count <= accepted /\ reg[t] \in Int
          BY <1>1 DEF CountBound
        <4>2. CASE t = 0
          BY <1>1, <3>1, <4>1, <4>2
        <4>3. CASE t # 0
          <5>1. reg'[t] = reg[t]
            BY <1>1, <3>1, <4>3
          <5>2. QED
            BY <1>1, <3>1, <4>1, <5>1
        <4>4. QED
          BY <4>2, <4>3
      <3>3. reg'[0] < accepted' /\ m_user_count' <= accepted'
        <4>1. m_user_count <= accepted /\ reg'[0] = m_user_count
          BY <1>1, <3>1 DEF CountBound
        <4>2. QED
          BY <1>1, <3>1, <4>1
      <3>4. QED
        BY <3>2, <3>3 DEF CountBound
    <2>6. BacklogAnnounced'
      BY <1>5 DEF Accept, BacklogAnnounced
    <2>7. QED
      BY <2>4, <2>5, <2>6
  <1>6. CASE Accepted
    <2>1. OpenOnce'
      BY <1>6 DEF Accepted, OpenOnce
    <2>2. /\ accepted' = accepted /\ m_user_count' = reg[0] + 1 /\ mpc' = "accept"
          /\ reg' = [reg EXCEPT ![0] = 0]
      BY <1>6 DEF Accepted, Done
    <2>3. m_user_count' <= accepted'
      <3>1. reg[0] < accepted /\ reg[0] \in Int
        BY <1>1, <1>6 DEF Accepted, CountBound
      <3>2. QED
        BY <1>1, <2>2, <3>1
    <2>4. \A t \in Workers \cup {0} : reg'[t] <= accepted'
      BY <1>1, <2>2 DEF CountBound
    <2>5. CountBound'
      BY <2>2, <2>3, <2>4 DEF CountBound
    <2>6. BacklogAnnounced'
      BY <1>6 DEF Accepted, BacklogAnnounced
    <2>7. QED
      BY <2>1, <2>5, <2>6
  <1>7. QED
    BY <1>2, <1>3, <1>4, <1>5, <1>6

(* The other steps of main() close descriptors and count down.             *)
LEMMA MainBacklog ==
  ASSUME BInv, Handling, TypeOK',
         \/ Wait \/ EndBatch \/ Closed \/ Fired \/ TickEnd \/ SetAlarm
         \/ \E e \in batch : Handle(e)
         \/ \E c \in Conns : TickFire(c) \/ TickFree(c)
  PROVE  BInv'
  <1> USE ReactorAssumption DEF BInv, clientVars, kernelVars, objectVars, timerVars, mainVars,
          workerVars, countVars
  <1>1. /\ accepted \in Nat /\ m_user_count \in Int
        /\ reg \in [Workers \cup {0} -> Int]
        /\ open \in [Fds -> 0..accepted]
    BY DEF TypeOK, ClientsType, CountType, ObjectsType
  <1>2. CASE Wait \/ EndBatch \/ TickEnd \/ SetAlarm \/ \E c \in Conns : TickFree(c)
    <2>1. UNCHANGED <<open, m_user_count, reg, accepted, arrived>> /\ mpc' # "accepted"
      BY <1>2 DEF Wait, EpollWait, EndBatch, TickEnd, SetAlarm, TickFree
    <2>2. BacklogAnnounced'
      <3>1. CASE Wait
        <4>1. PICK S \in SUBSET Fds, signal \in BOOLEAN : EpollWait(S, signal)
          BY <3>1 DEF Wait
        <4>2. QED
          BY <4>1 DEF EpollWait, BacklogAnnounced, Handling
      <3>2. CASE EndBatch
        BY <3>2 DEF EndBatch, BacklogAnnounced
      <3>3. CASE TickEnd \/ SetAlarm \/ \E c \in Conns : TickFree(c)
        BY <3>3 DEF TickEnd, SetAlarm, TickFree, BacklogAnnounced
      <3>4. QED
        BY <1>2, <3>1, <3>2, <3>3
    <2>3. QED
      BY <2>1, <2>2 DEF OpenOnce, CountBound
  <1>3. ASSUME NEW fd, CloseFd(fd, mpc'),
               mpc \notin {"accept", "accepted"}, mpc' \in {"closing", "firing"},
               UNCHANGED <<m_user_count, accepted, arrived, edge, listening>>
        PROVE  BInv'
    <2>1. OpenOnce'
      BY <1>1, <1>3 DEF CloseFd, OpenOnce
    <2>2. \A t \in Workers \cup {0} : reg'[t] <= accepted
      BY <1>1, <1>3 DEF CloseFd, CountBound
    <2>3. CountBound'
      BY <1>3, <2>2 DEF CountBound
    <2>4. BacklogAnnounced'
      BY <1>3 DEF BacklogAnnounced
    <2>5. QED
      BY <2>1, <2>3, <2>4
  <1>4. CASE \E e \in batch : HandleFailure(e) \/ HandleOutLast(e)
    BY <1>3, <1>4 DEF HandleFailure, HandleOutLast, Writing, CloseFd
  <1>5. CASE \E c \in Conns : TickFire(c)
    BY <1>3, <1>5 DEF TickFire, CloseFd
  <1>6. CASE \E e \in batch : HandleIn(e) \/ HandleOutNothing(e) \/ HandleOutKeep(e)
                                \/ HandleOutAgain(e)
    <2>1. /\ UNCHANGED <<open, m_user_count, reg, accepted, arrived, edge, listening, mpc>>
      BY <1>6 DEF HandleIn, HandleOutNothing, HandleOutKeep, HandleOutAgain, Writing
    <2>2. QED
      BY <2>1 DEF OpenOnce, CountBound, BacklogAnnounced
  <1>7. CASE Closed \/ Fired
    <2>1. /\ m_user_count' = reg[0] - 1 /\ reg' = [reg EXCEPT ![0] = 0]
          /\ UNCHANGED <<open, accepted, arrived, edge, listening>>
          /\ mpc \notin {"accept", "accepted"} /\ mpc' # "accepted"
      BY <1>7 DEF Closed, Fired, Done
    <2>2. m_user_count' <= accepted'
      <3>1. reg[0] <= accepted /\ reg[0] \in Int
        BY <1>1 DEF CountBound
      <3>2. QED
        BY <1>1, <2>1, <3>1
    <2>3. \A t \in Workers \cup {0} : reg'[t] <= accepted
      BY <1>1, <2>1 DEF CountBound
    <2>4. QED
      BY <2>1, <2>2, <2>3 DEF OpenOnce, CountBound, BacklogAnnounced
  <1>8. QED
    BY <1>2, <1>4, <1>5, <1>6, <1>7 DEF Handle, HandleToEnd

(* The workers, the clients and the clock: a worker stores one less than   *)
(* the count it loaded.                                                    *)
LEMMA OthersBacklog ==
  ASSUME BInv, TypeOK', Clients \/ Clock \/ \E w \in Workers : Work(w)
  PROVE  BInv'
  <1> USE ReactorAssumption DEF BInv, clientVars, kernelVars, objectVars, timerVars, mainVars,
          workerVars, countVars
  <1>1. /\ accepted \in Nat /\ m_user_count \in Int
        /\ reg \in [Workers \cup {0} -> Int]
        /\ open \in [Fds -> 0..accepted]
    BY DEF TypeOK, ClientsType, CountType, ObjectsType
  <1>2. CASE Connect
    BY <1>2 DEF Connect, OpenOnce, CountBound, BacklogAnnounced
  <1>3. CASE (\E c \in Conns : Send(c) \/ Leave(c)) \/ Clock
    <2>1. UNCHANGED <<open, m_user_count, reg, accepted, arrived, edge, listening, mpc>>
      BY <1>3 DEF Send, Leave, Clock
    <2>2. QED
      BY <2>1 DEF OpenOnce, CountBound, BacklogAnnounced
  <1>4. ASSUME NEW w \in Workers, Work(w) PROVE BInv'
    <2>1. UNCHANGED <<accepted, arrived, edge, listening, mpc>>
      BY <1>4 DEF Work, Take, ProcessRead, Arm, WorkerClose, WorkerMark, WorkerStore
    <2>2. BacklogAnnounced'
      BY <2>1 DEF BacklogAnnounced
    <2>3. CASE Take(w) \/ Arm(w) \/ \E how \in Outcomes : ProcessRead(w, how)
      <3>1. UNCHANGED <<open, m_user_count, reg>>
        BY <2>3 DEF Take, Arm, ProcessRead
      <3>2. QED
        BY <2>1, <2>2, <3>1 DEF OpenOnce, CountBound
    <2>4. CASE WorkerClose(w)
      <3>1. UNCHANGED <<m_user_count, reg>>
        BY <2>4 DEF WorkerClose
      <3>2. open' = open \/ open' = [open EXCEPT ![obj[w]] = None]
        BY <2>4 DEF WorkerClose
      <3>3. OpenOnce'
        BY <1>1, <3>2 DEF OpenOnce
      <3>4. QED
        BY <2>1, <2>2, <3>1, <3>3 DEF CountBound
    <2>5. CASE WorkerMark(w)
      <3>1. reg' = [reg EXCEPT ![w] = m_user_count] /\ UNCHANGED <<open, m_user_count>>
        BY <2>5 DEF WorkerMark
      <3>2. \A t \in Workers \cup {0} : reg'[t] <= accepted
        BY <1>1, <3>1 DEF CountBound
      <3>3. mpc = "accepted" => reg'[0] < accepted
        <4>1. reg'[0] = reg[0]
          BY <1>1, <3>1
        <4>2. QED
          BY <4>1 DEF CountBound
      <3>4. QED
        BY <2>1, <2>2, <3>1, <3>2, <3>3 DEF OpenOnce, CountBound
    <2>6. CASE WorkerStore(w)
      <3>1. /\ m_user_count' = reg[w] - 1 /\ reg' = [reg EXCEPT ![w] = 0]
            /\ open' = open
        BY <2>6 DEF WorkerStore
      <3>2. m_user_count' <= accepted
        <4>1. reg[w] <= accepted /\ reg[w] \in Int
          BY <1>1 DEF CountBound
        <4>2. QED
          BY <1>1, <3>1, <4>1
      <3>3. \A t \in Workers \cup {0} : reg'[t] <= accepted
        BY <1>1, <3>1 DEF CountBound
      <3>4. mpc = "accepted" => reg'[0] < accepted
        <4>1. reg'[0] = reg[0]
          BY <1>1, <3>1
        <4>2. QED
          BY <4>1 DEF CountBound
      <3>5. QED
        BY <2>1, <2>2, <3>1, <3>2, <3>3, <3>4 DEF OpenOnce, CountBound
    <2>7. QED
      BY <1>4, <2>3, <2>4, <2>5, <2>6 DEF Work
  <1>5. QED
    BY <1>2, <1>3, <1>4 DEF Clients

(* No client is left in the backlog without an announcement.               *)
THEOREM NoClientStranded == Spec => []BacklogAnnounced
  <1>1. ASSUME BInv, IInv, IInv', [Next]_vars PROVE BInv'
    <2> USE DEF IInv
    <2>1. CASE UNCHANGED vars
      BY <1>1, <2>1 DEF vars, BInv, TypeOK, ClientsType, ObjectsType, TimersType, QueueType,
            MainType, WorkersType, CountType, clientVars, kernelVars, objectVars, timerVars,
            mainVars, workerVars, countVars, OpenOnce, CountBound, BacklogAnnounced
    <2>2. CASE MainStep \/ Wait
      BY <1>1, <2>2, AcceptBacklog, MainBacklog DEF MainStep
    <2>3. CASE Clients \/ Clock \/ \E w \in Workers : Work(w)
      BY <1>1, <2>3, OthersBacklog
    <2>4. QED
      BY <1>1, <2>1, <2>2, <2>3 DEF Next
  <1>2. BInv => BacklogAnnounced
    BY DEF BInv
  <1>3. QED
    BY InitBacklog, ReactorInvariant, <1>1, <1>2, PTL DEF Spec
-----------------------------------------------------------------------------
(***************************************************************************)
(* Connections.  As long as no worker closes a descriptor, main() alone    *)
(* opens and closes them, and a timer, a connection and the count go       *)
(* together, however late the workers are.                                 *)
(***************************************************************************)
NoWorkerCloses == \A w \in Workers : wpc[w] \notin {"mark", "store"}

(* The object of an open descriptor can arm it.                            *)
SockfdSet == \A fd \in Fds : open[fd] # None => m_sockfd[fd]

(* Each event of a batch has an open descriptor of its own.                *)
EventsOpen ==
    /\ \A e \in batch : open[e.fd] # None
    /\ \A e, f \in batch : e.fd = f.fd => e = f

(* A live timer is the one its descriptor points to, and the connection it *)
(* was made for is open, until main() is about to remove the timer.        *)
TimersCurrent ==
    \A c \in live :
        /\ timer[slot[c]] = c
        /\ \/ open[slot[c]] = c
           \/ mpc = "closing" /\ hand = slot[c]
           \/ mpc = "firing" /\ hand = c

(* The entries in epoll are those of the open descriptors.                 *)
OpenIsRegistered ==
    /\ \A fd \in Fds : open[fd] = None <=> interest[fd] = "none"
    /\ mpc = "accepted" => open[hand] = accepted

(* main() alone updates the count.                                         *)
CountHeld ==
    /\ mpc \notin {"accepted", "closing", "firing"} => m_user_count = Cardinality(Opened)
    /\ mpc = "accepted" => reg[0] = m_user_count /\ Cardinality(Opened) = reg[0] + 1
    /\ mpc \in {"closing", "firing"} =>
         reg[0] = m_user_count /\ Cardinality(Opened) = reg[0] - 1

CInv ==
    /\ NoWorkerCloses
    /\ SockfdSet
    /\ EventsOpen
    /\ TimersCurrent
    /\ OpenIsRegistered
    /\ CountHeld

(* The values the definitions above look up are of the right kind.         *)
LEMMA Owners ==
  ASSUME IInv
  PROVE  /\ \A e \in batch : e.fd \in Fds /\ timer[e.fd] \in heap
         /\ \A i \in 1..Len(m_workqueue) : m_workqueue[i] \in Fds
         /\ Len(m_workqueue) \in Nat
         /\ \A w \in Workers : wpc[w] # "idle" => obj[w] \in Fds
         /\ \A c \in live : c \in heap /\ slot[c] \in Fds /\ c # None
         /\ \A c \in heap : c \in Conns
  <1>1. batch \subseteq Event /\ m_workqueue \in Seq(Fds)
    BY DEF IInv, TypeOK, MainType, QueueType
  <1>2. \A e \in batch : e.fd \in Fds /\ timer[e.fd] \in heap
    BY <1>1 DEF Event, IInv, TimerPointerSafe
  <1>3. \A i \in 1..Len(m_workqueue) : m_workqueue[i] \in Fds
    BY <1>1
  <1>4. live \subseteq heap /\ heap \subseteq 1..accepted /\ accepted \in 0..arrived
        /\ arrived \in 0..MaxConns
    BY DEF IInv, TypeOK, TimersType, ClientsType
  <1>5. \A c \in heap : c \in Conns /\ c # None
    BY <1>4, ReactorAssumption DEF Conns
  <1>6. \A c \in live : c \in heap /\ slot[c] \in Fds /\ c # None
    BY <1>4, <1>5 DEF IInv, TimerLinks
  <1>7. QED
    BY <1>1, <1>2, <1>3, <1>5, <1>6 DEF IInv, Holding

(* The initial state.                                                      *)
LEMMA InitConns == Init => CInv
  <1> SUFFICES ASSUME Init PROVE CInv
    OBVIOUS
  <1> USE DEF Init
  <1>1. NoWorkerCloses /\ SockfdSet /\ EventsOpen /\ TimersCurrent /\ OpenIsRegistered
    BY DEF NoWorkerCloses, SockfdSet, EventsOpen, TimersCurrent, OpenIsRegistered
  <1>2. CountHeld
    <2>1. Opened = {}
      BY DEF Opened
    <2>2. Cardinality(Opened) = 0
      BY <2>1, FS_EmptySet
    <2>3. QED
      BY <2>2 DEF CountHeld
  <1>3. QED
    BY <1>1, <1>2 DEF CInv

(* A step that opens and closes nothing, and does not enter or leave one   *)
(* of main()'s critical places.                                            *)
LEMMA QuietConns ==
  ASSUME CInv,
         UNCHANGED <<open, m_sockfd, timer, live, slot, m_user_count, reg, hand>>,
         \A fd \in Fds : interest'[fd] = "none" <=> interest[fd] = "none",
         batch' \subseteq batch,
         \A w \in Workers : wpc'[w] \notin {"mark", "store"},
         \/ mpc' = mpc /\ accepted' = accepted
         \/ {mpc, mpc'} \cap {"accepted", "closing", "firing"} = {}
  PROVE  CInv'
  <1>1. NoWorkerCloses' /\ SockfdSet' /\ EventsOpen'
    BY DEF CInv, NoWorkerCloses, SockfdSet, EventsOpen
  <1>2. TimersCurrent' /\ OpenIsRegistered'
    BY DEF CInv, TimersCurrent, OpenIsRegistered
  <1>3. CountHeld'
    BY DEF CInv, CountHeld, Opened
  <1>4. QED
    BY <1>1, <1>2, <1>3 DEF CInv

(* The steps of main(), of the clients and of the clock that are so.       *)
LEMMA QuietMainConns ==
  ASSUME IInv, CInv,
         \/ Clients \/ Clock
         \/ EndBatch \/ Listen \/ AcceptFails \/ AcceptBusy \/ TickEnd \/ SetAlarm
         \/ \E c \in Conns : TickFree(c)
         \/ \E e \in batch : \/ HandleIn(e) \/ HandleOutNothing(e)
                            \/ HandleOutKeep(e) \/ HandleOutAgain(e)
         \/ UNCHANGED vars
  PROVE  CInv'
  <1> USE DEF clientVars, kernelVars, objectVars, timerVars, mainVars, workerVars, countVars
  <1>1. NoWorkerCloses
    BY DEF CInv
  <1>2. CASE Clients \/ Clock
    BY <1>1, <1>2, QuietConns DEF Clients, Connect, Send, Leave, Clock, NoWorkerCloses
  <1>3. CASE EndBatch \/ Listen \/ AcceptFails \/ AcceptBusy
    BY <1>1, <1>3, QuietConns DEF EndBatch, Listen, AcceptFails, AcceptBusy, NoWorkerCloses
  <1>4. CASE TickEnd \/ SetAlarm \/ \E c \in Conns : TickFree(c)
    BY <1>1, <1>4, QuietConns DEF TickEnd, SetAlarm, TickFree, NoWorkerCloses
  <1>5. ASSUME NEW e \in batch,
               HandleIn(e) \/ HandleOutNothing(e) \/ HandleOutKeep(e) \/ HandleOutAgain(e)
        PROVE  CInv'
    <2>1. \A fd \in Fds : interest'[fd] = "none" <=> interest[fd] = "none"
      <3>1. CASE HandleIn(e)
        BY <3>1 DEF HandleIn
      <3>2. CASE Modfd(e.fd, "in") \/ Modfd(e.fd, "out")
        BY <3>2, ModfdType DEF IInv
      <3>3. QED
        BY <1>5, <3>1, <3>2 DEF HandleOutNothing, HandleOutKeep, HandleOutAgain
    <2>2. /\ UNCHANGED <<open, m_sockfd, timer, live, slot, m_user_count, reg, hand, wpc,
                         mpc, accepted>>
          /\ batch' \subseteq batch
      BY <1>5 DEF HandleIn, HandleOutNothing, HandleOutKeep, HandleOutAgain, Writing
    <2>3. QED
      BY <1>1, <2>1, <2>2, QuietConns DEF NoWorkerCloses
  <1>6. CASE UNCHANGED vars
    BY <1>1, <1>6, QuietConns DEF vars, NoWorkerCloses
  <1>7. QED
    BY <1>2, <1>3, <1>4, <1>5, <1>6

(* The steps of the workers are, unless one of them closes a descriptor.   *)
LEMMA QuietWorkConns ==
  ASSUME IInv, CInv, NEW w \in Workers, Work(w), "worker" \notin closers'
  PROVE  CInv'
  <1> USE DEF clientVars, kernelVars, objectVars, timerVars, mainVars, countVars
  <1>1. NoWorkerCloses /\ wpc \in [Workers -> WorkerPC]
    BY DEF CInv, IInv, TypeOK, WorkersType
  <1>2. CASE Take(w)
    BY <1>1, <1>2, QuietConns DEF Take, NoWorkerCloses
  <1>3. ASSUME NEW how \in Outcomes, ProcessRead(w, how) PROVE CInv'
    <2>1. \A v \in Workers : wpc'[v] \notin {"mark", "store"}
      BY <1>1, <1>3 DEF ProcessRead, NoWorkerCloses
    <2>2. QED
      BY <1>3, <2>1, QuietConns DEF ProcessRead
  <1>4. CASE Arm(w)
    <2>1. \A v \in Workers : wpc'[v] \notin {"mark", "store"}
      BY <1>1, <1>4 DEF Arm, NoWorkerCloses
    <2>2. \A fd \in Fds : interest'[fd] = "none" <=> interest[fd] = "none"
      BY <1>4, ModfdType DEF Arm, IInv
    <2>3. QED
      BY <1>4, <2>1, <2>2, QuietConns DEF Arm
  <1>5. CASE WorkerClose(w)
    <2>1. ~m_sockfd[obj[w]]
      BY <1>5 DEF WorkerClose
    <2>2. \A v \in Workers : wpc'[v] \notin {"mark", "store"}
      BY <1>1, <1>5, <2>1 DEF WorkerClose, NoWorkerCloses
    <2>3. UNCHANGED <<open, interest, m_sockfd, timer, live, slot, m_user_count, reg, hand,
                      batch, mpc, accepted>>
      BY <1>5, <2>1 DEF WorkerClose
    <2>4. QED
      BY <2>2, <2>3, QuietConns
  <1>6. CASE WorkerMark(w) \/ WorkerStore(w)
    BY <1>1, <1>6 DEF WorkerMark, WorkerStore, NoWorkerCloses
  <1>7. QED
    BY <1>2, <1>3, <1>4, <1>5, <1>6 DEF Work

(* epoll_wait() reports registered descriptors, each of them once.         *)
LEMMA WaitConns ==
  ASSUME IInv, CInv, Wait
  PROVE  CInv'
  <1> USE DEF clientVars, kernelVars, objectVars, timerVars, mainVars, workerVars, countVars
  <1>1. PICK S \in SUBSET Fds, signal \in BOOLEAN : EpollWait(S, signal)
    BY DEF Wait
  <1> USE <1>1 DEF EpollWait
  <1>2. \A fd \in S : interest[fd] \in {"in", "out"}
    BY DEF Ready
  <1>3. \A e \in batch' : e.fd \in S /\ e = EventOf(e.fd)
    BY DEF EventOf
  <1>4. \A fd \in Fds : interest'[fd] = "none" <=> interest[fd] = "none"
    BY <1>2
  <1>5. EventsOpen'
    <2>1. \A fd \in S : open[fd] # None
      BY <1>2 DEF CInv, OpenIsRegistered
    <2>2. \A e \in batch' : open'[e.fd] # None
      BY <1>3, <2>1
    <2>3. \A e, f \in batch' : e.fd = f.fd => e = f
      BY <1>3
    <2>4. QED
      BY <2>2, <2>3 DEF EventsOpen
  <1>6. NoWorkerCloses' /\ SockfdSet' /\ TimersCurrent' /\ OpenIsRegistered'
    BY <1>4 DEF CInv, NoWorkerCloses, SockfdSet, TimersCurrent, OpenIsRegistered
  <1>7. CountHeld'
    BY DEF CInv, CountHeld, Opened
  <1>8. QED
    BY <1>5, <1>6, <1>7 DEF CInv

(* accept() returns a descriptor that is not open, and counts one more.    *)
LEMMA AcceptConns ==
  ASSUME IInv, CInv, Accept
  PROVE  CInv'
  <1> USE DEF Accept, clientVars, kernelVars, objectVars, timerVars, mainVars, workerVars,
          countVars
  <1>1. PICK fd \in FreeFds :
           /\ open' = [open EXCEPT ![fd] = accepted + 1]
           /\ interest' = [interest EXCEPT ![fd] = "in"]
           /\ m_sockfd' = [m_sockfd EXCEPT ![fd] = TRUE]
           /\ hand' = fd
    OBVIOUS
  <1>2. fd \in Fds /\ open[fd] = None /\ accepted \in Nat
    BY ReactorAssumption DEF FreeFds, IInv, TypeOK, ClientsType
  <1>3. open \in [Fds -> 0..accepted] /\ DOMAIN interest = Fds /\ DOMAIN m_sockfd = Fds
    BY DEF IInv, TypeOK, ObjectsType
  <1>4. NoWorkerCloses' /\ SockfdSet'
    BY <1>1, <1>2, <1>3 DEF CInv, NoWorkerCloses, SockfdSet
  <1>5. EventsOpen'
    <2>1. \A e \in batch : e.fd \in Fds /\ e.fd # fd
      BY <1>2, Owners DEF CInv, EventsOpen
    <2>2. \A e \in batch : open'[e.fd] = open[e.fd]
      BY <1>1, <1>3, <2>1
    <2>3. QED
      BY <2>2 DEF CInv, EventsOpen
  <1>6. TimersCurrent'
    <2>1. ASSUME NEW c \in live PROVE slot[c] # fd /\ timer[slot[c]] = c /\ open[slot[c]] = c
      BY <1>2, Owners DEF CInv, TimersCurrent
    <2>2. QED
      BY <1>1, <2>1, <1>3 DEF TimersCurrent
  <1>7. OpenIsRegistered'
    BY <1>1, <1>2, <1>3 DEF CInv, OpenIsRegistered
  <1>8. CountHeld'
    <2>1. m_user_count = Cardinality(Opened)
      BY DEF CInv, CountHeld
    <2>2. Opened' = Opened \cup {fd} /\ fd \notin Opened
      BY <1>1, <1>2, <1>3 DEF Opened
    <2>3. IsFiniteSet(Opened)
      BY ReactorAssumption, FS_Subset DEF Opened
    <2>4. Cardinality(Opened') = Cardinality(Opened) + 1
      BY <2>2, <2>3, FS_AddElement
    <2>5. reg'[0] = m_user_count
      BY DEF IInv, TypeOK, CountType
    <2>6. QED
      BY <2>1, <2>4, <2>5 DEF CountHeld
  <1>9. QED
    BY <1>4, <1>5, <1>6, <1>7, <1>8 DEF CInv

(* The new timer is the only live one of its descriptor.                   *)
LEMMA AcceptedConns ==
  ASSUME IInv, CInv, Accepted
  PROVE  CInv'
  <1> USE DEF Accepted, AddTimer, Done, clientVars, kernelVars, objectVars, timerVars, mainVars,
          workerVars, countVars
  <1>1. /\ hand \in Fds /\ accepted \in Conns
        /\ open[hand] = accepted
        /\ \A fd \in Fds : timer[fd] # accepted
    BY ReactorAssumption DEF IInv, TypeOK, ClientsType, Conns, Handling, CInv, OpenIsRegistered
  <1>2. DOMAIN timer = Fds /\ DOMAIN slot = Conns /\ 0 \in DOMAIN reg
    BY DEF IInv, TypeOK, TimersType, CountType
  <1>3. \A c \in live : c # accepted /\ slot[c] # hand /\ c \in Conns /\ slot[c] \in Fds
    BY <1>1, Owners DEF CInv, TimersCurrent
  <1>4. TimersCurrent'
    <2>1. timer'[slot'[accepted]] = accepted /\ open[slot'[accepted]] = accepted
      BY <1>1, <1>2
    <2>2. \A c \in live : timer'[slot'[c]] = timer[slot[c]] /\ slot'[c] = slot[c]
      BY <1>1, <1>2, <1>3
    <2>3. \A c \in live : timer[slot[c]] = c /\ open[slot[c]] = c
      BY DEF CInv, TimersCurrent
    <2>4. QED
      BY <2>1, <2>2, <2>3 DEF TimersCurrent
  <1>5. NoWorkerCloses' /\ SockfdSet' /\ EventsOpen' /\ OpenIsRegistered'
    BY DEF CInv, NoWorkerCloses, SockfdSet, EventsOpen, OpenIsRegistered
  <1>6. CountHeld'
    BY DEF CInv, CountHeld, Opened
  <1>7. QED
    BY <1>4, <1>5, <1>6 DEF CInv

(* Closing a descriptor: what all the ways to do it share.                 *)
LEMMA CloseCounts ==
  ASSUME IInv, CInv, NEW fd \in Fds, NEW next \in {"closing", "firing"}, CloseFd(fd, next),
         UNCHANGED <<m_user_count, m_sockfd, wpc>>, mpc \in {"batch", "tick"}, open[fd] # None
  PROVE  CountHeld' /\ OpenIsRegistered' /\ SockfdSet' /\ NoWorkerCloses'
  <1> USE DEF CloseFd
  <1>1. DOMAIN open = Fds /\ DOMAIN interest = Fds /\ 0 \in DOMAIN reg
    BY DEF IInv, TypeOK, ObjectsType, CountType
  <1>2. Opened' = Opened \ {fd} /\ fd \in Opened
    BY <1>1 DEF Opened
  <1>3. IsFiniteSet(Opened)
    BY ReactorAssumption, FS_Subset DEF Opened
  <1>4. Cardinality(Opened') = Cardinality(Opened) - 1
    BY <1>2, <1>3, FS_RemoveElement
  <1>5. CountHeld'
    BY <1>1, <1>4 DEF CInv, CountHeld
  <1>6. OpenIsRegistered' /\ SockfdSet' /\ NoWorkerCloses'
    BY <1>1 DEF CInv, OpenIsRegistered, SockfdSet, NoWorkerCloses
  <1>7. QED
    BY <1>5, <1>6

(* main() closes the connection of an event.                               *)
LEMMA CloseConns ==
  ASSUME IInv, CInv, NEW e \in batch, HandleFailure(e) \/ HandleOutLast(e)
  PROVE  CInv'
  <1>1. /\ mpc = "batch" /\ batch' = batch \ {e} /\ hand' = e.fd /\ CloseFd(e.fd, "closing")
        /\ UNCHANGED <<timer, live, slot, wpc, m_sockfd, m_user_count>>
    BY DEF HandleFailure, HandleOutLast, Writing, timerVars, workerVars, objectVars
  <1>2. open' = [open EXCEPT ![e.fd] = None] /\ mpc' = "closing" /\ DOMAIN open = Fds
    BY <1>1 DEF CloseFd, IInv, TypeOK, ObjectsType
  <1>3. e.fd \in Fds /\ open[e.fd] # None
    BY Owners DEF CInv, EventsOpen
  <1>4. CountHeld' /\ OpenIsRegistered' /\ SockfdSet' /\ NoWorkerCloses'
    BY <1>1, <1>3, CloseCounts
  <1>5. EventsOpen'
    <2>1. \A f \in batch' : f \in batch /\ f.fd # e.fd
      BY <1>1 DEF CInv, EventsOpen
    <2>2. \A f \in batch' : open'[f.fd] = open[f.fd]
      BY <1>2, <2>1
    <2>3. QED
      BY <2>1, <2>2 DEF CInv, EventsOpen
  <1>6. TimersCurrent'
    BY <1>1, <1>2 DEF CInv, TimersCurrent
  <1>7. QED
    BY <1>4, <1>5, <1>6 DEF CInv

(* tick() closes the connection of an expired timer.                       *)
LEMMA FireConns ==
  ASSUME IInv, CInv, NEW c \in Conns, TickFire(c)
  PROVE  CInv'
  <1>1. /\ c \in live /\ mpc = "tick" /\ hand' = c /\ CloseFd(slot[c], "firing")
        /\ UNCHANGED <<timer, live, slot, wpc, m_sockfd, m_user_count, batch>>
    BY DEF TickFire, timerVars, workerVars, objectVars
  <1>2. slot[c] \in Fds /\ c # None /\ open[slot[c]] = c
    BY <1>1, Owners DEF CInv, TimersCurrent
  <1>3. CountHeld' /\ OpenIsRegistered' /\ SockfdSet' /\ NoWorkerCloses'
    BY <1>1, <1>2, CloseCounts
  <1>4. open' = [open EXCEPT ![slot[c]] = None] /\ mpc' = "firing"
    BY <1>1 DEF CloseFd
  <1>5. EventsOpen'
    BY <1>1 DEF IInv, Handling, EventsOpen
  <1>6. TimersCurrent'
    <2>1. \A d \in live : d # c => slot[d] # slot[c]
      BY <1>1 DEF CInv, TimersCurrent
    <2>2. \A d \in live : d # c => open'[slot[d]] = open[slot[d]]
      BY <1>4, <2>1
    <2>3. QED
      BY <1>1, <1>4, <2>2 DEF CInv, TimersCurrent
  <1>7. QED
    BY <1>3, <1>5, <1>6 DEF CInv

(* The timer of a closed descriptor goes, and the count is stored.         *)
LEMMA RemoveConns ==
  ASSUME IInv, CInv, Closed \/ Fired
  PROVE  CInv'
  <1> USE DEF Closed, Fired, Done, clientVars, kernelVars, objectVars, timerVars, mainVars,
          workerVars, countVars
  <1>1. NoWorkerCloses' /\ SockfdSet' /\ EventsOpen' /\ OpenIsRegistered'
    BY DEF CInv, NoWorkerCloses, SockfdSet, EventsOpen, OpenIsRegistered
  <1>2. TimersCurrent'
    BY DEF CInv, TimersCurrent
  <1>3. CountHeld'
    BY DEF CInv, CountHeld, Opened
  <1>4. QED
    BY <1>1, <1>2, <1>3 DEF CInv

(* Who closed a descriptor under an object stays on record.                *)
LEMMA ClosersGrow == [Next]_vars => closers \subseteq closers'
  <1> SUFFICES ASSUME [Next]_vars PROVE closers \subseteq closers'
    OBVIOUS
  <1> USE DEF kernelVars
  <1>1. CASE UNCHANGED vars
    BY <1>1 DEF vars
  <1>2. CASE Clients \/ Clock \/ Wait
    BY <1>2 DEF Clients, Connect, Send, Leave, Clock, Wait, EpollWait
  <1>3. CASE MainStep
    <2>1. CASE \/ EndBatch \/ Listen \/ AcceptFails \/ AcceptBusy \/ Accept \/ Accepted
               \/ Closed \/ Fired \/ TickEnd \/ SetAlarm
      BY <2>1 DEF EndBatch, Listen, AcceptFails, AcceptBusy, Accept, Accepted, Closed, Fired,
                  TickEnd, SetAlarm
    <2>2. ASSUME NEW e \in batch, Handle(e) PROVE closers \subseteq closers'
      BY <2>2 DEF Handle, HandleToEnd, HandleFailure, HandleIn, HandleOutNothing, HandleOutKeep,
                  HandleOutLast, HandleOutAgain, CloseFd
    <2>3. ASSUME NEW c \in Conns, TickFire(c) \/ TickFree(c) PROVE closers \subseteq closers'
      BY <2>3 DEF TickFire, TickFree, CloseFd
    <2>4. QED
      BY <1>3, <2>1, <2>2, <2>3 DEF MainStep
  <1>4. ASSUME NEW w \in Workers, Work(w) PROVE closers \subseteq closers'
    BY <1>4 DEF Work, Take, ProcessRead, Arm, WorkerClose, WorkerMark, WorkerStore
  <1>5. QED
    BY <1>1, <1>2, <1>3, <1>4 DEF Next

(* Every step preserves what holds of the connections.                     *)
LEMMA NextConns ==
  ASSUME IInv, CInv, [Next]_vars, "worker" \notin closers'
  PROVE  CInv'
  <1>1. CASE UNCHANGED vars \/ Clients \/ Clock \/ Wait
    BY <1>1, QuietMainConns, WaitConns
  <1>2. CASE MainStep
    <2>1. CASE EndBatch \/ Listen \/ AcceptFails \/ AcceptBusy \/ TickEnd \/ SetAlarm
               \/ \E c \in Conns : TickFree(c)
      BY <2>1, QuietMainConns
    <2>2. CASE Accept \/ Accepted \/ Closed \/ Fired
      BY <2>2, AcceptConns, AcceptedConns, RemoveConns
    <2>3. ASSUME NEW e \in batch, Handle(e) PROVE CInv'
      <3>1. CASE HandleFailure(e) \/ HandleOutLast(e)
        BY <3>1, CloseConns
      <3>2. CASE HandleIn(e) \/ HandleOutNothing(e) \/ HandleOutKeep(e) \/ HandleOutAgain(e)
        BY <3>2, QuietMainConns
      <3>3. QED
        BY <2>3, <3>1, <3>2 DEF Handle, HandleToEnd
    <2>4. ASSUME NEW c \in Conns, TickFire(c) PROVE CInv'
      BY <2>4, FireConns
    <2>5. QED
      BY <1>2, <2>1, <2>2, <2>3, <2>4 DEF MainStep
  <1>3. ASSUME NEW w \in Workers, Work(w) PROVE CInv'
    BY <1>3, QuietWorkConns
  <1>4. QED
    BY <1>1, <1>2, <1>3 DEF Next

(* The inductive invariant about connections.                              *)
ConnsHold == "worker" \notin closers => CInv

(* It holds of every execution.                                            *)
THEOREM ConnectionsInvariant == Spec => []ConnsHold
  <1>1. IInv /\ ConnsHold /\ [Next]_vars => ConnsHold'
    BY NextConns, ClosersGrow DEF ConnsHold
  <1>2. Init => ConnsHold
    BY InitConns DEF ConnsHold
  <1>3. QED
    BY <1>1, <1>2, ReactorInvariant, PTL DEF Spec

(* The timer of a descriptor closes the connection it was made for.        *)
THEOREM TimersMatchConnections == Spec => []TimerClosesItsConnection
  <1>1. CInv => TimerClosesItsConnection
    BY DEF CInv, TimersCurrent, TimerClosesItsConnection
  <1>2. ConnsHold => TimerClosesItsConnection
    BY <1>1 DEF ConnsHold, TimerClosesItsConnection
  <1>3. QED
    BY <1>2, ConnectionsInvariant, PTL

(* m_user_count is right, although main() updates it without a lock.       *)
THEOREM CountIsExact == Spec => []CountIsOpen
  <1>1. ConnsHold => CountIsOpen
    BY DEF ConnsHold, CInv, CountHeld, CountIsOpen
  <1>2. QED
    BY <1>1, ConnectionsInvariant, PTL
-----------------------------------------------------------------------------
(***************************************************************************)
(* Ownership.  ONESHOT alone does not keep main() away from an object a    *)
(* worker has: main() closes a connection when its timer fires, and then   *)
(* accept() gives its descriptor to the next client.  Until a descriptor   *)
(* is closed under its object, by its timer or by a worker, it does.       *)
(***************************************************************************)

(* Whoever has an object, its entry in epoll reports nothing.              *)
OwnedIsOff ==
    /\ \A e \in batch : interest[e.fd] = "off"
    /\ \A i \in 1..Len(m_workqueue) : interest[m_workqueue[i]] = "off"
    /\ \A w \in Workers : wpc[w] # "idle" => interest[obj[w]] = "off"

(* No two events, entries or workers have the same object.                 *)
OwnersDiffer ==
    /\ \A e, f \in batch : e.fd = f.fd => e = f
    /\ \A i, j \in 1..Len(m_workqueue) : m_workqueue[i] = m_workqueue[j] => i = j
    /\ \A v, w \in Workers :
         wpc[v] # "idle" /\ wpc[w] # "idle" /\ obj[v] = obj[w] => v = w
    /\ \A e \in batch, i \in 1..Len(m_workqueue) : e.fd # m_workqueue[i]
    /\ \A e \in batch, w \in Workers : wpc[w] # "idle" => e.fd # obj[w]
    /\ \A i \in 1..Len(m_workqueue), w \in Workers :
         wpc[w] # "idle" => m_workqueue[i] # obj[w]

OInv == OwnedIsOff /\ OwnersDiffer

(* A step that leaves the objects with those that have them.               *)
LEMMA QuietOwners ==
  ASSUME OInv, UNCHANGED <<interest, batch, m_workqueue, wpc, obj>>
  PROVE  OInv'
  BY DEF OInv, OwnedIsOff, OwnersDiffer

(* The steps of that kind.                                                 *)
LEMMA QuietStepsOwners ==
  ASSUME OInv,
         \/ Clients \/ Clock \/ EndBatch \/ Listen \/ AcceptFails \/ AcceptBusy \/ Accepted
         \/ Closed \/ Fired \/ TickEnd \/ SetAlarm
         \/ \E c \in Conns : TickFree(c)
         \/ UNCHANGED vars
  PROVE  OInv'
  <1> USE DEF clientVars, kernelVars, objectVars, timerVars, mainVars, workerVars, countVars
  <1>1. CASE Clients \/ Clock
    BY <1>1, QuietOwners DEF Clients, Connect, Send, Leave, Clock
  <1>2. CASE EndBatch \/ Listen \/ AcceptFails \/ AcceptBusy \/ Accepted
    BY <1>2, QuietOwners DEF EndBatch, Listen, AcceptFails, AcceptBusy, Accepted
  <1>3. CASE Closed \/ Fired \/ TickEnd \/ SetAlarm \/ \E c \in Conns : TickFree(c)
    BY <1>3, QuietOwners DEF Closed, Fired, TickEnd, SetAlarm, TickFree
  <1>4. CASE UNCHANGED vars
    BY <1>4, QuietOwners DEF vars
  <1>5. QED
    BY <1>1, <1>2, <1>3, <1>4

(* epoll_wait() spends the entry of what it reports, which nobody has.     *)
LEMMA WaitOwners ==
  ASSUME IInv, OInv, Wait
  PROVE  OInv'
  <1> USE DEF clientVars, kernelVars, objectVars, timerVars, mainVars, workerVars, countVars
  <1>1. PICK S \in SUBSET Fds, signal \in BOOLEAN : EpollWait(S, signal)
    BY DEF Wait
  <1> USE <1>1 DEF EpollWait
  <1>2. \A fd \in S : interest[fd] \in {"in", "out"}
    BY DEF Ready
  <1>3. \A e \in batch' : e.fd \in S /\ e = EventOf(e.fd)
    BY DEF EventOf
  <1>4. \A fd \in Fds : /\ interest[fd] = "off" => interest'[fd] = "off"
                        /\ fd \in S => interest'[fd] = "off"
    BY <1>2
  <1>5. OwnedIsOff'
    BY <1>3, <1>4, Owners DEF OInv, OwnedIsOff
  <1>6. OwnersDiffer'
    <2>1. \A e, f \in batch' : e.fd = f.fd => e = f
      BY <1>3
    <2>2. \A e \in batch', i \in 1..Len(m_workqueue) : e.fd # m_workqueue[i]
      BY <1>2, <1>3 DEF OInv, OwnedIsOff
    <2>3. \A e \in batch', w \in Workers : wpc[w] # "idle" => e.fd # obj[w]
      BY <1>2, <1>3 DEF OInv, OwnedIsOff
    <2>4. QED
      BY <2>1, <2>2, <2>3 DEF OInv, OwnersDiffer
  <1>7. QED
    BY <1>5, <1>6 DEF OInv

(* accept() returns a descriptor that nobody has.                          *)
LEMMA AcceptOwners ==
  ASSUME IInv, CInv, OInv, Accept
  PROVE  OInv'
  <1> USE DEF Accept, workerVars
  <1>1. PICK fd \in FreeFds : interest' = [interest EXCEPT ![fd] = "in"]
    OBVIOUS
  <1>2. fd \in Fds /\ interest[fd] = "none" /\ DOMAIN interest = Fds
    BY DEF FreeFds, CInv, OpenIsRegistered, IInv, TypeOK, ObjectsType
  <1>3. OwnedIsOff'
    BY <1>1, <1>2 DEF OInv, OwnedIsOff
  <1>4. OwnersDiffer'
    BY DEF OInv, OwnersDiffer
  <1>5. QED
    BY <1>3, <1>4 DEF OInv

(* main() closes the connection of an event: nobody else has its object.   *)
LEMMA CloseOwners ==
  ASSUME IInv, OInv, NEW e \in batch, HandleFailure(e) \/ HandleOutLast(e)
  PROVE  OInv'
  <1>1. /\ batch' = batch \ {e}
        /\ interest' = [interest EXCEPT ![e.fd] = "none"]
        /\ UNCHANGED <<m_workqueue, wpc, obj>>
    BY DEF HandleFailure, HandleOutLast, Writing, CloseFd, workerVars
  <1>2. OwnedIsOff' /\ OwnersDiffer'
    BY <1>1 DEF OInv, OwnedIsOff, OwnersDiffer
  <1>3. QED
    BY <1>2 DEF OInv

(* A timer closes an object that nobody has, or it is on record.           *)
LEMMA FireIsIdle ==
  ASSUME NEW c, TickFire(c), closers' = {}
  PROVE  ~Busy(slot[c])
  BY DEF TickFire, CloseFd

(* tick() closes the descriptor of an expired timer.                       *)
LEMMA FireOwners ==
  ASSUME IInv, OInv, NEW c \in Conns, TickFire(c), closers' = {}
  PROVE  OInv'
  <1>1. /\ interest' = [interest EXCEPT ![slot[c]] = "none"]
        /\ UNCHANGED <<batch, m_workqueue, wpc, obj>>
        /\ mpc = "tick"
    BY DEF TickFire, CloseFd, workerVars
  <1>2. ~Busy(slot[c]) /\ batch = {}
    BY <1>1, FireIsIdle DEF IInv, Handling
  <1>3. OwnedIsOff'
    BY <1>1, <1>2 DEF OInv, OwnedIsOff, Busy, InQueue, Processing
  <1>4. OwnersDiffer'
    BY <1>1 DEF OInv, OwnersDiffer
  <1>5. QED
    BY <1>3, <1>4 DEF OInv

(* modfd() changes one entry, and registers nothing.                       *)
LEMMA ModfdOne ==
  ASSUME TypeOK, NEW fd \in Fds, NEW ev \in {"in", "out"}, Modfd(fd, ev)
  PROVE  /\ \A other \in Fds : other # fd => interest'[other] = interest[other]
         /\ \A other \in Fds : interest'[other] # "none" <=> interest[other] # "none"
  BY DEF Modfd, TypeOK, ObjectsType

(* read_once() and append(): the object goes from main() to the queue, or  *)
(* to nobody if the queue is full.                                         *)

(* read_once() and append(): the object goes from main() to the queue, or  *)
(* to nobody if the queue is full.                                         *)
LEMMA InOwners ==
  ASSUME IInv, OInv, NEW e \in batch, HandleIn(e)
  PROVE  OInv'
  <1> USE DEF HandleIn, clientVars, kernelVars, objectVars, timerVars, mainVars, workerVars,
          countVars
  <1>1. e.fd \in Fds /\ timer[e.fd] \in Conns /\ mpc = "batch" /\ interest[e.fd] = "off"
    BY Owners DEF OInv, OwnedIsOff
  <1>2. m_workqueue \in Seq(Fds)
    BY DEF IInv, TypeOK, QueueType
  <1>3. \A i \in 1..Len(m_workqueue') :
            \/ i \in 1..Len(m_workqueue) /\ m_workqueue'[i] = m_workqueue[i]
            \/ i = Len(m_workqueue) + 1 /\ m_workqueue'[i] = e.fd
    <2>1. CASE Len(m_workqueue) > QueueLimit
      BY <2>1 DEF AppendRequest
    <2>2. CASE ~(Len(m_workqueue) > QueueLimit)
      <3>1. m_workqueue' = Append(m_workqueue, e.fd)
        BY <2>2 DEF AppendRequest
      <3>2. QED
        BY <1>1, <1>2, <3>1
    <2>3. QED
      BY <2>1, <2>2
  <1>4. OwnedIsOff'
    BY <1>1, <1>3 DEF OInv, OwnedIsOff
  <1>5. OwnersDiffer'
    <2>1. \A i \in 1..Len(m_workqueue) : m_workqueue[i] # e.fd
      BY DEF OInv, OwnersDiffer
    <2>2. \A w \in Workers : wpc[w] # "idle" => obj[w] # e.fd
      BY DEF OInv, OwnersDiffer
    <2>3. \A f \in batch' : f.fd # e.fd /\ f \in batch
      BY DEF OInv, OwnersDiffer
    <2>4. \A i, j \in 1..Len(m_workqueue') : m_workqueue'[i] = m_workqueue'[j] => i = j
      BY <1>3, <2>1 DEF OInv, OwnersDiffer
    <2>5. \A f \in batch', i \in 1..Len(m_workqueue') : f.fd # m_workqueue'[i]
      BY <1>3, <2>3 DEF OInv, OwnersDiffer
    <2>6. \A i \in 1..Len(m_workqueue'), w \in Workers :
             wpc[w] # "idle" => m_workqueue'[i] # obj[w]
      BY <1>3, <2>2 DEF OInv, OwnersDiffer
    <2>7. \A f, g \in batch' : f.fd = g.fd => f = g
      BY <2>3 DEF OInv, OwnersDiffer
    <2>8. \A f \in batch', w \in Workers : wpc[w] # "idle" => f.fd # obj[w]
      BY <2>3 DEF OInv, OwnersDiffer
    <2>9. QED
      BY <2>4, <2>5, <2>6, <2>7, <2>8 DEF OInv, OwnersDiffer
  <1>6. QED
    BY <1>4, <1>5 DEF OInv

(* write(): main() arms the entry again, and gives the object back.        *)
LEMMA OutOwners ==
  ASSUME IInv, OInv, NEW e \in batch,
         HandleOutNothing(e) \/ HandleOutKeep(e) \/ HandleOutAgain(e)
  PROVE  OInv'
  <1>1. /\ mpc = "batch" /\ batch' = batch \ {e} /\ Delay(e.fd)
        /\ Modfd(e.fd, "in") \/ Modfd(e.fd, "out")
        /\ UNCHANGED <<open, timer, live, slot, m_workqueue, wpc, obj, countVars, mpc, hand>>
    BY DEF HandleOutNothing, HandleOutKeep, HandleOutAgain, Writing, workerVars
  <1>2. e.fd \in Fds
    BY Owners
  <1>3. /\ \A fd \in Fds : fd # e.fd => interest'[fd] = interest[fd]
        /\ \A fd \in Fds : interest'[fd] # "none" <=> interest[fd] # "none"
    BY <1>1, <1>2, ModfdOne DEF IInv, OInv
  <1>4. OwnersDiffer'
    BY <1>1 DEF OInv, OwnersDiffer
  <1>5. OwnedIsOff'
    <2>1. \A f \in batch' : f \in batch /\ f.fd # e.fd
      BY <1>1 DEF OInv, OwnersDiffer
    <2>2. \A i \in 1..Len(m_workqueue) : m_workqueue[i] # e.fd
      BY DEF OInv, OwnersDiffer
    <2>3. \A w \in Workers : wpc[w] # "idle" => obj[w] # e.fd
      BY DEF OInv, OwnersDiffer
    <2>4. QED
      BY <1>1, <1>3, <2>1, <2>2, <2>3, Owners DEF OInv, OwnedIsOff
  <1>6. QED
    BY <1>4, <1>5 DEF OInv

(* A worker takes the first object of the queue.                           *)
LEMMA TakeOwners ==
  ASSUME IInv, OInv, NEW w \in Workers, Take(w)
  PROVE  OInv'
  <1> USE DEF Take, clientVars, kernelVars, objectVars, timerVars, mainVars, countVars
  <1>1. m_workqueue \in Seq(Fds) /\ Len(m_workqueue) \in Nat /\ m_workqueue # <<>>
    BY DEF IInv, TypeOK, QueueType
  <1>2. 1 \in 1..Len(m_workqueue) /\ Head(m_workqueue) = m_workqueue[1]
    BY <1>1
  <1>3. \A i \in 1..Len(m_workqueue') :
           i + 1 \in 1..Len(m_workqueue) /\ m_workqueue'[i] = m_workqueue[i + 1]
    BY <1>1
  <1>4. /\ wpc' = [wpc EXCEPT ![w] = "read"] /\ obj' = [obj EXCEPT ![w] = m_workqueue[1]]
        /\ DOMAIN wpc = Workers /\ DOMAIN obj = Workers /\ wpc[w] = "idle"
    BY <1>2 DEF IInv, TypeOK, WorkersType
  <1>5. OwnedIsOff'
    BY <1>2, <1>3, <1>4 DEF OInv, OwnedIsOff
  <1>6. OwnersDiffer'
    <2>1. \A i, j \in 1..Len(m_workqueue') : m_workqueue'[i] = m_workqueue'[j] => i = j
      BY <1>1, <1>3 DEF OInv, OwnersDiffer
    <2>2. \A v \in Workers \ {w} : wpc[v] # "idle" => obj[v] # m_workqueue[1]
      BY <1>2 DEF OInv, OwnersDiffer
    <2>3. \A u, v \in Workers :
             wpc'[u] # "idle" /\ wpc'[v] # "idle" /\ obj'[u] = obj'[v] => u = v
      BY <1>4, <2>2 DEF OInv, OwnersDiffer
    <2>4. \A e \in batch, i \in 1..Len(m_workqueue') : e.fd # m_workqueue'[i]
      BY <1>3 DEF OInv, OwnersDiffer
    <2>5. \A e \in batch, v \in Workers : wpc'[v] # "idle" => e.fd # obj'[v]
      BY <1>2, <1>4 DEF OInv, OwnersDiffer
    <2>6. \A i \in 1..Len(m_workqueue') : m_workqueue'[i] # m_workqueue[1]
      BY <1>1, <1>2, <1>3 DEF OInv, OwnersDiffer
    <2>7. \A i \in 1..Len(m_workqueue'), v \in Workers :
             wpc'[v] # "idle" => m_workqueue'[i] # obj'[v]
      BY <1>3, <1>4, <2>6 DEF OInv, OwnersDiffer
    <2>8. QED
      BY <2>1, <2>3, <2>4, <2>5, <2>7 DEF OInv, OwnersDiffer
  <1>7. QED
    BY <1>5, <1>6 DEF OInv

(* process() keeps its object until it arms the entry or closes.           *)
LEMMA ReadOwners ==
  ASSUME IInv, OInv, NEW w \in Workers, NEW how \in Outcomes, ProcessRead(w, how)
  PROVE  OInv'
  <1> USE DEF ProcessRead, kernelVars, mainVars
  <1>1. wpc[w] = "read" /\ DOMAIN wpc = Workers
    BY DEF IInv, TypeOK, WorkersType
  <1>2. \A v \in Workers : wpc'[v] # "idle" <=> wpc[v] # "idle"
    BY <1>1
  <1>3. QED
    BY <1>2 DEF OInv, OwnedIsOff, OwnersDiffer

(* The worker arms the entry, and gives the object back.                   *)
LEMMA ArmOwners ==
  ASSUME IInv, OInv, NEW w \in Workers, Arm(w)
  PROVE  OInv'
  <1> USE DEF Arm, clientVars, kernelVars, objectVars, timerVars, mainVars, countVars
  <1>1. /\ wpc' = [wpc EXCEPT ![w] = "idle"] /\ obj' = [obj EXCEPT ![w] = None]
        /\ DOMAIN wpc = Workers /\ DOMAIN obj = Workers /\ wpc[w] # "idle"
    BY DEF IInv, TypeOK, WorkersType
  <1>2. obj[w] \in Fds /\ (Modfd(obj[w], "in") \/ Modfd(obj[w], "out"))
    BY <1>1, Owners
  <1>3. /\ \A fd \in Fds : fd # obj[w] => interest'[fd] = interest[fd]
        /\ \A fd \in Fds : interest'[fd] # "none" <=> interest[fd] # "none"
    BY <1>2, ModfdOne DEF IInv, OInv
  <1>4. OwnersDiffer'
    BY <1>1 DEF OInv, OwnersDiffer
  <1>5. OwnedIsOff'
    <2>1. \A e \in batch : e.fd # obj[w]
      BY <1>1 DEF OInv, OwnersDiffer
    <2>2. \A i \in 1..Len(m_workqueue) : m_workqueue[i] # obj[w]
      BY <1>1 DEF OInv, OwnersDiffer
    <2>3. \A v \in Workers : wpc'[v] # "idle" =>
             wpc[v] # "idle" /\ obj'[v] = obj[v] /\ obj[v] # obj[w]
      BY <1>1 DEF OInv, OwnersDiffer
    <2>4. QED
      BY <1>3, <2>1, <2>2, <2>3, Owners DEF OInv, OwnedIsOff
  <1>6. QED
    BY <1>4, <1>5 DEF OInv

(* A worker that closes its own object is on record: the object is open,   *)
(* so m_sockfd is set.                                                     *)
LEMMA CloseIsRecorded ==
  ASSUME IInv, CInv, OInv, NEW w \in Workers, WorkerClose(w)
  PROVE  closers' # {}
  <1>1. wpc[w] = "close" /\ obj[w] \in Fds
    BY Owners DEF WorkerClose
  <1>2. interest[obj[w]] = "off"
    BY <1>1 DEF OInv, OwnedIsOff
  <1>3. m_sockfd[obj[w]]
    BY <1>1, <1>2 DEF CInv, OpenIsRegistered, SockfdSet
  <1>4. QED
    BY <1>3 DEF WorkerClose

(* Every step preserves the ownership, but one that closes a descriptor    *)
(* under its object.                                                       *)
LEMMA NextOwners ==
  ASSUME IInv, CInv, OInv, [Next]_vars, closers' = {}
  PROVE  OInv'
  <1>1. CASE UNCHANGED vars \/ Clients \/ Clock \/ Wait
    BY <1>1, QuietStepsOwners, WaitOwners
  <1>2. CASE MainStep
    <2>1. CASE EndBatch \/ Listen \/ AcceptFails \/ AcceptBusy \/ Accepted \/ Closed \/ Fired
               \/ TickEnd \/ SetAlarm \/ \E c \in Conns : TickFree(c)
      BY <2>1, QuietStepsOwners
    <2>2. CASE Accept
      BY <2>2, AcceptOwners
    <2>3. ASSUME NEW e \in batch, Handle(e) PROVE OInv'
      BY <2>3, CloseOwners, InOwners, OutOwners DEF Handle, HandleToEnd
    <2>4. ASSUME NEW c \in Conns, TickFire(c) PROVE OInv'
      BY <2>4, FireOwners
    <2>5. QED
      BY <1>2, <2>1, <2>2, <2>3, <2>4 DEF MainStep
  <1>3. ASSUME NEW w \in Workers, Work(w) PROVE OInv'
    <2>1. ~WorkerClose(w)
      BY CloseIsRecorded
    <2>2. ~WorkerMark(w) /\ ~WorkerStore(w)
      BY DEF WorkerMark, WorkerStore, CInv, NoWorkerCloses
    <2>3. QED
      BY <1>3, <2>1, <2>2, TakeOwners, ReadOwners, ArmOwners DEF Work
  <1>4. QED
    BY <1>1, <1>2, <1>3 DEF Next

(* The inductive invariant about ownership.                                *)
OwnersHold == closers = {} => OInv

(* It holds of every execution.                                            *)
THEOREM OwnershipInvariant == Spec => []OwnersHold
  <1>1. IInv /\ ConnsHold /\ OwnersHold /\ [Next]_vars => OwnersHold'
    BY NextOwners, ClosersGrow DEF ConnsHold, OwnersHold
  <1>2. Init => OwnersHold
    BY DEF Init, OwnersHold, OInv, OwnedIsOff, OwnersDiffer
  <1>3. QED
    BY <1>1, <1>2, ReactorInvariant, ConnectionsInvariant, PTL DEF Spec

(* A set without two elements is empty or has one.                         *)
LEMMA AtMostOne ==
  ASSUME NEW S, \A x, y \in S : x = y
  PROVE  Cardinality(S) \in {0, 1} /\ (Cardinality(S) = 1 => S # {})
  <1>1. CASE S = {}
    BY <1>1, FS_EmptySet
  <1>2. CASE S # {}
    <2>1. PICK x : S = {x}
      BY <1>2
    <2>2. QED
      BY <2>1, FS_Singleton
  <1>3. QED
    BY <1>1, <1>2

(* An object is armed, reported, queued or processed: one of them, once.   *)
THEOREM ObjectsAreOwnedOnce == Spec => []OneOwner
  <1>1. ASSUME OInv, NEW fd \in Fds
        PROVE  LET armed    == IF interest[fd] \in {"in", "out"} THEN 1 ELSE 0
                   reported == Cardinality({e \in batch : e.fd = fd})
                   queued   == Cardinality({i \in 1..Len(m_workqueue) : m_workqueue[i] = fd})
               IN  armed + reported + queued + Cardinality(Processing(fd)) <= 1
    <2> DEFINE R == {e \in batch : e.fd = fd}
               Q == {i \in 1..Len(m_workqueue) : m_workqueue[i] = fd}
               P == Processing(fd)
    <2>1. /\ \A x, y \in R : x = y
          /\ \A x, y \in Q : x = y
          /\ \A x, y \in P : x = y
      BY <1>1 DEF OInv, OwnersDiffer, Processing
    <2>2. /\ R = {} \/ (Q = {} /\ P = {})
          /\ Q = {} \/ P = {}
      BY <1>1 DEF OInv, OwnersDiffer, Processing
    <2>3. interest[fd] \in {"in", "out"} => R = {} /\ Q = {} /\ P = {}
      BY <1>1 DEF OInv, OwnedIsOff, Processing
    <2>4. /\ Cardinality(R) \in {0, 1} /\ (Cardinality(R) = 1 => R # {})
          /\ Cardinality(Q) \in {0, 1} /\ (Cardinality(Q) = 1 => Q # {})
          /\ Cardinality(P) \in {0, 1} /\ (Cardinality(P) = 1 => P # {})
      BY <2>1, AtMostOne
    <2> HIDE DEF R, Q, P
    <2>5. (IF interest[fd] \in {"in", "out"} THEN 1 ELSE 0)
            + Cardinality(R) + Cardinality(Q) + Cardinality(P) <= 1
      BY <2>2, <2>3, <2>4
    <2>6. QED
      BY <2>5 DEF R, Q, P
  <1>2. OwnersHold => OneOwner
    BY <1>1 DEF OwnersHold, OneOwner
  <1>3. QED
    BY <1>2, OwnershipInvariant, PTL
-----------------------------------------------------------------------------
(***************************************************************************)
(* Responses.  An object is armed for writing only with the response to    *)
(* the connection that is open; an error page would not do, as it leaves   *)
(* bytes_to_send, and with it the response of an earlier connection.       *)
(***************************************************************************)
RepliesAnswer == \A e \in batch : e.ev = "out" => reply[e.fd] = open[e.fd]

RInv ==
    /\ "error" \notin Outcomes
    /\ \A fd \in Fds : interest[fd] = "out" => reply[fd] = open[fd]
    /\ \A fd \in Fds : interest[fd] # "none" =>
         request[fd] \in {None, open[fd]} \/ (mpc = "accepted" /\ hand = fd)
    /\ mpc = "accepted" => interest[hand] = "in"
    /\ \A w \in Workers : wpc[w] = "armOut" => reply[obj[w]] = open[obj[w]]
    /\ RepliesAnswer

(* Steps that touch neither the entries nor the objects.                   *)
LEMMA QuietReplies ==
  ASSUME IInv, RInv,
         \/ Clients \/ Clock \/ EndBatch \/ Listen \/ AcceptFails \/ AcceptBusy \/ Closed
         \/ Fired \/ TickEnd \/ SetAlarm
         \/ \E c \in Conns : TickFree(c)
         \/ \E w \in Workers : Take(w)
         \/ UNCHANGED vars
  PROVE  RInv'
  <1> USE DEF kernelVars, objectVars, mainVars, workerVars
  <1>1. CASE Clients \/ Clock
    BY <1>1 DEF Clients, Connect, Send, Leave, Clock, RInv, RepliesAnswer
  <1>2. CASE EndBatch \/ Listen \/ AcceptFails \/ AcceptBusy \/ TickEnd \/ SetAlarm
    BY <1>2 DEF EndBatch, Listen, AcceptFails, AcceptBusy, TickEnd, SetAlarm, RInv, RepliesAnswer
  <1>3. CASE Closed \/ Fired \/ \E c \in Conns : TickFree(c)
    BY <1>3 DEF Closed, Fired, Done, TickFree, RInv, RepliesAnswer
  <1>4. CASE \E w \in Workers : Take(w)
    <2>1. PICK w \in Workers : Take(w)
      BY <1>4
    <2>2. \A v \in Workers : wpc'[v] = "armOut" => wpc[v] = "armOut" /\ obj'[v] = obj[v]
      BY <2>1 DEF Take, IInv, TypeOK, WorkersType
    <2>3. QED
      BY <2>1, <2>2 DEF Take, RInv, RepliesAnswer
  <1>5. CASE UNCHANGED vars
    BY <1>5 DEF vars, RInv, RepliesAnswer
  <1>6. QED
    BY <1>1, <1>2, <1>3, <1>4, <1>5

(* An event is the entry's, unless the client closed.                      *)
LEMMA WaitReplies ==
  ASSUME RInv, Wait
  PROVE  RInv'
  <1> USE DEF kernelVars, objectVars, mainVars, workerVars
  <1>1. PICK S \in SUBSET Fds, signal \in BOOLEAN : EpollWait(S, signal)
    BY DEF Wait
  <1> USE <1>1 DEF EpollWait
  <1>2. ASSUME NEW e \in batch', e.ev = "out" PROVE e.fd \in Fds /\ interest[e.fd] = "out"
    BY <1>2 DEF EventOf
  <1>3. RepliesAnswer'
    BY <1>2 DEF RInv, RepliesAnswer
  <1>4. \A fd \in Fds : /\ interest'[fd] = "out" => interest[fd] = "out"
                        /\ interest'[fd] # "none" => interest[fd] # "none"
    BY DEF Ready
  <1>5. QED
    BY <1>3, <1>4 DEF RInv

(* A new connection is armed for reading, and its object starts empty.     *)
LEMMA AcceptReplies ==
  ASSUME IInv, CInv, OInv, RInv, Accept \/ Accepted
  PROVE  RInv'
  <1> USE DEF clientVars, kernelVars, objectVars, mainVars, workerVars
  <1>1. CASE Accept
    <2>1. PICK fd \in FreeFds :
             /\ open' = [open EXCEPT ![fd] = accepted + 1]
             /\ interest' = [interest EXCEPT ![fd] = "in"]
             /\ hand' = fd
      BY <1>1 DEF Accept
    <2>2. fd \in Fds /\ interest[fd] = "none"
      BY DEF FreeFds, CInv, OpenIsRegistered
    <2>3. /\ \A e \in batch : e.fd # fd
          /\ \A w \in Workers : wpc[w] # "idle" => obj[w] # fd
      BY <2>2 DEF OInv, OwnedIsOff
    <2>4. \A f \in Fds : interest'[f] = "out" => f # fd /\ interest[f] = "out"
      BY <2>1, <2>2 DEF IInv, TypeOK, ObjectsType
    <2>5. RepliesAnswer'
      BY <1>1, <2>1, <2>3 DEF Accept, RInv, RepliesAnswer
    <2>6. \A w \in Workers : wpc'[w] = "armOut" => reply'[obj'[w]] = open'[obj'[w]]
      BY <1>1, <2>1, <2>3 DEF Accept, RInv
    <2>7. interest'[hand'] = "in"
      BY <2>1, <2>2 DEF IInv, TypeOK, ObjectsType
    <2>8. \A f \in Fds : interest'[f] # "none" => f = fd \/ interest[f] # "none"
      BY <2>1, <2>2 DEF IInv, TypeOK, ObjectsType
    <2>9. \A f \in Fds : f # fd => open'[f] = open[f]
      BY <2>1, <2>2 DEF IInv, TypeOK, ObjectsType
    <2>10. mpc = "accept" /\ mpc' = "accepted" /\ UNCHANGED <<request, reply>>
      BY <1>1 DEF Accept
    <2>11. QED
      BY <1>1, <2>1, <2>2, <2>4, <2>5, <2>6, <2>7, <2>8, <2>9, <2>10 DEF RInv
  <1>2. CASE Accepted
    <2>1. /\ request' = [request EXCEPT ![hand] = None]
          /\ DOMAIN request = Fds /\ hand \in Fds /\ mpc = "accepted" /\ mpc' = "accept"
      BY <1>2 DEF Accepted, IInv, TypeOK, ObjectsType, Handling
    <2>2. QED
      BY <1>2, <2>1 DEF Accepted, RInv, RepliesAnswer
  <1>3. QED
    BY <1>1, <1>2

(* A descriptor is closed by the one that has its object.                  *)
LEMMA CloseReplies ==
  ASSUME IInv, CInv, OInv, RInv,
         \/ \E e \in batch : HandleFailure(e) \/ HandleOutLast(e)
         \/ \E c \in Conns : TickFire(c),
         closers' = {}
  PROVE  RInv'
  <1> USE DEF objectVars, mainVars, workerVars, CloseFd
  <1>1. ASSUME NEW e \in batch, HandleFailure(e) \/ HandleOutLast(e) PROVE RInv'
    <2>1. /\ open' = [open EXCEPT ![e.fd] = None]
          /\ interest' = [interest EXCEPT ![e.fd] = "none"]
          /\ reply' = reply \/ reply' = [reply EXCEPT ![e.fd] = None]
          /\ batch' = batch \ {e} /\ mpc' = "closing" /\ mpc = "batch"
          /\ UNCHANGED <<request, wpc, obj>>
      BY <1>1 DEF HandleFailure, HandleOutLast, Writing
    <2>2. /\ \A f \in batch' : f.fd # e.fd
          /\ \A w \in Workers : wpc[w] # "idle" => obj[w] # e.fd
      BY <2>1 DEF OInv, OwnersDiffer
    <2>3. \A fd \in Fds : interest'[fd] # "none" => fd # e.fd /\ interest'[fd] = interest[fd]
      BY <2>1 DEF IInv, TypeOK, ObjectsType
    <2>4. \A fd \in Fds : fd # e.fd => reply'[fd] = reply[fd] /\ open'[fd] = open[fd]
      BY <2>1 DEF IInv, TypeOK, ObjectsType
    <2>5. RepliesAnswer'
      BY <2>1, <2>2, <2>4, Owners DEF RInv, RepliesAnswer
    <2>6. \A w \in Workers : wpc'[w] = "armOut" => reply'[obj'[w]] = open'[obj'[w]]
      BY <2>1, <2>2, <2>4, Owners DEF RInv
    <2>7. QED
      BY <2>1, <2>3, <2>4, <2>5, <2>6 DEF RInv
  <1>2. ASSUME NEW c \in Conns, TickFire(c) PROVE RInv'
    <2>1. /\ open' = [open EXCEPT ![slot[c]] = None]
          /\ interest' = [interest EXCEPT ![slot[c]] = "none"]
          /\ mpc' = "firing" /\ mpc = "tick" /\ batch' = {}
          /\ UNCHANGED <<request, reply, wpc, obj>>
      BY <1>2 DEF TickFire, IInv, Handling
    <2>2. ~Busy(slot[c])
      BY <1>2, FireIsIdle
    <2>3. \A w \in Workers : wpc[w] # "idle" => obj[w] # slot[c]
      BY <2>2 DEF Busy, Processing
    <2>4. \A fd \in Fds : interest'[fd] # "none" => fd # slot[c] /\ interest'[fd] = interest[fd]
      BY <2>1 DEF IInv, TypeOK, ObjectsType
    <2>5. QED
      BY <2>1, <2>3, <2>4 DEF RInv, RepliesAnswer
  <1>3. QED
    BY <1>1, <1>2

(* main() reads into the object, or writes its response: no other event    *)
(* and no worker has it.                                                   *)
LEMMA HandleReplies ==
  ASSUME IInv, CInv, OInv, RInv, NEW e \in batch,
         HandleIn(e) \/ HandleOutNothing(e) \/ HandleOutKeep(e) \/ HandleOutAgain(e)
  PROVE  RInv'
  <1> USE DEF objectVars, mainVars, workerVars, kernelVars
  <1>1. /\ e.fd \in Fds
        /\ interest[e.fd] = "off"
        /\ DOMAIN interest = Fds /\ DOMAIN request = Fds /\ DOMAIN reply = Fds
    BY Owners DEF OInv, OwnedIsOff, IInv, TypeOK, ObjectsType
  <1>2. /\ mpc = "batch" /\ mpc' = "batch" /\ batch' = batch \ {e}
        /\ UNCHANGED <<open, wpc, obj>>
    BY DEF HandleIn, HandleOutNothing, HandleOutKeep, HandleOutAgain, Writing
  <1>3. /\ \A f \in batch' : f.fd # e.fd
        /\ \A w \in Workers : wpc[w] # "idle" => obj[w] # e.fd
    BY <1>2 DEF OInv, OwnersDiffer
  <1>4. \A fd \in Fds : fd # e.fd => reply'[fd] = reply[fd] /\ request'[fd] = request[fd]
    BY <1>1 DEF HandleIn, HandleOutNothing, HandleOutKeep, HandleOutAgain
  <1>5. \A fd \in Fds : fd # e.fd => interest'[fd] = interest[fd]
    BY <1>1 DEF HandleIn, HandleOutNothing, HandleOutKeep, HandleOutAgain, Modfd
  <1>6. interest'[e.fd] = "out" => reply'[e.fd] = open[e.fd]
    <2>1. CASE HandleIn(e)
      BY <1>1, <2>1 DEF HandleIn
    <2>2. CASE HandleOutNothing(e) \/ HandleOutKeep(e)
      BY <1>1, <2>2 DEF HandleOutNothing, HandleOutKeep, Modfd
    <2>3. CASE HandleOutAgain(e)
      BY <2>3 DEF HandleOutAgain, Writing, RInv, RepliesAnswer
    <2>4. QED
      BY <2>1, <2>2, <2>3
  <1>7. request'[e.fd] \in {None, open[e.fd]}
    <2>1. request[e.fd] \in {None, open[e.fd]}
      BY <1>1, <1>2 DEF RInv
    <2>2. QED
      BY <1>1, <2>1 DEF HandleIn, HandleOutNothing, HandleOutKeep, HandleOutAgain
  <1>8. RepliesAnswer'
    BY <1>2, <1>3, <1>4, Owners DEF RInv, RepliesAnswer
  <1>9. \A w \in Workers : wpc'[w] = "armOut" => reply'[obj'[w]] = open'[obj'[w]]
    BY <1>2, <1>3, <1>4, Owners DEF RInv
  <1>10. QED
    BY <1>2, <1>4, <1>5, <1>6, <1>7, <1>8, <1>9 DEF RInv

(* A worker answers the request its object holds.                          *)
LEMMA WorkReplies ==
  ASSUME IInv, CInv, OInv, RInv, NEW w \in Workers,
         Arm(w) \/ \E how \in Outcomes : ProcessRead(w, how)
  PROVE  RInv'
  <1> USE DEF objectVars, mainVars, kernelVars
  <1>1. /\ wpc[w] # "idle" /\ obj[w] \in Fds /\ interest[obj[w]] = "off"
        /\ DOMAIN interest = Fds /\ DOMAIN reply = Fds
        /\ DOMAIN wpc = Workers /\ DOMAIN obj = Workers
    BY Owners DEF Arm, ProcessRead, OInv, OwnedIsOff, IInv, TypeOK, ObjectsType, WorkersType
  <1>2. CASE Arm(w)
    <2>1. /\ wpc' = [wpc EXCEPT ![w] = "idle"] /\ obj' = [obj EXCEPT ![w] = None]
          /\ UNCHANGED <<open, reply, request, batch, mpc, hand>>
      BY <1>2 DEF Arm
    <2>2. \A fd \in Fds : /\ fd # obj[w] => interest'[fd] = interest[fd]
                          /\ interest'[fd] # "none" <=> interest[fd] # "none"
                          /\ interest'[obj[w]] = "out" => wpc[w] = "armOut"
      BY <1>1, <1>2 DEF Arm, Modfd
    <2>3. mpc' = "accepted" => interest'[hand'] = "in"
      BY <1>1, <2>1, <2>2 DEF RInv, IInv, Handling
    <2>4. QED
      BY <1>1, <2>1, <2>2, <2>3 DEF RInv, RepliesAnswer
  <1>3. ASSUME NEW how \in Outcomes, ProcessRead(w, how) PROVE RInv'
    <2>1. /\ wpc[w] = "read"
          /\ request[obj[w]] = None => how = "more"
          /\ UNCHANGED <<open, interest, request, batch, mpc, hand, obj>>
      BY <1>3 DEF ProcessRead
    <2>2. request[obj[w]] \in {None, open[obj[w]]}
      BY <1>1 DEF RInv
    <2>3. \A fd \in Fds : fd # obj[w] => reply'[fd] = reply[fd]
      BY <1>1, <1>3 DEF ProcessRead
    <2>4. \A v \in Workers : v # w => wpc'[v] = wpc[v]
      BY <1>1, <1>3 DEF ProcessRead
    <2>5. wpc'[w] = "armOut" => reply'[obj[w]] = open[obj[w]]
      <3>1. how \in {"more", "file", "missing"}
        BY ReactorAssumption DEF RInv
      <3>2. CASE how = "more"
        BY <1>1, <1>3, <3>2 DEF ProcessRead
      <3>3. CASE how = "file"
        BY <1>1, <1>3, <2>1, <2>2, <3>3 DEF ProcessRead
      <3>4. CASE how = "missing"
        BY <1>1, <1>3, <3>4 DEF ProcessRead
      <3>5. QED
        BY <3>1, <3>2, <3>3, <3>4
    <2>6. \A v \in Workers : wpc'[v] = "armOut" => reply'[obj'[v]] = open'[obj'[v]]
      <3>1. ASSUME NEW v \in Workers, wpc'[v] = "armOut", v # w
            PROVE  reply'[obj[v]] = open[obj[v]]
        <4>1. wpc[v] = "armOut" /\ obj[v] \in Fds
          BY <2>4, <3>1, Owners
        <4>2. obj[v] # obj[w]
          BY <1>1, <3>1, <4>1 DEF OInv, OwnersDiffer
        <4>3. QED
          BY <2>3, <4>1, <4>2 DEF RInv
      <3>2. QED
        BY <2>1, <2>5, <3>1
    <2>7. RepliesAnswer'
      <3>1. \A e \in batch : e.fd \in Fds /\ e.fd # obj[w]
        BY <1>1, Owners DEF OInv, OwnersDiffer
      <3>2. QED
        BY <2>1, <2>3, <3>1 DEF RInv, RepliesAnswer
    <2>8. QED
      BY <1>1, <2>1, <2>3, <2>6, <2>7 DEF RInv
  <1>4. QED
    BY <1>2, <1>3

(* Every step preserves it, but one that closes a descriptor under its     *)
(* object.                                                                 *)
LEMMA NextReplies ==
  ASSUME IInv, CInv, OInv, RInv, [Next]_vars, closers' = {}
  PROVE  RInv'
  <1>1. CASE UNCHANGED vars \/ Clients \/ Clock \/ Wait
    BY <1>1, QuietReplies, WaitReplies
  <1>2. CASE MainStep
    <2>1. CASE \/ EndBatch \/ Listen \/ AcceptFails \/ AcceptBusy \/ Closed \/ Fired
               \/ TickEnd \/ SetAlarm \/ \E c \in Conns : TickFree(c)
      BY <2>1, QuietReplies
    <2>2. CASE Accept \/ Accepted \/ \E c \in Conns : TickFire(c)
      BY <2>2, AcceptReplies, CloseReplies
    <2>3. ASSUME NEW e \in batch, Handle(e) PROVE RInv'
      BY <2>3, CloseReplies, HandleReplies DEF Handle, HandleToEnd
    <2>4. QED
      BY <1>2, <2>1, <2>2, <2>3 DEF MainStep
  <1>3. ASSUME NEW w \in Workers, Work(w) PROVE RInv'
    <2>1. ~WorkerClose(w)
      BY CloseIsRecorded
    <2>2. ~WorkerMark(w) /\ ~WorkerStore(w)
      BY DEF WorkerMark, WorkerStore, CInv, NoWorkerCloses
    <2>3. QED
      BY <1>3, <2>1, <2>2, QuietReplies, WorkReplies DEF Work
  <1>4. QED
    BY <1>1, <1>2, <1>3 DEF Next

(* The inductive invariant about responses.                                *)
RepliesHold == closers = {} => RInv

(* What main() writes answers the connection it writes to.                 *)
THEOREM RepliesAreOwn == Spec /\ "error" \notin Outcomes => []ReplyIsOwn
  <1>1. Init /\ "error" \notin Outcomes => RepliesHold
    BY DEF Init, RepliesHold, RInv, RepliesAnswer
  <1>2. IInv /\ ConnsHold /\ OwnersHold /\ RepliesHold /\ [Next]_vars => RepliesHold'
    BY NextReplies, ClosersGrow DEF ConnsHold, OwnersHold, RepliesHold
  <1>3. RepliesHold => ReplyIsOwn
    BY DEF RepliesHold, RInv, RepliesAnswer, ReplyIsOwn
  <1>4. QED
    BY <1>1, <1>2, <1>3, ReactorInvariant, ConnectionsInvariant, OwnershipInvariant, PTL
       DEF Spec
=============================================================================
