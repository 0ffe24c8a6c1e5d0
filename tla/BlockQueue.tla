----------------------------- MODULE BlockQueue -----------------------------
(***************************************************************************)
(* block_queue<T> (log/block_queue.h): a circular array with a mutex and a *)
(* condition variable.  push() never waits: it refuses an item when the    *)
(* array is full.  pop() waits while the array is empty.                   *)
(*                                                                         *)
(* Each operation holds m_mutex from its first line to its last, but for   *)
(* the wait inside pop(); so an operation, or a part of pop() before or    *)
(* after a wait, is one step.  clear(), front(), back(), empty() and       *)
(* size() are called by nobody.                                            *)
(***************************************************************************)
EXTENDS Integers, Sequences, FiniteSets

CONSTANTS Consumers,    (* the threads that call pop()                     *)
          Items, NoItem,
          m_max_size

ASSUME BlockQueueAssumption ==
    /\ NoItem \notin Items
    /\ m_max_size \in Nat \ {0}

VARIABLES m_array, m_size, m_front, m_back,
          sleeping,     (* the consumers in pthread_cond_wait()            *)
          item          (* what pop() gave each consumer, until it is used *)

arrayVars == <<m_array, m_size, m_front, m_back>>
queueVars == <<arrayVars, sleeping, item>>

QueueInit ==
    /\ m_array = [i \in 0..m_max_size - 1 |-> NoItem]
    /\ m_size = 0
    /\ m_front = -1 /\ m_back = -1
    /\ sleeping = {}
    /\ item = [c \in Consumers |-> NoItem]
-----------------------------------------------------------------------------
(***************************************************************************)
(* Seeded faults: plausible mistakes in the code below, each checked to be *)
(* caught by one of the properties at the end of the module.  They are not *)
(* part of the specification.                                              *)
(***************************************************************************)
BroadcastNone == UNCHANGED sleeping           (* nobody is woken           *)

TakenStale(c) ==                              (* m_front is moved later    *)
    m_array[IF m_front = -1 THEN 0 ELSE m_front]

PopTakesLast(c) ==                            (* the newest item first     *)
    /\ item[c] = NoItem /\ c \notin sleeping
    /\ m_size > 0
    /\ item' = [item EXCEPT ![c] = m_array[m_back]]
    /\ m_back' = (m_back - 1) % m_max_size
    /\ m_size' = m_size - 1
    /\ UNCHANGED <<m_array, m_front, sleeping>>
-----------------------------------------------------------------------------
Broadcast == sleeping' = {}

(* full(), and the same test in push().                                    *)
full == m_size >= m_max_size

Add(x) ==
    /\ m_back' = (m_back + 1) % m_max_size
    /\ m_array' = [m_array EXCEPT ![m_back'] = x]
    /\ m_size' = m_size + 1
    /\ UNCHANGED m_front

(* The caller is told whether the item was taken.                          *)
push(x) ==
    /\ IF full THEN UNCHANGED arrayVars ELSE Add(x)
    /\ Broadcast
    /\ UNCHANGED item

InPop(c) == item[c] = NoItem /\ c \notin sleeping

PopWaits(c) ==
    /\ InPop(c)
    /\ m_size <= 0
    /\ sleeping' = sleeping \cup {c}
    /\ UNCHANGED <<arrayVars, item>>

(* pthread_cond_wait() may return without a broadcast.                     *)
WakesByItself(c) ==
    /\ c \in sleeping
    /\ sleeping' = sleeping \ {c}
    /\ UNCHANGED <<arrayVars, item>>

Taken(c) == m_array[m_front']

PopTakes(c) ==
    /\ InPop(c)
    /\ m_size > 0
    /\ m_front' = (m_front + 1) % m_max_size
    /\ item' = [item EXCEPT ![c] = Taken(c)]
    /\ m_size' = m_size - 1
    /\ UNCHANGED <<m_array, m_back, sleeping>>

pop(c) == PopWaits(c) \/ WakesByItself(c) \/ PopTakes(c)
-----------------------------------------------------------------------------
(* What is in the queue, oldest first.                                     *)
Contents == [i \in 1..m_size |-> m_array[(m_front + i) % m_max_size]]

(* The circular array is the bounded first-in first-out queue: push() adds *)
(* at its end or refuses, pop() hands the oldest item to one consumer.  It *)
(* is never closed: nobody destroys it before the process ends.            *)
LineQueue == INSTANCE RequestQueue
               WITH pending <- Contents, running <- item, Workers <- Consumers,
                    Requests <- Items, NoRequest <- NoItem, Capacity <- m_max_size,
                    open <- TRUE

ImplementsLineQueue == LineQueue!Spec

(* No wake-up is lost: whoever sleeps in pop() does so with nothing to     *)
(* take, however push() and the spurious wake-ups interleave.              *)
SleepsOnlyWhenEmpty == sleeping # {} => m_size = 0
=============================================================================
