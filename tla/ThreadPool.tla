----------------------------- MODULE ThreadPool -----------------------------
(***************************************************************************)
(* threadpool<T> (threadpool/threadpool.h): main() appends requests to     *)
(* m_workqueue, detached worker threads take them.  The list is protected  *)
(* by m_queuelocker; m_queuestat counts the requests to take.              *)
(*                                                                         *)
(* A step is what a thread does between two blocking calls: the body of a  *)
(* critical section, with the unlock that ends it, is one step.  The       *)
(* return value of m_queuestat.wait() is not looked at, so a wait that a   *)
(* signal interrupts (SIGALRM and SIGTERM are installed without            *)
(* SA_RESTART) goes on as if it had taken a token.                         *)
(*                                                                         *)
(* The workers are detached and never joined: when main() deletes its      *)
(* http_conn objects and the pool, they are still running.  A worker that  *)
(* uses what is destroyed (undefined behaviour) goes to "undefined", and   *)
(* nothing is said of what it does there.                                  *)
(***************************************************************************)
EXTENDS Integers, Sequences, FiniteSets

CONSTANTS Workers,        (* the threads created by the constructor        *)
          Main,           (* the thread that calls append()                *)
          Requests,       (* the values of the pointers main() appends     *)
          NoRequest,      (* no pointer held                               *)
          NoThread,       (* m_queuelocker is free                         *)
          m_max_requests, (* the constructor's max_requests                *)
          MaxSignals      (* bound: waits interrupted in a behaviour       *)

ASSUME PoolAssumption ==
    /\ IsFiniteSet(Workers)
    /\ Workers # {}
    /\ Main \notin Workers
    /\ NoThread \notin Workers \cup {Main}
    /\ NoRequest \notin Requests
    /\ m_max_requests \in Nat \ {0}
    /\ MaxSignals \in Nat

Threads == Workers \cup {Main}

VARIABLES m_workqueue,    (* std::list<T*> of waiting requests             *)
          m_queuelocker,  (* the holder of the mutex, or NoThread          *)
          m_queuestat,    (* the semaphore's value                         *)
          m_stop,         (* set by the destructor                         *)
          destroyed,      (* what main() has deleted, see Parts            *)
          pc,             (* where each thread is                          *)
          request,        (* the pointer each thread has in hand           *)
          signals         (* waits interrupted so far                      *)

vars == <<m_workqueue, m_queuelocker, m_queuestat, m_stop, destroyed, pc, request, signals>>

(* What workers use: the requests themselves (main()'s array users), the   *)
(* members of the pool, and with "this" the object that holds m_stop.      *)
Parts == {"users", "m_queuestat", "m_queuelocker", "m_workqueue", "this"}

MainPC   == {"idle", "locked", "post", "leaving", "destructor", "ended"}
WorkerPC == {"loop", "wait", "lock", "locked", "process", "ended", "undefined"}

Init ==
    /\ m_workqueue = <<>>
    /\ m_queuelocker = NoThread
    /\ m_queuestat = 0
    /\ m_stop = FALSE
    /\ destroyed = {}
    /\ pc = [t \in Threads |-> IF t = Main THEN "idle" ELSE "loop"]
    /\ request = [t \in Threads |-> NoRequest]
    /\ signals = 0

(* What the next step of a worker uses, by where it is.                    *)
Uses(place) ==
    CASE place = "loop"    -> {"this"}
      [] place = "wait"    -> {"m_queuestat"}
      [] place = "lock"    -> {"m_queuelocker"}
      [] place = "locked"  -> {"m_workqueue", "m_queuelocker"}
      [] place = "process" -> {"users"}
      [] OTHER             -> {}

(* w is there, and what it uses next exists.                               *)
At(w, place) ==
    /\ pc[w] = place
    /\ pc[Main] # "ended"
    /\ Uses(place) \cap destroyed = {}

Lock(t)   == m_queuelocker = NoThread /\ m_queuelocker' = t
Unlock    == m_queuelocker' = NoThread
-----------------------------------------------------------------------------
(***************************************************************************)
(* Seeded faults: plausible mistakes in the code below, each checked to be *)
(* caught by one of the properties at the end of the module.  They are not *)
(* part of the specification.                                              *)
(***************************************************************************)
AppendPushNoPost ==            (* the list was not empty: forget the post  *)
    /\ pc[Main] = "locked"
    /\ Len(m_workqueue) <= m_max_requests
    /\ m_workqueue' = Append(m_workqueue, request[Main])
    /\ Unlock
    /\ pc' = [pc EXCEPT ![Main] = IF m_workqueue = <<>> THEN "post" ELSE "idle"]
    /\ request' = [request EXCEPT ![Main] = NoRequest]
    /\ UNCHANGED <<m_queuestat, m_stop, destroyed, signals>>

AppendPostWhenEmpty ==         (* the post is skipped if others wait       *)
    /\ pc[Main] = "post"
    /\ m_queuestat' = IF Len(m_workqueue) <= 1 THEN m_queuestat + 1 ELSE m_queuestat
    /\ pc' = [pc EXCEPT ![Main] = "idle"]
    /\ UNCHANGED <<m_workqueue, m_queuelocker, m_stop, destroyed, request, signals>>

TakeRequestUnpopped(w) ==      (* front() without pop_front()              *)
    /\ At(w, "locked")
    /\ m_workqueue # <<>>
    /\ request' = [request EXCEPT ![w] = Head(m_workqueue)]
    /\ Unlock
    /\ pc' = [pc EXCEPT ![w] = "process"]
    /\ UNCHANGED <<m_workqueue, m_queuestat, m_stop, destroyed, signals>>
-----------------------------------------------------------------------------
(* append(), called by main()'s loop only.                                 *)

AppendLock(r) ==
    /\ pc[Main] = "idle"
    /\ Lock(Main)
    /\ pc' = [pc EXCEPT ![Main] = "locked"]
    /\ request' = [request EXCEPT ![Main] = r]
    /\ UNCHANGED <<m_workqueue, m_queuestat, m_stop, destroyed, signals>>

(* The refusal; main() ignores the FALSE it gets.                          *)
AppendRefuse ==
    /\ pc[Main] = "locked"
    /\ Len(m_workqueue) > m_max_requests
    /\ Unlock
    /\ pc' = [pc EXCEPT ![Main] = "idle"]
    /\ request' = [request EXCEPT ![Main] = NoRequest]
    /\ UNCHANGED <<m_workqueue, m_queuestat, m_stop, destroyed, signals>>

AppendPush ==
    /\ pc[Main] = "locked"
    /\ Len(m_workqueue) <= m_max_requests
    /\ m_workqueue' = Append(m_workqueue, request[Main])
    /\ Unlock
    /\ pc' = [pc EXCEPT ![Main] = "post"]
    /\ request' = [request EXCEPT ![Main] = NoRequest]
    /\ UNCHANGED <<m_queuestat, m_stop, destroyed, signals>>

AppendPost ==
    /\ pc[Main] = "post"
    /\ m_queuestat' = m_queuestat + 1
    /\ pc' = [pc EXCEPT ![Main] = "idle"]
    /\ UNCHANGED <<m_workqueue, m_queuelocker, m_stop, destroyed, request, signals>>

(* main() has left its loop: delete [] users, then delete pool.            *)
LeaveLoop ==
    /\ pc[Main] = "idle"
    /\ destroyed' = {"users"}
    /\ pc' = [pc EXCEPT ![Main] = "leaving"]
    /\ UNCHANGED <<m_workqueue, m_queuelocker, m_queuestat, m_stop, request, signals>>

(* The body of ~threadpool(): nobody is woken or joined.                   *)
Destroy ==
    /\ pc[Main] = "leaving"
    /\ m_stop' = TRUE
    /\ pc' = [pc EXCEPT ![Main] = "destructor"]
    /\ UNCHANGED <<m_workqueue, m_queuelocker, m_queuestat, destroyed, request, signals>>

(* What follows its body: the members are destroyed, the last declared one *)
(* first, and the object is freed with m_stop in it.                       *)
DestroyMember(part, before) ==
    /\ pc[Main] = "destructor"
    /\ destroyed = before
    /\ destroyed' = before \cup part
    /\ m_workqueue' = IF "m_workqueue" \in part THEN <<>> ELSE m_workqueue
    /\ UNCHANGED <<m_queuelocker, m_queuestat, m_stop, pc, request, signals>>

DestroyMembers ==
    \/ DestroyMember({"m_queuestat"}, {"users"})
    \/ DestroyMember({"m_queuelocker"}, {"users", "m_queuestat"})
    \/ DestroyMember({"m_workqueue", "this"}, {"users", "m_queuestat", "m_queuelocker"})

(* main() returns: the process ends, and its threads with it.              *)
Exit ==
    /\ pc[Main] = "destructor"
    /\ destroyed = Parts
    /\ pc' = [pc EXCEPT ![Main] = "ended"]
    /\ UNCHANGED <<m_workqueue, m_queuelocker, m_queuestat, m_stop, destroyed, request, signals>>
-----------------------------------------------------------------------------
(* run(), the loop of a worker.                                            *)

LoopTest(w) ==
    /\ At(w, "loop")
    /\ pc' = [pc EXCEPT ![w] = IF m_stop THEN "ended" ELSE "wait"]
    /\ UNCHANGED <<m_workqueue, m_queuelocker, m_queuestat, m_stop, destroyed, request, signals>>

SemWait(w) ==
    /\ At(w, "wait")
    /\ m_queuestat > 0
    /\ m_queuestat' = m_queuestat - 1
    /\ pc' = [pc EXCEPT ![w] = "lock"]
    /\ UNCHANGED <<m_workqueue, m_queuelocker, m_stop, destroyed, request, signals>>

(* sem_wait() returns -1 with EINTR: no token is taken.                    *)
SemWaitInterrupted(w) ==
    /\ At(w, "wait")
    /\ signals < MaxSignals
    /\ signals' = signals + 1
    /\ pc' = [pc EXCEPT ![w] = "lock"]
    /\ UNCHANGED <<m_workqueue, m_queuelocker, m_queuestat, m_stop, destroyed, request>>

QueueLock(w) ==
    /\ At(w, "lock")
    /\ Lock(w)
    /\ pc' = [pc EXCEPT ![w] = "locked"]
    /\ UNCHANGED <<m_workqueue, m_queuestat, m_stop, destroyed, request, signals>>

TakeNothing(w) ==
    /\ At(w, "locked")
    /\ m_workqueue = <<>>
    /\ Unlock
    /\ pc' = [pc EXCEPT ![w] = "loop"]
    /\ UNCHANGED <<m_workqueue, m_queuestat, m_stop, destroyed, request, signals>>

(* main() appends addresses of its users array, so the test for a null     *)
(* pointer after the unlock never takes its branch.                        *)
TakeRequest(w) ==
    /\ At(w, "locked")
    /\ m_workqueue # <<>>
    /\ request' = [request EXCEPT ![w] = Head(m_workqueue)]
    /\ m_workqueue' = Tail(m_workqueue)
    /\ Unlock
    /\ pc' = [pc EXCEPT ![w] = "process"]
    /\ UNCHANGED <<m_queuestat, m_stop, destroyed, signals>>

(* connectionRAII and request->process(), which use no state of the pool.  *)
Process(w) ==
    /\ At(w, "process")
    /\ pc' = [pc EXCEPT ![w] = "loop"]
    /\ request' = [request EXCEPT ![w] = NoRequest]
    /\ UNCHANGED <<m_workqueue, m_queuelocker, m_queuestat, m_stop, destroyed, signals>>

(* Undefined behaviour: w uses what main() has destroyed.                  *)
UseDestroyed(w) ==
    /\ pc[Main] # "ended"
    /\ Uses(pc[w]) \cap destroyed # {}
    /\ pc' = [pc EXCEPT ![w] = "undefined"]
    /\ request' = [request EXCEPT ![w] = NoRequest]
    /\ UNCHANGED <<m_workqueue, m_queuelocker, m_queuestat, m_stop, destroyed, signals>>
-----------------------------------------------------------------------------
append ==
    \/ \E r \in Requests : AppendLock(r)
    \/ AppendRefuse
    \/ AppendPush
    \/ AppendPost

delete == LeaveLoop \/ Destroy \/ DestroyMembers \/ Exit

run(w) ==
    \/ LoopTest(w)
    \/ SemWait(w)
    \/ SemWaitInterrupted(w)
    \/ QueueLock(w)
    \/ TakeNothing(w)
    \/ TakeRequest(w)
    \/ Process(w)
    \/ UseDestroyed(w)

Next == append \/ delete \/ \E w \in Workers : run(w)

Spec == Init /\ [][Next]_vars

(***************************************************************************)
(* The scheduler runs every runnable thread and process() returns.  A      *)
(* posted semaphore lets some waiter through; when m_queuelocker is free   *)
(* again and again, some worker that wants it gets it (no claim is made    *)
(* for a particular worker).  Nothing makes main() begin an append or leave*)
(* its loop, or a signal arrive.                                           *)
(***************************************************************************)
Fairness ==
    /\ WF_vars(AppendRefuse \/ AppendPush \/ AppendPost)
    /\ WF_vars(Destroy \/ DestroyMembers \/ Exit)
    /\ \A w \in Workers :
          WF_vars(LoopTest(w) \/ TakeNothing(w) \/ TakeRequest(w) \/ Process(w))
    /\ WF_vars(\E w \in Workers : SemWait(w))
    /\ SF_vars(\E w \in Workers : QueueLock(w))

FairSpec == Spec /\ Fairness
-----------------------------------------------------------------------------
TypeOK ==
    /\ m_workqueue \in Seq(Requests)
    /\ m_queuelocker \in Threads \cup {NoThread}
    /\ m_queuestat \in Nat
    /\ m_stop \in BOOLEAN
    /\ destroyed \subseteq Parts
    /\ pc \in [Threads -> MainPC \cup WorkerPC]
    /\ pc[Main] \in MainPC
    /\ \A w \in Workers : pc[w] \in WorkerPC
    /\ request \in [Threads -> Requests \cup {NoRequest}]
    /\ signals \in 0..MaxSignals

(* Workers past their wait that have not looked at the list yet.           *)
Awake == {w \in Workers : pc[w] \in {"lock", "locked"}}

(* The wake-ups the list can still count on: tokens in the semaphore, the  *)
(* one append() is about to post, and the workers already on their way.    *)
WakeUps ==
    m_queuestat + (IF pc[Main] = "post" THEN 1 ELSE 0) + Cardinality(Awake)

(* No request is stranded and no worker wakes for nothing unless a signal  *)
(* made it: every request in m_workqueue is covered by a wake-up, although *)
(* the push and the post are two steps and an interrupted wait takes a     *)
(* request without taking its token; and each interrupted wait leaves at   *)
(* most one wake-up too many.  This holds until ~threadpool() destroys the *)
(* semaphore.                                                              *)
TokenAccounting ==
    destroyed \subseteq {"users"} =>
       /\ Len(m_workqueue) <= WakeUps
       /\ WakeUps <= Len(m_workqueue) + signals

(* append() tests size() > m_max_requests, so the list holds at most one   *)
(* request more than m_max_requests, and never more than that.             *)
QueueBound == Len(m_workqueue) <= m_max_requests + 1

(* The pool is the bounded first-in first-out queue its callers see: the   *)
(* push of append() is the submission, the pop of run() the hand-over to   *)
(* exactly one worker; the end of m_workqueue closes the queue; everything *)
(* else a thread does changes nothing.                                     *)
Queue == INSTANCE RequestQueue
           WITH pending  <- m_workqueue,
                running  <- [w \in Workers |-> request[w]],
                open     <- "m_workqueue" \notin destroyed,
                Capacity <- m_max_requests + 1

ImplementsRequestQueue == Queue!Spec

Waiting(r) == \E i \in 1..Len(m_workqueue) : m_workqueue[i] = r

(* Every accepted request is eventually in a worker's hands, whatever the  *)
(* interleaving of appends, interrupted waits and workers, unless the      *)
(* server is stopped first.                                                *)
EveryRequestTaken ==
    \A r \in Requests :
        Waiting(r) ~> (m_stop \/ \E w \in Workers : request[w] = r)
=============================================================================
