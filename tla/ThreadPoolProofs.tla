-------------------------- MODULE ThreadPoolProofs --------------------------
(***************************************************************************)
(* Theorems about ThreadPool for every set of workers, every m_max_requests*)
(* and any number of interrupted waits.                                    *)
(***************************************************************************)
EXTENDS ThreadPool, FiniteSetTheorems, SequenceTheorems, TLAPS

(* What a thread holds at each place: append() carries a request under the *)
(* lock, a worker carries one exactly while it processes it.               *)
InHand ==
    /\ pc[Main] = "locked" => request[Main] \in Requests
    /\ \A w \in Workers : request[w] # NoRequest <=> pc[w] = "process"

(* As long as main() is in its loop nothing is destroyed.                  *)
NothingDestroyed == pc[Main] \in {"idle", "locked", "post"} => destroyed = {}

IInv == TypeOK /\ InHand /\ NothingDestroyed /\ TokenAccounting /\ QueueBound

(* Every program counter is one thread's: a step of t leaves the others.   *)
LEMMA MainNotWorker == Main \in Threads /\ Workers \subseteq Threads /\ \A w \in Workers : w # Main
  BY PoolAssumption DEF Threads

(* Awake is a finite set, so WakeUps is a natural number.                  *)
LEMMA AwakeFinite ==
  ASSUME TypeOK
  PROVE  IsFiniteSet(Awake) /\ Cardinality(Awake) \in Nat
  <1>1. Awake \in SUBSET Workers
    BY DEF Awake
  <1>2. QED
    BY <1>1, PoolAssumption, FS_Subset, FS_CardinalityType

(* A step that leaves every worker's being awake as it was keeps the count.*)
LEMMA AwakeSame ==
  ASSUME TypeOK,
         \A w \in Workers : pc'[w] \in {"lock", "locked"} <=> pc[w] \in {"lock", "locked"}
  PROVE  Cardinality(Awake') = Cardinality(Awake)
  <1>1. Awake' = Awake
    BY DEF Awake
  <1>2. QED
    BY <1>1

(* A worker that comes back from its wait adds one to the count.           *)
LEMMA AwakeAdd ==
  ASSUME TypeOK, NEW w \in Workers,
         pc[w] \notin {"lock", "locked"},
         pc' = [pc EXCEPT ![w] = "lock"]
  PROVE  Cardinality(Awake') = Cardinality(Awake) + 1
  <1>1. Awake' = Awake \cup {w}
    BY MainNotWorker DEF Awake, TypeOK
  <1>2. w \notin Awake
    BY DEF Awake
  <1>3. QED
    BY <1>1, <1>2, AwakeFinite, FS_AddElement

(* A worker that leaves its critical section takes one from the count.     *)
LEMMA AwakeRemove ==
  ASSUME TypeOK, NEW w \in Workers, NEW next,
         pc[w] = "locked",
         next \notin {"lock", "locked"},
         pc' = [pc EXCEPT ![w] = next]
  PROVE  Cardinality(Awake') = Cardinality(Awake) - 1
  <1>1. Awake' = Awake \ {w}
    BY MainNotWorker DEF Awake, TypeOK
  <1>2. w \in Awake
    BY DEF Awake
  <1>3. QED
    BY <1>1, <1>2, AwakeFinite, FS_RemoveElement
-----------------------------------------------------------------------------
(* The initial state satisfies the inductive invariant.                    *)
LEMMA InitIInv == Init => IInv
  <1> SUFFICES ASSUME Init PROVE IInv
    OBVIOUS
  <1>1. TypeOK
    <2>1. m_workqueue \in Seq(Requests)
      BY EmptySeq DEF Init
    <2>2. pc \in [Threads -> MainPC \cup WorkerPC]
      BY DEF Init, MainPC, WorkerPC
    <2>3. pc[Main] = "idle" /\ \A w \in Workers : pc[w] = "loop"
      BY MainNotWorker DEF Init
    <2>4. signals \in 0..MaxSignals
      BY PoolAssumption DEF Init
    <2>5. QED
      BY <2>1, <2>2, <2>3, <2>4 DEF Init, TypeOK, MainPC, WorkerPC
  <1>2. InHand /\ NothingDestroyed
    BY PoolAssumption, MainNotWorker DEF Init, InHand, NothingDestroyed, Threads
  <1>3. Awake = {}
    BY MainNotWorker DEF Init, Awake
  <1>4. TokenAccounting
    BY <1>3, MainNotWorker, FS_EmptySet, PoolAssumption DEF Init, TokenAccounting, WakeUps
  <1>5. QueueBound
    BY PoolAssumption DEF Init, QueueBound
  <1>6. QED
    BY <1>1, <1>2, <1>4, <1>5 DEF IInv

(* append() preserves the inductive invariant.                             *)
LEMMA AppendIInv ==
  ASSUME IInv, append PROVE IInv'
  <1> USE DEF IInv
  <1>1. ASSUME NEW r \in Requests, AppendLock(r) PROVE IInv'
    <2>1. TypeOK' /\ InHand' /\ NothingDestroyed' /\ QueueBound'
      BY <1>1, MainNotWorker DEF AppendLock, Lock, TypeOK, InHand, NothingDestroyed, QueueBound, Threads, MainPC
    <2>2. Cardinality(Awake') = Cardinality(Awake)
      BY <1>1, AwakeSame, MainNotWorker DEF AppendLock, TypeOK
    <2>3. TokenAccounting'
      BY <1>1, <2>2, AwakeFinite, MainNotWorker DEF AppendLock, TokenAccounting, WakeUps, TypeOK
    <2>4. QED BY <2>1, <2>3
  <1>2. CASE AppendRefuse
    <2>1. TypeOK' /\ InHand' /\ NothingDestroyed' /\ QueueBound'
      BY <1>2, MainNotWorker
         DEF AppendRefuse, Unlock, TypeOK, InHand, NothingDestroyed, QueueBound, Threads, MainPC
    <2>2. Cardinality(Awake') = Cardinality(Awake)
      BY <1>2, AwakeSame, MainNotWorker DEF AppendRefuse, TypeOK
    <2>3. TokenAccounting'
      BY <1>2, <2>2, AwakeFinite, MainNotWorker DEF AppendRefuse, TokenAccounting, WakeUps, TypeOK
    <2>4. QED BY <2>1, <2>3
  <1>3. CASE AppendPush
    <2>1. /\ m_workqueue' \in Seq(Requests)
          /\ Len(m_workqueue') = Len(m_workqueue) + 1
          /\ Len(m_workqueue) \in Nat
      BY <1>3, AppendProperties, LenProperties DEF AppendPush, TypeOK, InHand
    <2>2. TypeOK' /\ InHand' /\ NothingDestroyed' /\ QueueBound'
      BY <1>3, <2>1, MainNotWorker, PoolAssumption
         DEF AppendPush, Unlock, TypeOK, InHand, NothingDestroyed, QueueBound, Threads, MainPC
    <2>3. Cardinality(Awake') = Cardinality(Awake)
      BY <1>3, AwakeSame, MainNotWorker DEF AppendPush, TypeOK
    <2>4. TokenAccounting'
      BY <1>3, <2>1, <2>3, AwakeFinite, MainNotWorker
         DEF AppendPush, TokenAccounting, WakeUps, TypeOK
    <2>5. QED BY <2>2, <2>4
  <1>4. CASE AppendPost
    <2>1. TypeOK' /\ InHand' /\ NothingDestroyed' /\ QueueBound'
      BY <1>4, MainNotWorker DEF AppendPost, TypeOK, InHand, NothingDestroyed, QueueBound, Threads, MainPC
    <2>2. Cardinality(Awake') = Cardinality(Awake)
      BY <1>4, AwakeSame, MainNotWorker DEF AppendPost, TypeOK
    <2>3. TokenAccounting'
      BY <1>4, <2>2, AwakeFinite, MainNotWorker DEF AppendPost, TokenAccounting, WakeUps, TypeOK
    <2>4. QED BY <2>1, <2>3
  <1>5. QED
    BY <1>1, <1>2, <1>3, <1>4 DEF append

(* A worker's step preserves the inductive invariant.                      *)
LEMMA RunIInv ==
  ASSUME IInv, NEW w \in Workers, run(w) PROVE IInv'
  <1> USE DEF IInv
  <1>0. Len(m_workqueue) \in Nat
    BY LenProperties DEF TypeOK
  <1>1. CASE LoopTest(w)
    <2>1. TypeOK' /\ InHand' /\ NothingDestroyed' /\ QueueBound'
      BY <1>1, MainNotWorker
         DEF LoopTest, At, TypeOK, InHand, NothingDestroyed, QueueBound, Threads, MainPC, WorkerPC
    <2>2. Cardinality(Awake') = Cardinality(Awake)
      BY <1>1, AwakeSame, MainNotWorker DEF LoopTest, At, TypeOK
    <2>3. TokenAccounting'
      BY <1>1, <2>2, AwakeFinite, MainNotWorker DEF LoopTest, At, TokenAccounting, WakeUps, TypeOK
    <2>4. QED BY <2>1, <2>3
  <1>2. CASE SemWait(w)
    <2>1. TypeOK' /\ InHand' /\ NothingDestroyed' /\ QueueBound'
      BY <1>2, MainNotWorker
         DEF SemWait, At, TypeOK, InHand, NothingDestroyed, QueueBound, Threads, MainPC, WorkerPC
    <2>2. Cardinality(Awake') = Cardinality(Awake) + 1
      BY <1>2, AwakeAdd DEF SemWait, At
    <2>3. TokenAccounting'
      BY <1>0, <1>2, <2>2, AwakeFinite, MainNotWorker DEF SemWait, At, TokenAccounting, WakeUps, TypeOK
    <2>4. QED BY <2>1, <2>3
  <1>3. CASE SemWaitInterrupted(w)
    <2>1. TypeOK' /\ InHand' /\ NothingDestroyed' /\ QueueBound'
      BY <1>3, MainNotWorker, PoolAssumption
         DEF SemWaitInterrupted, At, TypeOK, InHand, NothingDestroyed, QueueBound, Threads, MainPC, WorkerPC
    <2>2. Cardinality(Awake') = Cardinality(Awake) + 1
      BY <1>3, AwakeAdd DEF SemWaitInterrupted, At
    <2>3. TokenAccounting'
      BY <1>0, <1>3, <2>2, AwakeFinite, MainNotWorker
         DEF SemWaitInterrupted, At, TokenAccounting, WakeUps, TypeOK
    <2>4. QED BY <2>1, <2>3
  <1>4. CASE QueueLock(w)
    <2>1. TypeOK' /\ InHand' /\ NothingDestroyed' /\ QueueBound'
      BY <1>4, MainNotWorker
         DEF QueueLock, At, Lock, TypeOK, InHand, NothingDestroyed, QueueBound, Threads, MainPC, WorkerPC
    <2>2. Cardinality(Awake') = Cardinality(Awake)
      BY <1>4, AwakeSame, MainNotWorker DEF QueueLock, At, TypeOK
    <2>3. TokenAccounting'
      BY <1>4, <2>2, AwakeFinite, MainNotWorker DEF QueueLock, At, TokenAccounting, WakeUps, TypeOK
    <2>4. QED BY <2>1, <2>3
  <1>5. CASE TakeNothing(w)
    <2>1. TypeOK' /\ InHand' /\ NothingDestroyed' /\ QueueBound'
      BY <1>5, MainNotWorker
         DEF TakeNothing, At, Unlock, TypeOK, InHand, NothingDestroyed, QueueBound, Threads, MainPC, WorkerPC
    <2>2. Cardinality(Awake') = Cardinality(Awake) - 1
      BY <1>5, AwakeRemove DEF TakeNothing, At
    <2>3. Len(m_workqueue) = 0
      BY <1>5, EmptySeq DEF TakeNothing
    <2>4. Cardinality(Awake) > 0
      <3>1. Awake # {}
        BY <1>5 DEF TakeNothing, At, Awake
      <3>2. QED
        BY <3>1, AwakeFinite, FS_EmptySet
    <2>5. TokenAccounting'
      BY <1>5, <2>2, <2>3, <2>4, AwakeFinite, MainNotWorker
         DEF TakeNothing, At, TokenAccounting, WakeUps, TypeOK
    <2>6. QED BY <2>1, <2>5
  <1>6. CASE TakeRequest(w)
    <2>1. /\ m_workqueue' \in Seq(Requests)
          /\ Len(m_workqueue') = Len(m_workqueue) - 1
          /\ Head(m_workqueue) \in Requests
      BY <1>6, HeadTailProperties DEF TakeRequest, At, TypeOK
    <2>2. TypeOK' /\ InHand' /\ NothingDestroyed' /\ QueueBound'
      BY <1>0, <1>6, <2>1, MainNotWorker, PoolAssumption
         DEF TakeRequest, At, Unlock, TypeOK, InHand, NothingDestroyed, QueueBound, Threads, MainPC, WorkerPC
    <2>3. Cardinality(Awake') = Cardinality(Awake) - 1
      BY <1>6, AwakeRemove DEF TakeRequest, At
    <2>4. TokenAccounting'
      BY <1>0, <1>6, <2>1, <2>3, AwakeFinite, MainNotWorker
         DEF TakeRequest, At, TokenAccounting, WakeUps, TypeOK
    <2>5. QED BY <2>2, <2>4
  <1>7. CASE Process(w)
    <2>1. TypeOK' /\ InHand' /\ NothingDestroyed' /\ QueueBound'
      BY <1>7, MainNotWorker
         DEF Process, At, TypeOK, InHand, NothingDestroyed, QueueBound, Threads, MainPC, WorkerPC
    <2>2. Cardinality(Awake') = Cardinality(Awake)
      BY <1>7, AwakeSame, MainNotWorker DEF Process, At, TypeOK
    <2>3. TokenAccounting'
      BY <1>7, <2>2, AwakeFinite, MainNotWorker DEF Process, At, TokenAccounting, WakeUps, TypeOK
    <2>4. QED BY <2>1, <2>3
  <1>8. CASE UseDestroyed(w)
    <2>1. TypeOK' /\ InHand' /\ NothingDestroyed' /\ QueueBound'
      BY <1>8, MainNotWorker
         DEF UseDestroyed, TypeOK, InHand, NothingDestroyed, QueueBound, Threads, MainPC, WorkerPC
    <2>2. ASSUME destroyed \subseteq {"users"}
          PROVE  Cardinality(Awake') = Cardinality(Awake)
      <3>1. pc[w] = "process"
        BY <1>8, <2>2 DEF UseDestroyed, Uses, TypeOK, WorkerPC
      <3>2. QED
        BY <1>8, <3>1, AwakeSame, MainNotWorker DEF UseDestroyed, TypeOK
    <2>3. TokenAccounting'
      BY <1>8, <2>2, AwakeFinite, MainNotWorker DEF UseDestroyed, TokenAccounting, WakeUps, TypeOK
    <2>4. QED BY <2>1, <2>3
  <1>9. QED
    BY <1>1, <1>2, <1>3, <1>4, <1>5, <1>6, <1>7, <1>8 DEF run

(* What main() does after its loop preserves the inductive invariant.      *)
LEMMA DeleteIInv ==
  ASSUME IInv, delete PROVE IInv'
  <1> USE DEF IInv
  <1>1. CASE LeaveLoop
    <2>1. TypeOK' /\ InHand' /\ NothingDestroyed' /\ QueueBound'
      BY <1>1, MainNotWorker
         DEF LeaveLoop, TypeOK, InHand, NothingDestroyed, QueueBound, Threads, MainPC, Parts
    <2>2. Cardinality(Awake') = Cardinality(Awake)
      BY <1>1, AwakeSame, MainNotWorker DEF LeaveLoop, TypeOK
    <2>3. TokenAccounting'
      BY <1>1, <2>2, AwakeFinite, MainNotWorker
         DEF LeaveLoop, NothingDestroyed, TokenAccounting, WakeUps, TypeOK
    <2>4. QED BY <2>1, <2>3
  <1>2. CASE Destroy
    <2>1. TypeOK' /\ InHand' /\ NothingDestroyed' /\ QueueBound'
      BY <1>2, MainNotWorker DEF Destroy, TypeOK, InHand, NothingDestroyed, QueueBound, Threads, MainPC
    <2>2. Cardinality(Awake') = Cardinality(Awake)
      BY <1>2, AwakeSame, MainNotWorker DEF Destroy, TypeOK
    <2>3. TokenAccounting'
      BY <1>2, <2>2, AwakeFinite, MainNotWorker
         DEF Destroy, TokenAccounting, WakeUps, TypeOK
    <2>4. QED BY <2>1, <2>3
  <1>3. CASE DestroyMembers
    <2>1. ASSUME NEW part \in SUBSET Parts, NEW before, DestroyMember(part, before),
                 part \cap {"users"} = {}, part # {}
          PROVE  IInv'
      <3>1. m_workqueue' \in Seq(Requests) /\ Len(m_workqueue') <= m_max_requests + 1
        BY <2>1, PoolAssumption, EmptySeq DEF DestroyMember, TypeOK, QueueBound
      <3>2. TypeOK' /\ InHand' /\ NothingDestroyed' /\ QueueBound'
        BY <2>1, <3>1 DEF DestroyMember, TypeOK, InHand, NothingDestroyed, QueueBound
      <3>3. TokenAccounting'
        BY <2>1 DEF DestroyMember, TokenAccounting
      <3>4. QED BY <3>2, <3>3
    <2>2. QED
      BY <1>3, <2>1 DEF DestroyMembers, Parts
  <1>4. CASE Exit
    <2>1. TypeOK' /\ InHand' /\ NothingDestroyed' /\ QueueBound'
      BY <1>4, MainNotWorker DEF Exit, TypeOK, InHand, NothingDestroyed, QueueBound, Threads, MainPC
    <2>2. TokenAccounting'
      BY <1>4 DEF Exit, Parts, TokenAccounting
    <2>3. QED BY <2>1, <2>2
  <1>5. QED
    BY <1>1, <1>2, <1>3, <1>4 DEF delete

(* Every step preserves the inductive invariant.                           *)
LEMMA NextIInv == IInv /\ [Next]_vars => IInv'
  <1> SUFFICES ASSUME IInv, [Next]_vars PROVE IInv'
    OBVIOUS
  <1>1. CASE append
    BY <1>1, AppendIInv
  <1>2. CASE delete
    BY <1>2, DeleteIInv
  <1>3. ASSUME NEW w \in Workers, run(w) PROVE IInv'
    BY <1>3, RunIInv
  <1>4. CASE UNCHANGED vars
    <2>1. Awake' = Awake
      BY <1>4 DEF vars, Awake
    <2>2. QED
      BY <1>4, <2>1 DEF vars, IInv, TypeOK, InHand, NothingDestroyed, QueueBound, TokenAccounting, WakeUps
  <1>5. QED
    BY <1>1, <1>2, <1>3, <1>4 DEF Next

(* The inductive invariant holds in every behaviour of the pool.           *)
THEOREM PoolInvariant == Spec => []IInv
  BY InitIInv, NextIInv, PTL DEF Spec

(* Every variable of the pool keeps its type: in particular the semaphore  *)
(* is never driven below zero and append() never pushes a null pointer.    *)
THEOREM PoolTypeCorrect == Spec => []TypeOK
  <1>1. IInv => TypeOK
    BY DEF IInv
  <1>2. QED
    BY <1>1, PoolInvariant, PTL

(* No accepted request is left without a wake-up, and spurious wake-ups    *)
(* are bounded by the interrupted waits, for any number of workers.        *)
THEOREM NoStrandedRequest == Spec => []TokenAccounting
  <1>1. IInv => TokenAccounting
    BY DEF IInv
  <1>2. QED
    BY <1>1, PoolInvariant, PTL

(* append() never lets the list grow beyond m_max_requests + 1.            *)
THEOREM QueueNeverBeyondBound == Spec => []QueueBound
  <1>1. IInv => QueueBound
    BY DEF IInv
  <1>2. QED
    BY <1>1, PoolInvariant, PTL
-----------------------------------------------------------------------------
(* The pop of run() is the abstract queue's hand-over: the workers' part of*)
(* request is what it calls running.                                       *)
LEMMA StartMapped ==
  ASSUME IInv, NEW w \in Workers, TakeRequest(w)
  PROVE  Queue!Start(w)
  <1>1. request[w] = NoRequest
    BY DEF IInv, InHand, TakeRequest, At
  <1>2. [v \in Workers |-> request'[v]]
          = [[v \in Workers |-> request[v]] EXCEPT ![w] = Head(m_workqueue)]
    BY MainNotWorker DEF IInv, TypeOK, TakeRequest
  <1>3. "m_workqueue" \notin destroyed /\ destroyed' = destroyed
    <2>1. Uses("locked") = {"m_workqueue", "m_queuelocker"}
      BY DEF Uses
    <2>2. QED
      BY <2>1 DEF TakeRequest, At
  <1>4. QED
    BY <1>1, <1>2, <1>3 DEF TakeRequest, Queue!Start

(* The end of process() is the end of the hand-over.                       *)
LEMMA FinishMapped ==
  ASSUME IInv, NEW w \in Workers, Process(w)
  PROVE  Queue!Finish(w)
  <1>1. request[w] # NoRequest
    BY DEF IInv, InHand, Process, At
  <1>2. [v \in Workers |-> request'[v]]
          = [[v \in Workers |-> request[v]] EXCEPT ![w] = NoRequest]
    BY MainNotWorker DEF IInv, TypeOK, Process
  <1>3. QED
    BY <1>1, <1>2 DEF Process, At, Queue!Finish

(* The push of append() is the submission.                                 *)
LEMMA SubmitMapped ==
  ASSUME IInv, AppendPush
  PROVE  Queue!Submit(request[Main])
  <1>1. Len(m_workqueue) < m_max_requests + 1
    BY PoolAssumption, LenProperties DEF AppendPush, IInv, TypeOK
  <1>2. [v \in Workers |-> request'[v]] = [v \in Workers |-> request[v]]
    BY MainNotWorker DEF IInv, TypeOK, AppendPush
  <1>3. QED
    BY <1>1, <1>2 DEF AppendPush, IInv, NothingDestroyed, Queue!Submit

(* append() writes main's own slot of request only.                        *)
LEMMA MainHandUnmapped ==
  ASSUME IInv, m_workqueue' = m_workqueue,
         "m_workqueue" \in destroyed' <=> "m_workqueue" \in destroyed,
         \A w \in Workers : request'[w] = request[w]
  PROVE  UNCHANGED Queue!vars
  <1>1. [v \in Workers |-> request'[v]] = [v \in Workers |-> request[v]]
    OBVIOUS
  <1>2. QED
    BY <1>1 DEF Queue!vars

(* A worker that uses what is destroyed is done with what it had in hand.  *)
LEMMA UndefinedMapped ==
  ASSUME IInv, NEW w \in Workers, UseDestroyed(w)
  PROVE  [Queue!Next]_(Queue!vars)
  <1>1. [v \in Workers |-> request'[v]]
          = [[v \in Workers |-> request[v]] EXCEPT ![w] = NoRequest]
    BY MainNotWorker DEF IInv, TypeOK, UseDestroyed
  <1>2. CASE request[w] # NoRequest
    <2>1. Queue!Finish(w)
      BY <1>1, <1>2 DEF UseDestroyed, Queue!Finish
    <2>2. QED
      BY <2>1 DEF Queue!Next
  <1>3. CASE request[w] = NoRequest
    BY <1>3, MainHandUnmapped, MainNotWorker DEF UseDestroyed, IInv, TypeOK
  <1>4. QED
    BY <1>2, <1>3

(* The end of the list closes the queue; the other members are not seen.   *)
LEMMA DestroyMapped ==
  ASSUME IInv, DestroyMembers
  PROVE  [Queue!Next]_(Queue!vars)
  <1>1. CASE DestroyMember({"m_workqueue", "this"}, {"users", "m_queuestat", "m_queuelocker"})
    <2>1. Queue!Close
      BY <1>1 DEF DestroyMember, Queue!Close
    <2>2. QED
      BY <2>1 DEF Queue!Next
  <1>2. CASE DestroyMember({"m_queuestat"}, {"users"})
             \/ DestroyMember({"m_queuelocker"}, {"users", "m_queuestat"})
    <2>1. UNCHANGED Queue!vars
      BY <1>2, MainHandUnmapped DEF DestroyMember
    <2>2. QED
      BY <2>1
  <1>3. QED
    BY <1>1, <1>2 DEF DestroyMembers

(* threadpool is a bounded first-in first-out queue that hands every       *)
(* accepted request to exactly one worker: each step of append() and run() *)
(* is a Submit, a Start, a Finish or invisible, the end of the list is the *)
(* Close.                                                                  *)
THEOREM PoolImplementsQueue == Spec => ImplementsRequestQueue
  <1>1. Init => Queue!Init
    BY MainNotWorker DEF Init, Queue!Init
  <1>2. IInv /\ [Next]_vars => [Queue!Next]_(Queue!vars)
    <2> SUFFICES ASSUME IInv, [Next]_vars
                 PROVE  [Queue!Next]_(Queue!vars)
      OBVIOUS
    <2>1. ASSUME NEW r \in Requests, AppendLock(r) PROVE UNCHANGED Queue!vars
      BY <2>1, MainHandUnmapped, MainNotWorker DEF AppendLock, IInv, TypeOK
    <2>2. CASE AppendRefuse
      BY <2>2, MainHandUnmapped, MainNotWorker DEF AppendRefuse, IInv, TypeOK
    <2>3. CASE AppendPush
      <3>1. request[Main] \in Requests
        BY <2>3 DEF AppendPush, IInv, InHand
      <3>2. QED
        BY <2>3, <3>1, SubmitMapped DEF Queue!Next
    <2>4. CASE AppendPost
      BY <2>4, MainHandUnmapped DEF AppendPost
    <2>5. CASE delete
      <3>1. CASE LeaveLoop
        BY <3>1, MainHandUnmapped DEF LeaveLoop, IInv, NothingDestroyed
      <3>2. CASE Destroy \/ Exit
        BY <3>2, MainHandUnmapped DEF Destroy, Exit
      <3>3. QED
        BY <2>5, <3>1, <3>2, DestroyMapped DEF delete
    <2>6. ASSUME NEW w \in Workers, run(w) PROVE [Queue!Next]_(Queue!vars)
      <3>1. CASE TakeRequest(w)
        BY <3>1, StartMapped DEF Queue!Next
      <3>2. CASE Process(w)
        BY <3>2, FinishMapped DEF Queue!Next
      <3>3. CASE LoopTest(w) \/ SemWait(w) \/ SemWaitInterrupted(w)
                   \/ QueueLock(w) \/ TakeNothing(w)
        BY <3>3, MainHandUnmapped
           DEF LoopTest, At, SemWait, SemWaitInterrupted, QueueLock, TakeNothing
      <3>4. QED
        BY <2>6, <3>1, <3>2, <3>3, UndefinedMapped DEF run
    <2>7. CASE UNCHANGED vars
      BY <2>7, MainHandUnmapped DEF vars
    <2>8. QED
      BY <2>1, <2>2, <2>3, <2>4, <2>5, <2>6, <2>7 DEF Next, append
  <1>3. QED
    BY <1>1, <1>2, PoolInvariant, PTL DEF Spec, ImplementsRequestQueue, Queue!Spec
=============================================================================
