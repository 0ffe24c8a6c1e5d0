-------------------------- MODULE SqlConnectionPool --------------------------
(***************************************************************************)
(* connection_pool and connectionRAII (CGImysql/sql_connection_pool.cpp):  *)
(* a list of MYSQL connections lent to the worker threads, one for the     *)
(* time of one request.  main() borrows one first, to load the user table, *)
(* and the destructor of the singleton closes what is in the list when     *)
(* main() returns, while the detached workers still run.                   *)
(*                                                                         *)
(* A critical section of `lock` is one step: the counters are touched only *)
(* inside one, and the unlocked read of connList.size() sees the list as   *)
(* it was before or after one.                                             *)
(***************************************************************************)
EXTENDS Integers, Sequences, FiniteSets, SequencesExt

CONSTANTS Workers,      (* the threads of the thread pool                  *)
          Main,         (* the thread that runs main()                     *)
          Conns,        (* the connections init() opens                    *)
          NULL,         (* no connection                                   *)
          UINT_RANGE,   (* number of values of an unsigned int             *)
          MaxSignals    (* bound: waits interrupted in a behaviour         *)

ASSUME SqlAssumption ==
    /\ IsFiniteSet(Workers)
    /\ Main \notin Workers
    /\ IsFiniteSet(Conns)
    /\ Conns # {}
    /\ NULL \notin Conns
    /\ UINT_RANGE \in Nat
    /\ UINT_RANGE > Cardinality(Conns)
    /\ MaxSignals \in Nat

(* main.c opens 8 connections and the thread pool has 8 threads.           *)
EnoughConnections == Cardinality(Workers) <= Cardinality(Conns)

Threads == Workers \cup {Main}

VARIABLES connList,     (* the connections to lend, oldest first           *)
          FreeConn,     (* the counters of the class, unsigned             *)
          CurConn,
          reserve,      (* the semaphore's value                           *)
          closed,       (* connections given to mysql_close()              *)
          phase,        (* how far main() is                               *)
          pc,           (* where each thread is in the pool's code         *)
          con,          (* the connection each thread has in hand          *)
          signals       (* waits interrupted so far                        *)

vars == <<connList, FreeConn, CurConn, reserve, closed, phase, pc, con, signals>>

(* "abort": pop_front() on an empty list unlinks and frees the list's own  *)
(* node, and the allocator stops the process.                              *)
PCs == {"idle", "wait", "pop", "use", "post", "abort"}

(* After init(): one round of mysql_real_connect() per connection.         *)
Init ==
    /\ connList \in SetToSeqs(Conns)
    /\ FreeConn = Cardinality(Conns)
    /\ CurConn = 0
    /\ reserve = FreeConn
    /\ closed = {}
    /\ phase = "load"
    /\ pc = [t \in Threads |-> "idle"]
    /\ con = [t \in Threads |-> NULL]
    /\ signals = 0

Inc(n) == (n + 1) % UINT_RANGE
Dec(n) == (n + UINT_RANGE - 1) % UINT_RANGE

(* initmysql_result() is the only use before the server's loop; then only  *)
(* workers, which have tasks from that loop only, build connectionRAIIs.   *)
MayBorrow(t) == IF t = Main THEN phase = "load" ELSE phase # "load"
-----------------------------------------------------------------------------
(***************************************************************************)
(* Seeded faults: plausible mistakes in the code below, each checked to be *)
(* caught by one of the properties at the end of the module.  They are not *)
(* part of the specification.                                              *)
(***************************************************************************)
PopFrontKept(t) ==             (* front() without pop_front()              *)
    /\ pc[t] = "pop"
    /\ connList # <<>>
    /\ con' = [con EXCEPT ![t] = Head(connList)]
    /\ FreeConn' = Dec(FreeConn)
    /\ CurConn' = Inc(CurConn)
    /\ pc' = [pc EXCEPT ![t] = "use"]
    /\ UNCHANGED <<connList, reserve, closed, phase, signals>>

ReleaseNoPost(t) ==            (* no post when the list was empty          *)
    /\ pc[t] = "use"
    /\ con[t] # NULL
    /\ connList' = Append(connList, con[t])
    /\ FreeConn' = Inc(FreeConn)
    /\ CurConn' = Dec(CurConn)
    /\ con' = [con EXCEPT ![t] = NULL]
    /\ pc' = [pc EXCEPT ![t] = IF connList = <<>> THEN "idle" ELSE "post"]
    /\ UNCHANGED <<reserve, closed, phase, signals>>

ReleaseDropped(t) ==           (* the connection is not put back           *)
    /\ pc[t] = "use"
    /\ con[t] # NULL
    /\ FreeConn' = Inc(FreeConn)
    /\ CurConn' = Dec(CurConn)
    /\ con' = [con EXCEPT ![t] = NULL]
    /\ pc' = [pc EXCEPT ![t] = "post"]
    /\ UNCHANGED <<connList, reserve, closed, phase, signals>>
-----------------------------------------------------------------------------
(* GetConnection(), called by the constructor of connectionRAII.           *)

GetNone(t) ==
    /\ pc[t] = "idle"
    /\ MayBorrow(t)
    /\ connList = <<>>
    /\ pc' = [pc EXCEPT ![t] = "use"]
    /\ UNCHANGED <<connList, FreeConn, CurConn, reserve, closed, phase, con, signals>>

GetTest(t) ==
    /\ pc[t] = "idle"
    /\ MayBorrow(t)
    /\ connList # <<>>
    /\ pc' = [pc EXCEPT ![t] = "wait"]
    /\ UNCHANGED <<connList, FreeConn, CurConn, reserve, closed, phase, con, signals>>

ReserveWait(t) ==
    /\ pc[t] = "wait"
    /\ reserve > 0
    /\ reserve' = reserve - 1
    /\ pc' = [pc EXCEPT ![t] = "pop"]
    /\ UNCHANGED <<connList, FreeConn, CurConn, closed, phase, con, signals>>

(* sem_wait() returns -1 with EINTR and nobody looks at it.                *)
ReserveInterrupted(t) ==
    /\ pc[t] = "wait"
    /\ phase # "load"          \* the handlers are installed after the load
    /\ signals < MaxSignals
    /\ signals' = signals + 1
    /\ pc' = [pc EXCEPT ![t] = "pop"]
    /\ UNCHANGED <<connList, FreeConn, CurConn, reserve, closed, phase, con>>

PopFront(t) ==
    /\ pc[t] = "pop"
    /\ connList # <<>>
    /\ con' = [con EXCEPT ![t] = Head(connList)]
    /\ connList' = Tail(connList)
    /\ FreeConn' = Dec(FreeConn)
    /\ CurConn' = Inc(CurConn)
    /\ pc' = [pc EXCEPT ![t] = "use"]
    /\ UNCHANGED <<reserve, closed, phase, signals>>

PopFrontEmpty(t) ==
    /\ pc[t] = "pop"
    /\ connList = <<>>
    /\ pc' = [pc EXCEPT ![t] = "abort"]
    /\ UNCHANGED <<connList, FreeConn, CurConn, reserve, closed, phase, con, signals>>
-----------------------------------------------------------------------------
(* ReleaseConnection(), called by the destructor of connectionRAII.        *)

ReleaseNull(t) ==
    /\ pc[t] = "use"
    /\ con[t] = NULL
    /\ pc' = [pc EXCEPT ![t] = "idle"]
    /\ phase' = IF t = Main THEN "serve" ELSE phase
    /\ UNCHANGED <<connList, FreeConn, CurConn, reserve, closed, con, signals>>

ReleaseConnection(t) ==
    /\ pc[t] = "use"
    /\ con[t] # NULL
    /\ connList' = Append(connList, con[t])
    /\ FreeConn' = Inc(FreeConn)
    /\ CurConn' = Dec(CurConn)
    /\ con' = [con EXCEPT ![t] = NULL]
    /\ pc' = [pc EXCEPT ![t] = "post"]
    /\ UNCHANGED <<reserve, closed, phase, signals>>

ReleasePost(t) ==
    /\ pc[t] = "post"
    /\ reserve' = reserve + 1
    /\ pc' = [pc EXCEPT ![t] = "idle"]
    /\ phase' = IF t = Main THEN "serve" ELSE phase
    /\ UNCHANGED <<connList, FreeConn, CurConn, closed, con, signals>>

(* ~connection_pool(), at the exit of main(): reserve keeps its value, and *)
(* the counters are reset only when there was something to close.          *)
DestroyPool ==
    /\ phase = "serve"
    /\ phase' = "down"
    /\ closed' = closed \cup ToSet(connList)
    /\ connList' = <<>>
    /\ FreeConn' = IF connList # <<>> THEN 0 ELSE FreeConn
    /\ CurConn' = IF connList # <<>> THEN 0 ELSE CurConn
    /\ UNCHANGED <<reserve, pc, con, signals>>
-----------------------------------------------------------------------------
Alive == \A t \in Threads : pc[t] # "abort"

Borrow(t) ==
    \/ GetNone(t)
    \/ GetTest(t)
    \/ ReserveWait(t)
    \/ ReserveInterrupted(t)
    \/ PopFront(t)
    \/ PopFrontEmpty(t)
    \/ ReleaseNull(t)
    \/ ReleaseConnection(t)
    \/ ReleasePost(t)

Next == Alive /\ (DestroyPool \/ \E t \in Threads : Borrow(t))

Spec == Init /\ [][Next]_vars
-----------------------------------------------------------------------------
TypeOK ==
    /\ connList \in Seq(Conns)
    /\ FreeConn \in 0..UINT_RANGE - 1
    /\ CurConn \in 0..UINT_RANGE - 1
    /\ reserve \in Nat
    /\ closed \subseteq Conns
    /\ phase \in {"load", "serve", "down"}
    /\ pc \in [Threads -> PCs]
    /\ con \in [Threads -> Conns \cup {NULL}]
    /\ signals \in 0..MaxSignals

At(l)    == {t \in Threads : pc[t] = l}
Lent     == {t \in Threads : con[t] # NULL}

(* A connection is never lent twice, lent and listed, or lost: at any time *)
(* each is in the list once, with one thread, or closed, also while the    *)
(* singleton is destroyed under the workers.                               *)
EachConnectionInOnePlace ==
    /\ \A i, j \in 1..Len(connList) : connList[i] = connList[j] => i = j
    /\ \A t, u \in Threads : t # u /\ con[t] # NULL => con[t] # con[u]
    /\ \A t \in Threads : con[t] \notin ToSet(connList) \cup closed
    /\ ToSet(connList) \cap closed = {}
    /\ Conns = ToSet(connList) \cup closed \cup {con[t] : t \in Lent}

(* The semaphore counts the list, up to the threads between the two and    *)
(* the tokens that interrupted waits left behind, until the list is        *)
(* cleared or the process stopped; so a waiting thread is let through only *)
(* if it will find a connection, or if a signal let another one take a     *)
(* connection unpaid.                                                      *)
ReserveCountsList ==
    (phase # "down" /\ Alive) =>
        reserve + Cardinality(At("pop")) + Cardinality(At("post"))
            = Len(connList) + signals

(* FreeConn and CurConn agree with the list and the loans, under any       *)
(* interleaving of GetConnection and ReleaseConnection.                    *)
CountersAgree ==
    phase # "down" => /\ FreeConn = Len(connList)
                      /\ CurConn = Cardinality(Lent)

(* With a connection per worker, every request is processed with one and   *)
(* nobody pops the empty list, although an interrupted wait takes a        *)
(* connection without its token; without interrupted waits the semaphore   *)
(* alone keeps every thread off the empty list.                            *)
NeverPopsEmpty ==
    (phase # "down" /\ (EnoughConnections \/ signals = 0)) => At("abort") = {}

AlwaysConnected ==
    (phase # "down" /\ EnoughConnections) =>
        \A t \in At("use") : con[t] # NULL
=============================================================================
