---------------------------- MODULE RequestQueue ----------------------------
(***************************************************************************)
(* What the thread pool promises its callers, without locks or semaphores: *)
(* a bounded first-in first-out list of requests.  append() adds one       *)
(* request or refuses it; every accepted request is handed to exactly one  *)
(* worker, in order of acceptance.  When the queue is closed, what waits is*)
(* dropped, and from then on nothing is accepted or handed over.           *)
(***************************************************************************)
EXTENDS Naturals, Sequences

CONSTANTS Workers,     (* the worker threads                               *)
          Requests,    (* the T* pointers main() can append                *)
          NoRequest,   (* a worker that holds no request                   *)
          Capacity     (* how many requests may wait                       *)

VARIABLES pending,     (* the accepted requests nobody has taken           *)
          running,     (* running[w]: the request worker w processes       *)
          open         (* the queue exists                                 *)

vars == <<pending, running, open>>

Init ==
    /\ pending = <<>>
    /\ running = [w \in Workers |-> NoRequest]
    /\ open = TRUE

Submit(r) ==
    /\ open
    /\ Len(pending) < Capacity
    /\ pending' = Append(pending, r)
    /\ UNCHANGED <<running, open>>

Start(w) ==
    /\ open
    /\ running[w] = NoRequest
    /\ pending # <<>>
    /\ running' = [running EXCEPT ![w] = Head(pending)]
    /\ pending' = Tail(pending)
    /\ UNCHANGED open

Finish(w) ==
    /\ running[w] # NoRequest
    /\ running' = [running EXCEPT ![w] = NoRequest]
    /\ UNCHANGED <<pending, open>>

Close ==
    /\ open
    /\ open' = FALSE
    /\ pending' = <<>>
    /\ UNCHANGED running

Next ==
    \/ \E r \in Requests : Submit(r)
    \/ \E w \in Workers : Start(w) \/ Finish(w)
    \/ Close

Spec == Init /\ [][Next]_vars
=============================================================================
