------------------------------ MODULE TimerSet ------------------------------
(***************************************************************************)
(* What the timers of the server promise (timer/min_heap.h as main.c uses  *)
(* it): a set of timers with deadlines that can be moved to later only,    *)
(* taken out in the order of their deadlines, none before it has passed,   *)
(* and a callback for those, and only those, whose connection was not      *)
(* closed before.                                                          *)
(***************************************************************************)
EXTENDS Integers

CONSTANT Timers

VARIABLES timers,     (* the timers set                                    *)
          deadline,   (* when each of them expires                         *)
          armed,      (* those whose callback is to be called              *)
          called,     (* those whose callback was called when they expired *)
          now

vars == <<timers, deadline, armed, called, now>>

Init ==
    /\ timers = {} /\ armed = {} /\ called = {}
    /\ deadline = [t \in Timers |-> 0]
    /\ now = 0

(* The deadline of t becomes some time that is not before from.            *)
SetDeadline(t, from) ==
    /\ deadline'[t] \in Nat /\ deadline'[t] >= from
    /\ deadline' = [deadline EXCEPT ![t] = deadline'[t]]

Add(t) ==
    /\ t \in Timers \ timers
    /\ timers' = timers \cup {t}
    /\ armed' = armed \cup {t}
    /\ called' = called \ {t}
    /\ SetDeadline(t, now)
    /\ UNCHANGED now

Delay(t) ==
    /\ t \in timers
    /\ SetDeadline(t, deadline[t])
    /\ UNCHANGED <<timers, armed, called, now>>

Cancel(t) ==
    /\ t \in timers
    /\ armed' = armed \ {t}
    /\ UNCHANGED <<timers, deadline, called, now>>

Expire(t) ==
    /\ t \in timers
    /\ deadline[t] <= now
    /\ \A u \in timers : deadline[t] <= deadline[u]
    /\ timers' = timers \ {t}
    /\ armed' = armed \ {t}
    /\ called' = called \cup ({t} \cap armed)
    /\ UNCHANGED <<deadline, now>>

Pass == now' = now + 1 /\ UNCHANGED <<timers, deadline, armed, called>>

Next == Pass \/ \E t \in Timers : Add(t) \/ Delay(t) \/ Cancel(t) \/ Expire(t)

Spec == Init /\ [][Next]_vars
=============================================================================
