------------------------------ MODULE TimeHeap ------------------------------
(***************************************************************************)
(* The timers of main(): the array heap of timer/min_heap.h with           *)
(* timer_handler() and the alarm of main.c.                                *)
(*                                                                         *)
(* All of it runs in the main thread, but time passes meanwhile: tick()    *)
(* and timer_handler() read the clock separately.  Each iteration of a     *)
(* percolation is a step.  The functions loop over array, so hole is the   *)
(* index written next and temp the timer that will be put there.           *)
(***************************************************************************)
EXTENDS Integers

CONSTANTS Timers,      (* the heap_timer objects                           *)
          NULL,
          Capacity,    (* the initial capacity, 5 in main.c                *)
          TIMESLOT,
          UIntRange,   (* 2^32: alarm() takes an unsigned number           *)
          MaxTime      (* bound: the clock stops                           *)

Never == -1

ASSUME TimeHeapAssumption ==
    /\ NULL \notin Timers
    /\ Capacity \in Nat \ {0}
    /\ TIMESLOT \in Nat \ {0}
    /\ UIntRange \in Nat /\ UIntRange > 3 * TIMESLOT
    /\ MaxTime \in Nat

VARIABLES
    array, capacity, cur_size,
    expire,      (* absolute time of each timer                            *)
    cb_func,     (* the timers whose cb_func is set                        *)
    called,      (* the timers tick() called the callback of               *)
    pc,          (* "loop": in main()'s loop; "rise", "sink": in a         *)
                 (* percolation; "tick", "alarm": in timer_handler()       *)
    hole, temp,
    ret,         (* where percolate_down() returns to                      *)
    clock,
    cur,         (* the time tick() read                                   *)
    due,         (* when the kernel sends SIGALRM, or Never                *)
    timeout,     (* SIGALRM came and was not handled yet                   *)
    slow         (* history: the clock moved during a timer_handler()      *)

heapVars  == <<array, capacity, cur_size>>
timerVars == <<expire, cb_func, called>>
loopVars  == <<hole, temp, ret>>
alarmVars == <<cur, due, timeout>>
timeVars  == <<clock, slow>>

vars == <<heapVars, timerVars, pc, loopVars, alarmVars, timeVars>>

Init ==
    /\ array = [i \in 0..(Capacity - 1) |-> NULL]
    /\ capacity = Capacity /\ cur_size = 0
    /\ expire = [t \in Timers |-> 0]
    /\ cb_func = {} /\ called = {}
    /\ pc = "loop"
    /\ hole = 0 /\ temp = NULL /\ ret = "loop"
    /\ clock = 0 /\ cur = 0
    /\ due = TIMESLOT          \* alarm(TIMESLOT) before the loop
    /\ timeout = FALSE /\ slow = FALSE

Indices == 0..(cur_size - 1)

(* The timer at index i once the percolation under way is done with hole.  *)
Entry(i) == IF pc \in {"rise", "sink"} /\ i = hole THEN temp ELSE array[i]
Contents == {Entry(i) : i \in Indices}

Parent(i)      == (i - 1) \div 2
IsChild(c, p)  == c = 2 * p + 1 \/ c = 2 * p + 2
-----------------------------------------------------------------------------
(***************************************************************************)
(* Seeded faults: plausible mistakes in the code below, each checked to be *)
(* caught by one of the properties at the end of the module.  They are not *)
(* part of the specification.                                              *)
(***************************************************************************)
SmallChildLeft(p) == 2 * p + 1               (* the right child is ignored *)

MoveLastOffByOne ==                          (* cur_size--, not --cur_size *)
    LET last == IF cur_size < capacity THEN array[cur_size] ELSE NULL
    IN  /\ array' = [array EXCEPT ![0] = last]
        /\ cur_size' = cur_size - 1
        /\ pc' = "sink" /\ hole' = 0 /\ temp' = last /\ ret' = "tick"

AdjustWithoutSink(t) ==                      (* adjust() does nothing      *)
    /\ pc = "loop"
    /\ t \in Contents \cap cb_func
    /\ expire' = [expire EXCEPT ![t] = clock + 3 * TIMESLOT]
    /\ UNCHANGED <<heapVars, cb_func, called, pc, loopVars, alarmVars, timeVars>>

SetAlarmForTimers ==                         (* none for an empty heap    *)
    /\ pc = "alarm"
    /\ due' = IF cur_size > 0 THEN expire[array[0]] ELSE Never
    /\ pc' = "loop"
    /\ cur' = 0
    /\ UNCHANGED <<heapVars, timerVars, loopVars, timeout, timeVars>>

TickOnce ==                                  (* one timer for each SIGALRM *)
    /\ pc = "tick"
    /\ pc' = "alarm"
    /\ UNCHANGED <<heapVars, timerVars, loopVars, alarmVars, timeVars>>
-----------------------------------------------------------------------------
(* percolate_down(index), from where it is called to its first iteration,  *)
(* which is to end in ret.                                                 *)
PercolateDown(index, timer, return) ==
    /\ pc' = "sink"
    /\ hole' = index
    /\ temp' = timer
    /\ ret' = return

Done == hole' = 0 /\ temp' = NULL /\ ret' = "loop"

(* The child percolate_down() compares with.                               *)
SmallChild(p) ==
    LET left == 2 * p + 1
    IN  IF left < cur_size - 1 /\ expire[array[left + 1]] < expire[array[left]]
        THEN left + 1 ELSE left

SinkMoves == /\ 2 * hole + 1 <= cur_size - 1
             /\ expire[array[SmallChild(hole)]] < expire[temp]

SinkStep ==
    /\ pc = "sink"
    /\ SinkMoves
    /\ array' = [array EXCEPT ![hole] = array[SmallChild(hole)]]
    /\ hole' = SmallChild(hole)
    /\ UNCHANGED <<capacity, cur_size, timerVars, pc, temp, ret, alarmVars, timeVars>>

SinkEnd ==
    /\ pc = "sink"
    /\ ~SinkMoves
    /\ array' = [array EXCEPT ![hole] = temp]
    /\ pc' = ret
    /\ Done
    /\ UNCHANGED <<capacity, cur_size, timerVars, alarmVars, timeVars>>
-----------------------------------------------------------------------------
(* main() accepts a connection: new heap_timer, add_timer().               *)

Resize ==
    /\ capacity' = 2 * capacity
    /\ array' = [i \in 0..(2 * capacity - 1) |-> IF i \in Indices THEN array[i] ELSE NULL]

AddTimer(t) ==
    /\ pc = "loop"
    /\ t \in Timers \ Contents
    /\ expire' = [expire EXCEPT ![t] = clock + 3 * TIMESLOT]
    /\ cb_func' = cb_func \cup {t}
    /\ called' = called \ {t}
    /\ IF cur_size >= capacity THEN Resize ELSE UNCHANGED <<array, capacity>>
    /\ hole' = cur_size
    /\ cur_size' = cur_size + 1
    /\ temp' = t
    /\ pc' = "rise"
    /\ UNCHANGED <<ret, alarmVars, timeVars>>

RiseMoves == hole > 0 /\ ~(expire[array[Parent(hole)]] <= expire[temp])

(* One iteration.  The first never moves anything as long as every timer   *)
(* is set 3 * TIMESLOT ahead of a clock that is not set back.              *)
Rise ==
    /\ pc = "rise"
    /\ IF RiseMoves
       THEN /\ array' = [array EXCEPT ![hole] = array[Parent(hole)]]
            /\ hole' = Parent(hole)
            /\ UNCHANGED <<pc, temp, ret>>
       ELSE /\ array' = [array EXCEPT ![hole] = temp]
            /\ pc' = "loop"
            /\ Done
    /\ UNCHANGED <<capacity, cur_size, timerVars, alarmVars, timeVars>>

(* Data on a connection: its timer is moved, adjust() finds and sinks it.  *)
Adjust(t) ==
    /\ pc = "loop"
    /\ t \in cb_func
    /\ expire' = [expire EXCEPT ![t] = clock + 3 * TIMESLOT]
    /\ \E i \in Indices : array[i] = t /\ PercolateDown(i, t, "loop")
    /\ UNCHANGED <<heapVars, cb_func, called, alarmVars, timeVars>>

(* main() closes a connection: del_timer() clears the callback only.       *)
DelTimer(t) ==
    /\ pc = "loop"
    /\ t \in cb_func
    /\ cb_func' = cb_func \ {t}
    /\ UNCHANGED <<heapVars, expire, called, pc, loopVars, alarmVars, timeVars>>
-----------------------------------------------------------------------------
(* SIGALRM and timer_handler().                                            *)

Signal ==
    /\ due # Never /\ clock >= due
    /\ due' = Never
    /\ timeout' = TRUE
    /\ UNCHANGED <<heapVars, timerVars, pc, loopVars, cur, timeVars>>

(* timer_handler() calls tick(), which reads the clock once.               *)
TickStart ==
    /\ pc = "loop"
    /\ timeout
    /\ timeout' = FALSE
    /\ cur' = clock
    /\ pc' = "tick"
    /\ UNCHANGED <<heapVars, timerVars, loopVars, due, timeVars>>

TopExpired == cur_size > 0 /\ expire[array[0]] <= cur

(* The last timer replaces the first and is sunk.                          *)
MoveLast ==
    LET last == array[cur_size - 1]
    IN  /\ array' = [array EXCEPT ![0] = last]
        /\ cur_size' = cur_size - 1
        /\ PercolateDown(0, last, "tick")

TickPop ==
    /\ pc = "tick"
    /\ TopExpired
    /\ called' = called \cup ({array[0]} \cap cb_func)
    /\ cb_func' = cb_func \ {array[0]}
    /\ MoveLast
    /\ UNCHANGED <<capacity, expire, alarmVars, timeVars>>

TickEnd ==
    /\ pc = "tick"
    /\ ~TopExpired
    /\ pc' = "alarm"
    /\ UNCHANGED <<heapVars, timerVars, loopVars, alarmVars, timeVars>>

(* alarm(seconds): the argument is unsigned, and 0 cancels.                *)
AlarmIn(seconds) == LET n == seconds % UIntRange IN IF n = 0 THEN Never ELSE clock + n

(* timer_handler() reads the clock again and sets the alarm.               *)
SetAlarm ==
    /\ pc = "alarm"
    /\ due' = AlarmIn(IF cur_size > 0 THEN expire[array[0]] - clock ELSE TIMESLOT)
    /\ pc' = "loop"
    /\ cur' = 0
    /\ UNCHANGED <<heapVars, timerVars, loopVars, timeout, timeVars>>

InHandler == pc \in {"tick", "alarm"} \/ ret = "tick"

Pass ==
    /\ clock < MaxTime
    /\ clock' = clock + 1
    /\ slow' = (slow \/ InHandler)
    /\ UNCHANGED <<heapVars, timerVars, pc, loopVars, alarmVars>>
-----------------------------------------------------------------------------
Next ==
    \/ \E t \in Timers : AddTimer(t) \/ Adjust(t) \/ DelTimer(t)
    \/ Rise \/ SinkStep \/ SinkEnd
    \/ Signal
    \/ TickStart \/ TickPop \/ TickEnd \/ SetAlarm
    \/ Pass

Spec == Init /\ [][Next]_vars
-----------------------------------------------------------------------------
(* The types; no index beyond the array, whenever it grew.                 *)
TypeOK ==
    /\ capacity \in Nat \ {0} /\ cur_size \in 0..capacity
    /\ array \in [0..(capacity - 1) -> Timers \cup {NULL}]
    /\ expire \in [Timers -> Nat]
    /\ cb_func \subseteq Timers /\ called \subseteq Timers
    /\ pc \in {"loop", "rise", "sink", "tick", "alarm"}
    /\ hole \in 0..(capacity - 1) /\ temp \in Timers \cup {NULL} /\ ret \in {"loop", "tick"}
    /\ clock \in Nat /\ cur \in Nat /\ due \in Nat \cup {Never}
    /\ timeout \in BOOLEAN /\ slow \in BOOLEAN

(* Between the operations the array is a heap: no timer expires before its *)
(* parent.  It would be lost otherwise: tick() only looks at the top.      *)
HeapOrder ==
    pc \in {"loop", "tick", "alarm"} =>
        \A c, p \in Indices : IsChild(c, p) => expire[array[p]] <= expire[array[c]]

(* Every timer that was not freed yet is in the array exactly once, and a  *)
(* freed one nowhere: no double free, no use after free, no leak, also     *)
(* within a percolation.                                                   *)
EachTimerOnce ==
    /\ \A i, j \in Indices : i # j => Entry(i) # Entry(j)
    /\ NULL \notin Contents
    /\ cb_func \subseteq Contents
    /\ called \cap Contents = {}

(* When tick() ends, every timer that had expired when it began was taken. *)
NoneLeftBehind ==
    pc = "alarm" => \A t \in Contents : expire[t] > cur

(* As long as timer_handler() runs within one second of the clock, SIGALRM *)
(* is on its way while main() waits, no later than the first timer.        *)
AlarmInTime ==
    (pc = "loop" /\ ~slow) =>
        timeout \/ (due # Never /\ \A t \in Contents : due <= expire[t])

(* What the comment before alarm() in main() says, at its weakest: SIGALRM *)
(* comes, if not every TIMESLOT, then after the three of a new timer.      *)
AlarmKeepsComing ==
    pc = "loop" => timeout \/ (due # Never /\ due <= clock + 3 * TIMESLOT)

(* The heap is a set of timers taken out in the order of their deadlines.  *)
Set == INSTANCE TimerSet WITH
           timers <- Contents, deadline <- expire, armed <- cb_func, now <- clock

ImplementsTimerSet == Set!Spec
=============================================================================
