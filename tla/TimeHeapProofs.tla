--------------------------- MODULE TimeHeapProofs ---------------------------
(***************************************************************************)
(* Theorems about TimeHeap for every set of timers, every initial capacity,*)
(* every TIMESLOT and any passing of time.                                 *)
(***************************************************************************)
EXTENDS TimeHeap, FiniteSetTheorems, TLAPS

Percolating == pc \in {"rise", "sink"}

(* Where a percolation is: the hole is an index in use, except after the   *)
(* last timer was taken out.                                               *)
HoleInUse ==
    /\ pc = "rise" => hole \in Indices /\ temp \in Timers
    /\ pc = "sink" => (hole \in Indices \/ cur_size = 0) /\ temp \in Timers

(* The timers of the array, and no other value, are at the indices in use. *)
AllTimers == \A i \in Indices : Entry(i) \in Timers

NoneTwice == \A i, j \in Indices : i # j => Entry(i) # Entry(j)

(* The callbacks to be called are of timers in the array, the ones that    *)
(* were called of timers that are not.                                     *)
Callbacks == cb_func \subseteq Contents /\ called \cap Contents = {}

(* No timer is set further ahead than a new one.                           *)
Deadlines == \A t \in Timers : expire[t] <= clock + 3 * TIMESLOT

IInv == TypeOK /\ HoleInUse /\ AllTimers /\ NoneTwice /\ Callbacks /\ Deadlines

(* Each index but 0 has one parent, which comes before it.                 *)
LEMMA ParentOf ==
  /\ \A i \in Nat \ {0} : Parent(i) \in Nat /\ Parent(i) < i /\ IsChild(i, Parent(i))
  /\ \A c, p, q \in Nat : IsChild(c, p) /\ IsChild(c, q) => p = q
  /\ \A c, p \in Nat : IsChild(c, p) => p < c
  BY DEF Parent, IsChild

(* The child that percolate_down() picks is one of the two.                *)
LEMMA SmallChildOf ==
  ASSUME cur_size \in Nat, NEW p \in Nat, 2 * p + 1 <= cur_size - 1
  PROVE  SmallChild(p) \in Indices /\ IsChild(SmallChild(p), p) /\ SmallChild(p) > p
  BY DEF SmallChild, Indices, IsChild

(* The initial state.                                                      *)
LEMMA InitInv == Init => IInv
  <1> SUFFICES ASSUME Init PROVE IInv
    OBVIOUS
  <1> USE TimeHeapAssumption DEF Init
  <1>1. Indices = {}
    BY DEF Indices
  <1>2. TypeOK
    <2>1. array \in [0..(capacity - 1) -> Timers \cup {NULL}]
      OBVIOUS
    <2>2. hole \in 0..(capacity - 1) /\ cur_size \in 0..capacity
      OBVIOUS
    <2>3. QED
      BY <2>1, <2>2 DEF TypeOK, Never
  <1>3. HoleInUse /\ AllTimers /\ NoneTwice /\ Callbacks
    BY <1>1 DEF HoleInUse, AllTimers, NoneTwice, Callbacks, Contents
  <1>4. Deadlines
    <2>1. 0 <= clock + 3 * TIMESLOT
      OBVIOUS
    <2>2. \A t \in Timers : expire[t] = 0
      OBVIOUS
    <2>3. QED
      BY <2>1, <2>2 DEF Deadlines
  <1>5. QED
    BY <1>2, <1>3, <1>4 DEF IInv

(* An entry moves to the hole and the hole to where it was: the contents   *)
(* stay.                                                                   *)
LEMMA MoveKeeps ==
  ASSUME IInv, NEW from \in Indices, hole \in Indices, from # hole, Percolating, Percolating',
         array' = [array EXCEPT ![hole] = array[from]],
         hole' = from,
         UNCHANGED <<cur_size, temp, cb_func, called>>
  PROVE  AllTimers' /\ NoneTwice' /\ Contents' = Contents /\ Callbacks'
  <1> USE DEF IInv, Percolating
  <1>1. Indices' = Indices /\ Indices \subseteq 0..(capacity - 1)
    BY DEF Indices, TypeOK
  <1>2. Entry(from)' = temp /\ Entry(hole) = temp
    BY DEF Entry
  <1>3. \A i \in Indices : Entry(i)' = IF i = from THEN Entry(hole)
                                      ELSE IF i = hole THEN Entry(from) ELSE Entry(i)
    BY <1>1 DEF Entry, TypeOK
  <1>4. AllTimers'
    BY <1>1, <1>3 DEF AllTimers
  <1>5. NoneTwice'
    BY <1>1, <1>3 DEF NoneTwice
  <1>6. Contents' = Contents
    <2>1. ASSUME NEW x \in Contents PROVE x \in Contents'
      <3>1. PICK i \in Indices : x = Entry(i)
        BY DEF Contents
      <3>2. CASE i = from
        BY <1>1, <1>3, <3>1, <3>2 DEF Contents
      <3>3. CASE i = hole
        BY <1>1, <1>3, <3>1, <3>3 DEF Contents
      <3>4. CASE i # from /\ i # hole
        BY <1>1, <1>3, <3>1, <3>4 DEF Contents
      <3>5. QED
        BY <3>2, <3>3, <3>4
    <2>2. ASSUME NEW x \in Contents' PROVE x \in Contents
      <3>1. PICK i \in Indices : x = Entry(i)'
        BY <1>1 DEF Contents
      <3>2. QED
        BY <1>3, <3>1 DEF Contents
    <2>3. QED
      BY <2>1, <2>2
  <1>7. QED
    BY <1>4, <1>5, <1>6 DEF Callbacks

(* The end of a percolation puts temp where it was counted already, and so *)
(* does the start of one in adjust().                                      *)
LEMMA SameEntries ==
  ASSUME IInv, UNCHANGED <<cur_size, cb_func, called>>,
         \A i \in Indices : Entry(i)' = Entry(i)
  PROVE  AllTimers' /\ NoneTwice' /\ Contents' = Contents /\ Callbacks'
  <1>1. Indices' = Indices
    BY DEF Indices
  <1>2. Contents' = Contents
    BY <1>1 DEF Contents
  <1>3. QED
    BY <1>1, <1>2 DEF IInv, AllTimers, NoneTwice, Callbacks
-----------------------------------------------------------------------------
(* The percolations preserve the invariant.                                *)
LEMMA PercolationStep ==
  ASSUME IInv, Rise \/ SinkStep \/ SinkEnd
  PROVE  IInv' /\ Contents' = Contents
  <1> USE TimeHeapAssumption DEF heapVars, timerVars, loopVars, alarmVars, timeVars
  <1>1. /\ UNCHANGED <<capacity, cur_size, timerVars, alarmVars, timeVars>>
        /\ Percolating
    BY DEF Rise, SinkStep, SinkEnd, Percolating
  <1>2. Deadlines'
    BY <1>1 DEF IInv, Deadlines
  <1>3. /\ cur_size \in Nat /\ capacity \in Nat \ {0} /\ cur_size <= capacity
        /\ hole \in 0..(capacity - 1) /\ hole \in Nat
        /\ array \in [0..(capacity - 1) -> Timers \cup {NULL}]
        /\ Indices \subseteq 0..(capacity - 1)
        /\ Indices' = Indices
        /\ temp \in Timers
    BY <1>1 DEF IInv, TypeOK, Indices, HoleInUse, Percolating
  <1>4. ASSUME NEW from \in Indices, from # hole, hole \in Indices,
               array' = [array EXCEPT ![hole] = array[from]],
               hole' = from, UNCHANGED <<pc, temp, ret>>
        PROVE  IInv' /\ Contents' = Contents
    <2>1. Percolating'
      BY <1>1, <1>4 DEF Percolating
    <2>2. AllTimers' /\ NoneTwice' /\ Contents' = Contents /\ Callbacks'
      BY <1>1, <1>4, <2>1, MoveKeeps
    <2>3. TypeOK'
      <3>1. array' \in [0..(capacity - 1) -> Timers \cup {NULL}]
        BY <1>3, <1>4
      <3>2. QED
        BY <1>1, <1>3, <1>4, <3>1 DEF IInv, TypeOK
    <2>4. HoleInUse'
      BY <1>1, <1>3, <1>4 DEF HoleInUse, Percolating
    <2>5. QED
      BY <1>2, <2>2, <2>3, <2>4 DEF IInv
  <1>5. ASSUME array' = [array EXCEPT ![hole] = temp], pc' \in {"loop", "tick"}, Done
        PROVE  IInv' /\ Contents' = Contents
    <2>1. \A i \in Indices : Entry(i)' = Entry(i)
      BY <1>1, <1>3, <1>5 DEF Entry, Percolating
    <2>2. AllTimers' /\ NoneTwice' /\ Contents' = Contents /\ Callbacks'
      BY <1>1, <2>1, SameEntries
    <2>3. TypeOK'
      <3>1. array' \in [0..(capacity - 1) -> Timers \cup {NULL}]
        BY <1>3, <1>5
      <3>2. hole' \in 0..(capacity - 1)
        BY <1>3, <1>5 DEF Done
      <3>3. QED
        BY <1>1, <1>3, <1>5, <3>1, <3>2 DEF IInv, TypeOK, Done
    <2>4. HoleInUse'
      BY <1>5 DEF HoleInUse
    <2>5. QED
      BY <1>2, <2>2, <2>3, <2>4 DEF IInv
  <1>6. CASE Rise /\ RiseMoves
    <2>1. hole \in Nat \ {0} /\ hole \in Indices
      BY <1>3, <1>6 DEF Rise, RiseMoves, IInv, HoleInUse
    <2>2. Parent(hole) \in Indices /\ Parent(hole) # hole
      BY <2>1, <1>3, ParentOf DEF Indices
    <2>3. QED
      BY <1>4, <1>6, <2>1, <2>2 DEF Rise
  <1>7. CASE Rise /\ ~RiseMoves
    BY <1>5, <1>7 DEF Rise
  <1>8. CASE SinkStep
    <2>1. hole \in Indices
      BY <1>3, <1>8 DEF SinkStep, SinkMoves, Indices
    <2>2. SmallChild(hole) \in Indices /\ SmallChild(hole) # hole
      BY <1>3, <1>8, SmallChildOf DEF SinkStep, SinkMoves
    <2>3. QED
      BY <1>4, <1>8, <2>1, <2>2 DEF SinkStep
  <1>9. CASE SinkEnd
    <2>1. pc' \in {"loop", "tick"}
      BY <1>9 DEF SinkEnd, IInv, TypeOK
    <2>2. QED
      BY <1>5, <1>9, <2>1 DEF SinkEnd
  <1>10. QED
    BY <1>6, <1>7, <1>8, <1>9

(* A new timer, with room for it in the array.                             *)
LEMMA AddStep ==
  ASSUME IInv, NEW t \in Timers, AddTimer(t)
  PROVE  IInv' /\ Contents' = Contents \cup {t}
  <1> USE TimeHeapAssumption DEF heapVars, timerVars, loopVars, alarmVars, timeVars
  <1>1. /\ cur_size \in Nat /\ capacity \in Nat \ {0} /\ cur_size <= capacity
        /\ array \in [0..(capacity - 1) -> Timers \cup {NULL}]
        /\ Indices \subseteq 0..(capacity - 1)
        /\ clock \in Nat /\ expire \in [Timers -> Nat]
    BY DEF IInv, TypeOK, Indices
  <1>2. /\ capacity' \in Nat \ {0} /\ cur_size' \in 1..capacity' /\ cur_size' = cur_size + 1
        /\ array' \in [0..(capacity' - 1) -> Timers \cup {NULL}]
        /\ \A i \in Indices : array'[i] = array[i]
    <2>1. CASE cur_size >= capacity
      BY <1>1, <2>1 DEF AddTimer, Resize
    <2>2. CASE ~(cur_size >= capacity)
      BY <1>1, <2>2 DEF AddTimer
    <2>3. QED
      BY <2>1, <2>2
  <1>3. /\ pc = "loop" /\ pc' = "rise" /\ hole' = cur_size /\ temp' = t
        /\ t \notin Contents
        /\ expire' = [expire EXCEPT ![t] = clock + 3 * TIMESLOT]
        /\ UNCHANGED <<alarmVars, timeVars, ret>>
    BY DEF AddTimer
  <1>4. Indices' = Indices \cup {cur_size} /\ cur_size \notin Indices
    BY <1>1, <1>2 DEF Indices
  <1>5. \A i \in Indices' : Entry(i)' = IF i = cur_size THEN t ELSE Entry(i)
    BY <1>2, <1>3, <1>4 DEF Entry
  <1>6. AllTimers'
    BY <1>4, <1>5 DEF IInv, AllTimers
  <1>7. \A i \in Indices : Entry(i) # t
    BY <1>3 DEF Contents
  <1>8. NoneTwice'
    BY <1>4, <1>5, <1>7 DEF IInv, NoneTwice
  <1>9. Contents' = Contents \cup {t}
    <2>1. \A x \in Contents : x \in Contents'
      BY <1>4, <1>5 DEF Contents
    <2>2. t \in Contents'
      BY <1>4, <1>5 DEF Contents
    <2>3. \A x \in Contents' : x \in Contents \cup {t}
      BY <1>4, <1>5 DEF Contents
    <2>4. QED
      BY <2>1, <2>2, <2>3
  <1>10. Callbacks'
    BY <1>9 DEF AddTimer, IInv, Callbacks
  <1>11. TypeOK'
    <2>1. 3 * TIMESLOT \in Nat
      OBVIOUS
    <2>2. expire' \in [Timers -> Nat]
      BY <1>1, <1>3, <2>1
    <2>3. hole' \in 0..(capacity' - 1) /\ cur_size' \in 0..capacity'
      <3>1. \A n, c \in Nat : n + 1 \in 1..c => n \in 0..(c - 1)
        OBVIOUS
      <3>2. capacity' \in Nat /\ cur_size' \in 0..capacity'
        BY <1>2
      <3>3. cur_size \in 0..(capacity' - 1)
        <4>1. cur_size \in Nat /\ cur_size + 1 \in 1..capacity'
          BY <1>1, <1>2
        <4>2. QED
          BY <3>1, <3>2, <4>1
      <3>4. QED
        BY <1>3, <3>2, <3>3
    <2>4. QED
      BY <1>2, <1>3, <2>2, <2>3 DEF IInv, TypeOK, AddTimer
  <1>12. Deadlines'
    <2>1. 3 * TIMESLOT \in Nat
      OBVIOUS
    <2>2. QED
      BY <1>1, <1>3, <2>1 DEF IInv, Deadlines
  <1>13. HoleInUse'
    BY <1>3, <1>4 DEF HoleInUse
  <1>14. QED
    BY <1>6, <1>8, <1>9, <1>10, <1>11, <1>12, <1>13 DEF IInv

(* adjust() of a timer finds it in the array.                              *)
LEMMA AdjustStep ==
  ASSUME IInv, NEW t \in Timers, Adjust(t)
  PROVE  IInv' /\ Contents' = Contents /\ expire'[t] >= expire[t] /\ t \in Contents
  <1> USE TimeHeapAssumption DEF heapVars, timerVars, loopVars, alarmVars, timeVars
  <1>1. PICK i \in Indices : array[i] = t /\ PercolateDown(i, t, "loop")
    BY DEF Adjust
  <1>2. /\ cur_size \in Nat /\ capacity \in Nat \ {0} /\ cur_size <= capacity
        /\ clock \in Nat /\ expire \in [Timers -> Nat] /\ 3 * TIMESLOT \in Nat
        /\ Indices \subseteq 0..(capacity - 1)
    BY DEF IInv, TypeOK, Indices
  <1>3. /\ pc = "loop" /\ pc' = "sink" /\ hole' = i /\ temp' = t /\ ret' = "loop"
        /\ expire' = [expire EXCEPT ![t] = clock + 3 * TIMESLOT]
        /\ UNCHANGED <<heapVars, cb_func, called, alarmVars, timeVars>>
    BY <1>1 DEF Adjust, PercolateDown
  <1>4. \A j \in Indices : Entry(j)' = Entry(j)
    BY <1>1, <1>3 DEF Entry
  <1>5. AllTimers' /\ NoneTwice' /\ Contents' = Contents /\ Callbacks'
    BY <1>3, <1>4, SameEntries
  <1>6. expire'[t] = clock + 3 * TIMESLOT /\ expire' \in [Timers -> Nat]
    BY <1>2, <1>3
  <1>7. TypeOK'
    BY <1>2, <1>3, <1>6 DEF IInv, TypeOK
  <1>8. Deadlines'
    BY <1>2, <1>3, <1>6 DEF IInv, Deadlines
  <1>9. HoleInUse'
    BY <1>3 DEF HoleInUse, Indices
  <1>10. expire'[t] >= expire[t]
    BY <1>2, <1>6 DEF IInv, Deadlines
  <1>11. t \in Contents
    BY DEF Adjust, IInv, Callbacks
  <1>12. QED
    BY <1>5, <1>7, <1>8, <1>9, <1>10, <1>11 DEF IInv

(* pop_timer() takes out the timer at index 0 only.                        *)
LEMMA PopStep ==
  ASSUME IInv, TickPop
  PROVE  /\ IInv'
         /\ array[0] \in Contents /\ Contents' = Contents \ {array[0]}
         /\ 0 \in Indices
  <1> USE TimeHeapAssumption DEF heapVars, timerVars, loopVars, alarmVars, timeVars
  <1> DEFINE last == array[cur_size - 1]
  <1>1. /\ cur_size \in Nat \ {0} /\ capacity \in Nat \ {0} /\ cur_size <= capacity
        /\ array \in [0..(capacity - 1) -> Timers \cup {NULL}]
        /\ Indices \subseteq 0..(capacity - 1)
        /\ 0 \in Indices /\ cur_size - 1 \in Indices
    BY DEF IInv, TypeOK, Indices, TickPop, TopExpired
  <1>2. /\ pc = "tick" /\ pc' = "sink" /\ hole' = 0 /\ temp' = last /\ ret' = "tick"
        /\ cur_size' = cur_size - 1
        /\ array' = [array EXCEPT ![0] = last]
        /\ called' = called \cup ({array[0]} \cap cb_func)
        /\ cb_func' = cb_func \ {array[0]}
        /\ UNCHANGED <<capacity, expire, alarmVars, timeVars>>
    BY DEF TickPop, MoveLast, PercolateDown
  <1>3. Indices' = Indices \ {cur_size - 1}
    BY <1>1, <1>2 DEF Indices
  <1>4. \A i \in Indices : Entry(i) = array[i]
    BY <1>2 DEF Entry
  <1>5. \A i \in Indices' : Entry(i)' = IF i = 0 THEN last ELSE array[i]
    BY <1>1, <1>2, <1>3 DEF Entry
  <1>6. \A i \in Indices : array[i] \in Timers
    BY <1>4 DEF IInv, AllTimers
  <1>7. \A i, j \in Indices : i # j => array[i] # array[j]
    BY <1>4 DEF IInv, NoneTwice
  <1>8. AllTimers' /\ last \in Timers
    BY <1>1, <1>3, <1>5, <1>6 DEF AllTimers
  <1>9. NoneTwice'
    BY <1>1, <1>3, <1>5, <1>7 DEF NoneTwice
  <1>10. Contents = {array[i] : i \in Indices}
    BY <1>4 DEF Contents
  <1>11. Contents' = Contents \ {array[0]}
    <2>1. ASSUME NEW x \in Contents' PROVE x \in Contents \ {array[0]}
      <3>1. PICK i \in Indices' : x = Entry(i)'
        BY DEF Contents
      <3>2. CASE i = 0
        <4>1. x = array[cur_size - 1] /\ cur_size - 1 # 0
          BY <1>3, <1>5, <3>1, <3>2
        <4>2. QED
          BY <1>1, <1>7, <1>10, <4>1
      <3>3. CASE i # 0
        BY <1>1, <1>3, <1>5, <1>7, <1>10, <3>1, <3>3
      <3>4. QED
        BY <3>2, <3>3
    <2>2. ASSUME NEW x \in Contents \ {array[0]} PROVE x \in Contents'
      <3>1. PICK i \in Indices : x = array[i]
        BY <1>10
      <3>2. i # 0
        BY <3>1
      <3>3. CASE i = cur_size - 1
        <4>1. 0 \in Indices' /\ Entry(0)' = x
          BY <1>1, <1>3, <1>5, <3>1, <3>2, <3>3
        <4>2. QED
          BY <4>1 DEF Contents
      <3>4. CASE i # cur_size - 1
        <4>1. i \in Indices' /\ Entry(i)' = x
          BY <1>3, <1>5, <3>1, <3>2, <3>4
        <4>2. QED
          BY <4>1 DEF Contents
      <3>5. QED
        BY <3>3, <3>4
    <2>3. QED
      BY <2>1, <2>2
  <1>12. Callbacks'
    BY <1>2, <1>11 DEF IInv, Callbacks
  <1>13. TypeOK'
    <2>1. array' \in [0..(capacity - 1) -> Timers \cup {NULL}]
      BY <1>1, <1>2, <1>8
    <2>2. hole' \in 0..(capacity - 1) /\ cur_size' \in 0..capacity
      BY <1>1, <1>2
    <2>3. called' \subseteq Timers /\ cb_func' \subseteq Timers
      BY <1>2 DEF IInv, TypeOK
    <2>4. QED
      BY <1>2, <1>8, <2>1, <2>2, <2>3 DEF IInv, TypeOK
  <1>14. HoleInUse'
    <2>1. 0 \in Indices' \/ cur_size' = 0
      BY <1>1, <1>2 DEF Indices
    <2>2. QED
      BY <1>2, <1>8, <2>1 DEF HoleInUse
  <1>15. Deadlines'
    BY <1>2 DEF IInv, Deadlines
  <1>16. QED
    BY <1>1, <1>8, <1>9, <1>10, <1>11, <1>12, <1>13, <1>14, <1>15 DEF IInv

(* The other steps leave the array alone.                                  *)
LEMMA OtherStep ==
  ASSUME IInv,
         \/ \E t \in Timers : DelTimer(t)
         \/ Signal \/ TickStart \/ TickEnd \/ SetAlarm \/ Pass
         \/ UNCHANGED vars
  PROVE  IInv' /\ Contents' = Contents
  <1> USE TimeHeapAssumption DEF vars, heapVars, timerVars, loopVars, alarmVars, timeVars
  <1>1. UNCHANGED <<heapVars, expire, called, loopVars>>
    BY DEF DelTimer, Signal, TickStart, TickEnd, SetAlarm, Pass
  <1>2. /\ pc \in {"rise", "sink"} <=> pc' \in {"rise", "sink"}
        /\ pc' \in {"rise", "sink"} => pc' = pc
        /\ pc' \in {"loop", "rise", "sink", "tick", "alarm"}
    BY DEF DelTimer, Signal, TickStart, TickEnd, SetAlarm, Pass, IInv, TypeOK
  <1>3. /\ Indices' = Indices
        /\ \A i \in Indices : Entry(i)' = Entry(i)
    BY <1>1, <1>2 DEF Indices, Entry
  <1>4. Contents' = Contents
    BY <1>3 DEF Contents
  <1>5. cb_func' \subseteq cb_func
    BY DEF DelTimer, Signal, TickStart, TickEnd, SetAlarm, Pass
  <1>6. AllTimers' /\ NoneTwice' /\ Callbacks'
    BY <1>1, <1>3, <1>4, <1>5 DEF IInv, AllTimers, NoneTwice, Callbacks
  <1>7. HoleInUse'
    BY <1>1, <1>2, <1>3 DEF IInv, HoleInUse
  <1>8. /\ clock' \in Nat /\ clock' >= clock
        /\ cur' \in Nat /\ timeout' \in BOOLEAN /\ slow' \in BOOLEAN
    <2>1. clock' = clock \/ clock' = clock + 1
      BY DEF DelTimer, Signal, TickStart, TickEnd, SetAlarm, Pass
    <2>2. cur' \in {cur, clock, 0}
      BY DEF DelTimer, Signal, TickStart, TickEnd, SetAlarm, Pass
    <2>3. timeout' \in BOOLEAN /\ slow' \in BOOLEAN
      BY DEF DelTimer, Signal, TickStart, TickEnd, SetAlarm, Pass, IInv, TypeOK
    <2>4. clock \in Nat /\ cur \in Nat
      BY DEF IInv, TypeOK
    <2>5. QED
      BY <2>1, <2>2, <2>3, <2>4
  <1>9. due' \in Nat \cup {Never}
    <2>1. CASE SetAlarm
      <3>1. clock \in Nat /\ UIntRange \in Nat \ {0}
        BY DEF IInv, TypeOK
      <3>2. ASSUME NEW k \in Int PROVE AlarmIn(k) \in Nat \cup {Never}
        <4>1. k % UIntRange \in Nat
          BY <3>1, <3>2
        <4>2. QED
          BY <3>1, <4>1 DEF AlarmIn
      <3>3. cur_size > 0 => expire[array[0]] \in Nat
        <4>1. ASSUME cur_size > 0 PROVE 0 \in Indices /\ array[0] = Entry(0)
          BY <2>1, <4>1 DEF SetAlarm, IInv, TypeOK, Indices, Entry
        <4>2. QED
          BY <4>1 DEF IInv, AllTimers, TypeOK
      <3>4. QED
        BY <2>1, <3>1, <3>2, <3>3 DEF SetAlarm
    <2>2. CASE ~SetAlarm
      BY <2>2 DEF DelTimer, Signal, TickStart, TickEnd, Pass, IInv, TypeOK
    <2>3. QED
      BY <2>1, <2>2
  <1>10. TypeOK'
    <2>1. cb_func' \subseteq Timers
      BY <1>5 DEF IInv, TypeOK
    <2>2. QED
      BY <1>1, <1>2, <1>8, <1>9, <2>1 DEF IInv, TypeOK
  <1>11. Deadlines'
    <2>1. 3 * TIMESLOT \in Nat /\ clock \in Nat /\ expire \in [Timers -> Nat]
      BY DEF IInv, TypeOK
    <2>2. QED
      BY <1>1, <1>8, <2>1 DEF IInv, Deadlines
  <1>12. QED
    BY <1>4, <1>6, <1>7, <1>10, <1>11 DEF IInv

(* Every step preserves the invariant.                                     *)
LEMMA NextInv == IInv /\ [Next]_vars => IInv'
  BY PercolationStep, AddStep, AdjustStep, PopStep, OtherStep DEF Next

(* The inductive invariant.                                                *)
THEOREM HeapContents == Spec => []IInv
  BY InitInv, NextInv, PTL DEF Spec

(* The types, and no index beyond the array.                               *)
THEOREM HeapTypeCorrect == Spec => []TypeOK
  <1>1. IInv => TypeOK
    BY DEF IInv
  <1>2. QED
    BY <1>1, HeapContents, PTL

(* No timer is in the array twice, no freed one is in it, none is lost.    *)
THEOREM EachTimerInOnePlace == Spec => []EachTimerOnce
  <1>1. IInv => EachTimerOnce
    BY TimeHeapAssumption DEF IInv, EachTimerOnce, NoneTwice, AllTimers, Callbacks, Contents
  <1>2. QED
    BY <1>1, HeapContents, PTL
-----------------------------------------------------------------------------
(***************************************************************************)
(* The order of the heap.  While a timer rises or sinks, the pairs that    *)
(* the hole is not part of are ordered, the hole's children do not expire  *)
(* before the hole's parent, so that either may be moved into it, and temp *)
(* is in order with those it has passed.                                   *)
(***************************************************************************)
Key(i) == expire[array[i]]

Ordered ==
    \A c, p \in Indices :
        IsChild(c, p) /\ (Percolating => c # hole /\ p # hole) => Key(p) <= Key(c)

AroundHole ==
    Percolating => \A g, c \in Indices : IsChild(hole, g) /\ IsChild(c, hole) => Key(g) <= Key(c)

TempOrdered ==
    /\ pc = "rise" => \A c \in Indices : IsChild(c, hole) => expire[temp] <= Key(c)
    /\ pc = "sink" => \A g \in Indices : IsChild(hole, g) => Key(g) <= expire[temp]

OInv == Ordered /\ AroundHole /\ TempOrdered

(* The keys are numbers, but that of the hole, whose timer is temp.        *)
LEMMA KeysAreNumbers ==
  ASSUME IInv
  PROVE  /\ \A i \in Indices : i # hole \/ ~Percolating => Key(i) \in Nat
         /\ Percolating => expire[temp] \in Nat
         /\ Indices \subseteq Nat /\ Indices \subseteq 0..(capacity - 1)
         /\ hole \in Nat /\ cur_size \in Nat
  <1>1. \A i \in Indices : i # hole \/ ~Percolating => array[i] \in Timers
    BY DEF IInv, AllTimers, Entry, Percolating
  <1>2. Percolating => temp \in Timers
    BY DEF IInv, HoleInUse, Percolating
  <1>3. expire \in [Timers -> Nat] /\ cur_size \in 0..capacity /\ hole \in 0..(capacity - 1)
        /\ capacity \in Nat
    BY DEF IInv, TypeOK
  <1>4. QED
    BY <1>1, <1>2, <1>3 DEF Key, Indices

(* One iteration of the loop in add_timer().                               *)
LEMMA RiseOrder ==
  ASSUME IInv, OInv, pc = "rise", RiseMoves,
         array' = [array EXCEPT ![hole] = array[Parent(hole)]],
         hole' = Parent(hole),
         UNCHANGED <<cur_size, capacity, expire, pc, temp>>
  PROVE  OInv'
  <1> DEFINE q == Parent(hole)
  <1>1. hole \in Indices /\ hole \in Nat \ {0} /\ Percolating
    BY KeysAreNumbers DEF RiseMoves, IInv, HoleInUse, Percolating
  <1>2. q \in Nat /\ q < hole /\ IsChild(hole, q)
    BY <1>1, ParentOf
  <1>3. q \in Indices /\ Indices' = Indices /\ q # hole
    BY <1>1, <1>2, KeysAreNumbers DEF Indices
  <1>4. \A i \in Indices : Key(i)' = IF i = hole THEN Key(q) ELSE Key(i)
    BY <1>1, KeysAreNumbers DEF Key, IInv, TypeOK
  <1>5. \A i \in Indices : i # hole => Key(i) \in Nat
    BY KeysAreNumbers
  <1>6. Key(q) \in Nat /\ expire[temp] \in Nat /\ ~(Key(q) <= expire[temp])
    BY <1>1, <1>3, <1>5, KeysAreNumbers DEF RiseMoves, Key
  <1>7. \A c, p \in Indices : IsChild(c, p) /\ c # hole /\ p # hole => Key(p) <= Key(c)
    BY <1>1 DEF OInv, Ordered
  <1>8. \A p \in Indices : IsChild(hole, p) => p = q
    BY <1>1, <1>2, <1>3, ParentOf, KeysAreNumbers
  <1>9. \A c \in Indices : IsChild(c, hole) => c # hole /\ Key(q) <= Key(c)
    BY <1>1, <1>2, <1>3, ParentOf, KeysAreNumbers DEF OInv, AroundHole
  <1>10. \A c, p \in Indices : IsChild(c, p) => p # c
    BY ParentOf, KeysAreNumbers
  <1>11. Percolating' /\ hole' = q /\ pc' = "rise" /\ temp' = temp /\ expire' = expire
    BY DEF Percolating
  <1>12. Ordered'
    BY <1>3, <1>4, <1>7, <1>8, <1>9, <1>11 DEF Ordered
  <1>13. ASSUME NEW c \in Indices, IsChild(c, q)
         PROVE  Key(c)' \in Nat /\ Key(q) <= Key(c)' /\ expire[temp] <= Key(c)'
    <2>1. CASE c = hole
      <3>1. Key(c)' = Key(q)
        BY <1>4, <2>1
      <3>2. QED
        BY <1>6, <3>1
    <2>2. CASE c # hole
      <3>1. Key(c)' = Key(c) /\ Key(c) \in Nat /\ Key(q) <= Key(c)
        BY <1>3, <1>4, <1>5, <1>7, <1>13, <2>2
      <3>2. QED
        BY <1>6, <3>1
    <2>3. QED
      BY <2>1, <2>2
  <1>14. AroundHole'
    <2>1. ASSUME NEW g \in Indices, NEW c \in Indices, IsChild(q, g), IsChild(c, q)
          PROVE  Key(g)' <= Key(c)'
      <3>1. g # hole /\ g # q
        BY <1>2, <1>3, <1>10, <2>1, ParentOf, KeysAreNumbers
      <3>2. Key(g)' = Key(g) /\ Key(g) \in Nat /\ Key(g) <= Key(q)
        BY <1>3, <1>4, <1>5, <1>7, <2>1, <3>1
      <3>3. QED
        BY <1>6, <1>13, <2>1, <3>2
    <2>2. QED
      BY <1>3, <1>11, <2>1 DEF AroundHole
  <1>15. TempOrdered'
    BY <1>3, <1>11, <1>13 DEF TempOrdered
  <1>16. QED
    BY <1>12, <1>14, <1>15 DEF OInv

(* One iteration of percolate_down().                                      *)
LEMMA SinkOrder ==
  ASSUME IInv, OInv, SinkStep
  PROVE  OInv'
  <1> DEFINE s == SmallChild(hole)
  <1>1. /\ pc = "sink" /\ Percolating /\ hole \in Nat /\ cur_size \in Nat
        /\ 2 * hole + 1 <= cur_size - 1
        /\ Key(s) < expire[temp]
        /\ array' = [array EXCEPT ![hole] = array[s]]
        /\ hole' = s
        /\ UNCHANGED <<cur_size, capacity, expire, pc, temp>>
    BY KeysAreNumbers DEF SinkStep, SinkMoves, Percolating, Key, timerVars
  <1>2. s \in Indices /\ IsChild(s, hole) /\ s # hole /\ s \in Nat /\ s > hole
    BY <1>1, SmallChildOf, KeysAreNumbers
  <1>3. hole \in Indices /\ Indices' = Indices
    BY <1>1, <1>2 DEF Indices
  <1>4. \A i \in Indices : Key(i)' = IF i = hole THEN Key(s) ELSE Key(i)
    BY <1>1, <1>3, KeysAreNumbers DEF Key, IInv, TypeOK
  <1>5. \A i \in Indices : i # hole => Key(i) \in Nat
    BY KeysAreNumbers
  <1>6. \A c \in Indices : IsChild(c, hole) => Key(s) <= Key(c)
    <2>1. ASSUME NEW c \in Indices, IsChild(c, hole) PROVE Key(s) <= Key(c)
      <3>1. c # hole /\ Key(c) \in Nat /\ Key(s) \in Nat
        BY <1>2, <1>3, <1>5, <2>1, ParentOf, KeysAreNumbers
      <3>2. DEFINE l == 2 * hole + 1
      <3>3. c = l \/ (c = l + 1 /\ l < cur_size - 1)
        BY <1>1, <2>1 DEF IsChild, Indices
      <3>4. l \in Indices /\ l # hole /\ Key(l) \in Nat
        BY <1>1, <1>5 DEF Indices
      <3>5. CASE l < cur_size - 1
        <4>1. l + 1 \in Indices /\ l + 1 # hole /\ Key(l + 1) \in Nat
          BY <1>1, <1>5, <3>5 DEF Indices
        <4>2. s = IF Key(l + 1) < Key(l) THEN l + 1 ELSE l
          BY <3>5 DEF SmallChild, Key
        <4>3. QED
          BY <3>3, <3>4, <4>1, <4>2
      <3>6. CASE ~(l < cur_size - 1)
        <4>1. s = l
          BY <3>6 DEF SmallChild
        <4>2. QED
          BY <3>1, <3>3, <3>6, <4>1
      <3>7. QED
        BY <3>5, <3>6
    <2>2. QED
      BY <2>1
  <1>7. \A c, p \in Indices : IsChild(c, p) /\ c # hole /\ p # hole => Key(p) <= Key(c)
    BY <1>1 DEF OInv, Ordered
  <1>8. \A p \in Indices : IsChild(s, p) => p = hole
    BY <1>1, <1>2, ParentOf, KeysAreNumbers
  <1>9. Percolating' /\ hole' = s /\ pc' = "sink" /\ temp' = temp /\ expire' = expire
    BY <1>1 DEF Percolating
  <1>10. Ordered'
    <2>1. ASSUME NEW c \in Indices, NEW p \in Indices, IsChild(c, p), c # s, p # s
          PROVE  Key(p)' <= Key(c)'
      <3>1. c # p
        BY <2>1, ParentOf, KeysAreNumbers
      <3>2. CASE c = hole
        BY <1>1, <1>2, <1>4, <2>1, <3>1, <3>2 DEF OInv, AroundHole
      <3>3. CASE p = hole
        BY <1>4, <1>6, <2>1, <3>1, <3>3
      <3>4. CASE c # hole /\ p # hole
        BY <1>4, <1>7, <2>1, <3>4
      <3>5. QED
        BY <3>2, <3>3, <3>4
    <2>2. QED
      BY <1>3, <1>9, <2>1 DEF Ordered
  <1>11. AroundHole'
    <2>1. ASSUME NEW g \in Indices, NEW c \in Indices, IsChild(s, g), IsChild(c, s)
          PROVE  Key(g)' <= Key(c)'
      <3>1. g = hole /\ c # hole
        BY <1>1, <1>2, <1>8, <2>1, ParentOf, KeysAreNumbers
      <3>2. Key(g)' = Key(s) /\ Key(c)' = Key(c) /\ Key(s) <= Key(c)
        BY <1>2, <1>4, <1>7, <2>1, <3>1
      <3>3. QED
        BY <3>2
    <2>2. QED
      BY <1>3, <1>9, <2>1 DEF AroundHole
  <1>12. TempOrdered'
    <2>1. ASSUME NEW g \in Indices, IsChild(s, g) PROVE Key(g)' <= expire[temp]
      <3>1. g = hole /\ Key(g)' = Key(s)
        BY <1>4, <1>8, <2>1
      <3>2. Key(s) \in Nat /\ expire[temp] \in Nat
        BY <1>1, <1>2, <1>5, KeysAreNumbers
      <3>3. QED
        BY <1>1, <3>1, <3>2
    <2>2. QED
      BY <1>3, <1>9, <2>1 DEF TempOrdered
  <1>13. QED
    BY <1>10, <1>11, <1>12 DEF OInv

(* A percolation ends with an ordered array.                               *)
LEMMA EndOrder ==
  ASSUME IInv, OInv, (Rise /\ ~RiseMoves) \/ SinkEnd
  PROVE  OInv'
  <1>1. /\ Percolating /\ ~Percolating' /\ pc' \notin {"rise", "sink"}
        /\ array' = [array EXCEPT ![hole] = temp]
        /\ UNCHANGED <<cur_size, expire>>
    BY DEF Rise, SinkEnd, Percolating, timerVars, IInv, TypeOK
  <1>2. Indices' = Indices
    BY <1>1 DEF Indices
  <1>3. \A i \in Indices : Key(i)' = IF i = hole THEN expire[temp] ELSE Key(i)
    BY <1>1, KeysAreNumbers DEF Key, IInv, TypeOK
  <1>4. ASSUME NEW c \in Indices, NEW p \in Indices, IsChild(c, p)
        PROVE  Key(p)' <= Key(c)'
    <2>1. c # p /\ c \in Nat /\ p \in Nat /\ p < c
      BY <1>4, ParentOf, KeysAreNumbers
    <2>2. CASE c # hole /\ p # hole
      BY <1>1, <1>3, <1>4, <2>2 DEF OInv, Ordered
    <2>3. CASE c = hole
      <3>1. Key(p)' = Key(p) /\ Key(c)' = expire[temp]
        BY <1>3, <2>1, <2>3
      <3>2. CASE SinkEnd
        BY <1>4, <2>3, <3>1, <3>2 DEF SinkEnd, OInv, TempOrdered
      <3>3. CASE Rise /\ ~RiseMoves
        <4>1. p = Parent(hole) /\ hole > 0
          BY <1>4, <2>1, <2>3, ParentOf
        <4>2. QED
          BY <3>1, <3>3, <4>1 DEF RiseMoves, Key
      <3>4. QED
        BY <3>2, <3>3
    <2>4. CASE p = hole
      <3>1. Key(p)' = expire[temp] /\ Key(c)' = Key(c)
        BY <1>3, <2>1, <2>4
      <3>2. CASE Rise /\ ~RiseMoves
        BY <1>4, <2>4, <3>1, <3>2 DEF Rise, OInv, TempOrdered
      <3>3. CASE SinkEnd
        <4> DEFINE l == 2 * hole + 1
        <4>1. hole \in Nat /\ cur_size \in Nat
          BY KeysAreNumbers
        <4>2. c = l \/ (c = l + 1 /\ l < cur_size - 1)
          BY <1>4, <2>4, <4>1 DEF IsChild, Indices
        <4>3. l <= cur_size - 1 /\ l \in Indices /\ l # hole
          BY <4>1, <4>2 DEF Indices
        <4>4. Key(l) \in Nat /\ Key(c) \in Nat /\ expire[temp] \in Nat
          BY <1>1, <2>1, <2>4, <4>3, KeysAreNumbers
        <4>5. ~(Key(SmallChild(hole)) < expire[temp])
          BY <3>3, <4>3 DEF SinkEnd, SinkMoves, Key
        <4>6. CASE l < cur_size - 1
          <5>1. l + 1 \in Indices /\ l + 1 # hole
            BY <4>1, <4>6 DEF Indices
          <5>2. Key(l + 1) \in Nat
            BY <5>1, KeysAreNumbers
          <5>3. SmallChild(hole) = IF Key(l + 1) < Key(l) THEN l + 1 ELSE l
            BY <4>6 DEF SmallChild, Key
          <5>4. QED
            BY <3>1, <4>2, <4>4, <4>5, <5>2, <5>3
        <4>7. CASE ~(l < cur_size - 1)
          <5>1. SmallChild(hole) = l /\ c = l
            BY <4>2, <4>7 DEF SmallChild
          <5>2. QED
            BY <3>1, <4>4, <4>5, <5>1
        <4>8. QED
          BY <4>6, <4>7
      <3>4. QED
        BY <3>2, <3>3
    <2>5. QED
      BY <2>2, <2>3, <2>4
  <1>5. Ordered'
    BY <1>2, <1>4 DEF Ordered
  <1>6. QED
    BY <1>1, <1>5 DEF OInv, AroundHole, TempOrdered

(* A new timer starts at the end, with nothing below it.                   *)
LEMMA AddOrder ==
  ASSUME IInv, OInv, NEW t \in Timers, AddTimer(t)
  PROVE  OInv'
  <1>1. /\ pc = "loop" /\ pc' = "rise" /\ hole' = cur_size /\ cur_size' = cur_size + 1
        /\ t \notin Contents
        /\ expire' = [expire EXCEPT ![t] = clock + 3 * TIMESLOT]
    BY DEF AddTimer
  <1>2. cur_size \in Nat /\ Indices' = Indices \cup {cur_size} /\ cur_size \notin Indices
        /\ Indices \subseteq Nat
    BY <1>1, KeysAreNumbers DEF Indices
  <1>3. \A i \in Indices : array'[i] = array[i]
    <2>1. \A i \in Indices : i \in 0..(2 * capacity - 1)
      BY DEF IInv, TypeOK, Indices
    <2>2. QED
      BY <2>1 DEF AddTimer, Resize
  <1>4. \A i \in Indices : array[i] \in Timers /\ array[i] # t
    BY <1>1 DEF IInv, AllTimers, Entry, Contents
  <1>5. \A i \in Indices : Key(i)' = Key(i)
    BY <1>1, <1>3, <1>4 DEF Key, IInv, TypeOK
  <1>6. \A c, p \in Indices : IsChild(c, p) => Key(p) <= Key(c)
    BY <1>1 DEF OInv, Ordered, Percolating
  <1>7. Ordered'
    BY <1>1, <1>2, <1>5, <1>6 DEF Ordered, Percolating
  <1>8. \A c \in Indices' : ~IsChild(c, cur_size)
    BY <1>1, <1>2 DEF IsChild, Indices
  <1>9. QED
    BY <1>1, <1>7, <1>8 DEF OInv, AroundHole, TempOrdered

(* adjust() starts where the timer is, which now expires later.            *)
LEMMA AdjustOrder ==
  ASSUME IInv, OInv, NEW t \in Timers, Adjust(t)
  PROVE  OInv'
  <1>1. PICK k \in Indices : array[k] = t /\ PercolateDown(k, t, "loop")
    BY DEF Adjust
  <1>2. /\ pc = "loop" /\ pc' = "sink" /\ hole' = k /\ temp' = t /\ ~Percolating
        /\ expire' = [expire EXCEPT ![t] = clock + 3 * TIMESLOT]
        /\ UNCHANGED <<array, cur_size>>
    BY <1>1 DEF Adjust, PercolateDown, heapVars, Percolating
  <1>3. expire'[t] >= expire[t]
    BY AdjustStep
  <1>4. \A i \in Indices : array[i] \in Timers /\ (i # k => array[i] # t)
    BY <1>1, <1>2 DEF IInv, AllTimers, NoneTwice, Entry
  <1>5. Indices' = Indices
    BY <1>2 DEF Indices
  <1>6. \A i \in Indices : i # k => Key(i)' = Key(i)
    BY <1>2, <1>4 DEF Key, IInv, TypeOK
  <1>7. \A c, p \in Indices : IsChild(c, p) => Key(p) <= Key(c) /\ c # p
    BY <1>2, ParentOf, KeysAreNumbers DEF OInv, Ordered
  <1>8. \A i \in Indices : Key(i) \in Nat
    BY <1>2, KeysAreNumbers
  <1>9. Key(k) = expire[t]
    BY <1>1 DEF Key
  <1>10. expire'[t] \in Nat
    BY AdjustStep DEF IInv, TypeOK
  <1>11. Ordered'
    BY <1>2, <1>5, <1>6, <1>7 DEF Ordered, Percolating
  <1>12. AroundHole'
    <2>1. ASSUME NEW g \in Indices, NEW c \in Indices, IsChild(k, g), IsChild(c, k)
          PROVE  Key(g)' <= Key(c)'
      <3>1. g # k /\ c # k /\ Key(g) <= Key(k) /\ Key(k) <= Key(c)
        BY <1>1, <1>7, <2>1
      <3>2. Key(g) <= Key(c)
        BY <1>1, <1>8, <3>1
      <3>3. QED
        BY <1>6, <3>1, <3>2
    <2>2. QED
      BY <1>2, <1>5, <2>1 DEF AroundHole
  <1>13. TempOrdered'
    <2>1. ASSUME NEW g \in Indices, IsChild(k, g) PROVE Key(g)' <= expire'[t]
      <3>1. g # k /\ Key(g) <= Key(k) /\ Key(g)' = Key(g)
        BY <1>1, <1>6, <1>7, <2>1
      <3>2. QED
        BY <1>1, <1>3, <1>8, <1>9, <1>10, <3>1
    <2>2. QED
      BY <1>2, <1>5, <2>1 DEF TempOrdered
  <1>14. QED
    BY <1>11, <1>12, <1>13 DEF OInv

(* pop_timer() starts at the top, with nothing above it.                   *)
LEMMA PopOrder ==
  ASSUME IInv, OInv, TickPop
  PROVE  OInv'
  <1>1. /\ pc = "tick" /\ pc' = "sink" /\ hole' = 0 /\ cur_size' = cur_size - 1 /\ expire' = expire
        /\ cur_size > 0
        /\ array' = [array EXCEPT ![0] = array[cur_size - 1]]
    BY DEF TickPop, TopExpired, MoveLast, PercolateDown
  <1>2. Indices' \subseteq Indices /\ Indices \subseteq Nat
    BY <1>1, KeysAreNumbers DEF Indices
  <1>3. \A i \in Indices : i # 0 => Key(i)' = Key(i)
    BY <1>1, KeysAreNumbers DEF Key, IInv, TypeOK
  <1>4. \A c, p \in Indices : IsChild(c, p) => Key(p) <= Key(c)
    BY <1>1 DEF OInv, Ordered, Percolating
  <1>5. Ordered'
    BY <1>1, <1>2, <1>3, <1>4 DEF Ordered, Percolating
  <1>6. \A g \in Indices' : ~IsChild(0, g)
    BY <1>2, ParentOf
  <1>7. QED
    BY <1>1, <1>5, <1>6 DEF OInv, AroundHole, TempOrdered

(* The order is invariant.                                                 *)
LEMMA NextOrder == IInv /\ OInv /\ [Next]_vars => OInv'
  <1> SUFFICES ASSUME IInv, OInv, [Next]_vars PROVE OInv'
    OBVIOUS
  <1>1. CASE Rise /\ RiseMoves
    <2>1. QED
      BY <1>1, RiseOrder DEF Rise, timerVars
  <1>2. CASE \/ \E t \in Timers : DelTimer(t)
             \/ Signal \/ TickStart \/ TickEnd \/ SetAlarm \/ Pass
             \/ UNCHANGED vars
    <2>1. /\ UNCHANGED <<array, cur_size, expire, hole, temp>>
          /\ Percolating' <=> Percolating
          /\ pc' \in {"rise", "sink"} => pc' = pc
      BY <1>2 DEF DelTimer, Signal, TickStart, TickEnd, SetAlarm, Pass, vars, heapVars,
            timerVars, loopVars, Percolating
    <2>2. QED
      BY <2>1 DEF OInv, Ordered, AroundHole, TempOrdered, Key, Indices
  <1>3. QED
    BY <1>1, <1>2, SinkOrder, EndOrder, AddOrder, AdjustOrder, PopOrder DEF Next

(* The initial state is ordered.                                           *)
LEMMA InitOrder == Init => OInv
  BY DEF Init, OInv, Ordered, AroundHole, TempOrdered, Percolating, Indices

(* The inductive invariant with the order.                                 *)
THEOREM HeapInvariant == Spec => [](IInv /\ OInv)
  BY InitInv, NextInv, InitOrder, NextOrder, PTL DEF Spec

(* The array is a heap between the operations, for every number of timers. *)
THEOREM HeapIsOrdered == Spec => []HeapOrder
  <1>1. OInv => HeapOrder
    BY DEF OInv, Ordered, HeapOrder, Percolating, Key
  <1>2. QED
    BY <1>1, HeapInvariant, PTL

(* A set of natural numbers has a least element: the sets of the numbers   *)
(* below each of them are finite, and inclusion of finite sets is well     *)
(* founded.                                                                *)
LEMMA LeastElement ==
  ASSUME NEW T \in SUBSET Nat, T # {}
  PROVE  \E x \in T : \A y \in T : ~(y < x)
  <1> DEFINE D == {0..(x - 1) : x \in T}
             F == FiniteSubsetsOf(Nat)
             R == StrictSubsetOrdering(Nat)
  <1>1. D \subseteq F /\ D # {}
    <2>1. ASSUME NEW x \in T PROVE 0..(x - 1) \in F
      <3>1. x \in Nat /\ x - 1 \in Int /\ 0 \in Int
        OBVIOUS
      <3>2. IsFiniteSet(0..(x - 1))
        BY <3>1, FS_Interval
      <3>3. 0..(x - 1) \in SUBSET Nat
        BY <3>1
      <3>4. QED
        BY <3>2, <3>3 DEF FiniteSubsetsOf
    <2>2. PICK x \in T : TRUE
      OBVIOUS
    <2>3. 0..(x - 1) \in D
      OBVIOUS
    <2>4. QED
      BY <2>1, <2>3
  <1>2. IsWellFoundedOn(R, F)
    BY FS_StrictSubsetOrderingWellFounded
  <1>3. \E A \in D : \A B \in D : ~(<<B, A>> \in R)
    <2> HIDE DEF D, F, R
    <2>1. QED
      BY <1>1, <1>2, WFMin
  <1>4. PICK x \in T : \A B \in D : ~(<<B, 0..(x - 1)>> \in R)
    BY <1>3
  <1>5. ASSUME NEW y \in T, y < x PROVE FALSE
    <2>1. y \in Nat /\ x \in Nat
      OBVIOUS
    <2>2. 0..(y - 1) \subseteq 0..(x - 1) /\ y \in 0..(x - 1) /\ y \notin 0..(y - 1)
      BY <1>5, <2>1
    <2>3. <<0..(y - 1), 0..(x - 1)>> \in R
      BY <2>2 DEF StrictSubsetOrdering
    <2>4. QED
      BY <1>4, <2>3
  <1>6. QED
    BY <1>5

(* The timer at index 0 is one of the first to expire: otherwise take the  *)
(* smallest index of one that expires before it; its parent would be       *)
(* smaller still.                                                          *)
LEMMA TopIsFirst ==
  ASSUME IInv, OInv, ~Percolating
  PROVE  \A i \in Indices : Key(0) <= Key(i)
  <1> DEFINE T == {i \in Indices : ~(Key(0) <= Key(i))}
  <1> SUFFICES ASSUME T # {} PROVE FALSE
    OBVIOUS
  <1>1. T \subseteq Nat
    BY KeysAreNumbers
  <1>3. PICK x \in T : \A y \in T : ~(y < x)
    <2> HIDE DEF T
    <2>1. QED
      BY <1>1, LeastElement
  <1>4. x \in Indices /\ x \in Nat /\ ~(Key(0) <= Key(x))
    BY <1>1
  <1>5. 0 \in Indices /\ Key(0) \in Nat /\ Key(x) \in Nat
    BY <1>4, KeysAreNumbers DEF Indices
  <1>6. x # 0
    BY <1>4, <1>5
  <1>7. Parent(x) \in Indices /\ Parent(x) < x /\ IsChild(x, Parent(x))
    BY <1>4, <1>6, ParentOf, KeysAreNumbers DEF Indices
  <1>8. Key(Parent(x)) <= Key(x) /\ Key(Parent(x)) \in Nat
    BY <1>4, <1>7, KeysAreNumbers DEF OInv, Ordered
  <1>9. Parent(x) \in T
    BY <1>4, <1>5, <1>7, <1>8
  <1>10. QED
    BY <1>3, <1>7, <1>9

(* So all timers expire no earlier than the top, and an empty array has    *)
(* none.                                                                   *)
LEMMA TopBounds ==
  ASSUME IInv, OInv, ~Percolating
  PROVE  /\ \A t \in Contents : 0 < cur_size /\ Key(0) <= expire[t]
         /\ cur_size > 0 => Key(0) \in Nat /\ array[0] \in Contents
  <1>1. \A i \in Indices : Entry(i) = array[i]
    BY DEF Entry, Percolating
  <1>2. ASSUME NEW t \in Contents PROVE 0 < cur_size /\ Key(0) <= expire[t]
    <2>1. PICK i \in Indices : t = array[i]
      BY <1>1 DEF Contents
    <2>2. cur_size \in Nat
      BY KeysAreNumbers
    <2>3. QED
      BY <2>1, <2>2, TopIsFirst DEF Key, Indices
  <1>3. ASSUME cur_size > 0 PROVE Key(0) \in Nat /\ array[0] \in Contents
    <2>1. 0 \in Indices
      BY <1>3, KeysAreNumbers DEF Indices
    <2>2. QED
      BY <1>1, <2>1, KeysAreNumbers DEF Contents
  <1>4. QED
    BY <1>2, <1>3
-----------------------------------------------------------------------------
(* What each step does to the contents and the deadlines.                  *)
LEMMA StepContents ==
  ASSUME IInv, [Next]_vars
  PROVE  \/ \E t \in Timers : AddTimer(t) /\ Contents' = Contents \cup {t}
         \/ \E t \in Timers : Adjust(t) /\ Contents' = Contents
         \/ TickPop /\ Contents' = Contents \ {array[0]} /\ array[0] \in Contents
         \/ /\ Contents' = Contents
            /\ expire' = expire
            /\ \/ Rise \/ SinkStep \/ SinkEnd \/ Signal \/ TickStart \/ TickEnd
               \/ SetAlarm \/ Pass \/ UNCHANGED vars
               \/ \E t \in Timers : DelTimer(t)
  <1>1. CASE \E t \in Timers : AddTimer(t)
    BY <1>1, AddStep
  <1>2. CASE \E t \in Timers : Adjust(t)
    BY <1>2, AdjustStep
  <1>3. CASE TickPop
    BY <1>3, PopStep
  <1>4. CASE Rise \/ SinkStep \/ SinkEnd
    <2>1. Contents' = Contents
      BY <1>4, PercolationStep
    <2>2. expire' = expire
      BY <1>4 DEF Rise, SinkStep, SinkEnd, timerVars
    <2>3. QED
      BY <1>4, <2>1, <2>2
  <1>5. CASE \/ \E t \in Timers : DelTimer(t)
             \/ Signal \/ TickStart \/ TickEnd \/ SetAlarm \/ Pass \/ UNCHANGED vars
    <2>1. Contents' = Contents
      BY <1>5, OtherStep
    <2>2. expire' = expire
      BY <1>5 DEF DelTimer, Signal, TickStart, TickEnd, SetAlarm, Pass, vars, timerVars
    <2>3. QED
      BY <1>5, <2>1, <2>2
  <1>6. QED
    BY <1>1, <1>2, <1>3, <1>4, <1>5 DEF Next

(* tick() ends only when the top has not expired, and nothing is added     *)
(* before the alarm is set.                                                *)
LEMMA NoneLeftStep ==
  ASSUME IInv, OInv, NoneLeftBehind, [Next]_vars
  PROVE  NoneLeftBehind'
  <1> SUFFICES ASSUME pc' = "alarm", NEW t \in Contents' PROVE expire'[t] > cur'
    BY DEF NoneLeftBehind
  <1>1. CASE TickEnd
    <2>1. Contents' = Contents /\ expire' = expire /\ cur' = cur /\ pc = "tick"
      BY <1>1, OtherStep DEF TickEnd, timerVars, alarmVars
    <2>2. ~Percolating
      BY <2>1 DEF Percolating
    <2>3. 0 < cur_size /\ Key(0) <= expire[t] /\ Key(0) \in Nat
      BY <2>1, <2>2, TopBounds
    <2>4. ~(Key(0) <= cur)
      BY <1>1, <2>3 DEF TickEnd, TopExpired, Key
    <2>5. cur \in Nat /\ expire[t] \in Nat
      <3>1. t \in Timers
        BY <2>1 DEF IInv, AllTimers, Contents
      <3>2. QED
        BY <3>1 DEF IInv, TypeOK
    <2>6. QED
      BY <2>1, <2>3, <2>4, <2>5
  <1>2. CASE ~TickEnd
    <2>1. pc = "alarm" /\ (Signal \/ Pass \/ UNCHANGED vars)
      BY <1>2 DEF Next, AddTimer, Adjust, PercolateDown, DelTimer, Rise, SinkStep, SinkEnd,
            Signal, TickStart, TickPop, MoveLast, SetAlarm, Pass, vars, IInv, TypeOK
    <2>2. Contents' = Contents
      BY <2>1, OtherStep
    <2>3. expire' = expire /\ cur' = cur
      BY <2>1 DEF Signal, Pass, vars, timerVars, alarmVars
    <2>4. QED
      BY <2>1, <2>2, <2>3 DEF NoneLeftBehind
  <1>3. QED
    BY <1>1, <1>2

(* No expired timer waits for another alarm.                               *)
THEOREM AllExpiredTaken == Spec => []NoneLeftBehind
  <1>1. Init => NoneLeftBehind
    BY DEF Init, NoneLeftBehind
  <1>2. QED
    BY <1>1, NoneLeftStep, HeapInvariant, PTL DEF Spec
-----------------------------------------------------------------------------
(***************************************************************************)
(* The alarm.  While the clock stands still during every timer_handler(),  *)
(* the time that tick() read is the time the alarm is computed from, so    *)
(* that its argument is positive and at most that of a new timer.          *)
(***************************************************************************)
Waiting == pc \in {"loop", "rise"} \/ (pc = "sink" /\ ret = "loop")

AlarmBefore == Waiting /\ ~slow => timeout \/ (due # Never /\ \A t \in Contents : due <= expire[t])

SameTime == InHandler /\ ~slow => cur = clock

DueSoon == ~slow => due <= clock + 3 * TIMESLOT

ReturnsToTick == ret = "tick" => pc = "sink"

AInv == AlarmBefore /\ SameTime /\ DueSoon /\ ReturnsToTick

(* An argument that is positive and fits is not changed by the conversion. *)
LEMMA AlarmArgument ==
  ASSUME clock \in Nat, NEW k \in Nat \ {0}, k <= 3 * TIMESLOT
  PROVE  AlarmIn(k) = clock + k
  <1>1. UIntRange \in Nat /\ k < UIntRange
    BY TimeHeapAssumption
  <1>2. k % UIntRange = k
    BY <1>1
  <1>3. QED
    BY <1>2 DEF AlarmIn

(* The alarm that timer_handler() sets.                                    *)
LEMMA SetAlarmStep ==
  ASSUME IInv, OInv, NoneLeftBehind, AInv, SetAlarm
  PROVE  AInv'
  <1> USE TimeHeapAssumption
  <1>1. /\ clock \in Nat /\ cur \in Nat /\ expire \in [Timers -> Nat]
        /\ pc = "alarm" /\ pc' = "loop" /\ ret # "tick"
        /\ UNCHANGED <<clock, slow, ret, expire, timeout>>
        /\ 3 * TIMESLOT \in Nat
    BY DEF IInv, TypeOK, AInv, ReturnsToTick, SetAlarm, loopVars, timerVars, timeVars
  <1>2. Contents' = Contents
    BY OtherStep
  <1>3. ~Percolating
    BY <1>1 DEF Percolating
  <1>4. ReturnsToTick' /\ SameTime'
    BY <1>1 DEF ReturnsToTick, SameTime, InHandler
  <1>5. ASSUME ~slow
        PROVE  /\ due' # Never /\ due' <= clock + 3 * TIMESLOT
               /\ \A t \in Contents : due' <= expire[t]
    <2>1. cur = clock
      BY <1>1, <1>5 DEF AInv, SameTime, InHandler
    <2>2. CASE cur_size > 0
      <3>1. Key(0) \in Nat /\ array[0] \in Contents /\ array[0] \in Timers
        BY <1>3, <2>2, TopBounds DEF IInv, AllTimers, Contents
      <3>2. Key(0) > clock
        BY <1>1, <2>1, <3>1 DEF NoneLeftBehind, Key
      <3>3. Key(0) <= clock + 3 * TIMESLOT
        BY <3>1 DEF IInv, Deadlines, Key
      <3>4. Key(0) - clock \in Nat \ {0} /\ Key(0) - clock <= 3 * TIMESLOT
        BY <1>1, <3>1, <3>2, <3>3
      <3>5. due' = clock + (Key(0) - clock)
        BY <1>1, <2>2, <3>4, AlarmArgument DEF SetAlarm, Key
      <3>6. due' = Key(0)
        BY <1>1, <3>1, <3>5
      <3>7. \A t \in Contents : Key(0) <= expire[t]
        BY <1>3, TopBounds
      <3>8. QED
        BY <3>1, <3>3, <3>6, <3>7 DEF Never
    <2>3. CASE ~(cur_size > 0)
      <3>1. Contents = {}
        BY <1>3, <2>3, TopBounds
      <3>2. TIMESLOT \in Nat \ {0} /\ TIMESLOT <= 3 * TIMESLOT
        OBVIOUS
      <3>3. due' = clock + TIMESLOT
        BY <1>1, <2>3, <3>2, AlarmArgument DEF SetAlarm
      <3>4. QED
        BY <1>1, <3>1, <3>2, <3>3 DEF Never
    <2>4. QED
      BY <2>2, <2>3
  <1>6. QED
    BY <1>1, <1>2, <1>4, <1>5 DEF AInv, AlarmBefore, DueSoon

(* A new deadline is not before the alarm.                                 *)
LEMMA DeadlineStep ==
  ASSUME IInv, AInv, NEW t \in Timers, AddTimer(t) \/ Adjust(t)
  PROVE  AInv'
  <1> USE TimeHeapAssumption
  <1>1. /\ clock \in Nat /\ expire \in [Timers -> Nat] /\ due \in Nat \cup {Never}
        /\ 3 * TIMESLOT \in Nat
        /\ pc = "loop" /\ ret # "tick" /\ ret' # "tick" /\ pc' \in {"rise", "sink"}
        /\ expire' = [expire EXCEPT ![t] = clock + 3 * TIMESLOT]
        /\ UNCHANGED <<alarmVars, timeVars>>
        /\ due' = due /\ clock' = clock /\ slow' = slow /\ timeout' = timeout
    BY DEF IInv, TypeOK, AInv, ReturnsToTick, AddTimer, Adjust, PercolateDown, alarmVars, timeVars
  <1>2. Contents' \subseteq Contents \cup {t}
    BY AddStep, AdjustStep
  <1>3. Contents \subseteq Timers
    BY DEF IInv, AllTimers, Contents
  <1>4. ASSUME ~slow, ~timeout
        PROVE  due # Never /\ \A u \in Contents' : due <= expire'[u]
    <2>1. due # Never /\ (\A u \in Contents : due <= expire[u]) /\ due <= clock + 3 * TIMESLOT
      BY <1>1, <1>4 DEF AInv, AlarmBefore, DueSoon, Waiting
    <2>2. QED
      BY <1>1, <1>2, <1>3, <2>1
  <1>5. QED
    BY <1>1, <1>4 DEF AInv, AlarmBefore, SameTime, DueSoon, ReturnsToTick, InHandler

(* Every step keeps the alarm in time.                                     *)
LEMMA NextAlarm ==
  ASSUME IInv, OInv, NoneLeftBehind, AInv, [Next]_vars
  PROVE  AInv'
  <1> USE TimeHeapAssumption
  <1>1. CASE SetAlarm
    BY <1>1, SetAlarmStep
  <1>2. CASE \E t \in Timers : AddTimer(t) \/ Adjust(t)
    BY <1>2, DeadlineStep
  <1>3. CASE TickPop
    BY <1>3 DEF TickPop, MoveLast, PercolateDown, AInv, AlarmBefore, SameTime, DueSoon,
          ReturnsToTick, InHandler, Waiting, alarmVars, timeVars
  <1>4. CASE Pass
    <2>1. Contents' = Contents /\ clock \in Nat /\ due \in Nat \cup {Never} /\ 3 * TIMESLOT \in Nat
      BY <1>4, OtherStep DEF IInv, TypeOK
    <2>2. /\ clock' = clock + 1 /\ (~slow' => ~slow /\ ~InHandler)
          /\ UNCHANGED <<pc, ret, expire, due, timeout, cur>>
      BY <1>4 DEF Pass, timerVars, loopVars, alarmVars
    <2>3. QED
      BY <2>1, <2>2 DEF AInv, AlarmBefore, SameTime, DueSoon, ReturnsToTick, InHandler, Waiting
  <1>5. CASE \/ Rise \/ SinkStep \/ SinkEnd \/ TickStart \/ TickEnd \/ UNCHANGED vars
             \/ \E t \in Timers : DelTimer(t)
    <2>1. Contents' = Contents
      BY <1>5, PercolationStep, OtherStep
    <2>2. UNCHANGED <<due, clock, slow, expire>>
      BY <1>5 DEF Rise, SinkStep, SinkEnd, TickStart, TickEnd, DelTimer, vars, timerVars,
            alarmVars, timeVars
    <2>3. DueSoon'
      BY <2>2 DEF AInv, DueSoon
    <2>4. ReturnsToTick' /\ SameTime'
      BY <1>5 DEF Rise, SinkStep, SinkEnd, TickStart, TickEnd, DelTimer, vars, loopVars,
            alarmVars, timeVars, AInv, ReturnsToTick, SameTime, InHandler, Done, IInv, TypeOK
    <2>5. (Waiting' => Waiting) /\ (Waiting' => timeout' = timeout)
      BY <1>5 DEF Rise, SinkStep, SinkEnd, TickStart, TickEnd, DelTimer, vars, loopVars,
            alarmVars, timeVars, AInv, ReturnsToTick, Waiting, Done, IInv, TypeOK
    <2>6. AlarmBefore'
      BY <2>1, <2>2, <2>5 DEF AInv, AlarmBefore
    <2>7. QED
      BY <2>3, <2>4, <2>6 DEF AInv
  <1>6. CASE Signal
    BY <1>6 DEF Signal, AInv, AlarmBefore, SameTime, DueSoon, ReturnsToTick, InHandler, Waiting,
          Never, loopVars, timeVars, IInv, TypeOK
  <1>7. QED
    BY <1>1, <1>2, <1>3, <1>4, <1>5, <1>6 DEF Next

(* main() begins without timers and with an alarm after TIMESLOT.          *)
LEMMA InitAlarm == Init => AInv
  <1>1. ASSUME Init PROVE Contents = {}
    BY <1>1 DEF Init, Contents, Indices
  <1>2. TIMESLOT \in Nat \ {0} /\ TIMESLOT <= 0 + 3 * TIMESLOT
    BY TimeHeapAssumption
  <1>3. ASSUME Init PROVE due # Never /\ due <= clock + 3 * TIMESLOT
    <2>1. due = TIMESLOT /\ clock = 0
      BY <1>3 DEF Init
    <2>2. QED
      BY <1>2, <2>1 DEF Never
  <1>4. Init => SameTime /\ ReturnsToTick
    BY DEF Init, SameTime, ReturnsToTick, InHandler
  <1>5. QED
    BY <1>1, <1>3, <1>4 DEF AInv, AlarmBefore, DueSoon

(* The invariant of the alarm rests on those of the heap.                  *)
LEMMA AlarmInvariant == Spec => []AInv
  <1>1. QED
    BY InitAlarm, NextAlarm, HeapInvariant, AllExpiredTaken, PTL DEF Spec

(* SIGALRM is on its way, no later than the first timer expires, as long   *)
(* as the clock does not move during a timer_handler().                    *)
THEOREM AlarmNeverLate == Spec => []AlarmInTime
  <1>1. AInv => AlarmInTime
    BY DEF AInv, AlarmBefore, AlarmInTime, Waiting
  <1>2. QED
    BY <1>1, AlarmInvariant, PTL

(* SIGALRM comes within the time of a new timer, whether there are timers  *)
(* or not, unless the clock moved during some timer_handler().             *)
KeepsComingUnlessSlow == slow \/ AlarmKeepsComing

(* So the two readings of the clock are all that can stop the alarm.       *)
THEOREM AlarmStopsOnlyIfSlow == Spec => []KeepsComingUnlessSlow
  <1>1. AInv => KeepsComingUnlessSlow
    BY DEF AInv, AlarmBefore, DueSoon, Waiting, KeepsComingUnlessSlow, AlarmKeepsComing
  <1>2. QED
    BY <1>1, AlarmInvariant, PTL
-----------------------------------------------------------------------------
(* The heap implements the abstract set of timers.                         *)

(* A new deadline is one that the set allows.                              *)
LEMMA NewDeadline ==
  ASSUME IInv, NEW t \in Timers, expire' = [expire EXCEPT ![t] = clock + 3 * TIMESLOT]
  PROVE  /\ expire'[t] \in Nat /\ expire'[t] >= clock /\ expire'[t] >= expire[t]
         /\ expire' = [expire EXCEPT ![t] = expire'[t]]
  <1>1. clock \in Nat /\ expire \in [Timers -> Nat] /\ 3 * TIMESLOT \in Nat
    BY TimeHeapAssumption DEF IInv, TypeOK
  <1>2. expire'[t] = clock + 3 * TIMESLOT
    BY <1>1
  <1>3. QED
    BY <1>1, <1>2 DEF IInv, Deadlines

(* The time that tick() read has come.                                     *)
LEMMA NextCurPast == IInv /\ cur <= clock /\ [Next]_vars => (cur <= clock)'
  <1> SUFFICES ASSUME IInv, cur <= clock, [Next]_vars PROVE cur' <= clock'
    OBVIOUS
  <1>1. clock \in Nat /\ cur \in Nat
    BY DEF IInv, TypeOK
  <1>2. \/ cur' = cur /\ clock' = clock
        \/ cur' = cur /\ clock' = clock + 1
        \/ cur' = clock /\ clock' = clock
        \/ cur' = 0 /\ clock' = clock
    BY DEF Next, AddTimer, Adjust, DelTimer, Rise, SinkStep, SinkEnd, Signal, TickStart, TickPop,
          TickEnd, SetAlarm, Pass, vars, alarmVars, timeVars
  <1>3. QED
    BY <1>1, <1>2

(* Each step is one of the set's or changes nothing that it sees.          *)
LEMMA RefinementStep ==
  ASSUME IInv, OInv, cur <= clock, [Next]_vars
  PROVE  [Set!Next]_(Set!vars)
  <1>1. CASE \E t \in Timers : AddTimer(t) /\ Contents' = Contents \cup {t}
    <2>1. PICK t \in Timers : AddTimer(t) /\ Contents' = Contents \cup {t}
      BY <1>1
    <2>2. expire' = [expire EXCEPT ![t] = clock + 3 * TIMESLOT]
      BY <2>1 DEF AddTimer
    <2>3. Set!SetDeadline(t, clock)
      BY <2>2, NewDeadline DEF Set!SetDeadline
    <2>4. Set!Add(t)
      BY <2>1, <2>3 DEF AddTimer, Set!Add, timeVars
    <2>5. QED
      BY <2>4 DEF Set!Next
  <1>2. CASE \E t \in Timers : Adjust(t) /\ Contents' = Contents
    <2>1. PICK t \in Timers : Adjust(t) /\ Contents' = Contents
      BY <1>2
    <2>2. expire' = [expire EXCEPT ![t] = clock + 3 * TIMESLOT]
      BY <2>1 DEF Adjust
    <2>3. Set!SetDeadline(t, expire[t])
      BY <2>2, NewDeadline DEF Set!SetDeadline
    <2>4. Set!Delay(t)
      BY <2>1, <2>3, AdjustStep DEF Adjust, Set!Delay, timeVars
    <2>5. QED
      BY <2>4 DEF Set!Next
  <1>3. CASE TickPop /\ Contents' = Contents \ {array[0]} /\ array[0] \in Contents
    <2>1. pc = "tick" /\ Key(0) <= cur /\ UNCHANGED <<expire, clock>>
      BY <1>3 DEF TickPop, TopExpired, Key, timeVars
    <2>2. ~Percolating /\ cur \in Nat /\ clock \in Nat /\ array[0] \in Timers
      BY <1>3, <2>1 DEF Percolating, IInv, TypeOK, AllTimers, Contents
    <2>3. \A u \in Contents : Key(0) <= expire[u]
      BY <2>2, TopBounds
    <2>4. Key(0) \in Nat
      BY <2>2 DEF Key, IInv, TypeOK
    <2>5. Key(0) <= clock
      BY <2>1, <2>2, <2>4
    <2>6. Set!Expire(array[0])
      BY <1>3, <2>1, <2>3, <2>5 DEF TickPop, Set!Expire, Key
    <2>7. QED
      BY <2>2, <2>6 DEF Set!Next
  <1>4. CASE Contents' = Contents /\ expire' = expire /\ \E t \in Timers : DelTimer(t)
    <2>1. PICK t \in Timers : DelTimer(t)
      BY <1>4
    <2>2. Set!Cancel(t)
      BY <1>4, <2>1 DEF DelTimer, Set!Cancel, timeVars, IInv, Callbacks
    <2>3. QED
      BY <2>2 DEF Set!Next
  <1>5. CASE Contents' = Contents /\ expire' = expire /\ Pass
    BY <1>5 DEF Pass, timerVars, Set!Next, Set!Pass
  <1>6. CASE /\ Contents' = Contents /\ expire' = expire
             /\ \/ Rise \/ SinkStep \/ SinkEnd \/ Signal \/ TickStart \/ TickEnd
                \/ SetAlarm \/ UNCHANGED vars
    <2>1. UNCHANGED <<cb_func, called, clock>>
      BY <1>6 DEF Rise, SinkStep, SinkEnd, Signal, TickStart, TickEnd, SetAlarm, vars,
            timerVars, timeVars
    <2>2. QED
      BY <1>6, <2>1 DEF Set!vars
  <1>7. QED
    BY <1>1, <1>2, <1>3, <1>4, <1>5, <1>6, StepContents

(* tick() takes timers in the order of their deadlines and calls back only *)
(* those whose connection is open.                                         *)
THEOREM HeapImplementsTimerSet == Spec => ImplementsTimerSet
  <1>1. Init => Set!Init /\ cur <= clock
    <2>1. ASSUME Init PROVE Contents = {}
      BY <2>1 DEF Init, Contents, Indices
    <2>2. Init => Set!Init
      BY <2>1 DEF Init, Set!Init
    <2>3. Init => cur = 0 /\ clock = 0
      BY DEF Init
    <2>4. QED
      BY <2>2, <2>3
  <1>2. Spec => [](cur <= clock)
    BY <1>1, NextCurPast, HeapContents, PTL DEF Spec
  <1>3. Spec => Set!Spec
    BY <1>1, <1>2, RefinementStep, HeapInvariant, PTL DEF Spec, Set!Spec
  <1>4. QED
    BY <1>3 DEF ImplementsTimerSet
=============================================================================
