------------------------------ MODULE LogProofs ------------------------------
(***************************************************************************)
(* Theorems about BlockQueue and Log for a queue and a log of any size and *)
(* any number of days.                                                     *)
(***************************************************************************)
EXTENDS Log, FiniteSetTheorems, SequenceTheorems, TLAPS

(* The index that is i after f in the circular array.                      *)
Cell(f, i) == IF f + i < m_max_size THEN f + i ELSE f + i - m_max_size

Busy == pc \in {"route", "push", "direct"}

QueueOK ==
    /\ m_array \in [0..m_max_size - 1 -> Items \cup {NoItem}]
    /\ m_size \in 0..m_max_size
    /\ m_front \in -1..m_max_size - 1
    /\ m_back \in -1..m_max_size - 1
    /\ m_back = m_front + m_size \/ m_back = m_front + m_size - m_max_size
    /\ \A i \in 1..m_size : m_array[Cell(m_front, i)] \in Items
    /\ sleeping \subseteq Consumers
    /\ item \in [Consumers -> Items \cup {NoItem}]

LogOK ==
    /\ today \in 0..MaxDay /\ mday \in 0..today
    /\ m_today = 0
    /\ m_count \in 0..MaxLines
    /\ pc \in {"idle", "count", "route", "push", "direct", "exit"}
    /\ pc = "count" => m_count < MaxLines
    /\ Busy => m_count > 0
    /\ m_fp.day \in 0..mday

(* What full() said still holds when push() takes the lock: main() alone   *)
(* adds lines.                                                             *)
RoomToPush == pc = "push" => ~full

QInv == QueueOK /\ LogOK /\ RoomToPush /\ SleepsOnlyWhenEmpty
-----------------------------------------------------------------------------
(* The constants are the numbers they seem to be.                          *)
LEMMA Sizes ==
  /\ m_max_size \in Nat /\ m_max_size >= 1
  /\ DaysInMonth \in Nat /\ DaysInMonth >= 1
  /\ m_split_lines \in Nat /\ m_split_lines >= 1
  /\ MaxLines \in Nat /\ MaxDay \in Nat
  /\ NoItem \notin Items
  BY BlockQueueAssumption, LogAssumption

(* The remainder of a number below twice the divisor.                      *)
LEMMA Wraps ==
  ASSUME NEW n \in Nat, n >= 1, NEW k \in Nat, k < 2 * n
  PROVE  k % n = IF k < n THEN k ELSE k - n
  <1>1. CASE k < n
    BY <1>1
  <1>2. CASE k >= n
    <2>1. (k - n) + n * 1 = k /\ k - n \in 0..n - 1
      BY <1>2
    <2>2. QED
      BY <1>2, <2>1
  <1>3. QED
    BY <1>1, <1>2

(* Cell is what the code computes with %.                                  *)
LEMMA CellIsMod ==
  ASSUME NEW f \in -1..m_max_size - 1, NEW i \in 1..m_max_size
  PROVE  /\ (f + i) % m_max_size = Cell(f, i)
         /\ Cell(f, i) \in 0..m_max_size - 1
  <1>1. PICK k \in Nat : k = f + i
    BY Sizes
  <1>2. k < 2 * m_max_size /\ m_max_size \in Nat /\ m_max_size >= 1
    BY <1>1, Sizes
  <1>3. k % m_max_size = IF k < m_max_size THEN k ELSE k - m_max_size
    BY <1>2, Wraps
  <1>4. Cell(f, i) = IF k < m_max_size THEN k ELSE k - m_max_size
    BY <1>1, Sizes DEF Cell
  <1>5. (f + i) % m_max_size = k % m_max_size
    BY <1>1
  <1>6. Cell(f, i) \in 0..m_max_size - 1
    BY <1>2, <1>4
  <1>7. QED
    BY <1>3, <1>4, <1>5, <1>6

(* Two lines of the queue are in two cells.                                *)
LEMMA CellsDiffer ==
  ASSUME NEW f \in -1..m_max_size - 1, NEW i \in 1..m_max_size, NEW j \in 1..m_max_size,
         Cell(f, i) = Cell(f, j)
  PROVE  i = j
  BY Sizes DEF Cell

(* The lines of a circular array, as Contents computes them.               *)
Ring(a, f, n) == [i \in 1..n |-> a[(f + i) % m_max_size]]

(* They are found by their cells.                                          *)
LEMMA CellsSeq ==
  ASSUME NEW a, NEW f \in -1..m_max_size - 1, NEW n \in 0..m_max_size,
         \A i \in 1..n : a[Cell(f, i)] \in Items
  PROVE  /\ Ring(a, f, n) \in Seq(Items)
         /\ Len(Ring(a, f, n)) = n
         /\ DOMAIN Ring(a, f, n) = 1..n
         /\ \A i \in 1..n : Ring(a, f, n)[i] = a[Cell(f, i)]
  <1> DEFINE C == Ring(a, f, n)
  <1>1. \A i \in 1..n : (f + i) % m_max_size = Cell(f, i)
    BY CellIsMod, Sizes
  <1>2. C \in [1..n -> Items] /\ \A i \in 1..n : C[i] = a[Cell(f, i)]
    BY <1>1 DEF Ring
  <1> HIDE DEF C
  <1>3. n \in Nat
    BY Sizes
  <1>4. C \in Seq(Items)
    BY <1>2, <1>3, SeqDef
  <1>5. Len(C) \in Nat /\ DOMAIN C = 1..Len(C) /\ DOMAIN C = 1..n
    BY <1>2, <1>4, LenProperties
  <1>6. Len(C) = n
    <2> DEFINE l == Len(C)
    <2>1. l \in Nat /\ 1..l = 1..n
      BY <1>5
    <2> HIDE DEF l
    <2>2. (l <= n \/ l \in 1..n) /\ (n <= l \/ n \in 1..l)
      BY <2>1, <1>3
    <2>3. l = n
      BY <2>1, <2>2, <1>3
    <2>4. QED
      BY <2>3 DEF l
  <1>7. QED
    BY <1>2, <1>4, <1>5, <1>6 DEF C

(* The lines of the queue are those of its array.                          *)
LEMMA ContentsSeq ==
  ASSUME QueueOK
  PROVE  /\ Contents \in Seq(Items)
         /\ Len(Contents) = m_size
         /\ DOMAIN Contents = 1..m_size
         /\ \A i \in 1..m_size : Contents[i] = m_array[Cell(m_front, i)]
  <1>1. /\ m_front \in -1..m_max_size - 1
        /\ m_size \in 0..m_max_size
        /\ \A i \in 1..m_size : m_array[Cell(m_front, i)] \in Items
    BY DEF QueueOK
  <1>2. Contents = Ring(m_array, m_front, m_size)
    BY DEF Contents, Ring
  <1>3. QED
    BY <1>1, <1>2, CellsSeq

(* The same after a step.                                                  *)
LEMMA ContentsSeqAfter ==
  ASSUME QueueOK'
  PROVE  /\ Contents' \in Seq(Items)
         /\ Len(Contents') = m_size'
         /\ DOMAIN Contents' = 1..m_size'
         /\ \A i \in 1..m_size' : Contents'[i] = m_array'[Cell(m_front', i)]
  <1>1. /\ m_front' \in -1..m_max_size - 1
        /\ m_size' \in 0..m_max_size
        /\ \A i \in 1..m_size' : m_array'[Cell(m_front', i)] \in Items
    BY DEF QueueOK, Cell
  <1>2. Contents' = Ring(m_array', m_front', m_size')
    BY DEF Contents, Ring
  <1>3. QED
    BY <1>1, <1>2, CellsSeq

(* push() with room appends the line.                                      *)
LEMMA AddAppends ==
  ASSUME QueueOK, ~full, NEW x \in Items, Add(x), sleeping' = {}, UNCHANGED item
  PROVE  QueueOK' /\ Contents' = Append(Contents, x)
  <1>1. m_size \in Nat /\ m_size < m_max_size /\ m_size' = m_size + 1 /\ m_front' = m_front
    BY Sizes DEF QueueOK, full, Add
  <1>2. m_back' = Cell(m_back, 1) /\ m_back' \in 0..m_max_size - 1
    BY Sizes, CellIsMod DEF QueueOK, Add
  <1>3. m_back' = Cell(m_front, m_size + 1)
    BY <1>1, <1>2, Sizes DEF QueueOK, Cell
  <1>4. m_back' = m_front' + m_size' \/ m_back' = m_front' + m_size' - m_max_size
    BY <1>1, <1>3, Sizes DEF QueueOK, Cell
  <1>5. /\ m_array' \in [0..m_max_size - 1 -> Items \cup {NoItem}]
        /\ m_array'[Cell(m_front, m_size + 1)] = x
        /\ \A k \in 0..m_max_size - 1 : k # m_back' => m_array'[k] = m_array[k]
    BY <1>2, <1>3 DEF QueueOK, Add
  <1>6. \A i \in 1..m_size : m_array'[Cell(m_front, i)] = m_array[Cell(m_front, i)]
    <2> SUFFICES ASSUME NEW i \in 1..m_size
                 PROVE  m_array'[Cell(m_front, i)] = m_array[Cell(m_front, i)]
      OBVIOUS
    <2>1. /\ i \in 1..m_max_size /\ m_size + 1 \in 1..m_max_size /\ i # m_size + 1
          /\ m_front \in -1..m_max_size - 1
      BY <1>1, Sizes DEF QueueOK
    <2>2. Cell(m_front, i) # Cell(m_front, m_size + 1) /\ Cell(m_front, i) \in 0..m_max_size - 1
      BY <2>1, CellsDiffer, CellIsMod
    <2>3. QED
      BY <2>2, <1>3, <1>5
  <1>7. \A i \in 1..m_size' : i \in 1..m_size \/ i = m_size + 1
    BY <1>1
  <1>8. \A i \in 1..m_size' : m_array'[Cell(m_front', i)] \in Items
    BY <1>1, <1>5, <1>6, <1>7 DEF QueueOK
  <1>9. QueueOK'
    BY <1>1, <1>2, <1>4, <1>5, <1>8, Sizes DEF QueueOK
  <1>10. \A i \in 1..m_size + 1 :
            Contents'[i] = IF i = m_size + 1 THEN x ELSE Contents[i]
    <2>1. \A i \in 1..m_size' : Contents'[i] = m_array'[Cell(m_front', i)]
      BY <1>9, ContentsSeqAfter
    <2>2. \A i \in 1..m_size : Contents[i] = m_array[Cell(m_front, i)]
      BY ContentsSeq
    <2>3. QED
      BY <2>1, <2>2, <1>1, <1>5, <1>6, <1>7
  <1>11. Contents' \in Seq(Items) /\ Len(Contents') = m_size + 1
    BY <1>1, <1>9, ContentsSeqAfter
  <1>12. /\ Contents \in Seq(Items) /\ Len(Contents) = m_size
         /\ Append(Contents, x) \in Seq(Items) /\ Len(Append(Contents, x)) = m_size + 1
         /\ \A i \in 1..m_size : Append(Contents, x)[i] = Contents[i]
         /\ Append(Contents, x)[m_size + 1] = x
    BY ContentsSeq, AppendProperties
  <1>13. \A i \in 1..Len(Contents') : Contents'[i] = Append(Contents, x)[i]
    BY <1>1, <1>7, <1>10, <1>11, <1>12
  <1>14. QED
    BY <1>9, <1>11, <1>12, <1>13, SeqEqual

(* pop() takes the oldest line.                                            *)
LEMMA PopTakesHead ==
  ASSUME QueueOK, NEW c \in Consumers, PopTakes(c)
  PROVE  /\ QueueOK'
         /\ Contents # <<>>
         /\ Contents' = Tail(Contents)
         /\ item' = [item EXCEPT ![c] = Head(Contents)]
         /\ Head(Contents) \in Items
  <1>1. /\ m_size \in Nat /\ m_size > 0 /\ m_size <= m_max_size /\ m_size' = m_size - 1
        /\ m_array' = m_array /\ m_back' = m_back /\ sleeping' = sleeping
    BY Sizes DEF QueueOK, PopTakes
  <1>2. m_front' = Cell(m_front, 1) /\ m_front' \in 0..m_max_size - 1
    BY Sizes, CellIsMod DEF QueueOK, PopTakes
  <1>3. \A i \in 1..m_size - 1 : Cell(m_front', i) = Cell(m_front, i + 1)
    BY <1>1, <1>2, Sizes DEF QueueOK, Cell
  <1>4. m_back' = m_front' + m_size' \/ m_back' = m_front' + m_size' - m_max_size
    BY <1>1, <1>2, Sizes DEF QueueOK, Cell
  <1>5. /\ Contents \in Seq(Items) /\ Len(Contents) = m_size
        /\ \A i \in 1..m_size : Contents[i] = m_array[Cell(m_front, i)]
    BY ContentsSeq
  <1>6. Contents # <<>>
    BY <1>1, <1>5, EmptySeq
  <1>7. Head(Contents) \in Items /\ Head(Contents) = Contents[1]
    BY <1>5, <1>6, HeadTailProperties
  <1>8. item' = [item EXCEPT ![c] = Head(Contents)]
    <2>1. 1 \in 1..m_size
      BY <1>1
    <2>2. Taken(c) = Contents[1]
      BY <1>2, <1>5, <2>1 DEF Taken
    <2>3. QED
      BY <2>2, <1>7 DEF PopTakes
  <1>9. \A i \in 1..m_size - 1 : i \in 1..m_size /\ i + 1 \in 1..m_size
    BY <1>1
  <1>10. \A i \in 1..m_size' : m_array'[Cell(m_front', i)] \in Items
    BY <1>1, <1>3, <1>9 DEF QueueOK
  <1>11. item' \in [Consumers -> Items \cup {NoItem}]
    BY <1>7, <1>8 DEF QueueOK
  <1>12. QueueOK'
    BY <1>1, <1>2, <1>4, <1>10, <1>11, Sizes DEF QueueOK
  <1>13. /\ Contents' \in Seq(Items) /\ Len(Contents') = m_size - 1
         /\ \A i \in 1..m_size - 1 : Contents'[i] = m_array[Cell(m_front', i)]
    BY <1>1, <1>12, ContentsSeqAfter
  <1>14. /\ Tail(Contents) \in Seq(Items) /\ Len(Tail(Contents)) = m_size - 1
         /\ \A i \in 1..m_size - 1 : Tail(Contents)[i] = Contents[i + 1]
    BY <1>5, <1>6, HeadTailProperties
  <1>15. \A i \in 1..m_size - 1 : Contents'[i] = Tail(Contents)[i]
    BY <1>3, <1>5, <1>9, <1>13, <1>14
  <1>16. QED
    BY <1>6, <1>7, <1>8, <1>12, <1>13, <1>14, <1>15, SeqEqual
-----------------------------------------------------------------------------
(* What leaves the queue alone keeps its invariant and its lines.          *)
LEMMA QueueStays ==
  ASSUME QueueOK, UNCHANGED queueVars
  PROVE  QueueOK' /\ Contents' = Contents /\ full' = full
  <1>1. /\ m_array' = m_array /\ m_size' = m_size /\ m_front' = m_front /\ m_back' = m_back
        /\ sleeping' = sleeping /\ item' = item
    BY DEF queueVars, arrayVars
  <1>2. Contents' = Contents /\ full' = full
    BY <1>1 DEF Contents, full
  <1>3. QueueOK'
    BY <1>1 DEF QueueOK, Cell
  <1>4. QED
    BY <1>2, <1>3

(* push() is called with room, takes the line and wakes whoever sleeps.    *)
LEMMA PushAdds ==
  ASSUME QInv, Push
  PROVE  /\ QueueOK' /\ Contents' = Append(Contents, log_str)
         /\ log_str \in Items
         /\ sleeping' = {} /\ item' = item
  <1>1. pc = "push" /\ ~full /\ push(log_str)
    BY DEF QInv, RoomToPush, Push
  <1>2. Add(log_str) /\ sleeping' = {} /\ UNCHANGED item
    BY <1>1 DEF push, Broadcast
  <1>3. m_count \in 1..MaxLines /\ mday \in 0..MaxDay
    BY <1>1, Sizes DEF QInv, LogOK, Busy
  <1>4. log_str \in Items
    BY <1>3, LogAssumption DEF log_str
  <1>5. QueueOK
    BY DEF QInv
  <1>6. QED
    BY <1>1, <1>2, <1>4, <1>5, AddAppends

(* The log begins with an empty queue.                                     *)
LEMMA QInit == Init => QInv
  <1> SUFFICES ASSUME Init
               PROVE  QInv
    OBVIOUS
  <1>1. QueueOK
    BY Sizes DEF Init, QueueInit, QueueOK
  <1>2. LogOK
    <2>1. today = 0 /\ m_today = today % DaysInMonth /\ 0 % DaysInMonth = 0
      BY Sizes DEF Init, DayOfMonth
    <2>2. QED
      BY <2>1, Sizes DEF Init, LogOK, Busy
  <1>3. RoomToPush /\ SleepsOnlyWhenEmpty
    BY DEF Init, QueueInit, RoomToPush, SleepsOnlyWhenEmpty
  <1>4. QED
    BY <1>1, <1>2, <1>3 DEF QInv

(* No step breaks the invariant of the queue and of write_log().           *)
LEMMA QNext == QInv /\ [Next]_vars => QInv'
  <1> SUFFICES ASSUME QInv, [Next]_vars
               PROVE  QInv'
    OBVIOUS
  <1> USE DEF QInv
  <1>1. CASE Stamp
    <2>1. QueueOK' /\ full' = full /\ SleepsOnlyWhenEmpty'
      BY <1>1, QueueStays DEF Stamp, SleepsOnlyWhenEmpty, queueVars, arrayVars
    <2>2. LogOK' /\ RoomToPush'
      BY <1>1, Sizes DEF Stamp, LogOK, RoomToPush, Busy
    <2>3. QED
      BY <2>1, <2>2
  <1>2. CASE Count
    <2>1. QueueOK' /\ full' = full /\ SleepsOnlyWhenEmpty'
      BY <1>2, QueueStays DEF Count, SleepsOnlyWhenEmpty, queueVars, arrayVars
    <2>2. m_fp'.day \in 0..mday
      BY <1>2, Sizes DEF Count, LogOK, FileOf
    <2>3. LogOK' /\ RoomToPush'
      BY <1>2, <2>2, Sizes DEF Count, LogOK, RoomToPush, Busy
    <2>4. QED
      BY <2>1, <2>3
  <1>3. CASE Route
    <2>1. QueueOK' /\ full' = full /\ SleepsOnlyWhenEmpty'
      BY <1>3, QueueStays DEF Route, SleepsOnlyWhenEmpty, queueVars, arrayVars
    <2>2. LogOK' /\ RoomToPush'
      BY <1>3, <2>1 DEF Route, Way, LogOK, RoomToPush, Busy
    <2>3. QED
      BY <2>1, <2>2
  <1>4. CASE Push
    <2>1. QueueOK' /\ SleepsOnlyWhenEmpty'
      BY <1>4, PushAdds DEF SleepsOnlyWhenEmpty
    <2>2. LogOK' /\ RoomToPush'
      BY <1>4 DEF Push, LogOK, RoomToPush, Busy
    <2>3. QED
      BY <2>1, <2>2
  <1>5. CASE Direct
    <2>1. QueueOK' /\ full' = full /\ SleepsOnlyWhenEmpty'
      BY <1>5, QueueStays DEF Direct, SleepsOnlyWhenEmpty, queueVars, arrayVars
    <2>2. LogOK' /\ RoomToPush'
      BY <1>5 DEF Direct, LogOK, RoomToPush, Busy
    <2>3. QED
      BY <2>1, <2>2
  <1>6. CASE Exit
    <2>1. QueueOK' /\ full' = full /\ SleepsOnlyWhenEmpty'
      BY <1>6, QueueStays DEF Exit, SleepsOnlyWhenEmpty, queueVars, arrayVars
    <2>2. LogOK' /\ RoomToPush'
      BY <1>6 DEF Exit, LogOK, RoomToPush, Busy
    <2>3. QED
      BY <2>1, <2>2
  <1>7. CASE Midnight
    <2>1. QueueOK' /\ full' = full /\ SleepsOnlyWhenEmpty'
      BY <1>7, QueueStays DEF Midnight, SleepsOnlyWhenEmpty, queueVars, arrayVars
    <2>2. LogOK' /\ RoomToPush'
      BY <1>7, <2>1, Sizes DEF Midnight, LogOK, RoomToPush, Busy
    <2>3. QED
      BY <2>1, <2>2
  <1>8. ASSUME NEW w \in Consumers, PopWaits(w), UNCHANGED logVars
        PROVE  QInv'
    <2>1. QueueOK' /\ SleepsOnlyWhenEmpty'
      BY <1>8, Sizes DEF PopWaits, QueueOK, Cell, SleepsOnlyWhenEmpty, arrayVars
    <2>2. LogOK' /\ RoomToPush'
      BY <1>8 DEF PopWaits, LogOK, RoomToPush, Busy, full, logVars, arrayVars
    <2>3. QED
      BY <2>1, <2>2
  <1>9. ASSUME NEW w \in Consumers, WakesByItself(w), UNCHANGED logVars
        PROVE  QInv'
    <2>1. QueueOK' /\ SleepsOnlyWhenEmpty'
      BY <1>9 DEF WakesByItself, QueueOK, Cell, SleepsOnlyWhenEmpty, arrayVars
    <2>2. LogOK' /\ RoomToPush'
      BY <1>9 DEF WakesByItself, LogOK, RoomToPush, Busy, full, logVars, arrayVars
    <2>3. QED
      BY <2>1, <2>2
  <1>10. ASSUME NEW w \in Consumers, PopTakes(w), UNCHANGED logVars
         PROVE  QInv'
    <2>1. QueueOK'
      BY <1>10, PopTakesHead
    <2>2. SleepsOnlyWhenEmpty' /\ (~full => ~full')
      BY <1>10, Sizes DEF PopTakes, SleepsOnlyWhenEmpty, QueueOK, full
    <2>3. LogOK' /\ RoomToPush'
      BY <1>10, <2>2 DEF LogOK, RoomToPush, Busy, logVars
    <2>4. QED
      BY <2>1, <2>2, <2>3
  <1>11. ASSUME NEW w \in Consumers, WriteItem(w)
         PROVE  QInv'
    <2>1. QueueOK' /\ SleepsOnlyWhenEmpty'
      BY <1>11 DEF WriteItem, QueueOK, Cell, SleepsOnlyWhenEmpty, arrayVars
    <2>2. LogOK' /\ RoomToPush'
      BY <1>11 DEF WriteItem, LogOK, RoomToPush, Busy, full, arrayVars
    <2>3. QED
      BY <2>1, <2>2
  <1>12. CASE UNCHANGED vars
    <2>1. QueueOK' /\ full' = full /\ SleepsOnlyWhenEmpty'
      BY <1>12, QueueStays DEF vars, SleepsOnlyWhenEmpty, queueVars, arrayVars
    <2>2. LogOK' /\ RoomToPush'
      BY <1>12, <2>1 DEF vars, logVars, LogOK, RoomToPush, Busy
    <2>3. QED
      BY <2>1, <2>2
  <1>13. QED
    BY <1>1, <1>2, <1>3, <1>4, <1>5, <1>6, <1>7, <1>8, <1>9, <1>10, <1>11, <1>12
       DEF Next, write_log, async_write_log, Pop, pop

(* The circular array is well-formed, and write_log() never calls push()   *)
(* with a full queue: no line is refused.                                  *)
THEOREM LogInvariant == Spec => []QInv
  <1>1. QED
    BY QInit, QNext, PTL DEF Spec

(* No wake-up is lost: the thread that writes sleeps over an empty queue   *)
(* only.                                                                   *)
THEOREM WriterSleepsWhenEmpty == Spec => []SleepsOnlyWhenEmpty
  <1>1. QInv => SleepsOnlyWhenEmpty
    BY DEF QInv
  <1>2. QED
    BY <1>1, LogInvariant, PTL
-----------------------------------------------------------------------------
(* The empty array is the empty queue.                                     *)
LEMMA QueueBegins == Init => LineQueue!Init
  <1> SUFFICES ASSUME Init
               PROVE  Contents = <<>> /\ item = [c \in Consumers |-> NoItem]
    BY DEF LineQueue!Init
  <1>1. m_size = 0 /\ QueueOK
    BY QInit DEF Init, QueueInit, QInv
  <1>2. Contents \in Seq(Items) /\ Len(Contents) = 0
    BY <1>1, ContentsSeq
  <1>3. Contents = <<>>
    BY <1>2, EmptySeq
  <1>4. QED
    BY <1>3 DEF Init, QueueInit

(* Every step of the log adds a line to the abstract queue, takes one from *)
(* it, is done with one, or leaves it alone.                               *)
LEMMA QueueSteps == QInv /\ [Next]_vars => [LineQueue!Next]_(LineQueue!vars)
  <1> SUFFICES ASSUME QInv, [Next]_vars
               PROVE  LineQueue!Next \/ (Contents' = Contents /\ item' = item)
    BY DEF LineQueue!vars
  <1>1. QueueOK
    BY DEF QInv
  <1>2. ASSUME UNCHANGED queueVars
        PROVE  Contents' = Contents /\ item' = item
    BY <1>1, <1>2, QueueStays DEF queueVars
  <1>3. CASE Push
    <2>1. /\ Contents' = Append(Contents, log_str) /\ log_str \in Items
          /\ item' = item
      BY <1>3, PushAdds
    <2>2. Len(Contents) = m_size /\ ~full
      BY <1>1, <1>3, ContentsSeq DEF QInv, RoomToPush, Push
    <2>3. Len(Contents) < m_max_size
      BY <2>2, <1>1, Sizes DEF full, QueueOK
    <2>4. LineQueue!Submit(log_str)
      BY <2>1, <2>3 DEF LineQueue!Submit
    <2>5. QED
      BY <2>1, <2>4 DEF LineQueue!Next
  <1>4. ASSUME NEW w \in Consumers, PopTakes(w)
        PROVE  LineQueue!Next
    <2>1. /\ Contents # <<>> /\ Contents' = Tail(Contents)
          /\ item' = [item EXCEPT ![w] = Head(Contents)]
      BY <1>1, <1>4, PopTakesHead
    <2>2. item[w] = NoItem
      BY <1>4 DEF PopTakes, InPop
    <2>3. LineQueue!Start(w)
      BY <2>1, <2>2 DEF LineQueue!Start
    <2>4. QED
      BY <2>3 DEF LineQueue!Next
  <1>5. ASSUME NEW w \in Consumers, WriteItem(w)
        PROVE  LineQueue!Next
    <2>1. Contents' = Contents
      BY <1>5 DEF WriteItem, arrayVars, Contents
    <2>2. LineQueue!Finish(w)
      BY <1>5, <2>1 DEF WriteItem, LineQueue!Finish
    <2>3. QED
      BY <2>2 DEF LineQueue!Next
  <1>6. ASSUME NEW w \in Consumers, PopWaits(w) \/ WakesByItself(w)
        PROVE  Contents' = Contents /\ item' = item
    BY <1>6 DEF PopWaits, WakesByItself, arrayVars, Contents
  <1>7. CASE Stamp \/ Count \/ Route \/ Direct \/ Exit \/ Midnight \/ UNCHANGED vars
    BY <1>7, <1>2 DEF Stamp, Count, Route, Direct, Exit, Midnight, vars
  <1>8. QED
    BY <1>3, <1>4, <1>5, <1>6, <1>7 DEF Next, write_log, async_write_log, Pop, pop

(* The circular array with its lock and its condition variable is the      *)
(* bounded first-in first-out queue, whatever its size.                    *)
THEOREM LogUsesAQueue == Spec => ImplementsLineQueue
  <1>1. QED
    BY QueueBegins, QueueSteps, LogInvariant, PTL
       DEF Spec, ImplementsLineQueue, LineQueue!Spec
-----------------------------------------------------------------------------
Written == [line : Items, way : {"queue", "direct"}, file : [day : Nat, part : Int]]

(* A line of the first month is never younger than the open file.          *)
Aged(line) == line.day < DaysInMonth => line.day <= m_fp.day

InDay ==
    /\ m_fp \in [day : Nat, part : Int]
    /\ written \in Seq(Written)
    /\ Busy /\ mday < DaysInMonth => m_fp.day = mday
    /\ \A i \in 1..m_size : Aged(Contents[i])
    /\ \A w \in Consumers : item[w] # NoItem => Aged(item[w])

DayInv == QInv /\ InDay /\ FileOfItsDay

(* The file keeps its promise when a line of the month is added to it.     *)
LEMMA FileGrows ==
  ASSUME written \in Seq(Written), m_fp \in [day : Nat, part : Int], FileOfItsDay,
         NEW line \in Items, NEW way \in {"queue", "direct"}, fputs(line, way),
         Aged(line),
         way = "direct" /\ line.day < DaysInMonth => m_fp.day = line.day
  PROVE  written' \in Seq(Written) /\ FileOfItsDay'
  <1> DEFINE r == [line |-> line, way |-> way, file |-> m_fp]
  <1>1. r \in Written /\ r.line = line /\ r.way = way /\ r.file = m_fp
    BY DEF Written
  <1>2. line.day \in Nat /\ m_fp.day \in Nat /\ DaysInMonth \in Nat
    BY LogAssumption, Sizes
  <1>3. written' = Append(written, r)
    BY DEF fputs
  <1> HIDE DEF r
  <1>4. /\ written' \in Seq(Written)
        /\ Len(written') = Len(written) + 1
        /\ \A i \in 1..Len(written) : written'[i] = written[i]
        /\ written'[Len(written) + 1] = r
    BY <1>1, <1>3, AppendProperties
  <1>5. /\ Len(written) \in Nat /\ DOMAIN written = 1..Len(written)
        /\ DOMAIN written' = 1..Len(written')
    BY <1>4, LenProperties
  <1>6. \A i \in DOMAIN written' : i \in DOMAIN written \/ i = Len(written) + 1
    BY <1>4, <1>5
  <1>7. ASSUME NEW i \in DOMAIN written', written'[i].line.day < DaysInMonth
        PROVE  /\ written'[i].file.day >= written'[i].line.day
               /\ written'[i].way = "direct" =>
                     written'[i].file.day = written'[i].line.day
    <2>1. CASE i \in DOMAIN written
      <3>1. written'[i] = written[i]
        BY <1>4, <1>5, <2>1
      <3>2. QED
        BY <1>7, <2>1, <3>1 DEF FileOfItsDay
    <2>2. CASE i = Len(written) + 1
      <3>1. written'[i] = r
        BY <1>4, <2>2
      <3>2. m_fp.day >= line.day
        BY <1>1, <1>2, <1>7, <3>1 DEF Aged
      <3>3. way = "direct" => m_fp.day = line.day
        BY <1>1, <1>7, <3>1
      <3>4. QED
        BY <1>1, <3>1, <3>2, <3>3
    <2>3. QED
      BY <1>6, <2>1, <2>2
  <1>8. QED
    BY <1>4, <1>7 DEF FileOfItsDay

(* With an empty queue and an empty file nothing is out of its day.        *)
LEMMA DayInit == Init => DayInv
  <1> SUFFICES ASSUME Init
               PROVE  DayInv
    OBVIOUS
  <1>1. QInv
    BY QInit
  <1>2. InDay
    BY EmptySeq DEF Init, QueueInit, InDay, Busy
  <1>3. FileOfItsDay
    BY DEF Init, FileOfItsDay
  <1>4. QED
    BY <1>1, <1>2, <1>3 DEF DayInv

(* The lines on their way stay no younger than the file, if the file only  *)
(* goes on to later days.                                                  *)
LEMMA StillAged ==
  ASSUME DayInv, QInv', m_fp'.day \in Nat, m_fp'.day >= m_fp.day,
         Contents' = Contents, UNCHANGED <<m_size, item>>
  PROVE  /\ \A i \in 1..m_size' : Aged(Contents[i])'
         /\ \A w \in Consumers : item'[w] # NoItem => Aged(item[w])'
  <1>1. \A x \in Items : Aged(x) => (x.day < DaysInMonth => x.day <= m_fp'.day)
    <2>1. \A x \in Items : x.day \in Nat
      BY LogAssumption
    <2>2. m_fp.day \in Nat /\ DaysInMonth \in Nat
      BY Sizes DEF DayInv, InDay
    <2>3. QED
      BY <2>1, <2>2 DEF Aged
  <1>2. \A i \in 1..m_size : Contents[i] \in Items
    BY ContentsSeq, ElementOfSeq DEF DayInv, QInv
  <1>3. \A w \in Consumers : item[w] # NoItem => item[w] \in Items
    BY DEF DayInv, QInv, QueueOK
  <1>4. QED
    BY <1>1, <1>2, <1>3 DEF DayInv, InDay, Aged

(* No step takes a line to a file older than its day.                      *)
LEMMA DayNext == DayInv /\ [Next]_vars => DayInv'
  <1> SUFFICES ASSUME DayInv, [Next]_vars
               PROVE  InDay' /\ FileOfItsDay'
    BY QNext DEF DayInv
  <1>1. QInv /\ QInv' /\ QueueOK /\ LogOK /\ LogOK'
    BY QNext DEF DayInv, QInv
  <1>2. /\ m_fp \in [day : Nat, part : Int] /\ m_fp.day \in Nat
        /\ written \in Seq(Written) /\ FileOfItsDay
    BY DEF DayInv, InDay
  <1>3. ASSUME UNCHANGED <<queueVars, m_fp, written>>, Busy' => Busy /\ mday' = mday
        PROVE  InDay' /\ FileOfItsDay'
    <2>1. Contents' = Contents /\ UNCHANGED <<m_size, item>>
      BY <1>1, <1>3, QueueStays DEF queueVars, arrayVars
    <2>2. /\ \A i \in 1..m_size' : Aged(Contents[i])'
          /\ \A w \in Consumers : item'[w] # NoItem => Aged(item[w])'
      BY <1>1, <1>2, <1>3, <2>1, StillAged
    <2>3. Busy' /\ mday' < DaysInMonth => m_fp'.day = mday'
      BY <1>3 DEF DayInv, InDay
    <2>4. FileOfItsDay'
      BY <1>2, <1>3 DEF FileOfItsDay
    <2>5. QED
      BY <1>2, <1>3, <2>2, <2>3, <2>4 DEF InDay
  <1>4. CASE Stamp \/ Route \/ Exit \/ Midnight \/ UNCHANGED vars
    <2>1. UNCHANGED <<queueVars, m_fp, written>>
      BY <1>4 DEF Stamp, Route, Exit, Midnight, vars, logVars
    <2>2. Busy' => Busy /\ mday' = mday
      BY <1>4 DEF Stamp, Route, Way, Exit, Midnight, vars, logVars, Busy
    <2>3. QED
      BY <1>3, <2>1, <2>2
  <1>5. CASE Count
    <2>1. /\ Contents' = Contents /\ UNCHANGED <<m_size, item, written>>
          /\ mday' = mday /\ m_count' = m_count + 1
      BY <1>1, <1>5, QueueStays DEF Count, queueVars, arrayVars
    <2>2. mday \in Nat /\ m_fp.day \in 0..mday /\ m_count' \in Nat
      BY <1>1, <2>1, Sizes DEF LogOK
    <2>3. m_fp' = m_fp \/ m_fp' = FileOf(m_count')
      BY <1>5 DEF Count
    <2>4. m_count' \div m_split_lines \in Int
      BY <2>2, Sizes
    <2>5. FileOf(m_count') \in [day : Nat, part : Int] /\ FileOf(m_count').day = mday
      BY <2>1, <2>2, <2>4 DEF FileOf
    <2>6. m_fp' \in [day : Nat, part : Int] /\ m_fp'.day \in Nat /\ m_fp'.day >= m_fp.day
      BY <1>2, <2>2, <2>3, <2>5
    <2>7. /\ \A i \in 1..m_size' : Aged(Contents[i])'
          /\ \A w \in Consumers : item'[w] # NoItem => Aged(item[w])'
      BY <1>1, <2>1, <2>6, StillAged
    <2>8. ASSUME mday < DaysInMonth
          PROVE  m_fp'.day = mday
      <3>1. mday % DaysInMonth = mday
        BY <2>2, <2>8, Sizes
      <3>2. CASE mday = 0
        BY <2>2, <2>3, <2>5, <3>2
      <3>3. CASE mday # 0
        <4>1. OtherDay
          BY <1>1, <3>1, <3>3 DEF OtherDay, DayOfMonth, LogOK
        <4>2. m_fp' = FileOf(m_count')
          BY <1>5, <4>1 DEF Count, Reopens
        <4>3. QED
          BY <2>5, <4>2
      <3>4. QED
        BY <3>2, <3>3
    <2>9. FileOfItsDay'
      BY <1>2, <2>1 DEF FileOfItsDay
    <2>10. QED
      BY <1>2, <2>1, <2>6, <2>7, <2>8, <2>9 DEF InDay
  <1>6. ASSUME Push \/ Direct
        PROVE  /\ log_str \in Items /\ log_str.day = mday /\ Aged(log_str)
               /\ mday < DaysInMonth => m_fp.day = mday
    <2>1. Busy /\ m_count \in 1..MaxLines /\ mday \in 0..MaxDay
      BY <1>1, <1>6, Sizes DEF Push, Direct, Busy, LogOK
    <2>2. log_str \in Items /\ log_str.day = mday
      BY <2>1, LogAssumption DEF log_str
    <2>3. mday < DaysInMonth => m_fp.day = mday
      BY <2>1 DEF DayInv, InDay
    <2>4. Aged(log_str)
      BY <1>2, <2>2, <2>3 DEF Aged
    <2>5. QED
      BY <2>2, <2>3, <2>4
  <1>7. CASE Push
    <2>1. /\ Contents' = Append(Contents, log_str) /\ item' = item
          /\ UNCHANGED <<m_fp, written, mday>> /\ ~Busy'
          /\ m_size' = Len(Contents')
      BY <1>1, <1>7, PushAdds, ContentsSeqAfter DEF Push, Busy
    <2>2. /\ Contents \in Seq(Items) /\ Len(Contents) = m_size /\ m_size \in Nat
          /\ Len(Contents') = m_size + 1
          /\ \A i \in 1..m_size : Contents'[i] = Contents[i]
          /\ Contents'[m_size + 1] = log_str
      BY <1>1, <1>6, <1>7, <2>1, ContentsSeq, AppendProperties, Sizes DEF QueueOK
    <2>3. \A i \in 1..m_size' : i \in 1..m_size \/ i = m_size + 1
      BY <2>1, <2>2
    <2>4. \A x \in Items : Aged(x) => Aged(x)'
      BY <2>1 DEF Aged
    <2>5. \A i \in 1..m_size : Aged(Contents[i]) /\ Contents[i] \in Items
      BY <2>2, ElementOfSeq DEF DayInv, InDay
    <2>6. \A i \in 1..m_size' : Aged(Contents[i])'
      BY <1>6, <1>7, <2>1, <2>2, <2>3, <2>5 DEF Aged
    <2>7. \A w \in Consumers : item'[w] # NoItem => Aged(item[w])'
      BY <2>1 DEF DayInv, InDay, Aged
    <2>8. FileOfItsDay'
      BY <1>2, <2>1 DEF FileOfItsDay
    <2>9. QED
      BY <1>2, <2>1, <2>6, <2>7, <2>8 DEF InDay
  <1>8. ASSUME UNCHANGED <<m_array, m_size, m_front, m_back, m_fp>>
        PROVE  /\ Contents' = Contents /\ m_size' = m_size
               /\ \A i \in 1..m_size' : Aged(Contents[i])'
    <2>1. Contents' = Contents /\ m_size' = m_size
      BY <1>8 DEF Contents
    <2>2. QED
      BY <1>8, <2>1 DEF DayInv, InDay, Aged
  <1>9. CASE Direct
    <2>1. /\ fputs(log_str, "direct") /\ UNCHANGED <<m_fp, item, mday>> /\ ~Busy'
          /\ UNCHANGED <<m_array, m_size, m_front, m_back>>
      BY <1>9 DEF Direct, Busy, queueVars, arrayVars
    <2>2. written' \in Seq(Written) /\ FileOfItsDay'
      BY <1>2, <1>6, <1>9, <2>1, FileGrows
    <2>3. \A w \in Consumers : item'[w] # NoItem => Aged(item[w])'
      BY <2>1 DEF DayInv, InDay, Aged
    <2>4. QED
      BY <1>2, <1>8, <2>1, <2>2, <2>3 DEF InDay
  <1>10. ASSUME NEW w \in Consumers, PopWaits(w) \/ WakesByItself(w), UNCHANGED logVars
         PROVE  InDay' /\ FileOfItsDay'
    <2>1. UNCHANGED <<m_array, m_size, m_front, m_back, item, m_fp, written, mday, pc>>
      BY <1>10 DEF PopWaits, WakesByItself, arrayVars, logVars
    <2>2. \A c \in Consumers : item'[c] # NoItem => Aged(item[c])'
      BY <2>1 DEF DayInv, InDay, Aged
    <2>3. Busy' /\ mday' < DaysInMonth => m_fp'.day = mday'
      BY <2>1 DEF DayInv, InDay, Busy
    <2>4. FileOfItsDay'
      BY <1>2, <2>1 DEF FileOfItsDay
    <2>5. QED
      BY <1>2, <1>8, <2>1, <2>2, <2>3, <2>4 DEF InDay
  <1>11. ASSUME NEW w \in Consumers, PopTakes(w), UNCHANGED logVars
         PROVE  InDay' /\ FileOfItsDay'
    <2>1. UNCHANGED <<m_fp, written, mday, pc>>
      BY <1>11 DEF logVars
    <2>2. /\ Contents # <<>> /\ Contents' = Tail(Contents)
          /\ item' = [item EXCEPT ![w] = Head(Contents)]
      BY <1>1, <1>11, PopTakesHead
    <2>3. /\ Contents \in Seq(Items) /\ Len(Contents) = m_size /\ m_size \in Nat
          /\ m_size' = m_size - 1 /\ m_size > 0
      BY <1>1, <1>11, ContentsSeq, Sizes DEF QueueOK, PopTakes
    <2>4. /\ Head(Contents) = Contents[1]
          /\ \A i \in 1..m_size - 1 : Contents'[i] = Contents[i + 1]
      BY <2>2, <2>3, HeadTailProperties
    <2>5. 1 \in 1..m_size /\ \A i \in 1..m_size' : i \in 1..m_size - 1 /\ i + 1 \in 1..m_size
      BY <2>3
    <2>6. \A i \in 1..m_size : Aged(Contents[i])
      BY DEF DayInv, InDay
    <2>7. \A i \in 1..m_size' : Aged(Contents[i])'
      BY <2>1, <2>4, <2>5, <2>6 DEF Aged
    <2>8. \A c \in Consumers : item'[c] # NoItem => Aged(item[c])'
      <3> SUFFICES ASSUME NEW c \in Consumers, item'[c] # NoItem
                   PROVE  Aged(item[c])'
        OBVIOUS
      <3>1. item'[c] = IF c = w THEN Contents[1] ELSE item[c]
        BY <1>1, <2>2, <2>4 DEF QueueOK
      <3>2. CASE c = w
        BY <2>1, <2>5, <2>6, <3>1, <3>2 DEF Aged
      <3>3. CASE c # w
        BY <2>1, <3>1, <3>3 DEF DayInv, InDay, Aged
      <3>4. QED
        BY <3>2, <3>3
    <2>9. Busy' /\ mday' < DaysInMonth => m_fp'.day = mday'
      BY <2>1 DEF DayInv, InDay, Busy
    <2>10. FileOfItsDay'
      BY <1>2, <2>1 DEF FileOfItsDay
    <2>11. QED
      BY <1>2, <2>1, <2>7, <2>8, <2>9, <2>10 DEF InDay
  <1>12. ASSUME NEW w \in Consumers, WriteItem(w)
         PROVE  InDay' /\ FileOfItsDay'
    <2>1. /\ item[w] # NoItem /\ fputs(item[w], "queue")
          /\ item' = [item EXCEPT ![w] = NoItem]
          /\ UNCHANGED <<m_array, m_size, m_front, m_back, m_fp, mday, pc>>
      BY <1>12 DEF WriteItem, arrayVars
    <2>2. item[w] \in Items /\ Aged(item[w])
      BY <1>1, <2>1 DEF QueueOK, DayInv, InDay
    <2>3. written' \in Seq(Written) /\ FileOfItsDay'
      BY <1>2, <2>1, <2>2, FileGrows
    <2>4. \A c \in Consumers : item'[c] # NoItem => item'[c] = item[c]
      BY <1>1, <2>1 DEF QueueOK
    <2>5. \A c \in Consumers : item'[c] # NoItem => Aged(item[c])'
      BY <2>1, <2>4 DEF DayInv, InDay, Aged
    <2>6. Busy' /\ mday' < DaysInMonth => m_fp'.day = mday'
      BY <2>1 DEF DayInv, InDay, Busy
    <2>7. QED
      BY <1>2, <1>8, <2>1, <2>3, <2>5, <2>6 DEF InDay
  <1>13. QED
    BY <1>4, <1>5, <1>7, <1>9, <1>10, <1>11, <1>12
       DEF Next, write_log, async_write_log, Pop, pop

(* In its first month the log puts every line in the file of its day, or,  *)
(* if it waited in the queue, in a later one, for every length of queue.   *)
THEOREM LinesAreInTheirFiles == Spec => []FileOfItsDay
  <1>1. DayInv => FileOfItsDay
    BY DEF DayInv
  <1>2. QED
    BY <1>1, DayInit, DayNext, PTL DEF Spec
-----------------------------------------------------------------------------
(* Where a line can be: in the queue, with the thread that writes, still   *)
(* with write_log(), or in a file.                                         *)
Queued == NumbersIn(Contents)
InHand == {item[w].no : w \in {c \in Consumers : item[c] # NoItem}}
Given  == IF Busy THEN {m_count} ELSE {}

(* Every line there was is in one of the four places.                      *)
Apart ==
    /\ InFile \cup Queued \cup InHand \cup Given = 1..m_count
    /\ InFile \cap Queued = {} /\ InFile \cap InHand = {} /\ InFile \cap Given = {}
    /\ Queued \cap InHand = {} /\ Queued \cap Given = {} /\ InHand \cap Given = {}

OneEach == \A i, j \in 1..m_size : Contents[i].no = Contents[j].no => i = j

Counted == Len(written) = Cardinality(InFile) /\ m_size = Cardinality(Queued)

OnceInv == DayInv /\ Apart /\ OneEach /\ Counted

(* The numbers of a longer sequence of lines.                              *)
LEMMA NumbersAppend ==
  ASSUME NEW s \in Seq(Items), NEW x \in Items
  PROVE  NumbersIn(Append(s, x)) = NumbersIn(s) \cup {x.no}
  <1> DEFINE t == Append(s, x)
  <1>1. /\ t \in Seq(Items) /\ Len(t) = Len(s) + 1 /\ t[Len(s) + 1] = x
        /\ \A i \in 1..Len(s) : t[i] = s[i]
    BY AppendProperties
  <1> HIDE DEF t
  <1>2. Len(s) \in Nat /\ DOMAIN s = 1..Len(s) /\ DOMAIN t = 1..Len(t)
    BY <1>1, LenProperties
  <1>3. /\ \A i \in DOMAIN t : i \in DOMAIN s \/ i = Len(s) + 1
        /\ Len(s) + 1 \in DOMAIN t
        /\ \A i \in DOMAIN s : i \in DOMAIN t
    BY <1>1, <1>2
  <1>4. NumbersIn(t) = NumbersIn(s) \cup {x.no}
    BY <1>1, <1>2, <1>3 DEF NumbersIn
  <1>5. QED
    BY <1>4 DEF t

(* The numbers of what is left when the first line is taken.               *)
LEMMA NumbersTail ==
  ASSUME NEW s \in Seq(Items), s # <<>>,
         \A i, j \in DOMAIN s : s[i].no = s[j].no => i = j
  PROVE  /\ NumbersIn(Tail(s)) = NumbersIn(s) \ {Head(s).no}
         /\ Head(s).no \in NumbersIn(s)
         /\ \A i, j \in DOMAIN Tail(s) : Tail(s)[i].no = Tail(s)[j].no => i = j
  <1> DEFINE t == Tail(s)
  <1>1. /\ t \in Seq(Items) /\ Len(t) = Len(s) - 1 /\ Head(s) = s[1]
        /\ \A i \in 1..Len(t) : t[i] = s[i + 1]
    BY HeadTailProperties
  <1> HIDE DEF t
  <1>2. /\ Len(s) \in Nat \ {0} /\ DOMAIN s = 1..Len(s) /\ DOMAIN t = 1..Len(t)
    BY <1>1, EmptySeq, LenProperties
  <1>3. /\ 1 \in DOMAIN s
        /\ \A i \in DOMAIN t : i + 1 \in DOMAIN s /\ i + 1 # 1 /\ t[i] = s[i + 1]
        /\ \A i, j \in DOMAIN t : i + 1 = j + 1 => i = j
    BY <1>1, <1>2
  <1>4. \A i \in DOMAIN s : i = 1 \/ (i - 1 \in DOMAIN t /\ t[i - 1] = s[i])
    BY <1>1, <1>2
  <1>5. \A i, j \in DOMAIN t : t[i].no = t[j].no => i = j
    BY <1>3
  <1>6. NumbersIn(t) \subseteq NumbersIn(s) \ {s[1].no}
    BY <1>3 DEF NumbersIn
  <1>7. NumbersIn(s) \ {s[1].no} \subseteq NumbersIn(t)
    BY <1>4 DEF NumbersIn
  <1>8. s[1].no \in NumbersIn(s)
    BY <1>3 DEF NumbersIn
  <1>9. QED
    BY <1>1, <1>5, <1>6, <1>7, <1>8 DEF t

(* The numbers of the file when a line is added to it.                     *)
LEMMA FileAppends ==
  ASSUME written \in Seq(Written), m_fp \in [day : Nat, part : Int],
         NEW line \in Items, NEW way \in {"queue", "direct"}, fputs(line, way)
  PROVE  InFile' = InFile \cup {line.no} /\ Len(written') = Len(written) + 1
  <1> DEFINE r == [line |-> line, way |-> way, file |-> m_fp]
  <1>1. r \in Written /\ r.line = line /\ written' = Append(written, r)
    BY DEF Written, fputs
  <1> HIDE DEF r
  <1>2. /\ written' \in Seq(Written)
        /\ Len(written') = Len(written) + 1
        /\ \A i \in 1..Len(written) : written'[i] = written[i]
        /\ written'[Len(written) + 1] = r
    BY <1>1, AppendProperties
  <1>3. /\ Len(written) \in Nat /\ DOMAIN written = 1..Len(written)
        /\ DOMAIN written' = 1..Len(written')
    BY <1>2, LenProperties
  <1>4. /\ \A i \in DOMAIN written' : i \in DOMAIN written \/ i = Len(written) + 1
        /\ Len(written) + 1 \in DOMAIN written'
        /\ \A i \in DOMAIN written : i \in DOMAIN written'
    BY <1>2, <1>3
  <1>5. InFile' = InFile \cup {line.no}
    BY <1>1, <1>2, <1>3, <1>4 DEF InFile
  <1>6. QED
    BY <1>2, <1>5

(* There are no lines yet.                                                 *)
LEMMA OnceInit == Init => OnceInv
  <1> SUFFICES ASSUME Init
               PROVE  OnceInv
    OBVIOUS
  <1>1. DayInv /\ QueueOK /\ m_size = 0 /\ m_count = 0 /\ written = <<>>
    BY DayInit DEF Init, QueueInit, DayInv, QInv
  <1>2. DOMAIN Contents = 1..0 /\ 1..0 = {}
    BY <1>1, ContentsSeq
  <1>3. DOMAIN written = {} /\ Len(written) = 0
    BY <1>1, EmptySeq
  <1>4. Queued = {} /\ InFile = {} /\ InHand = {} /\ Given = {}
    BY <1>2, <1>3 DEF Queued, NumbersIn, InFile, InHand, Given, Busy, Init, QueueInit
  <1>5. Apart
    BY <1>1, <1>2, <1>4 DEF Apart
  <1>6. Counted
    BY <1>1, <1>3, <1>4, FS_EmptySet DEF Counted
  <1>7. OneEach
    BY <1>1, <1>2 DEF OneEach
  <1>8. QED
    BY <1>1, <1>5, <1>6, <1>7 DEF OnceInv

(* No step loses a line or doubles one.                                    *)
LEMMA OnceNext == OnceInv /\ [Next]_vars => OnceInv'
  <1> SUFFICES ASSUME OnceInv, [Next]_vars
               PROVE  Apart' /\ OneEach' /\ Counted'
    BY DayNext DEF OnceInv
  <1>1. QInv /\ QInv' /\ QueueOK /\ QueueOK' /\ LogOK
    BY QNext DEF OnceInv, DayInv, QInv
  <1>2. /\ m_fp \in [day : Nat, part : Int] /\ written \in Seq(Written)
        /\ Len(written) \in Nat /\ m_size \in Nat /\ m_count \in Nat
    BY <1>1, Sizes, LenProperties DEF OnceInv, DayInv, InDay, QueueOK, LogOK
  <1>3. Apart /\ OneEach /\ Counted
    BY DEF OnceInv
  <1>4. IsFiniteSet(InFile) /\ IsFiniteSet(Queued)
    <2>1. InFile \in SUBSET (1..m_count) /\ Queued \in SUBSET (1..m_count)
      BY <1>3 DEF Apart
    <2>2. IsFiniteSet(1..m_count)
      BY <1>2, FS_Interval
    <2>3. QED
      BY <2>1, <2>2, FS_Subset
  <1>5. ASSUME UNCHANGED <<m_array, m_size, m_front>>
        PROVE  Contents' = Contents /\ Queued' = Queued /\ OneEach'
    <2>1. Contents' = Contents /\ m_size' = m_size
      BY <1>5 DEF Contents
    <2>2. QED
      BY <1>3, <2>1 DEF Queued, NumbersIn, OneEach
  <1>6. ASSUME UNCHANGED queueVars
        PROVE  Queued' = Queued /\ InHand' = InHand /\ OneEach' /\ m_size' = m_size
    <2>1. UNCHANGED <<m_array, m_size, m_front, item>>
      BY <1>6 DEF queueVars, arrayVars
    <2>2. QED
      BY <1>5, <2>1 DEF InHand
  <1>7. CASE Stamp \/ Route \/ Exit \/ Midnight \/ UNCHANGED vars
    <2>1. UNCHANGED <<queueVars, written, m_count>> /\ Busy' = Busy
      BY <1>7 DEF Stamp, Route, Way, Exit, Midnight, vars, logVars, Busy
    <2>2. InFile' = InFile /\ Given' = Given
      BY <2>1 DEF InFile, Given
    <2>3. QED
      BY <1>3, <1>6, <2>1, <2>2 DEF Apart, Counted
  <1>8. CASE Count
    <2>1. UNCHANGED <<queueVars, written>> /\ m_count' = m_count + 1 /\ ~Busy /\ Busy'
      BY <1>8 DEF Count, Busy
    <2>2. /\ InFile' = InFile /\ Given = {} /\ Given' = {m_count + 1}
      BY <2>1 DEF InFile, Given
    <2>3. 1..m_count' = 1..m_count \cup {m_count + 1} /\ m_count + 1 \notin 1..m_count
      BY <1>2, <2>1
    <2>4. Apart'
      BY <1>3, <1>6, <2>1, <2>2, <2>3 DEF Apart
    <2>5. QED
      BY <1>3, <1>6, <2>1, <2>2, <2>4 DEF Counted
  <1>9. ASSUME Push \/ Direct
        PROVE  /\ log_str \in Items /\ log_str.no = m_count
               /\ Given = {m_count} /\ Given' = {} /\ m_count' = m_count
    <2>1. Busy /\ ~Busy' /\ m_count' = m_count
      BY <1>9 DEF Push, Direct, Busy
    <2>2. m_count \in 1..MaxLines /\ mday \in 0..MaxDay
      BY <1>1, <2>1, Sizes DEF LogOK
    <2>3. log_str \in Items /\ log_str.no = m_count
      BY <2>2, LogAssumption DEF log_str
    <2>4. QED
      BY <2>1, <2>3 DEF Given
  <1>10. CASE Push
    <2>1. /\ Contents' = Append(Contents, log_str) /\ item' = item /\ written' = written
          /\ m_count \notin Queued
      BY <1>1, <1>3, <1>9, <1>10, PushAdds DEF Push, Apart
    <2>2. /\ Contents \in Seq(Items) /\ Len(Contents) = m_size /\ DOMAIN Contents = 1..m_size
          /\ m_size' = Len(Contents')
      BY <1>1, ContentsSeq, ContentsSeqAfter
    <2>3. /\ Len(Contents') = m_size + 1
          /\ \A i \in 1..m_size : Contents'[i] = Contents[i]
          /\ Contents'[m_size + 1] = log_str
      BY <1>9, <1>10, <2>1, <2>2, AppendProperties
    <2>4. Queued' = Queued \cup {m_count}
      BY <1>9, <1>10, <2>1, <2>2, NumbersAppend DEF Queued, NumbersIn
    <2>5. InHand' = InHand /\ InFile' = InFile
      BY <2>1 DEF InHand, InFile
    <2>6. Apart'
      BY <1>3, <1>9, <1>10, <2>4, <2>5 DEF Apart
    <2>7. Cardinality(Queued') = m_size + 1
      BY <1>3, <1>4, <2>1, <2>4, FS_AddElement DEF Counted
    <2>8. Counted'
      BY <1>3, <2>1, <2>2, <2>3, <2>5, <2>7 DEF Counted
    <2>9. \A i \in 1..m_size : Contents[i].no # m_count
      BY <2>1, <2>2 DEF Queued, NumbersIn
    <2>10. \A i \in 1..m_size' : i \in 1..m_size \/ i = m_size + 1
      BY <1>2, <2>2, <2>3
    <2>11. OneEach'
      BY <1>3, <1>9, <1>10, <2>3, <2>9, <2>10 DEF OneEach
    <2>12. QED
      BY <2>6, <2>8, <2>11
  <1>11. ASSUME NEW line \in Items, NEW way \in {"queue", "direct"}, fputs(line, way),
                line.no \notin InFile
         PROVE  /\ InFile' = InFile \cup {line.no}
                /\ Len(written') = Cardinality(InFile')
    <2>1. InFile' = InFile \cup {line.no} /\ Len(written') = Len(written) + 1
      BY <1>2, <1>11, FileAppends
    <2>2. Cardinality(InFile') = Cardinality(InFile) + 1
      BY <1>4, <1>11, <2>1, FS_AddElement
    <2>3. QED
      BY <1>3, <2>1, <2>2 DEF Counted
  <1>12. CASE Direct
    <2>1. fputs(log_str, "direct") /\ UNCHANGED queueVars /\ log_str.no \notin InFile
      BY <1>3, <1>9, <1>12 DEF Direct, Apart
    <2>2. InFile' = InFile \cup {m_count} /\ Len(written') = Cardinality(InFile')
      BY <1>9, <1>11, <1>12, <2>1
    <2>3. Apart'
      BY <1>3, <1>6, <1>9, <1>12, <2>1, <2>2 DEF Apart
    <2>4. QED
      BY <1>3, <1>6, <2>1, <2>2, <2>3 DEF Counted
  <1>13. ASSUME NEW w \in Consumers, PopWaits(w) \/ WakesByItself(w), UNCHANGED logVars
         PROVE  Apart' /\ OneEach' /\ Counted'
    <2>1. UNCHANGED <<m_array, m_size, m_front, item, written, m_count, pc>>
      BY <1>13 DEF PopWaits, WakesByItself, arrayVars, logVars
    <2>2. InHand' = InHand /\ InFile' = InFile /\ Given' = Given
      BY <2>1 DEF InHand, InFile, Given, Busy
    <2>3. QED
      BY <1>3, <1>5, <2>1, <2>2 DEF Apart, Counted
  <1>14. ASSUME NEW w \in Consumers, PopTakes(w), UNCHANGED logVars
         PROVE  Apart' /\ OneEach' /\ Counted'
    <2>1. /\ Contents # <<>> /\ Contents' = Tail(Contents)
          /\ item' = [item EXCEPT ![w] = Head(Contents)] /\ Head(Contents) \in Items
          /\ item[w] = NoItem /\ m_size' = m_size - 1
          /\ UNCHANGED <<written, m_count, pc>>
      BY <1>1, <1>14, PopTakesHead DEF PopTakes, InPop, logVars
    <2>2. /\ Contents \in Seq(Items) /\ DOMAIN Contents = 1..m_size
          /\ DOMAIN Contents' = 1..m_size'
      BY <1>1, ContentsSeq, ContentsSeqAfter
    <2> DEFINE h == Head(Contents).no
    <2>3. /\ Queued' = Queued \ {h} /\ h \in Queued
          /\ \A i, j \in DOMAIN Contents' : Contents'[i].no = Contents'[j].no => i = j
      <3>1. \A i, j \in DOMAIN Contents : Contents[i].no = Contents[j].no => i = j
        BY <1>3, <2>2 DEF OneEach
      <3>2. /\ NumbersIn(Contents') = NumbersIn(Contents) \ {h} /\ h \in NumbersIn(Contents)
            /\ \A i, j \in DOMAIN Contents' : Contents'[i].no = Contents'[j].no => i = j
        BY <2>1, <2>2, <3>1, NumbersTail
      <3>3. Queued' = NumbersIn(Contents')
        BY DEF Queued, NumbersIn
      <3>4. QED
        BY <3>2, <3>3 DEF Queued
    <2>4. \A c \in Consumers : c = w
      BY LogAssumption
    <2>5. InHand = {} /\ InHand' = {h}
      <3>1. item'[w] = Head(Contents) /\ item'[w] # NoItem
        BY <1>1, <2>1, Sizes DEF QueueOK
      <3>2. InHand = {}
        BY <2>1, <2>4 DEF InHand
      <3>3. InHand' = {h}
        BY <2>4, <3>1 DEF InHand
      <3>4. QED
        BY <3>2, <3>3
    <2>6. InFile' = InFile /\ Given' = Given
      BY <2>1 DEF InFile, Given, Busy
    <2> HIDE DEF h
    <2>7. Apart'
      BY <1>3, <2>1, <2>3, <2>5, <2>6 DEF Apart
    <2>8. Cardinality(Queued') = m_size - 1
      BY <1>3, <1>4, <2>3, FS_RemoveElement DEF Counted
    <2>9. Counted'
      BY <1>3, <2>1, <2>6, <2>8 DEF Counted
    <2>10. OneEach'
      BY <2>2, <2>3 DEF OneEach
    <2>11. QED
      BY <2>7, <2>9, <2>10
  <1>15. ASSUME NEW w \in Consumers, WriteItem(w)
         PROVE  Apart' /\ OneEach' /\ Counted'
    <2>1. /\ item[w] # NoItem /\ fputs(item[w], "queue")
          /\ item' = [item EXCEPT ![w] = NoItem]
          /\ UNCHANGED <<m_array, m_size, m_front, m_count, pc>>
      BY <1>15 DEF WriteItem, arrayVars
    <2>2. \A c \in Consumers : c = w
      BY LogAssumption
    <2>3. item[w] \in Items /\ item'[w] = NoItem
      BY <1>1, <2>1 DEF QueueOK
    <2> DEFINE n == item[w].no
    <2>4. InHand = {n} /\ InHand' = {}
      BY <2>1, <2>2, <2>3 DEF InHand
    <2>5. Given' = Given
      BY <2>1 DEF Given, Busy
    <2> HIDE DEF n
    <2>6. n \notin InFile
      BY <1>3, <2>4 DEF Apart
    <2>7. InFile' = InFile \cup {n} /\ Len(written') = Cardinality(InFile')
      BY <1>11, <2>1, <2>3, <2>6 DEF n
    <2>8. Apart'
      BY <1>3, <1>5, <2>1, <2>4, <2>5, <2>7 DEF Apart
    <2>9. QED
      BY <1>3, <1>5, <2>1, <2>7, <2>8 DEF Counted
  <1>16. QED
    BY <1>7, <1>8, <1>10, <1>12, <1>13, <1>14, <1>15
       DEF Next, write_log, async_write_log, Pop, pop

(* No line is lost, refused or written twice, for every length of queue    *)
(* and however the two threads take turns.                                 *)
THEOREM LinesAreWrittenOnce == Spec => []EachLineOnce
  <1>1. OnceInv => EachLineOnce
    <2> SUFFICES ASSUME OnceInv
                 PROVE  EachLineOnce
      OBVIOUS
    <2>1. OnTheWay = Queued \cup InHand \cup Given
      BY DEF OnTheWay, Queued, InHand, Given, Busy
    <2>2. Apart /\ Counted
      BY DEF OnceInv
    <2>3. QED
      BY <2>1, <2>2 DEF Apart, Counted, EachLineOnce, Queued
  <1>2. QED
    BY <1>1, OnceInit, OnceNext, PTL DEF Spec
-----------------------------------------------------------------------------
(***************************************************************************)
(* The order of the file.  What overtakes is written by main() itself, so  *)
(* all it leaves behind is the queue and the line in the other thread's    *)
(* hand; and as these come in order, nothing else overtakes.  The room for *)
(* what is still to be overtaken is bounded together with what was.        *)
(***************************************************************************)
Later(s, i) == {j \in i + 1..Len(s) : s[j].line.no < s[i].line.no}

Below(S, n) == {k \in S : k < n}

InOrder ==
    /\ \A i, j \in 1..m_size : i < j => Contents[i].no < Contents[j].no
    /\ \A n \in InHand, k \in Queued : n < k

QueueFollows ==
    \A i \in DOMAIN written : written[i].way = "queue" =>
        \A n \in Queued \cup InHand : written[i].line.no < n

DirectOvertakes ==
    \A i \in DOMAIN written : \A j \in Later(written, i) :
        written[i].way = "direct" /\ written[j].way = "queue"

FewOvertaken ==
    \A i \in DOMAIN written :
        Cardinality(Later(written, i)) + Cardinality(Below(Queued \cup InHand, written[i].line.no))
            <= m_max_size + 1

OrderInv == OnceInv /\ InOrder /\ QueueFollows /\ DirectOvertakes /\ FewOvertaken

(* The numbers that are on their way are finitely many, at most as many as *)
(* the queue holds and one.                                                *)
LEMMA FewOnTheWay ==
  ASSUME OnceInv
  PROVE  /\ IsFiniteSet(Queued \cup InHand)
         /\ Cardinality(Queued \cup InHand) <= m_max_size + 1
         /\ Queued \cup InHand \subseteq Nat
         /\ Queued \cup InHand \cup InFile \subseteq 1..m_count
         /\ \A g \in Given : g = m_count /\ g \notin Queued \cup InHand \cup InFile
  <1>1. QueueOK /\ LogOK /\ Apart /\ Counted
    BY DEF OnceInv, DayInv, QInv
  <1>2. m_count \in Nat /\ m_size \in Nat /\ m_size <= m_max_size
    BY <1>1, Sizes DEF QueueOK, LogOK
  <1>3. Queued \cup InHand \cup InFile \subseteq 1..m_count
    BY <1>1 DEF Apart
  <1>4. IsFiniteSet(1..m_count)
    BY <1>2, FS_Interval
  <1>5. IsFiniteSet(Queued) /\ IsFiniteSet(Queued \cup InHand)
    <2>1. Queued \in SUBSET (1..m_count) /\ Queued \cup InHand \in SUBSET (1..m_count)
      BY <1>3
    <2>2. QED
      BY <1>4, <2>1, FS_Subset
  <1>6. Cardinality(Queued \cup InHand) <= m_size + 1
    <2>1. CASE InHand = {}
      BY <1>1, <1>2, <2>1 DEF Counted
    <2>2. CASE InHand # {}
      <3>1. PICK n : InHand = {n}
        <4>1. \A c, d \in Consumers : c = d
          BY LogAssumption
        <4>2. QED
          BY <2>2, <4>1 DEF InHand
      <3>2. QED
        BY <1>1, <1>2, <1>5, <3>1, FS_AddElement DEF Counted
    <2>3. QED
      BY <2>1, <2>2
  <1>7. Cardinality(Queued \cup InHand) \in Nat
    BY <1>5, FS_CardinalityType
  <1>8. \A g \in Given : g = m_count /\ g \notin Queued \cup InHand \cup InFile
    BY <1>1 DEF Apart, Given
  <1>9. QED
    BY <1>2, <1>3, <1>5, <1>6, <1>7, <1>8, Sizes

(* A line that is added to the file is overtaken by those with a greater   *)
(* number, and has overtaken nothing yet.                                  *)
LEMMA LaterAppend ==
  ASSUME NEW s \in Seq(Written), NEW r \in Written
  PROVE  LET t == Append(s, r) IN
         /\ DOMAIN s = 1..Len(s) /\ DOMAIN t = 1..Len(s) + 1 /\ Len(s) \in Nat
         /\ \A i \in DOMAIN s :
              /\ t[i] = s[i]
              /\ IsFiniteSet(Later(s, i)) /\ Len(s) + 1 \notin Later(s, i)
              /\ Later(t, i) = IF r.line.no < s[i].line.no
                               THEN Later(s, i) \cup {Len(s) + 1} ELSE Later(s, i)
         /\ t[Len(s) + 1] = r
         /\ Later(t, Len(s) + 1) = {}
  <1> DEFINE t == Append(s, r)
  <1>1. /\ t \in Seq(Written) /\ Len(t) = Len(s) + 1 /\ t[Len(s) + 1] = r
        /\ \A i \in 1..Len(s) : t[i] = s[i]
    BY AppendProperties
  <1> HIDE DEF t
  <1>2. DOMAIN s = 1..Len(s) /\ DOMAIN t = 1..Len(s) + 1 /\ Len(s) \in Nat
    BY <1>1, LenProperties
  <1>3. ASSUME NEW i \in DOMAIN s
        PROVE  /\ IsFiniteSet(Later(s, i)) /\ Len(s) + 1 \notin Later(s, i)
               /\ Later(t, i) = IF r.line.no < s[i].line.no
                                THEN Later(s, i) \cup {Len(s) + 1} ELSE Later(s, i)
    <2>1. i \in 1..Len(s) /\ t[i] = s[i]
      BY <1>1, <1>2
    <2>2. i + 1..Len(t) = (i + 1..Len(s)) \cup {Len(s) + 1}
      BY <1>1, <1>2, <2>1
    <2>3. \A j \in i + 1..Len(s) : t[j] = s[j] /\ j # Len(s) + 1
      BY <1>1, <1>2, <2>1
    <2>4. IsFiniteSet(i + 1..Len(s))
      BY <1>2, <2>1, FS_Interval
    <2>5. IsFiniteSet(Later(s, i))
      BY <2>4, FS_Subset DEF Later
    <2>6. Later(t, i) = IF r.line.no < s[i].line.no
                        THEN Later(s, i) \cup {Len(s) + 1} ELSE Later(s, i)
      BY <1>1, <2>1, <2>2, <2>3 DEF Later
    <2>7. QED
      BY <2>3, <2>5, <2>6 DEF Later
  <1>4. Later(t, Len(s) + 1) = {}
    BY <1>1, <1>2 DEF Later
  <1>5. QED
    BY <1>1, <1>2, <1>3, <1>4 DEF t

(* The initial state.                                                      *)
LEMMA OrderInit == Init => OrderInv
  <1> SUFFICES ASSUME Init PROVE OrderInv
    OBVIOUS
  <1>1. OnceInv /\ DOMAIN written = {} /\ m_size = 0
    BY OnceInit, EmptySeq DEF Init, QueueInit
  <1>2. InHand = {}
    BY DEF Init, QueueInit, InHand
  <1>3. QED
    BY <1>1, <1>2 DEF OrderInv, InOrder, QueueFollows, DirectOvertakes, FewOvertaken

(* Steps after which the same lines are in the same places.                *)
LEMMA OrderStays ==
  ASSUME OrderInv, UNCHANGED <<written, m_size, Contents, Queued, InHand>>
  PROVE  InOrder' /\ QueueFollows' /\ DirectOvertakes' /\ FewOvertaken'
  BY DEF OrderInv, InOrder, QueueFollows, DirectOvertakes, FewOvertaken

(* push() adds the newest line.                                            *)
LEMMA OrderPush ==
  ASSUME OrderInv, OnceInv', Push
  PROVE  InOrder' /\ QueueFollows' /\ DirectOvertakes' /\ FewOvertaken'
  <1>1. QInv /\ OnceInv /\ QueueOK /\ QueueOK'
    BY DEF OrderInv, OnceInv, DayInv, QInv
  <1>2. /\ Contents' = Append(Contents, log_str) /\ log_str \in Items
        /\ log_str.no = m_count /\ item' = item /\ written' = written
        /\ Given = {m_count}
    BY <1>1, PushAdds DEF Push, log_str, Given, Busy
  <1>3. /\ Contents \in Seq(Items) /\ Len(Contents) = m_size /\ DOMAIN Contents = 1..m_size
        /\ m_size \in Nat /\ m_size' = Len(Contents')
        /\ DOMAIN Contents' = 1..m_size'
    <2>1. m_size \in Nat
      BY <1>1, Sizes DEF QueueOK
    <2>2. QED
      BY <1>1, <2>1, ContentsSeq, ContentsSeqAfter
  <1>4. /\ m_size' = m_size + 1
        /\ \A i \in 1..m_size : Contents'[i] = Contents[i]
        /\ Contents'[m_size + 1] = log_str
    BY <1>2, <1>3, AppendProperties
  <1>5. Queued' = Queued \cup {m_count} /\ InHand' = InHand
    BY <1>2, <1>3, NumbersAppend DEF Queued, NumbersIn, InHand
  <1>6. m_count \in Nat /\ \A n \in Queued \cup InHand \cup InFile : n < m_count
    BY <1>1, <1>2, FewOnTheWay, Sizes DEF QInv, LogOK
  <1>7. InOrder'
    <2>1. \A i \in 1..m_size : Contents[i].no < m_count
      BY <1>3, <1>6 DEF Queued, NumbersIn
    <2>2. \A i \in 1..m_size' : i \in 1..m_size \/ i = m_size + 1
      BY <1>3, <1>4
    <2>3. \A i, j \in 1..m_size' : i < j => Contents'[i].no < Contents'[j].no
      BY <1>2, <1>3, <1>4, <2>1, <2>2 DEF OrderInv, InOrder
    <2>4. QED
      BY <1>5, <1>6, <2>3 DEF OrderInv, InOrder
  <1>8. \A i \in DOMAIN written : written[i].line.no \in InFile
    BY DEF InFile
  <1>9. QueueFollows'
    BY <1>2, <1>5, <1>6, <1>8 DEF OrderInv, QueueFollows
  <1>10. DirectOvertakes'
    BY <1>2 DEF OrderInv, DirectOvertakes, Later
  <1>11. FewOvertaken'
    <2>1. \A n \in InFile : ~(m_count < n)
      BY <1>1, <1>6, FewOnTheWay
    <2>2. \A i \in DOMAIN written : Below(Queued' \cup InHand', written[i].line.no)
                                      = Below(Queued \cup InHand, written[i].line.no)
      BY <1>5, <1>8, <2>1 DEF Below
    <2>3. QED
      BY <1>2, <2>2 DEF OrderInv, FewOvertaken
  <1>12. QED
    BY <1>7, <1>9, <1>10, <1>11

(* main() writes the newest line, and overtakes what is on its way.        *)
LEMMA OrderDirect ==
  ASSUME OrderInv, Direct
  PROVE  InOrder' /\ QueueFollows' /\ DirectOvertakes' /\ FewOvertaken'
  <1> DEFINE r == [line |-> log_str, way |-> "direct", file |-> m_fp]
             L == Len(written)
  <1>1. /\ OnceInv /\ LogOK /\ written \in Seq(Written) /\ r \in Written
        /\ Given = {m_count} /\ r.line.no = m_count /\ r.way = "direct"
    <2>1. /\ OnceInv /\ LogOK /\ written \in Seq(Written)
          /\ m_fp \in [day : Nat, part : Int]
      BY DEF OrderInv, OnceInv, DayInv, QInv, InDay
    <2>2. m_count \in 1..MaxLines /\ mday \in 0..MaxDay /\ Busy
      BY <2>1, Sizes DEF LogOK, Direct, Busy
    <2>3. log_str \in Items /\ log_str.no = m_count
      BY <2>2, LogAssumption DEF log_str
    <2>4. QED
      BY <2>1, <2>2, <2>3 DEF Written, Given
  <1>2. written' = Append(written, r) /\ UNCHANGED queueVars
    BY DEF Direct, fputs
  <1> HIDE DEF r
  <1>3. UNCHANGED <<m_size, Contents, Queued, InHand>>
    BY <1>2 DEF queueVars, arrayVars, Queued, NumbersIn, InHand, Contents
  <1>4. /\ DOMAIN written = 1..L /\ DOMAIN written' = 1..L + 1 /\ L \in Nat
        /\ \A i \in DOMAIN written :
              /\ written'[i] = written[i]
              /\ Later(written', i) = IF r.line.no < written[i].line.no
                                      THEN Later(written, i) \cup {L + 1}
                                      ELSE Later(written, i)
        /\ written'[L + 1] = r
        /\ Later(written', L + 1) = {}
    BY <1>1, <1>2, LaterAppend
  <1>5. m_count \in Nat /\ \A n \in Queued \cup InHand \cup InFile : n \in Nat /\ n < m_count
    BY <1>1, FewOnTheWay, Sizes DEF LogOK
  <1>6. \A i \in DOMAIN written : Later(written', i) = Later(written, i)
    <2>1. \A i \in DOMAIN written : written[i].line.no \in InFile
      BY DEF InFile
    <2>2. QED
      BY <1>1, <1>4, <1>5, <2>1
  <1>7. \A i \in DOMAIN written' : i \in DOMAIN written \/ i = L + 1
    BY <1>4
  <1>8. InOrder'
    BY <1>3 DEF OrderInv, InOrder
  <1>9. QueueFollows'
    BY <1>1, <1>3, <1>4, <1>7 DEF OrderInv, QueueFollows
  <1>10. DirectOvertakes'
    <2>1. \A i \in DOMAIN written : \A j \in Later(written, i) : j \in DOMAIN written
      BY <1>4 DEF Later
    <2>2. QED
      BY <1>4, <1>6, <1>7, <2>1 DEF OrderInv, DirectOvertakes
  <1>11. FewOvertaken'
    <2> DEFINE B == Below(Queued \cup InHand, m_count)
    <2>1. \A i \in DOMAIN written :
             Cardinality(Later(written', i))
               + Cardinality(Below(Queued' \cup InHand', written'[i].line.no)) <= m_max_size + 1
      BY <1>3, <1>4, <1>6 DEF OrderInv, FewOvertaken
    <2>2. Cardinality(Later(written', L + 1)) = 0
      BY <1>4, FS_EmptySet
    <2>3. Cardinality(B) <= m_max_size + 1 /\ Cardinality(B) \in Nat
      <3>1. /\ IsFiniteSet(Queued \cup InHand)
            /\ Cardinality(Queued \cup InHand) <= m_max_size + 1
            /\ B \subseteq Queued \cup InHand
        BY <1>1, FewOnTheWay DEF Below
      <3>2. Cardinality(B) <= Cardinality(Queued \cup InHand) /\ IsFiniteSet(B)
        BY <3>1, FS_Subset
      <3>3. Cardinality(B) \in Nat /\ Cardinality(Queued \cup InHand) \in Nat
        BY <3>1, <3>2, FS_CardinalityType
      <3>4. QED
        BY <3>1, <3>2, <3>3, Sizes
    <2>4. Below(Queued' \cup InHand', written'[L + 1].line.no) = B
      BY <1>1, <1>3, <1>4
    <2> HIDE DEF B
    <2>5. Cardinality(Later(written', L + 1))
            + Cardinality(Below(Queued' \cup InHand', written'[L + 1].line.no)) <= m_max_size + 1
      BY <2>2, <2>3, <2>4
    <2>6. QED
      BY <1>7, <2>1, <2>5 DEF FewOvertaken
  <1>12. QED
    BY <1>8, <1>9, <1>10, <1>11

(* pop() moves the oldest line of the queue to the other thread's hand.    *)
LEMMA OrderPop ==
  ASSUME OrderInv, NEW w \in Consumers, PopTakes(w), UNCHANGED logVars
  PROVE  InOrder' /\ QueueFollows' /\ DirectOvertakes' /\ FewOvertaken'
  <1>1. QueueOK /\ OneEach
    BY DEF OrderInv, OnceInv, DayInv, QInv
  <1>2. /\ QueueOK' /\ Contents # <<>> /\ Contents' = Tail(Contents)
        /\ item' = [item EXCEPT ![w] = Head(Contents)] /\ Head(Contents) \in Items
        /\ item[w] = NoItem /\ m_size' = m_size - 1 /\ written' = written
    BY <1>1, PopTakesHead DEF PopTakes, InPop, logVars
  <1>3. /\ Contents \in Seq(Items) /\ DOMAIN Contents = 1..m_size /\ Len(Contents) = m_size
        /\ m_size \in Nat
    <2>1. m_size \in Nat
      BY <1>1, Sizes DEF QueueOK
    <2>2. QED
      BY <1>1, <2>1, ContentsSeq
  <1> DEFINE h == Head(Contents).no
  <1>4. /\ h = Contents[1].no
        /\ \A i \in 1..m_size - 1 : Contents'[i] = Contents[i + 1]
    BY <1>2, <1>3, HeadTailProperties
  <1>5. Queued' = Queued \ {h} /\ h \in Queued
    <2>1. \A i, j \in DOMAIN Contents : Contents[i].no = Contents[j].no => i = j
      BY <1>1, <1>3 DEF OneEach
    <2>2. NumbersIn(Tail(Contents)) = NumbersIn(Contents) \ {h} /\ h \in NumbersIn(Contents)
      BY <1>2, <1>3, <2>1, NumbersTail
    <2>3. Queued' = NumbersIn(Tail(Contents))
      BY <1>2 DEF Queued, NumbersIn
    <2>4. QED
      BY <2>2, <2>3 DEF Queued
  <1>6. InHand = {} /\ InHand' = {h}
    <2>1. \A c \in Consumers : c = w
      BY LogAssumption
    <2>2. item'[w] = Head(Contents) /\ item'[w] # NoItem
      BY <1>1, <1>2, Sizes DEF QueueOK
    <2>3. QED
      BY <1>2, <2>1, <2>2 DEF InHand
  <1>7. Queued' \cup InHand' = Queued \cup InHand
    BY <1>5, <1>6
  <1>8. InOrder'
    <2>1. \A i \in 1..m_size - 1 : i + 1 \in 1..m_size /\ 1 \in 1..m_size /\ 1 < i + 1
      BY <1>3
    <2>2. \A i, j \in 1..m_size - 1 : i < j => i + 1 < j + 1
      BY <1>3
    <2>3. \A i, j \in 1..m_size' : i < j => Contents'[i].no < Contents'[j].no
      BY <1>2, <1>4, <2>1, <2>2 DEF OrderInv, InOrder
    <2>4. \A k \in Queued' : \E i \in 1..m_size : i # 1 /\ k = Contents[i].no
      BY <1>3, <1>4, <1>5 DEF Queued, NumbersIn
    <2>5. \A i \in 1..m_size : i # 1 => 1 < i /\ 1 \in 1..m_size
      BY <1>3
    <2>6. \A k \in Queued' : h < k
      BY <1>4, <2>4, <2>5 DEF OrderInv, InOrder
    <2>7. QED
      BY <1>6, <2>3, <2>6 DEF InOrder
  <1> HIDE DEF h
  <1>9. QueueFollows'
    BY <1>2, <1>7 DEF OrderInv, QueueFollows
  <1>10. DirectOvertakes'
    BY <1>2 DEF OrderInv, DirectOvertakes, Later
  <1>11. FewOvertaken'
    BY <1>2, <1>7 DEF OrderInv, FewOvertaken
  <1>12. QED
    BY <1>8, <1>9, <1>10, <1>11

(* The other thread writes the oldest of the lines that are on their way,  *)
(* which those that went past it have now overtaken.                       *)
LEMMA OrderWrite ==
  ASSUME OrderInv, NEW w \in Consumers, WriteItem(w)
  PROVE  InOrder' /\ QueueFollows' /\ DirectOvertakes' /\ FewOvertaken'
  <1> DEFINE r == [line |-> item[w], way |-> "queue", file |-> m_fp]
             n == item[w].no
             L == Len(written)
  <1>1. /\ OnceInv /\ QueueOK /\ Apart /\ written \in Seq(Written)
        /\ m_fp \in [day : Nat, part : Int]
    BY DEF OrderInv, OnceInv, DayInv, QInv, InDay
  <1>2. /\ item[w] # NoItem /\ written' = Append(written, r)
        /\ item' = [item EXCEPT ![w] = NoItem]
        /\ UNCHANGED <<m_array, m_size, m_front, m_count, pc>>
    BY DEF WriteItem, fputs, arrayVars
  <1>3. item[w] \in Items /\ item'[w] = NoItem
    BY <1>1, <1>2 DEF QueueOK
  <1>4. r \in Written /\ r.line.no = n /\ r.way = "queue"
    BY <1>1, <1>3 DEF Written
  <1>5. InHand = {n} /\ InHand' = {}
    <2>1. \A c \in Consumers : c = w
      BY LogAssumption
    <2>2. QED
      BY <1>2, <1>3, <2>1 DEF InHand
  <1>6. Contents' = Contents /\ Queued' = Queued
    BY <1>2 DEF Contents, Queued, NumbersIn
  <1> HIDE DEF r, n
  <1>7. /\ DOMAIN written = 1..L /\ DOMAIN written' = 1..L + 1 /\ L \in Nat
        /\ \A i \in DOMAIN written :
              /\ written'[i] = written[i]
              /\ IsFiniteSet(Later(written, i)) /\ L + 1 \notin Later(written, i)
              /\ Later(written', i) = IF r.line.no < written[i].line.no
                                      THEN Later(written, i) \cup {L + 1}
                                      ELSE Later(written, i)
        /\ written'[L + 1] = r
        /\ Later(written', L + 1) = {}
    BY <1>1, <1>2, <1>4, LaterAppend
  <1>8. \A i \in DOMAIN written' : i \in DOMAIN written \/ i = L + 1
    BY <1>7
  <1>9. n \in Nat /\ n \notin Queued /\ (\A k \in Queued : k \in Nat /\ n < k)
    BY <1>1, <1>5, FewOnTheWay DEF Apart, OrderInv, InOrder
  <1>10. InOrder'
    BY <1>2, <1>5, <1>6 DEF OrderInv, InOrder
  <1>11. QueueFollows'
    BY <1>4, <1>5, <1>6, <1>7, <1>8, <1>9 DEF OrderInv, QueueFollows
  <1>12. \A i \in DOMAIN written : written[i].line.no \in Nat
    BY <1>1, FewOnTheWay DEF InFile
  <1>13. DirectOvertakes'
    <2>1. ASSUME NEW i \in DOMAIN written, NEW j \in Later(written', i)
          PROVE  written[i].way = "direct" /\ written'[j].way = "queue"
      <3>1. CASE j \in Later(written, i)
        <4>1. j \in DOMAIN written
          BY <1>7, <3>1 DEF Later
        <4>2. QED
          BY <1>7, <3>1, <4>1 DEF OrderInv, DirectOvertakes
      <3>2. CASE j \notin Later(written, i)
        <4>1. j = L + 1 /\ n < written[i].line.no
          BY <1>4, <1>7, <2>1, <3>2
        <4>2. written[i].way # "queue"
          BY <1>5, <1>9, <1>12, <4>1 DEF OrderInv, QueueFollows
        <4>3. written[i] \in Written
          BY <1>1, <1>7
        <4>4. QED
          BY <1>4, <1>7, <4>1, <4>2, <4>3 DEF Written
      <3>3. QED
        BY <3>1, <3>2
    <2>2. QED
      BY <1>7, <1>8, <2>1 DEF DirectOvertakes
  <1>14. FewOvertaken'
    <2>1. ASSUME NEW i \in DOMAIN written
          PROVE  Cardinality(Later(written', i)) + Cardinality(Below(Queued, written[i].line.no))
                    <= m_max_size + 1
      <3> DEFINE old == Below(Queued \cup InHand, written[i].line.no)
                 new == Below(Queued, written[i].line.no)
      <3>1. Cardinality(Later(written, i)) + Cardinality(old) <= m_max_size + 1
        BY DEF OrderInv, FewOvertaken
      <3>2. IsFiniteSet(old)
        <4>1. old \subseteq Queued \cup InHand
          BY DEF Below
        <4>2. QED
          BY <1>1, <4>1, FewOnTheWay, FS_Subset
      <3>3. /\ Cardinality(Later(written, i)) \in Nat /\ Cardinality(old) \in Nat
            /\ m_max_size \in Nat
        BY <1>7, <3>2, FS_CardinalityType, Sizes
      <3>4. CASE n < written[i].line.no
        <4>1. n \in old /\ new = old \ {n}
          BY <1>5, <1>9, <3>4 DEF Below
        <4> HIDE DEF old, new
        <4>2. Cardinality(new) = Cardinality(old) - 1
          BY <3>2, <4>1, FS_RemoveElement
        <4>3. Cardinality(Later(written', i)) = Cardinality(Later(written, i)) + 1
          BY <1>4, <1>7, <3>4, FS_AddElement
        <4>4. Cardinality(Later(written', i)) + Cardinality(new) <= m_max_size + 1
          BY <3>1, <3>3, <4>2, <4>3
        <4>5. QED
          BY <4>4 DEF new
      <3>5. CASE ~(n < written[i].line.no)
        <4>1. new = old /\ Later(written', i) = Later(written, i)
          BY <1>4, <1>5, <1>7, <3>5 DEF Below
        <4>2. QED
          BY <3>1, <4>1
      <3>6. QED
        BY <3>4, <3>5
    <2>2. Below(Queued, n) = {}
      BY <1>9 DEF Below
    <2>3. Cardinality(Later(written', L + 1)) + Cardinality(Below(Queued, n)) <= m_max_size + 1
      <3>1. Cardinality(Later(written', L + 1)) = 0
        BY <1>7, FS_EmptySet
      <3>2. Cardinality(Below(Queued, n)) = 0
        BY <2>2, FS_EmptySet
      <3>3. QED
        BY <3>1, <3>2, Sizes
    <2>4. Queued' \cup InHand' = Queued
      BY <1>5, <1>6
    <2>5. QED
      BY <1>4, <1>7, <1>8, <2>1, <2>3, <2>4 DEF FewOvertaken
  <1>15. QED
    BY <1>10, <1>11, <1>13, <1>14

(* Every step keeps the order.                                             *)
LEMMA OrderNext == OrderInv /\ [Next]_vars => OrderInv'
  <1> SUFFICES ASSUME OrderInv, [Next]_vars
               PROVE  InOrder' /\ QueueFollows' /\ DirectOvertakes' /\ FewOvertaken'
    BY OnceNext DEF OrderInv
  <1>1. OnceInv'
    BY OnceNext DEF OrderInv
  <1>2. CASE Stamp \/ Count \/ Route \/ Exit \/ Midnight \/ UNCHANGED vars
    <2>1. UNCHANGED <<queueVars, written>>
      BY <1>2 DEF Stamp, Count, Route, Exit, Midnight, vars, logVars
    <2>2. UNCHANGED <<m_size, Contents, Queued, InHand>>
      BY <2>1 DEF queueVars, arrayVars, Contents, Queued, NumbersIn, InHand
    <2>3. QED
      BY <2>1, <2>2, OrderStays
  <1>3. CASE Push \/ Direct
    BY <1>1, <1>3, OrderPush, OrderDirect
  <1>4. ASSUME NEW w \in Consumers, Pop(w)
        PROVE  InOrder' /\ QueueFollows' /\ DirectOvertakes' /\ FewOvertaken'
    <2>1. CASE PopTakes(w)
      BY <1>4, <2>1, OrderPop DEF Pop
    <2>2. CASE PopWaits(w) \/ WakesByItself(w)
      <3>1. UNCHANGED <<m_array, m_size, m_front, item, written>>
        BY <1>4, <2>2 DEF Pop, PopWaits, WakesByItself, arrayVars, logVars
      <3>2. UNCHANGED <<Contents, Queued, InHand>>
        BY <3>1 DEF Contents, Queued, NumbersIn, InHand
      <3>3. QED
        BY <3>1, <3>2, OrderStays
    <2>3. QED
      BY <1>4, <2>1, <2>2 DEF Pop, pop
  <1>5. ASSUME NEW w \in Consumers, WriteItem(w)
        PROVE  InOrder' /\ QueueFollows' /\ DirectOvertakes' /\ FewOvertaken'
    BY <1>5, OrderWrite
  <1>6. QED
    BY <1>2, <1>3, <1>4, <1>5 DEF Next, write_log, async_write_log

(* A line is out of order only by lines that waited in the queue when it   *)
(* found it full.                                                          *)
THEOREM OnlyTheQueueIsOvertaken == Spec => []OvertakesOnlyTheQueue
  <1>1. OrderInv => OvertakesOnlyTheQueue
    <2> SUFFICES ASSUME OrderInv, NEW i \in DOMAIN written
                 PROVE  /\ Cardinality(Overtaken(i)) <= m_max_size + 1
                        /\ Overtaken(i) # {} => written[i].way = "direct"
                        /\ \A j \in Overtaken(i) : written[j].way = "queue"
      BY DEF OvertakesOnlyTheQueue
    <2>1. Overtaken(i) = Later(written, i)
      BY DEF Overtaken, Later
    <2> DEFINE B == Below(Queued \cup InHand, written[i].line.no)
    <2>2. /\ IsFiniteSet(Queued \cup InHand) /\ B \subseteq Queued \cup InHand
          /\ written \in Seq(Written)
      BY FewOnTheWay DEF OrderInv, Below, OnceInv, DayInv, InDay
    <2>3. Cardinality(B) \in Nat
      BY <2>2, FS_Subset, FS_CardinalityType
    <2>4. Cardinality(Later(written, i)) \in Nat
      <3>1. i \in Nat /\ Len(written) \in Nat
        BY <2>2, LenProperties
      <3>2. IsFiniteSet(i + 1..Len(written))
        BY <3>1, FS_Interval
      <3>3. IsFiniteSet(Later(written, i))
        BY <3>2, FS_Subset DEF Later
      <3>4. QED
        BY <3>3, FS_CardinalityType
    <2>5. Cardinality(Later(written, i)) + Cardinality(B) <= m_max_size + 1
      BY DEF OrderInv, FewOvertaken
    <2> HIDE DEF B
    <2>6. Cardinality(Later(written, i)) <= m_max_size + 1
      BY <2>3, <2>4, <2>5, Sizes
    <2>7. QED
      BY <2>1, <2>6 DEF OrderInv, DirectOvertakes
  <1>2. QED
    BY <1>1, OrderInit, OrderNext, PTL DEF Spec
=============================================================================
