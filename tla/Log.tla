-------------------------------- MODULE Log --------------------------------
(***************************************************************************)
(* Log (log/log.cpp, log/log.h), asynchronous as main() sets it up: a line *)
(* goes through the block_queue to a thread that writes it, or, when the   *)
(* queue is full, directly to the file.  All macros are used by main()     *)
(* alone, so write_log() has one caller and that thread beside it.         *)
(*                                                                         *)
(* A line is its number and the day of its time stamp, a file the day and  *)
(* the part in its name.  The sections under m_mutex are one step each;    *)
(* the one that formats into m_buf has no other effect than the line.      *)
(***************************************************************************)
EXTENDS BlockQueue

CONSTANTS m_split_lines,
          DaysInMonth,    (* all months are taken to be as long            *)
          MaxLines,       (* bounds: lines and days of a behaviour         *)
          MaxDay

ASSUME LogAssumption ==
    /\ Consumers # {} /\ \A w, c \in Consumers : w = c    \* init() creates one
    /\ m_split_lines \in Nat \ {0} /\ DaysInMonth \in Nat \ {0}
    /\ MaxLines \in Nat /\ MaxDay \in Nat
    /\ Items = [no : 1..MaxLines, day : 0..MaxDay]

VARIABLES today,          (* what localtime() says: days since init()      *)
          m_today,
          m_count,
          m_fp,           (* the open file                                 *)
          written,        (* history: the lines in the order of fputs()    *)
          pc,             (* where main() is in write_log()                *)
          mday            (* my_tm of the call                             *)

logVars == <<today, m_today, m_count, m_fp, written, pc, mday>>
vars == <<queueVars, logVars>>

(* tm_mday, all that the code looks at.                                     *)
DayOfMonth(d) == d % DaysInMonth

Init ==
    /\ QueueInit
    /\ today = 0 /\ m_today = DayOfMonth(today)
    /\ m_count = 0
    /\ m_fp = [day |-> 0, part |-> 0]
    /\ written = <<>>
    /\ pc = "idle" /\ mday = 0

(* log_str: the line of the call that is running.                          *)
log_str == [no |-> m_count, day |-> mday]
-----------------------------------------------------------------------------
(***************************************************************************)
(* Seeded faults: plausible mistakes in the code below, each checked to be *)
(* caught by one of the properties at the end of the module.  They are not *)
(* part of the specification.                                              *)
(***************************************************************************)
ReopensByCountOnly(n) == n % m_split_lines = 0    (* the day is forgotten  *)

RouteByPush == "push"         (* full() is not asked                       *)
-----------------------------------------------------------------------------
(* gettimeofday() and localtime().                                         *)
Stamp ==
    /\ pc = "idle" /\ m_count < MaxLines
    /\ mday' = today
    /\ pc' = "count"
    /\ UNCHANGED <<queueVars, today, m_today, m_count, m_fp, written>>

(* Nobody updates m_today, so from the second day on every line opens the  *)
(* file of its day again, but on the same day of the next months.          *)
OtherDay == m_today # DayOfMonth(mday)

Reopens(n) == OtherDay \/ n % m_split_lines = 0

FileOf(n) ==
    [day |-> mday, part |-> IF OtherDay THEN 0 ELSE n \div m_split_lines]

Count ==
    /\ pc = "count"
    /\ m_count' = m_count + 1
    /\ m_fp' = IF Reopens(m_count') THEN FileOf(m_count') ELSE m_fp
    /\ pc' = "route"
    /\ UNCHANGED <<queueVars, today, m_today, written, mday>>

Way == IF full THEN "direct" ELSE "push"

Route ==
    /\ pc = "route"
    /\ pc' = Way
    /\ UNCHANGED <<queueVars, today, m_today, m_count, m_fp, written, mday>>

(* Nobody looks at whether push() took the line.                            *)
Push ==
    /\ pc = "push"
    /\ push(log_str)
    /\ pc' = "idle"
    /\ UNCHANGED <<today, m_today, m_count, m_fp, written, mday>>

fputs(line, way) == written' = Append(written, [line |-> line, way |-> way, file |-> m_fp])

Direct ==
    /\ pc = "direct"
    /\ fputs(log_str, "direct")
    /\ pc' = "idle"
    /\ UNCHANGED <<queueVars, today, m_today, m_count, m_fp, mday>>

(* async_write_log(): the loop of the thread created by init().            *)
Pop(w) == pop(w) /\ UNCHANGED logVars

WriteItem(w) ==
    /\ item[w] # NoItem
    /\ fputs(item[w], "queue")
    /\ item' = [item EXCEPT ![w] = NoItem]
    /\ UNCHANGED <<arrayVars, sleeping, today, m_today, m_count, m_fp, pc, mday>>

(* main() returns: ~Log() closes the file and the process ends with what   *)
(* is still in the queue.                                                  *)
Exit ==
    /\ pc = "idle"
    /\ pc' = "exit"
    /\ UNCHANGED <<queueVars, today, m_today, m_count, m_fp, written, mday>>

Midnight ==
    /\ today < MaxDay
    /\ today' = today + 1
    /\ UNCHANGED <<queueVars, m_today, m_count, m_fp, written, pc, mday>>
-----------------------------------------------------------------------------
write_log == Stamp \/ Count \/ Route \/ Push \/ Direct

async_write_log(w) == Pop(w) \/ WriteItem(w)

Next ==
    /\ pc # "exit"
    /\ write_log \/ Exit \/ Midnight \/ \E w \in Consumers : async_write_log(w)

(* A call of write_log() that has begun runs on, and so does the thread    *)
(* that writes unless it sleeps; both get a mutex they wait for.           *)
Fairness ==
    /\ WF_vars(Count \/ Route \/ Push \/ Direct)
    /\ \A w \in Consumers : WF_vars((PopTakes(w) /\ UNCHANGED logVars) \/ WriteItem(w))

Spec == Init /\ [][Next]_vars /\ Fairness
-----------------------------------------------------------------------------
NumbersIn(s) == {s[i].no : i \in DOMAIN s}

(* The lines that are in the queue, with the thread that writes, or in a   *)
(* file; and the one write_log() still has in hand.                        *)
InFile  == {written[i].line.no : i \in DOMAIN written}
OnTheWay ==
    NumbersIn(Contents)
        \cup {item[w].no : w \in {c \in Consumers : item[c] # NoItem}}
        \cup (IF pc \in {"route", "push", "direct"} THEN {m_count} ELSE {})

(* No line is lost or written twice.  push() may refuse a line and nobody  *)
(* would notice; that it never does rests on main() being the only caller, *)
(* so that the queue cannot fill between full() and push().                *)
EachLineOnce ==
    /\ InFile \cup OnTheWay = 1..m_count
    /\ InFile \cap OnTheWay = {}
    /\ Len(written) = Cardinality(InFile)
    /\ m_size = Cardinality(NumbersIn(Contents))

(* Lines of the file may be out of order, but only so: a line that found   *)
(* the queue full overtakes lines that wait in it, at most as many as it   *)
(* holds and the one in the other thread's hand.                           *)
Overtaken(i) ==
    {j \in i + 1..Len(written) : written[j].line.no < written[i].line.no}

OvertakesOnlyTheQueue ==
    \A i \in DOMAIN written :
        /\ Cardinality(Overtaken(i)) <= m_max_size + 1
        /\ Overtaken(i) # {} => written[i].way = "direct"
        /\ \A j \in Overtaken(i) : written[j].way = "queue"

(* A line goes to the file of its day, if directly; what waits in the      *)
(* queue over midnight goes to the next day's file, never the other way.   *)
(* This is so for a month: on the day of the month on which the server was *)
(* started, lines go on in the file of the day before (log.cpp:110).       *)
FileOfItsDay ==
    \A i \in DOMAIN written :
        written[i].line.day < DaysInMonth =>
            /\ written[i].file.day >= written[i].line.day
            /\ written[i].way = "direct" =>
                  written[i].file.day = written[i].line.day

(* Every line is written in the end, if the server goes on: the thread     *)
(* that writes is not left asleep over a line.                             *)
EveryLineWritten ==
    \A n \in 1..MaxLines : m_count >= n ~> n \in InFile \/ pc = "exit"
=============================================================================
