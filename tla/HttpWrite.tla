----------------------------- MODULE HttpWrite -----------------------------
(***************************************************************************)
(* The writing side of one http_conn: process_wirte() prepares a response  *)
(* and write() sends it through a socket whose buffer may be full.  The    *)
(* object is used for one response after the other, on one connection and  *)
(* on those that get the same descriptor later.                            *)
(*                                                                         *)
(* A response is the bytes 0..Total - 1: HeadLen of m_write_buf, and those *)
(* of the file.  An iovec is an offset and a length: m_iv[0] in            *)
(* m_write_buf, m_iv[1] in the mapped file.                                *)
(***************************************************************************)
EXTENDS Integers, Sequences, FiniteSetsExt

CONSTANTS HeadLen,        (* the length of what is in m_write_buf          *)
          FileSizes,
          SendBuffer,     (* the size of the socket's buffer               *)
          MaxSent         (* bound: after so many bytes no response begins *)

Foreign == -1             (* a byte that is not of the response            *)

ASSUME HttpWriteAssumption ==
    /\ HeadLen \in Nat \ {0} /\ SendBuffer \in Nat \ {0} /\ MaxSent \in Nat
    /\ FileSizes \subseteq Nat \ {0}

VARIABLES
    m_iv0, m_iv1,
    m_write_idx,
    size,             (* of the file; 0 for a page                         *)
    m_linger,
    bytes_to_send, bytes_have_send,
    mapped,           (* is m_file_address a mapped file?                  *)
    pc,               (* "idle": EPOLLIN is registered, "out": EPOLLOUT;   *)
                      (* "write": in write(), "again": after an iteration  *)
                      (* of its loop; "closed"                             *)
    room,             (* free bytes in the socket's buffer: of a new one   *)
                      (* the kernel may give less when memory is short     *)
    sent,             (* what writev() took for this response              *)
    cut,              (* history: main() closed a connection of the        *)
                      (* http_conn while its response waited for EPOLLOUT  *)
    odd               (* history: what happened to this response of which  *)
                      (* "used": bytes were sent for the http_conn before, *)
                      (* "unsent": it is a page and some are still to be,  *)
                      (* "head": the socket was full within m_write_buf,   *)
                      (* "again": it had room again at once                *)

iovVars   == <<m_iv0, m_iv1>>
replyVars == <<m_write_idx, size, m_linger>>
countVars == <<bytes_to_send, bytes_have_send>>
vars == <<iovVars, replyVars, countVars, mapped, pc, room, sent, cut, odd>>

Init ==
    /\ m_iv0 = [off |-> 0, len |-> 0] /\ m_iv1 = [off |-> 0, len |-> 0]
    /\ m_write_idx = 0 /\ size = 0 /\ m_linger = FALSE
    /\ bytes_to_send = 0 /\ bytes_have_send = 0     \* fresh pages are zero
    /\ mapped = FALSE
    /\ pc = "idle"
    /\ room \in 1..SendBuffer
    /\ sent = <<>> /\ odd = {} /\ cut = FALSE

Oddities == {"used", "unsent", "head", "again"}

Total   == m_write_idx + size
Writing == pc \in {"write", "again"}

(* The byte of the response that is at index i of an iovec.                *)
HeadByte(i) == IF m_iv0.off + i < m_write_idx THEN m_iv0.off + i ELSE Foreign
FileByte(i) == IF m_iv1.off + i \in 0..(size - 1) THEN m_write_idx + m_iv1.off + i ELSE Foreign

(* What writev() would send; it stops before memory that is not mapped.    *)
Gathered ==
    [i \in 1..(m_iv0.len + (IF mapped THEN m_iv1.len ELSE 0)) |->
        IF i <= m_iv0.len THEN HeadByte(i - 1) ELSE FileByte(i - m_iv0.len - 1)]

Taken == Min({room, Len(Gathered)})
-----------------------------------------------------------------------------
(***************************************************************************)
(* Seeded faults: plausible mistakes in the code below, each checked to be *)
(* caught by one of the properties at the end of the module.  They are not *)
(* part of the specification.                                              *)
(***************************************************************************)
AdvanceHeadOnly ==                           (* m_iv[1] is not advanced    *)
    /\ m_iv0' = [m_iv0 EXCEPT !.len = 0]
    /\ UNCHANGED m_iv1

DoneBeforeFile == bytes_to_send' <= size     (* the file is not counted    *)

ArmReadNotWrite == "idle"                    (* EPOLLIN after EAGAIN       *)

AdvanceWholeFile ==                          (* the length of all of it    *)
    /\ m_iv0' = [m_iv0 EXCEPT !.len = 0]
    /\ m_iv1' = [off |-> bytes_have_send - m_write_idx, len |-> size]

UnmapNever == UNCHANGED mapped
-----------------------------------------------------------------------------
Used == IF bytes_have_send = 0 THEN {} ELSE {"used"}

(* A worker calls process_wirte(): a file that is not empty,               *)
PrepareFile(f, linger) ==
    /\ pc = "idle" /\ bytes_have_send <= MaxSent
    /\ m_write_idx' = HeadLen /\ size' = f /\ m_linger' = linger
    /\ m_iv0' = [off |-> 0, len |-> HeadLen]
    /\ m_iv1' = [off |-> 0, len |-> f]
    /\ bytes_to_send' = HeadLen + f
    /\ mapped' = TRUE
    /\ sent' = <<>> /\ odd' = Used
    /\ pc' = "out"
    /\ UNCHANGED <<bytes_have_send, room, cut>>

(* or an error page or the one for an empty file: bytes_to_send and        *)
(* m_iv[1] stay.                                                           *)
PreparePage(linger) ==
    /\ pc = "idle" /\ bytes_have_send <= MaxSent
    /\ m_write_idx' = HeadLen /\ size' = 0 /\ m_linger' = linger
    /\ m_iv0' = [off |-> 0, len |-> HeadLen]
    /\ sent' = <<>> /\ odd' = Used \cup (IF bytes_to_send = 0 THEN {} ELSE {"unsent"})
    /\ pc' = "out"
    /\ UNCHANGED <<m_iv1, countVars, mapped, room, cut>>

(* init(): of the variables here it resets two.                            *)
InitConn ==
    /\ m_write_idx' = 0 /\ m_linger' = FALSE
    /\ UNCHANGED size
-----------------------------------------------------------------------------
(* EPOLLOUT: main() calls write().                                         *)
StartWrite ==
    /\ pc = "out" /\ room > 0
    /\ IF bytes_to_send = 0
       THEN InitConn /\ pc' = "idle"
       ELSE UNCHANGED replyVars /\ pc' = "write"
    /\ UNCHANGED <<iovVars, countVars, mapped, room, sent, cut, odd>>

Done == bytes_to_send' <= 0

Unmap == mapped' = FALSE

(* writev() takes what there is room for.                                  *)
Writev ==
    /\ Writing /\ room > 0 /\ (Len(Gathered) > 0 \/ m_iv1.len = 0)
    /\ room' = room - Taken
    /\ sent' = sent \o SubSeq(Gathered, 1, Taken)
    /\ odd' = IF pc = "again" THEN odd \cup {"again"} ELSE odd
    /\ bytes_have_send' = bytes_have_send + Taken
    /\ bytes_to_send' = bytes_to_send - Taken
    /\ IF Done
       THEN /\ Unmap
            /\ IF m_linger THEN InitConn /\ pc' = "idle"
               ELSE UNCHANGED replyVars /\ pc' = "closed"
       ELSE /\ pc' = "again"
            /\ UNCHANGED <<replyVars, mapped>>
    /\ UNCHANGED <<iovVars, cut>>

(* newadd is the number of bytes of the file sent, if this write() sent    *)
(* any; m_iv[0] is left otherwise.                                         *)
AdvanceFile ==
    /\ m_iv0' = [m_iv0 EXCEPT !.len = 0]
    /\ m_iv1' = [off |-> IF pc = "again" THEN bytes_have_send - m_write_idx ELSE 0,
                 len |-> bytes_to_send]

AdvanceHead ==
    /\ m_iv0' = [off |-> bytes_to_send, len |-> m_iv0.len - bytes_have_send]
    /\ UNCHANGED m_iv1

AfterEagain == "out"

Eagain ==
    /\ Writing /\ room = 0
    /\ IF bytes_have_send >= m_iv0.len
       THEN AdvanceFile /\ UNCHANGED odd
       ELSE AdvanceHead /\ odd' = odd \cup {"head"}
    /\ pc' = AfterEagain
    /\ UNCHANGED <<replyVars, countVars, mapped, room, sent, cut>>

(* Any other error: the client is gone, or nothing is mapped.              *)
WriteError ==
    /\ Writing
    /\ Unmap
    /\ pc' = "closed"
    /\ UNCHANGED <<iovVars, replyVars, countVars, room, sent, cut, odd>>
-----------------------------------------------------------------------------
(* The client receives some.                                               *)
Drain ==
    /\ room < SendBuffer
    /\ \E n \in 1..(SendBuffer - room) : room' = room + n
    /\ UNCHANGED <<iovVars, replyVars, countVars, mapped, pc, sent, cut, odd>>

(* main() closes the connection: the client is gone or its timer expired.  *)
Close ==
    /\ pc \in {"idle", "out"}
    /\ pc' = "closed"
    /\ cut' = (cut \/ pc = "out")
    /\ UNCHANGED <<iovVars, replyVars, countVars, mapped, room, sent, odd>>

(* The descriptor is used for another connection.                          *)
Reopen ==
    /\ pc = "closed"
    /\ InitConn
    /\ \E n \in 1..SendBuffer : room' = n
    /\ sent' = <<>> /\ odd' = {}
    /\ pc' = "idle"
    /\ UNCHANGED <<iovVars, countVars, mapped, cut>>

Write == StartWrite \/ Writev \/ Eagain \/ WriteError

Next ==
    \/ \E linger \in BOOLEAN :
           PreparePage(linger) \/ \E f \in FileSizes : PrepareFile(f, linger)
    \/ Write
    \/ Drain
    \/ Close \/ Reopen

(* main() handles EPOLLOUT and write() runs on; the client goes on reading.*)
Fairness == WF_vars(Write) /\ WF_vars(Drain)

Spec == Init /\ [][Next]_vars /\ Fairness
-----------------------------------------------------------------------------
(* The lengths of the iovecs are not negative and fit what was sent.       *)
TypeOK ==
    /\ m_iv0 \in [off : Int, len : 0..HeadLen]
    /\ m_iv1 \in [off : Int, len : Nat]
    /\ m_write_idx \in {0, HeadLen} /\ size \in FileSizes \cup {0} /\ m_linger \in BOOLEAN
    /\ bytes_to_send \in Int /\ bytes_have_send \in Nat /\ Len(sent) <= bytes_have_send
    /\ mapped \in BOOLEAN /\ cut \in BOOLEAN
    /\ pc \in {"idle", "out", "write", "again", "closed"}
    /\ room \in 0..SendBuffer
    /\ odd \subseteq Oddities

InOrder == \A i \in DOMAIN sent : sent[i] = i - 1

(* The client receives the bytes of the response in order, each once, also *)
(* over several EAGAINs, unless something odd happened: the buffer was full*)
(* within the headers, a client made room right after a partial writev(),  *)
(* or it is a later response or a page.                                    *)
PlainInOrder == odd = {} => InOrder

(* The same of the second response of an http_conn and later ones.         *)
LaterInOrder == odd \subseteq {"used"} => InOrder

(* While write() waits for room, the iovecs hold the rest of the response. *)
IovecsHoldRest ==
    (pc = "out" /\ size > 0 /\ odd = {}) =>
        Gathered = [i \in 1..(Total - Len(sent)) |-> Len(sent) + i - 1]

(* write() is not done with a file before all of it was taken.             *)
DoneWhenAllSent ==
    [][Writing /\ bytes_to_send' # bytes_to_send /\ Done /\ odd' = {} => Len(sent') = Total]_vars

(* A response is sent or given up in the end: write() does not loop for    *)
(* ever, and EPOLLOUT is registered while there is more to send.           *)
EveryResponseEnds ==
    pc \in {"out", "write", "again"} ~> bytes_to_send <= 0 \/ pc = "closed"

(* A file stays mapped after its response only if main() closed the        *)
(* connection while the response waited for EPOLLOUT, which cb_func() and  *)
(* the handling of hang-ups do without unmap(): every way out of write()   *)
(* unmaps, of pages and of several files in a row.                         *)
MappedOnlyIfCut == pc \in {"idle", "closed"} /\ mapped => cut
=============================================================================
