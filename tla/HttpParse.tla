----------------------------- MODULE HttpParse -----------------------------
(***************************************************************************)
(* The reading side of one http_conn: read_once() in the main thread and   *)
(* process_read() in a worker, with the client's bytes arriving in any     *)
(* fragments.  EPOLLONESHOT lets only one of the two run at a time.        *)
(*                                                                         *)
(* A byte is CR, LF, NUL or a word: parse_line() looks for the first two   *)
(* only, so a word stands for the text between them.  Each iteration of    *)
(* the loop of process_read() is a step.  Indices are those of the code.   *)
(* Where the code follows a pointer that is not set, or writes outside the *)
(* object's buffer, pc is "undefined" and nothing is said of what follows. *)
(***************************************************************************)
EXTENDS Integers, Sequences, SequencesExt

CONSTANTS Requests,         (* what the client may send                    *)
          GetLines,         (* the request lines that are accepted         *)
          PostLines,
          NullLines,        (* those whose http:// URL has no further /    *)
          FormUrls,         (* lines with the URL of a login or a registry *)
          Lengths,          (* the number in each Content-length header    *)
          READ_BUFFER_SIZE,
          MaxUnread         (* bound: bytes not read when a request is sent *)

CR  == "CR"
LF  == "LF"
NUL == "NUL"
KeepAlive == "keep-alive"

NoRequest == [line |-> "none"]

(* What a client may send: lines and a body, well-formed or not.           *)
ASSUME HttpParseAssumption ==
    /\ READ_BUFFER_SIZE \in Nat \ {0} /\ MaxUnread \in Nat
    /\ GetLines \cap PostLines = {} /\ NullLines \cap (GetLines \cup PostLines) = {}
    /\ FormUrls \subseteq GetLines \cup PostLines
    /\ (GetLines \cup PostLines) \cap {CR, LF, NUL} = {}
    /\ \A header \in DOMAIN Lengths : Lengths[header] \in Int
    /\ NoRequest \notin Requests
    /\ \A r \in Requests :
           /\ r.headers \in Seq(ToSet(r.headers)) /\ r.body \in Seq(ToSet(r.body))
           /\ r.eol \in {<<CR, LF>>, <<LF>>}
           /\ ({r.line} \cup ToSet(r.headers)) \cap {CR, LF, NUL} = {}

(* The bytes of a request: each line of its head is a word and an eol;     *)
Bytes(r) ==
    LET lines == <<r.line>> \o r.headers
        width == 1 + Len(r.eol)
        head  == [i \in 1..width * Len(lines) |->
                     IF i % width = 1 THEN lines[i \div width + 1]
                     ELSE r.eol[(i - 1) % width]]
    IN  head \o r.eol \o r.body

AllBytes == {CR, LF, NUL} \cup UNION {ToSet(Bytes(r)) : r \in Requests}

(* and what a server is to understand by them: only a form's body is read. *)
Meaning(r) ==
    [line   |-> r.line,
     linger |-> KeepAlive \in ToSet(r.headers),
     body   |-> IF r.line \in PostLines \cap FormUrls THEN r.body ELSE <<>>]

Unset == -1

(* A request that a server of HTTP/1.1 is to understand: a line it accepts,*)
(* line ends of CR and LF, a body of just the length announced, and none   *)
(* if none is; a form has a body, which is text.                           *)
WellFormed(r) ==
    /\ r # NoRequest
    /\ r.eol = <<CR, LF>> /\ r.line \in GetLines \cup PostLines
    /\ \A h \in ToSet(r.headers) \cap DOMAIN Lengths : Lengths[h] = Len(r.body)
    /\ ToSet(r.headers) \cap DOMAIN Lengths = {} => r.body = <<>>
    /\ r.line \in PostLines \cap FormUrls => r.body # <<>>
    /\ NUL \notin ToSet(r.body)

VARIABLES
    asked,            (* the request whose reply the client waits for      *)
    net,              (* the bytes sent that read_once() did not read yet  *)
    m_read_buf,       (* the first m_read_idx bytes of it                  *)
    m_checked_idx, m_start_line,
    m_check_state,
    m_url,            (* the request line, once parsed                     *)
    cgi, m_linger, m_content_length,
    m_string,         (* index of the body in m_read_buf                   *)
    line_stats,       (* of process_read()                                 *)
    pc,               (* "idle": EPOLLIN is registered; "queued": in the   *)
                      (* pool; "parse": in process_read(); "reply": after  *)
                      (* it; "refused": nothing is registered; "closed";   *)
                      (* "undefined"                                       *)
    verdict,          (* what process_read() made of the request           *)
    split,            (* history: it saw a part of a body                  *)
    understood,       (* history: it called do_request() for what is asked *)
    strayed           (* history: a request of this connection that was    *)
                      (* not well-formed has had a reply                   *)

clientVars  == <<asked, net>>
indexVars   == <<m_checked_idx, m_start_line>>
requestVars == <<m_url, cgi, m_linger, m_content_length, m_string>>
historyVars == <<split, understood, strayed>>

vars == <<clientVars, m_read_buf, indexVars, m_check_state, requestVars, line_stats, pc,
          verdict, historyVars>>

Init ==
    /\ asked = NoRequest /\ net = <<>>
    /\ m_read_buf = <<>>
    /\ m_checked_idx = 0 /\ m_start_line = 0
    /\ m_check_state = "REQUESTLINE"
    /\ m_url = "none" /\ cgi = 0 /\ m_linger = FALSE /\ m_content_length = 0
    /\ m_string = Unset
    /\ line_stats = "LINE_OK"
    /\ pc = "idle" /\ verdict = "NO_REQUEST"
    /\ split = FALSE /\ understood = FALSE /\ strayed = FALSE

m_read_idx == Len(m_read_buf)
Byte(i)    == m_read_buf[i + 1]

(* The C string that starts at index from.                                 *)
CString(buf, from) ==
    LET nuls == {i \in from + 1..Len(buf) : buf[i] = NUL}
    IN  SubSeq(buf, from + 1, IF nuls = {} THEN Len(buf) ELSE Min(nuls) - 1)
-----------------------------------------------------------------------------
(* parse_line()                                                            *)

(* Where it stops, if anywhere, and where the CR of the line is.           *)
LineEnds == {i \in m_checked_idx..(m_read_idx - 1) : Byte(i) \in {CR, LF}}
LineEnd  == Min(LineEnds)

CrIndex == IF Byte(LineEnd) = CR THEN LineEnd ELSE LineEnd - 1

LineOK ==
    /\ LineEnds # {}
    /\ \/ Byte(LineEnd) = CR /\ LineEnd + 1 < m_read_idx /\ Byte(LineEnd + 1) = LF
       \/ Byte(LineEnd) = LF /\ LineEnd > 1 /\ Byte(LineEnd - 1) = CR

LineOpen == LineEnds = {} \/ (Byte(LineEnd) = CR /\ LineEnd + 1 = m_read_idx)

(* The condition of the loop of process_read(): at first parse_line() is   *)
(* not called for a body.                                                  *)
AtContent == m_check_state = "CONTENT" /\ line_stats = "LINE_OK"

Again == pc = "parse" /\ (AtContent \/ LineOK)

NextBuf ==
    IF AtContent THEN m_read_buf
    ELSE [m_read_buf EXCEPT ![CrIndex + 1] = NUL, ![CrIndex + 2] = NUL]

NextChecked == IF AtContent THEN m_checked_idx ELSE CrIndex + 2

get_line == CString(NextBuf, m_start_line)

StartIteration ==
    /\ Again
    /\ m_checked_idx' = NextChecked
    /\ m_start_line' = NextChecked
    /\ UNCHANGED clientVars

(* Some of a body has come, but not all of it.                             *)
PartOfContent == m_read_idx \in (NextChecked + 1)..(NextChecked + m_content_length - 1)
-----------------------------------------------------------------------------
(***************************************************************************)
(* Seeded faults: plausible mistakes in the code below, each checked to be *)
(* caught by one of the properties at the end of the module.  They are not *)
(* part of the specification.                                              *)
(***************************************************************************)
InitKeepsLinger ==                           (* m_linger is not reset      *)
    /\ m_read_buf' = <<>>
    /\ m_checked_idx' = 0 /\ m_start_line' = 0
    /\ m_check_state' = "REQUESTLINE"
    /\ m_url' = "none" /\ cgi' = 0 /\ m_content_length' = 0
    /\ UNCHANGED <<m_linger, m_string>>

ContentMore == m_read_idx > m_content_length + NextChecked    (* not >=   *)

AwaitInLoop ==                               (* the loop is entered again  *)
    /\ m_check_state = "CONTENT"
    /\ StartIteration
    /\ m_read_idx < m_content_length + NextChecked
    /\ m_read_buf' = NextBuf
    /\ line_stats' = "LINE_OK"
    /\ split' = (split \/ PartOfContent)
    /\ UNCHANGED <<m_check_state, requestVars, pc, verdict, understood, strayed>>
-----------------------------------------------------------------------------
(* init(), which does not reset m_string.                                  *)
InitConn ==
    /\ m_read_buf' = <<>>
    /\ m_checked_idx' = 0 /\ m_start_line' = 0
    /\ m_check_state' = "REQUESTLINE"
    /\ m_url' = "none" /\ cgi' = 0 /\ m_linger' = FALSE /\ m_content_length' = 0
    /\ UNCHANGED m_string

(* init(sockfd, addr): the object serves the next client.                  *)
Accept ==
    /\ pc = "closed"
    /\ asked' = NoRequest /\ net' = <<>>
    /\ InitConn
    /\ pc' = "idle"
    /\ strayed' = FALSE
    /\ UNCHANGED <<line_stats, verdict, split, understood>>

(* The client sends a request once the last one was replied to.            *)
Send(r) ==
    /\ asked = NoRequest /\ pc \notin {"closed", "undefined"}
    /\ Len(net) <= MaxUnread
    /\ asked' = r
    /\ net' = net \o Bytes(r)
    /\ split' = FALSE /\ understood' = FALSE
    /\ UNCHANGED <<m_read_buf, indexVars, m_check_state, requestVars, line_stats, pc, verdict,
                   strayed>>

Space == READ_BUFFER_SIZE - m_read_idx

(* read_once() until EAGAIN, when n bytes have come; then append(), which  *)
(* may refuse: nobody asks, and EPOLLONESHOT is not armed again.           *)
ReadOnce(n) ==
    /\ pc = "idle"
    /\ n \in 1..Len(net) /\ n <= Space
    /\ m_read_buf' = m_read_buf \o SubSeq(net, 1, n)
    /\ net' = SubSeq(net, n + 1, Len(net))
    /\ pc' \in {"queued", "refused"}
    /\ UNCHANGED <<asked, indexVars, m_check_state, requestVars, line_stats, verdict, historyVars>>

(* The buffer is full when read_once() is called, or becomes so: recv() is *)
(* then called for no bytes and may return 0.  cb_func() closes.           *)
ReadFull ==
    /\ pc = "idle"
    /\ net # <<>> /\ Len(net) >= Space
    /\ pc' = "closed"
    /\ UNCHANGED <<clientVars, m_read_buf, indexVars, m_check_state, requestVars, line_stats,
                   verdict, historyVars>>

(* The client closes, or the timer expires: cb_func().  Reactor models the *)
(* timer that expires while the object is in the pool.                     *)
Close ==
    /\ pc \in {"idle", "refused"}
    /\ pc' = "closed"
    /\ UNCHANGED <<clientVars, m_read_buf, indexVars, m_check_state, requestVars, line_stats,
                   verdict, historyVars>>

(* A worker calls process(), process_read().                               *)
Process ==
    /\ pc = "queued"
    /\ line_stats' = "LINE_OK"
    /\ pc' = "parse"
    /\ UNCHANGED <<clientVars, m_read_buf, indexVars, m_check_state, requestVars, verdict,
                   historyVars>>
-----------------------------------------------------------------------------
(* process_read()                                                          *)

Return(code) ==
    /\ verdict' = code
    /\ pc' = "reply"

(* The loop ends: process() registers EPOLLIN.  The index stays on a CR or *)
(* LF, and after all bytes that are neither.                               *)
ReturnNoRequest ==
    /\ pc = "parse" /\ ~Again
    /\ line_stats' = IF LineOpen THEN "LINE_OPEN" ELSE "LINE_BAD"
    /\ m_checked_idx' = IF LineEnds = {} THEN m_read_idx ELSE LineEnd
    /\ verdict' = "NO_REQUEST"
    /\ pc' = "idle"
    /\ UNCHANGED <<clientVars, m_read_buf, m_start_line, m_check_state, requestVars, historyVars>>

(* With an http:// URL that has no further / the code goes on with m_url   *)
(* NULL.                                                                   *)
parse_request_line ==
    /\ m_check_state = "REQUESTLINE"
    /\ StartIteration
    /\ m_read_buf' = NextBuf
    /\ line_stats' = "LINE_OK"
    /\ \/ /\ \E line \in GetLines \cup PostLines :
                 /\ get_line = <<line>>
                 /\ m_url' = line
                 /\ cgi' = IF line \in PostLines THEN 1 ELSE cgi
          /\ m_check_state' = "HEADER"
          /\ UNCHANGED <<pc, verdict>>
       \/ /\ \A line \in GetLines \cup PostLines \cup NullLines : get_line # <<line>>
          /\ Return("BAD_REQUEST")
          /\ UNCHANGED <<m_check_state, m_url, cgi>>
       \/ /\ \E line \in NullLines : get_line = <<line>>
          /\ pc' = "undefined"
          /\ UNCHANGED <<m_check_state, m_url, cgi, verdict>>
    /\ UNCHANGED <<m_linger, m_content_length, m_string, historyVars>>

(* do_request() reads the name and the password of a form from m_string,   *)
ReadsForm == cgi = 1 /\ m_url \in FormUrls

(* be it set or not.  See Reactor for what becomes of the request.         *)
do_request ==
    IF ReadsForm /\ m_string' = Unset
    THEN pc' = "undefined" /\ UNCHANGED <<verdict, understood>>
    ELSE Return("GET_REQUEST") /\ understood' = TRUE

parse_headers ==
    /\ m_check_state = "HEADER"
    /\ StartIteration
    /\ m_read_buf' = NextBuf
    /\ line_stats' = "LINE_OK"
    /\ m_linger' = (m_linger \/ get_line = <<KeepAlive>>)
    /\ m_content_length' =
           IF \E h \in DOMAIN Lengths : get_line = <<h>> THEN Lengths[get_line[1]]
           ELSE m_content_length
    /\ m_check_state' = IF get_line = <<>> /\ m_content_length # 0 THEN "CONTENT" ELSE "HEADER"
    /\ UNCHANGED <<m_url, cgi, m_string, split, strayed>>
    /\ IF get_line = <<>> /\ m_content_length = 0
       THEN do_request
       ELSE UNCHANGED <<pc, verdict, understood>>

(* parse_content(): a NUL ends the body.  A negative length may put it     *)
(* before the buffer.                                                      *)
ContentComplete == m_read_idx >= m_content_length + NextChecked

ParseContent ==
    /\ m_check_state = "CONTENT"
    /\ StartIteration
    /\ ContentComplete
    /\ m_string' = m_start_line
    /\ m_read_buf' = [i \in 1..m_read_idx |->
                         IF i = m_start_line + m_content_length + 1 THEN NUL ELSE NextBuf[i]]
    /\ line_stats' = "LINE_OK"
    /\ IF m_start_line + m_content_length >= 0 THEN do_request
       ELSE pc' = "undefined" /\ UNCHANGED <<verdict, understood>>
    /\ UNCHANGED <<m_check_state, m_url, cgi, m_linger, m_content_length, split, strayed>>

AwaitContent ==
    /\ m_check_state = "CONTENT"
    /\ StartIteration
    /\ ~ContentComplete
    /\ m_read_buf' = NextBuf
    /\ line_stats' = "LINE_OPEN"
    /\ split' = (split \/ PartOfContent)
    /\ UNCHANGED <<m_check_state, requestVars, pc, verdict, understood, strayed>>
-----------------------------------------------------------------------------
(* process() and write(): the reply, after which only init() lets the next *)
(* request in.  A file is sent, and its client may ask again;              *)
Reply ==
    /\ pc = "reply" /\ verdict = "GET_REQUEST"
    /\ asked' = NoRequest
    /\ strayed' = (strayed \/ ~WellFormed(asked))
    /\ IF m_linger THEN InitConn /\ pc' = "idle"
       ELSE /\ pc' = "closed"
            /\ UNCHANGED <<m_read_buf, indexVars, m_check_state, requestVars>>
    /\ UNCHANGED <<net, line_stats, verdict, split, understood>>

(* for a missing one the connection is closed;                             *)
NoResource ==
    /\ pc = "reply" /\ verdict = "GET_REQUEST"
    /\ pc' = "closed"
    /\ UNCHANGED <<clientVars, m_read_buf, indexVars, m_check_state, requestVars, line_stats,
                   verdict, historyVars>>

(* an error page is not sent, see HttpWrite.                               *)
ErrorPage ==
    /\ pc = "reply"
    /\ InitConn
    /\ pc' = "idle"
    /\ UNCHANGED <<clientVars, line_stats, verdict, historyVars>>
-----------------------------------------------------------------------------
process_read ==
    \/ parse_request_line \/ parse_headers \/ ParseContent \/ AwaitContent
    \/ ReturnNoRequest

read_once == ReadFull \/ \E n \in 1..Len(net) : ReadOnce(n)

Next ==
    \/ \E r \in Requests : Send(r)
    \/ Accept \/ read_once \/ Close
    \/ Process \/ process_read
    \/ Reply \/ NoResource \/ ErrorPage

(* main() is woken while bytes have come, a worker takes the request and   *)
(* runs process() to its end.                                              *)
Fairness == WF_vars(read_once) /\ WF_vars(Process) /\ WF_vars(process_read)

Spec == Init /\ [][Next]_vars /\ Fairness
-----------------------------------------------------------------------------
(* The indices stay in order and within the buffer.                        *)
TypeOK ==
    /\ asked \in Requests \cup {NoRequest}
    /\ m_read_idx <= READ_BUFFER_SIZE
    /\ m_checked_idx \in 0..m_read_idx /\ m_start_line \in 0..m_checked_idx
    /\ m_check_state \in {"REQUESTLINE", "HEADER", "CONTENT"}
    /\ m_url \in GetLines \cup PostLines \cup {"none"}
    /\ cgi \in {0, 1} /\ m_linger \in BOOLEAN /\ m_content_length \in Int
    /\ m_string \in Nat \cup {Unset}
    /\ line_stats \in {"LINE_OK", "LINE_BAD", "LINE_OPEN"}
    /\ pc \in {"idle", "queued", "parse", "reply", "refused", "closed", "undefined"}
    /\ verdict \in {"NO_REQUEST", "GET_REQUEST", "BAD_REQUEST"}
    /\ split \in BOOLEAN /\ understood \in BOOLEAN /\ strayed \in BOOLEAN

(* The request asked is well-formed, and so were those before it on the    *)
(* connection that had a reply: no byte is left over from them.            *)
InStep == WellFormed(asked) /\ ~strayed

(* However its bytes are fragmented, and whatever the object parsed for    *)
(* earlier clients, what process_read() makes of a well-formed request is  *)
(* do_request() with all of it: its line, whether the connection is kept   *)
(* and the body of a form; never BAD_REQUEST, nor a pointer not set.       *)
UnderstoodAsSent ==
    InStep =>
        /\ pc # "undefined"
        /\ pc = "reply" =>
               /\ verdict = "GET_REQUEST"
               /\ Meaning(asked) = [line   |-> m_url,
                                    linger |-> m_linger,
                                    body   |-> IF ReadsForm THEN CString(m_read_buf, m_string)
                                               ELSE <<>>]

Waits == pc = "idle" /\ net = <<>> /\ asked # NoRequest /\ ~understood

(* What http_conn.h says of NO_REQUEST: the request is incomplete and more *)
(* of it is to be read.                                                    *)
CompleteIsUnderstood == Waits => ~InStep

(* That is so unless process_read() ran when a part of the body had come.  *)
CompleteUnlessSplit == Waits => ~InStep \/ split

(* process_read() never waits within a line whose CR and LF have come, so  *)
(* its loop ends, and each request is understood unless the connection is  *)
(* closed or append() refuses it.                                          *)
EveryRequestUnderstood == InStep ~> understood \/ split \/ pc \in {"refused", "closed"}
=============================================================================
