--------------------------- MODULE HttpParseProofs ---------------------------
(***************************************************************************)
(* Theorems about HttpParse for all requests, any size of the buffer and   *)
(* any fragments: what process_read() does to m_read_buf, and what it      *)
(* understands by a request.                                               *)
(***************************************************************************)
EXTENDS HttpParse, FiniteSetTheorems, SequenceTheorems, TLAPS

(* parse_line() never left a CR behind that it could find again before     *)
(* where it goes on.                                                       *)
NoCrBefore == m_checked_idx > 0 => Byte(m_checked_idx - 1) # CR

PInv ==
    /\ m_read_buf \in Seq(AllBytes) /\ net \in Seq(AllBytes)
    /\ TypeOK
    /\ NoCrBefore

(* What parse_line() overwrites with NUL is the CR and the LF of the line. *)
OverwritesLineEnd ==
    Again /\ ~AtContent =>
        /\ CrIndex \in m_start_line..m_read_idx - 2
        /\ Byte(CrIndex) = CR /\ Byte(CrIndex + 1) = LF
-----------------------------------------------------------------------------
(* The words of a request, in the order of its lines.                      *)
Word(r, k) == IF k = 0 THEN r.line ELSE r.headers[k]

BytesIn(r) == {r.line, CR, LF} \cup ToSet(r.headers) \cup ToSet(r.body)

(* What is assumed of one request.                                         *)
LEMMA RequestAssumption ==
  ASSUME NEW r \in Requests
  PROVE  /\ r # NoRequest
         /\ r.headers \in Seq(ToSet(r.headers)) /\ r.body \in Seq(ToSet(r.body))
         /\ Len(r.headers) \in Nat /\ Len(r.body) \in Nat
         /\ r.eol \in {<<CR, LF>>, <<LF>>}
         /\ r.line \notin {CR, LF, NUL}
         /\ \A j \in 1..Len(r.headers) : /\ r.headers[j] \in ToSet(r.headers)
                                         /\ r.headers[j] \notin {CR, LF, NUL}
         /\ \A j \in 1..Len(r.body) : r.body[j] \in ToSet(r.body)
         /\ ToSet(r.headers) = {r.headers[j] : j \in 1..Len(r.headers)}
  <1>1. /\ r # NoRequest
        /\ r.headers \in Seq(ToSet(r.headers)) /\ r.body \in Seq(ToSet(r.body))
        /\ r.eol \in {<<CR, LF>>, <<LF>>}
        /\ ({r.line} \cup ToSet(r.headers)) \cap {CR, LF, NUL} = {}
    BY HttpParseAssumption
  <1>2. Len(r.headers) \in Nat /\ Len(r.body) \in Nat
    BY <1>1, LenProperties
  <1>3. ToSet(r.headers) = {r.headers[j] : j \in 1..Len(r.headers)}
    <2>1. DOMAIN r.headers = 1..Len(r.headers)
      BY <1>1, LenProperties
    <2>2. QED
      BY <2>1 DEF ToSet
  <1>4. \A j \in 1..Len(r.body) : r.body[j] \in ToSet(r.body)
    BY <1>1, ElementOfSeq
  <1>5. r.line \notin {CR, LF, NUL}
    BY <1>1
  <1>6. ASSUME NEW j \in 1..Len(r.headers)
        PROVE  r.headers[j] \in ToSet(r.headers) /\ r.headers[j] \notin {CR, LF, NUL}
    BY <1>1, <1>3
  <1>7. QED
    BY <1>1, <1>2, <1>3, <1>4, <1>5, <1>6

(* The lines of the head are the words.                                    *)
LEMMA LinesOfHead ==
  ASSUME NEW r \in Requests
  PROVE  LET lines == <<r.line>> \o r.headers
         IN  /\ Len(lines) = Len(r.headers) + 1
             /\ \A k \in 0..Len(r.headers) : lines[k + 1] = Word(r, k)
             /\ \A k \in 0..Len(r.headers) : Word(r, k) \in {r.line} \cup ToSet(r.headers)
  <1> DEFINE S == {r.line} \cup ToSet(r.headers)
             s == <<r.line>>
             h == Len(r.headers)
  <1>1. /\ h \in Nat /\ r.headers \in Seq(ToSet(r.headers))
        /\ \A j \in 1..h : r.headers[j] \in ToSet(r.headers)
    BY RequestAssumption
  <1>2. r.headers \in Seq(S) /\ ToSet(r.headers) \subseteq S
    BY <1>1, SeqMonotonic
  <1>3. s \in Seq(S) /\ Len(s) = 1 /\ s[1] = r.line
    OBVIOUS
  <1> HIDE DEF S, s
  <1>4. /\ Len(s \o r.headers) = 1 + h
        /\ \A i \in 1..1 + h : (s \o r.headers)[i] = IF i <= 1 THEN s[i] ELSE r.headers[i - 1]
    <2>1. h = Len(r.headers) /\ Len(s) = 1
      BY <1>3
    <2> HIDE DEF h
    <2>2. /\ Len(s \o r.headers) = Len(s) + Len(r.headers)
          /\ \A i \in 1..Len(s) + Len(r.headers) :
                 (s \o r.headers)[i] = IF i <= Len(s) THEN s[i] ELSE r.headers[i - Len(s)]
      BY <1>2, <1>3, ConcatProperties, Zenon
    <2>3. QED
      BY <2>1, <2>2, Zenon
  <1> HIDE DEF h
  <1>5. ASSUME NEW k \in 0..h
        PROVE  (s \o r.headers)[k + 1] = Word(r, k) /\ Word(r, k) \in {r.line} \cup ToSet(r.headers)
    <2>1. CASE k = 0
      BY <1>1, <1>3, <1>4, <2>1 DEF Word
    <2>2. CASE k # 0
      <3>1. k \in 1..h /\ k + 1 \in 1..1 + h /\ ~(k + 1 <= 1) /\ k + 1 - 1 = k
        BY <1>1, <2>2
      <3>2. QED
        BY <1>1, <1>4, <2>2, <3>1 DEF Word
    <2>3. QED
      BY <2>1, <2>2
  <1>6. Len(s \o r.headers) = h + 1
    BY <1>1, <1>4
  <1>7. QED
    BY <1>5, <1>6 DEF h, s

(* What a head of t bytes, the eol and the body make when put together.    *)
LEMMA HeadAndBody ==
  ASSUME NEW r \in Requests, NEW t \in Nat, NEW head \in [1..t -> BytesIn(r)],
         Bytes(r) = head \o r.eol \o r.body
  PROVE  /\ Bytes(r) \in Seq(BytesIn(r))
         /\ Len(Bytes(r)) = t + Len(r.eol) + Len(r.body)
         /\ \A i \in 1..t : Bytes(r)[i] = head[i]
         /\ \A j \in 1..Len(r.eol) : Bytes(r)[t + j] = r.eol[j]
         /\ \A j \in 1..Len(r.body) : Bytes(r)[t + Len(r.eol) + j] = r.body[j]
  <1> DEFINE S == BytesIn(r)
             eol == r.eol
             body == r.body
             top == head \o eol
             b == Bytes(r)
             e == Len(eol)
             m == Len(body)
  <1>0. eol \in Seq(S) /\ body \in Seq(S) /\ b = top \o body
    <2>1. r.eol = <<CR, LF>> => eol \in Seq(S)
      BY DEF BytesIn
    <2>2. r.eol = <<LF>> => eol \in Seq(S)
      BY DEF BytesIn
    <2>3. eol \in Seq(S)
      BY <2>1, <2>2, RequestAssumption
    <2>4. r.body \in Seq(ToSet(r.body)) /\ ToSet(r.body) \subseteq S
      BY RequestAssumption DEF BytesIn
    <2>5. QED
      BY <2>3, <2>4, SeqMonotonic
  <1> HIDE DEF S, eol, body
  <1>1. head \in Seq(S) /\ Len(head) = t
    <2>1. head \in Seq(S)
      BY SeqDef DEF S
    <2>2. Len(head) \in Nat /\ 1..Len(head) = 1..t
      BY <2>1, LenProperties DEF S
    <2>3. QED
      BY <2>1, <2>2
  <1>2. e \in Nat /\ m \in Nat
    BY <1>0, LenProperties
  <1>3. /\ top \in Seq(S) /\ Len(top) = t + e
        /\ \A i \in 1..t + e : top[i] = IF i <= t THEN head[i] ELSE eol[i - t]
    BY <1>0, <1>1, ConcatProperties
  <1> HIDE DEF top
  <1>4. /\ b \in Seq(S) /\ Len(b) = Len(top) + m
        /\ \A i \in 1..Len(top) + m : b[i] = IF i <= Len(top) THEN top[i] ELSE body[i - Len(top)]
    BY <1>0, <1>3, ConcatProperties
  <1> HIDE DEF b, e, m
  <1>5. /\ Len(b) = t + e + m
        /\ \A i \in 1..t + e + m : b[i] = IF i <= t + e THEN top[i] ELSE body[i - (t + e)]
    BY <1>3, <1>4
  <1>6. \A i \in 1..t : b[i] = head[i]
    BY <1>2, <1>3, <1>5
  <1>7. ASSUME NEW j \in 1..e PROVE b[t + j] = eol[j]
    <2>1. t + j \in 1..t + e /\ ~(t + j <= t) /\ t + j - t = j /\ t + j \in 1..t + e + m
      BY <1>2
    <2>2. b[t + j] = top[t + j] /\ top[t + j] = eol[t + j - t]
      BY <1>3, <1>5, <2>1
    <2>3. QED
      BY <2>1, <2>2
  <1>8. ASSUME NEW j \in 1..m PROVE b[t + e + j] = body[j]
    <2>1. PICK i : i = t + e + j
      OBVIOUS
    <2>2. i \in 1..t + e + m /\ ~(i <= t + e) /\ i - (t + e) = j
      BY <1>2, <2>1
    <2>3. b[i] = body[j]
      BY <1>5, <2>2
    <2>4. QED
      BY <2>1, <2>3
  <1>9. QED
    BY <1>4, <1>5, <1>6, <1>7, <1>8 DEF S, eol, body, b, e, m

(* The bytes of a request whose lines end as they should: line k begins at *)
(* index 3 * k, an empty line and the body follow the lines.               *)
LEMMA BytesWithCrLf ==
  ASSUME NEW r \in Requests, r.eol = <<CR, LF>>, NEW h, h = Len(r.headers)
  PROVE  /\ Bytes(r) \in Seq(BytesIn(r))
         /\ Len(Bytes(r)) = 3 * h + 5 + Len(r.body)
         /\ \A k \in 0..h : /\ Bytes(r)[3 * k + 1] = Word(r, k)
                            /\ Bytes(r)[3 * k + 2] = CR /\ Bytes(r)[3 * k + 3] = LF
         /\ Bytes(r)[3 * h + 4] = CR /\ Bytes(r)[3 * h + 5] = LF
         /\ \A j \in 1..Len(r.body) : Bytes(r)[3 * h + 5 + j] = r.body[j]
  <1> DEFINE S == BytesIn(r)
             lines == <<r.line>> \o r.headers
             t == 3 * (h + 1)
             head == [i \in 1..t |-> IF i % 3 = 1 THEN lines[i \div 3 + 1]
                                     ELSE <<CR, LF>>[(i - 1) % 3]]
  <1>1. h \in Nat /\ t \in Nat /\ t = 3 * h + 3 /\ Len(r.body) \in Nat
    BY RequestAssumption
  <1>2. /\ Len(lines) = h + 1
        /\ \A k \in 0..h : lines[k + 1] = Word(r, k) /\ Word(r, k) \in S
    BY LinesOfHead DEF BytesIn
  <1>3. Len(r.eol) = 2 /\ CR \in S /\ LF \in S
    BY DEF BytesIn
  <1>5. Bytes(r) = head \o r.eol \o r.body
    <2>1. 1 + Len(r.eol) = 3 /\ 3 * Len(<<r.line>> \o r.headers) = 3 * (h + 1)
      BY <1>2, <1>3
    <2>2. QED
      BY <2>1 DEF Bytes
  <1> HIDE DEF S, lines
  <1>6. ASSUME NEW i \in 1..t
        PROVE  /\ i % 3 = 1 => i \div 3 \in 0..h
               /\ i % 3 # 1 => (i - 1) % 3 \in 1..2
    BY <1>1
  <1>7. ASSUME NEW k \in 0..h
        PROVE  /\ 3 * k + 1 \in 1..t /\ 3 * k + 2 \in 1..t /\ 3 * k + 3 \in 1..t
               /\ (3 * k + 1) % 3 = 1 /\ (3 * k + 1) \div 3 = k
               /\ (3 * k + 2) % 3 = 2 /\ (3 * k + 2 - 1) % 3 = 1
               /\ (3 * k + 3) % 3 = 0 /\ (3 * k + 3 - 1) % 3 = 2
    BY <1>1
  <1>8. <<CR, LF>>[1] = CR /\ <<CR, LF>>[2] = LF /\ \A j \in 1..2 : j = 1 \/ j = 2
    OBVIOUS
  <1>9. \A i \in 1..t : /\ i % 3 = 1 => head[i] = lines[i \div 3 + 1]
                        /\ i % 3 # 1 => head[i] = <<CR, LF>>[(i - 1) % 3]
    OBVIOUS
  <1>10. head \in [1..t -> S]
    <2>1. ASSUME NEW i \in 1..t
          PROVE  (IF i % 3 = 1 THEN lines[i \div 3 + 1] ELSE <<CR, LF>>[(i - 1) % 3]) \in S
      BY <1>2, <1>3, <1>6, <1>8
    <2>2. QED
      BY <2>1
  <1> HIDE DEF head, t
  <1>11. ASSUME NEW k \in 0..h
         PROVE  head[3 * k + 1] = Word(r, k) /\ head[3 * k + 2] = CR /\ head[3 * k + 3] = LF
    <2>1. head[3 * k + 1] = lines[k + 1]
      <3>1. PICK i : i = 3 * k + 1
        OBVIOUS
      <3>2. i \in 1..t /\ i % 3 = 1 /\ i \div 3 = k
        BY <1>7, <3>1
      <3>3. head[i] = lines[i \div 3 + 1]
        BY <1>9, <3>2
      <3>4. QED
        BY <3>1, <3>2, <3>3
    <2>2. head[3 * k + 2] = <<CR, LF>>[1]
      BY <1>7, <1>9
    <2>3. head[3 * k + 3] = <<CR, LF>>[2]
      BY <1>7, <1>9
    <2>4. QED
      BY <1>2, <1>8, <2>1, <2>2, <2>3
  <1>12. /\ Bytes(r) \in Seq(S) /\ Len(Bytes(r)) = t + 2 + Len(r.body)
         /\ \A i \in 1..t : Bytes(r)[i] = head[i]
         /\ \A j \in 1..2 : Bytes(r)[t + j] = r.eol[j]
         /\ \A j \in 1..Len(r.body) : Bytes(r)[t + 2 + j] = r.body[j]
    <2>1. /\ Bytes(r) \in Seq(BytesIn(r))
          /\ Len(Bytes(r)) = t + Len(r.eol) + Len(r.body)
          /\ \A i \in 1..t : Bytes(r)[i] = head[i]
          /\ \A j \in 1..Len(r.eol) : Bytes(r)[t + j] = r.eol[j]
          /\ \A j \in 1..Len(r.body) : Bytes(r)[t + Len(r.eol) + j] = r.body[j]
      BY <1>1, <1>5, <1>10, HeadAndBody DEF S
    <2>2. QED
      BY <1>3, <2>1 DEF S
  <1>13. \A k \in 0..h : /\ Bytes(r)[3 * k + 1] = Word(r, k)
                         /\ Bytes(r)[3 * k + 2] = CR /\ Bytes(r)[3 * k + 3] = LF
    BY <1>7, <1>11, <1>12
  <1>14. Bytes(r)[3 * h + 4] = CR /\ Bytes(r)[3 * h + 5] = LF
    <2>1. t + 1 = 3 * h + 4 /\ t + 2 = 3 * h + 5
      BY <1>1
    <2>2. Bytes(r)[t + 1] = r.eol[1] /\ Bytes(r)[t + 2] = r.eol[2]
      BY <1>12
    <2>3. QED
      BY <2>1, <2>2
  <1>15. \A j \in 1..Len(r.body) : Bytes(r)[3 * h + 5 + j] = r.body[j]
    <2>1. t + 2 = 3 * h + 5
      BY <1>1
    <2>2. QED
      BY <1>12, <2>1
  <1>16. Len(Bytes(r)) = 3 * h + 5 + Len(r.body)
    BY <1>1, <1>12
  <1>17. QED
    BY <1>12, <1>13, <1>14, <1>15, <1>16 DEF S

(* Where the lines end with an LF only, one follows the first word.        *)
LEMMA BytesWithLf ==
  ASSUME NEW r \in Requests, r.eol = <<LF>>
  PROVE  /\ Bytes(r) \in Seq(BytesIn(r))
         /\ Len(Bytes(r)) >= 2 /\ Bytes(r)[1] = r.line /\ Bytes(r)[2] = LF
  <1> DEFINE S == BytesIn(r)
             h == Len(r.headers)
             lines == <<r.line>> \o r.headers
             t == 2 * (h + 1)
             head == [i \in 1..t |-> IF i % 2 = 1 THEN lines[i \div 2 + 1]
                                     ELSE <<LF>>[(i - 1) % 2]]
  <1>1. h \in Nat /\ t \in Nat /\ t = 2 * h + 2 /\ Len(r.body) \in Nat
    BY RequestAssumption
  <1>2. /\ Len(lines) = h + 1
        /\ \A k \in 0..h : lines[k + 1] = Word(r, k) /\ Word(r, k) \in S
    BY LinesOfHead DEF BytesIn
  <1>3. Len(r.eol) = 1 /\ LF \in S
    BY DEF BytesIn
  <1>5. Bytes(r) = head \o r.eol \o r.body
    <2>1. 1 + Len(r.eol) = 2 /\ 2 * Len(<<r.line>> \o r.headers) = 2 * (h + 1)
      BY <1>2, <1>3
    <2>2. QED
      BY <2>1 DEF Bytes
  <1> HIDE DEF S, lines, h
  <1>6. ASSUME NEW i \in 1..t
        PROVE  /\ i % 2 = 1 => i \div 2 \in 0..h
               /\ i % 2 # 1 => (i - 1) % 2 = 1
    BY <1>1
  <1>7. <<LF>>[1] = LF
    OBVIOUS
  <1>8. \A i \in 1..t : /\ i % 2 = 1 => head[i] = lines[i \div 2 + 1]
                        /\ i % 2 # 1 => head[i] = <<LF>>[(i - 1) % 2]
    OBVIOUS
  <1>9. head \in [1..t -> S]
    <2>1. ASSUME NEW i \in 1..t
          PROVE  (IF i % 2 = 1 THEN lines[i \div 2 + 1] ELSE <<LF>>[(i - 1) % 2]) \in S
      BY <1>2, <1>3, <1>6, <1>7
    <2>2. QED
      BY <2>1
  <1> HIDE DEF head, t
  <1>10. head[1] = r.line /\ head[2] = LF /\ 1 \in 1..t /\ 2 \in 1..t
    <2>1. /\ 1 \in 1..t /\ 2 \in 1..t /\ 1 % 2 = 1 /\ 1 \div 2 + 1 = 0 + 1 /\ 0 \in 0..h
          /\ 2 % 2 # 1 /\ (2 - 1) % 2 = 1
      BY <1>1
    <2>2. head[1] = lines[0 + 1] /\ head[2] = <<LF>>[1]
      BY <1>8, <2>1
    <2>3. lines[0 + 1] = Word(r, 0)
      BY <1>2, <2>1
    <2>4. QED
      BY <1>7, <2>1, <2>2, <2>3 DEF Word
  <1>11. /\ Bytes(r) \in Seq(S) /\ Len(Bytes(r)) = t + 1 + Len(r.body)
         /\ \A i \in 1..t : Bytes(r)[i] = head[i]
    <2>1. /\ Bytes(r) \in Seq(BytesIn(r))
          /\ Len(Bytes(r)) = t + Len(r.eol) + Len(r.body)
          /\ \A i \in 1..t : Bytes(r)[i] = head[i]
      BY <1>1, <1>5, <1>9, HeadAndBody DEF S
    <2>2. QED
      BY <1>3, <2>1 DEF S
  <1>12. Len(Bytes(r)) >= 2
    <2>1. t \in Nat /\ t >= 2
      BY <1>1
    <2>2. PICK m \in Nat : m = Len(r.body)
      BY <1>1
    <2>3. t + 1 + m >= 2
      BY <2>1
    <2>4. QED
      BY <1>11, <2>2, <2>3
  <1>13. Bytes(r)[1] = r.line /\ Bytes(r)[2] = LF
    BY <1>10, <1>11
  <1>14. QED
    BY <1>11, <1>12, <1>13 DEF S

(* Either way they are a sequence of bytes.                                *)
LEMMA BytesOfRequest ==
  ASSUME NEW r \in Requests
  PROVE  /\ Bytes(r) \in Seq(BytesIn(r)) /\ Bytes(r) \in Seq(AllBytes)
         /\ Len(Bytes(r)) \in Nat
         /\ \A i \in 1..Len(Bytes(r)) : Bytes(r)[i] \in BytesIn(r)
  <1> DEFINE b == Bytes(r)
             n == Len(b)
  <1>1. b \in Seq(BytesIn(r))
    BY RequestAssumption, BytesWithCrLf, BytesWithLf
  <1>2. n \in Nat /\ DOMAIN b = 1..n /\ b \in [1..n -> BytesIn(r)]
    BY <1>1, LenProperties
  <1>3. \A i \in 1..n : b[i] \in AllBytes
    BY <1>2 DEF AllBytes, ToSet
  <1>4. b \in [1..n -> AllBytes]
    <2> HIDE DEF b
    <2>1. QED
      BY <1>2, <1>3
  <1>5. b \in Seq(AllBytes)
    <2> HIDE DEF b, n
    <2>1. QED
      BY <1>2, <1>4, SeqDef
  <1>6. \A i \in 1..n : b[i] \in BytesIn(r)
    BY <1>2
  <1>7. QED
    BY <1>1, <1>2, <1>5, <1>6
-----------------------------------------------------------------------------
(* A set of natural numbers has a least element: the sets of the numbers   *)
(* below each of them are finite, and inclusion of finite sets is well     *)
(* founded.                                                                *)
LEMMA LeastElement ==
  ASSUME NEW T \in SUBSET Nat, T # {}
  PROVE  \E x \in T : \A y \in T : ~(y < x)
  <1> DEFINE D == {0..(x - 1) : x \in T}
             F == FiniteSubsetsOf(Nat)
             R == StrictSubsetOrdering(Nat)
  <1>1. D \subseteq F /\ D # {}
    <2>1. ASSUME NEW x \in T PROVE 0..(x - 1) \in F
      <3>1. x \in Nat /\ x - 1 \in Int /\ 0 \in Int
        OBVIOUS
      <3>2. IsFiniteSet(0..(x - 1))
        BY <3>1, FS_Interval
      <3>3. 0..(x - 1) \in SUBSET Nat
        BY <3>1
      <3>4. QED
        BY <3>2, <3>3 DEF FiniteSubsetsOf
    <2>2. PICK x \in T : TRUE
      OBVIOUS
    <2>3. 0..(x - 1) \in D
      OBVIOUS
    <2>4. QED
      BY <2>1, <2>3
  <1>2. IsWellFoundedOn(R, F)
    BY FS_StrictSubsetOrderingWellFounded
  <1>3. \E A \in D : \A B \in D : ~(<<B, A>> \in R)
    <2> HIDE DEF D, F, R
    <2>1. QED
      BY <1>1, <1>2, WFMin
  <1>4. PICK x \in T : \A B \in D : ~(<<B, 0..(x - 1)>> \in R)
    BY <1>3
  <1>5. ASSUME NEW y \in T, y < x PROVE FALSE
    <2>1. y \in Nat /\ x \in Nat
      OBVIOUS
    <2>2. 0..(y - 1) \subseteq 0..(x - 1) /\ y \in 0..(x - 1) /\ y \notin 0..(y - 1)
      BY <1>5, <2>1
    <2>3. <<0..(y - 1), 0..(x - 1)>> \in R
      BY <2>2 DEF StrictSubsetOrdering
    <2>4. QED
      BY <1>4, <2>3
  <1>6. QED
    BY <1>5

(* Lengths of sequences are numbers.                                       *)
LEMMA BufferLength ==
  ASSUME PInv
  PROVE  /\ m_read_idx \in Nat /\ READ_BUFFER_SIZE \in Nat
         /\ m_checked_idx \in Nat /\ m_start_line \in Nat
         /\ m_start_line <= m_checked_idx /\ m_checked_idx <= m_read_idx
         /\ \A i \in 1..m_read_idx : m_read_buf[i] \in AllBytes
  <1>1. m_read_idx \in Nat /\ READ_BUFFER_SIZE \in Nat
    BY LenProperties, HttpParseAssumption DEF PInv, m_read_idx
  <1>2. \A i \in 1..m_read_idx : m_read_buf[i] \in AllBytes
    BY ElementOfSeq DEF PInv, m_read_idx
  <1>3. QED
    BY <1>1, <1>2 DEF PInv, TypeOK

(* parse_line() looks at the first CR or LF from m_checked_idx on.         *)
LEMMA FirstLineEnd ==
  ASSUME PInv, LineEnds # {}
  PROVE  /\ LineEnd \in m_checked_idx..(m_read_idx - 1)
         /\ Byte(LineEnd) \in {CR, LF}
         /\ \A i \in m_checked_idx..(LineEnd - 1) : Byte(i) \notin {CR, LF}
  <1>1. LineEnds \in SUBSET Nat
    BY BufferLength DEF LineEnds
  <1>2. \E x \in LineEnds : \A y \in LineEnds : ~(y < x)
    BY <1>1, LeastElement
  <1>3. \E x \in LineEnds : \A y \in LineEnds : x <= y
    BY <1>1, <1>2
  <1>4. LineEnd \in LineEnds /\ \A y \in LineEnds : LineEnd <= y
    BY <1>3 DEF LineEnd, Min
  <1>5. LineEnd \in m_checked_idx..(m_read_idx - 1) /\ Byte(LineEnd) \in {CR, LF}
    BY <1>4 DEF LineEnds
  <1>6. ASSUME NEW i \in m_checked_idx..(LineEnd - 1)
        PROVE  Byte(i) \notin {CR, LF}
    <2>1. i \in m_checked_idx..(m_read_idx - 1) /\ ~(LineEnd <= i)
      BY <1>5, BufferLength
    <2>2. QED
      BY <1>4, <2>1 DEF LineEnds
  <1>7. QED
    BY <1>5, <1>6

(* The byte before a line's end is no CR.                                  *)
LEMMA BeforeLineEnd ==
  ASSUME PInv, LineEnds # {}, LineEnd > 0
  PROVE  Byte(LineEnd - 1) # CR
  <1>1. LineEnd \in m_checked_idx..(m_read_idx - 1) /\ m_checked_idx \in Nat
    BY FirstLineEnd, BufferLength
  <1>2. CASE LineEnd = m_checked_idx
    BY <1>2 DEF PInv, NoCrBefore
  <1>3. CASE LineEnd # m_checked_idx
    <2>1. LineEnd - 1 \in m_checked_idx..(LineEnd - 1)
      BY <1>1, <1>3
    <2>2. QED
      BY <2>1, FirstLineEnd
  <1>4. QED
    BY <1>2, <1>3

(* So a line is found at its CR; the branch of parse_line() for an LF      *)
(* after a CR is never taken.                                              *)
LEMMA FoundAtCr ==
  ASSUME PInv, LineOK
  PROVE  /\ Byte(LineEnd) = CR /\ CrIndex = LineEnd
         /\ Byte(LineEnd + 1) = LF /\ LineEnd + 1 < m_read_idx
         /\ LineEnd \in m_checked_idx..(m_read_idx - 2)
  <1>1. LineEnds # {} /\ LineEnd \in m_checked_idx..(m_read_idx - 1)
    BY FirstLineEnd DEF LineOK
  <1>2. ~(Byte(LineEnd) = LF /\ LineEnd > 1 /\ Byte(LineEnd - 1) = CR)
    <2>1. LineEnd \in Nat
      BY <1>1, BufferLength
    <2>2. QED
      BY <1>1, <2>1, BeforeLineEnd
  <1>3. /\ Byte(LineEnd) = CR /\ LineEnd + 1 < m_read_idx /\ Byte(LineEnd + 1) = LF
    BY <1>2 DEF LineOK
  <1>4. LineEnd \in m_checked_idx..(m_read_idx - 2)
    BY <1>1, <1>3, BufferLength
  <1>5. QED
    BY <1>3, <1>4 DEF CrIndex

(* What an iteration makes of the buffer.                                  *)
LEMMA IterationStays ==
  ASSUME PInv, Again
  PROVE  /\ NextBuf \in Seq(AllBytes) /\ Len(NextBuf) = m_read_idx
         /\ NextChecked \in m_checked_idx..m_read_idx
         /\ NextChecked > 0 => NextBuf[NextChecked] # CR
  <1>1. m_read_buf \in Seq(AllBytes) /\ m_checked_idx \in Nat /\ m_read_idx \in Nat
        /\ m_checked_idx <= m_read_idx
    BY BufferLength DEF PInv
  <1>2. CASE AtContent
    <2>1. NextBuf = m_read_buf /\ NextChecked = m_checked_idx
      BY <1>2 DEF NextBuf, NextChecked
    <2>2. m_checked_idx > 0 => m_read_buf[m_checked_idx] # CR
      <3>1. m_checked_idx - 1 + 1 = m_checked_idx
        BY <1>1
      <3>2. QED
        BY <3>1 DEF PInv, NoCrBefore, Byte
    <2>3. QED
      BY <1>1, <2>1, <2>2 DEF m_read_idx
  <1>3. CASE ~AtContent
    <2> DEFINE c == LineEnd
               b == [m_read_buf EXCEPT ![c + 1] = NUL]
    <2>1. /\ CrIndex = c /\ c \in m_checked_idx..(m_read_idx - 2)
      BY <1>3, FoundAtCr DEF Again
    <2> HIDE DEF c
    <2>2. /\ NextBuf = [b EXCEPT ![c + 2] = NUL]
          /\ NextChecked = c + 2
      BY <1>3, <2>1 DEF NextBuf, NextChecked
    <2>3. c + 1 \in 1..Len(m_read_buf) /\ c + 2 \in 1..Len(m_read_buf) /\ c + 2 > 0
          /\ NUL \in AllBytes /\ NUL # CR
      BY <1>1, <2>1 DEF m_read_idx, AllBytes, NUL, CR
    <2>4. b \in Seq(AllBytes) /\ Len(b) = Len(m_read_buf)
      BY <1>1, <2>3, ExceptSeq
    <2> HIDE DEF b
    <2>5. /\ NextBuf \in Seq(AllBytes) /\ Len(NextBuf) = Len(b)
          /\ NextBuf[c + 2] = NUL
      BY <2>2, <2>3, <2>4, ExceptSeq
    <2>6. NextChecked \in m_checked_idx..m_read_idx
      BY <1>1, <2>1, <2>2
    <2>7. QED
      BY <2>2, <2>3, <2>4, <2>5, <2>6 DEF m_read_idx
  <1>4. QED
    BY <1>2, <1>3
-----------------------------------------------------------------------------
(* The buffer is empty at first.                                           *)
LEMMA PInit == Init => PInv
  <1> SUFFICES ASSUME Init
               PROVE  PInv
    OBVIOUS
  <1>1. m_read_buf \in Seq(AllBytes) /\ net \in Seq(AllBytes) /\ m_read_idx = 0
    BY EmptySeq DEF Init, m_read_idx
  <1>2. TypeOK
    <2>1. READ_BUFFER_SIZE \in Nat
      BY HttpParseAssumption
    <2>2. /\ m_read_idx <= READ_BUFFER_SIZE
          /\ m_checked_idx \in 0..m_read_idx /\ m_start_line \in 0..m_checked_idx
      BY <1>1, <2>1 DEF Init
    <2>3. m_content_length \in Int /\ cgi \in {0, 1}
      BY DEF Init
    <2>4. QED
      BY <2>2, <2>3, Zenon DEF Init, TypeOK
  <1>3. NoCrBefore
    BY DEF Init, NoCrBefore
  <1>4. QED
    BY <1>1, <1>2, <1>3 DEF PInv

(* init() empties it.                                                      *)
LEMMA InitConnEmpties ==
  ASSUME PInv, InitConn
  PROVE  /\ m_read_buf' \in Seq(AllBytes) /\ m_read_idx' = 0 /\ 0 <= READ_BUFFER_SIZE
         /\ NoCrBefore'
  <1>1. m_read_buf' \in Seq(AllBytes) /\ m_read_idx' = 0
    BY EmptySeq DEF InitConn, m_read_idx
  <1>2. QED
    BY <1>1, BufferLength DEF InitConn, NoCrBefore

(* The bytes of a request are read in order; what is left stays bytes.     *)
LEMMA ReadOnceStays ==
  ASSUME PInv, NEW n \in 1..Len(net), ReadOnce(n)
  PROVE  /\ m_read_buf' \in Seq(AllBytes) /\ net' \in Seq(AllBytes)
         /\ m_read_idx' \in m_read_idx..READ_BUFFER_SIZE
         /\ NoCrBefore'
  <1> DEFINE s == SubSeq(net, 1, n)
  <1>1. m_read_buf \in Seq(AllBytes) /\ net \in Seq(AllBytes) /\ Len(net) \in Nat
        /\ m_read_idx \in Nat
    BY BufferLength, LenProperties DEF PInv
  <1>2. \A i \in 1..Len(net) : net[i] \in AllBytes
    BY <1>1, ElementOfSeq
  <1>3. s \in Seq(AllBytes) /\ Len(s) = n
    <2>1. n \in Int /\ 1 <= n /\ \A i \in 1..n : net[i] \in AllBytes
      BY <1>1, <1>2
    <2>2. s \in Seq(AllBytes) /\ Len(s) = IF 1 <= n THEN n - 1 + 1 ELSE 0
      BY <2>1, SubSeqProperties
    <2> HIDE DEF s
    <2>3. QED
      BY <2>1, <2>2
  <1>4. net' \in Seq(AllBytes)
    <2>1. \A i \in n + 1..Len(net) : net[i] \in AllBytes
      BY <1>1, <1>2
    <2>2. n + 1 \in Int /\ Len(net) \in Int
      BY <1>1
    <2>3. SubSeq(net, n + 1, Len(net)) \in Seq(AllBytes)
      BY <2>1, <2>2, SubSeqProperties
    <2>4. QED
      BY <2>3 DEF ReadOnce
  <1>5. m_read_buf' = m_read_buf \o s
    BY DEF ReadOnce
  <1> HIDE DEF s
  <1>6. /\ m_read_buf' \in Seq(AllBytes) /\ Len(m_read_buf') = Len(m_read_buf) + n
        /\ \A i \in 1..Len(m_read_buf) + n :
               m_read_buf'[i] = IF i <= Len(m_read_buf) THEN m_read_buf[i]
                                ELSE s[i - Len(m_read_buf)]
    BY <1>1, <1>3, <1>5, ConcatProperties
  <1>7. n <= READ_BUFFER_SIZE - m_read_idx /\ m_checked_idx' = m_checked_idx
    BY DEF ReadOnce, Space, indexVars
  <1>8. m_read_idx' \in m_read_idx..READ_BUFFER_SIZE
    BY <1>1, <1>6, <1>7, BufferLength DEF m_read_idx
  <1>9. NoCrBefore'
    <2> SUFFICES ASSUME m_checked_idx > 0
                 PROVE  m_read_buf'[m_checked_idx - 1 + 1] # CR
      BY <1>7 DEF NoCrBefore, Byte
    <2>1. /\ m_checked_idx - 1 + 1 \in 1..Len(m_read_buf) + n
          /\ m_checked_idx - 1 + 1 <= Len(m_read_buf)
      BY <1>1, BufferLength DEF m_read_idx
    <2>2. m_read_buf'[m_checked_idx - 1 + 1] = m_read_buf[m_checked_idx - 1 + 1]
      BY <1>6, <2>1
    <2>3. QED
      BY <2>2 DEF PInv, NoCrBefore, Byte
  <1>10. QED
    BY <1>4, <1>6, <1>8, <1>9

(* The loop of process_read() goes on with a line that ends in the buffer. *)
LEMMA IterationKeeps ==
  ASSUME PInv, StartIteration, m_read_buf' = NextBuf
  PROVE  /\ m_read_buf' \in Seq(AllBytes) /\ net' \in Seq(AllBytes)
         /\ m_read_idx' = m_read_idx /\ m_read_idx' <= READ_BUFFER_SIZE
         /\ m_checked_idx' \in 0..m_read_idx' /\ m_start_line' \in 0..m_checked_idx'
         /\ asked' = asked
         /\ NoCrBefore'
  <1>1. /\ NextBuf \in Seq(AllBytes) /\ Len(NextBuf) = m_read_idx
        /\ NextChecked \in m_checked_idx..m_read_idx
        /\ NextChecked > 0 => NextBuf[NextChecked] # CR
    BY IterationStays DEF StartIteration
  <1>2. /\ m_checked_idx' = NextChecked /\ m_start_line' = NextChecked
        /\ net' = net /\ asked' = asked
    BY DEF StartIteration, clientVars
  <1>3. m_read_idx' = m_read_idx /\ m_read_idx' <= READ_BUFFER_SIZE
    BY <1>1 DEF m_read_idx, PInv, TypeOK
  <1>4. m_checked_idx' \in 0..m_read_idx' /\ m_start_line' \in 0..m_checked_idx'
    BY <1>1, <1>2, <1>3, BufferLength
  <1>5. NoCrBefore'
    <2>1. NextChecked - 1 + 1 = NextChecked
      BY <1>1, BufferLength
    <2>2. QED
      BY <1>1, <1>2, <2>1 DEF NoCrBefore, Byte
  <1>6. QED
    BY <1>1, <1>2, <1>3, <1>4, <1>5 DEF PInv

(* No step takes an index out of the buffer or leaves a CR behind.         *)
LEMMA PNext == PInv /\ [Next]_vars => PInv'
  <1> SUFFICES ASSUME PInv, [Next]_vars
               PROVE  PInv'
    OBVIOUS
  <1>1. /\ m_read_buf \in Seq(AllBytes) /\ net \in Seq(AllBytes)
        /\ TypeOK /\ NoCrBefore
    BY DEF PInv
  <1>2. ASSUME UNCHANGED <<m_read_buf, m_checked_idx>>
        PROVE  m_read_idx' = m_read_idx /\ NoCrBefore'
    BY <1>1, <1>2 DEF m_read_idx, NoCrBefore, Byte
  <1>3. ASSUME NEW r \in Requests, Send(r)
        PROVE  PInv'
    <2>1. /\ asked' = r /\ net' = net \o Bytes(r) /\ split' = FALSE /\ understood' = FALSE
          /\ UNCHANGED <<m_read_buf, indexVars, m_check_state, requestVars, line_stats, pc,
                         verdict, strayed>>
      BY <1>3 DEF Send
    <2>2. net' \in Seq(AllBytes)
      <3>1. Bytes(r) \in Seq(AllBytes)
        BY BytesOfRequest
      <3>2. QED
        BY <1>1, <2>1, <3>1, ConcatProperties
    <2>3. /\ asked' \in Requests \cup {NoRequest} /\ split' \in BOOLEAN
          /\ understood' \in BOOLEAN
          /\ UNCHANGED <<m_checked_idx, m_start_line, m_check_state, m_url, cgi, m_linger,
                         m_content_length, m_string, line_stats, pc, verdict, strayed>>
      BY <2>1 DEF indexVars, requestVars
    <2>4. m_read_idx' = m_read_idx /\ NoCrBefore'
      BY <1>2, <2>1 DEF indexVars
    <2>5. TypeOK'
      BY <1>1, <2>3, <2>4 DEF TypeOK
    <2>6. QED
      BY <2>2, <2>4, <2>5, <2>1, <1>1 DEF PInv
  <1>4. ASSUME NEW n \in 1..Len(net), ReadOnce(n)
        PROVE  PInv'
    <2>1. /\ m_read_buf' \in Seq(AllBytes) /\ net' \in Seq(AllBytes)
          /\ m_read_idx' \in m_read_idx..READ_BUFFER_SIZE
          /\ NoCrBefore'
      BY <1>4, ReadOnceStays
    <2>2. /\ m_read_idx' <= READ_BUFFER_SIZE /\ m_checked_idx' \in 0..m_read_idx'
          /\ m_start_line' \in 0..m_checked_idx'
      BY <1>4, <2>1, BufferLength DEF ReadOnce, indexVars
    <2>3. TypeOK'
      BY <1>1, <1>4, <2>2 DEF ReadOnce, TypeOK, requestVars, historyVars
    <2>4. QED
      BY <2>1, <2>3 DEF PInv
  <1>5. CASE ReadFull \/ Close \/ Process \/ NoResource \/ UNCHANGED vars
    <2>1. /\ UNCHANGED <<clientVars, m_read_buf, indexVars, m_check_state, requestVars,
                         verdict, historyVars>>
          /\ line_stats' \in {line_stats, "LINE_OK"}
          /\ pc' \in {pc, "parse", "closed"}
      BY <1>5 DEF ReadFull, Close, Process, NoResource, vars
    <2>2. TypeOK' /\ NoCrBefore'
      BY <1>1, <1>2, <2>1 DEF TypeOK, clientVars, indexVars, requestVars, historyVars
    <2>3. QED
      BY <1>1, <2>1, <2>2 DEF PInv, clientVars
  <1>6. CASE ReturnNoRequest
    <2>1. UNCHANGED <<clientVars, m_read_buf, m_start_line, m_check_state, requestVars,
                      historyVars>>
          /\ m_checked_idx' = (IF LineEnds = {} THEN m_read_idx ELSE LineEnd)
          /\ line_stats' \in {"LINE_OPEN", "LINE_BAD"} /\ verdict' = "NO_REQUEST"
          /\ pc' = "idle"
      BY <1>6 DEF ReturnNoRequest
    <2>2. m_checked_idx' \in m_checked_idx..m_read_idx
      BY <2>1, FirstLineEnd, BufferLength
    <2>3. NoCrBefore'
      <3>1. CASE LineEnds = {}
        <4>1. m_checked_idx' = m_read_idx
          BY <2>1, <3>1
        <4>2. CASE m_checked_idx = m_read_idx
          BY <1>2, <2>1, <4>1, <4>2
        <4>3. CASE m_checked_idx # m_read_idx
          <5>1. m_read_idx - 1 \in m_checked_idx..(m_read_idx - 1)
            BY <4>3, BufferLength
          <5>2. Byte(m_read_idx - 1) # CR
            BY <3>1, <5>1 DEF LineEnds
          <5>3. QED
            BY <2>1, <4>1, <5>2 DEF NoCrBefore, Byte
        <4>4. QED
          BY <4>2, <4>3
      <3>2. CASE LineEnds # {}
        <4>1. m_checked_idx' = LineEnd
          BY <2>1, <3>2
        <4>2. LineEnd > 0 => Byte(LineEnd - 1) # CR
          BY <3>2, BeforeLineEnd
        <4>3. QED
          BY <2>1, <4>1, <4>2 DEF NoCrBefore, Byte
      <3>3. QED
        BY <3>1, <3>2
    <2>4. /\ m_read_idx' = m_read_idx
          /\ m_checked_idx' \in 0..m_read_idx' /\ m_start_line' \in 0..m_checked_idx'
      BY <2>1, <2>2, BufferLength DEF m_read_idx
    <2>5. TypeOK'
      BY <1>1, <2>1, <2>4 DEF TypeOK, clientVars, requestVars, historyVars
    <2>6. QED
      BY <1>1, <2>1, <2>3, <2>5 DEF PInv, clientVars
  <1>7. CASE parse_request_line
    <2>1. StartIteration /\ m_read_buf' = NextBuf
      BY <1>7 DEF parse_request_line
    <2>2. /\ line_stats' = "LINE_OK" /\ m_check_state' \in {m_check_state, "HEADER"}
          /\ m_url' \in {m_url} \cup GetLines \cup PostLines /\ cgi' \in {cgi, 1}
          /\ pc' \in {pc, "reply", "undefined"} /\ verdict' \in {verdict, "BAD_REQUEST"}
          /\ UNCHANGED <<m_linger, m_content_length, m_string, historyVars>>
      BY <1>7 DEF parse_request_line, Return
    <2>3. TypeOK'
      BY <1>1, <2>1, <2>2, IterationKeeps DEF TypeOK, historyVars
    <2>4. QED
      BY <2>1, <2>3, IterationKeeps DEF PInv
  <1>8. CASE parse_headers
    <2>1. StartIteration /\ m_read_buf' = NextBuf
      BY <1>8 DEF parse_headers
    <2>2. m_content_length' \in Int
      <3>1. CASE \E h \in DOMAIN Lengths : get_line = <<h>>
        <4>1. PICK h \in DOMAIN Lengths : get_line = <<h>>
          BY <3>1
        <4>2. m_content_length' = Lengths[h]
          BY <1>8, <4>1 DEF parse_headers
        <4>3. QED
          BY <4>2, HttpParseAssumption
      <3>2. CASE ~\E h \in DOMAIN Lengths : get_line = <<h>>
        BY <1>1, <1>8, <3>2 DEF parse_headers, TypeOK
      <3>3. QED
        BY <3>1, <3>2
    <2>3. /\ line_stats' = "LINE_OK" /\ m_check_state' \in {"CONTENT", "HEADER"}
          /\ m_linger' \in BOOLEAN /\ UNCHANGED <<m_url, cgi, m_string, split, strayed>>
          /\ pc' \in {pc, "reply", "undefined"} /\ verdict' \in {verdict, "GET_REQUEST"}
          /\ understood' \in {understood, TRUE}
      BY <1>8 DEF parse_headers, do_request, Return
    <2>4. understood' \in BOOLEAN
      BY <1>1, <2>3 DEF TypeOK
    <2>5. /\ m_read_idx' <= READ_BUFFER_SIZE /\ asked' = asked
          /\ m_checked_idx' \in 0..m_read_idx' /\ m_start_line' \in 0..m_checked_idx'
      BY <2>1, IterationKeeps
    <2>6. TypeOK'
      BY <1>1, <2>2, <2>3, <2>4, <2>5 DEF TypeOK
    <2>7. QED
      BY <2>1, <2>6, IterationKeeps DEF PInv
  <1>9. CASE AwaitContent
    <2>1. StartIteration /\ m_read_buf' = NextBuf
      BY <1>9 DEF AwaitContent
    <2>2. /\ line_stats' = "LINE_OPEN" /\ split' \in BOOLEAN
          /\ UNCHANGED <<m_check_state, requestVars, pc, verdict, understood, strayed>>
      BY <1>1, <1>9 DEF AwaitContent, TypeOK
    <2>3. TypeOK'
      BY <1>1, <2>1, <2>2, IterationKeeps DEF TypeOK, requestVars
    <2>4. QED
      BY <2>1, <2>3, IterationKeeps DEF PInv
  <1>10. CASE ParseContent
    <2> DEFINE k == m_start_line + m_content_length + 1
               b == [i \in 1..m_read_idx |-> IF i = k THEN NUL ELSE NextBuf[i]]
    <2>1. /\ StartIteration /\ m_read_buf' = b
          /\ m_string' = m_start_line /\ line_stats' = "LINE_OK"
          /\ pc' \in {"reply", "undefined"} /\ verdict' \in {verdict, "GET_REQUEST"}
          /\ understood' \in {understood, TRUE}
          /\ UNCHANGED <<m_check_state, m_url, cgi, m_linger, m_content_length, split, strayed>>
      BY <1>10 DEF ParseContent, do_request, Return
    <2>2. /\ NextBuf \in Seq(AllBytes) /\ Len(NextBuf) = m_read_idx
          /\ NextChecked \in m_checked_idx..m_read_idx
          /\ NextChecked > 0 => NextBuf[NextChecked] # CR
      BY <2>1, IterationStays DEF StartIteration
    <2>3. m_read_idx \in Nat /\ \A i \in 1..m_read_idx : NextBuf[i] \in AllBytes
      BY <2>2, BufferLength, ElementOfSeq
    <2>4. NUL \in AllBytes /\ NUL # CR
      BY DEF AllBytes, NUL, CR
    <2>5. b \in [1..m_read_idx -> AllBytes]
      BY <2>3, <2>4
    <2>6. \A i \in 1..m_read_idx : NextBuf[i] # CR => b[i] # CR
      BY <2>4
    <2> HIDE DEF k, b
    <2>7. b \in Seq(AllBytes) /\ Len(b) = m_read_idx
      <3>1. b \in Seq(AllBytes)
        BY <2>3, <2>5, SeqDef
      <3>2. Len(b) \in Nat /\ 1..Len(b) = 1..m_read_idx
        BY <2>5, <3>1, LenProperties
      <3>3. /\ Len(b) <= m_read_idx \/ Len(b) \in 1..m_read_idx
            /\ m_read_idx <= Len(b) \/ m_read_idx \in 1..Len(b)
        BY <2>3, <3>2
      <3>4. QED
        BY <2>3, <3>1, <3>2, <3>3
    <2>8. m_checked_idx' = NextChecked /\ m_start_line' = NextChecked
          /\ net' = net /\ asked' = asked
      BY <2>1 DEF StartIteration, clientVars
    <2>9. m_read_buf' \in Seq(AllBytes) /\ m_read_idx' = m_read_idx
      BY <2>1, <2>7 DEF m_read_idx
    <2>10. /\ m_read_idx' <= READ_BUFFER_SIZE
           /\ m_checked_idx' \in 0..m_read_idx' /\ m_start_line' \in 0..m_checked_idx'
      <3>1. m_read_idx <= READ_BUFFER_SIZE
        BY <1>1 DEF TypeOK
      <3>2. QED
        BY <2>2, <2>8, <2>9, <3>1, BufferLength
    <2>11. NoCrBefore'
      <3> SUFFICES ASSUME NextChecked > 0
                   PROVE  b[NextChecked - 1 + 1] # CR
        BY <2>1, <2>8 DEF NoCrBefore, Byte
      <3>1. NextChecked - 1 + 1 = NextChecked /\ NextChecked \in 1..m_read_idx
        BY <2>2, BufferLength
      <3>2. QED
        BY <2>2, <2>6, <3>1
    <2>12. m_string' \in Nat /\ understood' \in BOOLEAN
      BY <1>1, <2>1, BufferLength DEF TypeOK
    <2>13. TypeOK'
      BY <1>1, <2>1, <2>8, <2>10, <2>12 DEF TypeOK
    <2>14. QED
      BY <1>1, <2>8, <2>9, <2>11, <2>13 DEF PInv
  <1>11. ASSUME InitConn, net' \in {net, <<>>}, asked' \in {asked, NoRequest}, pc' = "idle",
                strayed' \in BOOLEAN, UNCHANGED <<line_stats, verdict, split, understood>>
         PROVE  PInv'
    <2>1. /\ m_read_buf' \in Seq(AllBytes) /\ m_read_idx' = 0 /\ 0 <= READ_BUFFER_SIZE
          /\ NoCrBefore'
      BY <1>11, InitConnEmpties
    <2>2. /\ m_read_idx' <= READ_BUFFER_SIZE
          /\ m_checked_idx' \in 0..m_read_idx' /\ m_start_line' \in 0..m_checked_idx'
      BY <1>11, <2>1 DEF InitConn
    <2>3. TypeOK'
      <3>1. /\ m_check_state' = "REQUESTLINE" /\ m_url' = "none" /\ cgi' \in {0, 1}
            /\ m_linger' = FALSE /\ m_content_length' \in Int /\ m_string' = m_string
        BY <1>11 DEF InitConn
      <3>2. QED
        BY <1>1, <1>11, <2>2, <3>1 DEF TypeOK
    <2>4. net' \in Seq(AllBytes)
      BY <1>1, <1>11, EmptySeq
    <2>5. QED
      BY <2>1, <2>3, <2>4 DEF PInv
  <1>12. CASE Accept \/ ErrorPage
    <2>1. /\ InitConn /\ net' \in {net, <<>>} /\ asked' \in {asked, NoRequest} /\ pc' = "idle"
          /\ strayed' \in {FALSE, strayed} /\ UNCHANGED <<line_stats, verdict, split, understood>>
      BY <1>12 DEF Accept, ErrorPage, clientVars, historyVars
    <2>2. strayed' \in BOOLEAN
      BY <1>1, <2>1 DEF TypeOK
    <2>3. QED
      BY <1>11, <2>1, <2>2
  <1>13. CASE Reply
    <2>1. /\ asked' = NoRequest /\ net' = net
          /\ UNCHANGED <<line_stats, verdict, split, understood>>
      BY <1>13 DEF Reply
    <2>2. strayed' \in BOOLEAN
      BY <1>13 DEF Reply
    <2>3. CASE m_linger
      BY <1>11, <1>13, <2>1, <2>2, <2>3 DEF Reply
    <2>4. CASE ~m_linger
      <3>1. pc' = "closed" /\ UNCHANGED <<m_read_buf, indexVars, m_check_state, requestVars>>
        BY <1>13, <2>4 DEF Reply
      <3>2. TypeOK' /\ NoCrBefore'
        BY <1>1, <1>2, <2>1, <2>2, <3>1 DEF TypeOK, indexVars, requestVars
      <3>3. QED
        BY <1>1, <2>1, <3>1, <3>2 DEF PInv
    <2>5. QED
      BY <2>3, <2>4
  <1>14. QED
    BY <1>3, <1>4, <1>5, <1>6, <1>7, <1>8, <1>9, <1>10, <1>12, <1>13
       DEF Next, read_once, process_read
-----------------------------------------------------------------------------
(* A C string ends before the first NUL,                                   *)
LEMMA CStringToNul ==
  ASSUME NEW buf, NEW from \in Nat, NEW to \in Nat, Len(buf) \in Nat,
         from <= to, to < Len(buf), buf[to + 1] = NUL,
         \A i \in from + 1..to : buf[i] # NUL
  PROVE  CString(buf, from) = SubSeq(buf, from + 1, to)
  <1> DEFINE nuls == {i \in from + 1..Len(buf) : buf[i] = NUL}
  <1>1. to + 1 \in nuls /\ \A i \in nuls : to + 1 <= i
    OBVIOUS
  <1>2. \A i \in nuls : i \in Nat
    OBVIOUS
  <1> HIDE DEF nuls
  <1>3. Min(nuls) \in nuls /\ \A i \in nuls : Min(nuls) <= i
    <2>1. \E x \in nuls : \A y \in nuls : x <= y
      BY <1>1
    <2>2. QED
      BY <2>1 DEF Min
  <1>4. Min(nuls) = to + 1
    BY <1>1, <1>2, <1>3
  <1>5. nuls # {} /\ Min(nuls) - 1 = to
    BY <1>1, <1>4
  <1>6. CString(buf, from) = SubSeq(buf, from + 1, IF nuls = {} THEN Len(buf) ELSE Min(nuls) - 1)
    BY DEF CString, nuls
  <1>7. QED
    BY <1>5, <1>6

(* or with the buffer.                                                     *)
LEMMA CStringToEnd ==
  ASSUME NEW buf, NEW from \in Nat, Len(buf) \in Nat,
         \A i \in from + 1..Len(buf) : buf[i] # NUL
  PROVE  CString(buf, from) = SubSeq(buf, from + 1, Len(buf))
  <1>1. {i \in from + 1..Len(buf) : buf[i] = NUL} = {}
    OBVIOUS
  <1>2. QED
    BY <1>1 DEF CString

(* A string of one word.                                                   *)
LEMMA OneWord ==
  ASSUME NEW S, NEW buf \in Seq(S), NEW from \in Nat, from + 1 < Len(buf),
         buf[from + 1] # NUL, buf[from + 2] = NUL
  PROVE  CString(buf, from) = <<buf[from + 1]>>
  <1>1. Len(buf) \in Nat /\ \A i \in 1..Len(buf) : buf[i] \in S
    BY LenProperties, ElementOfSeq
  <1>2. PICK m \in Nat : m = from + 1
    OBVIOUS
  <1>3. m \in 1..Len(buf) /\ m < Len(buf) /\ m \in m..Len(buf)
    BY <1>1, <1>2
  <1>4. buf[m + 1] = NUL
    <2>1. m + 1 = from + 2
      BY <1>2
    <2>2. QED
      BY <2>1
  <1>5. from <= m /\ \A i \in from + 1..m : buf[i] # NUL
    BY <1>2
  <1>6. CString(buf, from) = SubSeq(buf, from + 1, m)
    BY <1>1, <1>3, <1>4, <1>5, CStringToNul
  <1>7. CString(buf, from) = SubSeq(buf, m, m)
    BY <1>2, <1>6
  <1>8. SubSeq(buf, m, m) = <<buf[m]>> \o SubSeq(buf, m + 1, m)
    BY <1>3, SubSeqRecursiveFirst
  <1>9. SubSeq(buf, m + 1, m) = <<>>
    BY SubSeqEmpty
  <1>10. <<buf[m]>> \in Seq(S)
    BY <1>1, <1>3
  <1>11. <<buf[m]>> \o <<>> = <<buf[m]>>
    BY <1>10, ConcatEmptySeq
  <1>12. QED
    BY <1>2, <1>7, <1>8, <1>9, <1>11

(* An empty string.                                                        *)
LEMMA NoWord ==
  ASSUME NEW S, NEW buf \in Seq(S), NEW from \in Nat, from < Len(buf), buf[from + 1] = NUL
  PROVE  CString(buf, from) = <<>>
  <1>1. Len(buf) \in Nat
    BY LenProperties
  <1>2. CString(buf, from) = SubSeq(buf, from + 1, from)
    BY <1>1, CStringToNul
  <1>3. QED
    BY <1>2, SubSeqEmpty

(* Where parse_line() stops when the CR of the current line is at c, as    *)
(* far as the line has come.                                               *)
LEMMA LineFound ==
  ASSUME PInv, NEW c \in Nat, m_checked_idx <= c,
         \A i \in m_checked_idx..c - 1 : i < m_read_idx => Byte(i) \notin {CR, LF},
         c < m_read_idx => Byte(c) = CR,
         c + 1 < m_read_idx => Byte(c + 1) = LF
  PROVE  /\ LineEnds = {} => m_read_idx <= c
         /\ LineEnds # {} => LineEnd = c /\ c < m_read_idx
         /\ LineOK <=> c + 1 < m_read_idx
         /\ LineOK => CrIndex = c
  <1>1. m_read_idx \in Nat /\ m_checked_idx \in Nat
    BY BufferLength
  <1>2. c < m_read_idx => c \in LineEnds
    BY <1>1 DEF LineEnds
  <1>3. LineEnds # {} => LineEnd = c /\ c < m_read_idx
    <2> SUFFICES ASSUME LineEnds # {}
                 PROVE  LineEnd = c /\ c < m_read_idx
      OBVIOUS
    <2>1. /\ LineEnd \in m_checked_idx..(m_read_idx - 1)
          /\ Byte(LineEnd) \in {CR, LF}
          /\ \A i \in m_checked_idx..(LineEnd - 1) : Byte(i) \notin {CR, LF}
      BY FirstLineEnd
    <2>2. ~(LineEnd < c)
      BY <1>1, <2>1
    <2>3. c < m_read_idx
      BY <1>1, <2>1, <2>2
    <2>4. ~(c < LineEnd)
      BY <1>1, <2>1, <2>3
    <2>5. QED
      BY <1>1, <2>1, <2>2, <2>3, <2>4
  <1>4. LineOK => c + 1 < m_read_idx /\ CrIndex = c
    BY <1>3, FoundAtCr DEF LineOK
  <1>5. c + 1 < m_read_idx => LineOK
    BY <1>1, <1>2, <1>3 DEF LineOK
  <1>6. QED
    BY <1>1, <1>2, <1>3, <1>4, <1>5

(* What is then made of the buffer, from the start of the line.            *)
LEMMA LineTaken ==
  ASSUME PInv, Again, ~AtContent
  PROVE  LET c == CrIndex
         IN  /\ c \in m_checked_idx..m_read_idx - 2
             /\ NextChecked = c + 2
             /\ NextBuf \in Seq(AllBytes) /\ Len(NextBuf) = m_read_idx
             /\ NextBuf[c + 1] = NUL /\ NextBuf[c + 2] = NUL
             /\ \A i \in 1..m_read_idx : i \notin {c + 1, c + 2} => NextBuf[i] = m_read_buf[i]
  <1> DEFINE c == CrIndex
             b == [m_read_buf EXCEPT ![c + 1] = NUL]
  <1>1. c \in m_checked_idx..m_read_idx - 2
    BY FoundAtCr DEF Again
  <1> HIDE DEF c
  <1>2. NextBuf = [b EXCEPT ![c + 2] = NUL] /\ NextChecked = c + 2
    BY DEF NextBuf, NextChecked, c
  <1>3. /\ c + 1 \in 1..Len(m_read_buf) /\ c + 2 \in 1..Len(m_read_buf) /\ c + 1 # c + 2
        /\ NUL \in AllBytes /\ m_read_buf \in Seq(AllBytes)
    BY <1>1, BufferLength DEF PInv, m_read_idx, AllBytes
  <1>4. /\ b \in Seq(AllBytes) /\ Len(b) = Len(m_read_buf)
        /\ \A i \in 1..Len(m_read_buf) : b[i] = IF i = c + 1 THEN NUL ELSE m_read_buf[i]
    BY <1>3, ExceptSeq
  <1> HIDE DEF b
  <1>5. /\ NextBuf \in Seq(AllBytes) /\ Len(NextBuf) = Len(b)
        /\ \A i \in 1..Len(b) : NextBuf[i] = IF i = c + 2 THEN NUL ELSE b[i]
    BY <1>2, <1>3, <1>4, ExceptSeq
  <1>6. QED
    BY <1>1, <1>2, <1>3, <1>4, <1>5 DEF m_read_idx, c
-----------------------------------------------------------------------------
(***************************************************************************)
(* What the parser knows of the request while its bytes come, b being all  *)
(* of them and r the request.                                              *)
(***************************************************************************)
RequestLines == GetLines \cup PostLines

(* Nothing is lost, and nothing overwritten from the current line on.      *)
Intact(b) ==
    /\ m_read_idx + Len(net) = Len(b)
    /\ \A i \in m_start_line + 1..m_read_idx : m_read_buf[i] = b[i]
    /\ \A i \in 1..Len(net) : net[i] = b[m_read_idx + i]

(* The index of the CR of line k, an empty one after the last header.      *)
CrOf(r, k) == IF k = Len(r.headers) + 1 THEN 3 * k ELSE 3 * k + 1

BodyAt(r) == 3 * Len(r.headers) + 5

(* One of the headers before line k is in H.                               *)
Seen(r, k, H) == \E j \in 1..k - 1 : r.headers[j] \in H

Posted(r) == IF r.line \in PostLines THEN 1 ELSE 0

(* It is within line k, and knows the lines before.                        *)
AtLine(r, k) ==
    /\ m_check_state = IF k = 0 THEN "REQUESTLINE" ELSE "HEADER"
    /\ m_start_line = 3 * k /\ m_checked_idx <= CrOf(r, k)
    /\ pc = "idle" => m_read_idx <= CrOf(r, k) + 1
    /\ k > 0 => m_url = r.line
    /\ cgi = IF k > 0 THEN Posted(r) ELSE 0
    /\ m_linger <=> Seen(r, k, {KeepAlive})
    /\ m_content_length = IF Seen(r, k, DOMAIN Lengths) THEN Len(r.body) ELSE 0

(* It knows the head and waits for the body, without a part of it unless   *)
(* it has split it.                                                        *)
AtBody(r) ==
    /\ m_check_state = "CONTENT"
    /\ m_content_length = Len(r.body) /\ Len(r.body) > 0
    /\ m_url = r.line /\ cgi = Posted(r)
    /\ m_linger <=> KeepAlive \in ToSet(r.headers)
    /\ m_start_line >= BodyAt(r)
    /\ ~split =>
           /\ m_checked_idx = BodyAt(r)
           /\ pc = "idle" \/ (pc = "parse" /\ line_stats # "LINE_OK") => m_read_idx = BodyAt(r)

Reading(r) ==
    /\ Intact(Bytes(r)) /\ pc \notin {"reply", "undefined"}
    /\ AtBody(r) \/ \E k \in 0..Len(r.headers) + 1 : AtLine(r, k)

(* do_request() was called with all of it.                                 *)
Understood(r) ==
    /\ net = <<>> /\ pc \in {"reply", "idle"}
    /\ pc = "reply" =>
           /\ verdict = "GET_REQUEST"
           /\ m_url = r.line /\ (m_linger <=> KeepAlive \in ToSet(r.headers))
           /\ cgi = Posted(r)
           /\ ReadsForm => CString(m_read_buf, m_string) = r.body

(* parse_line() stops at the LF of the first line.                         *)
Stuck(r) ==
    /\ Intact(Bytes(r)) /\ pc # "reply"
    /\ m_check_state = "REQUESTLINE" /\ m_start_line = 0 /\ m_checked_idx <= 1

Fresh ==
    /\ pc = "idle" /\ m_read_buf = <<>> /\ net = <<>>
    /\ m_check_state = "REQUESTLINE" /\ m_start_line = 0
    /\ cgi = 0 /\ m_linger = FALSE /\ m_content_length = 0

(* What becomes of a request depends on its kind; of a malformed one with  *)
(* good line ends nothing is said.                                         *)
Stage(r) ==
    IF r.eol = <<LF>> THEN Stuck(r)
    ELSE WellFormed(r) => IF understood THEN Understood(r) ELSE Reading(r)

(* As long as no malformed request had a reply on the connection, it is at *)
(* a stage of what is asked, or at its start.                              *)
UInv ==
    ~strayed /\ pc \notin {"closed", "refused"} =>
        IF asked = NoRequest THEN Fresh ELSE Stage(asked)

(* What is meant by well-formed, in numbers.                               *)
LEMMA WellFormedRequest ==
  ASSUME NEW r \in Requests, WellFormed(r)
  PROVE  /\ r.eol = <<CR, LF>> /\ r.eol # <<LF>> /\ r.line \in RequestLines
         /\ \A h \in ToSet(r.headers) \cap DOMAIN Lengths : Lengths[h] = Len(r.body)
         /\ ToSet(r.headers) \cap DOMAIN Lengths = {} => Len(r.body) = 0
         /\ Len(r.body) = 0 => r.line \notin PostLines \cap FormUrls
         /\ \A j \in 1..Len(r.body) : r.body[j] # NUL
  <1>1. /\ r.eol = <<CR, LF>> /\ r.line \in RequestLines
        /\ \A h \in ToSet(r.headers) \cap DOMAIN Lengths : Lengths[h] = Len(r.body)
        /\ ToSet(r.headers) \cap DOMAIN Lengths = {} => r.body = <<>>
        /\ r.line \in PostLines \cap FormUrls => r.body # <<>>
        /\ NUL \notin ToSet(r.body)
    BY DEF WellFormed, RequestLines
  <1>2. Len(r.body) \in Nat /\ r.body \in Seq(ToSet(r.body))
        /\ \A j \in 1..Len(r.body) : r.body[j] \in ToSet(r.body)
    BY RequestAssumption
  <1>3. Len(<<CR, LF>>) = 2 /\ Len(<<LF>>) = 1
    OBVIOUS
  <1>4. r.eol # <<LF>>
    BY <1>1, <1>3
  <1>5. Len(r.body) = 0 <=> r.body = <<>>
    BY <1>2, EmptySeq
  <1>6. QED
    BY <1>1, <1>2, <1>4, <1>5

(* What is known of the headers grows with each line.                      *)
LEMMA SeenNext ==
  ASSUME NEW r \in Requests, NEW k \in 0..Len(r.headers), NEW H
  PROVE  Seen(r, k + 1, H) <=> Seen(r, k, H) \/ (k > 0 /\ r.headers[k] \in H)
  <1>1. Len(r.headers) \in Nat
    BY RequestAssumption
  <1>2. \A j : j \in 1..k + 1 - 1 <=> j \in 1..k - 1 \/ (j = k /\ k > 0)
    BY <1>1
  <1>3. QED
    BY <1>2 DEF Seen

(* After the last of them all are known.                                   *)
LEMMA SeenAll ==
  ASSUME NEW r \in Requests, NEW H
  PROVE  Seen(r, Len(r.headers) + 1, H) <=> ToSet(r.headers) \cap H # {}
  <1>1. Len(r.headers) \in Nat /\ ToSet(r.headers) = {r.headers[j] : j \in 1..Len(r.headers)}
    BY RequestAssumption
  <1>2. 1..Len(r.headers) + 1 - 1 = 1..Len(r.headers)
    BY <1>1
  <1>3. QED
    BY <1>1, <1>2 DEF Seen

(* The bytes of line k.                                                    *)
LEMMA LineOfRequest ==
  ASSUME NEW r \in Requests, r.eol = <<CR, LF>>, NEW k \in 0..Len(r.headers) + 1
  PROVE  LET c == CrOf(r, k)
             b == Bytes(r)
         IN  /\ c \in Nat /\ k \in Nat /\ c + 2 <= BodyAt(r) /\ BodyAt(r) \in Nat
             /\ Len(b) = BodyAt(r) + Len(r.body)
             /\ b[c + 1] = CR /\ b[c + 2] = LF
             /\ k <= Len(r.headers) =>
                    /\ c = 3 * k + 1 /\ b[3 * k + 1] = Word(r, k)
                    /\ Word(r, k) \notin {CR, LF, NUL}
             /\ k = Len(r.headers) + 1 => c = 3 * k /\ c + 2 = BodyAt(r)
  <1> DEFINE h == Len(r.headers)
             b == Bytes(r)
  <1>1. h \in Nat /\ r.line \notin {CR, LF, NUL}
        /\ \A j \in 1..h : r.headers[j] \notin {CR, LF, NUL}
    BY RequestAssumption
  <1>2. /\ Len(b) = 3 * h + 5 + Len(r.body)
        /\ \A j \in 0..h : b[3 * j + 1] = Word(r, j) /\ b[3 * j + 2] = CR /\ b[3 * j + 3] = LF
        /\ b[3 * h + 4] = CR /\ b[3 * h + 5] = LF
    BY BytesWithCrLf
  <1> HIDE DEF h, b
  <1>3. CASE k = h + 1
    <2>1. PICK c : c = CrOf(r, k)
      OBVIOUS
    <2>2. c = 3 * k /\ c + 1 = 3 * h + 4 /\ c + 2 = 3 * h + 5
      BY <1>1, <1>3, <2>1 DEF CrOf, h
    <2>3. BodyAt(r) = 3 * h + 5
      BY DEF BodyAt, h
    <2>4. b[c + 1] = CR /\ b[c + 2] = LF
      BY <1>2, <2>2
    <2>5. c \in Nat /\ k \in Nat /\ c + 2 <= BodyAt(r) /\ BodyAt(r) \in Nat /\ ~(k <= h)
      BY <1>1, <1>3, <2>2, <2>3
    <2>6. QED
      BY <1>2, <2>1, <2>2, <2>3, <2>4, <2>5 DEF h, b
  <1>4. CASE k # h + 1
    <2>1. k \in 0..h
      BY <1>1, <1>4 DEF h
    <2>2. CrOf(r, k) = 3 * k + 1 /\ 3 * k + 1 + 1 = 3 * k + 2 /\ 3 * k + 1 + 2 = 3 * k + 3
      BY <1>1, <1>4, <2>1 DEF CrOf, h
    <2>3. BodyAt(r) = 3 * h + 5
      BY DEF BodyAt, h
    <2>4. Word(r, k) \notin {CR, LF, NUL}
      <3>1. k = 0 \/ k \in 1..h
        BY <1>1, <2>1
      <3>2. QED
        BY <1>1, <3>1 DEF Word
    <2>5. b[3 * k + 1] = Word(r, k) /\ b[3 * k + 2] = CR /\ b[3 * k + 3] = LF
      BY <1>2, <2>1
    <2>6. CrOf(r, k) \in Nat /\ k \in Nat /\ CrOf(r, k) + 2 <= BodyAt(r) /\ BodyAt(r) \in Nat
      BY <1>1, <2>1, <2>2, <2>3
    <2>7. QED
      BY <1>2, <1>4, <2>2, <2>3, <2>4, <2>5, <2>6 DEF h, b
  <1>5. QED
    BY <1>3, <1>4
-----------------------------------------------------------------------------
(* read_once() appends the next n bytes.                                   *)
LEMMA ReadOnceAppends ==
  ASSUME PInv, NEW n \in 1..Len(net), ReadOnce(n)
  PROVE  /\ n \in Nat /\ n <= Len(net) /\ Len(net) \in Nat /\ m_read_idx \in Nat
         /\ m_read_idx' = m_read_idx + n /\ Len(net') = Len(net) - n
         /\ \A i \in 1..m_read_idx : m_read_buf'[i] = m_read_buf[i]
         /\ \A i \in 1..n : m_read_buf'[m_read_idx + i] = net[i]
         /\ \A i \in 1..Len(net) - n : net'[i] = net[n + i]
  <1> DEFINE s == SubSeq(net, 1, n)
             u == SubSeq(net, n + 1, Len(net))
             l == m_read_idx
  <1>1. m_read_buf \in Seq(AllBytes) /\ net \in Seq(AllBytes) /\ Len(net) \in Nat /\ l \in Nat
        /\ n \in Nat /\ n <= Len(net)
    BY BufferLength, LenProperties DEF PInv
  <1>2. \A i \in 1..Len(net) : net[i] \in AllBytes
    BY <1>1, ElementOfSeq
  <1>3. s \in Seq(AllBytes) /\ Len(s) = n /\ \A i \in 1..n : s[i] = net[i]
    <2>1. 1 \in Int /\ n \in Int /\ \A i \in 1..n : net[i] \in AllBytes
      BY <1>1, <1>2
    <2>2. /\ s \in Seq(AllBytes) /\ Len(s) = IF 1 <= n THEN n - 1 + 1 ELSE 0
          /\ \A i \in 1..n - 1 + 1 : s[i] = net[1 + i - 1]
      BY <2>1, SubSeqProperties
    <2> HIDE DEF s
    <2>3. QED
      BY <1>1, <2>2
  <1>4. Len(u) = Len(net) - n /\ \A i \in 1..Len(net) - n : u[i] = net[n + i]
    <2>1. PICK m \in Int : m = n + 1
      BY <1>1
    <2>2. \A i \in m..Len(net) : net[i] \in AllBytes
      BY <1>1, <1>2, <2>1
    <2>3. /\ Len(SubSeq(net, m, Len(net))) = IF m <= Len(net) THEN Len(net) - m + 1 ELSE 0
          /\ \A i \in 1..Len(net) - m + 1 : SubSeq(net, m, Len(net))[i] = net[m + i - 1]
      BY <1>1, <2>1, <2>2, SubSeqProperties
    <2>4. u = SubSeq(net, m, Len(net))
      BY <2>1
    <2> HIDE DEF u
    <2>5. Len(u) = Len(net) - n
      BY <1>1, <2>1, <2>3, <2>4
    <2>6. ASSUME NEW i \in 1..Len(net) - n
          PROVE  u[i] = net[n + i]
      <3>1. i \in 1..Len(net) - m + 1 /\ m + i - 1 = n + i
        BY <1>1, <2>1
      <3>2. QED
        BY <2>3, <2>4, <3>1
    <2>7. QED
      BY <2>5, <2>6
  <1>5. m_read_buf' = m_read_buf \o s /\ net' = u
    BY DEF ReadOnce
  <1> HIDE DEF s, u
  <1>6. /\ Len(m_read_buf') = l + n
        /\ \A i \in 1..l + n : m_read_buf'[i] = IF i <= l THEN m_read_buf[i] ELSE s[i - l]
    BY <1>1, <1>3, <1>5, ConcatProperties DEF m_read_idx
  <1> HIDE DEF l
  <1>7. \A i \in 1..l : m_read_buf'[i] = m_read_buf[i]
    BY <1>1, <1>6
  <1>8. ASSUME NEW i \in 1..n
        PROVE  m_read_buf'[l + i] = net[i]
    <2>1. PICK j : j = l + i
      OBVIOUS
    <2>2. j \in 1..l + n /\ ~(j <= l) /\ j - l = i
      BY <1>1, <2>1
    <2>3. m_read_buf'[j] = s[i]
      BY <1>6, <2>2
    <2>4. QED
      BY <1>3, <2>1, <2>3
  <1>9. m_read_idx' = l + n
    BY <1>6 DEF m_read_idx
  <1>10. QED
    BY <1>1, <1>4, <1>5, <1>7, <1>8, <1>9 DEF l

(* So what was intact stays so,                                            *)
LEMMA IntactWhenRead ==
  ASSUME PInv, NEW b, Intact(b), NEW n \in 1..Len(net), ReadOnce(n)
  PROVE  Intact(b)'
  <1> DEFINE l == m_read_idx
  <1>1. /\ l + Len(net) = Len(b)
        /\ \A i \in m_start_line + 1..l : m_read_buf[i] = b[i]
        /\ \A i \in 1..Len(net) : net[i] = b[l + i]
    BY DEF Intact
  <1>2. /\ n \in Nat /\ n <= Len(net) /\ Len(net) \in Nat /\ l \in Nat
        /\ m_read_idx' = l + n /\ Len(net') = Len(net) - n
        /\ \A i \in 1..l : m_read_buf'[i] = m_read_buf[i]
        /\ \A i \in 1..n : m_read_buf'[l + i] = net[i]
        /\ \A i \in 1..Len(net) - n : net'[i] = net[n + i]
    BY ReadOnceAppends
  <1>3. m_start_line' = m_start_line /\ m_start_line \in Nat
    BY BufferLength DEF ReadOnce, indexVars
  <1> HIDE DEF l
  <1>4. m_read_idx' + Len(net') = Len(b)
    <2>1. l + n + (Len(net) - n) = l + Len(net)
      BY <1>2
    <2>2. QED
      BY <1>1, <1>2, <2>1
  <1>5. ASSUME NEW i \in m_start_line + 1..l + n
        PROVE  m_read_buf'[i] = b[i]
    <2>1. CASE i <= l
      BY <1>1, <1>2, <1>3, <2>1
    <2>2. CASE ~(i <= l)
      <3>1. PICK j : j = i - l
        OBVIOUS
      <3>2. j \in 1..n /\ j \in 1..Len(net) /\ i = l + j
        BY <1>2, <1>3, <2>2, <3>1
      <3>3. m_read_buf'[l + j] = net[j] /\ net[j] = b[l + j]
        BY <1>1, <1>2, <3>2
      <3>4. QED
        BY <3>2, <3>3
    <2>3. QED
      BY <2>1, <2>2
  <1>6. ASSUME NEW i \in 1..Len(net) - n
        PROVE  net'[i] = b[l + n + i]
    <2>1. PICK j : j = n + i
      OBVIOUS
    <2>2. j \in 1..Len(net) /\ l + j = l + n + i
      BY <1>2, <2>1
    <2>3. net'[i] = net[j] /\ net[j] = b[l + j]
      BY <1>1, <1>2, <2>1, <2>2
    <2>4. QED
      BY <2>2, <2>3
  <1>7. QED
    BY <1>2, <1>3, <1>4, <1>5, <1>6 DEF Intact

(* and when the loop goes on from the next line.                           *)
LEMMA IntactIterates ==
  ASSUME PInv, NEW b, Intact(b), StartIteration, m_read_buf' = NextBuf
  PROVE  Intact(b)'
  <1>1. /\ m_read_idx + Len(net) = Len(b)
        /\ \A i \in m_start_line + 1..m_read_idx : m_read_buf[i] = b[i]
        /\ \A i \in 1..Len(net) : net[i] = b[m_read_idx + i]
    BY DEF Intact
  <1>2. m_start_line' = NextChecked /\ net' = net /\ m_read_idx' = m_read_idx /\ Again
    BY IterationKeeps DEF StartIteration, clientVars
  <1>3. ASSUME NEW i \in NextChecked + 1..m_read_idx
        PROVE  NextBuf[i] = m_read_buf[i] /\ i \in m_start_line + 1..m_read_idx
    <2>1. m_read_idx \in Nat /\ m_start_line \in Nat /\ m_checked_idx \in Nat
          /\ m_start_line <= m_checked_idx
      BY BufferLength
    <2>2. CASE AtContent
      BY <2>1, <2>2 DEF NextBuf, NextChecked
    <2>3. CASE ~AtContent
      <3>1. PICK c \in m_checked_idx..m_read_idx - 2 :
                /\ NextChecked = c + 2
                /\ \A j \in 1..m_read_idx :
                       j \notin {c + 1, c + 2} => NextBuf[j] = m_read_buf[j]
        BY <1>2, <2>3, LineTaken
      <3>2. i \in 1..m_read_idx /\ i \notin {c + 1, c + 2} /\ i \in m_start_line + 1..m_read_idx
        BY <2>1, <3>1
      <3>3. QED
        BY <3>1, <3>2
    <2>4. QED
      BY <2>2, <2>3
  <1>4. \A i \in NextChecked + 1..m_read_idx : NextBuf[i] = b[i]
    BY <1>1, <1>3
  <1>5. QED
    BY <1>1, <1>2, <1>4 DEF Intact

(* parse_line() finds the line the parser is in, when all of it has come,  *)
(* and the parser is given its word.                                       *)
LEMMA LineParsed ==
  ASSUME PInv, NEW r \in Requests, r.eol = <<CR, LF>>, NEW k \in 0..Len(r.headers) + 1,
         Intact(Bytes(r)), AtLine(r, k)
  PROVE  LET c == CrOf(r, k)
         IN  /\ LineEnds = {} => m_read_idx <= c
             /\ LineEnds # {} => LineEnd = c /\ c < m_read_idx
             /\ LineOK <=> c + 1 < m_read_idx
             /\ Again => /\ NextChecked = c + 2
                         /\ k <= Len(r.headers) => get_line = <<Word(r, k)>>
                         /\ k = Len(r.headers) + 1 => get_line = <<>>
  <1> DEFINE c == CrOf(r, k)
             b == Bytes(r)
             h == Len(r.headers)
             l == m_read_idx
  <1>1. /\ c \in Nat /\ k \in Nat
        /\ b[c + 1] = CR /\ b[c + 2] = LF
        /\ k <= h => c = 3 * k + 1 /\ b[3 * k + 1] = Word(r, k)
                     /\ Word(r, k) \notin {CR, LF, NUL}
        /\ k = h + 1 => c = 3 * k
    BY LineOfRequest
  <1>2. m_start_line = 3 * k /\ m_checked_idx <= c
        /\ \A i \in m_start_line + 1..l : m_read_buf[i] = b[i]
    BY DEF AtLine, Intact
  <1>3. /\ l \in Nat /\ m_checked_idx \in Nat /\ m_start_line <= m_checked_idx
        /\ m_read_buf \in Seq(AllBytes) /\ h \in Nat /\ (k <= h \/ k = h + 1)
    BY BufferLength, RequestAssumption DEF PInv
  <1> HIDE DEF c, b, h
  <1>4. m_start_line <= c /\ c <= m_start_line + 1
    BY <1>1, <1>2, <1>3
  <1>5. ASSUME NEW i \in m_start_line..c + 1, i < l
        PROVE  Byte(i) = b[i + 1]
    <2>1. i + 1 \in m_start_line + 1..l
      BY <1>1, <1>2, <1>3, <1>5
    <2>2. QED
      BY <1>2, <2>1 DEF Byte
  <1>6. c < l => Byte(c) = CR
    BY <1>1, <1>3, <1>4, <1>5
  <1>7. c + 1 < l => Byte(c + 1) = LF
    <2>1. c + 1 \in m_start_line..c + 1 /\ c + 1 + 1 = c + 2
      <3>1. c \in Nat /\ m_start_line \in Nat
        BY <1>1, BufferLength
      <3>2. QED
        BY <1>4, <3>1
    <2>2. c + 1 < l => Byte(c + 1) = b[c + 1 + 1]
      BY <1>5, <2>1
    <2>3. QED
      BY <1>1, <2>1, <2>2
  <1>8. ASSUME NEW i \in m_checked_idx..c - 1, i < l
        PROVE  Byte(i) \notin {CR, LF}
    <2>1. k <= h /\ i = 3 * k /\ i \in m_start_line..c + 1
      BY <1>1, <1>2, <1>3, <1>4
    <2>2. Byte(i) = b[3 * k + 1]
      BY <1>5, <1>8, <2>1
    <2>3. QED
      BY <1>1, <2>1, <2>2
  <1>9. /\ LineEnds = {} => l <= c
        /\ LineEnds # {} => LineEnd = c /\ c < l
        /\ LineOK <=> c + 1 < l
        /\ LineOK => CrIndex = c
    BY <1>1, <1>2, <1>6, <1>7, <1>8, LineFound
  <1>10. ASSUME Again
         PROVE  /\ NextChecked = c + 2
                /\ k <= h => get_line = <<Word(r, k)>>
                /\ k = h + 1 => get_line = <<>>
    <2>1. ~AtContent
      BY DEF AtContent, AtLine
    <2>2. CrIndex = c /\ c + 1 < l
      BY <1>9, <1>10, <2>1 DEF Again
    <2>3. /\ NextChecked = c + 2
          /\ NextBuf \in Seq(AllBytes) /\ Len(NextBuf) = l
          /\ NextBuf[c + 1] = NUL
          /\ \A i \in 1..l : i \notin {c + 1, c + 2} => NextBuf[i] = m_read_buf[i]
      BY <1>10, <2>1, <2>2, LineTaken
    <2>4. CASE k <= h
      <3>1. PICK f \in Nat : f = m_start_line /\ f + 1 = c /\ f + 2 = c + 1
        BY <1>1, <1>2, <1>3, <2>4
      <3>2. f + 1 \in 1..l /\ f + 1 \notin {c + 1, c + 2} /\ f + 1 < l /\ f \in m_start_line..c + 1
            /\ f < l /\ f + 1 = 3 * k + 1
        BY <1>1, <1>2, <1>3, <2>2, <2>4, <3>1
      <3>3. NextBuf[f + 1] = b[f + 1]
        BY <1>5, <2>3, <3>2 DEF Byte
      <3>4. NextBuf[f + 1] = Word(r, k) /\ NextBuf[f + 1] # NUL
        BY <1>1, <2>4, <3>2, <3>3
      <3>5. NextBuf[f + 2] = NUL /\ f + 1 < Len(NextBuf)
        BY <2>3, <3>1, <3>2
      <3>6. CString(NextBuf, f) = <<NextBuf[f + 1]>>
        BY <2>3, <3>4, <3>5, OneWord
      <3>7. QED
        BY <1>3, <2>3, <2>4, <3>1, <3>4, <3>6 DEF get_line
    <2>5. CASE k = h + 1
      <3>1. PICK f \in Nat : f = m_start_line /\ f = c
        BY <1>1, <1>2, <2>5
      <3>2. f < Len(NextBuf) /\ NextBuf[f + 1] = NUL
        BY <1>3, <2>2, <2>3, <3>1
      <3>3. CString(NextBuf, f) = <<>>
        BY <2>3, <3>2, NoWord
      <3>4. QED
        BY <1>3, <2>3, <2>5, <3>1, <3>3 DEF get_line
    <2>6. QED
      BY <1>3, <2>4, <2>5
  <1>11. QED
    BY <1>9, <1>10 DEF c, h
-----------------------------------------------------------------------------
(* A client's bytes come, or a worker begins.                              *)
LEMMA ReadingWaits ==
  ASSUME PInv, NEW r, Reading(r),
         (\E n \in 1..Len(net) : ReadOnce(n)) \/ Process \/ UNCHANGED vars
  PROVE  Reading(r)'
  <1>1. Intact(Bytes(r))'
    <2>1. Intact(Bytes(r))
      BY DEF Reading
    <2>2. CASE \E n \in 1..Len(net) : ReadOnce(n)
      BY <2>1, <2>2, IntactWhenRead
    <2>3. CASE Process \/ UNCHANGED vars
      <3>1. UNCHANGED <<m_read_buf, net, m_start_line>>
        BY <2>3 DEF Process, vars, clientVars, indexVars
      <3>2. m_read_idx' = m_read_idx
        BY <3>1 DEF m_read_idx
      <3>3. QED
        BY <2>1, <3>1, <3>2 DEF Intact
    <2>4. QED
      BY <2>2, <2>3
  <1>2. /\ UNCHANGED <<m_start_line, m_checked_idx, m_check_state, m_url, cgi, m_linger,
                       m_content_length, split>>
        /\ \/ pc' \in {"queued", "refused"}
           \/ pc' = "parse" /\ line_stats' = "LINE_OK"
           \/ UNCHANGED <<pc, line_stats, m_read_buf>>
    BY DEF ReadOnce, Process, vars, indexVars, requestVars, historyVars
  <1>3. UNCHANGED m_read_buf => m_read_idx' = m_read_idx
    BY DEF m_read_idx
  <1>4. pc' \notin {"reply", "undefined"}
    BY <1>2 DEF Reading
  <1>5. ASSUME AtBody(r) PROVE AtBody(r)'
    BY <1>2, <1>3, <1>5 DEF AtBody
  <1>6. ASSUME NEW k \in 0..Len(r.headers) + 1, AtLine(r, k) PROVE AtLine(r, k)'
    BY <1>2, <1>3, <1>6 DEF AtLine
  <1>7. QED
    BY <1>1, <1>4, <1>5, <1>6 DEF Reading

(* The loop ends: the line, or the body, has not come yet.                 *)
LEMMA ReadingReturns ==
  ASSUME PInv, NEW r \in Requests, r.eol = <<CR, LF>>, Reading(r), ReturnNoRequest
  PROVE  Reading(r)'
  <1>1. /\ UNCHANGED <<m_read_buf, net, m_start_line, m_check_state, m_url, cgi, m_linger,
                       m_content_length, split>>
        /\ pc = "parse" /\ ~Again /\ pc' = "idle"
        /\ m_checked_idx' = (IF LineEnds = {} THEN m_read_idx ELSE LineEnd)
    BY DEF ReturnNoRequest, clientVars, requestVars, historyVars
  <1>2. m_read_idx' = m_read_idx /\ Intact(Bytes(r))
    BY <1>1 DEF m_read_idx, Reading
  <1>3. Intact(Bytes(r))'
    BY <1>1, <1>2 DEF Intact
  <1>4. m_read_idx \in Nat /\ m_checked_idx \in Nat /\ m_checked_idx <= m_read_idx
    BY BufferLength
  <1>5. ASSUME AtBody(r) PROVE AtBody(r)'
    <2> SUFFICES ASSUME ~split
                 PROVE  m_checked_idx' = BodyAt(r) /\ m_read_idx = BodyAt(r)
      BY <1>1, <1>2, <1>5 DEF AtBody
    <2>1. line_stats # "LINE_OK"
      BY <1>1, <1>5 DEF Again, AtContent, AtBody
    <2>2. m_checked_idx = BodyAt(r) /\ m_read_idx = BodyAt(r)
      BY <1>1, <1>5, <2>1 DEF AtBody
    <2>3. LineEnds = {}
      BY <1>4, <2>2 DEF LineEnds
    <2>4. QED
      BY <1>1, <2>2, <2>3
  <1>6. ASSUME NEW k \in 0..Len(r.headers) + 1, AtLine(r, k) PROVE AtLine(r, k)'
    <2> DEFINE c == CrOf(r, k)
    <2>1. /\ LineEnds = {} => m_read_idx <= c
          /\ LineEnds # {} => LineEnd = c /\ c < m_read_idx
          /\ LineOK <=> c + 1 < m_read_idx
      BY <1>2, <1>6, LineParsed
    <2>2. c \in Nat
      BY LineOfRequest
    <2> HIDE DEF c
    <2>3. ~LineOK
      BY <1>1 DEF Again
    <2>4. m_checked_idx' <= c /\ m_read_idx <= c + 1
      BY <1>1, <1>4, <2>1, <2>2, <2>3
    <2>5. QED
      BY <1>1, <1>2, <1>6, <2>4 DEF AtLine, c
  <1>7. pc' \notin {"reply", "undefined"}
    BY <1>1
  <1>8. QED
    BY <1>3, <1>5, <1>6, <1>7 DEF Reading

(* The request line is accepted.                                           *)
LEMMA ReadingRequestLine ==
  ASSUME PInv, NEW r \in Requests, r.eol = <<CR, LF>>, r.line \in RequestLines,
         Reading(r), parse_request_line
  PROVE  Reading(r)' /\ UNCHANGED understood
  <1>1. StartIteration /\ m_read_buf' = NextBuf /\ m_check_state = "REQUESTLINE"
        /\ Again /\ pc = "parse"
        /\ UNCHANGED <<m_linger, m_content_length, understood>>
    BY DEF parse_request_line, StartIteration, Again, historyVars
  <1>2. Intact(Bytes(r)) /\ 0 \in 0..Len(r.headers) + 1 /\ 1 \in 0..Len(r.headers) + 1
        /\ Len(r.headers) \in Nat /\ 0 \in 0..Len(r.headers) /\ 0 <= Len(r.headers)
    BY RequestAssumption DEF Reading
  <1>3. AtLine(r, 0)
    BY <1>1 DEF Reading, AtBody, AtLine
  <1>4. NextChecked = 3 /\ get_line = <<r.line>>
    <2>1. NextChecked = CrOf(r, 0) + 2 /\ get_line = <<Word(r, 0)>>
      BY <1>1, <1>2, <1>3, LineParsed
    <2>2. CrOf(r, 0) = 1 /\ Word(r, 0) = r.line
      BY <1>2 DEF CrOf, Word
    <2>3. QED
      BY <2>1, <2>2
  <1>5. /\ m_url' = r.line /\ cgi' = Posted(r)
        /\ m_check_state' = "HEADER" /\ pc' = pc
    <2>1. /\ ~\A line \in GetLines \cup PostLines \cup NullLines : get_line # <<line>>
          /\ ~\E line \in NullLines : get_line = <<line>>
      <3>1. r.line \in GetLines \cup PostLines \cup NullLines /\ r.line \notin NullLines
        BY HttpParseAssumption DEF RequestLines
      <3>2. \A line : <<r.line>> = <<line>> => r.line = line
        OBVIOUS
      <3>3. QED
        BY <1>4, <3>1, <3>2
    <2>2. PICK line \in GetLines \cup PostLines :
              get_line = <<line>> /\ m_url' = line /\ cgi' = IF line \in PostLines THEN 1 ELSE cgi
      BY <2>1 DEF parse_request_line
    <2>3. line = r.line
      BY <1>4, <2>2
    <2>4. m_check_state' = "HEADER" /\ pc' = pc
      BY <2>1 DEF parse_request_line
    <2>5. cgi = 0
      BY <1>3 DEF AtLine
    <2>6. QED
      BY <2>2, <2>3, <2>4, <2>5 DEF Posted
  <1>6. m_start_line' = 3 /\ m_checked_idx' = 3
    BY <1>1, <1>4 DEF StartIteration
  <1>7. Intact(Bytes(r))'
    BY <1>1, <1>2, IntactIterates
  <1>8. AtLine(r, 1)'
    <2>1. CrOf(r, 1) >= 3 /\ 3 * 1 = 3 /\ 1 > 0 /\ 1 # 0
      BY <1>2 DEF CrOf
    <2>2. Seen(r, 0 + 1, {KeepAlive}) <=> Seen(r, 0, {KeepAlive})
      BY <1>2, SeenNext
    <2>3. Seen(r, 0 + 1, DOMAIN Lengths) <=> Seen(r, 0, DOMAIN Lengths)
      BY <1>2, SeenNext
    <2>4. 0 + 1 = 1 /\ pc' # "idle"
      BY <1>1, <1>5
    <2>5. QED
      BY <1>1, <1>3, <1>5, <1>6, <2>1, <2>2, <2>3, <2>4 DEF AtLine
  <1>9. pc' \notin {"reply", "undefined"}
    BY <1>1, <1>5
  <1>10. QED
    BY <1>1, <1>2, <1>7, <1>8, <1>9 DEF Reading

(* A header is taken down.                                                 *)
LEMMA ReadingHeader ==
  ASSUME PInv, NEW r \in Requests, WellFormed(r), Intact(Bytes(r)),
         NEW k \in 1..Len(r.headers), AtLine(r, k), parse_headers
  PROVE  Reading(r)' /\ UNCHANGED understood
  <1>1. StartIteration /\ m_read_buf' = NextBuf /\ Again /\ pc = "parse"
        /\ UNCHANGED <<m_url, cgi>>
    BY DEF parse_headers, StartIteration, Again
  <1>2. /\ Len(r.headers) \in Nat /\ k \in 0..Len(r.headers) + 1 /\ k + 1 \in 0..Len(r.headers) + 1
        /\ k \in 0..Len(r.headers) /\ k <= Len(r.headers) /\ k > 0 /\ k # 0 /\ k \in Nat
        /\ r.headers[k] \in ToSet(r.headers) /\ r.eol = <<CR, LF>>
    BY RequestAssumption, WellFormedRequest
  <1>3. NextChecked = 3 * (k + 1) /\ get_line = <<r.headers[k]>>
    <2>1. NextChecked = CrOf(r, k) + 2 /\ get_line = <<Word(r, k)>>
      BY <1>1, <1>2, LineParsed
    <2>2. CrOf(r, k) = 3 * k + 1
      BY <1>2 DEF CrOf
    <2>3. Word(r, k) = r.headers[k]
      BY <1>2 DEF Word
    <2>4. QED
      BY <1>2, <2>1, <2>2, <2>3
  <1>4. get_line # <<>>
    BY <1>3
  <1>5. /\ m_check_state' = "HEADER" /\ UNCHANGED <<pc, understood>>
        /\ m_linger' = (m_linger \/ get_line = <<KeepAlive>>)
        /\ m_content_length' =
               IF \E h \in DOMAIN Lengths : get_line = <<h>> THEN Lengths[get_line[1]]
               ELSE m_content_length
    BY <1>4 DEF parse_headers
  <1>6. m_linger' <=> Seen(r, k + 1, {KeepAlive})
    <2>1. m_linger' <=> m_linger \/ r.headers[k] = KeepAlive
      BY <1>3, <1>5
    <2>2. m_linger <=> Seen(r, k, {KeepAlive})
      BY DEF AtLine
    <2>3. QED
      BY <1>2, <2>1, <2>2, SeenNext
  <1>7. m_content_length' = IF Seen(r, k + 1, DOMAIN Lengths) THEN Len(r.body) ELSE 0
    <2>1. Seen(r, k + 1, DOMAIN Lengths) <=> Seen(r, k, DOMAIN Lengths) \/ r.headers[k] \in DOMAIN Lengths
      BY <1>2, SeenNext
    <2>2. m_content_length = IF Seen(r, k, DOMAIN Lengths) THEN Len(r.body) ELSE 0
      BY DEF AtLine
    <2>3. CASE r.headers[k] \in DOMAIN Lengths
      <3>1. m_content_length' = Lengths[r.headers[k]]
        BY <1>3, <1>5, <2>3
      <3>2. Lengths[r.headers[k]] = Len(r.body)
        BY <1>2, <2>3, WellFormedRequest
      <3>3. QED
        BY <2>1, <2>3, <3>1, <3>2
    <2>4. CASE r.headers[k] \notin DOMAIN Lengths
      <3>1. ~\E h \in DOMAIN Lengths : get_line = <<h>>
        BY <1>3, <2>4
      <3>2. QED
        BY <1>5, <2>1, <2>2, <2>4, <3>1
    <2>5. QED
      BY <2>3, <2>4
  <1>8. m_start_line' = 3 * (k + 1) /\ m_checked_idx' = 3 * (k + 1)
    BY <1>1, <1>3 DEF StartIteration
  <1>9. Intact(Bytes(r))'
    BY <1>1, IntactIterates
  <1>10. AtLine(r, k + 1)'
    <2>1. 3 * (k + 1) <= CrOf(r, k + 1)
      BY <1>2 DEF CrOf
    <2>2. m_url = r.line /\ cgi = Posted(r)
      BY <1>2 DEF AtLine
    <2>3. k + 1 > 0 /\ k + 1 # 0
      BY <1>2
    <2>4. QED
      BY <1>1, <1>5, <1>6, <1>7, <1>8, <2>1, <2>2, <2>3 DEF AtLine
  <1>11. QED
    BY <1>1, <1>2, <1>5, <1>9, <1>10 DEF Reading

(* After the empty line, the request is understood or its body follows.    *)
LEMMA ReadingEmptyLine ==
  ASSUME PInv, NEW r \in Requests, WellFormed(r), Intact(Bytes(r)),
         AtLine(r, Len(r.headers) + 1), parse_headers
  PROVE  \/ Reading(r)' /\ UNCHANGED understood
         \/ Understood(r)' /\ understood' = TRUE
  <1> DEFINE h == Len(r.headers)
             k == h + 1
  <1>1. StartIteration /\ m_read_buf' = NextBuf /\ Again /\ pc = "parse"
        /\ UNCHANGED <<m_url, cgi, split>> /\ line_stats' = "LINE_OK"
    BY DEF parse_headers, StartIteration, Again
  <1>2. h \in Nat /\ k \in 0..h + 1 /\ k > 0 /\ k # 0 /\ Len(r.body) \in Nat
        /\ r.eol = <<CR, LF>>
    BY RequestAssumption, WellFormedRequest
  <1>3. NextChecked = BodyAt(r) /\ get_line = <<>>
    <2>1. NextChecked = CrOf(r, k) + 2 /\ get_line = <<>>
      BY <1>1, <1>2, LineParsed
    <2>2. CrOf(r, k) + 2 = BodyAt(r)
      BY <1>2, LineOfRequest
    <2>3. QED
      BY <2>1, <2>2
  <1>4. /\ m_linger' = m_linger /\ m_content_length' = m_content_length
        /\ m_check_state' = IF m_content_length # 0 THEN "CONTENT" ELSE "HEADER"
        /\ m_content_length = 0 /\ ~ReadsForm =>
               pc' = "reply" /\ verdict' = "GET_REQUEST" /\ understood' = TRUE
        /\ m_content_length # 0 => UNCHANGED <<pc, verdict, understood>>
    <2>1. <<>> # <<KeepAlive>> /\ \A w : <<>> # <<w>>
      OBVIOUS
    <2>2. m_linger \in BOOLEAN
      BY DEF PInv, TypeOK
    <2>3. m_linger' = m_linger
      BY <1>3, <2>1, <2>2 DEF parse_headers
    <2>4. QED
      BY <1>3, <2>1, <2>3 DEF parse_headers, do_request, Return
  <1>5. /\ m_url = r.line /\ cgi = Posted(r)
        /\ m_linger <=> Seen(r, k, {KeepAlive})
        /\ m_content_length = IF Seen(r, k, DOMAIN Lengths) THEN Len(r.body) ELSE 0
    BY <1>2 DEF AtLine
  <1>6. m_linger <=> KeepAlive \in ToSet(r.headers)
    <2>1. Seen(r, k, {KeepAlive}) <=> ToSet(r.headers) \cap {KeepAlive} # {}
      BY SeenAll
    <2>2. QED
      BY <1>5, <2>1
  <1>7. Seen(r, k, DOMAIN Lengths) <=> ToSet(r.headers) \cap DOMAIN Lengths # {}
    BY SeenAll
  <1>8. m_start_line' = BodyAt(r) /\ m_checked_idx' = BodyAt(r)
    BY <1>1, <1>3 DEF StartIteration
  <1>9. Intact(Bytes(r))'
    BY <1>1, IntactIterates
  <1>10. CASE m_content_length = 0
    <2>1. Len(r.body) = 0
      BY <1>5, <1>7, <1>10, WellFormedRequest
    <2>2. ~ReadsForm
      <3>1. r.line \notin PostLines \cap FormUrls
        BY <2>1, WellFormedRequest
      <3>2. QED
        BY <1>5, <3>1 DEF ReadsForm, Posted
    <2>3. net' = <<>>
      <3>1. /\ m_read_idx' = m_read_idx /\ net' = net
            /\ m_read_idx + Len(net) = Len(Bytes(r)) /\ net \in Seq(AllBytes)
        BY <1>1, IterationKeeps DEF Intact, StartIteration, clientVars, PInv
      <3>2. NextChecked <= m_read_idx /\ m_read_idx \in Nat /\ Len(net) \in Nat
        BY <1>1, <3>1, IterationStays, BufferLength, LenProperties
      <3>3. Len(Bytes(r)) = BodyAt(r) + Len(r.body) /\ BodyAt(r) \in Nat
        BY <1>2, LineOfRequest
      <3>4. Len(net) = 0
        BY <1>3, <2>1, <3>1, <3>2, <3>3
      <3>5. QED
        BY <3>1, <3>4, EmptySeq
    <2>4. cgi' = Posted(r) /\ ~ReadsForm'
      BY <1>1, <1>5, <2>2 DEF ReadsForm
    <2>5. pc' = "reply" /\ verdict' = "GET_REQUEST" /\ understood' = TRUE
      BY <1>4, <1>10, <2>2
    <2>6. Understood(r)'
      BY <1>1, <1>4, <1>5, <1>6, <2>3, <2>4, <2>5 DEF Understood
    <2>7. QED
      BY <2>5, <2>6
  <1>11. CASE m_content_length # 0
    <2>1. m_content_length = Len(r.body) /\ Len(r.body) > 0
      BY <1>2, <1>5, <1>11
    <2>2. m_check_state' = "CONTENT" /\ UNCHANGED <<pc, verdict, understood>>
      BY <1>4, <1>11
    <2>3. BodyAt(r) \in Nat
      BY <1>2 DEF BodyAt
    <2>4. AtBody(r)'
      BY <1>1, <1>4, <1>5, <1>6, <1>8, <2>1, <2>2, <2>3 DEF AtBody
    <2>5. QED
      BY <1>1, <1>9, <2>2, <2>4 DEF Reading
  <1>12. QED
    BY <1>10, <1>11

(* The body is all that is left of the buffer.                             *)
LEMMA BodyString ==
  ASSUME PInv, NEW r \in Requests, WellFormed(r), Intact(Bytes(r)),
         m_start_line = BodyAt(r), m_read_idx = BodyAt(r) + Len(r.body)
  PROVE  CString(m_read_buf, BodyAt(r)) = r.body
  <1> DEFINE f == BodyAt(r)
             n == Len(r.body)
             b == Bytes(r)
  <1>1. /\ f \in Nat /\ n \in Nat /\ r.body \in Seq(ToSet(r.body))
        /\ \A j \in 1..n : r.body[j] \in ToSet(r.body) /\ r.body[j] # NUL
        /\ \A j \in 1..n : b[f + j] = r.body[j]
        /\ Len(m_read_buf) = f + n
        /\ \A i \in f + 1..f + n : m_read_buf[i] = b[i]
    <2>1. /\ f \in Nat /\ n \in Nat /\ r.body \in Seq(ToSet(r.body))
          /\ \A j \in 1..n : r.body[j] \in ToSet(r.body) /\ r.body[j] # NUL
      BY RequestAssumption, WellFormedRequest DEF BodyAt
    <2>2. \A j \in 1..n : b[f + j] = r.body[j]
      BY BytesWithCrLf, WellFormedRequest DEF BodyAt
    <2>3. Len(m_read_buf) = f + n /\ \A i \in f + 1..f + n : m_read_buf[i] = b[i]
      BY DEF Intact, m_read_idx
    <2>4. QED
      BY <2>1, <2>2, <2>3
  <1> HIDE DEF f, n, b
  <1>2. ASSUME NEW i \in f + 1..f + n
        PROVE  i - f \in 1..n /\ m_read_buf[i] = r.body[i - f]
    <2>1. PICK j : j = i - f
      OBVIOUS
    <2>2. j \in 1..n /\ i = f + j
      BY <1>1, <2>1
    <2>3. m_read_buf[i] = r.body[j]
      BY <1>1, <2>2
    <2>4. QED
      BY <2>1, <2>2, <2>3
  <1>3. \A i \in f + 1..Len(m_read_buf) :
            m_read_buf[i] # NUL /\ m_read_buf[i] \in ToSet(r.body)
    BY <1>1, <1>2
  <1>4. CString(m_read_buf, f) = SubSeq(m_read_buf, f + 1, Len(m_read_buf))
    <2>1. Len(m_read_buf) \in Nat
      BY <1>1
    <2>2. QED
      BY <1>1, <1>3, <2>1, CStringToEnd
  <1> DEFINE s == SubSeq(m_read_buf, f + 1, Len(m_read_buf))
  <1>5. s \in Seq(ToSet(r.body)) /\ Len(s) = n /\ \A j \in 1..n : s[j] = r.body[j]
    <2>1. PICK g \in Int : g = f + 1
      BY <1>1
    <2>2. PICK l \in Int : l = Len(m_read_buf)
      BY <1>1
    <2>3. \A i \in g..l : m_read_buf[i] \in ToSet(r.body)
      BY <1>3, <2>1, <2>2
    <2>4. /\ SubSeq(m_read_buf, g, l) \in Seq(ToSet(r.body))
          /\ Len(SubSeq(m_read_buf, g, l)) = IF g <= l THEN l - g + 1 ELSE 0
          /\ \A j \in 1..l - g + 1 : SubSeq(m_read_buf, g, l)[j] = m_read_buf[g + j - 1]
      BY <2>3, SubSeqProperties
    <2>5. s = SubSeq(m_read_buf, g, l)
      BY <2>1, <2>2
    <2> HIDE DEF s
    <2>6. Len(s) = n
      BY <1>1, <2>1, <2>2, <2>4, <2>5
    <2>7. ASSUME NEW j \in 1..n
          PROVE  s[j] = r.body[j]
      <3>1. PICK i : i = g + j - 1
        OBVIOUS
      <3>2. j \in 1..l - g + 1 /\ i \in f + 1..f + n /\ i - f = j
        BY <1>1, <2>1, <2>2, <3>1
      <3>3. s[j] = m_read_buf[i] /\ m_read_buf[i] = r.body[j]
        BY <1>2, <2>4, <2>5, <3>1, <3>2
      <3>4. QED
        BY <3>3
    <2>8. QED
      BY <2>4, <2>5, <2>6, <2>7
  <1> HIDE DEF s
  <1>6. s = r.body
    BY <1>1, <1>5, SeqEqual DEF n
  <1>7. QED
    BY <1>4, <1>6 DEF s, f

(* The body is complete.                                                   *)
LEMMA ReadingBody ==
  ASSUME PInv, NEW r \in Requests, WellFormed(r), Intact(Bytes(r)), AtBody(r),
         ParseContent
  PROVE  Understood(r)' /\ understood' = TRUE
  <1> DEFINE f == BodyAt(r)
             n == Len(r.body)
  <1>1. /\ Again /\ m_read_idx >= m_content_length + NextChecked
        /\ m_string' = m_start_line /\ UNCHANGED <<m_url, cgi, m_linger>>
        /\ m_read_buf' = [i \in 1..m_read_idx |->
                             IF i = m_start_line + m_content_length + 1 THEN NUL ELSE NextBuf[i]]
        /\ pc' = "reply" /\ verdict' = "GET_REQUEST" /\ understood' = TRUE
        /\ net' = net
    <2>1. m_string' = m_start_line /\ m_start_line \in Nat /\ m_string' # Unset
      BY BufferLength DEF ParseContent, Unset
    <2>2. m_start_line + m_content_length >= 0
      <3>1. PICK l \in Nat : l = m_content_length
        BY RequestAssumption DEF AtBody
      <3>2. QED
        BY <2>1, <3>1
    <2>3. do_request
      BY <2>2 DEF ParseContent
    <2>4. pc' = "reply" /\ verdict' = "GET_REQUEST" /\ understood' = TRUE
      BY <2>1, <2>3 DEF do_request, Return
    <2>5. QED
      BY <2>1, <2>4 DEF ParseContent, StartIteration, ContentComplete, clientVars
  <1>2. /\ m_content_length = n /\ m_url = r.line /\ cgi = Posted(r)
        /\ (m_linger <=> KeepAlive \in ToSet(r.headers)) /\ m_start_line >= f
    BY DEF AtBody
  <1>3. /\ m_read_idx + Len(net) = Len(Bytes(r)) /\ Len(net) \in Nat
        /\ Len(Bytes(r)) = f + n /\ f \in Nat /\ n \in Nat
        /\ m_read_idx \in Nat /\ m_start_line \in Nat /\ m_checked_idx \in Nat
        /\ m_start_line <= m_checked_idx
    <2>1. Len(Bytes(r)) = f + n /\ f \in Nat /\ n \in Nat
      <3>1. f \in Nat /\ n \in Nat
        BY RequestAssumption DEF BodyAt
      <3>2. Len(Bytes(r)) = f + n
        BY BytesWithCrLf, WellFormedRequest DEF BodyAt
      <3>3. QED
        BY <3>1, <3>2
    <2>2. Len(net) \in Nat /\ m_read_idx + Len(net) = Len(Bytes(r))
      BY LenProperties DEF PInv, Intact
    <2>3. QED
      BY <2>1, <2>2, BufferLength
  <1>4. NextChecked \in m_checked_idx..m_read_idx
    BY <1>1, IterationStays
  <1> HIDE DEF f, n
  <1>5. NextChecked = f /\ m_checked_idx = f /\ m_start_line = f /\ m_read_idx = f + n
        /\ Len(net) = 0
    BY <1>1, <1>2, <1>3, <1>4
  <1>6. AtContent
    <2> SUFFICES ASSUME ~AtContent
                 PROVE  FALSE
      OBVIOUS
    <2>1. CrIndex \in m_checked_idx..m_read_idx - 2 /\ NextChecked = CrIndex + 2
      BY <1>1, LineTaken
    <2>2. QED
      BY <1>3, <1>5, <2>1
  <1>7. m_read_buf' = m_read_buf
    <2>1. NextBuf = m_read_buf
      BY <1>6 DEF NextBuf
    <2>2. \A i \in 1..m_read_idx : i # m_start_line + m_content_length + 1
      BY <1>2, <1>3, <1>5
    <2>3. m_read_buf' = [i \in 1..m_read_idx |-> m_read_buf[i]]
      BY <1>1, <2>1, <2>2
    <2>4. m_read_buf \in [1..m_read_idx -> AllBytes]
      BY LenProperties DEF PInv, m_read_idx
    <2>5. QED
      BY <2>3, <2>4
  <1>8. CString(m_read_buf, f) = r.body
    BY <1>5, BodyString DEF f, n
  <1>9. net = <<>>
    BY <1>5, EmptySeq DEF PInv
  <1>10. CString(m_read_buf, m_string)' = r.body
    BY <1>1, <1>5, <1>7, <1>8
  <1>11. QED
    BY <1>1, <1>2, <1>9, <1>10 DEF Understood

(* A part of it may have come: the buffer is split from then on.           *)
LEMMA ReadingPart ==
  ASSUME PInv, NEW r \in Requests, r.eol = <<CR, LF>>, Intact(Bytes(r)), AtBody(r),
         AwaitContent
  PROVE  Reading(r)' /\ UNCHANGED understood
  <1> DEFINE f == BodyAt(r)
             n == Len(r.body)
  <1>1. /\ StartIteration /\ Again /\ pc = "parse" /\ m_read_buf' = NextBuf
        /\ m_read_idx < m_content_length + NextChecked
        /\ m_checked_idx' = NextChecked /\ m_start_line' = NextChecked
        /\ line_stats' = "LINE_OPEN" /\ split' = (split \/ PartOfContent)
        /\ UNCHANGED <<m_check_state, m_url, cgi, m_linger, m_content_length, pc, understood>>
    <2>1. NextChecked \in m_checked_idx..m_read_idx
      BY IterationStays DEF AwaitContent, StartIteration
    <2>2. m_content_length \in Int /\ m_read_idx \in Nat /\ m_checked_idx \in Nat
      BY BufferLength DEF PInv, TypeOK
    <2>3. ~(m_read_idx >= m_content_length + NextChecked)
          => m_read_idx < m_content_length + NextChecked
      BY <2>1, <2>2
    <2>4. QED
      BY <2>3 DEF AwaitContent, StartIteration, Again, ContentComplete, requestVars
  <1>2. /\ m_check_state = "CONTENT" /\ m_content_length = n /\ n > 0 /\ m_start_line >= f
        /\ m_url = r.line /\ cgi = Posted(r) /\ (m_linger <=> KeepAlive \in ToSet(r.headers))
    BY DEF AtBody
  <1>3. /\ f \in Nat /\ n \in Nat
        /\ m_read_idx \in Nat /\ m_start_line \in Nat /\ m_checked_idx \in Nat
        /\ m_start_line <= m_checked_idx /\ m_checked_idx <= m_read_idx
        /\ NextChecked \in m_checked_idx..m_read_idx
    <2>1. f \in Nat /\ n \in Nat
      BY RequestAssumption DEF BodyAt
    <2>2. QED
      BY <1>1, <2>1, BufferLength, IterationStays
  <1>4. Intact(Bytes(r))'
    BY <1>1, IntactIterates
  <1> HIDE DEF f, n
  <1>5. ASSUME ~split'
        PROVE  m_checked_idx' = f /\ m_read_idx' = f
    <2>1. ~split /\ ~PartOfContent
      <3>1. split \in BOOLEAN
        BY DEF PInv, TypeOK
      <3>2. QED
        BY <1>1, <1>5, <3>1
    <2>2. m_checked_idx = f
      BY <2>1 DEF AtBody, f
    <2>3. line_stats # "LINE_OK" => m_read_idx = f
      BY <1>1, <2>1 DEF AtBody, f
    <2>4. AtContent
      <3> SUFFICES ASSUME ~AtContent
                   PROVE  FALSE
        OBVIOUS
      <3>1. m_read_idx = f
        BY <1>2, <2>3 DEF AtContent
      <3>2. CrIndex \in m_checked_idx..m_read_idx - 2
        BY <1>1, LineTaken
      <3>3. QED
        BY <1>3, <2>2, <3>1, <3>2
    <2>5. NextChecked = f
      BY <2>2, <2>4 DEF NextChecked
    <2>6. m_read_idx \notin (f + 1)..(f + n - 1) /\ m_read_idx < n + f
      BY <1>1, <1>2, <2>1, <2>5 DEF PartOfContent
    <2>7. m_read_idx = f
      BY <1>3, <2>2, <2>6
    <2>8. m_read_idx' = m_read_idx
      BY <1>1, IterationKeeps
    <2>9. QED
      BY <1>1, <2>5, <2>7, <2>8
  <1>6. m_start_line' >= f
    BY <1>1, <1>2, <1>3
  <1>7. AtBody(r)'
    BY <1>1, <1>2, <1>5, <1>6 DEF AtBody, f, n
  <1>8. QED
    BY <1>1, <1>4, <1>7 DEF Reading

(* So the parser reads on until it has understood the request.             *)
LEMMA ReadingNext ==
  ASSUME PInv, NEW r \in Requests, WellFormed(r), Reading(r), [Next]_vars,
         pc \notin {"closed", "refused"}, pc' # "closed", ~\E q \in Requests : Send(q)
  PROVE  \/ Reading(r)' /\ UNCHANGED <<asked, understood>>
         \/ Understood(r)' /\ UNCHANGED asked /\ understood' = TRUE
  <1>1. Intact(Bytes(r)) /\ pc # "reply" /\ r.eol = <<CR, LF>> /\ r.line \in RequestLines
        /\ (AtBody(r) \/ \E k \in 0..Len(r.headers) + 1 : AtLine(r, k))
    BY WellFormedRequest DEF Reading
  <1>2. ~(Accept \/ Close \/ Reply \/ NoResource \/ ErrorPage \/ ReadFull)
    BY <1>1 DEF Accept, Close, Reply, NoResource, ErrorPage, ReadFull
  <1>3. CASE (\E n \in 1..Len(net) : ReadOnce(n)) \/ Process \/ UNCHANGED vars
    <2>1. UNCHANGED <<asked, understood>>
      BY <1>3 DEF ReadOnce, Process, vars, clientVars, historyVars
    <2>2. QED
      BY <1>3, <2>1, ReadingWaits
  <1>4. CASE ReturnNoRequest
    <2>1. UNCHANGED <<asked, understood>>
      BY <1>4 DEF ReturnNoRequest, clientVars, historyVars
    <2>2. QED
      BY <1>1, <1>4, <2>1, ReadingReturns
  <1>5. parse_request_line \/ parse_headers \/ ParseContent \/ AwaitContent => UNCHANGED asked
    BY DEF parse_request_line, parse_headers, ParseContent, AwaitContent, StartIteration,
           clientVars
  <1>6. CASE parse_request_line
    BY <1>1, <1>5, <1>6, ReadingRequestLine
  <1>7. CASE parse_headers
    <2>1. PICK k \in 0..Len(r.headers) + 1 : AtLine(r, k)
      BY <1>1, <1>7 DEF parse_headers, AtBody
    <2>2. k # 0
      BY <1>7, <2>1 DEF parse_headers, AtLine
    <2>3. k \in 1..Len(r.headers) \/ k = Len(r.headers) + 1
      BY <2>2, RequestAssumption
    <2>4. CASE k \in 1..Len(r.headers)
      BY <1>1, <1>5, <1>7, <2>1, <2>4, ReadingHeader
    <2>5. CASE k = Len(r.headers) + 1
      BY <1>1, <1>5, <1>7, <2>1, <2>5, ReadingEmptyLine
    <2>6. QED
      BY <2>3, <2>4, <2>5
  <1>8. CASE ParseContent \/ AwaitContent
    <2>1. AtBody(r)
      BY <1>1, <1>8 DEF ParseContent, AwaitContent, AtLine
    <2>2. QED
      BY <1>1, <1>5, <1>8, <2>1, ReadingBody, ReadingPart
  <1>9. QED
    BY <1>2, <1>3, <1>4, <1>6, <1>7, <1>8 DEF Next, read_once, process_read
-----------------------------------------------------------------------------
(* With bare LFs nothing is ever found to be a line.                       *)
LEMMA StuckNext ==
  ASSUME PInv, NEW r \in Requests, r.eol = <<LF>>, Stuck(r), [Next]_vars, pc # "closed",
         pc' # "closed", ~\E q \in Requests : Send(q)
  PROVE  Stuck(r)' /\ UNCHANGED asked
  <1>1. /\ Intact(Bytes(r)) /\ pc # "reply"
        /\ m_check_state = "REQUESTLINE" /\ m_start_line = 0 /\ m_checked_idx <= 1
    BY DEF Stuck
  <1>2. /\ Bytes(r)[1] \notin {CR, LF, NUL} /\ Bytes(r)[2] = LF
        /\ \A i \in 1..m_read_idx : m_read_buf[i] = Bytes(r)[i]
    <2>1. Bytes(r)[1] = r.line /\ Bytes(r)[2] = LF /\ r.line \notin {CR, LF, NUL}
      BY BytesWithLf, RequestAssumption
    <2>2. m_start_line + 1 = 1
      BY <1>1
    <2>3. QED
      BY <1>1, <2>1, <2>2 DEF Intact
  <1>3. m_read_idx \in Nat /\ m_checked_idx \in Nat
    BY BufferLength
  <1>4. 0 < m_read_idx => Byte(0) \notin {CR, LF}
    BY <1>2, <1>3 DEF Byte
  <1>5. 1 < m_read_idx => Byte(1) = LF
    BY <1>2, <1>3 DEF Byte
  <1>6. LineEnds # {} => LineEnd = 1 /\ Byte(1) = LF
    <2> SUFFICES ASSUME LineEnds # {}
                 PROVE  LineEnd = 1 /\ Byte(1) = LF
      OBVIOUS
    <2>1. /\ LineEnd \in m_checked_idx..(m_read_idx - 1)
          /\ Byte(LineEnd) \in {CR, LF}
          /\ \A i \in m_checked_idx..(LineEnd - 1) : Byte(i) \notin {CR, LF}
      BY FirstLineEnd
    <2>2. LineEnd \in Nat /\ LineEnd < m_read_idx
      BY <1>3, <2>1
    <2>3. LineEnd # 0
      BY <1>4, <2>1, <2>2
    <2>4. 1 < m_read_idx /\ Byte(1) = LF
      BY <1>3, <1>5, <2>2, <2>3
    <2>5. ~(1 < LineEnd)
      BY <1>1, <1>3, <2>1, <2>2, <2>4
    <2>6. QED
      BY <2>2, <2>3, <2>4, <2>5
  <1>7. ~Again
    <2>1. ~LineOK
      BY <1>6, FoundAtCr DEF LineOK, CR, LF
    <2>2. QED
      BY <1>1, <2>1 DEF Again, AtContent
  <1>8. ~(Accept \/ Close \/ Reply \/ NoResource \/ ErrorPage \/ ReadFull
          \/ parse_request_line \/ parse_headers \/ ParseContent \/ AwaitContent)
    BY <1>1, <1>7 DEF Accept, Close, Reply, NoResource, ErrorPage, ReadFull, parse_request_line,
                      parse_headers, ParseContent, AwaitContent, StartIteration
  <1>9. CASE \E n \in 1..Len(net) : ReadOnce(n)
    <2>1. Intact(Bytes(r))'
      BY <1>1, <1>9, IntactWhenRead
    <2>2. /\ UNCHANGED <<asked, m_check_state, m_start_line, m_checked_idx>>
          /\ pc' \in {"queued", "refused"}
      BY <1>9 DEF ReadOnce, indexVars
    <2>3. QED
      BY <1>1, <2>1, <2>2 DEF Stuck
  <1>10. CASE Process \/ ReturnNoRequest \/ UNCHANGED vars
    <2>1. /\ UNCHANGED <<asked, net, m_read_buf, m_check_state, m_start_line>>
          /\ pc' \in {"parse", "idle", pc}
      BY <1>10 DEF Process, ReturnNoRequest, vars, clientVars, indexVars
    <2>2. Intact(Bytes(r))'
      BY <1>1, <2>1 DEF Intact, m_read_idx
    <2>3. m_checked_idx' <= 1
      <3>1. CASE ReturnNoRequest
        <4>1. m_checked_idx' = (IF LineEnds = {} THEN m_read_idx ELSE LineEnd)
          BY <3>1 DEF ReturnNoRequest
        <4>2. LineEnds = {} => m_read_idx <= 1
          BY <1>1, <1>3, <1>5 DEF LineEnds
        <4>3. QED
          BY <1>6, <4>1, <4>2
      <3>2. CASE Process \/ UNCHANGED vars
        BY <1>1, <3>2 DEF Process, vars, indexVars
      <3>3. QED
        BY <1>10, <3>1, <3>2
    <2>4. QED
      BY <1>1, <2>1, <2>2, <2>3 DEF Stuck
  <1>11. QED
    BY <1>8, <1>9, <1>10 DEF Next, read_once, process_read

(* Of a request that was understood no byte is left, so the parser only    *)
(* starts again with the next one.                                         *)
LEMMA UnderstoodNext ==
  ASSUME PInv, NEW r, Understood(r), [Next]_vars, pc' # "closed",
         ~\E q \in Requests : Send(q)
  PROVE  \/ Understood(r)' /\ UNCHANGED <<asked, understood>>
         \/ Fresh' /\ asked' = NoRequest
  <1>1. /\ net = <<>> /\ pc \in {"reply", "idle"}
        /\ pc = "reply" => verdict = "GET_REQUEST"
    BY DEF Understood
  <1>2. ~(Accept \/ Close \/ NoResource \/ ReadFull \/ Process \/ process_read)
    BY <1>1 DEF Accept, Close, NoResource, ReadFull, Process, process_read, parse_request_line, parse_headers,
                ParseContent, AwaitContent, ReturnNoRequest, StartIteration, Again
  <1>3. ~\E n \in 1..Len(net) : ReadOnce(n)
    <2>1. Len(net) = 0
      BY <1>1, EmptySeq
    <2>2. QED
      BY <2>1
  <1>4. CASE UNCHANGED vars
    BY <1>4 DEF Understood, ReadsForm, vars, clientVars, requestVars, historyVars
  <1>5. CASE ErrorPage
    BY <1>1, <1>5 DEF ErrorPage, Understood, clientVars, historyVars
  <1>6. CASE Reply
    BY <1>1, <1>6 DEF Reply, InitConn, Fresh
  <1>7. QED
    BY <1>2, <1>3, <1>4, <1>5, <1>6 DEF Next, read_once
-----------------------------------------------------------------------------
(* A request begins with the stage of its kind.                            *)
LEMMA SendBegins ==
  ASSUME PInv, Fresh, NEW r \in Requests, Send(r)
  PROVE  asked' = r /\ Stage(r)'
  <1> DEFINE b == Bytes(r)
  <1>1. /\ b \in Seq(AllBytes) /\ Len(b) \in Nat
        /\ \A i \in 1..Len(b) : b[i] \in BytesIn(r)
    BY BytesOfRequest
  <1>2. /\ asked' = r /\ net' = b /\ understood' = FALSE /\ split' = FALSE
        /\ UNCHANGED <<m_read_buf, m_checked_idx, m_start_line, m_check_state, cgi, m_linger,
                       m_content_length, pc, verdict, line_stats>>
    <2>1. net = <<>> /\ net' = net \o b
      BY DEF Fresh, Send
    <2>2. net' = b
      BY <1>1, <2>1, ConcatEmptySeq
    <2>3. QED
      BY <2>2 DEF Send, indexVars, requestVars
  <1>3. /\ m_read_buf = <<>> /\ Len(m_read_buf) = 0 /\ pc = "idle"
        /\ m_check_state = "REQUESTLINE" /\ m_start_line = 0 /\ m_checked_idx = 0
        /\ cgi = 0 /\ m_linger = FALSE /\ m_content_length = 0
    <2>1. m_read_buf = <<>> /\ Len(m_read_buf) = 0
      BY EmptySeq DEF Fresh
    <2>2. m_checked_idx = 0
      BY <2>1, BufferLength DEF m_read_idx
    <2>3. QED
      BY <2>1, <2>2 DEF Fresh
  <1>4. m_read_idx' = 0 /\ Len(net') = Len(b)
    BY <1>2, <1>3 DEF m_read_idx
  <1> HIDE DEF b
  <1>5. Intact(b)'
    <2>1. Len(b)' = Len(b) /\ \A i : b[i]' = b[i]
      BY DEF b
    <2>2. 0 + Len(b) = Len(b) /\ \A i \in 1..Len(b) : 0 + i = i
      BY <1>1
    <2>3. 1..0 = {} /\ 0 + 1 = 1
      OBVIOUS
    <2>4. /\ m_read_idx' + Len(net') = Len(b)
          /\ \A i \in m_start_line' + 1..m_read_idx' : FALSE
          /\ \A i \in 1..Len(net') : net'[i] = b[m_read_idx' + i]
      BY <1>2, <1>3, <1>4, <2>2, <2>3
    <2>5. QED
      BY <2>4 DEF Intact, b
  <1>6. CASE r.eol = <<LF>>
    <2>1. Stuck(r)'
      BY <1>2, <1>3, <1>5 DEF Stuck, b
    <2>2. QED
      BY <1>2, <1>6, <2>1 DEF Stage
  <1>7. CASE r.eol # <<LF>>
    <2>1. Len(r.headers) \in Nat
      BY RequestAssumption
    <2>2. CrOf(r, 0) = 1 /\ 0 \in 0..Len(r.headers) + 1
      BY <2>1 DEF CrOf
    <2>3. ~Seen(r, 0, {KeepAlive}) /\ ~Seen(r, 0, DOMAIN Lengths)
      BY DEF Seen
    <2>4. AtLine(r, 0)'
      BY <1>2, <1>3, <1>4, <2>2, <2>3 DEF AtLine
    <2>5. Reading(r)'
      BY <1>2, <1>3, <1>5, <2>2, <2>4 DEF Reading, b
    <2>6. QED
      BY <1>2, <1>7, <2>5 DEF Stage
  <1>8. QED
    BY <1>2, <1>6, <1>7

(* A malformed request has a reply, or is asked still.                     *)
LEMMA MalformedNext ==
  ASSUME PInv, ~WellFormed(asked), asked # NoRequest, pc # "closed", [Next]_vars
  PROVE  asked' = asked \/ strayed'
  <1>1. ~(Accept \/ \E q \in Requests : Send(q))
    BY DEF Accept, Send
  <1>2. CASE Reply
    BY <1>2 DEF Reply
  <1>3. CASE read_once \/ Close \/ Process \/ NoResource \/ ErrorPage \/ UNCHANGED vars
    BY <1>3 DEF read_once, ReadFull, ReadOnce, Close, Process, NoResource, ErrorPage, vars,
                clientVars
  <1>4. CASE process_read
    BY <1>4 DEF process_read, parse_request_line, parse_headers, ParseContent, AwaitContent,
                ReturnNoRequest, StartIteration, clientVars
  <1>5. QED
    BY <1>1, <1>2, <1>3, <1>4 DEF Next

(* Each stage goes on as such, becomes the next, or ends.                  *)
LEMMA StageNext ==
  ASSUME PInv, NEW r \in Requests, asked = r, Stage(r), [Next]_vars,
         pc \notin {"closed", "refused"}, pc' # "closed", ~strayed'
  PROVE  (asked' = r /\ Stage(r)') \/ (asked' = NoRequest /\ Fresh')
  <1>1. ~(\E q \in Requests : Send(q)) /\ r # NoRequest
    BY RequestAssumption DEF Send
  <1>2. CASE r.eol = <<LF>>
    <2>1. Stuck(r)
      BY <1>2 DEF Stage
    <2>2. Stuck(r)' /\ UNCHANGED asked
      BY <1>1, <1>2, <2>1, StuckNext
    <2>3. QED
      BY <1>2, <2>2 DEF Stage
  <1>3. CASE r.eol # <<LF>> /\ ~WellFormed(r)
    <2>1. asked' = r
      BY <1>1, <1>3, MalformedNext
    <2>2. QED
      BY <1>3, <2>1 DEF Stage
  <1>4. CASE r.eol # <<LF>> /\ WellFormed(r) /\ understood
    <2>1. Understood(r)
      BY <1>4 DEF Stage
    <2>2. \/ Understood(r)' /\ UNCHANGED <<asked, understood>>
          \/ Fresh' /\ asked' = NoRequest
      BY <1>1, <2>1, UnderstoodNext
    <2>3. QED
      BY <1>4, <2>2 DEF Stage
  <1>5. CASE r.eol # <<LF>> /\ WellFormed(r) /\ ~understood
    <2>1. Reading(r)
      BY <1>5 DEF Stage
    <2>2. \/ Reading(r)' /\ UNCHANGED <<asked, understood>>
          \/ Understood(r)' /\ UNCHANGED asked /\ understood' = TRUE
      BY <1>1, <1>5, <2>1, ReadingNext
    <2>3. QED
      BY <1>5, <2>2 DEF Stage
  <1>6. QED
    BY <1>2, <1>3, <1>4, <1>5

(* Nothing was asked yet.                                                  *)
LEMMA UInit == Init => UInv
  BY DEF Init, UInv, Fresh

(* The next client's connection is at its start.                           *)
LEMMA AcceptBegins == Accept => asked' = NoRequest /\ Fresh'
  BY DEF Accept, InitConn, Fresh

(* No step of the client, main() or a worker leads out of the stages.      *)
LEMMA UNext == PInv /\ UInv /\ [Next]_vars => UInv'
  <1> SUFFICES ASSUME PInv, UInv, [Next]_vars, ~strayed', pc' \notin {"closed", "refused"}
               PROVE  (IF asked = NoRequest THEN Fresh ELSE Stage(asked))'
    BY DEF UInv
  <1>1. CASE Accept
    BY <1>1, AcceptBegins
  <1>2. CASE ~Accept
    <2>1. ~strayed /\ pc \notin {"closed", "refused"}
      <3>1. strayed => strayed'
        BY <1>2 DEF Next, Send, read_once, ReadFull, ReadOnce, Close, Process, process_read,
                    parse_request_line, parse_headers, ParseContent, AwaitContent,
                    ReturnNoRequest, Reply, NoResource, ErrorPage, vars, historyVars
      <3>2. pc \in {"closed", "refused"} => pc' \in {pc, "closed"}
        BY <1>2 DEF Next, Send, read_once, ReadFull, ReadOnce, Close, Process, process_read,
                    parse_request_line, parse_headers, ParseContent, AwaitContent,
                    ReturnNoRequest, StartIteration, Again, Reply, NoResource, ErrorPage, vars
      <3>3. QED
        BY <3>1, <3>2
    <2>2. CASE asked = NoRequest
      <3>1. Fresh
        BY <2>1, <2>2 DEF UInv
      <3>2. CASE \E r \in Requests : Send(r)
        <4>1. PICK r \in Requests : Send(r)
          BY <3>2
        <4>2. asked' = r /\ Stage(r)' /\ r # NoRequest
          BY <3>1, <4>1, SendBegins, RequestAssumption
        <4>3. QED
          BY <4>2
      <3>3. CASE ~\E r \in Requests : Send(r)
        <4>1. pc = "idle" /\ Len(net) = 0 /\ net = <<>>
          BY <3>1, EmptySeq DEF Fresh
        <4>2. ~\E n \in 1..Len(net) : ReadOnce(n)
          BY <4>1
        <4>3. ~Next
          BY <1>2, <3>3, <4>1, <4>2
             DEF Next, read_once, ReadFull, Close, Process, process_read, parse_request_line,
                 parse_headers, ParseContent, AwaitContent, ReturnNoRequest, StartIteration,
                 Again, Reply, NoResource, ErrorPage
        <4>4. QED
          BY <2>2, <3>1, <4>3 DEF Fresh, vars, clientVars, indexVars, requestVars
      <3>4. QED
        BY <3>2, <3>3
    <2>3. CASE asked # NoRequest
      <3>1. PICK r \in Requests : asked = r
        BY <2>3 DEF PInv, TypeOK
      <3>2. Stage(r)
        BY <2>1, <2>3, <3>1 DEF UInv
      <3>3. (asked' = r /\ Stage(r)') \/ (asked' = NoRequest /\ Fresh')
        BY <2>1, <3>1, <3>2, StageNext
      <3>4. r # NoRequest
        BY <2>3, <3>1
      <3>5. QED
        BY <3>3, <3>4
    <2>4. QED
      BY <2>2, <2>3
  <1>3. QED
    BY <1>1, <1>2
-----------------------------------------------------------------------------
(* The indices of the parser stay in order and within the buffer, for all  *)
(* requests and fragments, and however they are malformed.                 *)
THEOREM IndicesStayInBuffer == Spec => []TypeOK
  <1>1. PInv => TypeOK
    BY DEF PInv
  <1>2. QED
    BY <1>1, PInit, PNext, PTL DEF Spec

(* parse_line() writes over the CR and the LF of the line it found, inside *)
(* what was read and never before the line; its branch for an LF whose CR  *)
(* it has passed is never taken.                                           *)
THEOREM OnlyLineEndsOverwritten == Spec => []OverwritesLineEnd
  <1>1. PInv => OverwritesLineEnd
    <2> SUFFICES ASSUME PInv, Again, ~AtContent
                 PROVE  /\ CrIndex \in m_start_line..m_read_idx - 2
                        /\ Byte(CrIndex) = CR /\ Byte(CrIndex + 1) = LF
      BY DEF OverwritesLineEnd
    <2>1. /\ Byte(LineEnd) = CR /\ CrIndex = LineEnd
          /\ Byte(LineEnd + 1) = LF
          /\ LineEnd \in m_checked_idx..(m_read_idx - 2)
      BY FoundAtCr DEF Again
    <2>2. CrIndex \in m_start_line..m_read_idx - 2
      BY <2>1, BufferLength
    <2>3. QED
      BY <2>1, <2>2
  <1>2. QED
    BY <1>1, PInit, PNext, PTL DEF Spec

(* The two invariants together are inductive.                              *)
LEMMA ParserInvariant == Spec => [](PInv /\ UInv)
  <1>1. Init => PInv /\ UInv
    BY PInit, UInit
  <1>2. PInv /\ UInv /\ [Next]_vars => (PInv /\ UInv)'
    BY PNext, UNext
  <1>3. QED
    BY <1>1, <1>2, PTL DEF Spec

(* However the bytes of a well-formed request are cut into calls of        *)
(* read_once(), whenever process_read() ran between them, and whatever     *)
(* malformed requests the object parsed for earlier clients: do_request()  *)
(* is called with the request line, the Connection header and the body of  *)
(* a form as they were sent, BAD_REQUEST is not returned, and no pointer   *)
(* is used that is not set.                                                *)
THEOREM RequestsAreUnderstood == Spec => []UnderstoodAsSent
  <1>1. PInv /\ UInv => UnderstoodAsSent
    <2> SUFFICES ASSUME PInv, UInv, WellFormed(asked), ~strayed
                 PROVE  /\ pc # "undefined"
                        /\ pc = "reply" =>
                               /\ verdict = "GET_REQUEST"
                               /\ Meaning(asked) =
                                      [line   |-> m_url,
                                       linger |-> m_linger,
                                       body   |-> IF ReadsForm THEN CString(m_read_buf, m_string)
                                                  ELSE <<>>]
      BY DEF UnderstoodAsSent, InStep
    <2>1. asked # NoRequest
      BY DEF WellFormed
    <2>2. PICK r \in Requests : asked = r
      BY <2>1 DEF PInv, TypeOK
    <2>3. CASE pc \in {"closed", "refused"}
      BY <2>3
    <2>4. CASE pc \notin {"closed", "refused"}
      <3>1. Stage(r) /\ WellFormed(r)
        BY <2>1, <2>2, <2>4 DEF UInv
      <3>2. IF understood THEN Understood(r) ELSE Reading(r)
        BY <3>1, WellFormedRequest DEF Stage
      <3>3. pc # "undefined"
        BY <3>2 DEF Understood, Reading
      <3>4. ASSUME pc = "reply"
            PROVE  /\ verdict = "GET_REQUEST"
                   /\ Meaning(r) = [line   |-> m_url,
                                    linger |-> m_linger,
                                    body   |-> IF ReadsForm THEN CString(m_read_buf, m_string)
                                               ELSE <<>>]
        <4>1. /\ verdict = "GET_REQUEST" /\ m_url = r.line
              /\ m_linger <=> KeepAlive \in ToSet(r.headers)
              /\ cgi = Posted(r)
              /\ ReadsForm => CString(m_read_buf, m_string) = r.body
          BY <3>2, <3>4 DEF Understood, Reading
        <4>2. m_linger = (KeepAlive \in ToSet(r.headers))
          BY <4>1 DEF PInv, TypeOK
        <4>3. ReadsForm <=> r.line \in PostLines \cap FormUrls
          BY <4>1 DEF Posted, ReadsForm
        <4>4. (IF r.line \in PostLines \cap FormUrls THEN r.body ELSE <<>>)
              = (IF ReadsForm THEN CString(m_read_buf, m_string) ELSE <<>>)
          BY <4>1, <4>3
        <4>5. QED
          BY <4>1, <4>2, <4>4, Zenon DEF Meaning
      <3>5. QED
        BY <2>2, <3>3, <3>4
    <2>5. QED
      BY <2>3, <2>4
  <1>2. QED
    BY <1>1, ParserInvariant, PTL

(* As long as the requests of a connection are well-formed, do_request()   *)
(* is called for one that is asked, and at most once for each: none of its *)
(* bytes is left to be taken for another request, and a registration is    *)
(* not made twice however the bytes of its POST come.                      *)
CalledOnce ==
    [][/\ (parse_headers \/ ParseContent) /\ pc' = "reply"
       /\ ~strayed /\ (asked = NoRequest \/ WellFormed(asked))
       => asked # NoRequest /\ ~understood]_vars

THEOREM UnderstoodOnce == Spec => CalledOnce
  <1>1. PInv /\ UInv => [/\ (parse_headers \/ ParseContent) /\ pc' = "reply"
                         /\ ~strayed /\ (asked = NoRequest \/ WellFormed(asked))
                         => asked # NoRequest /\ ~understood]_vars
    <2> SUFFICES ASSUME PInv, UInv, parse_headers \/ ParseContent, ~strayed,
                        asked = NoRequest \/ WellFormed(asked)
                 PROVE  asked # NoRequest /\ ~understood
      OBVIOUS
    <2>1. pc = "parse"
      BY DEF parse_headers, ParseContent, StartIteration, Again
    <2>2. asked # NoRequest /\ Stage(asked)
      BY <2>1 DEF UInv, Fresh
    <2>3. asked \in Requests /\ WellFormed(asked)
      BY <2>2 DEF PInv, TypeOK
    <2>4. understood => Understood(asked)
      BY <2>2, <2>3, WellFormedRequest DEF Stage
    <2>5. QED
      BY <2>1, <2>2, <2>4 DEF Understood
  <1>2. QED
    BY <1>1, ParserInvariant, PTL DEF CalledOnce

(* A connection whose client sent all of a well-formed request waits for   *)
(* more only if process_read() once ran when a part of the body had come:  *)
(* the fault of parse_content() is the only one of its kind.               *)
THEOREM WaitsOnlyIfSplit == Spec => []CompleteUnlessSplit
  <1>1. PInv /\ UInv => CompleteUnlessSplit
    <2> SUFFICES ASSUME PInv, UInv, Waits, WellFormed(asked), ~strayed, ~split
                 PROVE  FALSE
      BY DEF CompleteUnlessSplit, InStep
    <2>1. pc = "idle" /\ net = <<>> /\ asked # NoRequest /\ ~understood
      BY DEF Waits
    <2>2. PICK r \in Requests : asked = r
      BY <2>1 DEF PInv, TypeOK
    <2>3. r.eol = <<CR, LF>> /\ r.eol # <<LF>>
      BY <2>2, WellFormedRequest
    <2>5. Reading(r)
      BY <2>1, <2>2, <2>3 DEF UInv, Stage
    <2>6. m_read_idx = Len(Bytes(r)) /\ m_read_idx \in Nat
      <3>1. m_read_idx + Len(net) = Len(Bytes(r)) /\ Len(net) = 0
        BY <2>1, <2>5, EmptySeq DEF Reading, Intact
      <3>2. m_read_idx \in Nat
        BY BufferLength
      <3>3. QED
        BY <3>1, <3>2
    <2>7. Len(r.headers) \in Nat /\ Len(r.body) \in Nat
      BY RequestAssumption
    <2>8. CASE AtBody(r)
      <3>1. m_read_idx = BodyAt(r) /\ Len(r.body) > 0
        BY <2>1, <2>8 DEF AtBody
      <3>2. 0 \in 0..Len(r.headers) + 1
        BY <2>7
      <3>3. Len(Bytes(r)) = BodyAt(r) + Len(r.body) /\ BodyAt(r) \in Nat
        BY <2>3, <3>2, LineOfRequest
      <3>4. PICK n \in Nat : n = Len(r.body)
        BY <2>7
      <3>5. n > 0 /\ m_read_idx = m_read_idx + n
        BY <2>6, <3>1, <3>3, <3>4
      <3>6. QED
        BY <2>6, <3>5
    <2>9. ASSUME NEW k \in 0..Len(r.headers) + 1, AtLine(r, k)
          PROVE  FALSE
      <3>1. m_read_idx <= CrOf(r, k) + 1
        BY <2>1, <2>9 DEF AtLine
      <3>2. /\ CrOf(r, k) \in Nat /\ CrOf(r, k) + 2 <= BodyAt(r) /\ BodyAt(r) \in Nat
            /\ Len(Bytes(r)) = BodyAt(r) + Len(r.body)
        BY <2>3, LineOfRequest
      <3>3. QED
        BY <2>6, <2>7, <3>1, <3>2
    <2>10. QED
      BY <2>5, <2>8, <2>9 DEF Reading
  <1>2. QED
    BY <1>1, ParserInvariant, PTL

(* A request whose lines end in bare LFs, good ones or bad, is neither     *)
(* understood nor answered by BAD_REQUEST, whatever its client still sends *)
(* of it: parse_line() reports LINE_BAD, and process_read() waits.         *)
BareLfUnanswered ==
    ~strayed /\ asked \in Requests /\ asked.eol = <<LF>> => pc # "reply"

THEOREM BareLfNeverAnswered == Spec => []BareLfUnanswered
  <1>1. PInv /\ UInv => BareLfUnanswered
    <2> SUFFICES ASSUME UInv, ~strayed, asked \in Requests, asked.eol = <<LF>>, pc = "reply"
                 PROVE  FALSE
      BY DEF BareLfUnanswered
    <2>1. asked # NoRequest
      BY RequestAssumption
    <2>2. Stuck(asked)
      BY <2>1 DEF UInv, Stage
    <2>3. QED
      BY <2>2 DEF Stuck
  <1>2. QED
    BY <1>1, ParserInvariant, PTL

(* While a well-formed request is read, read_once() closes its connection  *)
(* only if the request is as long as the buffer, or longer.                *)
OnlyLongOnesAreClosed ==
    [][ReadFull /\ InStep => Len(Bytes(asked)) >= READ_BUFFER_SIZE]_vars

THEOREM ClosedOnlyWhenFull == Spec => OnlyLongOnesAreClosed
  <1>1. PInv /\ UInv => [ReadFull /\ InStep => Len(Bytes(asked)) >= READ_BUFFER_SIZE]_vars
    <2> SUFFICES ASSUME PInv, UInv, ReadFull, WellFormed(asked), ~strayed
                 PROVE  Len(Bytes(asked)) >= READ_BUFFER_SIZE
      BY DEF InStep
    <2>1. pc = "idle" /\ net # <<>> /\ Len(net) >= READ_BUFFER_SIZE - m_read_idx
      BY DEF ReadFull, Space
    <2>2. PICK r \in Requests : asked = r
      BY DEF PInv, TypeOK, WellFormed
    <2>3. r.eol # <<LF>> /\ asked # NoRequest
      BY <2>2, WellFormedRequest DEF WellFormed
    <2>5. Reading(r)
      BY <2>1, <2>2, <2>3 DEF UInv, Stage, Understood
    <2>6. m_read_idx + Len(net) = Len(Bytes(r)) /\ m_read_idx \in Nat /\ READ_BUFFER_SIZE \in Nat
      BY <2>5, BufferLength DEF Reading, Intact
    <2>7. Len(net) \in Nat
      BY LenProperties DEF PInv
    <2>8. QED
      BY <2>1, <2>2, <2>6, <2>7
  <1>2. QED
    BY <1>1, ParserInvariant, PTL DEF OnlyLongOnesAreClosed

(* The loop of process_read() ends: each iteration that does not return    *)
(* takes a line, or is the one that finds a body incomplete.               *)
Left == 2 * (m_read_idx - m_checked_idx) + (IF AtContent THEN 1 ELSE 0)

EachIterationAdvances == [][process_read /\ pc' = "parse" => Left' < Left]_vars

THEOREM LoopOfProcessReadEnds == Spec => [](Left \in Nat) /\ EachIterationAdvances
  <1>1. PInv => Left \in Nat
    BY BufferLength DEF Left
  <1>2. PInv /\ [Next]_vars => [process_read /\ pc' = "parse" => Left' < Left]_vars
    <2> SUFFICES ASSUME PInv, process_read, pc' = "parse"
                 PROVE  Left' < Left
      OBVIOUS
    <2>1. StartIteration /\ m_read_buf' = NextBuf
          /\ (m_check_state = "CONTENT" => line_stats' = "LINE_OPEN")
      BY DEF process_read, parse_request_line, parse_headers, ParseContent, AwaitContent,
             ReturnNoRequest, do_request, Return
    <2>2. /\ Again /\ m_checked_idx' = NextChecked /\ m_read_idx' = m_read_idx
          /\ m_read_idx \in Nat /\ m_checked_idx \in Nat
      BY <2>1, IterationKeeps, BufferLength DEF StartIteration
    <2>3. CASE AtContent
      <3>1. NextChecked = m_checked_idx /\ m_check_state = "CONTENT"
        BY <2>3 DEF NextChecked, AtContent
      <3>2. ~AtContent'
        BY <2>1, <3>1 DEF AtContent
      <3>3. QED
        BY <2>2, <2>3, <3>1, <3>2 DEF Left
    <2>4. CASE ~AtContent
      <3>1. LineEnd \in m_checked_idx..(m_read_idx - 2) /\ CrIndex = LineEnd
        BY <2>2, <2>4, FoundAtCr DEF Again
      <3>2. NextChecked = LineEnd + 2
        BY <2>4, <3>1 DEF NextChecked
      <3>3. QED
        BY <2>2, <2>4, <3>1, <3>2 DEF Left
    <2>5. QED
      BY <2>3, <2>4
  <1>3. QED
    BY <1>1, <1>2, PInit, PNext, PTL DEF Spec, EachIterationAdvances
=============================================================================
