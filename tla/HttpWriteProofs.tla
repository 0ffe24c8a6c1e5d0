--------------------------- MODULE HttpWriteProofs ---------------------------
(***************************************************************************)
(* Theorems about HttpWrite for headers, files and a socket's buffer of    *)
(* any size.                                                               *)
(*                                                                         *)
(* While a response that nothing odd happened to waits for EPOLLOUT, the   *)
(* two iovecs are where they were set or all of the headers is sent; after *)
(* a writev() they are stale until Eagain moves them.                      *)
(***************************************************************************)
EXTENDS HttpWrite, SequenceTheorems, TLAPS

Sending == pc \in {"out", "write", "again"}

(* The iovecs begin with the first byte that is not sent.                  *)
AtRest ==
    \/ /\ m_iv0.off = 0 /\ m_iv0.len = HeadLen
       /\ m_iv1.off = 0 /\ m_iv1.len = size
       /\ Len(sent) = 0
    \/ /\ m_iv0.len = 0
       /\ Len(sent) >= HeadLen
       /\ m_iv1.off = Len(sent) - HeadLen
       /\ m_iv1.len = Total - Len(sent)

(* A page is not sent at all, because bytes_to_send is 0.                  *)
PageWaits == bytes_to_send = 0 /\ pc = "out"

FileGoes ==
    /\ mapped
    /\ bytes_to_send = Total - Len(sent) /\ bytes_to_send > 0
    /\ m_iv0.len = HeadLen \/ (m_iv0.len = 0 /\ Len(sent) >= HeadLen)
    /\ pc \in {"out", "write"} => AtRest

Unspoilt ==
    Sending /\ odd = {} =>
        /\ m_write_idx = HeadLen
        /\ bytes_have_send = Len(sent)
        /\ size = 0 => PageWaits
        /\ size > 0 => FileGoes

(* write() finds room when it begins, and goes on only if bytes are left.  *)
InWrite ==
    /\ pc = "write" => room > 0
    /\ pc = "again" => bytes_to_send > 0

MappedWhileSending == mapped /\ ~cut => Sending /\ bytes_to_send > 0

WInv ==
    /\ TypeOK /\ sent \in Seq(Int)
    /\ InWrite /\ Unspoilt /\ PlainInOrder /\ MappedWhileSending
-----------------------------------------------------------------------------
(* The sizes are numbers.                                                  *)
LEMMA SizesAreNumbers ==
  /\ HeadLen \in Nat /\ HeadLen > 0 /\ SendBuffer \in Nat /\ SendBuffer > 0
  /\ \A f \in FileSizes : f \in Nat /\ f > 0
  BY HttpWriteAssumption

(* The least of two numbers.                                               *)
LEMMA LeastOfTwo ==
  ASSUME NEW a \in Nat, NEW b \in Nat
  PROVE  Min({a, b}) \in Nat /\ Min({a, b}) <= a /\ Min({a, b}) <= b
         /\ (Min({a, b}) = a \/ Min({a, b}) = b)
  <1>1. \E x \in {a, b} : \A y \in {a, b} : x <= y
    OBVIOUS
  <1>2. Min({a, b}) \in {a, b} /\ \A y \in {a, b} : Min({a, b}) <= y
    BY <1>1 DEF Min
  <1>3. QED
    BY <1>2

(* What writev() is given is a sequence of bytes, or of what is behind     *)
(* them in memory.                                                         *)
LEMMA GatheredIsSeq ==
  ASSUME TypeOK
  PROVE  /\ Len(Gathered) = m_iv0.len + (IF mapped THEN m_iv1.len ELSE 0)
         /\ Len(Gathered) \in Nat
         /\ Gathered \in Seq(Int)
         /\ \A i \in 1..Len(Gathered) :
                Gathered[i] = IF i <= m_iv0.len THEN HeadByte(i - 1)
                              ELSE FileByte(i - m_iv0.len - 1)
  <1> DEFINE n == m_iv0.len + (IF mapped THEN m_iv1.len ELSE 0)
             g(i) == IF i <= m_iv0.len THEN HeadByte(i - 1)
                     ELSE FileByte(i - m_iv0.len - 1)
  <1>1. /\ m_iv0.off \in Int /\ m_iv0.len \in Nat /\ m_iv1.off \in Int /\ m_iv1.len \in Nat
        /\ m_write_idx \in Nat /\ size \in Nat
    BY SizesAreNumbers DEF TypeOK
  <1>2. n \in Nat
    BY <1>1
  <1>3. \A i \in 1..n : g(i) \in Int
    BY <1>1, <1>2 DEF HeadByte, FileByte, Foreign
  <1>4. Gathered = [i \in 1..n |-> g(i)]
    BY DEF Gathered
  <1> HIDE DEF n, g
  <1>5. Gathered \in [1..n -> Int] /\ \A i \in 1..n : Gathered[i] = g(i)
    BY <1>3, <1>4
  <1>6. Gathered \in Seq(Int)
    BY <1>2, <1>5, SeqDef
  <1>7. Len(Gathered) \in Nat /\ 1..Len(Gathered) = 1..n
    BY <1>5, <1>6, LenProperties
  <1>8. Len(Gathered) = n
    <2>1. /\ Len(Gathered) <= n \/ Len(Gathered) \in 1..n
          /\ n <= Len(Gathered) \/ n \in 1..Len(Gathered)
      BY <1>2, <1>7
    <2>2. QED
      BY <1>2, <1>7, <2>1
  <1>9. QED
    BY <1>2, <1>5, <1>6, <1>8 DEF n, g

(* At rest the iovecs hold what is not sent yet, in order.                 *)
LEMMA RestIsGathered ==
  ASSUME TypeOK, sent \in Seq(Int), mapped, AtRest, m_write_idx = HeadLen,
         Total - Len(sent) \in Nat, size > 0
  PROVE  /\ Len(Gathered) = Total - Len(sent)
         /\ \A i \in 1..Len(Gathered) : Gathered[i] = Len(sent) + i - 1
  <1>1. /\ m_iv0.off \in Int /\ m_iv0.len \in Nat /\ m_iv1.off \in Int /\ m_iv1.len \in Nat
        /\ HeadLen \in Nat /\ size \in Nat /\ Len(sent) \in Nat
    BY SizesAreNumbers, LenProperties DEF TypeOK
  <1>2. Total = HeadLen + size
    BY DEF Total
  <1>3. Len(Gathered) = m_iv0.len + m_iv1.len
    BY GatheredIsSeq
  <1>4. Len(Gathered) = Total - Len(sent)
    BY <1>1, <1>2, <1>3 DEF AtRest
  <1>5. ASSUME NEW i \in 1..Len(Gathered)
        PROVE  Gathered[i] = Len(sent) + i - 1
    <2>1. Gathered[i] = IF i <= m_iv0.len THEN HeadByte(i - 1)
                        ELSE FileByte(i - m_iv0.len - 1)
      BY GatheredIsSeq
    <2>2. i \in Nat /\ i > 0 /\ i <= m_iv0.len + m_iv1.len
      BY <1>1, <1>3
    <2>3. CASE i <= m_iv0.len
      BY <1>1, <2>1, <2>2, <2>3 DEF AtRest, HeadByte
    <2>4. CASE ~(i <= m_iv0.len)
      <3> DEFINE o == m_iv1.off
                 k == i - m_iv0.len - 1
                 s == Len(sent)
      <3>1. o \in Int /\ k \in Int /\ s \in Nat
        BY <1>1, <2>2
      <3>2. Gathered[i] = FileByte(k)
        BY <2>1, <2>4
      <3>3. o + k \in 0..(size - 1) /\ HeadLen + o + k = s + i - 1
        <4>1. CASE m_iv0.len = HeadLen /\ o = 0 /\ m_iv1.len = size /\ s = 0
          <5>1. k = i - HeadLen - 1 /\ i <= HeadLen + size /\ i > HeadLen
            BY <1>1, <2>2, <2>4, <4>1
          <5> HIDE DEF o, k, s
          <5>2. QED
            BY <1>1, <2>2, <3>1, <4>1, <5>1
        <4>2. CASE m_iv0.len = 0 /\ o = s - HeadLen /\ s >= HeadLen
                     /\ m_iv1.len = Total - s
          <5>1. k = i - 1 /\ i <= HeadLen + size - s
            BY <1>1, <1>2, <2>2, <2>4, <4>2
          <5> HIDE DEF o, k, s
          <5>2. QED
            BY <1>1, <2>2, <3>1, <4>2, <5>1
        <4>3. QED
          BY <4>1, <4>2 DEF AtRest
      <3> HIDE DEF k
      <3>4. FileByte(k) = HeadLen + o + k
        BY <3>3 DEF FileByte
      <3>5. QED
        BY <3>2, <3>3, <3>4
    <2>5. QED
      BY <2>3, <2>4
  <1>6. QED
    BY <1>4, <1>5

(* What a writev() adds to what was sent.                                  *)
LEMMA WritevAdds ==
  ASSUME TypeOK, sent \in Seq(Int), sent' = sent \o SubSeq(Gathered, 1, Taken)
  PROVE  /\ Taken \in Nat /\ Taken <= room /\ Taken <= Len(Gathered)
         /\ sent' \in Seq(Int)
         /\ Len(sent) \in Nat /\ Len(sent') = Len(sent) + Taken
         /\ \A i \in 1..Len(sent') :
                sent'[i] = IF i <= Len(sent) THEN sent[i] ELSE Gathered[i - Len(sent)]
  <1> DEFINE t == SubSeq(Gathered, 1, Taken)
  <1>1. room \in Nat /\ Len(Gathered) \in Nat /\ Gathered \in Seq(Int)
    BY GatheredIsSeq, SizesAreNumbers DEF TypeOK
  <1>2. Taken \in Nat /\ Taken <= room /\ Taken <= Len(Gathered)
    BY <1>1, LeastOfTwo DEF Taken
  <1> HIDE DEF Taken
  <1>3. \A i \in 1..Taken : Gathered[i] \in Int
    BY <1>1, <1>2, ElementOfSeq
  <1>4. /\ t \in Seq(Int) /\ Len(t) = Taken
        /\ \A i \in 1..Taken : t[i] = Gathered[i]
    <2>1. /\ t \in Seq(Int) /\ Len(t) = IF 1 <= Taken THEN Taken - 1 + 1 ELSE 0
          /\ \A i \in 1..Taken - 1 + 1 : t[i] = Gathered[1 + i - 1]
      BY <1>2, <1>3, SubSeqProperties
    <2> HIDE DEF t
    <2>2. QED
      BY <1>2, <2>1
  <1> HIDE DEF t
  <1>5. sent' = sent \o t
    BY DEF t
  <1>6. /\ sent' \in Seq(Int) /\ Len(sent') = Len(sent) + Taken
        /\ \A i \in 1..Len(sent) + Taken :
               sent'[i] = IF i <= Len(sent) THEN sent[i] ELSE t[i - Len(sent)]
    BY <1>4, <1>5, ConcatProperties
  <1>7. Len(sent) \in Nat
    BY LenProperties
  <1>8. \A i \in 1..Len(sent) + Taken : i <= Len(sent) \/ i - Len(sent) \in 1..Taken
    BY <1>2, <1>7
  <1>9. QED
    BY <1>2, <1>4, <1>6, <1>7, <1>8
-----------------------------------------------------------------------------
(* Nothing is sent yet.                                                    *)
LEMMA WInit == Init => WInv
  <1> SUFFICES ASSUME Init
               PROVE  WInv
    OBVIOUS
  <1>1. TypeOK
    <2>1. Len(sent) <= bytes_have_send
      BY EmptySeq DEF Init
    <2>2. /\ m_iv0 \in [off : Int, len : 0..HeadLen] /\ m_iv1 \in [off : Int, len : Nat]
          /\ room \in 0..SendBuffer
      BY SizesAreNumbers DEF Init
    <2>3. QED
      BY <2>1, <2>2 DEF Init, TypeOK
  <1>2. sent \in Seq(Int) /\ InWrite /\ Unspoilt /\ MappedWhileSending
    BY EmptySeq DEF Init, InWrite, Unspoilt, Sending, MappedWhileSending
  <1>3. PlainInOrder
    BY DEF Init, PlainInOrder, InOrder
  <1>4. QED
    BY <1>1, <1>2, <1>3 DEF WInv

(* Of the responses that nothing odd happens to, writev() takes the next   *)
(* bytes.                                                                  *)
LEMMA WritevInOrder ==
  ASSUME WInv, Writev, odd' = {}
  PROVE  /\ InOrder'
         /\ pc = "write" /\ odd = {} /\ m_write_idx = HeadLen /\ size > 0 /\ FileGoes
         /\ bytes_have_send' = Len(sent')
         /\ bytes_to_send' = Total - Len(sent')
         /\ Len(sent') <= Total
  <1>1. TypeOK /\ sent \in Seq(Int) /\ Unspoilt /\ PlainInOrder
    BY DEF WInv
  <1>2. pc = "write" /\ odd = {} /\ Sending
    BY DEF Writev, Writing, Sending
  <1>3. /\ m_write_idx = HeadLen /\ bytes_have_send = Len(sent)
        /\ size # 0 /\ size \in Nat
    BY <1>1, <1>2, SizesAreNumbers DEF Unspoilt, PageWaits, TypeOK
  <1>4. size > 0 /\ FileGoes
    BY <1>1, <1>2, <1>3 DEF Unspoilt
  <1>5. mapped /\ AtRest /\ bytes_to_send = Total - Len(sent) /\ bytes_to_send > 0
    BY <1>2, <1>4 DEF FileGoes
  <1>6. /\ sent' = sent \o SubSeq(Gathered, 1, Taken)
        /\ bytes_have_send' = bytes_have_send + Taken
        /\ bytes_to_send' = bytes_to_send - Taken
    BY DEF Writev
  <1>7. /\ Taken \in Nat /\ Taken <= Len(Gathered)
        /\ sent' \in Seq(Int) /\ Len(sent) \in Nat /\ Len(sent') = Len(sent) + Taken
        /\ \A i \in 1..Len(sent') :
               sent'[i] = IF i <= Len(sent) THEN sent[i] ELSE Gathered[i - Len(sent)]
    BY <1>1, <1>6, WritevAdds
  <1>8. Total \in Nat
    BY <1>3, SizesAreNumbers DEF Total
  <1>9. /\ Len(Gathered) = Total - Len(sent)
        /\ \A i \in 1..Len(Gathered) : Gathered[i] = Len(sent) + i - 1
    <2>1. Total - Len(sent) \in Nat
      BY <1>5, <1>7, <1>8
    <2>2. QED
      BY <1>1, <1>3, <1>4, <1>5, <2>1, RestIsGathered
  <1>10. /\ Len(sent') <= Total
         /\ bytes_have_send' = Len(sent')
         /\ bytes_to_send' = Total - Len(sent')
    <2> DEFINE l == Len(sent)
               m == Len(sent')
               k == Taken
               g == Len(Gathered)
               u == Total
    <2>1. /\ k \in Nat /\ k <= g /\ l \in Nat /\ m = l + k /\ u \in Nat /\ g = u - l
          /\ bytes_have_send' = l + k /\ bytes_to_send' = u - l - k
      BY <1>3, <1>5, <1>6, <1>7, <1>8, <1>9
    <2> HIDE DEF l, m, k, g, u
    <2>2. m <= u /\ bytes_have_send' = m /\ bytes_to_send' = u - m
      BY <2>1
    <2>3. QED
      BY <2>2 DEF m, u
  <1>11. ASSUME NEW i \in DOMAIN sent'
         PROVE  sent'[i] = i - 1
    <2>1. i \in 1..Len(sent') /\ DOMAIN sent = 1..Len(sent)
      BY <1>1, <1>7, <1>11, LenProperties
    <2>2. CASE i <= Len(sent)
      <3>1. sent'[i] = sent[i] /\ i \in DOMAIN sent
        BY <1>7, <2>1, <2>2
      <3>2. QED
        BY <1>1, <1>2, <3>1 DEF PlainInOrder, InOrder
    <2>3. CASE ~(i <= Len(sent))
      <3>1. i - Len(sent) \in 1..Len(Gathered)
        BY <1>7, <1>9, <1>10, <2>1, <2>3, <1>8
      <3>2. sent'[i] = Len(sent) + (i - Len(sent)) - 1
        BY <1>7, <1>9, <2>1, <2>3, <3>1
      <3>3. QED
        BY <1>7, <2>1, <3>2
    <2>4. QED
      BY <2>2, <2>3
  <1>12. InOrder'
    BY <1>11 DEF InOrder
  <1>13. QED
    BY <1>2, <1>3, <1>4, <1>10, <1>12

(* Eagain moves the iovecs to what is left; it comes after a writev().     *)
LEMMA EagainMoves ==
  ASSUME WInv, Eagain
  PROVE  /\ TypeOK'
         /\ Unspoilt'
  <1>1. TypeOK /\ sent \in Seq(Int) /\ Unspoilt
    BY DEF WInv
  <1>2. pc = "again" /\ bytes_to_send > 0 /\ room = 0
    BY SizesAreNumbers DEF WInv, InWrite, Eagain, Writing, TypeOK
  <1>3. UNCHANGED <<replyVars, countVars, mapped, room, sent, cut>> /\ pc' = "out"
    BY DEF Eagain, AfterEagain
  <1>4. bytes_to_send \in Nat /\ bytes_have_send \in Nat /\ Len(sent) \in Nat
    BY <1>1, <1>2, LenProperties DEF TypeOK
  <1>5. CASE bytes_have_send >= m_iv0.len
    <2>1. /\ odd' = odd
          /\ m_iv0' = [m_iv0 EXCEPT !.len = 0]
          /\ m_iv1' = [off |-> bytes_have_send - m_write_idx, len |-> bytes_to_send]
      BY <1>2, <1>5 DEF Eagain, AdvanceFile
    <2>2. m_iv0' \in [off : Int, len : 0..HeadLen] /\ m_iv0'.len = 0
      BY <1>1, <2>1, SizesAreNumbers DEF TypeOK
    <2>3. m_write_idx \in Int
      BY <1>1, SizesAreNumbers DEF TypeOK
    <2>4. /\ m_iv1' \in [off : Int, len : Nat]
          /\ m_iv1'.off = bytes_have_send - m_write_idx /\ m_iv1'.len = bytes_to_send
      BY <1>4, <2>1, <2>3
    <2>5. TypeOK'
      BY <1>1, <1>3, <2>1, <2>2, <2>4 DEF TypeOK, replyVars, countVars
    <2>6. ASSUME odd = {}
          PROVE  /\ m_write_idx = HeadLen /\ bytes_have_send = Len(sent)
                 /\ size > 0 /\ FileGoes
      <3>1. /\ m_write_idx = HeadLen /\ bytes_have_send = Len(sent)
            /\ size = 0 => PageWaits
            /\ size > 0 => FileGoes
        BY <1>1, <1>2, <2>6 DEF Unspoilt, Sending
      <3>2. size \in Nat /\ ~PageWaits
        BY <1>1, <1>2, SizesAreNumbers DEF TypeOK, PageWaits
      <3>3. QED
        BY <3>1, <3>2
    <2>7. ASSUME odd = {}
          PROVE  FileGoes'
      <3>1. Len(sent) >= HeadLen
        BY <1>5, <2>6, <2>7, SizesAreNumbers DEF FileGoes
      <3>2. /\ m_iv1'.off = Len(sent) - HeadLen
            /\ m_iv1'.len = Total - Len(sent)
            /\ mapped /\ bytes_to_send = Total - Len(sent)
        BY <2>4, <2>6, <2>7 DEF FileGoes
      <3>3. Total' = Total /\ sent' = sent /\ bytes_to_send' = bytes_to_send
            /\ mapped' = mapped
        BY <1>3 DEF Total, replyVars, countVars
      <3>4. QED
        BY <1>2, <2>2, <3>1, <3>2, <3>3 DEF FileGoes, AtRest
    <2>8. Unspoilt'
      BY <1>3, <2>1, <2>6, <2>7 DEF Unspoilt, replyVars, countVars
    <2>9. QED
      BY <2>5, <2>8
  <1>6. CASE ~(bytes_have_send >= m_iv0.len)
    <2>1. /\ odd' = odd \cup {"head"} /\ m_iv1' = m_iv1
          /\ m_iv0' = [off |-> bytes_to_send, len |-> m_iv0.len - bytes_have_send]
      BY <1>6 DEF Eagain, AdvanceHead
    <2>2. m_iv0.len \in 0..HeadLen
      BY <1>1 DEF TypeOK
    <2>3. m_iv0' \in [off : Int, len : 0..HeadLen]
      BY <1>4, <1>6, <2>1, <2>2, SizesAreNumbers
    <2>4. odd' \subseteq Oddities /\ odd' # {}
      BY <1>1, <2>1 DEF TypeOK, Oddities
    <2>5. TypeOK'
      BY <1>1, <1>3, <2>1, <2>3, <2>4 DEF TypeOK, replyVars, countVars
    <2>6. Unspoilt'
      BY <2>4 DEF Unspoilt
    <2>7. QED
      BY <2>5, <2>6
  <1>7. QED
    BY <1>5, <1>6

(* No step breaks the invariant.                                           *)
LEMMA WNext == WInv /\ [Next]_vars => WInv'
  <1> SUFFICES ASSUME WInv, [Next]_vars
               PROVE  WInv'
    OBVIOUS
  <1>1. /\ TypeOK /\ sent \in Seq(Int) /\ InWrite /\ Unspoilt /\ PlainInOrder
        /\ MappedWhileSending
    BY DEF WInv
  <1>2. Len(<<>>) = 0 /\ <<>> \in Seq(Int)
    BY EmptySeq
  <1>3. ASSUME NEW linger \in BOOLEAN, PreparePage(linger)
        PROVE  WInv'
    <2>1. /\ pc = "idle" /\ pc' = "out" /\ sent' = <<>>
          /\ odd' = Used \cup (IF bytes_to_send = 0 THEN {} ELSE {"unsent"})
          /\ m_write_idx' = HeadLen /\ size' = 0
          /\ UNCHANGED <<countVars, mapped, room, cut>>
      BY <1>3 DEF PreparePage
    <2>2. TypeOK'
      <3>1. m_iv0' \in [off : Int, len : 0..HeadLen]
        BY <1>3, SizesAreNumbers DEF PreparePage
      <3>2. odd' \subseteq Oddities
        BY <2>1 DEF Oddities, Used
      <3>3. Len(sent') <= bytes_have_send'
        BY <1>1, <1>2, <2>1 DEF TypeOK, countVars
      <3>4. QED
        BY <1>1, <1>3, <2>1, <3>1, <3>2, <3>3 DEF TypeOK, PreparePage, countVars
    <2>3. odd' = {} => bytes_have_send = 0 /\ bytes_to_send = 0
      BY <2>1 DEF Used
    <2>4. Unspoilt'
      BY <1>2, <2>1, <2>3 DEF Unspoilt, PageWaits, countVars
    <2>5. PlainInOrder'
      BY <2>1 DEF PlainInOrder, InOrder
    <2>6. InWrite' /\ MappedWhileSending'
      BY <1>1, <2>1 DEF InWrite, MappedWhileSending, Sending
    <2>7. QED
      BY <1>2, <2>1, <2>2, <2>4, <2>5, <2>6 DEF WInv
  <1>4. ASSUME NEW linger \in BOOLEAN, NEW f \in FileSizes, PrepareFile(f, linger)
        PROVE  WInv'
    <2>1. /\ pc' = "out" /\ sent' = <<>> /\ odd' = Used /\ mapped' = TRUE
          /\ m_write_idx' = HeadLen /\ size' = f /\ m_linger' = linger
          /\ m_iv0' = [off |-> 0, len |-> HeadLen] /\ m_iv1' = [off |-> 0, len |-> f]
          /\ bytes_to_send' = HeadLen + f
          /\ UNCHANGED <<bytes_have_send, room, cut>>
      BY <1>4 DEF PrepareFile
    <2>2. HeadLen \in Nat /\ HeadLen > 0 /\ f \in Nat /\ f > 0
      BY SizesAreNumbers
    <2>3. TypeOK'
      <3>1. /\ m_iv0' \in [off : Int, len : 0..HeadLen] /\ m_iv1' \in [off : Int, len : Nat]
            /\ bytes_to_send' \in Int
        BY <2>1, <2>2
      <3>2. odd' \subseteq Oddities
        BY <2>1 DEF Oddities, Used
      <3>3. Len(sent') <= bytes_have_send'
        BY <1>1, <1>2, <2>1 DEF TypeOK
      <3>4. QED
        BY <1>1, <2>1, <3>1, <3>2, <3>3 DEF TypeOK
    <2>4. Unspoilt'
      <3>1. odd' = {} => bytes_have_send' = 0
        BY <2>1 DEF Used
      <3>2. FileGoes'
        <4>1. Total' = HeadLen + f /\ Len(sent') = 0
          BY <1>2, <2>1 DEF Total
        <4>2. bytes_to_send' = Total' - Len(sent') /\ bytes_to_send' > 0
          BY <2>1, <2>2, <4>1
        <4>3. QED
          BY <2>1, <4>1, <4>2 DEF FileGoes, AtRest
      <3>3. QED
        BY <1>2, <2>1, <2>2, <3>1, <3>2 DEF Unspoilt
    <2>5. PlainInOrder'
      BY <2>1 DEF PlainInOrder, InOrder
    <2>6. InWrite' /\ MappedWhileSending'
      BY <2>1, <2>2 DEF InWrite, MappedWhileSending, Sending
    <2>7. QED
      BY <1>2, <2>1, <2>3, <2>4, <2>5, <2>6 DEF WInv
  <1>5. CASE StartWrite
    <2>1. /\ pc = "out" /\ room > 0
          /\ UNCHANGED <<iovVars, countVars, mapped, room, sent, cut, odd, size>>
          /\ m_write_idx' \in {m_write_idx, 0} /\ m_linger' \in BOOLEAN
          /\ \/ bytes_to_send = 0 /\ pc' = "idle"
             \/ bytes_to_send # 0 /\ pc' = "write" /\ m_write_idx' = m_write_idx
      BY <1>1, <1>5 DEF StartWrite, InitConn, replyVars, TypeOK
    <2>2. TypeOK'
      BY <1>1, <2>1 DEF TypeOK, iovVars, countVars
    <2>3. PlainInOrder' /\ sent' \in Seq(Int)
      BY <1>1, <2>1 DEF PlainInOrder, InOrder
    <2>4. InWrite' /\ MappedWhileSending'
      BY <1>1, <2>1 DEF InWrite, MappedWhileSending, Sending, countVars
    <2>5. Unspoilt'
      <3> SUFFICES ASSUME Sending', odd' = {}
                   PROVE  /\ (m_write_idx = HeadLen)'
                          /\ (bytes_have_send = Len(sent))'
                          /\ (size = 0 => PageWaits)'
                          /\ (size > 0 => FileGoes)'
        BY DEF Unspoilt
      <3>1. /\ pc' = "write" /\ m_write_idx' = m_write_idx /\ bytes_to_send # 0
            /\ Sending /\ odd = {}
        BY <2>1 DEF Sending
      <3>2. /\ m_write_idx = HeadLen /\ bytes_have_send = Len(sent) /\ size # 0
            /\ size > 0 => FileGoes
        BY <1>1, <3>1 DEF Unspoilt, PageWaits
      <3>3. FileGoes => FileGoes'
        BY <2>1, <3>1 DEF FileGoes, AtRest, Total, iovVars, countVars
      <3>4. QED
        BY <2>1, <3>1, <3>2, <3>3 DEF countVars
    <2>6. QED
      BY <2>2, <2>3, <2>4, <2>5 DEF WInv
  <1>6. CASE Writev
    <2>1. /\ Writing /\ room' = room - Taken
          /\ sent' = sent \o SubSeq(Gathered, 1, Taken)
          /\ bytes_have_send' = bytes_have_send + Taken
          /\ bytes_to_send' = bytes_to_send - Taken
          /\ odd' \in {odd, odd \cup {"again"}}
          /\ UNCHANGED <<iovVars, cut>>
          /\ \/ Done /\ mapped' = FALSE /\ pc' \in {"idle", "closed"}
             \/ ~Done /\ mapped' = mapped /\ pc' = "again" /\ UNCHANGED replyVars
          /\ \/ UNCHANGED replyVars
             \/ InitConn
      BY <1>6 DEF Writev, Unmap
    <2>2. /\ Taken \in Nat /\ Taken <= room
          /\ sent' \in Seq(Int) /\ Len(sent) \in Nat /\ Len(sent') = Len(sent) + Taken
      BY <1>1, <2>1, WritevAdds
    <2>3. TypeOK'
      <3>1. /\ room' \in 0..SendBuffer /\ bytes_have_send' \in Nat /\ bytes_to_send' \in Int
            /\ Len(sent') <= bytes_have_send'
        BY <1>1, <2>1, <2>2, SizesAreNumbers DEF TypeOK
      <3>2. odd' \subseteq Oddities
        BY <1>1, <2>1 DEF TypeOK, Oddities
      <3>3. m_write_idx' \in {0, HeadLen} /\ size' = size /\ m_linger' \in BOOLEAN
        BY <1>1, <2>1 DEF TypeOK, InitConn, replyVars
      <3>4. mapped' \in BOOLEAN /\ cut' \in BOOLEAN
            /\ pc' \in {"idle", "out", "write", "again", "closed"}
        BY <1>1, <2>1 DEF TypeOK
      <3>5. QED
        BY <1>1, <2>1, <3>1, <3>2, <3>3, <3>4 DEF TypeOK, iovVars
    <2>4. ~Done => bytes_to_send' > 0
      BY <2>3 DEF Done, TypeOK
    <2>5. PlainInOrder'
      BY <1>6, WritevInOrder DEF PlainInOrder
    <2>6. InWrite' /\ MappedWhileSending'
      BY <2>1, <2>4 DEF InWrite, MappedWhileSending, Sending
    <2>7. Unspoilt'
      <3> SUFFICES ASSUME Sending', odd' = {}
                   PROVE  /\ (m_write_idx = HeadLen)'
                          /\ (bytes_have_send = Len(sent))'
                          /\ (size = 0 => PageWaits)'
                          /\ (size > 0 => FileGoes)'
        BY DEF Unspoilt
      <3>1. ~Done /\ mapped' = mapped /\ pc' = "again" /\ UNCHANGED replyVars
        BY <2>1 DEF Sending
      <3>2. /\ m_write_idx = HeadLen /\ size > 0 /\ FileGoes
            /\ bytes_have_send' = Len(sent')
            /\ bytes_to_send' = Total - Len(sent')
        BY <1>6, WritevInOrder
      <3>3. Total' = Total /\ m_write_idx' = m_write_idx /\ size' = size /\ m_iv0' = m_iv0
        BY <2>1, <3>1 DEF Total, replyVars, iovVars
      <3>4. m_iv0.len = 0 => Len(sent') >= HeadLen \/ m_iv0.len = HeadLen
        BY <2>2, <3>2, SizesAreNumbers DEF FileGoes
      <3>5. FileGoes'
        BY <2>4, <3>1, <3>2, <3>3, <3>4 DEF FileGoes
      <3>6. size \in Nat
        BY <1>1, SizesAreNumbers DEF TypeOK
      <3>7. QED
        BY <3>2, <3>3, <3>5, <3>6
    <2>8. QED
      BY <2>2, <2>3, <2>5, <2>6, <2>7 DEF WInv
  <1>7. CASE Eagain
    <2>1. /\ UNCHANGED <<countVars, mapped, sent, cut>> /\ pc' = "out" /\ Sending
          /\ odd' = {} => odd = {}
      BY <1>7 DEF Eagain, AfterEagain, Sending, Writing
    <2>2. PlainInOrder' /\ sent' \in Seq(Int)
      BY <1>1, <2>1 DEF PlainInOrder, InOrder
    <2>3. InWrite' /\ MappedWhileSending'
      BY <1>1, <2>1 DEF InWrite, MappedWhileSending, Sending, countVars
    <2>4. QED
      BY <1>7, <2>2, <2>3, EagainMoves DEF WInv
  <1>8. CASE WriteError
    <2>1. /\ mapped' = FALSE /\ pc' = "closed"
          /\ UNCHANGED <<iovVars, replyVars, countVars, room, sent, cut, odd>>
      BY <1>8 DEF WriteError, Unmap
    <2>2. TypeOK'
      BY <1>1, <2>1 DEF TypeOK, iovVars, replyVars, countVars
    <2>3. PlainInOrder' /\ sent' \in Seq(Int) /\ InWrite' /\ MappedWhileSending' /\ Unspoilt'
      BY <1>1, <2>1 DEF PlainInOrder, InOrder, InWrite, MappedWhileSending, Unspoilt, Sending
    <2>4. QED
      BY <2>2, <2>3 DEF WInv
  <1>9. CASE Drain \/ UNCHANGED vars
    <2>1. /\ UNCHANGED <<iovVars, replyVars, countVars, mapped, pc, sent, cut, odd>>
          /\ room' \in 0..SendBuffer /\ room' >= room
      BY <1>1, <1>9, SizesAreNumbers DEF Drain, vars, TypeOK
    <2>2. TypeOK'
      BY <1>1, <2>1 DEF TypeOK, iovVars, replyVars, countVars
    <2>3. PlainInOrder' /\ sent' \in Seq(Int) /\ MappedWhileSending'
      BY <1>1, <2>1 DEF PlainInOrder, InOrder, MappedWhileSending, Sending, countVars
    <2>4. InWrite'
      BY <1>1, <2>1, SizesAreNumbers DEF InWrite, TypeOK, countVars
    <2>5. Unspoilt'
      BY <1>1, <2>1 DEF Unspoilt, Sending, PageWaits, FileGoes, AtRest, Total,
                        iovVars, replyVars, countVars
    <2>6. QED
      BY <2>2, <2>3, <2>4, <2>5 DEF WInv
  <1>10. CASE Close
    <2>1. /\ pc \in {"idle", "out"} /\ pc' = "closed" /\ cut' = (cut \/ pc = "out")
          /\ UNCHANGED <<iovVars, replyVars, countVars, mapped, room, sent, odd>>
      BY <1>10 DEF Close
    <2>2. cut' \in BOOLEAN
      BY <2>1
    <2>3. TypeOK'
      BY <1>1, <2>1, <2>2 DEF TypeOK, iovVars, replyVars, countVars
    <2>4. PlainInOrder' /\ sent' \in Seq(Int) /\ InWrite' /\ Unspoilt'
      BY <1>1, <2>1 DEF PlainInOrder, InOrder, InWrite, Unspoilt, Sending
    <2>5. MappedWhileSending'
      BY <1>1, <2>1 DEF MappedWhileSending, Sending
    <2>6. QED
      BY <2>3, <2>4, <2>5 DEF WInv
  <1>11. CASE Reopen
    <2>1. /\ pc = "closed" /\ pc' = "idle" /\ sent' = <<>> /\ odd' = {}
          /\ m_write_idx' = 0 /\ m_linger' = FALSE /\ room' \in 1..SendBuffer
          /\ UNCHANGED <<iovVars, countVars, mapped, cut, size>>
      BY <1>11 DEF Reopen, InitConn
    <2>2. Len(sent') <= bytes_have_send /\ room' \in 0..SendBuffer
      BY <1>1, <1>2, <2>1, SizesAreNumbers DEF TypeOK
    <2>3. TypeOK'
      BY <1>1, <2>1, <2>2 DEF TypeOK, iovVars, countVars
    <2>4. sent' \in Seq(Int) /\ InWrite' /\ Unspoilt' /\ MappedWhileSending'
      BY <1>1, <1>2, <2>1 DEF InWrite, Unspoilt, MappedWhileSending, Sending
    <2>5. PlainInOrder'
      BY <2>1 DEF PlainInOrder, InOrder
    <2>6. QED
      BY <2>3, <2>4, <2>5 DEF WInv
  <1>12. QED
    BY <1>3, <1>4, <1>5, <1>6, <1>7, <1>8, <1>9, <1>10, <1>11 DEF Next, Write
-----------------------------------------------------------------------------
(* The counters and the iovecs stay within what they count, for all sizes. *)
THEOREM WriteInvariant == Spec => []WInv
  <1>1. QED
    BY WInit, WNext, PTL DEF Spec

(* A file that is the first response of its http_conn arrives in order,    *)
(* also if several EAGAINs stop it, unless one stops it within the headers *)
(* or the client makes room right after a writev() that sent a part.       *)
THEOREM SentInOrder == Spec => []PlainInOrder
  <1>1. WInv => PlainInOrder
    BY DEF WInv
  <1>2. QED
    BY <1>1, WriteInvariant, PTL

(* What EPOLLOUT will send is what is left.                                *)
THEOREM RestIsHeld == Spec => []IovecsHoldRest
  <1>1. WInv => IovecsHoldRest
    <2> SUFFICES ASSUME WInv, pc = "out", size > 0, odd = {}
                 PROVE  Gathered = [i \in 1..(Total - Len(sent)) |-> Len(sent) + i - 1]
      BY DEF IovecsHoldRest
    <2>1. TypeOK /\ sent \in Seq(Int) /\ m_write_idx = HeadLen /\ FileGoes
      BY DEF WInv, Unspoilt, Sending
    <2>2. mapped /\ AtRest /\ bytes_to_send = Total - Len(sent) /\ bytes_to_send > 0
      BY <2>1 DEF FileGoes
    <2>3. Total - Len(sent) \in Nat
      BY <2>1, <2>2 DEF TypeOK
    <2>4. /\ Len(Gathered) = Total - Len(sent)
          /\ \A i \in 1..Len(Gathered) : Gathered[i] = Len(sent) + i - 1
      BY <2>1, <2>2, <2>3, RestIsGathered
    <2>5. DOMAIN Gathered = 1..Len(Gathered)
      BY <2>1, GatheredIsSeq, LenProperties
    <2>6. Gathered = [i \in 1..Len(Gathered) |-> Gathered[i]]
      BY <2>5 DEF Gathered
    <2>7. QED
      BY <2>4, <2>6
  <1>2. QED
    BY <1>1, WriteInvariant, PTL

(* A mapping is left behind by main() closing a connection, and by nothing *)
(* else.                                                                   *)
THEOREM LeftMappedByCutOnly == Spec => []MappedOnlyIfCut
  <1>1. WInv => MappedOnlyIfCut
    BY DEF WInv, MappedWhileSending, MappedOnlyIfCut, Sending
  <1>2. QED
    BY <1>1, WriteInvariant, PTL

(* write() ends with a file when the last byte was taken, not before.      *)
THEOREM DoneMeansSent == Spec => DoneWhenAllSent
  <1>1. WInv /\ [Next]_vars =>
          [Writing /\ bytes_to_send' # bytes_to_send /\ Done /\ odd' = {}
             => Len(sent') = Total]_vars
    <2> SUFFICES ASSUME WInv, Next, Writing, bytes_to_send' # bytes_to_send, Done, odd' = {}
                 PROVE  Len(sent') = Total
      OBVIOUS
    <2>1. Writev
      BY DEF Next, Write, PreparePage, PrepareFile, StartWrite, Eagain, WriteError, Drain,
             Close, Reopen, Writing, countVars
    <2>2. bytes_to_send' = Total - Len(sent') /\ Len(sent') <= Total
      BY <2>1, WritevInOrder
    <2>3. Len(sent') \in Nat /\ Total \in Nat
      <3>1. sent \in Seq(Int) /\ TypeOK /\ sent' = sent \o SubSeq(Gathered, 1, Taken)
        BY <2>1 DEF WInv, Writev
      <3>2. sent' \in Seq(Int)
        BY <3>1, WritevAdds
      <3>3. QED
        BY <3>1, <3>2, LenProperties, SizesAreNumbers DEF TypeOK, Total
    <2>4. QED
      BY <2>2, <2>3 DEF Done
  <1>2. QED
    BY <1>1, WriteInvariant, PTL DEF Spec, DoneWhenAllSent
-----------------------------------------------------------------------------
(* The iovecs of a response are never both empty: AdvanceFile gives        *)
(* m_iv[1] all that is left, AdvanceHead some of the headers to m_iv[0].   *)
SomethingHeld == Sending => m_iv0.len > 0 \/ m_iv1.len > 0

(* A page, which has no file, waits for EPOLLOUT with nothing to send.     *)
PageUnsent ==
    size = 0 /\ "unsent" \notin odd =>
        /\ sent = <<>>
        /\ Sending => PageWaits

SInv == SomethingHeld /\ PageUnsent

(* No step empties both iovecs or sends some of a page.                    *)
LEMMA SNext == WInv /\ SInv /\ [Next]_vars => SInv'
  <1> SUFFICES ASSUME WInv, SInv, [Next]_vars
               PROVE  SInv'
    OBVIOUS
  <1>1. TypeOK /\ InWrite /\ SomethingHeld /\ PageUnsent
    BY DEF WInv, SInv
  <1>2. CASE \E linger \in BOOLEAN : PreparePage(linger)
    <2>1. /\ m_iv0'.len > 0 /\ size' = 0 /\ sent' = <<>> /\ pc' = "out"
          /\ "unsent" \notin odd' => bytes_to_send' = 0
      BY <1>2, SizesAreNumbers DEF PreparePage, countVars
    <2>2. QED
      BY <2>1 DEF SInv, SomethingHeld, PageUnsent, PageWaits
  <1>3. CASE \E linger \in BOOLEAN : \E f \in FileSizes : PrepareFile(f, linger)
    <2>1. m_iv0'.len > 0 /\ size' # 0
      BY <1>3, SizesAreNumbers DEF PrepareFile
    <2>2. QED
      BY <2>1 DEF SInv, SomethingHeld, PageUnsent
  <1>4. CASE StartWrite
    <2>1. /\ UNCHANGED <<m_iv0, m_iv1, size, odd, sent>> /\ Sending
          /\ bytes_to_send = 0 => pc' = "idle"
      BY <1>4 DEF StartWrite, InitConn, iovVars, replyVars, Sending
    <2>2. SomethingHeld'
      BY <1>1, <2>1 DEF SomethingHeld
    <2>3. PageUnsent'
      BY <1>1, <2>1 DEF PageUnsent, PageWaits, Sending
    <2>4. QED
      BY <2>2, <2>3 DEF SInv
  <1>5. CASE Writev \/ Eagain \/ WriteError
    <2>1. /\ Writing /\ Sending /\ ~PageWaits
          /\ size' = size /\ odd \subseteq odd'
      BY <1>5 DEF Writev, Eagain, WriteError, Writing, Sending, PageWaits, InitConn, replyVars
    <2>2. PageUnsent'
      BY <1>1, <2>1 DEF PageUnsent
    <2>3. SomethingHeld'
      <3>1. CASE Writev \/ WriteError
        BY <1>1, <2>1, <3>1 DEF SomethingHeld, Writev, WriteError, iovVars
      <3>2. CASE Eagain
        <4>1. bytes_to_send > 0
          BY <1>1, <3>2 DEF Eagain, InWrite, Writing
        <4>2. CASE bytes_have_send >= m_iv0.len
          <5>1. m_iv1'.len = bytes_to_send
            BY <3>2, <4>2 DEF Eagain, AdvanceFile
          <5>2. QED
            BY <4>1, <5>1 DEF SomethingHeld
        <4>3. CASE ~(bytes_have_send >= m_iv0.len)
          <5>1. m_iv0'.len = m_iv0.len - bytes_have_send
            BY <3>2, <4>3 DEF Eagain, AdvanceHead
          <5>2. m_iv0.len \in Nat /\ bytes_have_send \in Nat
            BY <1>1, SizesAreNumbers DEF TypeOK
          <5>3. m_iv0'.len > 0
            BY <4>3, <5>1, <5>2
          <5>4. QED
            BY <5>3 DEF SomethingHeld
        <4>4. QED
          BY <4>2, <4>3
      <3>3. QED
        BY <1>5, <3>1, <3>2
    <2>4. QED
      BY <2>2, <2>3 DEF SInv
  <1>6. CASE Drain \/ UNCHANGED vars
    <2>1. UNCHANGED <<m_iv0, m_iv1, size, odd, sent, pc, bytes_to_send>>
      BY <1>6 DEF Drain, vars, iovVars, replyVars, countVars
    <2>2. QED
      BY <1>1, <2>1 DEF SInv, SomethingHeld, PageUnsent, PageWaits, Sending
  <1>7. CASE Close \/ Reopen
    <2>1. ~Sending' /\ (sent' = <<>> \/ UNCHANGED <<size, odd, sent>>)
      BY <1>7 DEF Close, Reopen, Sending, replyVars
    <2>2. QED
      BY <1>1, <2>1 DEF SInv, SomethingHeld, PageUnsent
  <1>8. QED
    BY <1>2, <1>3, <1>4, <1>5, <1>6, <1>7 DEF Next, Write

(* Both invariants hold of an http_conn.                                   *)
LEMMA ResponseInvariant == Spec => [](WInv /\ SInv)
  <1>1. Init => SInv
    BY DEF Init, SInv, SomethingHeld, PageUnsent, Sending
  <1>2. QED
    BY <1>1, WInit, WNext, SNext, PTL DEF Spec

(* Every writev() sends at least one byte, so that the loop of write()     *)
(* ends after at most bytes_to_send iterations, whatever happened to the   *)
(* iovecs before.                                                          *)
EachWritevSends == [][Writev => bytes_to_send' < bytes_to_send /\ room' < room]_vars

THEOREM LoopOfWriteEnds == Spec => EachWritevSends
  <1>1. WInv /\ SInv /\ [Next]_vars =>
          [Writev => bytes_to_send' < bytes_to_send /\ room' < room]_vars
    <2> SUFFICES ASSUME WInv, SInv, Writev
                 PROVE  bytes_to_send' < bytes_to_send /\ room' < room
      OBVIOUS
    <2>1. /\ TypeOK /\ sent \in Seq(Int) /\ Sending /\ (m_iv0.len > 0 \/ m_iv1.len > 0)
      BY DEF WInv, SInv, SomethingHeld, Writev, Writing, Sending
    <2>2. /\ room > 0 /\ (Len(Gathered) > 0 \/ m_iv1.len = 0)
          /\ room' = room - Taken /\ bytes_to_send' = bytes_to_send - Taken
      BY DEF Writev
    <2>3. /\ Len(Gathered) = m_iv0.len + (IF mapped THEN m_iv1.len ELSE 0)
          /\ Len(Gathered) \in Nat
      BY <2>1, GatheredIsSeq
    <2>4. Len(Gathered) > 0
      BY <2>1, <2>2, <2>3 DEF TypeOK
    <2>5. room \in Nat /\ bytes_to_send \in Int
      BY <2>1, SizesAreNumbers DEF TypeOK
    <2>6. Taken \in Nat /\ Taken > 0
      BY <2>2, <2>3, <2>4, <2>5, LeastOfTwo DEF Taken
    <2> HIDE DEF Taken
    <2>7. QED
      BY <2>2, <2>5, <2>6
  <1>2. QED
    BY <1>1, ResponseInvariant, PTL DEF Spec, EachWritevSends

(* An error page, or the one for an empty file, is never sent: not a byte  *)
(* of it, unless the rest of an aborted response is counted for it.        *)
PageNeverSent == size = 0 /\ "unsent" \notin odd => sent = <<>>

THEOREM PagesAreNotSent == Spec => []PageNeverSent
  <1>1. SInv => PageNeverSent
    BY DEF SInv, PageUnsent, PageNeverSent
  <1>2. QED
    BY <1>1, ResponseInvariant, PTL
=============================================================================
