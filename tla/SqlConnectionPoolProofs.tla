----------------------- MODULE SqlConnectionPoolProofs -----------------------
(***************************************************************************)
(* Theorems about SqlConnectionPool for every set of workers and of        *)
(* connections and any number of interrupted waits.                        *)
(***************************************************************************)
EXTENDS SqlConnectionPool, FiniteSetTheorems, SequenceTheorems, TLAPS

(* Who holds a connection, who runs before and after the load, and how     *)
(* many connections there are in all.                                      *)
Places ==
    /\ \A t \in Threads : pc[t] \notin {"use"} => con[t] = NULL
    /\ phase = "load" => \A w \in Workers : pc[w] = "idle"
    /\ phase # "load" => pc[Main] = "idle"
    /\ phase # "down" => closed = {}
    /\ phase # "down" => Len(connList) + Cardinality(Lent) = Cardinality(Conns)

IInv ==
    /\ TypeOK
    /\ Places
    /\ EachConnectionInOnePlace
    /\ ReserveCountsList
    /\ CountersAgree
    /\ NeverPopsEmpty
    /\ AlwaysConnected

(* There are finitely many threads.                                        *)
LEMMA ThreadsFinite ==
  /\ IsFiniteSet(Threads)
  /\ \A S \in SUBSET Threads : IsFiniteSet(S) /\ Cardinality(S) \in Nat
  /\ Main \in Threads
  <1>1. IsFiniteSet(Workers \cup {Main})
    BY SqlAssumption, FS_AddElement
  <1>2. IsFiniteSet(Threads)
    BY <1>1 DEF Threads
  <1>3. QED
    BY <1>2, FS_Subset, FS_CardinalityType DEF Threads

(* There are finitely many connections, fewer than an unsigned int counts. *)
LEMMA ConnsFinite ==
  /\ IsFiniteSet(Conns)
  /\ Cardinality(Conns) \in Nat
  /\ Cardinality(Conns) >= 1
  /\ Cardinality(Conns) < UINT_RANGE
  <1>1. IsFiniteSet(Conns) /\ Cardinality(Conns) \in Nat
    BY SqlAssumption, FS_CardinalityType
  <1>2. Cardinality(Conns) # 0
    BY SqlAssumption, FS_EmptySet
  <1>3. QED
    BY <1>1, <1>2, SqlAssumption

(* A thread that leaves a place and enters another moves one between the   *)
(* two counts and no other.                                                *)
LEMMA MoveCounts ==
  ASSUME TypeOK, NEW t \in Threads, NEW to \in PCs, NEW l \in PCs,
         pc' = [pc EXCEPT ![t] = to]
  PROVE  /\ Cardinality(At(l)) \in Nat
         /\ to # l /\ pc[t] # l => Cardinality(At(l)') = Cardinality(At(l))
         /\ to = l /\ pc[t] # l => Cardinality(At(l)') = Cardinality(At(l)) + 1
         /\ to # l /\ pc[t] = l => Cardinality(At(l)') = Cardinality(At(l)) - 1
  <1>1. IsFiniteSet(At(l)) /\ Cardinality(At(l)) \in Nat
    BY ThreadsFinite DEF At
  <1>2. CASE to # l /\ pc[t] # l
    <2>1. At(l)' = At(l)
      BY <1>2 DEF At, TypeOK
    <2>2. QED
      BY <1>1, <1>2, <2>1
  <1>3. CASE to = l /\ pc[t] # l
    <2>1. At(l)' = At(l) \cup {t} /\ t \notin At(l)
      BY <1>3 DEF At, TypeOK
    <2>2. QED
      BY <1>1, <1>3, <2>1, FS_AddElement
  <1>4. CASE to # l /\ pc[t] = l
    <2>1. At(l)' = At(l) \ {t} /\ t \in At(l)
      BY <1>4 DEF At, TypeOK
    <2>2. QED
      BY <1>1, <1>4, <2>1, FS_RemoveElement
  <1>5. QED
    BY <1>1, <1>2, <1>3, <1>4

(* The number of loans after a thread gets or gives back a connection.     *)
LEMMA LentCounts ==
  ASSUME TypeOK, NEW t \in Threads, NEW c \in Conns \cup {NULL},
         con' = [con EXCEPT ![t] = c]
  PROVE  /\ Cardinality(Lent) \in Nat
         /\ con[t] = NULL /\ c # NULL => Cardinality(Lent') = Cardinality(Lent) + 1
         /\ con[t] # NULL /\ c = NULL => Cardinality(Lent') = Cardinality(Lent) - 1
  <1>1. IsFiniteSet(Lent) /\ Cardinality(Lent) \in Nat
    BY ThreadsFinite DEF Lent
  <1>2. CASE con[t] = NULL /\ c # NULL
    <2>1. Lent' = Lent \cup {t} /\ t \notin Lent
      BY <1>2 DEF Lent, TypeOK
    <2>2. QED
      BY <1>1, <1>2, <2>1, FS_AddElement
  <1>3. CASE con[t] # NULL /\ c = NULL
    <2>1. Lent' = Lent \ {t} /\ t \in Lent
      BY <1>3 DEF Lent, TypeOK
    <2>2. QED
      BY <1>1, <1>3, <2>1, FS_RemoveElement
  <1>4. QED
    BY <1>1, <1>2, <1>3

(* Below its range an unsigned counter counts as an integer does.          *)
LEMMA Unsigned ==
  ASSUME NEW n \in Nat, n < UINT_RANGE
  PROVE  /\ Inc(n) \in 0..UINT_RANGE - 1
         /\ Dec(n) \in 0..UINT_RANGE - 1
         /\ n + 1 < UINT_RANGE => Inc(n) = n + 1
         /\ n > 0 => Dec(n) = n - 1
  BY SqlAssumption, SMT DEF Inc, Dec

(* If a thread is about to take a connection and none is in the list, all  *)
(* are lent to the other workers, which are fewer than the connections.    *)
LEMMA EmptyListMeansAllLent ==
  ASSUME IInv, phase # "down", EnoughConnections, connList = <<>>,
         NEW t \in Threads, con[t] = NULL, phase = "load" => t = Main,
         phase # "load" => t # Main
  PROVE  FALSE
  <1>1. Cardinality(Lent) = Cardinality(Conns)
    BY ThreadsFinite, ConnsFinite DEF IInv, Places, Lent
  <1>2. CASE phase = "load"
    <2>1. Lent = {}
      BY <1>2 DEF IInv, Places, Lent, Threads
    <2>2. QED
      BY <2>1, <1>1, ConnsFinite, FS_EmptySet
  <1>3. CASE phase # "load"
    <2>1. Lent \subseteq Workers \ {t} /\ t \in Workers
      BY <1>3, SqlAssumption DEF IInv, Places, Lent, Threads
    <2>2. Cardinality(Lent) <= Cardinality(Workers) - 1
      BY <2>1, SqlAssumption, FS_RemoveElement, FS_Subset, FS_CardinalityType
    <2>3. Cardinality(Workers) \in Nat
      BY SqlAssumption, FS_CardinalityType
    <2>4. QED
      BY <1>1, <2>2, <2>3, ConnsFinite DEF EnoughConnections
  <1>4. QED
    BY <1>2, <1>3
-----------------------------------------------------------------------------
(* What init() sets up satisfies the invariant.                            *)
LEMMA InitIInv == Init => IInv
  <1> SUFFICES ASSUME Init PROVE IInv
    OBVIOUS
  <1> DEFINE N == Cardinality(Conns)
  <1>1. /\ connList \in [1..N -> Conns]
        /\ \A i, j \in 1..N : i # j => connList[i] # connList[j]
    BY DEF Init, SetToSeqs
  <1>2. connList \in Seq(Conns) /\ Len(connList) = N
    BY <1>1, ConnsFinite, SeqDef, LenProperties
  <1>3. ToSet(connList) = Conns
    <2>1. connList \in Injection(1..N, Conns)
      BY <1>1 DEF Injection, IsInjective
    <2>2. Cardinality(1..N) = N
      BY ConnsFinite, FS_Interval
    <2>3. connList \in Surjection(1..N, Conns)
      BY <2>1, <2>2, ConnsFinite, FS_Injection
    <2>4. QED
      BY <2>3, <1>1 DEF Surjection, ToSet
  <1>4. Lent = {} /\ At("pop") = {} /\ At("post") = {} /\ At("use") = {} /\ At("abort") = {}
    BY DEF Init, Lent, At
  <1>5. TypeOK
    BY <1>2, ConnsFinite, SqlAssumption DEF Init, TypeOK, PCs
  <1>6. Places
    BY <1>2, <1>4, ConnsFinite, FS_EmptySet DEF Init, Places, Threads
  <1>7. EachConnectionInOnePlace
    BY <1>1, <1>2, <1>3, <1>4, SqlAssumption DEF Init, EachConnectionInOnePlace
  <1>8. ReserveCountsList /\ CountersAgree
    <2>1. /\ Cardinality(Lent) = 0
          /\ Cardinality(At("pop")) = 0
          /\ Cardinality(At("post")) = 0
      BY <1>4, FS_EmptySet
    <2>2. reserve = N /\ FreeConn = N /\ CurConn = 0 /\ signals = 0
      BY DEF Init
    <2>3. QED
      BY <1>2, <2>1, <2>2, ConnsFinite DEF ReserveCountsList, CountersAgree
  <1>9. NeverPopsEmpty /\ AlwaysConnected
    BY <1>4 DEF NeverPopsEmpty, AlwaysConnected
  <1>10. QED
    BY <1>5, <1>6, <1>7, <1>8, <1>9 DEF IInv

(* A step that touches no list and no loan: GetConnection() up to the pop, *)
(* and the post of ReleaseConnection().                                    *)
LEMMA QuietStep ==
  ASSUME IInv, NEW t \in Threads, NEW to \in PCs, to # "abort", pc[t] # "use",
         pc' = [pc EXCEPT ![t] = to],
         phase' \in {"load", "serve", "down"},
         phase' = phase \/ (t = Main /\ phase = "load" /\ phase' = "serve" /\ to = "idle"),
         t = Main => phase = "load",
         phase = "load" => t = Main,
         reserve' \in Nat, signals' \in 0..MaxSignals, signals' >= signals,
         to = "use" /\ phase # "down" /\ EnoughConnections => FALSE,
         phase # "down" => ReserveCountsList',
         UNCHANGED <<connList, FreeConn, CurConn, closed, con>>
  PROVE  IInv'
  <1>1. TypeOK'
    BY DEF IInv, TypeOK
  <1>2. Lent' = Lent
    BY DEF Lent
  <1>3. Places'
    BY <1>2, SqlAssumption DEF IInv, Places, TypeOK, Threads
  <1>4. EachConnectionInOnePlace'
    BY <1>2 DEF IInv, EachConnectionInOnePlace
  <1>5. phase' = "down" <=> phase = "down"
    OBVIOUS
  <1>6. ReserveCountsList'
    BY <1>5 DEF ReserveCountsList
  <1>7. CountersAgree'
    BY <1>2, <1>5 DEF IInv, CountersAgree
  <1>8. NeverPopsEmpty'
    <2>1. At("abort")' \subseteq At("abort")
      BY DEF At, IInv, TypeOK
    <2>2. signals' = 0 => signals = 0
      BY DEF IInv, TypeOK
    <2>3. QED
      BY <2>1, <2>2, <1>5 DEF IInv, NeverPopsEmpty, EnoughConnections
  <1>9. AlwaysConnected'
    BY <1>5 DEF IInv, AlwaysConnected, At, TypeOK, EnoughConnections
  <1>10. QED
    BY <1>1, <1>3, <1>4, <1>6, <1>7, <1>8, <1>9 DEF IInv

(* The thread at work is main() during the load and a worker later.        *)
LEMMA WhoRuns ==
  ASSUME IInv, NEW t \in Threads, pc[t] # "idle" \/ MayBorrow(t)
  PROVE  (t = Main => phase = "load") /\ (phase = "load" => t = Main)
  BY DEF IInv, Places, Threads, MayBorrow

(* GetConnection() returns NULL only when EnoughConnections is false.      *)
LEMMA GetNoneStep ==
  ASSUME IInv, Alive, NEW t \in Threads, GetNone(t)
  PROVE  IInv'
  <1>1. con[t] = NULL
    BY DEF IInv, Places, GetNone
  <1>2. phase # "down" /\ EnoughConnections => FALSE
    BY <1>1, WhoRuns, EmptyListMeansAllLent DEF GetNone
  <1>3. phase # "down" => ReserveCountsList'
    <2>1. Cardinality(At("pop")') = Cardinality(At("pop"))
      BY MoveCounts DEF IInv, GetNone, PCs
    <2>2. Cardinality(At("post")') = Cardinality(At("post"))
      BY MoveCounts DEF IInv, GetNone, PCs
    <2>3. QED
      BY <2>1, <2>2 DEF IInv, ReserveCountsList, GetNone
  <1>4. reserve' \in Nat /\ signals' \in 0..MaxSignals /\ signals' >= signals
    BY DEF GetNone, IInv, TypeOK
  <1>5. QED
    BY <1>2, <1>3, <1>4, WhoRuns, QuietStep DEF GetNone, PCs, IInv, TypeOK

(* The unlocked test of the size changes no count.                         *)
LEMMA GetTestStep ==
  ASSUME IInv, Alive, NEW t \in Threads, GetTest(t)
  PROVE  IInv'
  <1>1. phase # "down" => ReserveCountsList'
    <2>1. Cardinality(At("pop")') = Cardinality(At("pop"))
      BY MoveCounts DEF IInv, GetTest, PCs
    <2>2. Cardinality(At("post")') = Cardinality(At("post"))
      BY MoveCounts DEF IInv, GetTest, PCs
    <2>3. QED
      BY <2>1, <2>2 DEF IInv, ReserveCountsList, GetTest
  <1>2. reserve' \in Nat /\ signals' \in 0..MaxSignals /\ signals' >= signals
    BY DEF GetTest, IInv, TypeOK
  <1>3. QED
    BY <1>1, <1>2, WhoRuns, QuietStep DEF GetTest, PCs, IInv, TypeOK

(* A wait that succeeds turns a token into a thread on its way.            *)
LEMMA ReserveWaitStep ==
  ASSUME IInv, Alive, NEW t \in Threads, ReserveWait(t)
  PROVE  IInv'
  <1>1. phase # "down" => ReserveCountsList'
    <2>1. /\ Cardinality(At("pop")') = Cardinality(At("pop")) + 1
          /\ Cardinality(At("pop")) \in Nat
      BY MoveCounts DEF IInv, ReserveWait, PCs
    <2>2. /\ Cardinality(At("post")') = Cardinality(At("post"))
          /\ Cardinality(At("post")) \in Nat
      BY MoveCounts DEF IInv, ReserveWait, PCs
    <2>3. QED
      BY <2>1, <2>2 DEF IInv, ReserveCountsList, ReserveWait, TypeOK
  <1>2. reserve' \in Nat /\ signals' \in 0..MaxSignals /\ signals' >= signals
    BY DEF ReserveWait, IInv, TypeOK
  <1>3. QED
    BY <1>1, <1>2, WhoRuns, QuietStep DEF ReserveWait, PCs, IInv, TypeOK

(* An interrupted wait adds a thread on its way and a signal.              *)
LEMMA ReserveInterruptedStep ==
  ASSUME IInv, Alive, NEW t \in Threads, ReserveInterrupted(t)
  PROVE  IInv'
  <1>1. phase # "down" => ReserveCountsList'
    <2>1. /\ Cardinality(At("pop")') = Cardinality(At("pop")) + 1
          /\ Cardinality(At("pop")) \in Nat
      BY MoveCounts DEF IInv, ReserveInterrupted, PCs
    <2>2. /\ Cardinality(At("post")') = Cardinality(At("post"))
          /\ Cardinality(At("post")) \in Nat
      BY MoveCounts DEF IInv, ReserveInterrupted, PCs
    <2>3. /\ Len(connList) \in Nat
          /\ signals \in Nat
          /\ reserve \in Nat
          /\ signals' = signals + 1
          /\ connList' = connList
          /\ reserve' = reserve
      BY SqlAssumption, LenProperties DEF IInv, TypeOK, ReserveInterrupted
    <2>4. phase # "down" => reserve + Cardinality(At("pop")) + Cardinality(At("post"))
                              = Len(connList) + signals
      BY DEF IInv, ReserveCountsList
    <2>5. QED
      BY <2>1, <2>2, <2>3, <2>4 DEF ReserveCountsList
  <1>2. reserve' \in Nat /\ signals' \in 0..MaxSignals /\ signals' >= signals
    BY SqlAssumption DEF ReserveInterrupted, IInv, TypeOK
  <1>3. QED
    BY <1>1, <1>2, WhoRuns, QuietStep DEF ReserveInterrupted, PCs, IInv, TypeOK

(* The post turns a thread about to post into a token.                     *)
LEMMA ReleasePostStep ==
  ASSUME IInv, Alive, NEW t \in Threads, ReleasePost(t)
  PROVE  IInv'
  <1>1. phase # "down" => ReserveCountsList'
    <2>1. /\ Cardinality(At("pop")') = Cardinality(At("pop"))
          /\ Cardinality(At("pop")) \in Nat
      BY MoveCounts DEF IInv, ReleasePost, PCs
    <2>2. /\ Cardinality(At("post")') = Cardinality(At("post")) - 1
          /\ Cardinality(At("post")) \in Nat
      BY MoveCounts DEF IInv, ReleasePost, PCs
    <2>3. QED
      BY <2>1, <2>2 DEF IInv, ReserveCountsList, ReleasePost, TypeOK
  <1>2. reserve' \in Nat /\ signals' \in 0..MaxSignals /\ signals' >= signals
    BY DEF ReleasePost, IInv, TypeOK
  <1>3. /\ phase' \in {"load", "serve", "down"}
        /\ phase' = phase \/ (t = Main /\ phase = "load" /\ phase' = "serve")
    BY WhoRuns DEF ReleasePost, IInv, TypeOK
  <1>4. QED
    BY <1>1, <1>2, <1>3, WhoRuns, QuietStep DEF ReleasePost, PCs, IInv, TypeOK

(* Only after DestroyPool(), or with more workers than connections and an  *)
(* interrupted wait, does a thread find the list empty.                    *)
LEMMA PopFrontEmptyStep ==
  ASSUME IInv, Alive, NEW t \in Threads, PopFrontEmpty(t)
  PROVE  IInv'
  <1>1. con[t] = NULL
    BY DEF IInv, Places, PopFrontEmpty
  <1>2. phase # "down" => ~EnoughConnections
    BY <1>1, WhoRuns, EmptyListMeansAllLent DEF PopFrontEmpty
  <1>3. phase # "down" => signals # 0
    <2>1. Cardinality(At("pop")) \in Nat /\ Cardinality(At("post")) \in Nat
      BY ThreadsFinite DEF At
    <2>2. Cardinality(At("pop")) # 0
      BY ThreadsFinite, FS_EmptySet DEF At, PopFrontEmpty
    <2>3. Len(connList) = 0 /\ reserve \in Nat
      BY EmptySeq, LenProperties DEF IInv, TypeOK, PopFrontEmpty
    <2>4. QED
      BY <2>1, <2>2, <2>3 DEF IInv, ReserveCountsList
  <1>4. TypeOK'
    BY DEF IInv, TypeOK, PopFrontEmpty, PCs
  <1>5. Lent' = Lent /\ phase' = phase /\ ~Alive'
    BY DEF Lent, PopFrontEmpty, Alive, IInv, TypeOK
  <1>6. Places'
    BY <1>1, <1>5, WhoRuns DEF IInv, Places, TypeOK, PopFrontEmpty
  <1>7. EachConnectionInOnePlace'
    BY <1>5 DEF IInv, EachConnectionInOnePlace, PopFrontEmpty
  <1>8. ReserveCountsList' /\ CountersAgree'
    BY <1>5 DEF IInv, ReserveCountsList, CountersAgree, PopFrontEmpty
  <1>9. NeverPopsEmpty' /\ AlwaysConnected'
    BY <1>2, <1>3 DEF NeverPopsEmpty, AlwaysConnected, EnoughConnections, PopFrontEmpty
  <1>10. QED
    BY <1>4, <1>6, <1>7, <1>8, <1>9 DEF IInv

(* The pop moves one connection from the list to the thread.               *)
LEMMA PopFrontStep ==
  ASSUME IInv, Alive, NEW t \in Threads, PopFront(t)
  PROVE  IInv'
  <1> DEFINE c == Head(connList)
  <1>1. /\ con[t] = NULL
        /\ c \in Conns
        /\ c # NULL
        /\ c \in ToSet(connList)
        /\ connList' \in Seq(Conns)
        /\ Len(connList') = Len(connList) - 1
        /\ Len(connList) \in Nat \ {0}
        /\ \A i \in 1..Len(connList') : connList'[i] = connList[i + 1]
    BY HeadTailProperties, SqlAssumption DEF IInv, TypeOK, Places, PopFront, ToSet
  <1>2. con' = [con EXCEPT ![t] = c]
    BY DEF PopFront
  <1>3. Cardinality(Lent) \in Nat /\ Cardinality(Lent') = Cardinality(Lent) + 1
    BY <1>1, <1>2, LentCounts DEF IInv
  <1>4. /\ c \notin ToSet(connList')
        /\ ToSet(connList) = ToSet(connList') \cup {c}
    <2>1. connList \in Seq(Conns) /\ c = connList[1]
      BY HeadTailProperties DEF IInv, TypeOK, PopFront
    <2>2. DOMAIN connList = 1..Len(connList) /\ DOMAIN connList' = 1..Len(connList')
      BY <1>1, <2>1, LenProperties
    <2>3. c \notin ToSet(connList')
      <3>1. \A i \in 1..Len(connList') : connList'[i] # connList[1]
        BY <1>1 DEF IInv, EachConnectionInOnePlace
      <3>2. QED
        BY <3>1, <2>1, <2>2 DEF ToSet
    <2>4. ToSet(connList) \subseteq ToSet(connList') \cup {c}
      <3> SUFFICES ASSUME NEW i \in 1..Len(connList), i # 1
                   PROVE  connList[i] \in ToSet(connList')
        BY <2>1, <2>2 DEF ToSet
      <3>1. i - 1 \in 1..Len(connList') /\ connList'[i - 1] = connList[i]
        BY <1>1
      <3>2. QED
        BY <3>1, <2>2 DEF ToSet
    <2>5. ToSet(connList') \subseteq ToSet(connList)
      <3> SUFFICES ASSUME NEW i \in 1..Len(connList')
                   PROVE  connList'[i] \in ToSet(connList)
        BY <2>2 DEF ToSet
      <3>1. i + 1 \in 1..Len(connList) /\ connList'[i] = connList[i + 1]
        BY <1>1
      <3>2. QED
        BY <3>1, <2>2 DEF ToSet
    <2>6. QED
      BY <1>1, <2>3, <2>4, <2>5
  <1>5. TypeOK'
    <2>1. FreeConn' \in 0..UINT_RANGE - 1 /\ CurConn' \in 0..UINT_RANGE - 1
      BY Unsigned, SqlAssumption DEF IInv, TypeOK, PopFront
    <2>2. QED
      BY <1>1, <2>1 DEF IInv, TypeOK, PopFront, PCs
  <1>6. Places'
    BY <1>1, <1>3, WhoRuns, ConnsFinite, ThreadsFinite DEF IInv, Places, TypeOK, PopFront
  <1>7. EachConnectionInOnePlace'
    <2>1. \A i, j \in 1..Len(connList') : connList'[i] = connList'[j] => i = j
      BY <1>1 DEF IInv, EachConnectionInOnePlace
    <2>2. \A u \in Threads : con'[u] = IF u = t THEN c ELSE con[u]
      BY <1>2 DEF IInv, TypeOK
    <2>3. \A u \in Threads : con[u] # c
      BY <1>1 DEF IInv, EachConnectionInOnePlace
    <2>4. {con'[u] : u \in Lent'} = {con[u] : u \in Lent} \cup {c}
      BY <1>1, <2>2 DEF Lent
    <2>5. closed' = closed /\ ToSet(connList)' = ToSet(connList')
      BY DEF PopFront, ToSet
    <2>6. c \notin closed
      BY <1>1 DEF IInv, EachConnectionInOnePlace
    <2>7. /\ \A u, v \in Threads : u # v /\ con[u] # NULL => con[u] # con[v]
          /\ \A u \in Threads : con[u] \notin ToSet(connList) \cup closed
          /\ ToSet(connList) \cap closed = {}
          /\ Conns = ToSet(connList) \cup closed \cup {con[u] : u \in Lent}
      BY DEF IInv, EachConnectionInOnePlace
    <2>8. \A u, v \in Threads : u # v /\ con'[u] # NULL => con'[u] # con'[v]
      BY <2>2, <2>3, <2>7
    <2>9. \A u \in Threads : con'[u] \notin ToSet(connList') \cup closed
      BY <1>4, <2>2, <2>6, <2>7
    <2>10. QED
      BY <1>4, <2>1, <2>4, <2>5, <2>7, <2>8, <2>9 DEF EachConnectionInOnePlace, ToSet
  <1>8. ReserveCountsList'
    <2>1. /\ Cardinality(At("pop")') = Cardinality(At("pop")) - 1
          /\ Cardinality(At("pop")) \in Nat
          /\ Cardinality(At("post")') = Cardinality(At("post"))
          /\ Cardinality(At("post")) \in Nat
      BY MoveCounts DEF IInv, PopFront, PCs
    <2>2. /\ signals \in Nat /\ reserve \in Nat
          /\ signals' = signals /\ reserve' = reserve /\ phase' = phase
      BY SqlAssumption DEF IInv, TypeOK, PopFront
    <2>3. phase # "down" => reserve + Cardinality(At("pop")) + Cardinality(At("post"))
                              = Len(connList) + signals
      BY DEF IInv, ReserveCountsList
    <2>4. Len(connList) \in Nat /\ Len(connList') = Len(connList) - 1
      BY <1>1
    <2>5. QED
      BY <2>1, <2>2, <2>3, <2>4 DEF ReserveCountsList
  <1>9. CountersAgree'
    <2>1. CASE phase # "down"
      <3>1. FreeConn = Len(connList) /\ CurConn = Cardinality(Lent)
        BY <2>1 DEF IInv, CountersAgree
      <3>2. Len(connList) + Cardinality(Lent) < UINT_RANGE
        BY <2>1, ConnsFinite DEF IInv, Places
      <3>3. FreeConn' = FreeConn - 1 /\ CurConn' = CurConn + 1
        BY <1>1, <1>3, <3>1, <3>2, Unsigned, SqlAssumption DEF PopFront
      <3>4. QED
        BY <1>1, <1>3, <3>1, <3>3 DEF CountersAgree
    <2>2. QED
      BY <2>1 DEF CountersAgree, PopFront
  <1>10. NeverPopsEmpty' /\ AlwaysConnected'
    BY <1>1, SqlAssumption DEF IInv, NeverPopsEmpty, AlwaysConnected, EnoughConnections, PopFront, At, TypeOK
  <1>11. QED
    BY <1>5, <1>6, <1>7, <1>8, <1>9, <1>10 DEF IInv

(* The push moves the thread's connection back to the list.                *)
LEMMA ReleaseConnectionStep ==
  ASSUME IInv, Alive, NEW t \in Threads, ReleaseConnection(t)
  PROVE  IInv'
  <1> DEFINE c == con[t]
             n == Len(connList)
  <1>1. /\ c \in Conns
        /\ c # NULL
        /\ connList \in Seq(Conns)
        /\ n \in Nat
        /\ connList' \in Seq(Conns)
        /\ Len(connList') = n + 1
        /\ \A i \in 1..n : connList'[i] = connList[i]
        /\ connList'[n + 1] = c
    BY AppendProperties, LenProperties, SqlAssumption DEF IInv, TypeOK, ReleaseConnection
  <1>2. con' = [con EXCEPT ![t] = NULL]
    BY DEF ReleaseConnection
  <1>3. /\ Cardinality(Lent) \in Nat
        /\ Cardinality(Lent') = Cardinality(Lent) - 1
        /\ Cardinality(Lent) # 0
    <2>1. t \in Lent
      BY <1>1 DEF Lent
    <2>2. Cardinality(Lent) # 0
      BY <2>1, ThreadsFinite, FS_EmptySet DEF Lent
    <2>3. QED
      BY <1>1, <1>2, <2>2, LentCounts DEF IInv
  <1>4. ToSet(connList') = ToSet(connList) \cup {c}
    <2>1. DOMAIN connList = 1..n /\ DOMAIN connList' = 1..n + 1
      BY <1>1, LenProperties
    <2>2. \A i \in 1..n + 1 : connList'[i] = IF i = n + 1 THEN c ELSE connList[i]
      BY <1>1
    <2>3. \A i \in 1..n : i \in 1..n + 1 /\ i # n + 1
      BY <1>1
    <2>4. n + 1 \in 1..n + 1 /\ \A i \in 1..n + 1 : i # n + 1 => i \in 1..n
      BY <1>1
    <2>5. ToSet(connList) = {connList[i] : i \in 1..n}
      BY <2>1 DEF ToSet
    <2>6. ToSet(connList') = {connList'[i] : i \in 1..n + 1}
      BY <2>1 DEF ToSet
    <2>7. ToSet(connList') \subseteq ToSet(connList) \cup {c}
      BY <2>2, <2>4, <2>5, <2>6
    <2>8. ToSet(connList) \subseteq ToSet(connList')
      BY <2>2, <2>3, <2>5, <2>6
    <2>9. c \in ToSet(connList')
      BY <2>2, <2>4, <2>6
    <2>10. QED
      BY <2>7, <2>8, <2>9
  <1>5. TypeOK'
    <2>1. FreeConn' \in 0..UINT_RANGE - 1 /\ CurConn' \in 0..UINT_RANGE - 1
      BY Unsigned, SqlAssumption DEF IInv, TypeOK, ReleaseConnection
    <2>2. QED
      BY <1>1, <2>1 DEF IInv, TypeOK, ReleaseConnection, PCs
  <1>6. Places'
    <2>1. \A u \in Threads : pc'[u] # "use" => con'[u] = NULL
      BY <1>2 DEF IInv, Places, TypeOK, ReleaseConnection
    <2>2. /\ phase' = "load" => \A w \in Workers : pc'[w] = "idle"
          /\ phase' # "load" => pc'[Main] = "idle"
      BY WhoRuns, SqlAssumption DEF IInv, Places, TypeOK, ReleaseConnection, Threads
    <2>3. phase' # "down" => closed' = {}
      BY DEF IInv, Places, ReleaseConnection
    <2>4. phase' # "down" => Len(connList') + Cardinality(Lent') = Cardinality(Conns)
      <3>1. phase # "down" => n + Cardinality(Lent) = Cardinality(Conns)
        BY DEF IInv, Places
      <3>2. n \in Nat /\ Len(connList') = n + 1
        BY <1>1
      <3>3. QED
        BY <1>3, <3>1, <3>2, ConnsFinite DEF ReleaseConnection
    <2>5. QED
      BY <2>1, <2>2, <2>3, <2>4 DEF Places
  <1>7. EachConnectionInOnePlace'
    <2>1. /\ \A i, j \in 1..n : connList[i] = connList[j] => i = j
          /\ \A u, v \in Threads : u # v /\ con[u] # NULL => con[u] # con[v]
          /\ \A u \in Threads : con[u] \notin ToSet(connList) \cup closed
          /\ ToSet(connList) \cap closed = {}
          /\ Conns = ToSet(connList) \cup closed \cup {con[u] : u \in Lent}
      BY DEF IInv, EachConnectionInOnePlace
    <2>2. \A u \in Threads : con'[u] = IF u = t THEN NULL ELSE con[u]
      BY <1>2 DEF IInv, TypeOK
    <2>3. \A i \in 1..n : connList[i] # c
      BY <1>1, <2>1, LenProperties DEF ToSet
    <2>4. \A i, j \in 1..n + 1 : connList'[i] = connList'[j] => i = j
      <3> SUFFICES ASSUME NEW i \in 1..n + 1, NEW j \in 1..n + 1, i # j
                   PROVE  connList'[i] # connList'[j]
        OBVIOUS
      <3>1. CASE i = n + 1
        BY <1>1, <2>3, <3>1
      <3>2. CASE j = n + 1
        BY <1>1, <2>3, <3>2
      <3>3. CASE i \in 1..n /\ j \in 1..n
        BY <1>1, <2>1, <3>3
      <3>4. QED
        BY <1>1, <3>1, <3>2, <3>3
    <2>5. NULL \notin ToSet(connList') \cup closed
      BY <1>1, <1>4, SqlAssumption, LenProperties DEF IInv, TypeOK, ToSet
    <2>6. \A u \in Threads : con'[u] \notin ToSet(connList') \cup closed
      BY <1>1, <1>4, <2>1, <2>2, <2>5
    <2>7. {con[u] : u \in Lent} = {con'[u] : u \in Lent'} \cup {c}
      <3>1. Lent = Lent' \cup {t} /\ t \notin Lent'
        BY <1>1, <2>2 DEF Lent
      <3>2. \A u \in Lent' : con'[u] = con[u]
        BY <3>1, <2>2 DEF Lent
      <3>3. QED
        BY <3>1, <3>2
    <2>8. closed' = closed
      BY DEF ReleaseConnection
    <2>9. \A u, v \in Threads : u # v /\ con'[u] # NULL => con'[u] # con'[v]
      BY <2>1, <2>2
    <2>10. ToSet(connList') \cap closed = {} /\ c \notin closed
      BY <1>1, <1>4, <2>1
    <2>11. QED
      BY <1>1, <1>4, <2>1, <2>4, <2>6, <2>7, <2>8, <2>9, <2>10 DEF EachConnectionInOnePlace, ToSet
  <1>8. ReserveCountsList'
    <2>1. /\ Cardinality(At("pop")') = Cardinality(At("pop"))
          /\ Cardinality(At("pop")) \in Nat
          /\ Cardinality(At("post")') = Cardinality(At("post")) + 1
          /\ Cardinality(At("post")) \in Nat
      BY MoveCounts DEF IInv, ReleaseConnection, PCs
    <2>2. /\ signals \in Nat /\ reserve \in Nat
          /\ signals' = signals /\ reserve' = reserve /\ phase' = phase
      BY SqlAssumption DEF IInv, TypeOK, ReleaseConnection
    <2>3. phase # "down" => reserve + Cardinality(At("pop")) + Cardinality(At("post"))
                              = Len(connList) + signals
      BY DEF IInv, ReserveCountsList
    <2>4. QED
      BY <1>1, <2>1, <2>2, <2>3 DEF ReserveCountsList
  <1>9. CountersAgree'
    <2>1. CASE phase # "down"
      <3>1. FreeConn = Len(connList) /\ CurConn = Cardinality(Lent)
        BY <2>1 DEF IInv, CountersAgree
      <3>2. Len(connList) + Cardinality(Lent) < UINT_RANGE
        BY <2>1, ConnsFinite DEF IInv, Places
      <3>3. FreeConn' = FreeConn + 1 /\ CurConn' = CurConn - 1
        <4>1. /\ FreeConn \in Nat /\ FreeConn + 1 < UINT_RANGE /\ FreeConn < UINT_RANGE
              /\ CurConn \in Nat /\ CurConn > 0 /\ CurConn < UINT_RANGE
          BY <1>1, <1>3, <3>1, <3>2, SqlAssumption
        <4>2. QED
          BY <4>1, Unsigned DEF ReleaseConnection
      <3>4. QED
        BY <1>1, <1>3, <3>1, <3>3 DEF CountersAgree
    <2>2. QED
      BY <2>1 DEF CountersAgree, ReleaseConnection
  <1>10. NeverPopsEmpty' /\ AlwaysConnected'
    BY <1>1 DEF IInv, NeverPopsEmpty, AlwaysConnected, EnoughConnections, ReleaseConnection, At, TypeOK
  <1>11. QED
    BY <1>5, <1>6, <1>7, <1>8, <1>9, <1>10 DEF IInv

(* Releasing no connection changes nothing.                                *)
LEMMA ReleaseNullStep ==
  ASSUME IInv, Alive, NEW t \in Threads, ReleaseNull(t)
  PROVE  IInv'
  <1>1. TypeOK'
    BY DEF IInv, TypeOK, ReleaseNull, PCs
  <1>2. Lent' = Lent
    BY DEF Lent, ReleaseNull
  <1>3. Places'
    BY <1>2, WhoRuns, SqlAssumption DEF IInv, Places, TypeOK, ReleaseNull, Threads
  <1>4. EachConnectionInOnePlace'
    BY <1>2 DEF IInv, EachConnectionInOnePlace, ReleaseNull
  <1>5. phase' = "down" <=> phase = "down"
    BY WhoRuns DEF ReleaseNull
  <1>6. ReserveCountsList'
    <2>1. /\ Cardinality(At("pop")') = Cardinality(At("pop"))
          /\ Cardinality(At("post")') = Cardinality(At("post"))
      BY MoveCounts DEF IInv, ReleaseNull, PCs
    <2>2. QED
      BY <1>5, <2>1 DEF IInv, ReserveCountsList, ReleaseNull
  <1>7. CountersAgree'
    BY <1>2, <1>5 DEF IInv, CountersAgree, ReleaseNull
  <1>8. NeverPopsEmpty' /\ AlwaysConnected'
    BY <1>5 DEF IInv, NeverPopsEmpty, AlwaysConnected, EnoughConnections, ReleaseNull, At, TypeOK
  <1>9. QED
    BY <1>1, <1>3, <1>4, <1>6, <1>7, <1>8 DEF IInv

(* The destructor closes exactly what is in the list.                      *)
LEMMA DestroyPoolStep ==
  ASSUME IInv, DestroyPool
  PROVE  IInv'
  <1>1. phase' = "down" /\ connList' = <<>> /\ ToSet(connList') = {} /\ Len(connList') = 0
    BY EmptySeq DEF DestroyPool, ToSet
  <1>2. TypeOK'
    <2>1. FreeConn' \in 0..UINT_RANGE - 1 /\ CurConn' \in 0..UINT_RANGE - 1
      BY SqlAssumption, ConnsFinite DEF IInv, TypeOK, DestroyPool
    <2>2. closed' \subseteq Conns
      BY LenProperties DEF IInv, TypeOK, DestroyPool, ToSet
    <2>3. connList' \in Seq(Conns)
      BY <1>1, EmptySeq
    <2>4. QED
      BY <1>1, <2>1, <2>2, <2>3 DEF IInv, TypeOK, DestroyPool
  <1>3. Places'
    BY <1>1 DEF IInv, Places, DestroyPool
  <1>4. EachConnectionInOnePlace'
    <2>1. Lent' = Lent
      BY DEF Lent, DestroyPool
    <2>2. \A i, j \in 1..Len(connList') : connList'[i] = connList'[j] => i = j
      BY <1>1
    <2>3. QED
      BY <1>1, <2>1, <2>2 DEF IInv, EachConnectionInOnePlace, DestroyPool, ToSet
  <1>5. ReserveCountsList' /\ CountersAgree' /\ NeverPopsEmpty' /\ AlwaysConnected'
    BY <1>1 DEF ReserveCountsList, CountersAgree, NeverPopsEmpty, AlwaysConnected
  <1>6. QED
    BY <1>2, <1>3, <1>4, <1>5 DEF IInv
-----------------------------------------------------------------------------
(* Every step of a thread and of the destructor keeps the invariant.       *)
LEMMA NextIInv == IInv /\ [Next]_vars => IInv'
  <1> SUFFICES ASSUME IInv, [Next]_vars PROVE IInv'
    OBVIOUS
  <1>1. ASSUME Alive, NEW t \in Threads, Borrow(t) PROVE IInv'
    BY <1>1, GetNoneStep, GetTestStep, ReserveWaitStep, ReserveInterruptedStep, PopFrontStep,
       PopFrontEmptyStep, ReleaseNullStep, ReleaseConnectionStep, ReleasePostStep DEF Borrow
  <1>2. CASE DestroyPool
    BY <1>2, DestroyPoolStep
  <1>3. CASE UNCHANGED vars
    <2>1. Lent' = Lent /\ \A l \in PCs : At(l)' = At(l)
      BY <1>3 DEF Lent, At, vars
    <2>2. TypeOK' /\ Places'
      BY <1>3, <2>1 DEF IInv, TypeOK, Places, vars
    <2>3. EachConnectionInOnePlace' /\ CountersAgree'
      BY <1>3, <2>1 DEF IInv, EachConnectionInOnePlace, CountersAgree, vars
    <2>4. ReserveCountsList' /\ NeverPopsEmpty' /\ AlwaysConnected'
      BY <1>3, <2>1 DEF IInv, ReserveCountsList, NeverPopsEmpty, AlwaysConnected, EnoughConnections,
                        Alive, PCs, vars
    <2>5. QED
      BY <2>2, <2>3, <2>4 DEF IInv
  <1>4. QED
    BY <1>1, <1>2, <1>3 DEF Next

(* The inductive invariant holds in every reachable state.                 *)
THEOREM SqlInvariant == Spec => []IInv
  BY InitIInv, NextIInv, PTL DEF Spec

(* The unsigned counters stay in their range and the semaphore is never    *)
(* taken below zero.                                                       *)
THEOREM SqlTypeCorrect == Spec => []TypeOK
  BY SqlInvariant, PTL DEF IInv

(* No connection is lost, or lent to two threads, or both lent and listed. *)
THEOREM ConnectionInOnePlace == Spec => []EachConnectionInOnePlace
  BY SqlInvariant, PTL DEF IInv

(* The semaphore and the list agree up to the interrupted waits.           *)
THEOREM SemaphoreCountsList == Spec => []ReserveCountsList
  BY SqlInvariant, PTL DEF IInv

(* The counters of the class are those of the list and the loans.          *)
THEOREM SqlCountersAgree == Spec => []CountersAgree
  BY SqlInvariant, PTL DEF IInv

(* No thread pops the empty list before the pool is destroyed.             *)
THEOREM NoPopOfEmptyList == Spec => []NeverPopsEmpty
  BY SqlInvariant, PTL DEF IInv

(* With a connection per worker no request is processed without one.       *)
THEOREM RequestsAreConnected == Spec => []AlwaysConnected
  BY SqlInvariant, PTL DEF IInv
=============================================================================
