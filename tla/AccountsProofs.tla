---------------------------- MODULE AccountsProofs ----------------------------
(***************************************************************************)
(* Theorems about Accounts for every set of workers, connections, names    *)
(* and passwords: the pool below keeps all its properties, and what the    *)
(* registrations promise holds whatever the order of their steps.          *)
(***************************************************************************)
EXTENDS Accounts, SqlConnectionPoolProofs

(* A worker whose lookup found its name free and whose insert is to come.  *)
Registers(w) == stage[w] \in {"lock"} \cup Inserting

(* main() loads before the workers run; it does so or the process ends.    *)
Loading ==
    /\ stage[Main] \in {"none", "loaded", "crash"}
    /\ phase # "load" \/ pc[Main] = "post" => stage[Main] = "loaded"
    /\ phase = "load" => \A w \in Workers : stage[w] = "none"

Unloaded ==
    stage[Main] # "loaded" =>
        /\ \A n \in Names : users[n] = NoPassword
        /\ confirmed = {} /\ failed = {}

HasForm == \A w \in Workers : stage[w] # "none" => form[w] \in Forms

OneRegisters ==
    \A v, w \in Workers :
        Registers(v) /\ Registers(w) /\ Name(v) = Name(w) /\ Name(w) \notin raced => v = w

(* What a registration may rely on, from its lookup to its insert.         *)
Pending ==
    \A w \in Workers :
        /\ stage[w] = "error" => Name(w) \in failed
        /\ Registers(w) /\ Name(w) \notin raced =>
              /\ users[Name(w)] = NoPassword
              /\ stage[w] = "lock" => Len(table[Name(w)]) = 0 /\ Name(w) \notin failed
              /\ stage[w] = "ok" => /\ Len(table[Name(w)]) = 1
                                    /\ table[Name(w)][1] = Password(w)
                                    /\ Name(w) \notin failed

(* What the map and the table are for a name that nobody registers.        *)
SettledName(n) ==
    /\ users[n] = NoPassword => Len(table[n]) = 0 /\ n \notin failed
    /\ users[n] # NoPassword /\ n \notin failed =>
          Len(table[n]) = 1 /\ (~Torn => table[n][1] = users[n])

Settled ==
    stage[Main] = "loaded" =>
        \A n \in Names \ raced :
            (\A w \in Workers : Registers(w) => Name(w) # n) => SettledName(n)

ConfirmedHeld ==
    \A f \in confirmed : f.name \notin raced =>
        /\ users[f.name] # NoPassword
        /\ ~Torn => users[f.name] = f.password
        /\ Len(table[f.name]) = 1
        /\ table[f.name][1] = f.password
        /\ f.name \notin failed

(* A name that find() found does not leave the map before operator[].      *)
FoundIsThere == \A w \in Workers : stage[w] = "found" => users[Name(w)] # NoPassword

Accts ==
    /\ AccountsTypeOK
    /\ FoundIsThere
    /\ OneInserts
    /\ Unloaded
    /\ HasForm
    /\ OneRowUnlessRaced
    /\ OneRegisters
    /\ Pending
    /\ Settled
    /\ ConfirmedHeld

AInv == IInv /\ Loading /\ Accts
-----------------------------------------------------------------------------
(* What a thread does with its connection is no step of the pool, and the  *)
(* rest of its steps are the pool's own.                                   *)
LEMMA StepOfPool == [AccountsNext]_accountsVars => [Next]_vars
  <1> SUFFICES ASSUME [AccountsNext]_accountsVars PROVE [Next]_vars
    OBVIOUS
  <1>1. CASE UNCHANGED accountsVars
    BY <1>1 DEF accountsVars, vars
  <1>2. CASE AccountsNext
    <2>1. Alive
      BY <1>2 DEF AccountsNext, Running
    <2>2. CASE DestroyPool
      BY <2>1, <2>2 DEF Next
    <2>3. ASSUME NEW t \in Threads, Fetch(t) PROVE Next
      BY <2>1, <2>3 DEF Next, Fetch, Borrow
    <2>4. ASSUME NEW t \in Threads, Hold(t) PROVE UNCHANGED vars
      BY <2>4 DEF Hold
    <2>5. ASSUME NEW t \in Threads, Return(t) PROVE Next
      BY <2>1, <2>5 DEF Next, Return, Borrow
    <2>6. QED
      BY <1>2, <2>2, <2>3, <2>4, <2>5 DEF AccountsNext
  <1>3. QED
    BY <1>1, <1>2

(* The pool of Accounts is the pool of SqlConnectionPool: its theorems     *)
(* hold of it.                                                             *)
THEOREM AccountsUsePool == AccountsSpec => Spec
  <1>1. AccountsInit => Init
    BY DEF AccountsInit
  <1>2. QED
    BY <1>1, StepOfPool, PTL DEF AccountsSpec, Spec
-----------------------------------------------------------------------------
(* The rows of a name are a sequence, and its form names one.              *)
LEMMA Parts ==
  ASSUME AccountsTypeOK
  PROVE  /\ \A n \in Names : table[n] \in Seq(Passwords) /\ Len(table[n]) \in Nat
         /\ \A n \in Names : table[n] = <<>> <=> Len(table[n]) = 0
         /\ \A w \in Threads : form[w] \in Forms => Name(w) \in Names /\ Password(w) \in Passwords
  <1>1. \A n \in Names : table[n] \in Seq(Passwords)
    BY DEF AccountsTypeOK
  <1>2. \A n \in Names : Len(table[n]) \in Nat /\ (table[n] = <<>> <=> Len(table[n]) = 0)
    BY <1>1, EmptySeq, LenProperties
  <1>3. \A w \in Threads : form[w] \in Forms => Name(w) \in Names /\ Password(w) \in Passwords
    BY DEF Forms, Name, Password
  <1>4. QED
    BY <1>1, <1>2, <1>3

(* A worker is not main().                                                 *)
LEMMA WorkersAreThreads == Main \in Threads /\ Main \notin Workers /\ Workers \subseteq Threads
                           /\ NoThread \notin Threads
  BY SqlAssumption, AccountsAssumption DEF Threads

(* What AccountsInit sets up satisfies the invariant.                      *)
LEMMA InitAInv == AccountsInit => AInv
  <1> SUFFICES ASSUME AccountsInit PROVE AInv
    OBVIOUS
  <1>1. Init /\ IInv
    BY InitIInv DEF AccountsInit
  <1>2. table \in [Names -> Seq(Passwords)]
    <2>1. ASSUME NEW s \in BoundedSeq(Passwords, MaxRows) PROVE s \in Seq(Passwords)
      <3>1. PICK k \in 0..MaxRows : s \in [1..k -> Passwords]
        BY <2>1 DEF BoundedSeq, SeqOf
      <3>2. QED
        BY <3>1, AccountsAssumption, SeqDef
    <2>2. QED
      BY <2>1 DEF AccountsInit
  <1>3. AccountsTypeOK
    BY <1>2 DEF AccountsInit, AccountsTypeOK, Stages
  <1>4. Loading
    BY <1>1, WorkersAreThreads DEF AccountsInit, Loading, Init
  <1>5. \A n \in Names \ raced : Len(table[n]) <= 1
    BY <1>3, Parts DEF AccountsInit
  <1>6. QED
    BY <1>1, <1>3, <1>4, <1>5, WorkersAreThreads
       DEF AInv, Accts, FoundIsThere, OneInserts, Unloaded, HasForm, OneRowUnlessRaced, OneRegisters, Pending,
           Settled, ConfirmedHeld, AccountsInit, Registers, Inserting
-----------------------------------------------------------------------------
(* A worker that takes up a request, answers it, or is done with it        *)
(* without having registered anybody.                                      *)
LEMMA QuietWorker ==
  ASSUME Accts, NEW w \in Workers, NEW s \in Stages \ ({"lock"} \cup Inserting),
         ~Registers(w), GoTo(w, s),
         form' \in [Threads -> Forms \cup {NoForm}],
         \A t \in Threads \ {w} : form'[t] = form[t],
         s # "none" => form'[w] \in Forms,
         s = "found" => form'[w] = form[w] /\ users[Name(w)] # NoPassword,
         torn' \in Nat, Torn' <=> Torn,
         UNCHANGED <<users, table, m_lock, confirmed, raced, failed>>
  PROVE  Accts'
  <1>1. \A t \in Threads : stage'[t] = IF t = w THEN s ELSE stage[t]
    BY DEF GoTo, Accts, AccountsTypeOK
  <1>2. AccountsTypeOK'
    BY WorkersAreThreads DEF GoTo, Accts, AccountsTypeOK
  <1>3. \A v \in Workers : /\ Registers(v)' <=> Registers(v)
                           /\ Registers(v) => form'[v] = form[v] /\ stage'[v] = stage[v]
    BY <1>1, WorkersAreThreads DEF Registers
  <1>4. stage'[Main] = stage[Main]
    BY <1>1, WorkersAreThreads
  <1>5. OneInserts'
    BY <1>1, WorkersAreThreads DEF Accts, OneInserts, Registers
  <1>6. Unloaded' /\ OneRowUnlessRaced' /\ ConfirmedHeld'
    BY <1>4 DEF Accts, Unloaded, OneRowUnlessRaced, ConfirmedHeld
  <1>7. HasForm'
    BY <1>1, WorkersAreThreads DEF Accts, HasForm
  <1>8. OneRegisters'
    BY <1>3 DEF Accts, OneRegisters, Name
  <1>9. Pending'
    <2> SUFFICES ASSUME NEW v \in Workers
                 PROVE  /\ stage'[v] = "error" => Registers(v)
                        /\ Registers(v) => Name(v)' = Name(v) /\ Password(v)' = Password(v)
                                           /\ stage'[v] = stage[v]
      BY <1>3 DEF Accts, Pending, Registers, Inserting
    <2>1. QED
      BY <1>3 DEF Registers, Inserting, Name, Password
  <1>10. Settled'
    BY <1>3, <1>4 DEF Accts, Settled, SettledName, Name
  <1>11. FoundIsThere'
    <2> SUFFICES ASSUME NEW v \in Workers, stage'[v] = "found"
                 PROVE  users[Name(v)'] # NoPassword
      BY DEF FoundIsThere
    <2>1. form'[v] = form[v]
      BY <1>1, WorkersAreThreads
    <2>2. users[Name(v)] # NoPassword
      BY <1>1, WorkersAreThreads DEF Accts, FoundIsThere
    <2>3. QED
      BY <2>1, <2>2 DEF Name
  <1>12. QED
    BY <1>2, <1>5, <1>6, <1>7, <1>8, <1>9, <1>10, <1>11 DEF Accts

(* A lookup that finds the name free, and does not make it a raced one,    *)
(* begins a registration that nobody else is in.                           *)
LEMMA RegisterFreeStep ==
  ASSUME Accts, stage[Main] = "loaded", NEW w \in Workers, RegisterFree(w)
  PROVE  Accts'
  <1> DEFINE n == Name(w)
  <1>1. \A t \in Threads : stage'[t] = IF t = w THEN "lock" ELSE stage[t]
    BY DEF RegisterFree, GoTo, Accts, AccountsTypeOK
  <1>2. n \in Names /\ ~Registers(w) /\ form[w] \in Forms
    BY WorkersAreThreads, Parts DEF RegisterFree, Accts, HasForm, Registers, Inserting
  <1>3. AccountsTypeOK'
    BY <1>2 DEF RegisterFree, GoTo, Accts, AccountsTypeOK, Stages
  <1>4. \A v \in Workers : /\ Registers(v)' <=> Registers(v) \/ v = w
                           /\ Name(v)' = Name(v) /\ Password(v)' = Password(v)
    BY <1>1, WorkersAreThreads DEF Registers, Name, Password, RegisterFree
  <1>5. raced \subseteq raced'
    BY DEF RegisterFree
  <1>6. n \notin raced' => /\ users[n] = NoPassword
                           /\ \A v \in Workers : Registers(v) => Name(v) # n
    <2> SUFFICES ASSUME n \notin raced'
                 PROVE  /\ users[n] = NoPassword
                        /\ \A v \in Workers : Registers(v) => Name(v) # n
      OBVIOUS
    <2>1. ~FindHits(n) /\ Registering(n) = {}
      BY DEF RegisterFree
    <2>2. users[n] = NoPassword
      BY <2>1 DEF FindHits
    <2>3. QED
      BY <2>1, <2>2 DEF Registering, Registers
  <1>7. n \notin raced' => Len(table[n]) = 0 /\ n \notin failed
    BY <1>2, <1>5, <1>6 DEF Accts, Settled, SettledName
  <1>8. OneInserts'
    BY <1>1, <1>2, WorkersAreThreads DEF RegisterFree, Accts, OneInserts, Registers, Inserting
  <1>9. stage'[Main] = stage[Main]
    BY <1>1, WorkersAreThreads
  <1>10. Unloaded' /\ OneRowUnlessRaced' /\ ConfirmedHeld'
    BY <1>5, <1>9 DEF RegisterFree, Accts, Unloaded, OneRowUnlessRaced, ConfirmedHeld, Torn
  <1>11. HasForm'
    BY <1>1, <1>2, WorkersAreThreads DEF RegisterFree, Accts, HasForm
  <1>12. OneRegisters'
    BY <1>4, <1>5, <1>6 DEF Accts, OneRegisters
  <1>13. Pending'
    <2> SUFFICES ASSUME NEW v \in Workers
                 PROVE  /\ stage'[v] = "error" => Name(v)' \in failed
                        /\ Registers(v)' /\ Name(v)' \notin raced' =>
                              /\ users[Name(v)'] = NoPassword
                              /\ stage'[v] = "lock" => /\ Len(table[Name(v)']) = 0
                                                       /\ Name(v)' \notin failed
                              /\ stage'[v] = "ok" => /\ Len(table[Name(v)']) = 1
                                                     /\ table[Name(v)'][1] = Password(v)'
                                                     /\ Name(v)' \notin failed
      BY DEF RegisterFree, Pending
    <2>1. CASE v = w
      BY <2>1, <1>1, <1>4, <1>6, <1>7, WorkersAreThreads
    <2>2. CASE v # w
      <3>1. stage'[v] = stage[v] /\ (Registers(v)' <=> Registers(v))
        BY <2>2, <1>1, <1>4, WorkersAreThreads
      <3>2. QED
        BY <3>1, <1>4, <1>5 DEF Accts, Pending
    <2>3. QED
      BY <2>1, <2>2
  <1>14. Settled'
    BY <1>4, <1>5, <1>9 DEF RegisterFree, Accts, Settled, SettledName, Torn
  <1>15. FoundIsThere'
    BY <1>1, <1>4, WorkersAreThreads DEF RegisterFree, Accts, FoundIsThere
  <1>16. QED
    BY <1>3, <1>8, <1>10, <1>11, <1>12, <1>13, <1>14, <1>15 DEF Accts

(* The query of the only registration of a name gives it its only row, or  *)
(* notes that it failed.                                                   *)
LEMMA LockAndQueryStep ==
  ASSUME Accts, stage[Main] = "loaded", NEW w \in Workers, LockAndQuery(w)
  PROVE  Accts'
  <1> DEFINE n == Name(w)
  <1>1. PICK res \in Inserting, stored \in BOOLEAN :
          /\ res = "ok" => stored
          /\ table' = IF stored THEN [table EXCEPT ![n] = Inserted(@, Password(w))] ELSE table
          /\ failed' = IF res = "error" THEN failed \cup {n} ELSE failed
          /\ GoTo(w, res)
    BY DEF LockAndQuery
  <1>2. \A t \in Threads : stage'[t] = IF t = w THEN res ELSE stage[t]
    BY <1>1 DEF GoTo, Accts, AccountsTypeOK
  <1>3. stage[w] = "lock" /\ Registers(w) /\ form[w] \in Forms
    BY DEF LockAndQuery, Accts, HasForm, Registers
  <1>4. n \in Names /\ Password(w) \in Passwords
    BY <1>3, WorkersAreThreads, Parts DEF Accts
  <1>5. /\ \A m \in Names \ {n} : table'[m] = table[m]
        /\ table'[n] = IF stored THEN Append(table[n], Password(w)) ELSE table[n]
        /\ table' \in [Names -> Seq(Passwords)]
    <2>1. table[n] \in Seq(Passwords) /\ table \in [Names -> Seq(Passwords)]
      BY <1>4 DEF Accts, AccountsTypeOK
    <2>2. Append(table[n], Password(w)) \in Seq(Passwords)
      BY <1>4, <2>1, AppendProperties
    <2>3. QED
      BY <1>1, <1>4, <2>1, <2>2 DEF Inserted
  <1>6. /\ \A v \in Workers : /\ Registers(v)' <=> Registers(v)
                              /\ Name(v)' = Name(v) /\ Password(v)' = Password(v)
        /\ stage'[Main] = stage[Main]
    BY <1>2, <1>3, WorkersAreThreads DEF Registers, Name, Password, LockAndQuery
  <1>7. n \notin raced => /\ users[n] = NoPassword /\ n \notin failed
                          /\ Len(table[n]) = 0
    BY <1>3 DEF Accts, Pending
  <1>8. n \notin raced /\ stored => Len(table'[n]) = 1 /\ table'[n][1] = Password(w)
    <2> SUFFICES ASSUME n \notin raced, stored
                 PROVE  Len(table'[n]) = 1 /\ table'[n][1] = Password(w)
      OBVIOUS
    <2>1. table[n] \in Seq(Passwords) /\ Len(table[n]) = 0
      BY <1>4, <1>7, Parts DEF Accts
    <2>2. Len(Append(table[n], Password(w))) = 1 /\ Append(table[n], Password(w))[1] = Password(w)
      BY <1>4, <2>1, AppendProperties
    <2>3. QED
      BY <1>5, <2>2
  <1>9. \A m \in Names \ {n} : m \in failed' <=> m \in failed
    BY <1>1
  <1>10. AccountsTypeOK'
    BY <1>1, <1>4, <1>5, WorkersAreThreads
       DEF LockAndQuery, GoTo, Accts, AccountsTypeOK, Stages
  <1>11. OneInserts'
    BY <1>2, WorkersAreThreads DEF LockAndQuery, Accts, OneInserts
  <1>12. Unloaded' /\ HasForm'
    BY <1>2, <1>6, <1>3, WorkersAreThreads DEF LockAndQuery, Accts, Unloaded, HasForm
  <1>13. OneRowUnlessRaced'
    <2> SUFFICES ASSUME NEW m \in Names, m \notin raced PROVE Len(table'[m]) <= 1
      BY DEF LockAndQuery, OneRowUnlessRaced
    <2>1. CASE m # n
      <3>1. Len(table[m]) <= 1
        BY DEF Accts, OneRowUnlessRaced
      <3>2. QED
        BY <2>1, <1>5, <3>1
    <2>2. CASE m = n
      BY <2>2, <1>5, <1>7, <1>8
    <2>3. QED
      BY <2>1, <2>2
  <1>14. OneRegisters'
    BY <1>6 DEF LockAndQuery, Accts, OneRegisters
  <1>15. Pending'
    <2> SUFFICES ASSUME NEW v \in Workers
                 PROVE  /\ stage'[v] = "error" => Name(v) \in failed'
                        /\ Registers(v) /\ Name(v) \notin raced =>
                              /\ users[Name(v)] = NoPassword
                              /\ stage'[v] = "lock" => /\ Len(table'[Name(v)]) = 0
                                                       /\ Name(v) \notin failed'
                              /\ stage'[v] = "ok" => /\ Len(table'[Name(v)]) = 1
                                                     /\ table'[Name(v)][1] = Password(v)
                                                     /\ Name(v) \notin failed'
      BY <1>6 DEF LockAndQuery, Pending
    <2>1. CASE v = w
      BY <2>1, <1>1, <1>2, <1>7, <1>8, WorkersAreThreads DEF Inserting
    <2>2. CASE v # w
      <3>1. stage'[v] = stage[v]
        BY <2>2, <1>2, WorkersAreThreads
      <3>2. Registers(v) /\ Name(v) \notin raced => Name(v) # n
        BY <2>2, <1>3 DEF Accts, OneRegisters
      <3>3. Registers(v) => Name(v) \in Names
        BY WorkersAreThreads, Parts DEF Accts, HasForm, Registers, Inserting
      <3>4. failed \subseteq failed'
        BY <1>1
      <3>5. QED
        BY <3>1, <3>2, <3>3, <3>4, <1>5, <1>9 DEF Accts, Pending
    <2>3. QED
      BY <2>1, <2>2
  <1>16. Settled'
    <2> SUFFICES ASSUME NEW m \in Names \ raced, \A v \in Workers : Registers(v) => Name(v) # m
                 PROVE  SettledName(m)'
      BY <1>6 DEF LockAndQuery, Settled
    <2>1. m # n /\ SettledName(m)
      BY <1>3 DEF Accts, Settled
    <2>2. QED
      BY <2>1, <1>5, <1>9 DEF LockAndQuery, SettledName, Torn
  <1>17. ConfirmedHeld'
    <2> SUFFICES ASSUME NEW f \in confirmed, f.name \notin raced
                 PROVE  /\ users[f.name] # NoPassword
                        /\ ~Torn => users[f.name] = f.password
                        /\ Len(table'[f.name]) = 1
                        /\ table'[f.name][1] = f.password
                        /\ f.name \notin failed'
      BY DEF LockAndQuery, ConfirmedHeld, Torn
    <2>1. /\ users[f.name] # NoPassword /\ (~Torn => users[f.name] = f.password)
          /\ Len(table[f.name]) = 1
          /\ table[f.name][1] = f.password /\ f.name \notin failed
      BY DEF Accts, ConfirmedHeld
    <2>2. f.name \in Names /\ f.password \in Passwords
      BY DEF Accts, AccountsTypeOK, Forms
    <2>3. f.name # n
      BY <1>7, <2>1, <2>2, AccountsAssumption
    <2>4. QED
      BY <2>1, <2>2, <2>3, <1>5, <1>9
  <1>18. FoundIsThere'
    BY <1>1, <1>2, <1>6, WorkersAreThreads DEF LockAndQuery, Accts, FoundIsThere, Inserting
  <1>19. QED
    BY <1>10, <1>11, <1>12, <1>13, <1>14, <1>15, <1>16, <1>17, <1>18 DEF Accts

(* The process ends in a query without a connection; nothing changes.      *)
LEMMA CrashStep ==
  ASSUME Accts, stage[Main] = "loaded", NEW w \in Workers, QueryWithoutConnection(w)
  PROVE  Accts'
  <1>1. \A t \in Threads : stage'[t] = IF t = w THEN "crash" ELSE stage[t]
    BY DEF QueryWithoutConnection, GoTo, Accts, AccountsTypeOK
  <1>2. Registers(w) /\ stage[w] = "lock" /\ form[w] \in Forms
    BY DEF QueryWithoutConnection, Accts, HasForm, Registers
  <1>3. /\ \A v \in Workers : /\ Registers(v)' <=> Registers(v) /\ v # w
                              /\ Name(v)' = Name(v) /\ Password(v)' = Password(v)
        /\ stage'[Main] = stage[Main]
    BY <1>1, WorkersAreThreads DEF Registers, Inserting, Name, Password, QueryWithoutConnection
  <1>4. AccountsTypeOK'
    BY DEF QueryWithoutConnection, GoTo, Accts, AccountsTypeOK, Stages
  <1>5. OneInserts'
    BY <1>1, <1>2 DEF QueryWithoutConnection, Accts, OneInserts, Inserting
  <1>6. Unloaded' /\ HasForm' /\ OneRowUnlessRaced' /\ ConfirmedHeld'
    BY <1>1, <1>2, <1>3, WorkersAreThreads
       DEF QueryWithoutConnection, Accts, Unloaded, HasForm, OneRowUnlessRaced, ConfirmedHeld, Torn
  <1>7. OneRegisters'
    BY <1>3 DEF QueryWithoutConnection, Accts, OneRegisters
  <1>8. Pending'
    <2> SUFFICES ASSUME NEW v \in Workers
                 PROVE  /\ stage'[v] = "error" => Name(v) \in failed
                        /\ Registers(v)' /\ Name(v) \notin raced =>
                              /\ users[Name(v)] = NoPassword
                              /\ stage'[v] = "lock" => /\ Len(table[Name(v)]) = 0
                                                       /\ Name(v) \notin failed
                              /\ stage'[v] = "ok" => /\ Len(table[Name(v)]) = 1
                                                     /\ table[Name(v)][1] = Password(v)
                                                     /\ Name(v) \notin failed
      BY <1>3 DEF QueryWithoutConnection, Pending
    <2>1. QED
      BY <1>1, <1>3, WorkersAreThreads DEF Accts, Pending
  <1>9. Settled'
    <2> SUFFICES ASSUME NEW n \in Names \ raced,
                        \A v \in Workers : Registers(v) /\ v # w => Name(v) # n
                 PROVE  SettledName(n)
      BY <1>3 DEF QueryWithoutConnection, Settled, SettledName, Torn
    <2>1. CASE Name(w) = n
      BY <2>1, <1>2 DEF Accts, Pending, SettledName
    <2>2. CASE Name(w) # n
      BY <2>2 DEF Accts, Settled
    <2>3. QED
      BY <2>1, <2>2
  <1>10. FoundIsThere'
    BY <1>1, <1>3, WorkersAreThreads DEF QueryWithoutConnection, Accts, FoundIsThere
  <1>11. QED
    BY <1>4, <1>5, <1>6, <1>7, <1>8, <1>9, <1>10 DEF Accts

(* The insert into the map ends the registration: map and table agree on   *)
(* the name unless its INSERT failed.                                      *)
LEMMA InsertAndUnlockStep ==
  ASSUME Accts, stage[Main] = "loaded", NEW w \in Workers, InsertAndUnlock(w)
  PROVE  Accts'
  <1> DEFINE n == Name(w)
  <1>1. \A t \in Threads : stage'[t] = IF t = w THEN RegisterPage(w) ELSE stage[t]
    BY DEF InsertAndUnlock, GoTo, Accts, AccountsTypeOK
  <1>2. Registers(w) /\ stage[w] \in Inserting /\ form[w] \in Forms
    BY DEF InsertAndUnlock, Accts, HasForm, Registers, Inserting
  <1>3. n \in Names /\ Password(w) \in Passwords /\ form[w].name = n /\ form[w].password = Password(w)
    BY <1>2, WorkersAreThreads, Parts DEF Accts, Name, Password
  <1>4. /\ \A v \in Workers : /\ Registers(v)' <=> Registers(v) /\ v # w
                              /\ Name(v)' = Name(v) /\ Password(v)' = Password(v)
        /\ stage'[Main] = stage[Main]
    BY <1>1, WorkersAreThreads DEF Registers, Inserting, Name, Password, InsertAndUnlock, RegisterPage
  <1>5. /\ users' \in [Names -> Passwords \cup {NoPassword, EmptyPassword}]
        /\ \A m \in Names \ {n} : users'[m] = users[m]
        /\ users[n] = NoPassword => users'[n] = Password(w)
        /\ ~Torn /\ users[n] # NoPassword => users'[n] = users[n]
        /\ users'[n] # NoPassword
    BY <1>3, AccountsAssumption DEF InsertAndUnlock, MapInsert, Accts, AccountsTypeOK
  <1>6. n \notin raced => /\ users'[n] = Password(w)
                          /\ stage[w] = "ok" => /\ Len(table[n]) = 1
                                                /\ table[n][1] = Password(w)
                                                /\ n \notin failed
                          /\ n \notin failed => stage[w] = "ok"
    BY <1>2, <1>5 DEF Accts, Pending, Inserting
  <1>7. confirmed' = IF stage[w] = "ok" THEN confirmed \cup {form[w]} ELSE confirmed
    BY DEF InsertAndUnlock, RegisterPage
  <1>8. AccountsTypeOK'
    BY <1>2, <1>5, <1>7 DEF InsertAndUnlock, Unlock, GoTo, RegisterPage, Accts, AccountsTypeOK, Stages, Pages
  <1>9. OneInserts'
    <2>1. \A t \in Threads : stage[t] \in Inserting => t = w
      BY <1>2, WorkersAreThreads DEF Accts, OneInserts
    <2>2. m_lock' = NoThread
      BY DEF InsertAndUnlock, Unlock
    <2>3. QED
      BY <1>1, <2>1, <2>2, WorkersAreThreads DEF OneInserts, RegisterPage, Inserting
  <1>10. Unloaded' /\ HasForm' /\ OneRowUnlessRaced'
    BY <1>1, <1>2, <1>4, WorkersAreThreads
       DEF InsertAndUnlock, RegisterPage, Accts, Unloaded, HasForm, OneRowUnlessRaced
  <1>11. OneRegisters'
    BY <1>4 DEF InsertAndUnlock, Accts, OneRegisters
  <1>12. Pending'
    <2> SUFFICES ASSUME NEW v \in Workers, v # w
                 PROVE  /\ stage[v] = "error" => Name(v) \in failed
                        /\ Registers(v) /\ Name(v) \notin raced =>
                              /\ users'[Name(v)] = NoPassword
                              /\ stage[v] = "lock" => /\ Len(table[Name(v)]) = 0
                                                      /\ Name(v) \notin failed
                              /\ stage[v] = "ok" => /\ Len(table[Name(v)]) = 1
                                                    /\ table[Name(v)][1] = Password(v)
                                                    /\ Name(v) \notin failed
      BY <1>1, <1>4, WorkersAreThreads DEF InsertAndUnlock, Pending, RegisterPage
    <2>1. Registers(v) /\ Name(v) \notin raced => Name(v) # n
      BY <1>2 DEF Accts, OneRegisters
    <2>2. Registers(v) => Name(v) \in Names
      BY WorkersAreThreads, Parts DEF Accts, HasForm, Registers, Inserting
    <2>3. QED
      BY <2>1, <2>2, <1>5 DEF Accts, Pending
  <1>13. Settled'
    <2> SUFFICES ASSUME NEW m \in Names, m \notin raced,
                        \A v \in Workers : Registers(v) /\ v # w => Name(v) # m
                 PROVE  SettledName(m)'
      BY <1>4 DEF InsertAndUnlock, Settled, Torn
    <2>1. CASE m = n
      <3>1. /\ users'[m] # NoPassword /\ table' = table /\ failed' = failed
            /\ users'[m] = Password(w)
        BY <2>1, <1>5, <1>6 DEF InsertAndUnlock
      <3>2. m \notin failed => Len(table[m]) = 1 /\ table[m][1] = Password(w)
        BY <2>1, <1>6
      <3>3. QED
        BY <3>1, <3>2 DEF SettledName
    <2>2. CASE m # n
      <3>1. SettledName(m)
        BY <2>2 DEF Accts, Settled
      <3>2. QED
        BY <2>2, <3>1, <1>5 DEF InsertAndUnlock, SettledName, Torn
    <2>3. QED
      BY <2>1, <2>2
  <1>14. ConfirmedHeld'
    <2> SUFFICES ASSUME NEW f \in confirmed', f.name \notin raced
                 PROVE  /\ users'[f.name] # NoPassword
                        /\ ~Torn => users'[f.name] = f.password
                        /\ Len(table[f.name]) = 1
                        /\ table[f.name][1] = f.password
                        /\ f.name \notin failed
      BY DEF InsertAndUnlock, ConfirmedHeld, Torn
    <2>1. CASE f \in confirmed
      <3>1. /\ users[f.name] # NoPassword /\ (~Torn => users[f.name] = f.password)
            /\ Len(table[f.name]) = 1
            /\ table[f.name][1] = f.password /\ f.name \notin failed
        BY <2>1 DEF Accts, ConfirmedHeld
      <3>2. f.name \in Names /\ f.password # NoPassword
        BY <2>1, AccountsAssumption DEF Accts, AccountsTypeOK, Forms
      <3>3. QED
        BY <3>1, <3>2, <1>5
    <2>2. CASE f = form[w] /\ stage[w] = "ok"
      <3>1. f.name = n /\ f.password = Password(w)
        BY <2>2, <1>3
      <3>2. n \notin raced
        BY <3>1
      <3>3. users'[n] = Password(w) /\ users'[n] # NoPassword
        BY <3>2, <1>5, <1>6
      <3>4. Len(table[n]) = 1 /\ table[n][1] = Password(w) /\ n \notin failed
        BY <2>2, <3>2, <1>6
      <3>5. QED
        BY <3>1, <3>3, <3>4
    <2>3. QED
      BY <2>1, <2>2, <1>7
  <1>15. FoundIsThere'
    <2> SUFFICES ASSUME NEW v \in Workers, stage'[v] = "found"
                 PROVE  users'[Name(v)] # NoPassword
      BY <1>4 DEF FoundIsThere
    <2>1. stage[v] = "found"
      BY <1>1, WorkersAreThreads DEF RegisterPage
    <2>2. users[Name(v)] # NoPassword /\ Name(v) \in Names
      BY <2>1, WorkersAreThreads, Parts DEF Accts, FoundIsThere, HasForm
    <2>3. QED
      BY <2>2, <1>5
  <1>16. QED
    BY <1>8, <1>9, <1>10, <1>11, <1>12, <1>13, <1>14, <1>15 DEF Accts

(* The operator[] of a login that misses changes no password to none, and  *)
(* none to a password.                                                     *)
LEMMA LoginInsertsStep ==
  ASSUME Accts, stage[Main] = "loaded", NEW w \in Workers, LoginInserts(w)
  PROVE  Accts'
  <1>1. \A t \in Threads : stage'[t] = IF t = w THEN PasswordPage(w, EmptyPassword) ELSE stage[t]
    BY DEF LoginInserts, GoTo, Accts, AccountsTypeOK
  <1>2. /\ stage[w] = "found" /\ ~Registers(w) /\ form[w] \in Forms
        /\ PasswordPage(w, EmptyPassword) \in Pages
    BY DEF LoginInserts, Accts, HasForm, Registers, Inserting, PasswordPage, Pages
  <1>3. Name(w) \in Names /\ users[Name(w)] # NoPassword
    BY <1>2, WorkersAreThreads, Parts DEF Accts, FoundIsThere
  <1>4. /\ users' \in [Names -> Passwords \cup {NoPassword, EmptyPassword}]
        /\ \A m \in Names : users'[m] = NoPassword <=> users[m] = NoPassword
    BY <1>3, AccountsAssumption DEF LoginInserts, Accts, AccountsTypeOK
  <1>5. \A v \in Workers : /\ Registers(v)' <=> Registers(v)
                           /\ Registers(v) => stage'[v] = stage[v]
                           /\ Name(v)' = Name(v) /\ Password(v)' = Password(v)
    BY <1>1, <1>2, WorkersAreThreads DEF Registers, Inserting, Pages, Name, Password, LoginInserts
  <1>6. /\ stage'[Main] = stage[Main] /\ Torn'
        /\ UNCHANGED <<table, m_lock, form, confirmed, raced, failed>>
    BY <1>1, WorkersAreThreads DEF LoginInserts, Torn, Accts, AccountsTypeOK
  <1>7. AccountsTypeOK'
    BY <1>2, <1>4 DEF LoginInserts, GoTo, Accts, AccountsTypeOK, Stages
  <1>8. OneInserts'
    BY <1>1, <1>2, <1>6, WorkersAreThreads DEF Accts, OneInserts, Inserting, Pages
  <1>9. HasForm' /\ OneRowUnlessRaced' /\ Unloaded'
    BY <1>1, <1>2, <1>6, WorkersAreThreads DEF Accts, HasForm, OneRowUnlessRaced, Unloaded
  <1>10. OneRegisters'
    BY <1>5, <1>6 DEF Accts, OneRegisters
  <1>11. Pending'
    <2> SUFFICES ASSUME NEW v \in Workers
                 PROVE  /\ stage'[v] = "error" => Registers(v)
                        /\ Registers(v) => /\ stage'[v] = stage[v]
                                           /\ users'[Name(v)] = NoPassword
                                                <=> users[Name(v)] = NoPassword
      BY <1>5, <1>6 DEF Accts, Pending, Registers, Inserting
    <2>1. Registers(v) => Name(v) \in Names
      BY WorkersAreThreads, Parts DEF Accts, HasForm, Registers, Inserting
    <2>2. stage'[v] = "error" => Registers(v)
      BY <1>5 DEF Registers, Inserting
    <2>3. QED
      BY <2>1, <2>2, <1>4, <1>5
  <1>12. Settled'
    BY <1>4, <1>5, <1>6 DEF Accts, Settled, SettledName
  <1>13. ConfirmedHeld'
    <2>1. \A f \in confirmed : f.name \in Names
      BY DEF Accts, AccountsTypeOK, Forms
    <2>2. QED
      BY <2>1, <1>4, <1>6 DEF Accts, ConfirmedHeld
  <1>14. FoundIsThere'
    <2> SUFFICES ASSUME NEW v \in Workers, stage'[v] = "found"
                 PROVE  users'[Name(v)] # NoPassword
      BY <1>5 DEF FoundIsThere
    <2>1. stage[v] = "found"
      BY <1>1, <1>2, WorkersAreThreads DEF Pages
    <2>2. users[Name(v)] # NoPassword /\ Name(v) \in Names
      BY <2>1, WorkersAreThreads, Parts DEF Accts, FoundIsThere, HasForm
    <2>3. QED
      BY <2>2, <1>4
  <1>15. QED
    BY <1>7, <1>8, <1>9, <1>10, <1>11, <1>12, <1>13, <1>14 DEF Accts

(* main() loads a table whose names have one row, but for the raced ones.  *)
LEMMA LoadStep ==
  ASSUME Accts, Load, \A w \in Workers : stage[w] = "none"
  PROVE  Accts'
  <1>1. \A t \in Threads : stage'[t] = IF t = Main THEN "loaded" ELSE stage[t]
    BY DEF Load, GoTo, Accts, AccountsTypeOK
  <1>2. \A n \in Names : /\ Len(table[n]) = 0 => users'[n] = NoPassword
                         /\ Len(table[n]) # 0 => users'[n] = table[n][Len(table[n])]
    BY Parts DEF Load, Loaded, Last, Accts
  <1>3. users' \in [Names -> Passwords \cup {NoPassword, EmptyPassword}]
    <2>1. ASSUME NEW n \in Names, Len(table[n]) # 0 PROVE users'[n] \in Passwords
      BY <2>1, <1>2, Parts, LenProperties, ElementOfSeq DEF Accts
    <2>2. \A n \in Names : users'[n] \in Passwords \cup {NoPassword, EmptyPassword}
      BY <1>2, <2>1
    <2>3. users' = [n \in Names |-> users'[n]]
      BY DEF Load, Loaded
    <2>4. QED
      BY <2>2, <2>3
  <1>4. AccountsTypeOK'
    BY <1>3 DEF Load, GoTo, Accts, AccountsTypeOK, Stages
  <1>5. OneInserts' /\ HasForm' /\ OneRowUnlessRaced'
    BY <1>1, WorkersAreThreads DEF Load, Accts, OneInserts, Inserting, HasForm, OneRowUnlessRaced
  <1>6. \A w \in Workers : ~Registers(w)' /\ stage'[w] = "none"
    BY <1>1, WorkersAreThreads DEF Registers, Inserting
  <1>7. Unloaded' /\ OneRegisters' /\ Pending' /\ FoundIsThere'
    BY <1>1, <1>6, WorkersAreThreads DEF Unloaded, OneRegisters, Pending, FoundIsThere
  <1>8. confirmed' = {} /\ failed' = {}
    BY DEF Load, Accts, Unloaded
  <1>9. ConfirmedHeld'
    BY <1>8 DEF ConfirmedHeld
  <1>10. Settled'
    <2> SUFFICES ASSUME NEW n \in Names, n \notin raced PROVE SettledName(n)'
      BY DEF Load, Settled
    <2>1. Len(table[n]) \in Nat /\ Len(table[n]) <= 1 /\ table[n] \in Seq(Passwords)
      BY Parts DEF Accts, OneRowUnlessRaced
    <2>2. CASE Len(table[n]) = 0
      BY <2>2, <1>2, <1>8 DEF Load, SettledName
    <2>3. CASE Len(table[n]) = 1
      <3>1. table[n][1] \in Passwords
        BY <2>1, <2>3, ElementOfSeq
      <3>2. users'[n] = table[n][1] /\ users'[n] # NoPassword
        BY <2>3, <3>1, <1>2, AccountsAssumption
      <3>3. QED
        BY <2>3, <3>2 DEF Load, SettledName
    <2>4. Len(table[n]) = 0 \/ Len(table[n]) = 1
      <3>1. \A k \in Nat : k <= 1 => k = 0 \/ k = 1
        OBVIOUS
      <3>2. QED
        BY <2>1, <3>1, Zenon
    <2>5. QED
      BY <2>2, <2>3, <2>4
  <1>11. QED
    BY <1>4, <1>5, <1>7, <1>9, <1>10 DEF Accts

(* main() ends at a load that failed, or gives its connection back.        *)
LEMMA MainStep ==
  ASSUME Accts, LoadFails \/ Over(Main)
  PROVE  Accts'
  <1>1. /\ UNCHANGED <<users, table, m_lock, confirmed, raced, failed, torn>>
        /\ \A t \in Threads \ {Main} : stage'[t] = stage[t] /\ form'[t] = form[t]
        /\ stage'[Main] # stage[Main] => stage[Main] = "none" /\ stage'[Main] = "crash"
        /\ AccountsTypeOK'
    BY WorkersAreThreads DEF LoadFails, Over, GoTo, Accts, AccountsTypeOK, Stages
  <1>2. \A w \in Workers : /\ stage'[w] = stage[w] /\ form'[w] = form[w]
                           /\ Registers(w)' <=> Registers(w)
                           /\ Name(w)' = Name(w) /\ Password(w)' = Password(w)
    BY <1>1, WorkersAreThreads DEF Registers, Name, Password
  <1>3. OneInserts' /\ Unloaded' /\ HasForm' /\ OneRowUnlessRaced'
    BY <1>1, <1>2, WorkersAreThreads
       DEF Accts, OneInserts, Inserting, Unloaded, HasForm, OneRowUnlessRaced
  <1>4. OneRegisters' /\ Pending' /\ ConfirmedHeld' /\ FoundIsThere'
    BY <1>1, <1>2 DEF Accts, OneRegisters, Pending, ConfirmedHeld, FoundIsThere, Torn
  <1>5. Settled'
    BY <1>1, <1>2 DEF Accts, Settled, SettledName, Torn
  <1>6. QED
    BY <1>1, <1>3, <1>4, <1>5 DEF Accts
-----------------------------------------------------------------------------
(* A step of the pool alone leaves the accounts as they are.               *)
LEMMA PoolStepAccts ==
  ASSUME Accts, UNCHANGED accountVars
  PROVE  Accts'
  <1>1. AccountsTypeOK' /\ OneInserts' /\ Unloaded' /\ HasForm' /\ OneRowUnlessRaced'
    BY DEF accountVars, Accts, AccountsTypeOK, OneInserts, Unloaded, HasForm, OneRowUnlessRaced
  <1>2. \A w \in Workers : /\ Registers(w)' <=> Registers(w)
                           /\ Name(w)' = Name(w) /\ Password(w)' = Password(w)
    BY DEF accountVars, Registers, Name, Password
  <1>3. OneRegisters' /\ Pending' /\ ConfirmedHeld' /\ FoundIsThere'
    BY <1>2 DEF accountVars, Accts, OneRegisters, Pending, ConfirmedHeld, FoundIsThere, Torn
  <1>4. Settled'
    BY <1>2 DEF accountVars, Accts, Settled, SettledName, Torn
  <1>5. QED
    BY <1>1, <1>3, <1>4 DEF Accts

(* Every part of do_request() keeps the invariant of the accounts.         *)
LEMMA RequestStep ==
  ASSUME Accts, stage[Main] = "loaded", NEW w \in Workers, do_request(w)
  PROVE  Accts' /\ stage'[Main] = stage[Main]
  <1> USE WorkersAreThreads
  <1>1. form[w] \in Forms \/ stage[w] = "none"
    BY DEF Accts, HasForm
  <1>2. CASE Begin(w)
    <2>1. PICK f \in Forms, s \in {"login", "register"} :
             form' = [form EXCEPT ![w] = f] /\ GoTo(w, s)
      BY <1>2 DEF Begin
    <2>2. /\ form' \in [Threads -> Forms \cup {NoForm}]
          /\ \A t \in Threads \ {w} : form'[t] = form[t]
          /\ form'[w] \in Forms
      BY <2>1 DEF Accts, AccountsTypeOK
    <2>3. s \in Stages \ ({"lock"} \cup Inserting) /\ ~Registers(w)
      BY <1>2 DEF Begin, Stages, Inserting, Registers
    <2>4. s # "found" /\ torn' \in Nat /\ (Torn' <=> Torn)
      BY <1>2, <2>1 DEF Begin, Torn, Accts, AccountsTypeOK
    <2>5. UNCHANGED <<users, table, m_lock, confirmed, raced, failed>>
      BY <1>2 DEF Begin
    <2>6. Accts'
      BY <2>1, <2>2, <2>3, <2>4, <2>5, QuietWorker
    <2>7. QED
      BY <2>1, <2>6 DEF GoTo, Accts, AccountsTypeOK
  <1>3. CASE LoginFind(w) \/ LoginCompare(w) \/ RegisterTaken(w)
    <2>1. PICK s \in {"found", "welcome", "logError", "registerError"} :
             GoTo(w, s) /\ (s = "found" => users[Name(w)] # NoPassword)
      BY <1>3 DEF LoginFind, LoginCompare, PasswordPage, RegisterTaken, FindHits
    <2>2. /\ stage[w] \in {"login", "found", "register"}
          /\ UNCHANGED <<users, table, m_lock, form, confirmed, raced, failed, torn>>
      BY <1>3 DEF LoginFind, LoginCompare, RegisterTaken
    <2>3. s \in Stages \ ({"lock"} \cup Inserting) /\ ~Registers(w) /\ form[w] \in Forms
      BY <1>1, <2>2 DEF Stages, Pages, Inserting, Registers
    <2>4. /\ form' \in [Threads -> Forms \cup {NoForm}]
          /\ \A t \in Threads \ {w} : form'[t] = form[t]
          /\ form'[w] \in Forms /\ form'[w] = form[w]
          /\ torn' \in Nat /\ (Torn' <=> Torn)
      BY <2>2, <2>3 DEF Accts, AccountsTypeOK, Torn
    <2>5. Accts'
      BY <2>1, <2>2, <2>3, <2>4, QuietWorker
    <2>6. QED
      BY <2>1, <2>5 DEF GoTo, Accts, AccountsTypeOK
  <1>9. CASE LoginInserts(w)
    BY <1>9, LoginInsertsStep DEF LoginInserts, GoTo, PasswordPage, Accts, AccountsTypeOK
  <1>4. CASE RegisterFree(w)
    BY <1>4, RegisterFreeStep DEF RegisterFree, GoTo, Accts, AccountsTypeOK
  <1>5. CASE LockAndQuery(w)
    BY <1>5, LockAndQueryStep DEF LockAndQuery, GoTo, Accts, AccountsTypeOK
  <1>6. CASE QueryWithoutConnection(w)
    BY <1>6, CrashStep DEF QueryWithoutConnection, GoTo, Accts, AccountsTypeOK
  <1>7. CASE InsertAndUnlock(w)
    BY <1>7, InsertAndUnlockStep DEF InsertAndUnlock, GoTo, Accts, AccountsTypeOK
  <1>8. QED
    BY <1>2, <1>3, <1>4, <1>5, <1>6, <1>7, <1>9 DEF do_request

(* The connection goes back with the request done.                         *)
LEMMA OverStep ==
  ASSUME Accts, NEW w \in Workers, Over(w)
  PROVE  Accts' /\ stage'[Main] = stage[Main]
  <1> USE WorkersAreThreads
  <1>1. w # Main /\ GoTo(w, "none") /\ ~Registers(w)
    BY DEF Over, GoTo, Registers, Inserting, Pages
  <1>2. /\ form' \in [Threads -> Forms \cup {NoForm}]
        /\ \A t \in Threads \ {w} : form'[t] = form[t]
    BY DEF Over, Accts, AccountsTypeOK
  <1>3. "none" \in Stages \ ({"lock"} \cup Inserting)
    BY DEF Stages, Inserting
  <1>4. /\ UNCHANGED <<users, table, m_lock, confirmed, raced, failed>>
        /\ torn' \in Nat /\ (Torn' <=> Torn)
    BY DEF Over, Torn, Accts, AccountsTypeOK
  <1>5. Accts'
    BY <1>1, <1>2, <1>3, <1>4, QuietWorker
  <1>6. QED
    BY <1>1, <1>5 DEF GoTo, Accts, AccountsTypeOK

(* The load, the requests and the pool, step by step.                      *)
LEMMA NextAInv == AInv /\ [AccountsNext]_accountsVars => AInv'
  <1> SUFFICES ASSUME AInv, [AccountsNext]_accountsVars PROVE AInv'
    OBVIOUS
  <1> USE WorkersAreThreads
  <1>1. IInv'
    BY StepOfPool, NextIInv DEF AInv
  <1>2. Accts /\ Loading /\ IInv
    BY DEF AInv
  <1>3. CASE UNCHANGED accountsVars
    BY <1>1, <1>2, <1>3, PoolStepAccts DEF AInv, Loading, accountsVars, accountVars, vars
  <1>4. CASE DestroyPool /\ UNCHANGED accountVars
    BY <1>1, <1>2, <1>4, PoolStepAccts DEF AInv, Loading, DestroyPool, accountVars
  <1>5. ASSUME NEW t \in Threads, Fetch(t) PROVE AInv'
    <2>1. Accts' /\ stage' = stage
      BY <1>2, <1>5, PoolStepAccts DEF Fetch, accountVars
    <2>2. pc \in [Threads -> PCs]
      BY <1>2 DEF IInv, TypeOK
    <2>3. phase' # phase => t = Main /\ pc[Main] = "post"
      BY <1>5 DEF Fetch, GetNone, GetTest, ReserveWait, ReserveInterrupted, PopFront,
                  PopFrontEmpty, ReleasePost
    <2>4. phase' = "load" => phase = "load"
      BY <1>5 DEF Fetch, GetNone, GetTest, ReserveWait, ReserveInterrupted, PopFront,
                  PopFrontEmpty, ReleasePost
    <2>5. pc'[Main] = "post" => pc[Main] = "post"
      BY <1>5, <2>2 DEF Fetch, GetNone, GetTest, ReserveWait, ReserveInterrupted, PopFront,
                        PopFrontEmpty, ReleasePost
    <2>6. Loading'
      BY <1>2, <2>1, <2>3, <2>4, <2>5 DEF Loading
    <2>7. QED
      BY <1>1, <2>1, <2>6 DEF AInv
  <1>6. ASSUME NEW t \in Threads, Hold(t) PROVE AInv'
    <2>1. pc[t] = "use" /\ UNCHANGED vars
      BY <1>6 DEF Hold
    <2>2. CASE t = Main
      <3>1. phase = "load" /\ \A w \in Workers : stage[w] = "none"
        BY <1>2, <2>1, <2>2 DEF IInv, Places, Loading
      <3>2. Accts'
        BY <1>2, <1>6, <2>2, <3>1, LoadStep, MainStep DEF Hold
      <3>3. /\ stage'[Main] \in {"none", "loaded", "crash"}
            /\ \A w \in Workers : stage'[w] = stage[w]
        BY <1>2, <1>6, <2>2 DEF Hold, Load, LoadFails, GoTo, Accts, AccountsTypeOK
      <3>4. phase' = "load" /\ pc'[Main] = "use"
        BY <2>1, <2>2, <3>1 DEF vars
      <3>5. QED
        BY <1>1, <3>1, <3>2, <3>3, <3>4 DEF AInv, Loading
    <2>3. CASE t \in Workers
      <3>1. phase # "load" /\ stage[Main] = "loaded"
        BY <1>2, <2>1, <2>3 DEF IInv, Places, Loading
      <3>2. Accts' /\ stage'[Main] = stage[Main]
        BY <1>2, <1>6, <2>3, <3>1, RequestStep DEF Hold
      <3>3. QED
        BY <1>1, <2>1, <3>1, <3>2 DEF AInv, Loading, vars
    <2>4. QED
      BY <2>2, <2>3 DEF Threads
  <1>7. ASSUME NEW t \in Threads, Return(t) PROVE AInv'
    <2>1. Over(t) /\ pc[t] = "use"
      BY <1>7 DEF Return, ReleaseNull, ReleaseConnection
    <2>2. CASE t = Main
      <3>1. Accts' /\ stage' = stage /\ stage[Main] = "loaded"
        BY <1>2, <2>1, <2>2, MainStep DEF Over, Loading, Pages
      <3>2. phase = "load" /\ \A w \in Workers : stage[w] = "none"
        BY <1>2, <2>1, <2>2 DEF IInv, Places, Loading
      <3>3. QED
        BY <1>1, <3>1, <3>2 DEF AInv, Loading
    <2>3. CASE t \in Workers
      <3>1. phase # "load" /\ stage[Main] = "loaded"
        BY <1>2, <2>1, <2>3 DEF IInv, Places, Loading
      <3>2. Accts' /\ stage'[Main] = stage[Main]
        BY <1>2, <2>1, <2>3, OverStep
      <3>3. phase' = phase
        BY <1>7, <2>3 DEF Return, ReleaseNull, ReleaseConnection
      <3>4. QED
        BY <1>1, <3>1, <3>2, <3>3 DEF AInv, Loading
    <2>4. QED
      BY <2>2, <2>3 DEF Threads
  <1>8. QED
    BY <1>3, <1>4, <1>5, <1>6, <1>7 DEF AccountsNext
-----------------------------------------------------------------------------
(* The invariant of accounts and pool holds in every reachable state.      *)
THEOREM AccountsInvariant == AccountsSpec => []AInv
  BY InitAInv, NextAInv, PTL DEF AccountsSpec

(* m_lock is held by the one worker that inserts, and by nobody else: it   *)
(* is given back whatever the INSERT returned.                             *)
THEOREM OneInsertsAtATime == AccountsSpec => [](AccountsTypeOK /\ OneInserts)
  BY AccountsInvariant, PTL DEF AInv, Accts

(* Without a unique key, a name has a second row only if registrations of  *)
(* it raced.                                                               *)
THEOREM RowsAreUnique == AccountsSpec => []OneRowUnlessRaced
  BY AccountsInvariant, PTL DEF AInv, Accts

(* What a registration confirmed is what the next start loads.             *)
THEOREM ConfirmedIsStored == AccountsSpec => []ConfirmedSurvivesRestart
  <1>1. AInv => ConfirmedSurvivesRestart
    <2> SUFFICES ASSUME AInv, NEW f \in confirmed, f.name \notin raced
                 PROVE  /\ Loaded(table)[f.name] = f.password
                        /\ ~Torn => users[f.name] = f.password
      BY DEF ConfirmedSurvivesRestart
    <2>1. f.name \in Names
      BY DEF AInv, Accts, AccountsTypeOK, Forms
    <2>2. /\ ~Torn => users[f.name] = f.password
          /\ Len(table[f.name]) = 1
          /\ table[f.name][1] = f.password
      BY DEF AInv, Accts, ConfirmedHeld
    <2>3. table[f.name] # <<>>
      BY <2>1, <2>2, Parts DEF AInv, Accts
    <2>4. Loaded(table)[f.name] = f.password
      BY <2>1, <2>2, <2>3 DEF Loaded, Last
    <2>5. QED
      BY <2>2, <2>4
  <1>2. QED
    BY <1>1, AccountsInvariant, PTL

(* The map agrees with what the table says, name by name.                  *)
THEOREM MapIsTable == AccountsSpec => []MapMatchesTable
  <1>1. AInv => MapMatchesTable
    <2> SUFFICES ASSUME AInv, stage[Main] = "loaded", ~Torn, NEW n \in Names, n \notin raced,
                        n \notin failed, Registering(n) = {}
                 PROVE  users[n] = Loaded(table)[n]
      BY DEF MapMatchesTable
    <2>1. \A w \in Workers : Registers(w) => Name(w) # n
      BY DEF Registering, Registers
    <2>2. SettledName(n)
      BY <2>1 DEF AInv, Accts, Settled
    <2>3. table[n] = <<>> <=> Len(table[n]) = 0
      BY Parts DEF AInv, Accts
    <2>4. CASE users[n] = NoPassword
      BY <2>2, <2>3, <2>4 DEF SettledName, Loaded
    <2>5. CASE users[n] # NoPassword
      BY <2>2, <2>3, <2>5 DEF SettledName, Loaded, Last
    <2>6. QED
      BY <2>4, <2>5
  <1>2. QED
    BY <1>1, AccountsInvariant, PTL

(* Whatever the two lookups of a login see, it answers the owner of a      *)
(* confirmed name, and nobody else, with the welcome page, as long as no   *)
(* insertion runs and no login has torn the map.                           *)
THEOREM OwnerLogsIn == AccountsSpec => ConfirmedLogsIn
  <1> DEFINE Right(w, f) ==
               stage[w] \in {"login", "found"} /\ Name(w) = f.name /\ f.name \notin raced =>
                  /\ stage'[w] = "welcome" => Password(w) = f.password \/ Torn'
                  /\ stage'[w] = "logError" =>
                        Password(w) # f.password \/ InsertRuns \/ Torn
  <1>1. AInv /\ [AccountsNext]_accountsVars =>
          [\A w \in Workers, f \in confirmed : Right(w, f)]_accountsVars
    <2> SUFFICES ASSUME AInv, AccountsNext, NEW w \in Workers, NEW f \in confirmed,
                        stage[w] \in {"login", "found"}, Name(w) = f.name, f.name \notin raced
                 PROVE  /\ stage'[w] = "welcome" => Password(w) = f.password \/ Torn'
                        /\ stage'[w] = "logError" =>
                              Password(w) # f.password \/ InsertRuns \/ Torn
      OBVIOUS
    <2>1. /\ users[Name(w)] # NoPassword
          /\ ~Torn => users[Name(w)] = f.password
      BY DEF AInv, Accts, ConfirmedHeld
    <2>2. stage \in [Threads -> Stages]
      BY DEF AInv, Accts, AccountsTypeOK
    <2>3. CASE LoginFind(w)
      <3>1. stage'[w] = "found" \/ (stage'[w] = "logError" /\ FindMisses(Name(w)))
        BY <2>2, <2>3, WorkersAreThreads DEF LoginFind, GoTo
      <3>2. FindMisses(Name(w)) => InsertRuns \/ Torn
        BY <2>1 DEF FindMisses
      <3>3. QED
        BY <3>1, <3>2
    <2>4. CASE LoginCompare(w)
      <3>1. stage'[w] = PasswordPage(w, users[Name(w)])
        BY <2>2, <2>4, WorkersAreThreads DEF LoginCompare, GoTo
      <3>2. Torn' <=> Torn
        BY <2>4 DEF LoginCompare, Torn
      <3>3. QED
        BY <2>1, <3>1, <3>2 DEF PasswordPage
    <2>5. CASE LoginInserts(w)
      <3>1. FindMisses(Name(w)) /\ (InsertRuns \/ Torn)
        BY <2>1, <2>5 DEF LoginInserts, FindMisses
      <3>2. Torn'
        <4>1. torn' = IF Torn THEN torn ELSE 1
          BY <2>5 DEF LoginInserts
        <4>2. QED
          BY <4>1 DEF Torn
      <3>3. QED
        BY <3>1, <3>2
    <2>6. CASE stage'[w] = stage[w]
      BY <2>6
    <2>7. ASSUME NEW t \in Threads, Hold(t), t # w PROVE stage'[w] = stage[w]
      <3>1. \A s : GoTo(t, s) => stage'[w] = stage[w]
        BY <2>2, <2>7, WorkersAreThreads DEF GoTo
      <3>2. \E s : GoTo(t, s)
        BY <2>7 DEF Hold, Load, LoadFails, do_request, Begin, LoginFind, LoginCompare,
                    LoginInserts, RegisterTaken, RegisterFree, LockAndQuery,
                    QueryWithoutConnection, InsertAndUnlock
      <3>3. QED
        BY <3>1, <3>2
    <2>8. ASSUME Hold(w) PROVE LoginFind(w) \/ LoginCompare(w) \/ LoginInserts(w)
      BY <2>8, WorkersAreThreads
         DEF Hold, do_request, Begin, RegisterTaken, RegisterFree, LockAndQuery,
             QueryWithoutConnection, InsertAndUnlock, Inserting
    <2>9. ASSUME NEW t \in Threads, Return(t) PROVE stage'[w] = stage[w]
      <3>1. t # w
        BY <2>9, WorkersAreThreads DEF Return, Over, Pages
      <3>2. QED
        BY <2>2, <2>9, <3>1, WorkersAreThreads DEF Return, Over
    <2>10. ASSUME UNCHANGED accountVars PROVE stage'[w] = stage[w]
      BY <2>10 DEF accountVars
    <2>11. QED
      BY <2>3, <2>4, <2>5, <2>6, <2>7, <2>8, <2>9, <2>10, WorkersAreThreads
         DEF AccountsNext, Fetch
  <1>2. QED
    BY <1>1, AccountsInvariant, PTL DEF AccountsSpec, ConfirmedLogsIn
-----------------------------------------------------------------------------
(* An INSERT that returned no error has stored its row.                    *)
InsertedHasRow ==
    \A w \in Workers : stage[w] = "ok" => RowHas(table[Name(w)], Password(w))

Rows == ConfirmedHasRow /\ MapHasRow /\ InsertedHasRow

(* A row that is appended takes no other away.                             *)
LEMMA RowsStay ==
  ASSUME NEW S, NEW rows \in Seq(S), NEW q \in S
  PROVE  /\ RowHas(Append(rows, q), q)
         /\ \A p : RowHas(rows, p) => RowHas(Append(rows, q), p)
  <1>1. /\ Len(rows) \in Nat /\ Len(Append(rows, q)) = Len(rows) + 1
        /\ \A i \in 1..Len(rows) : Append(rows, q)[i] = rows[i]
        /\ Append(rows, q)[Len(rows) + 1] = q
    BY AppendProperties, LenProperties
  <1>2. /\ Len(rows) + 1 \in 1..Len(Append(rows, q))
        /\ \A i \in 1..Len(rows) : i \in 1..Len(Append(rows, q))
    BY <1>1
  <1>3. QED
    BY <1>1, <1>2, Zenon DEF RowHas

(* A step that changes no account keeps the rows, whoever takes it.        *)
LEMMA QuietRows ==
  ASSUME Rows, UNCHANGED <<users, table, confirmed, failed>>,
         \A w \in Workers : stage'[w] = "ok" => stage[w] = "ok" /\ form'[w] = form[w]
  PROVE  Rows'
  <1>1. ConfirmedHasRow' /\ MapHasRow'
    BY DEF Rows, ConfirmedHasRow, MapHasRow
  <1>2. InsertedHasRow'
    <2> SUFFICES ASSUME NEW w \in Workers, stage'[w] = "ok"
                 PROVE  RowHas(table'[Name(w)'], Password(w)')
      BY DEF InsertedHasRow
    <2>1. stage[w] = "ok" /\ Name(w)' = Name(w) /\ Password(w)' = Password(w)
      BY DEF Name, Password
    <2>2. QED
      BY <2>1 DEF Rows, InsertedHasRow
  <1>3. QED
    BY <1>1, <1>2 DEF Rows

(* The INSERT of one worker adds its row below those of the others.        *)
LEMMA LockAndQueryRows ==
  ASSUME Accts, Rows, NEW w \in Workers, LockAndQuery(w)
  PROVE  Rows'
  <1> USE WorkersAreThreads
  <1>1. PICK res \in Inserting, stored \in BOOLEAN :
          /\ res = "ok" => stored
          /\ table' = IF stored THEN [table EXCEPT ![Name(w)] = Inserted(@, Password(w))] ELSE table
          /\ failed' = IF res = "error" THEN failed \cup {Name(w)} ELSE failed
          /\ GoTo(w, res)
    BY DEF LockAndQuery
  <1>2. \A t \in Threads : stage'[t] = IF t = w THEN res ELSE stage[t]
    BY <1>1 DEF GoTo, Accts, AccountsTypeOK
  <1>3. form[w] \in Forms
    BY DEF LockAndQuery, Accts, HasForm
  <1>4. Name(w) \in Names /\ Password(w) \in Passwords /\ table[Name(w)] \in Seq(Passwords)
    BY <1>3, Parts DEF Accts
  <1>5. /\ \A m \in Names \ {Name(w)} : table'[m] = table[m]
        /\ table'[Name(w)] = IF stored THEN Append(table[Name(w)], Password(w))
                             ELSE table[Name(w)]
    BY <1>1, <1>4 DEF Accts, AccountsTypeOK, Inserted
  <1>6. /\ \A n \in Names : \A p : RowHas(table[n], p) => RowHas(table'[n], p)
        /\ stored => RowHas(table'[Name(w)], Password(w))
    <2>1. /\ RowHas(Append(table[Name(w)], Password(w)), Password(w))
          /\ \A p : RowHas(table[Name(w)], p) => RowHas(Append(table[Name(w)], Password(w)), p)
      BY <1>4, RowsStay
    <2>2. QED
      BY <1>5, <2>1
  <1>7. \A v \in Threads : Name(v)' = Name(v) /\ Password(v)' = Password(v)
    BY DEF LockAndQuery, Name, Password
  <1>8. ConfirmedHasRow'
    <2>1. \A f \in confirmed : f.name \in Names
      BY DEF Accts, AccountsTypeOK, Forms
    <2>2. QED
      BY <1>6, <2>1 DEF LockAndQuery, Rows, ConfirmedHasRow
  <1>9. MapHasRow'
    <2>1. failed \subseteq failed'
      BY <1>1
    <2>2. QED
      BY <1>6, <2>1 DEF LockAndQuery, Rows, MapHasRow
  <1>10. InsertedHasRow'
    <2> SUFFICES ASSUME NEW v \in Workers, stage'[v] = "ok"
                 PROVE  RowHas(table'[Name(v)], Password(v))
      BY <1>7 DEF InsertedHasRow
    <2>1. CASE v = w
      BY <2>1, <1>1, <1>2, <1>6
    <2>2. CASE v # w
      <3>1. stage[v] = "ok"
        BY <2>2, <1>2
      <3>2. Name(v) \in Names
        BY <3>1, Parts DEF Accts, HasForm
      <3>3. QED
        BY <3>1, <3>2, <1>6 DEF Rows, InsertedHasRow
    <2>3. QED
      BY <2>1, <2>2
  <1>11. QED
    BY <1>8, <1>9, <1>10 DEF Rows

(* What enters the map, and what is confirmed, has just been stored.       *)
LEMMA InsertAndUnlockRows ==
  ASSUME Accts, Rows, NEW w \in Workers, InsertAndUnlock(w)
  PROVE  Rows'
  <1> USE WorkersAreThreads
  <1>1. \A t \in Threads : stage'[t] = IF t = w THEN RegisterPage(w) ELSE stage[t]
    BY DEF InsertAndUnlock, GoTo, Accts, AccountsTypeOK
  <1>2. form[w] \in Forms /\ stage[w] \in {"ok", "error"}
    BY DEF InsertAndUnlock, Accts, HasForm, Inserting
  <1>3. /\ Name(w) \in Names /\ form[w].name = Name(w) /\ form[w].password = Password(w)
    BY <1>2, Parts DEF Accts, Name, Password
  <1>4. /\ stage[w] = "ok" => RowHas(table[Name(w)], Password(w))
        /\ stage[w] = "error" => Name(w) \in failed
    BY DEF Rows, InsertedHasRow, Accts, Pending
  <1>5. ConfirmedHasRow'
    <2>1. confirmed' = IF stage[w] = "ok" THEN confirmed \cup {form[w]} ELSE confirmed
      BY DEF InsertAndUnlock, RegisterPage
    <2>2. QED
      BY <2>1, <1>3, <1>4 DEF InsertAndUnlock, Rows, ConfirmedHasRow
  <1>6. MapHasRow'
    <2> SUFFICES ASSUME NEW n \in Names, n \notin failed,
                        users'[n] \notin {NoPassword, EmptyPassword}
                 PROVE  RowHas(table[n], users'[n])
      BY DEF InsertAndUnlock, MapHasRow
    <2>1. CASE users'[n] = users[n]
      BY <2>1 DEF Rows, MapHasRow
    <2>2. CASE n = Name(w) /\ users'[n] = Password(w)
      BY <2>2, <1>2, <1>4
    <2>3. QED
      BY <2>1, <2>2, <1>3 DEF InsertAndUnlock, MapInsert, Accts, AccountsTypeOK
  <1>7. InsertedHasRow'
    <2> SUFFICES ASSUME NEW v \in Workers, stage'[v] = "ok"
                 PROVE  RowHas(table'[Name(v)'], Password(v)')
      BY DEF InsertedHasRow
    <2>1. stage[v] = "ok"
      BY <1>1 DEF RegisterPage
    <2>2. table' = table /\ Name(v)' = Name(v) /\ Password(v)' = Password(v)
      BY DEF InsertAndUnlock, Name, Password
    <2>3. QED
      BY <2>1, <2>2 DEF Rows, InsertedHasRow
  <1>8. QED
    BY <1>5, <1>6, <1>7 DEF Rows

(* What operator[] inserts is the empty string, which asks for no row.     *)
LEMMA LoginInsertsRows ==
  ASSUME Accts, Rows, NEW w \in Workers, LoginInserts(w)
  PROVE  Rows'
  <1> USE WorkersAreThreads
  <1>1. \A t \in Threads : stage'[t] = IF t = w THEN PasswordPage(w, EmptyPassword) ELSE stage[t]
    BY DEF LoginInserts, GoTo, Accts, AccountsTypeOK
  <1>2. \A n \in Names : users'[n] = users[n] \/ users'[n] = EmptyPassword
    BY DEF LoginInserts, Accts, AccountsTypeOK
  <1>3. ConfirmedHasRow' /\ MapHasRow'
    BY <1>2 DEF LoginInserts, Rows, ConfirmedHasRow, MapHasRow
  <1>4. InsertedHasRow'
    <2> SUFFICES ASSUME NEW v \in Workers, stage'[v] = "ok"
                 PROVE  RowHas(table'[Name(v)'], Password(v)')
      BY DEF InsertedHasRow
    <2>1. stage[v] = "ok"
      BY <1>1 DEF PasswordPage
    <2>2. table' = table /\ Name(v)' = Name(v) /\ Password(v)' = Password(v)
      BY DEF LoginInserts, Name, Password
    <2>3. QED
      BY <2>1, <2>2 DEF Rows, InsertedHasRow
  <1>5. QED
    BY <1>3, <1>4 DEF Rows

(* The load takes the passwords from the table.                            *)
LEMMA LoadRows ==
  ASSUME Accts, Load, \A w \in Workers : stage[w] = "none"
  PROVE  Rows'
  <1> USE WorkersAreThreads
  <1>1. \A w \in Workers : stage'[w] = "none"
    BY DEF Load, GoTo, Accts, AccountsTypeOK
  <1>2. confirmed' = {}
    BY DEF Load, Accts, Unloaded
  <1>3. MapHasRow'
    <2> SUFFICES ASSUME NEW n \in Names, users'[n] # NoPassword
                 PROVE  RowHas(table[n], users'[n])
      BY DEF Load, MapHasRow
    <2>1. /\ Len(table[n]) \in Nat /\ Len(table[n]) # 0
          /\ users'[n] = table[n][Len(table[n])]
      BY Parts DEF Load, Loaded, Last, Accts
    <2>2. Len(table[n]) \in 1..Len(table[n])
      BY <2>1
    <2>3. QED
      BY <2>1, <2>2, Zenon DEF RowHas
  <1>4. QED
    BY <1>1, <1>2, <1>3 DEF Rows, ConfirmedHasRow, InsertedHasRow

(* Every step, of the pool, of main() and of the workers, keeps the rows.  *)
LEMMA NextRows == AInv /\ Rows /\ [AccountsNext]_accountsVars => Rows'
  <1> SUFFICES ASSUME AInv, Rows, [AccountsNext]_accountsVars PROVE Rows'
    OBVIOUS
  <1> USE WorkersAreThreads
  <1>1. Accts /\ Loading /\ IInv /\ stage \in [Threads -> Stages] /\ form \in [Threads -> Forms \cup {NoForm}]
    BY DEF AInv, Accts, AccountsTypeOK
  <1>2. CASE UNCHANGED accountVars
    BY <1>2, QuietRows DEF accountVars
  <1>3. ASSUME NEW t \in Threads, NEW s, s # "ok", GoTo(t, s),
               UNCHANGED <<users, table, confirmed, failed>>,
               \A w \in Workers \ {t} : form'[w] = form[w]
        PROVE  Rows'
    <2>1. \A w \in Workers : stage'[w] = IF w = t THEN s ELSE stage[w]
      BY <1>1, <1>3 DEF GoTo
    <2>2. QED
      BY <1>3, <2>1, QuietRows
  <1>4. ASSUME NEW t \in Threads, Over(t) PROVE Rows'
    <2>1. /\ UNCHANGED <<users, table, confirmed, failed>>
          /\ \A w \in Workers \ {t} : form'[w] = form[w]
      BY <1>1, <1>4 DEF Over
    <2>2. \A w \in Workers : /\ w = t => stage'[w] = "none"
                             /\ w # t => stage'[w] = stage[w]
      BY <1>1, <1>4 DEF Over
    <2>3. QED
      BY <2>1, <2>2, QuietRows
  <1>5. ASSUME Hold(Main) PROVE Rows'
    <2>1. \A w \in Workers : stage[w] = "none"
      BY <1>1, <1>5 DEF Hold, IInv, Places, Loading
    <2>2. CASE Load
      BY <1>1, <2>1, <2>2, LoadRows
    <2>3. CASE LoadFails
      BY <1>3, <2>3 DEF LoadFails
    <2>4. QED
      BY <1>5, <2>2, <2>3 DEF Hold
  <1>6. ASSUME NEW w \in Workers, Hold(w) PROVE Rows'
    <2>1. do_request(w)
      BY <1>6 DEF Hold
    <2>2. CASE LockAndQuery(w)
      BY <1>1, <2>2, LockAndQueryRows
    <2>3. CASE InsertAndUnlock(w)
      BY <1>1, <2>3, InsertAndUnlockRows
    <2>4. CASE Begin(w)
      <3>1. PICK f \in Forms, s \in {"login", "register"} :
               form' = [form EXCEPT ![w] = f] /\ GoTo(w, s)
        BY <2>4 DEF Begin
      <3>2. \A v \in Workers \ {w} : form'[v] = form[v]
        BY <1>1, <3>1
      <3>3. UNCHANGED <<users, table, confirmed, failed>> /\ s # "ok"
        BY <2>4 DEF Begin
      <3>4. QED
        BY <3>1, <3>2, <3>3, <1>3
    <2>5. CASE LoginFind(w) \/ LoginCompare(w) \/ RegisterTaken(w) \/ RegisterFree(w)
                 \/ QueryWithoutConnection(w)
      <3>1. /\ UNCHANGED <<users, table, confirmed, failed, form>>
            /\ \E s \in {"found", "welcome", "logError", "registerError", "lock", "crash"} :
                  GoTo(w, s)
        BY <2>5 DEF LoginFind, LoginCompare, PasswordPage, RegisterTaken, RegisterFree,
                    QueryWithoutConnection
      <3>2. QED
        BY <3>1, <1>3
    <2>6. CASE LoginInserts(w)
      BY <1>1, <2>6, LoginInsertsRows
    <2>7. QED
      BY <2>1, <2>2, <2>3, <2>4, <2>5, <2>6 DEF do_request
  <1>7. QED
    BY <1>2, <1>4, <1>5, <1>6 DEF AccountsNext, accountsVars, Fetch, Return, Threads

(* Raced or not, a confirmed registration is a row of the table, and who   *)
(* can log in has a row there, unless an INSERT of its name failed: a race *)
(* makes the map and the table choose differently among the rows, it loses *)
(* none of them (http_conn.cpp:485).                                       *)
THEOREM RegistrationsAreRows == AccountsSpec => []RacesLoseNoRow
  <1>1. AccountsInit => Rows
    BY WorkersAreThreads DEF AccountsInit, Rows, ConfirmedHasRow, MapHasRow, InsertedHasRow
  <1>2. AccountsSpec => []Rows
    BY <1>1, NextRows, AccountsInvariant, PTL DEF AccountsSpec
  <1>3. Rows => RacesLoseNoRow
    BY DEF Rows, RacesLoseNoRow
  <1>4. QED
    BY <1>2, <1>3, PTL

(* The pool under the logins and registrations is as safe as on its own.   *)
THEOREM PoolOfAccounts ==
  AccountsSpec => [](EachConnectionInOnePlace /\ ReserveCountsList
                       /\ NeverPopsEmpty /\ AlwaysConnected)
  BY AccountsInvariant, PTL DEF AInv, IInv
=============================================================================
