------------------------------ MODULE Accounts ------------------------------
(***************************************************************************)
(* Login and registration (http_conn::do_request) on top of the connection *)
(* pool.  The accounts are kept twice: in MySQL's table `user`, which has  *)
(* no unique key, and in the map `users` that main() loads from it at the  *)
(* start.  A worker looks a name up without a lock; a registration then    *)
(* takes m_lock, inserts a row, inserts into the map and releases m_lock.  *)
(*                                                                         *)
(* While a worker is inside users.insert(), a lookup by another one may    *)
(* walk a tree that is being rebalanced and miss a name that is there.  A  *)
(* login looks twice, by find() and by the operator[] that inserts what it *)
(* does not find (http_conn.cpp:504): when only the second lookup misses,  *)
(* two threads change the tree at once.  From then on it is `torn': what a *)
(* lookup finds in it, and where an insert goes, is left open.             *)
(* Steps of the pool are those of SqlConnectionPool; what do_request()     *)
(* does happens while the thread has its connection ("use").               *)
(***************************************************************************)
EXTENDS SqlConnectionPool, FiniteSetsExt

CONSTANTS Names, Passwords,
          NoPassword,   (* the map has no such name                        *)
          EmptyPassword,(* the string operator[] makes for a new name      *)
          NoThread,     (* m_lock is free                                  *)
          NoForm,       (* a thread that works on no login or registration *)
          MaxRows,      (* bound: rows of the table in a behaviour         *)
          MaxTorn       (* bound: requests begun once the map is torn      *)

ASSUME AccountsAssumption ==
    /\ NoPassword \notin Passwords \cup {EmptyPassword}
    /\ NoThread \notin Threads
    /\ NoForm \notin [name : Names, password : Passwords]
    /\ MaxRows \in Nat
    /\ MaxTorn \in Nat

VARIABLES users,        (* the map: the password of each name              *)
          table,        (* the table: the rows of each name, oldest first  *)
          m_lock,       (* its holder, or NoThread                         *)
          stage,        (* where each thread is in its use of the above    *)
          form,         (* the name and password each worker was sent      *)
          confirmed,    (* forms of the registrations that were confirmed  *)
          raced,        (* names found free by a lookup during another     *)
                        (* registration of theirs, or by one that missed   *)
                        (* them                                            *)
          failed,       (* names whose INSERT returned an error            *)
          torn          (* 0 until two threads have changed the map at     *)
                        (* once; then one more than the requests begun     *)
                        (* since                                           *)

accountVars  == <<users, table, m_lock, stage, form, confirmed, raced, failed, torn>>
accountsVars == <<vars, accountVars>>

Forms == [name : Names, password : Passwords]

(* "ok" and "error" are what mysql_query() returned; it runs on NULL in    *)
(* "crash".  The last stage of a request is the page it is answered with.  *)
Inserting == {"ok", "error"}
Pages     == {"log", "registerError", "welcome", "logError"}
Stages    == {"none", "login", "found", "register", "lock", "loaded", "crash"}
                 \cup Inserting \cup Pages

(* What initmysql_result() makes of a table: the last row of a name wins.  *)
Loaded(rows) ==
    [n \in Names |-> IF rows[n] = <<>> THEN NoPassword ELSE Last(rows[n])]

TableSize == MapThenSumSet(LAMBDA n : Len(table[n]), Names)

(* A table that earlier runs of the server may have left.                  *)
AccountsInit ==
    /\ Init
    /\ table \in [Names -> BoundedSeq(Passwords, MaxRows)]
    /\ TableSize <= MaxRows
    /\ users = [n \in Names |-> NoPassword]
    /\ m_lock = NoThread
    /\ stage = [t \in Threads |-> "none"]
    /\ form = [t \in Threads |-> NoForm]
    /\ confirmed = {}
    /\ raced = {n \in Names : Len(table[n]) > 1}
    /\ failed = {}
    /\ torn = 0

Name(t)     == form[t].name
Password(t) == form[t].password

(* Workers whose lookup found the name free and whose insert is to come.   *)
Registering(n) ==
    {t \in Workers : stage[t] \in {"lock"} \cup Inserting /\ Name(t) = n}

Torn == torn > 0

GoTo(t, s) == stage' = [stage EXCEPT ![t] = s]

(* Another thread is inside users.insert().                                *)
InsertRuns == \E t \in Workers : stage[t] \in Inserting
-----------------------------------------------------------------------------
(***************************************************************************)
(* Seeded faults: plausible mistakes in the code below, each checked to be *)
(* caught by one of the properties at the end of the module.  They are not *)
(* part of the specification.                                              *)
(***************************************************************************)
InsertForgotten(t) ==          (* the row is in the table, but not here    *)
    users' = users

ConfirmsAlways(t) == "log"     (* the result of the INSERT is not tested   *)

ReplacedRow(rows, p) == <<p>>  (* REPLACE INTO user instead of INSERT      *)

LoginByFind(w) ==              (* any password will do                     *)
    /\ stage[w] = "found"
    /\ GoTo(w, "welcome")
    /\ UNCHANGED <<users, table, m_lock, form, confirmed, raced, failed, torn>>
-----------------------------------------------------------------------------
(* A lookup of the name without m_lock.                                    *)
FindHits(n) == users[n] # NoPassword

FindMisses(n) == users[n] = NoPassword \/ InsertRuns \/ Torn

(* main(): initmysql_result() with its one connection.                     *)
Load ==
    /\ stage[Main] = "none"
    /\ con[Main] # NULL
    /\ users' = Loaded(table)
    /\ GoTo(Main, "loaded")
    /\ UNCHANGED <<table, m_lock, form, confirmed, raced, failed, torn>>

(* SELECT fails, or there is no connection: the rows are read from NULL.   *)
LoadFails ==
    /\ stage[Main] = "none"
    /\ GoTo(Main, "crash")
    /\ UNCHANGED <<users, table, m_lock, form, confirmed, raced, failed, torn>>

(* A worker has a POST to /2... or /3...; other requests touch nothing.    *)
Begin(w) ==
    /\ stage[w] = "none"
    /\ torn <= MaxTorn
    /\ torn' = IF Torn THEN torn + 1 ELSE torn
    /\ \E f \in Forms, s \in {"login", "register"} :
          /\ s = "register" =>
                TableSize + Cardinality(UNION {Registering(n) : n \in Names}) < MaxRows
          /\ form' = [form EXCEPT ![w] = f]
          /\ GoTo(w, s)
    /\ UNCHANGED <<users, table, m_lock, confirmed, raced, failed>>

(* users.find(name) != users.end()                                         *)
LoginFind(w) ==
    /\ stage[w] = "login"
    /\ \/ FindHits(Name(w)) /\ GoTo(w, "found")
       \/ FindMisses(Name(w)) /\ GoTo(w, "logError")
    /\ UNCHANGED <<users, table, m_lock, form, confirmed, raced, failed, torn>>

PasswordPage(w, stored) == IF stored = Password(w) THEN "welcome" ELSE "logError"

(* users[name] == password, when operator[] finds the name again.          *)
LoginCompare(w) ==
    /\ stage[w] = "found"
    /\ FindHits(Name(w))
    /\ GoTo(w, PasswordPage(w, users[Name(w)]))
    /\ UNCHANGED <<users, table, m_lock, form, confirmed, raced, failed, torn>>

(* ... and when it does not: it inserts an empty string without m_lock,    *)
(* beside or instead of the name's entry.                                  *)
LoginInserts(w) ==
    /\ stage[w] = "found"
    /\ FindMisses(Name(w))
    /\ users' \in {users, [users EXCEPT ![Name(w)] = EmptyPassword]}
    /\ torn' = IF Torn THEN torn ELSE 1
    /\ GoTo(w, PasswordPage(w, EmptyPassword))
    /\ UNCHANGED <<table, m_lock, form, confirmed, raced, failed>>

RegisterTaken(w) ==
    /\ stage[w] = "register"
    /\ FindHits(Name(w))
    /\ GoTo(w, "registerError")
    /\ UNCHANGED <<users, table, m_lock, form, confirmed, raced, failed, torn>>

RegisterFree(w) ==
    /\ stage[w] = "register"
    /\ FindMisses(Name(w))
    /\ GoTo(w, "lock")
    /\ raced' = IF FindHits(Name(w)) \/ Registering(Name(w)) # {}
                THEN raced \cup {Name(w)} ELSE raced
    /\ UNCHANGED <<users, table, m_lock, form, confirmed, failed, torn>>

(* The INSERT; no key of the table forbids a second row.                   *)
Inserted(rows, p) == Append(rows, p)

(* m_lock.lock() and mysql_query().  An error may mean that the row was    *)
(* not inserted, or that the answer of the server was lost.                *)
LockAndQuery(w) ==
    /\ stage[w] = "lock"
    /\ m_lock = NoThread
    /\ m_lock' = w
    /\ con[w] # NULL
    /\ \E res \in Inserting, stored \in BOOLEAN :
          /\ res = "ok" => stored
          /\ table' = IF stored
                      THEN [table EXCEPT ![Name(w)] = Inserted(@, Password(w))]
                      ELSE table
          /\ failed' = IF res = "error" THEN failed \cup {Name(w)} ELSE failed
          /\ GoTo(w, res)
    /\ UNCHANGED <<users, form, confirmed, raced, torn>>

QueryWithoutConnection(w) ==
    /\ stage[w] = "lock"
    /\ m_lock = NoThread
    /\ con[w] = NULL
    /\ GoTo(w, "crash")
    /\ UNCHANGED <<users, table, m_lock, form, confirmed, raced, failed, torn>>

(* std::map::insert() leaves an entry that it finds as it is.              *)
MapInsert(w) ==
    \/ /\ users[Name(w)] = NoPassword \/ Torn
       /\ users' = [users EXCEPT ![Name(w)] = Password(w)]
    \/ /\ users[Name(w)] # NoPassword
       /\ users' = users

Unlock(w) == m_lock' = NoThread

RegisterPage(w) == IF stage[w] = "ok" THEN "log" ELSE "registerError"

InsertAndUnlock(w) ==
    /\ stage[w] \in Inserting
    /\ MapInsert(w)
    /\ Unlock(w)
    /\ GoTo(w, RegisterPage(w))
    /\ confirmed' = IF RegisterPage(w) = "log" THEN confirmed \cup {form[w]}
                    ELSE confirmed
    /\ UNCHANGED <<table, form, raced, failed, torn>>
-----------------------------------------------------------------------------
do_request(w) ==
    \/ Begin(w)
    \/ LoginFind(w) \/ LoginCompare(w) \/ LoginInserts(w)
    \/ RegisterTaken(w) \/ RegisterFree(w)
    \/ LockAndQuery(w) \/ QueryWithoutConnection(w)
    \/ InsertAndUnlock(w)

(* The connection goes back when do_request(), or the load, is over.       *)
Over(t) ==
    /\ stage[t] \in Pages \cup (IF t = Main THEN {"loaded"} ELSE {"none"})
    /\ stage' = IF t = Main THEN stage ELSE [stage EXCEPT ![t] = "none"]
    /\ form' = [form EXCEPT ![t] = NoForm]
    /\ UNCHANGED <<users, table, m_lock, confirmed, raced, failed, torn>>

Running == Alive /\ \A t \in Threads : stage[t] # "crash"

Hold(t) ==
    /\ pc[t] = "use"
    /\ IF t = Main THEN Load \/ LoadFails ELSE do_request(t)
    /\ UNCHANGED vars

Return(t) == (ReleaseNull(t) \/ ReleaseConnection(t)) /\ Over(t)

Fetch(t) ==
    /\ \/ GetNone(t) \/ GetTest(t)
       \/ ReserveWait(t) \/ ReserveInterrupted(t)
       \/ PopFront(t) \/ PopFrontEmpty(t)
       \/ ReleasePost(t)
    /\ UNCHANGED accountVars

AccountsNext ==
    /\ Running
    /\ \/ DestroyPool /\ UNCHANGED accountVars
       \/ \E t \in Threads : Fetch(t) \/ Hold(t) \/ Return(t)

AccountsSpec == AccountsInit /\ [][AccountsNext]_accountsVars
-----------------------------------------------------------------------------
AccountsTypeOK ==
    /\ users \in [Names -> Passwords \cup {NoPassword, EmptyPassword}]
    /\ table \in [Names -> Seq(Passwords)]
    /\ m_lock \in Threads \cup {NoThread}
    /\ stage \in [Threads -> Stages]
    /\ form \in [Threads -> Forms \cup {NoForm}]
    /\ confirmed \subseteq Forms
    /\ raced \subseteq Names
    /\ failed \subseteq Names
    /\ torn \in Nat

(* m_lock is held exactly while its owner is between lock() and unlock():  *)
(* one worker at a time inserts, and the lock is given back on both ways   *)
(* out, whatever the INSERT returned.                                      *)
OneInserts ==
    \A t \in Threads : (m_lock = t) <=> (stage[t] \in Inserting)

(* A registration that was answered by the log-in page is what the next    *)
(* start of the server loads, also if a login has torn the map, unless     *)
(* another registration of the name was under way at its lookup            *)
(* (http_conn.cpp:485 looks before it locks), or the lookup missed the     *)
(* name; and it is in the map.                                             *)
ConfirmedSurvivesRestart ==
    \A f \in confirmed : f.name \notin raced =>
        /\ Loaded(table)[f.name] = f.password
        /\ ~Torn => users[f.name] = f.password

(* The server and its next start agree on who may log in, name by name,    *)
(* but for names whose registrations raced, whose INSERT returned an error *)
(* (http_conn.cpp:489 inserts into the map all the same), or that are      *)
(* being inserted, until a login changes the map while another thread does.*)
MapMatchesTable ==
    stage[Main] = "loaded" /\ ~Torn =>
        \A n \in Names \ (raced \cup failed) :
            Registering(n) = {} => users[n] = Loaded(table)[n]

(* The table has no unique key: that it has one row per name rests on the  *)
(* lookup.  A name gets a second row only if its registrations raced.      *)
OneRowUnlessRaced == \A n \in Names \ raced : Len(table[n]) <= 1

(* Some row of a name has this password.                                   *)
RowHas(rows, p) == \E i \in 1..Len(rows) : rows[i] = p

ConfirmedHasRow == \A f \in confirmed : RowHas(table[f.name], f.password)

MapHasRow ==
    \A n \in Names \ failed :
        users[n] \notin {NoPassword, EmptyPassword} => RowHas(table[n], users[n])

(* What is left of the agreement of map and table when registrations of a  *)
(* name race, or the map is torn: each confirmed registration still is a   *)
(* row of the table, and who can log in with a password of his has a row   *)
(* with it unless an INSERT of his name returned an error.  A race makes   *)
(* map and table choose differently among the rows, it loses none.         *)
RacesLoseNoRow == ConfirmedHasRow /\ MapHasRow

(* A login with a confirmed name, from its first lookup to its answer:     *)
(* other passwords are refused, and the owner is turned away only by a     *)
(* lookup that runs during an insertion or after a login tore the map      *)
(* (names whose registrations raced apart).                                *)
ConfirmedLogsIn ==
    [][\A w \in Workers, f \in confirmed :
          stage[w] \in {"login", "found"} /\ Name(w) = f.name /\ f.name \notin raced =>
              /\ stage'[w] = "welcome" => Password(w) = f.password \/ Torn'
              /\ stage'[w] = "logError" =>
                    Password(w) # f.password \/ InsertRuns \/ Torn
      ]_accountsVars
=============================================================================
