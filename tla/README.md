# TinyWebServer in TLA+

Formal models of the web server in this repository, the TLC runs that check them on
small instances, and theorems about them that TLAPS has proved for all instances.
`PROJECT.json` lists the components, the runs, the source lines behind every definition,
the hazards of the code and the theorems.

    tlc -config ThreadPool.cfg MCThreadPool        a run (see the table of runs)
    tlapm ThreadPoolProofs.tla                     the proofs of a module

## 1. The system

The server is a reactor with half-synchronous workers. `main()` alone waits in epoll; it
accepts, reads and writes. Eight detached threads parse requests and prepare responses.

| component | state | operations | hard because |
|---|---|---|---|
| **main loop** (`main.c`) | descriptors, epoll registrations, `users[]`, `users_timer[]`, the batch of events, `timeout` | accept loop, handling of EPOLLIN, EPOLLOUT and hang-ups, `cb_func()` | descriptors and `http_conn` objects are used again while timers, queue entries or workers of the last connection still exist; the listening socket is edge-triggered |
| **thread pool** (`threadpool/threadpool.h`) | `m_workqueue`, `m_queuelocker`, `m_queuestat`, `m_stop` | `append()`, `run()`, destructor | push and post are separate steps, `sem_wait()` may be interrupted and nobody looks, the queue is bounded, the pool is destroyed under its workers |
| **SQL pool** (`CGImysql/`) | `connList`, `reserve`, `FreeConn`, `CurConn` | `GetConnection()`, `ReleaseConnection()`, `DestroyPool()`, `connectionRAII` | an unlocked test before a wait, interrupted waits, destruction with loans outstanding, unsigned counters |
| **time heap** (`timer/min_heap.h`, `timer_handler()`) | `array`, `capacity`, `cur_size`, each timer's `expire` and `cb_func`, the alarm | `add_timer`, `adjust`, `del_timer`, `tick`, `pop_timer`, `resize`, `alarm()` | a hand-written heap; lazy deletion; time passes between two readings of the clock |
| **request parser** (`http_conn::read_once`, `process_read`) | `m_read_buf` and three indices, `m_check_state`, what was parsed | `parse_line`, `parse_request_line`, `parse_headers`, `parse_content`, `init` | bytes arrive in any fragments, the object is used again and some of its state with it |
| **response writer** (`http_conn::process_wirte`, `write`) | `m_iv`, `bytes_to_send`, `bytes_have_send`, the mapped file | prepare, send, continue after EAGAIN | partial sends, state that outlives a response |
| **accounts** (`http_conn::do_request`) | the map `users`, the table in MySQL | load at the start, login, registration | the map is tested, and by a login even extended, outside its lock; the INSERT may fail, the table has no unique key |
| **log** (`log/`) | the file with its day and part, `block_queue` | `write_log`, the thread that writes | several critical sections per line, a bounded queue, lines that wait over midnight |
| **lock wrappers** (`lock/locker.h`) | - | `sem`, `locker`, `cond` | results that callers ignore |

How they interact: `main()` gives the pool a pointer to an `http_conn` (shared state, no
copy); a worker gives it back by registering the descriptor with epoll again, which is why
EPOLLONESHOT is the only thing that keeps the two apart. The heap calls `cb_func()` of
`main.c`, which closes descriptors. A worker closes a descriptor itself in one case only
(a missing file). Workers borrow a MySQL connection for each request. SIGALRM reaches
`main()` through a pipe, and may interrupt the wait of any thread.

What makes each of them correct is stated by the properties below; what is hard to test in
each is in the list of hazards of `PROJECT.json`, at the line where it bites.

## 2. Modules

| module | what it is |
|---|---|
| `RequestQueue` | abstract: a bounded first-in first-out queue handing each entry to one thread; the pool's of requests and the log's of lines |
| `ThreadPool` | the pool with its lock, semaphore and interrupted waits; implements `RequestQueue` |
| `ThreadPoolProofs` | theorems |
| `SqlConnectionPool` | the pool of connections, loans, destruction |
| `SqlConnectionPoolProofs` | theorems |
| `Reactor` | the composition: `main()`, kernel, clients, timers, queue, workers, `http_conn` objects |
| `ReactorProofs` | theorems |
| `TimerSet` | abstract: timers taken in the order of their deadlines, none too early |
| `TimeHeap` | the array heap, step by step, with `timer_handler()` and `alarm()`; implements `TimerSet` |
| `TimeHeapProofs` | theorems |
| `Accounts` | login and registration above `SqlConnectionPool`, which it extends: the map, the table, `m_lock` |
| `AccountsProofs` | theorems |
| `BlockQueue` | the circular array of the log with its mutex and condition variable; implements `RequestQueue` |
| `Log` | `write_log()` and the thread that writes, above `BlockQueue`, which it extends; the file of the day |
| `LogProofs` | theorems about both |
| `HttpParse` | the parser fed by a client in arbitrary fragments |
| `HttpParseProofs` | theorems |
| `HttpWrite` | the writer with a socket buffer that fills and drains, and the mapping of the file |
| `HttpWriteProofs` | theorems |
| `MC*` | finite instances of the modules for TLC |

Every module has the same parts: constants with a named assumption, variables named as in
the source, `Init`, seeded faults, one action per operation or per step between two blocking
calls, `Next`, the specification, and last the properties. The seeded faults are plausible
mistakes that replace a definition to see that a property notices; the specification does
not use them.

How modules fit together. `Reactor` uses the queue as an atomic bounded sequence
(`m_workqueue`), which is what `ThreadPool` is shown to implement, and the timers as a set
from which the expired are taken, which is what `TimeHeap` is shown to implement. In
`Reactor` a SIGALRM may come at any time; `TimeHeap` says when it comes. `Reactor` keeps of
a request only whose it is and how it ends; `HttpParse` and `HttpWrite` refine these steps
for one object, under the alternation of `main()` and worker that `Reactor`'s `OneOwner`
establishes. `Accounts` says what a worker does between `GetConnection()` and
`ReleaseConnection()`: its specification is the one of the pool with `do_request()` in place
of an arbitrary use (theorem `AccountsUsePool`).

### State and actions

* **ThreadPool.** `pc` and `request` per thread. `append()` is `AppendLock`, then
  `AppendRefuse` or `AppendPush`, then `AppendPost`; `run()` is `LoopTest`, `SemWait` or
  `SemWaitInterrupted`, `QueueLock`, `TakeNothing` or `TakeRequest`, `Process`. A critical
  section with its unlock is one step. The end of `main()` is `LeaveLoop` (`delete [] users`),
  `Destroy` (the body of the destructor), `DestroyMembers` (the semaphore, the lock, then the
  list and the object, one after the other) and `Exit`, with the workers running in between:
  one that uses what is `destroyed` goes to `"undefined"` (`UseDestroyed`).
* **SqlConnectionPool.** `GetNone`/`GetTest` are the unlocked test of the list,
  `ReserveWait`/`ReserveInterrupted` the semaphore, `PopFront`/`PopFrontEmpty` the critical
  section; `ReleaseConnection`, `ReleasePost` and `ReleaseNull` the way back. `pop_front()`
  of an empty list is undefined behaviour and ends in `"abort"`. `DestroyPool` may come at
  any point after the start-up. The counters are unsigned (`% UINT_RANGE`).
* **Reactor.** A connection is a number, descriptors are reused, the lowest free one first.
  `EpollWait` builds a batch, its events are handled in any order (`HandleIn`,
  `HandleOutNothing`, `HandleOutKeep`, `HandleOutLast`, `HandleOutAgain`, `HandleFailure`
  with `Closed`), then `TickFire`, `Fired`, `TickFree`, `TickEnd` if a SIGALRM was among
  them, and `SetAlarm`, which reads the clock once more and loses the alarm if a timer
  expired meanwhile (`alarm`). `Listen`, `Accept`, `Accepted`, `AcceptBusy`, `AcceptFails` are
  the accept loop.
  Workers run `Take`, `ProcessRead` with an outcome, `Arm`, or `WorkerClose`, `WorkerMark`,
  `WorkerStore`: close the descriptor, set `m_sockfd`, and decrement a plain integer, whose
  load and store are separate steps in `main()` as well. A timer is never reset in
  `users_timer[]`, as in the source. Nothing keeps a worker from being slower than a timer;
  `closers` is a history of who has closed a descriptor whose object was queued or with a
  worker.
* **TimeHeap.** Each iteration of a percolation is a step (`Rise`, `SinkStep`, `SinkEnd`),
  started by `AddTimer` (with `Resize`), `Adjust` and `TickPop`; `DelTimer` clears the
  callback. `TickStart` reads the clock, `SetAlarm` reads it again; `Pass` lets a second
  pass anywhere; `Signal` is the kernel's SIGALRM. `alarm()`'s argument is unsigned.
* **HttpParse.** A byte is CR, LF, NUL or a word, as `parse_line()` looks for the first two
  only. `Send` is the client; `ReadOnce(n)` takes n of its bytes and appends the object, or is
  refused by `append()`; `ReadFull` is the case of a full buffer; `Process` starts a worker,
  `parse_request_line`, `parse_headers`, `ParseContent`, `AwaitContent`, `ReturnNoRequest` are
  the iterations of the loop in `process_read()`. `Reply`, `NoResource`, `ErrorPage` end a
  request, `Close` a connection; `Accept` is `init()` for the next client of the object. A
  request is well-formed (`WellFormed`) or not: a client may send a form without a length or
  with length 0, a wrong or negative length, a rejected line, a URL of `http://` and no path,
  bare LFs. Where that makes the code use a pointer that is not set or write before its buffer,
  `pc` is `"undefined"`; where bytes of it are left over and answered, the connection is
  `strayed`.
* **Accounts.** `stage` says where a thread is in `do_request()` (or in `initmysql_result()`,
  for the main thread). A step of the pool that lends a connection is followed by `Begin`;
  a login is two look-ups in the map, `LoginFind` (`users.find()`) and `LoginCompare`
  (`users[name]`), of which the second inserts an empty password if it misses the name
  (`LoginInserts`); a registration is
  `RegisterTaken` or `RegisterFree` (the unlocked test), `LockAndQuery` (the INSERT, which may
  fail) and `InsertAndUnlock` (the map). The map is a `std::map` that is read while another
  thread inserts: such a look-up may miss a name that is there (`FindMisses`). When a login has
  inserted beside another writer the map is `torn`: from then on any look-up may miss, and an
  insert may replace an entry. The table has
  rows in order of their INSERTs and no unique key; `Load` reads it at the start, and a later
  row of a name replaces an earlier one. `confirmed`, `raced` and `failed` are histories.
* **BlockQueue** and **Log.** Every operation of the queue holds its mutex throughout, except
  for the wait in `pop()`: `PopWaits`, `WakesByItself`, `PopTakes`, and `push()` with its
  broadcast are the steps. `write_log()` is `Stamp` (the clock), `Count` (the section that
  counts the line and opens a new file), `Route` (`full()`), and `Push` or `Direct`;
  `WriteItem` is the other thread. A line is its number and day, a file its day and part.
  `Midnight` may come between any two of them, `Exit` is the end of `main()`.
* **HttpWrite.** An iovec is an offset and a length; sent bytes are numbered, so that order,
  loss and repetition show. `PrepareFile`/`PreparePage` are `process_wirte()`, `StartWrite`,
  `Writev`, `Eagain`, `WriteError` are `write()`, `Drain` is the client, `Close` and `Reopen`
  the reuse of the object. `mapped` follows `m_file_address`, and `Unmap` is `unmap()`.

## 3. Runs

| run | cfg | shows |
|---|---|---|
| `pool` | `ThreadPool` | no request is left without a wake-up although waits are interrupted (`TokenAccounting`), the pool is a queue (`ImplementsRequestQueue`) and accepted requests are taken (`EveryRequestTaken`), until `main()` destroys the pool under its workers |
| `sql` | `Accounts` | under login and registration connections are in exactly one place, the semaphore agrees with the list, nobody pops an empty list and nobody works without a connection when there are as many as workers; unless two registrations of a name race or a login tears the map, confirmed accounts survive a restart, map and table agree, a name has one row and its owner, nobody else, logs in; and no race loses a row of an account (`RacesLoseNoRow`) |
| `reactor_owners` | `Reactor_owners` | one owner per object and answers for the client that asked, until a descriptor is closed under its request, by its timer or by the worker; timers close their own connection and the user count is right until a worker closes a descriptor; nobody is left in the backlog |
| `reactor_full` | `Reactor_full` | whatever the outcome and however late the worker: no freed timer is followed, each registered descriptor has a timer, each connection is closed in the end unless the alarm is lost |
| `reactor_notfound` | `Reactor_notfound` | **violated**: `TimerClosesNoOther` |
| `timers` | `TimeHeap` | the heap is a heap, holds each timer once, leaves no expired one behind, sets the alarm in time, implements `TimerSet` |
| `timers_alarm` | `TimeHeap_alarm` | **violated**: `AlarmKeepsComing` |
| `parse` | `HttpParse` | well-formed requests are understood as sent however they are fragmented, whatever earlier clients of the object sent, and never waited for once complete, unless a body came in parts |
| `parse_split` | `HttpParse_split` | **violated**: `CompleteIsUnderstood` |
| `write` | `HttpWrite` | the first file of an object arrives in order and whole over several EPOLLOUTs, unless the buffer was full within the headers or the client made room right after a partial `writev()`; `write()` does not spin and is not left without EPOLLOUT, and leaves a file mapped only if `main()` closes the connection |
| `write_later` | `HttpWrite_later` | **violated**: `LaterInOrder` |
| `log` | `Log` | no line is lost, refused or written twice (`EachLineOnce`); lines overtake each other only past a full queue and by no more than it holds; a line is in the file of its day, or of a later one if it waited; the circular array is a queue (`ImplementsLineQueue`); every line is written if the server goes on |

### What the code does not do as it says

1. *A timer closes another client's connection* (`reactor_notfound`). For a missing file
   `process_wirte()` has no answer, the worker closes the connection (`http_conn.cpp:833`)
   and leaves its timer. The descriptor is used again; the old timer then closes the new
   connection, decrements the count a second time, and the new client's timer remains.
   Serving a 404 page in that case, or closing in `main()` only, would avoid it.
2. *No timer ever fires again* (`timers_alarm`). `timer_handler()` reads the clock after
   `tick()` has (`main.c:77`). If the second turns in between and a timer is due, `alarm()`
   gets 0, which cancels it, or a negative number, which is decades. A lower bound of 1 for
   the argument would avoid it.
3. *A POST whose body comes in two parts is never answered* (`parse_split`): after the first
   part the loop condition still calls `parse_line()` (`http_conn.cpp:385`), which moves
   `m_checked_idx` over it.
4. *A later response of an object is corrupted when the socket is full* (`write_later`):
   `bytes_have_send` is never reset (`http_conn.cpp:617`).

Further ones are kept as hazards with a note, because a property that excludes or includes
them says enough: the queue holds one request more than `m_max_requests`; the destructor of
the pool wakes and joins nobody and destroys what the workers are using; `CurConn` wraps when a
loan is returned to a destroyed pool; the accept loop that stops at `MAX_FD` leaves clients in the backlog; the user count is wrong
after a missing file; a slow worker loses its connection to a timer, and the next client of the
descriptor then shares the object with it; error pages and the
page for an empty file are never sent; `write()` continues wrongly when the buffer is full
within the headers, or when the client makes room between a partial `writev()` and the next.
Of two registrations of one name that race, both are confirmed, the table gets two rows, the
map keeps the first password and the next start loads the last. An account whose INSERT failed
can be used until the next start (`http_conn.cpp:489`). A login beside a registration may insert
its name with an empty password, without the lock (`http_conn.cpp:504`): it is turned away, and
so may others be until the next start. A POST without a body, such as the buttons of
`judge.html` send for other URLs, makes `do_request()` read the body of an earlier request, or
follow NULL, if its URL is that of a login or a registration (`http_conn.cpp:460`); an `http://`
URL without a path makes `parse_request_line()` follow NULL (`http_conn.cpp:294`).
Nobody updates `m_today` (`log.cpp:110`): from the first midnight on each line opens the file of its day again, no file
is split by its lines, and a month after the start lines go on in the file of the day before;
`FileOfItsDay` is stated for the first month. `~Log()` drops the lines that are still queued.

### Bounds

| run | bounds | why enough |
|---|---|---|
| `pool` | 3 workers, 2 requests, limit 2, 1 interrupted wait | the list reaches its limit of 3 and refuses; a worker without token overtakes one with; the third sleeps; the end of `main()` meets workers at every place |
| `sql` | 2 workers, 2 connections, 1 interrupted wait, 2 names, 2 passwords, 2 rows in all, 1 request begun once the map is torn | two registrations of a name race, or one runs beside a login that tears the map, and a request follows; the list is emptied, with a wait interrupted |
| `reactor_owners` | 2 clients, 2 descriptors, 2 workers, 3 sends, a queue that refuses the second entry | a descriptor serves both clients in turn or each has its own; two requests at once; every order of late workers, timers and missing files |
| `reactor_full` | 2 clients on 1 descriptor, 2 workers, 2 sends | every order of closing, reuse, timer and late worker for one descriptor; temporal properties, hence no symmetry |
| `timers` | 4 timers, capacity 1, clock to 5, TIMESLOT 1 | four are the fewest with two children and a grandchild; the array is doubled twice |
| `parse` | 7 well-formed requests, six of 10 to 14 bytes and one of 17, and 8 malformed ones of 5 to 14, a buffer of 14, at most 1 byte unread when the next is sent | bodies with and without line ends, several headers, forms without a body, wrong, zero and negative lengths, rejected lines, bare LFs, a request beyond the buffer; every fragmentation |
| `log` | a queue of 2, 6 lines, a new file every third, 2 midnights, months of 2 days | the array wraps around; lines find it full, wait over midnight, and meet the day of the month the server was started on |
| `write` | headers of 2, files of 1, 2 and 5, a buffer of 3 (or less, when memory is short) | a file within the buffer, one across it, one of several buffers; a later response of the same object |

`MaxSignals`, `MaxConns`, `MaxSends`, `MaxTime`, `MaxSent`, `MaxRows`, `MaxTorn`, `MaxUnread`,
`MaxLines`, `MaxDay` are bounds of TLC only and named as such; the theorems hold for all their values.

With every deadline set 3 * TIMESLOT ahead, `add_timer()` never moves a timer up while the
clock is not set back; that branch of `Rise` does not happen in the run and is covered by
the proofs (`RiseOrder`, `MoveKeeps`), which do not use this fact.

### Fairness

Liveness is checked where the code's scheduling justifies it.

* `ThreadPool`: a runnable thread runs; a posted semaphore lets some waiter through; a mutex
  that is free again and again is obtained by some waiter. Nothing makes `main()` append or
  a signal arrive.
* `Reactor`: `main()` and workers run, a queued request is taken (this is `ThreadPool`'s
  `EveryRequestTaken`), epoll leaves no ready descriptor out for ever, time passes, a response
  is finite, and an alarm that is set comes. Clients need not do anything. That an alarm is set
  is not assumed: `SetAlarm` may lose it, as `timers_alarm` shows that the code does, and
  `EveryConnectionEnds` then promises nothing any more.
* `HttpParse`: `main()` reads when bytes have come, the worker runs `process()` to its end.
  `append()` may refuse and the connection may be closed at any time it is `main()`'s.
* `HttpWrite`: `main()` handles EPOLLOUT, the client goes on reading. Without the latter a
  response is ended by the timer only, which is `Reactor`'s subject.
* `Log`: a call of `write_log()` that has begun runs on, and so does the thread that writes
  unless it sleeps. Nothing wakes it but `push()`: a wake-up of its own is possible and not
  fair. Nothing makes `main()` log or end, or midnight come.

`TimeHeap`, `SqlConnectionPool` and `Accounts` have safety properties only.

## 4. Proofs

Proved by TLAPS for every value of the constants, from the named assumptions of the modules
(finite sets of threads and descriptors, positive sizes, distinct special values).

**ThreadPool** (`ThreadPoolProofs`). `TokenAccounting` counts tokens, a pending post and
workers on their way against the list. It is inductive together with the types and `InHand`
(which thread holds a request where): without `InHand` an append could push no request. Each
step moves one worker into or out of the set `Awake`, which lemmas turn into arithmetic on
cardinalities. What is destroyed is destroyed by `main()` after its loop only
(`NothingDestroyed`), so the invariant is needed, and holds, up to the end of the semaphore.
Theorems: `PoolTypeCorrect`, `NoStrandedRequest`, `QueueNeverBeyondBound`,
`PoolImplementsQueue`; the last maps each step to one of the abstract queue or a stutter, and
the end of the list to the queue's `Close`.

**SqlConnectionPool** (`SqlConnectionPoolProofs`). The invariant adds `Places`: who holds a
connection at which place, that only `main()` works during the load and only workers
after, and that list, loans and closed ones add up to all connections. That nobody pops an
empty list then follows by counting: an empty list means that all connections are lent to
workers other than the one at the list, which are fewer. Theorems: `SqlTypeCorrect`,
`ConnectionInOnePlace`, `SemaphoreCountsList`, `SqlCountersAgree`, `NoPopOfEmptyList`,
`RequestsAreConnected`.

**Reactor** (`ReactorProofs`). The pointers in `users_timer[]` are never reset, so the safety
of following one rests on the order of the code: a descriptor is unregistered before its
timer's callback goes, and a batch holds events of registered descriptors only, handled
before timers are freed. The invariant is `TimerPointerSafe`, `RegisteredHasTimer`, and
`TimerLinks` (a descriptor's pointer leads to a timer made for this descriptor). It holds for
late workers and missing files as well. The backlog (`BInv`) needs that open descriptors are of
different connections and that the racy count never exceeds the number of accepted
connections.
The other three invariants hold up to a point that a history names, and are stated so: what
would follow without any condition on workers and timers is not true of the code.
`ConnsHold`, until a worker closes a descriptor: a descriptor's pointer leads to its only live
timer, that timer's connection is the open one, and the count is exact between `main()`'s
steps. `OwnersHold`, until a descriptor is closed under its request: the entry in epoll of
whatever is reported, queued or processed is off (`OwnedIsOff`), and no two owners have one
object (`OwnersDiffer`). As long as no such close happens, a descriptor that `accept()` returns
again belongs to nobody. `RepliesHold`, under the same condition: a response is followed from
the read buffer to the entry armed for writing; error pages must be excluded, as they leave
`bytes_to_send` as it was. That the conditions are needed `reactor_notfound` shows for the
worker's close. Theorems: `ReactorTypeCorrect`, `NoUseOfFreedTimer`, `NoConnectionWithoutTimer`,
`NoClientStranded`, `TimersMatchConnections`, `CountIsExact`, `ObjectsAreOwnedOnce`,
`RepliesAreOwn`.

**TimeHeap** (`TimeHeapProofs`). While a timer sinks or rises the array has a hole, so the
invariants speak of `Entry(i)`, the timer at i once the hole is filled. `IInv` has each timer
once; `OInv` has order among the others, order around the hole, and order of the moving timer
with those it has passed. That the top is the first to expire needs a least element, which is
proved from the well-foundedness of finite sets. `AInv` follows the alarm: while the clock
stands still during `timer_handler()`, its argument is between 1 and 3 * TIMESLOT. Theorems:
`HeapTypeCorrect`, `EachTimerInOnePlace`, `HeapIsOrdered`, `AllExpiredTaken`,
`AlarmNeverLate`, `AlarmStopsOnlyIfSlow` (so `timers_alarm` shows the only cause),
`HeapImplementsTimerSet`.

**Accounts** (`AccountsProofs`). The invariant `AInv` has three parts: the pool's, `Loading`
(nobody serves before the table is loaded) and `Accts`: one inserter at a time, and for each
name what is true of map and table when nobody registers it, when one worker does, and when
registrations raced. That a confirmed account is stored then needs that the only one to
change a name's row and entry is a worker whose unlocked test found it free; two of them make
the name `raced`. What is said of the map is said until it is `torn`; the table does not depend
on it. Theorems: `AccountsUsePool`, `AccountsInvariant`, `OneInsertsAtATime`, `RowsAreUnique`,
`ConfirmedIsStored`, `MapIsTable`, `OwnerLogsIn`, `PoolOfAccounts`. `OwnerLogsIn` follows a
login from its first look-up to its answer, with a registration beginning or a login tearing
the map in between. Of raced names and a torn map `RegistrationsAreRows` says what is left:
every confirmed registration is a row of the table, and who can log in has a row there unless
an INSERT of the name failed. Its invariant `Rows` adds to these two that a worker between a
successful INSERT and its insert into the map has its row.

**BlockQueue and Log** (`LogProofs`). `QueueOK` ties the three indices of the array together;
with it `push()` appends to `Contents` and `pop()` takes its head, for every size of the
array. `RoomToPush` is why no line is refused: what `full()` said still holds at `push()`, as
only `main()` adds lines. `InDay` says that no line of the month that is under way is younger
than the open file; `Apart` says that each line is in one of four places. For the order of
the file, `FewOvertaken` bounds together what a line has left behind and what of it still
waits, so that writing a waiting line changes nothing of the sum. Theorems: `LogInvariant`,
`WriterSleepsWhenEmpty`, `LogUsesAQueue`, `LinesAreInTheirFiles`, `LinesAreWrittenOnce`,
`OnlyTheQueueIsOvertaken`.

**HttpParse** (`HttpParseProofs`). `NoCrBefore`: the byte before `m_checked_idx` is never a
CR, because `parse_line()` stops on a CR or replaces it. So the indices stay in order and
within the bytes read, only line ends are overwritten, and the branch for an LF whose CR was
passed (`http_conn.cpp:174`) is never taken; this holds for malformed requests too. What the
parser understands is proved from `UInv`, which follows a well-formed request through its stages
(`Stage`), on a connection that had no reply to a malformed one (`strayed`). While the request is
read, the bytes from `m_start_line` on and those to come are as they were sent (`Intact`); the
parser is within some line and has noted down what the lines before it say (`AtLine`), or it
waits for the body (`AtBody`), whose start it has lost only if `process_read()` saw a part of it.
A line's C string is then the line's word, since the CR and LF after it became NUL, and the
body's is the body. A request whose lines end in a bare LF is `Stuck` at the first. Nothing is
said of the stages of other malformed requests (`MalformedNext`); what they leave behind ends
with the connection, as `init()` gives the next client a `Fresh` parser, all but `m_string`
(`AcceptBegins`), which a form with a body sets before it is read. It follows too that
`do_request()` is called once for a request, that only requests as long as the buffer are closed
by `read_once()`, and that one with bare LFs is never answered. Theorems: `IndicesStayInBuffer`,
`OnlyLineEndsOverwritten`, `RequestsAreUnderstood`, `WaitsOnlyIfSplit`, `UnderstoodOnce`,
`ClosedOnlyWhenFull`, `BareLfNeverAnswered`, `LoopOfProcessReadEnds`.

**HttpWrite** (`HttpWriteProofs`). The iovecs are correct while the response waits
(`AtRest`), but stale between a `writev()` and the `Eagain` that moves them; the invariant
`Unspoilt` follows both, for responses that nothing odd happens to (an EAGAIN within the
headers, room made right after a partial `writev()`, a later response, a page), and needs that
`write()` has room when it begins. Whatever is odd, the iovecs are never both empty
(`SomethingHeld`), so each `writev()` sends something; a page has nothing to send
(`PageUnsent`). Theorems: `WriteInvariant`, `SentInOrder`, `RestIsHeld`,
`LeftMappedByCutOnly`, `DoneMeansSent`, `LoopOfWriteEnds`, `PagesAreNotSent`.

Model-checked only: all liveness (TLAPS has no ENABLED); of two of the liveness properties the
measure is proved that each iteration of a loop brings down (`LoopOfProcessReadEnds`,
`LoopOfWriteEnds`). Every safety property of the passing runs is stated by a theorem. The type
invariants are proved, not checked by the runs.

## 5. Assumptions and what is left out

* `time()` is not set back and `malloc` does not fail. Members of `http_conn` that no
  constructor sets are zero: `users` is one large allocation of fresh pages.
* The client of `HttpParse` asks again only after a reply, as browsers do: `init()` drops what
  was pipelined. It may send any of `Requests`, malformed ones included; the words of a request's
  lines are free of CR, LF and NUL. A NUL beyond a full buffer is dropped: it is the low byte of
  `m_read_idx` (`http_conn.h:134`), which is 0 at 2048. Once `pc` is `"undefined"` the model ends.
* In `HttpParse` a connection is not closed while it is queued or parsed; that a timer may do so
  is `Reactor`'s subject.
* A request line is accepted, rejected, or without a path, as a whole. What `do_request()` maps
  it to is an outcome.
* Compiled variants: edge-triggered connections and listening socket, as in the source's
  `#define`s. The level-triggered code is not compiled.
* Descriptors opened briefly by `do_request()`, the log and MySQL are not in `Reactor`'s set of
  descriptors.
* SIGTERM and the end of `main()` are modelled in `ThreadPool`, `SqlConnectionPool` and `Log`, at
  any point, but not in `Reactor`. In `ThreadPool` the end may come whenever `main()` is not in
  `append()`; a worker that uses what was destroyed is followed no further.
* `time_heap`'s constructor from an array is never called, its destructor only at the exit.
* `write_log()` is called by the main thread alone: the macros in use are at `main.c:69`,
  `main.c:87`, `threadpool.h:59` and `http_conn.cpp:38`, and the last two run before the loop.
  With a second caller a line could be refused by `push()` and lost.
* `block_queue`'s `clear()`, `front()`, `back()`, `empty()`, `size()`, `max_size()` and
  `cond::signal()` are called by nobody. `flush()` and stdio's buffer are left out: a line
  counts as written at its `fputs()`. `fopen()` and `pthread_cond_wait()` do not fail.
* All months are as long as `DaysInMonth`.
* Of the data race on the map of accounts a missed name, the insertion by a login and what may
  follow it in the map are modelled, not a crash or a loop in the tree. If the SELECT at the
  start fails, `mysql_fetch_row()` gets NULL: the model ends there (`LoadFails`).
* The text of headers and log lines, HTML pages and the build have no state worth a model.

## 6. Plan

Done: the thread pool, the SQL pool and the accounts above it, the reactor, the time heap, the
parser and the writer, the log with its queue. The reactor came first because the hand-over
between threads and the life of a descriptor are where the server's own logic is.

Left: SIGTERM and the end of `main()` while workers run, in `Reactor` (in `ThreadPool` it is
modelled); a registration or login in `Reactor`, with its place in the SQL pool.
