# Verification of stock_http_server

The repository is a mock securities desk served over HTTP
(`examples/http_server_test.cpp` and `stock/`) on top of a copy of libhv: a C
event loop (`event/`), C++ wrappers around it (`evpp/`), an HTTP server and
client (`http/`), and base containers, threads and process helpers (`base/`,
`utils/`). This directory holds TLA+ models of its parts, TLC instances that
check them, and TLAPS proofs about them. Paths below are relative to `src/`.

## Inventory

| part | source | state | operations | what makes it hard |
|---|---|---|---|---|
| trading desk | `examples/http_server_test.cpp`, `stock/` | account, quotes, holdings, order list, order number, `errorTxt`, all globals copied into each worker by `fork` | InsertOrder (buy, sell), WithdrawOrder, QueryStockbyCode | long sequences of orders, float prices, int quantities, one error text shared by all requests, one copy of the state per worker |
| master and workers | `utils/hmain.cpp`, `base/hproc.h` | table of worker slots with pid, start time and spawn count | start, respawn on SIGCHLD, stop and reload signals, pid file | signals racing worker deaths and one another; holes in the table; what a forked child inherits |
| event posting | `event/hloop.c`, `evpp/EventLoop.h` | queue of custom events, wake-up socket pair, C++ queue of callbacks, two mutexes | `hloop_post_event`, `postEvent`, `sockpair_read_cb`, `onCustomEvent` | posters and loop interleave; a byte can be read before its event is pushed; callbacks post again |
| event queue | `base/queue.h` | array, offset, size, capacity | push_back, pop_front, pop_back, clear | compaction and doubling at the limits of the array |
| loop life cycle | `event/hloop.c`, `evpp/EventLoop.h`, `evpp/EventLoopThread.h` | loop status, loop thread id, wrapper status | run, stop, pause, resume, join | stop racing run; the loop frees itself |
| event bookkeeping | `event/hloop.c`, `event/hevent.h` | active, pending and destroy flags, counters, timer heap | add, delete, reset, process pendings, timers, idles | callbacks that delete or reset the event being processed |
| connections | `event/nio.c`, `event/hloop.c`, `event/hevent.c` | write queue, close flags, timers, io ids | read, write, close, time-outs | deferred close, close from another thread, callback after close |
| HTTP server | `http/server/*` | per-connection state machine, keep-alive, file cache, service table | `on_accept`, `on_recv`, `on_close`, handlers | pipelining, upgrade, close in a handler |
| HTTP client | `http/client/AsyncHttpClient.*` | task, retry count, connection pool | send, connect, message, close, time-out | retry racing a late answer, stale pooled connection |
| thread pool | `base/hthreadpool.h` | task queue, status, idle count, a mutex and a condition variable | start, stop, pause, resume, wait, commit | lost wake-ups, restart |
| object pool | `base/hobjectpool.h` | free list, object count | Borrow, TryBorrow, Return, Add, Remove, Clear | limits, check outside the lock |
| containers | `base/heap.h`, `base/hbuf.h`, `base/array.h`, `base/list.h` | heap tree, ring buffer, growing buffer | insert, remove, alloc, free | pointer surgery at the edges |
| TCP client and server | `evpp/TcpClient.h`, `evpp/TcpServer.h` | channel map, reconnect delay | accept, close, reconnect | limit checks across threads |
| parsers, codecs, logging, cJSON | `http/*parser*`, `utils/`, `base/hlog.c`, `cjson/` | parsing state of one message | pure functions of their input | no interleaving; third-party grammar tables |

## Modules

### Trading

`Trading` is the desk. Each worker process has its own copy of the globals, so
every variable is a function of the worker. Its actions are the requests:
`InsertRejected`, `InsertBuy` and `InsertSell` are `handle_insert_order` with
all it calls (`buyStockbyCode`, `buyStock`, `update_holdings`, ...),
`WithdrawOrder` is the route of that name with `withdrawOrder`, and
`QueryStockbyCode` is `handle_query_stock_bycode`. A worker handles a request to
its end before the next one (one loop thread per process), so a request is one
step. `buyCheck` and `sellCheck` give the first early return that applies. The
code's comparisons of a `float` price with a `double` close plus 0.00001 are
made in thousandths of a cent, with the rounding of the price to a float as the
constant function `FloatErr`; the rounding of the product `qty * price` is left
out. The header rows of `quote.csv` and `holdings.csv`, which the loader keeps as
rows like the others, are a code with price 0 and quantity 0. `ledger`, `spent`,
`fills` and `request` are history variables.

### LoopEvents

`LoopEvents` is how a thread gets work done on a loop. `postEvent` is
`EventLoop::postEvent` up to its call of `hloop_post_event`, `PostRaw` a direct
call of the latter; `LockAndWrite` and `PushAndUnlock` are its critical section,
split because the loop reads the byte without the mutex. `ReadSockpair`,
`TakeEvent`, `onCustomEvent` and `Return` are the loop thread in `nio_read`,
`sockpair_read_cb` and the handler. The loop thread itself posts only inside a
callback. `custom_events` is a sequence here; that `base/queue.h` behaves like
one is what `Queue` shows.

### Queue and Fifo

`Queue` is `base/queue.h` with its array: `ptr` is a function on
`0..maxsize - 1`, zeroed cells are `Zero`, and `push_back` has the three cases of
the code (double, move to the front, in place). `Fifo` is the promise: a sequence
and the operations on it. `Queue` implements `Fifo` under the mapping
`items <- Window`, the elements from `offset` on.

### MasterWorkers

`MasterWorkers` is `master_workers_run` in the mode with worker processes, with
`hproc_spawn` and every case of `signal_handler`. A handler interrupts the master
between any two steps, the step between `fork` and `ctx->pid = pid` included, and blocks
only its own signal: a stop signal interrupts the SIGCHLD handler, and the other stop
signal interrupts the first. The reload signal is `ReloadEnter` and then, slot by slot,
`ReloadTest` and `ReloadKill`: the SIGCHLD handler may change the table anywhere in that
loop, also between the test of a pid and its use. `Die` and `WorkerTerm` are the
workers, with the table, handler and atexit function they inherit (`elders` says whom a
worker would kill). SIGCHLD is one pending bit, `zombie` the dead that are not waited
for; `signal(SIGCHLD, SIG_IGN)` in the stop handler lets no more of them arise. Pids are
not reused. The desk's own `main` installs other handlers; the model is of the programs
that call `signal_init` (`examples/httpd/httpd.cpp`, `examples/hmain_test.cpp`).

### HThreadPool

`HThreadPool` is `base/hthreadpool.h`. A thread is a program counter that moves
from one access of the shared state to the next (`Loop`, `Paused`, `Lock`, `Test`,
`Block`, `TakeOrReturn`, `Pop`, `Run`, `Ran`); the condition variable releases the
mutex and blocks in one step, and may wake by itself (`Spurious`). `commit` is
`Commit` and `NotifyOne`, since the notification comes after the unlock. One
owner calls `start`, `stop`, `pause`, `resume` and `wait`, whose unlocked reads of
`tasks.empty()` and `idle_num` are two steps; the concurrent read of a deque is
taken to return whether it is empty. Threads are named by the start that made
them, because the code keeps the old ones in its vector: the stop after a restart
joins one of those again and throws (`owner = "threw"`), after which nothing runs.
So does a thread that finds the queue empty in `TakeOrReturn` and calls an empty task.

### Hio

`Hio` is `event/nio.c` with `hio_ready`, `hio_done`, `hio_add` and `hio_del` of
`event/hloop.c`: one descriptor and its `hio_t`, through the connections that use it
one after the other. Other threads take `hio_write` in two steps (the test of
`closed`, then the critical section of `write_mutex`), and so `hio_close`: the test of
`closed`, then the post with the id of that moment (`ThreadCloses`, `PostClose`), which
the loop takes in `CloseEvent`. On the loop thread `hio_close` is split where it
unlocks: `hio_close`, `MarkClosed`, `DropQueue`, `CloseCallback`. `WriteReady`,
`nio_write` and `Drained` are the flush of the queue, between which threads may
queue more; the timers are `KeepaliveTimeout`, `CloseTimeout` and `LeakedTimeout`,
the last one for timers that `hio_t` has forgotten. Written data are units of
messages, of which the kernel takes any number. `conn`, `meant`, `late`, `accepted`,
`sent`, `asked`, `due` and `closes` are history.

Nothing keeps the loop from closing a connection between a thread's test of `closed`
and what the thread does then. `late` remembers that this happened. A late write can go
to the next connection, and if the kernel does not take all of it, its `hio_add` makes
the closed `hio_t` ready again (`nio.c:501`, `hloop.c:777`): `hio_ready` then clears
`close_cb`, `error` and the timers, and gives a new id. A late post has the id of the
next connection. All this is modelled. Of the properties, `QueueIsWatched`, and of
`ClosedOnce` that `close_cb` is called at most once and not before the close, hold
regardless; the others hold until `late`.

### LoopTimers and Heap

`LoopTimers` is how a loop treats timers and idles: `setTimer`, `killTimer` and
`resetTimer` of `evpp/EventLoop.h` with the `htimer_` functions below them, `hidle_add`
and `hidle_del`, the rounds of `hloop_process_timers` and `hloop_process_idles`
(`Expire`), and the walk of `hloop_process_pendings` (`SkipReset`, `SkipDeleted`,
`StartCallback`, `EndCallback`). Flags are sets of events. A callback is the time
between `StartCallback` and `EndCallback`, in which it may call anything of the API;
the callbacks of ios do so in `poll`. Which timers are due is left open. An event
that is used after it was freed leads to `Wild`, after which nothing happens.

`Heap` is `base/heap.h`, the tree of pointers that holds the timers. A call of
`heap_insert` or `heap_remove` takes one step for each turn of its loops: `TakeBit` for a
bit of the path to the last place, `Walk` down that path, `Link`, `RemoveOnly` or
`Replace` at its end, `SiftDown` and `SiftUp`. `path` holds the numbers whose lowest bits
the code shifts together. Between the calls `Insert` is `htimer_add`, `Remove`
`__htimer_del`, and `Reset` with `InsertAgain` is `htimer_reset`, or
`hloop_process_timers` at the root. `place` is history: the nodes level by level.
Calls come one after the other. In the program they are the loop thread's, with one
exception: `hio_write` on another thread calls `htimer_reset` for a connection with a
keep-alive time-out (`nio.c:494`, `:87`), without a lock. That race is not modelled, in
`Heap` or in `Hio`, and what is shown of the heap is shown without it.

### AsyncHttpClient

`AsyncHttpClient` is `http/client/AsyncHttpClient`: `send` on any thread, and on the
loop thread `doTask`, the callbacks of a channel (`onconnect`, `Closed`,
`ResponseCloses`, `ResponseKeepsAlive`) and of its timer. `onclose` retries or answers.
One peer is modelled, with its pool. As in `LoopTimers`, the use of a deleted channel
sets `wild` and ends the behaviour.

### HttpServerStop

`HttpServerStop` is `http_server_stop` against the worker threads it stops, step by
step between accesses to shared fields: `loop_thread`, `EventLoop::run` and `stop`,
`hloop_run` and `hloop_stop`. The server was run with
`wait = 0`, so that the thread that started it goes on and stops it.

### MC modules and proof modules

`MCx` with `MCx.cfg` is the instance of `x` that TLC checks, `xProofs` holds the
theorems about `x`. `ContainerProofs` is about both `Queue` and `Heap`, and
`LoopEventsProofs` ends with the theorem about `HttpServerStop`.
The other `.cfg` files check one statement each, of a comment or a message in the code
that the code does not keep. Definitions marked as
mutants are plausible mistakes; each shows that a property of the passing runs
notices it.

## Runs

| run | shows | instance |
|---|---|---|
| `trading` | shares are conserved up to int wrap-around, order numbers are dense, orders change only by withdrawal, float rounding puts no order on the wrong side of the close or the price limit | one worker, 4 codes, 8 requests that trade and 23 that a check refuses, 2 orders, 3 fills |
| `loop_events` | bytes match events, every handler finds a callback, each runs once, in order and in the end, a callback may post | 2 posters and the loop, 4 posts, reads of 2 bytes |
| `queue` | the array queue stays in its array and is a FIFO queue | capacities 0, 2, 3; 5 elements of 2 values |
| `master_workers` | no worker is forgotten, crash loops end, dead workers are waited for, a stop reaches a full table, a reload every worker before the first hole, an exit leaves no stored worker running | 2 slots, 4 deaths, 1 reload |
| `thread_pool` | no empty task, `idle_num` exact, `wait` is sound, no wake-up of `commit` is lost | 2 threads, 2 tasks, 1 client, a restart |
| `hio` | queued data are watched and `close_cb` is called at most once; until `late`, it is called for each connection, bytes are sent in order, a plain close loses none, a posted close hits its own connection, a close ends | 2 threads, 2 connections, 2 messages of 2 units, 1 posted close at a time |
| `loop_timers` | counters are exact, the two tables of timers agree, the walk meets nothing freed, nothing deleted is called | 2 timers, 2 idles, 1, 2 or endless repeats |
| `heap` | the pointers form the complete tree at every step, the root is the earliest | 7 nodes, 3 times |
| `async_client` | a task is never lost or answered twice, the pool is idle, a timer finds its task, a timed request is answered | 2 requests, 2 descriptors, 3 retries |
| `server_stop` | a stop that returned is still pending for its loop, `http_server_stop` returns | 3 workers |

The instances are small, but each reaches the case its properties are about: a holding
that wraps at `IntMax = 2999` and one that is sold out and bought again; a post between
a byte and its event, and from inside a callback; two doublings and moves before each; a
slot that uses up its three respawns while the other runs; a task committed while one
thread tests, one runs and the owner waits; a worker that dies and is replaced between
two steps of the reload loop; a close posted for the first connection that arrives at
the second, with a message half sent; a callback that deletes or resets the timer behind
it; a removed node whose replacement has to go up; a retry of one request while the
other takes the pooled connection; a stop between any two steps of a starting loop. One
worker is enough for the desk because no action reads another worker's state; the proofs
do not fix the number. The bounds are the constants `MaxOrders`, `MaxFills`, `MaxPosts`,
`MaxSize`, `MaxDeaths`, `MaxReloads`, `MaxStarts`, `MaxMsgs`, `MaxConns` and
`MaxPosted`, all in guards. Deadlock is checked in `trading`, `queue`, `heap` and
`loop_timers`. In the others the system really may stop: when all posts are done, when
the master has exited, when a pool or a server is stopped, when the last connection is
closed, when every request is answered. The type invariants are proved; `Heap` and
`HttpServerStop` state theirs only as part of the invariants of their proofs.

Two runs end in a violation. Each states what a line of the repository says:

| run | statement | what the code does |
|---|---|---|
| `trading_balance` | `http_server_test.cpp:353`, the balance suffices | the balance is compared and never debited |
| `hio_write` | `hloop.h:259`, `hio_write` is thread-safe and may be called by other threads | a write that passed the test of `closed` goes to the descriptor's next connection |

## Fairness

Safety is checked and proved without fairness. The liveness properties assume
what the operating system's scheduler gives, and nothing of the callers:

- `EveryPostRuns`: weak fairness of the loop thread and of each thread inside
  `hloop_post_event`. Nobody has to post. Weak fairness suffices although a mutex is
  involved, because posts are bounded and so the mutex cannot be taken for ever.
- `ZombiesReaped`: weak fairness of the master's own steps, those of its reload loop
  included, and of the delivery of a pending SIGCHLD. Workers need not die and no stop
  or reload signal has to come.
- `TaskIsTaken`: strong fairness of each pool thread, as a
  free mutex that others keep taking must be obtained in the end; weak fairness of
  `notify_one` and of the steps inside the owner's calls. Spurious wake-ups are not
  fair: they may happen and are not counted on.
- `CloseEnds`: weak fairness of what the loop thread has begun and of a thread inside
  `hio_write`; strong fairness of the close timer, since the loop looks at its timers in
  every turn and is only for moments busy with other callbacks. The peer owes nothing.
- `TimedIsAnswered`: weak fairness of taking posted tasks, of time, of a timer that
  is due and of the end of a deferred close, which has a timer of its own.
- `StopReturns`: weak fairness of each worker and of the stopping thread. That a poll
  ends is justified by `HLOOP_MAX_BLOCK_TIME`. Nobody has to stop the server.

## Proofs

All theorems hold for every value of the constants that satisfies the named assumption
of the module (`TradingAssumption`, `LoopEventsAssumption`, `QueueAssumption`,
`MasterAssumption`, `PoolAssumption`, `HioAssumption`, `TimersAssumption`,
`ClientAssumption`, `HeapAssumption`), which only say that numbers are numbers, that
special values differ from others, that sets of events are finite, that initial holdings
are ints and not negative, and that a price up to `MaxPrice` (65535 yuan) is rounded by
at most half the distance of two floats; `HttpServerStop` needs none.

- `TradingProofs` (`TypeCorrect`, `Conservation`, `OrderNumbers`, `OrderHistory`,
  `RoundingHarmless`). `StepCases` reduces a request to one of five effects on the
  books (none, queued, bought, sold, withdrawn). Conservation is not inductive: a
  position that wrapped can come back into range. `LedgerInv` says that
  the list is either exact or short by at least a full turn of the int.
  `RoundingHarmless` is arithmetic: prices and closes are whole cents, and half the
  distance of two floats (`HalfUlp`) and the pad of 0.00001 together are less than a cent.
- `LoopEventsProofs` (`TypeCorrect`, `Wakeups`, `CallbackForEveryHandler`,
  `OnceEach`, `CallbacksInOrder`). The mutex is held exactly between write and push,
  from which the count of bytes follows. That a handler finds a callback needs a
  counting argument, since the two queues are filled in different orders:
  `Placed` says where each event id can be and `SameNumber` that as many handlers
  are under way as callbacks wait. The order of the runs rests on `OrderInv`, which
  compares what ran with what is still queued or in a thread's hand.
  `StopAlwaysPending` is about `HttpServerStop`: `StopInv` adds that a worker that has not
  stored RUNNING yet finds its stop event already posted once its stop got that far, so
  that the store cannot undo the stop.
- `ContainerProofs`, the queue (`TypeCorrect`, `StaysInBounds`, `ImplementsFifo`). The
  invariant adds that the cells of the window hold elements. The refinement is proved
  operation by operation: each maps to the `Fifo` operation of its name or to a stutter.
- `ContainerProofs`, the heap (`TimersFormCompleteTree`, `EarliestTimerIsRoot`).
  `HeapInv` is inductive over the steps of a call. `Call` says where a call is: the
  path holds the places from the goal (the last place, or the first free one) up to the
  root, and the walk is at the place above the next one. `Ordered` says that neighbours
  are in order except around the node that is sifted, and that there they are in order
  across it, so that a swap leaves at most the pairs of that node open. The two surgeries
  are lemmas of their own: `heap_swap` exchanges two neighbouring places (`SwapTree`), and
  `Replace` covers the removed node being the last node, its parent or neither. That
  the root is first needs an induction over the places, made with the first place
  that would contradict it (`Least`).
- `MasterWorkersProofs` (`TypeCorrect`, `NoWorkerForgotten`, `ExitLeavesNoWorker`,
  `StopLeavesNoWorker`, `ReloadIsForwarded`, `CrashLoopEnds`, `DeathAlwaysSignalled`).
  The invariant adds that slots not yet started are empty, that the handler respawns
  only an emptied slot of the started part, that the kill loop has emptied the slots
  behind it, and that the living and the zombies are disjoint; without these a store
  could overwrite a running worker's pid. For the reload, `Told` says that the loop has
  told the workers behind it that were there when it began; what the SIGCHLD handler
  stores meanwhile was not there.
- `HThreadPoolProofs` (`TypeCorrect`, `NoEmptyTask`, `IdleIsCounted`, `WaitIsSound`,
  `WakeupNeverLost`).
  `Mutex` gives mutual exclusion, `Quiet` that only threads of the last start are
  active and none in a stopped pool, so a thread that saw STOP cannot see it
  revoked before it returns. `wait` is sound because a committed task is queued,
  taken or done (`Accounted`), hence taken or done once the queue was empty
  (`Vouched`), hence done once no thread is busy; that last step needs `IdleCount`.
  `WakeupNeverLost`: with a task queued, some thread is active or a `notify_one` is
  still to come. A notify that finds nobody blocked finds an active thread, because the
  threads of the last start are all there (`Manned`) and none is between its test
  and its wait while something is queued (`Blocking`).
- `HioProofs` (`TypeCorrect`, `StreamKept`, `QueueWatched`, `CloseCalledOnce`,
  `CloseLosesNothing`, `PostedClosesItsOwn`, `CloseNeverForgotten`). `Base` is what also
  a late call leaves true, from which `QueueIsWatched` and the half of `ClosedOnce`
  without exception follow; `Regular` is what holds until then. In it `Control` ties the
  flags of `hio_t` to the place of the loop thread, `Called` the number of `close_cb`
  calls to both, `Own` gives each posted id its connection (ids only grow), and `Kept`
  says that everything accepted before a close was asked for is sent or still queued
  until the queue may be dropped.
- `LoopTimersProofs` (`TypeCorrect`, `CountersAreExact`, `EntriesAlwaysMatch`,
  `WalkAlwaysSafe`, `NoCallAfterDelete`). `Flags` says that an allocated event is linked
  unless marked as destroy, from which the counters follow; `Listed` that the
  pendings are distinct and hold every event with the flag, so that what is freed
  at once is in no list. `Match` follows the two counts of repeats through expiry,
  callback and deletion; between turns it is `EntriesMatch`.
- `AsyncHttpClientProofs` (`TypeCorrect`, `TaskAlwaysInOnePlace`, `PoolAlwaysIdle`,
  `TimerAlwaysHasTask`, `AnswerAlwaysDue`). `Places` says of each task what
  `TaskInOnePlace` counts, and is preserved by three moves (taken, retried, answered);
  `Pool` adds that a descriptor without a channel has neither task nor timer.

Every safety property of the passing runs is proved. Only model-checked are the liveness
properties, which are out of the prover's reach, and of course the statements that fail.
For each liveness property a theorem gives what it rests on in every state, namely that
something which fairness lets happen is under way:

| liveness, by TLC | state property, proved |
|---|---|
| `EveryPostRuns` | `Wakeups`: a byte for every queued event |
| `TaskIsTaken` | `WakeupNeverLost`: a thread on its way to a queued task, or a notification to come |
| `ZombiesReaped` | `DeathAlwaysSignalled`: SIGCHLD pending or its handler at work |
| `CloseEnds` | `CloseNeverForgotten`: a close asked for goes on, or has its timer, until `late` |
| `TimedIsAnswered` | `AnswerAlwaysDue`: an unanswered request is posted, or its channel has its timer or is closing |
| `StopReturns` | `StopAlwaysPending`: status STOP, or the stop event still to take |

The invariants of these theorems that no run lists (`DeathIsSignalled`, `CloseUnderWay`,
`AnswerIsDue`) are defined in the proof modules.

## Abstractions

- Prices are integers of cents; the comparison of a `float` price with a `double`
  close is made in thousandths of a cent, with the rounding of the price a constant
  function. Rounding of `qty * price` is left out.
- The socket pair neither blocks nor fails, and memory is never exhausted.
- Time in the master is one bit per death: whether the worker ran for an hour.
- Thread steps are atomic between accesses to shared variables. In `Hio` some are
  coarser: `closed = 1` up to `hio_del` is one step, `__close_cb` and `closesocket` are
  one, and `write_cb` does not close. A
  descriptor that has no `hio_t` yet is like a closed one.
- In `LoopTimers` the address of an event is not reused, `nidles` is left out, the count
  of an endless timer (2^32 - 1 in `EventLoop`) is not followed down to 0, and cron
  periods, which share the code of timers, are not told apart.

Seen while modelling and reached by the models, but not the subject of a run.

- Desk: the price range check of a buy is written with `&&` and never refuses
  (`http_server_test.cpp:308`); a price equal to the close, above 256 yuan, can be
  rounded by more than the tolerance of 0.00001 and be executed instead of queued
  (`:370`); a sell at exactly 90% of the close is refused (`:445`); the lot check leaves
  the text of an earlier request (`:316`).
- Master: the loops that kill and reload the workers end at the first empty slot
  (`hmain.cpp:352`, `:401`), and what is behind it is not reached; a slot emptied
  between test and use has the reload signal sent to pid -1, every process (`:402`); the
  master can exit for lack of workers with one just forked (`:384`); a worker's `exit`
  deletes the pid file (`:503`); a worker that dies before its pid is stored leaves a
  slot that is never served again (`hproc.h:46`).
- Thread pool: `stop` notifies without the mutex and can miss a thread between test
  and block, which it then joins for ever (`hthreadpool.h:64`); the stop after a restart
  throws (`:66`); `stop` leaves queued tasks, and whoever waits for their futures,
  undone (`:97`).
- Connections: what a late write or post does, see `Hio` above; a second deferred close
  forgets the first one's timer, which later closes whatever the descriptor then is
  (`nio.c:549`).
- Timers: a timer that one callback resets while it is pending and then deletes is freed
  while still in the list (`hloop.c:66` says that real deletion occurs after
  `hloop_process_pendings`); `WalkIsSafe` and `EntriesMatch` except such timers.
  `hio_write` on another thread resets its keep-alive timer in the loop's heap without a
  lock (`nio.c:87`; not modelled).
- Client: a retry leaves the old channel's timer, whose callback uses the deleted
  channel; so does `sendRequest` after a write that failed
  (`AsyncHttpClient.cpp:97`).
- `http_server_stop` does not wait for the loops to run, as its comment says
  (`HttpServer.cpp:406`): a worker can find its loop NULL, and `hloop_stop` a freed one.

## Not modelled

- **Parsers, codecs, logging, cJSON, protocol tools, polling back ends**: functions of
  their input or wrappers of system calls, without a protocol of their own.
- **The HTTP handler of a connection** (keep-alive, upgrade, static files): it runs on
  one thread and keeps its state in the third-party parser. What is concurrent below
  it is in `Hio`.
- **File cache**: a cached entry is shared without a lock once `Open` has returned; what
  happens depends on the file system and on data races on strings, and the code
  states nothing of it that could be checked.
- **Object pool, TCP and UDP wrappers, other clients**: not used by the server, or thin
  layers of one thread over what is modelled.
- **Containers** other than the queue and the heap: textbook code without a limit.
- **Signals of the desk's own `main`**: decided by process groups and by the loop of the
  WebSocket server it forks.
- Within modelled parts: `hloop_pause` and `hloop_resume`, `EventLoopThread`, connecting,
  TLS and datagrams in `Hio`, destroying an `AsyncHttpClient` that has requests, the
  command line of the master.

Most lines under `src/` are not the program's own: two copies of `json.hpp` (25447
lines each), copies of the C++ library's headers in `http/bits` and
`examples/coverage`, of the installed headers in `include/hv`, `cJSON` and generated
coverage data. The models stand for about 1900 of the roughly 21600 lines of C and
C++ in `event`, `evpp`, `base`, `utils`, `stock`, `examples`, `http/server` and `http/client`,
those where interleavings, orders and limits matter.
