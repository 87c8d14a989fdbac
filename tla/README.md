# A verification model of mcast

mcast is a C++ actor library: services (actors or user threads) run as
coroutines on a few worker threads, exchange messages and method calls, sleep,
and read and write TCP sockets without blocking a worker. This directory holds
TLA+ models of its core, the TLC configurations that check them on small
instances, and TLAPS proofs for instances of any size. Paths are relative to the
repository; `System.cpp` is `src/src/System.cpp` and so on. The code is modelled
as the release build runs it (`-O2 -DNDEBUG`): `assert` is compiled out, `CHECK`
aborts.

## Inventory

| Part | State | Operations | Interacts with |
|---|---|---|---|
| Scheduler (`System.cpp/.h`, `ServiceContext.h`, `Service.*`) | per service: status, stopping, wakeup_signal, is_swaping_out, wait_events, events, msg_queue; run queue; per worker: current service | LaunchService, SendMessage, CallMethod, AsyncCallMethod, Wait, WakeUp, Signal, InterruptService, StopService, Yield, Schedule/SwitchTo/OnResume, the two main functions, Stop | everything: every other part blocks in `Wait_Locked` and wakes through `Wakeup_Locked` |
| TimerService | five arrays of timer lists, `cur_time_` | AddTimer, DeleteTimer, Run/Update | callbacks into System::WakeUp and AsyncCallMethod |
| IOService, WaitIO, TcpConnection | epoll's entries, each service's `fd`, the events of a batch | Read/ReadSome/Write, WaitIO, Add, Remove, Run, OnIOReady | sockets; wakes services |
| SleepService, WakeupService | timer handles, list of watched services, `interval_ms_` | Sleep, WaitSignal, AddService, Update | TimerService, Scheduler |
| Life cycle | `stopped`, `mutex_`, threads, `worker_init_num_` | Start, Stop, WaitStop | all threads |
| Acceptor, TcpServer, TcpConnector | listening socket, `acceptor_handle_`, connection services | Start, Stop, accept loop, connect | WaitIO, LaunchService |
| RpcServer, RpcChannel, RpcCodec | codec buffer, connection and call in progress, registered services | CallMethod, frame, dispatch, reply | TcpConnection, generated messages |
| Generated messages (`*.pb.*`) | bits, strings and unknown bytes of a message | accessors, Clear, MergeFrom, CopyFrom, Swap, serialize, parse | codec, channel, server |
| MPSCQueue, BlockingQueue, ThreadSafeQueue | linked nodes; deque and condition variable | push, pop, wake all | threads; ThreadSafeQueue is the run queue |
| ThreadPool, Thread | queues of tasks, threads, interruption flags | Start, Stop, Submit | ThreadSafeQueue |
| CircularBuffer, Queue, ObjectCache | ring, blocks, per-thread caches and shared lists | push, pop, grow, clear; get, put | each other |
| Status, Result | an array per failure | construct, copy, move, swap | everything that can fail |
| Timer | frequency, start count | read the frequency, Start, Elapsed | tests and benchmarks |
| libcontext, ServiceContext | the stack of each context | make_fcontext, jump_fcontext | SwitchTo, ThreadMain |
| Logging, DateTime, Closure, valgrind.h | none that matters here | output; macros | |

What is hard in it: a service is woken, from any thread, while the thread that
runs it is still leaving its context; events are latched bits without identity;
the epoll and timer threads work in several unlocked steps against services that
are interrupted and wait again; Stop races everything. `PROJECT.json` lists these
hazards line by line, with the properties that cover each.

What makes each part correct:

- Scheduler: a context is live on one thread; no wakeup is lost, doubled or
  without reason; accepted messages are handled once and in order; Stop ends.
- TimerService: a timer fires in its tick, once, and not after its deletion.
- IOService: readiness reaches the service that waits for it, and only that wait.
- Sleep/Wakeup: a sleep that nobody cuts short lasts its time; no sleep and no
  wait of a registered service lasts for ever.
- Life cycle: nothing is launched before the workers are there, nothing is left
  when Stop returns, and whoever waits for the stop learns of it.
- TcpServer: every descriptor has one owner until it is closed, once.
- RPC: what is decoded is what was encoded; a reply belongs to its call.
- Queues, pool and containers: they are the sequence their interface promises,
  and what is handed in comes out.
- ObjectCache, Status: memory has one owner.
- libcontext: a context goes on with the registers it had.

## Plan

Done: all parts above except those under *Not modelled*, and the proofs below.
Every safety property that a run checks is also proved; what is left to TLC is liveness.

## Modules

| Module | What it is |
|---|---|
| `Scheduler` | the M:N scheduler, the main loops and Stop |
| `ActorMailbox` | what a message-driven service promises: an inbox handled in order |
| `Scheduler_proofs` | theorems about `Scheduler`: contexts, threads and wakeups |
| `SchedulerMail_proofs` | theorems about `Scheduler`: calls, mailboxes and Stop, on top of the former |
| `TimerService` | the timing wheel |
| `TimerService_proofs` | theorems about `TimerService` |
| `IOService` | blocking reads on non-blocking sockets and the epoll thread |
| `IOService_proofs` | theorems about `IOService` |
| `MPSCQueue` | the lock-free queue of `util/MPSCQueue.h` |
| `FifoQueue` | what a queue promises |
| `BlockingQueue` | the queue with a condition variable |
| `ThreadPool` | the pool with its two queue policies, on Thread and ThreadSafeQueue |
| `SleepService`, `WakeupService` | sleeping and waiting services; the service that interrupts idle ones, on top of it |
| `LifeCycle` | Start, Stop and WaitStop |
| `TcpServer` | server, acceptor, connections and connector by their descriptors |
| `Protobuf`, `Messages` | the generated classes as operators; two messages under any calls |
| `Rpc` | channel, codec and server over byte streams; uses `Protobuf` |
| `CircularBuffer`, `BlockQueue` | the ring; the queue of blocks kept in a ring |
| `ObjectCache`, `Status`, `Timer`, `Context` | the utilities of those names; `Context` is libcontext |
| `Threads_proofs` | theorems about `MPSCQueue`, `BlockingQueue` and `ThreadPool` |
| `Services_proofs` | theorems about `TcpServer`, `LifeCycle` and `SleepService` with `WakeupService` |
| `Storage_proofs` | theorems about `Status`, `ObjectCache`, `CircularBuffer`, `BlockQueue`, `Timer` and `Context` |
| `Rpc_proofs` | theorems about `Messages` and `Rpc`, with the lemmas about `Protobuf` they share |
| `MCScheduler`, `MCTimerService`, `MCIOService` | the constants of their runs |
| `MCWaiting`, `MCThreads`, `MCStorage`, `MCServices` | runs of several components |

`MCWaiting`, `MCThreads`, `MCStorage` and `MCServices` put components into one run
that share no state: a variable `part` says which one moves, and the others stay in their
initial states. So the states of such a run are the sum and not the product of
those of its components.

Operators whose comment begins with "Mutant:" are deliberate mistakes. No
specification uses them; each one replaces the definition that follows it to show
that a property notices.

### Scheduler

One action is one critical section of a `ServiceContext`'s mutex, or a stretch of
thread-local code between two. The variables `status` to `msg_queue` are the
fields of ServiceContext. A service's own stack is `loc` (which part of its main
function), `mask` (the events of the `Wait_Locked` it is inside), `msg` (the
message in HandleMessage) and `call` (the call whose response it wants). A worker
is `pc`, `current` and `prev`: `schedule` is the entry of Schedule, `resume_prev`
and `resume_cur` are the two locked halves of OnResume after the jump. The window
between `Wait_Locked` giving up the mutex and `resume_prev` is where
`is_swaping_out` is set and wakeups may only leave a signal.

- `Wakeup_Locked`, `Wait_Locked` (three branches: stop, latched event, block),
  `WaitResumed` (the loop after Schedule), `SwitchTo`, `ResumePrev`, `ResumeCur`
  follow the functions of the same names.
- `LaunchService` is two actions, because it reads `stopped` without a lock and
  registers the service later. `LaunchDuringStop` says whether the two may
  enclose the start of Stop.
- `StopBegin`, `StopSnapshot`, `StopNext`, `StopInterrupt`, `StopJoin` are
  System::Stop, with StopAllService's copy of the services.
- A handler or Main is user code: it may call, wait for a signal or yield, and
  returns. Which services do what is a constant (`CallGraph`, `Waiters`,
  `Yielders`, `Closable`, `Signalled`, `Destinations`).
- Messages are model values, each sent at most once; `mstate` records their fate.
  The closure of a CallMethod is `reply`.

`ActorMailbox` knows only the life of an actor, whether it is closed, its inbox
and the message in work. `Scheduler` instantiates it with the refinement mapping
at the end of the module.

### TimerService

An action is a critical section of the wheel's mutex, or the `fetch_add` of
`cur_time_` outside of it (`Tick`). `Update` is `TickSection2` (once per array it
reaches), `Splice`, a `Callback` per timer and `UpdateReturns`. A list is the set
of timers whose `slot` it is. Time is a uint32_t, and the five arrays together
span exactly 2^32 ticks; the model keeps that relation, with smaller arrays, by
computing modulo `Span`. A timeout below half a period is called back inside
AddTimer and never reaches the wheel.

### IOService

The kernel part (sockets, epoll entries, ready list) is external and modelled
from its use: one entry per descriptor, edge triggered, reporting at once what is
ready when an entry is added; removing or closing takes it off the ready list, but
not out of a batch that `epoll_wait` has returned. A service is in user code, has
seen EAGAIN (`again`), is blocked in WaitIO, or has been woken without
kIO_Operation and still has to `Remove` its entry. The epoll thread takes a batch,
and for each event looks the service up and reads its descriptor
(`GrabService`), removes that descriptor (`Del`) and notifies (`OnIOReady`), with
no lock held between the three. The scheduler is abstracted to what
`Scheduler` establishes: a blocked service that was sent an event of its mask
resumes and finds it. A batch holds at most as many events as there are sockets,
below the 32 of the code.

### MPSCQueue

One action is one access to an atomic: `PushCount`, `PushExchange` and `PushLink`
are the three statements of Push; `PopLoad` is the load of `next`, `PopMove` the
consumer's own part (move the value, advance `head_`), `PopCount` the decrement.
A Pop that loads a null pointer returns it and changes nothing. Each push makes a
new node; a popped node is freed and its address may come back as a new node, so
that a late write through `old_tail` would corrupt the list and be seen.
`order` is a history variable: the nodes from `head_` on, in the order of their
exchanges. `FifoQueue` is instantiated with the values behind the stub.
Acquire, release and the relaxed counter are modelled as sequentially
consistent: every value and link the consumer reads was published by the release
store it has loaded, and nothing is decided on `size_`.

### BlockingQueue and ThreadPool

A critical section of BlockingQueue's mutex is a step, except that `pop` reads the
interruption flag twice while it holds it: `PopTest` is the predicate of the wait,
`PopTakes` and `PopGivesUp` what follows. `Interrupt` sets the flag without the
mutex, and `wakeAll` comes after it. Wakeups may be spurious.

A worker of ThreadPool looks into one queue per step: its own, the global one and
then everybody's (`TakeFromOtherThread`), or only the global one under the
single-queue policy. Tasks may submit tasks and wait for them. Start and Stop go
through the threads one after the other, and a stopped pool can be started again.

### SleepService and WakeupService

A step is what happens under the mutex of a service's context, or a tick. A timer
is the number of ticks it has left; `late` are the timers that Update has taken out
of their list and not called yet, which DeleteTimer can no longer stop. A sleep of
no tick is called back in AddTimer with the mutex held: the service is then
`stuck`. `WakeupService` adds the actor with its mailbox, `conn_srvs_` and the weak
handle `timer_`, which expires when the timer thread drops the list of a tick
(`TickEnds`). Update looks at the sleep time of a service and wakes it in two
steps, as it does without a lock.

### LifeCycle

`mutex_` is held by `Main` from StartThreads to StartReturns and by a stopper from
StopServices to StopJoins. `StartCall` is CHECK(stopped), before the lock. If there is
no memory for the stack of WakeupService, the exception unlocks the mutex and leaves
the system running; a worker without memory ends the program. `worker_init_num_` is never
reset, which the properties about a first life leave room for.

### TcpServer

The state is who would close which descriptor: the guard or Acceptor of a Start, the
acceptor service, the callback that has just accepted, the services of
connections, the clients. The kernel (external) has few descriptors and a
backlog. A failure of any of the calls of Acceptor::Initialize is
`InitializeFails`, whose trailing `Stop()` stops the server of an earlier Start.

### Protobuf, Messages and Rpc

A generated message is its bits, its strings and its unknown bytes; a string that
was never allocated is `DefaultString`. The four classes have the same members
with other field numbers, so they are one set of operators over the type of a
message. The wire format is modelled byte by byte, since lengths and framing are
what the properties are about; the texts have one byte each.

In `Rpc` a step is one `recv` or `send` of what is there, or what lies between two
of them. Each channel has its codec; the server has one for all connections, whose
`buffer_` is a variable of the model. `overlapped` records whether a connection
resized it while another one was using it.

### Containers, ObjectCache, Status, Timer, Context

`CircularBuffer` and `BlockQueue` keep the fields of the classes beside the
sequence they stand for. Positions count up in a word of `SizeMod` values.
`BlockQueue` knows which block begins where another one ends (`Behind`), since
Front and Clear work with pointers that may reach there, and records on which slots
the last call ran `~T` (`destroyed`); what `~T` makes of a slot without an object
is left open. `QueueRenew` is `~Queue` and the constructor of the next queue. In
`ObjectCache` a step is a critical section or a stretch of thread-local code, and
the unlocked look at the list may give either answer. `Status` has a heap of
arrays that are freed and allocated again and a length byte modulo `ByteMod`.
`Timer` computes with words of `CountMod` values. `Context` describes each
platform by the order of its pushes and pops and the offsets that make_fcontext
writes to; the memory of a context is a function from offsets to words.

## Runs

| Run | Checks | Instance |
|---|---|---|
| `scheduler_safety` | a context on one thread, no wakeup lost or without reason, statuses and queue agree, responses match calls | an actor and a user thread, 2 workers, 2 messages, signals, interrupts, stops, yields |
| `scheduler_stop` | Stop returns, retires every service, drains the run queue; accepted messages are handled | 2 workers, under fairness |
| `scheduler_mailbox` | the scheduler implements the fair mailboxes | a user thread calls A, A calls B; one worker |
| `timer_wheel` | a timer fires in its tick, is never missed, cascades end, every timer fires | two timers, 4 + 4x2 lists, every phase of the clock, under fairness |
| `io_wait` | no readiness lost or stale; undisturbed reads succeed | an interrupted service with two sockets, an undisturbed one with one |
| `waiting` | readiness ends the wait for it; sleeps last and end, idle services are interrupted | two services with one socket each; one sleeping service, WakeupService, timers of one and two ticks; under fairness |
| `threads` | MPSCQueue follows the exchanges, does not touch popped nodes and counts exactly (`QueueIsConsistent`), is a FIFO queue and drains; no item is stranded in BlockingQueue; tasks of ThreadPool are in one place and run, Stop returns | see `Threads.cfg`; under fairness |
| `storage` | containers are sequences and a queue destroys what leaves it; objects, blocks and arrays have one owner; every jump arrives with its registers; messages say what was set and round-trip; the stopwatch is right | see `Storage.cfg` |
| `services` | order of starting and stopping, owners of descriptors, answers of calls; Start, Stop, WaitStop and calls return | 3 threads, 2 workers, 2 lives; 4 descriptors, 2 clients; one channel with 2 calls, 2 connections; under fairness |
| `rpc_shared_codec` | *violation*: the answer is one's own | two channels on two connections |
| `rpc_frame` | *violation*: the frame tells its length | a request of more than 255 bytes |
| `queue_front` | *violation*: Front is the oldest element | three blocks of one object each, as in QueueTest |

### What the runs show

The switch protocol is right: the wakeup signal and is_swaping_out together
lose and double nothing; that the CHECKs of SwitchTo and OnResume cannot fail
(`ResumeChecks`) is proved.
Messages to an actor are handled in order and once, and Stop ends as long as the
code of the services does. A descriptor always has one owner, whichever call
fails. A failed remote call never spoils the next one, because the channel drops its
connection.

The violation runs show two mistakes in the RPC layer and one in Queue:

- All connections of an RpcServer share one codec and its buffer. A connection that
  reads its body into the buffer overwrites the request that another one has received
  there and not yet parsed (between lines 21 and 22 of `RpcCodec.cpp`), and the
  server answers the wrong text (`rpc_shared_codec`). Calls that take turns get
  their own answers (`AnswerIsOwnInTurn`).
- `WriteMessage` writes the bits from 16 on where the readers take those from 8
  on, so that a message of 256 bytes or more is cut (`rpc_frame`).
- After the last object of a block was popped, `begin_` stands at the end of that
  block, and Front reads what lies behind it. That is the oldest element only if the
  next block of the queue was carved right behind (`queue_front`). QueueTest passes
  because MemCache carves fresh blocks one behind the other; after blocks were given
  back they come in any order.

### Where properties stop

Some properties hold only on the near side of a known weakness; the hazards in
`PROJECT.json` name the lines. (Several names below are parts of the property a
run checks: `StatusMatchesSchedule`, `PoolMakesProgress`, `WorkersEncloseServices`,
`LifeCycleCallsReturn`, `AcceptorMakesProgress`, `MemoryIsAccounted`.)

- `AcceptedIsHandled`: for calls without cycles and for messages to actors. Two
  handlers that call each other wait for ever, and a user thread never reads the
  messages SendMessage accepts for it.
- `StopRetiresAll`: `LaunchDuringStop = FALSE`. A LaunchService that has read
  `stopped` before Stop registers its service after the workers are gone.
- `FiresOnItsTick`: for all timeouts but kSection1Num - 1 ticks. Added between the
  fetch_add of a tick and the splice of its list, that one fires at once. The
  proof states this as its hypothesis `RaceFree`, which also leaves out a timeout of
  the whole span but one tick (out of reach of a uint32_t of milliseconds when a
  period has two of them or more; kPeriod is 10).
- DeleteTimer returns true for a timer whose callback still runs. `SleepsWhole`
  is therefore about services whose sleep was never interrupted before: after
  an interruption the late kSleep ends the next sleep.
- `SleepEnds`, `IdleIsInterrupted`: unless a sleep of less than half a period has
  locked its service and the timer thread.
- `WorkersBeforeServices`, `FirstStartReturns`: in the first life. A second Start
  finds the counter at its end value already, or past it for ever.
- `PoolStops`: unless a task waits for a queued one that no worker is left to run.
- `QueueIsSequence`: the block a queue keeps to its end is lost with it, since
  `~Queue` only clears. The property counts these blocks.
- `DestroysWhatLeaves`: Clear, and `~Queue` with it, runs `~T` to the end of the first
  block, which in an only block includes slots that were never constructed
  (`UnbegunSlots`; in an empty queue those are all it destroys), and it stops at
  `end_.pos` in every block, which behind a full last block is the begin of another one,
  whose objects are then never destroyed (`SkippedSlots`). Both are permitted, and
  nothing beyond them.
- `BuffersFit` (in `MemoryIsAccounted`): for alignments up to a word, the default. The
  bytes of a Buffer follow a `size_t`, so a larger alignment is lost.
- `ElapsedIsRight`: within a second, or for a frequency of 10^9.
- `RunningHasThread`: for services that never call Yield, which leaves its caller
  running and in no queue.
- `MemoryIsAccounted`: the end of a thread loses what its cache and its buffer
  held.

### Bounds

- Two workers are enough for every race in the switch: one thread leaves a
  context and another wants to enter it. A third only adds more of the same; the
  proofs cover any number.
- Two messages let one be handled while the other is queued, rejected or the
  subject of a nested call.
- The wheels have the shape of the real one (one near array, four coarse ones,
  sizes powers of two), 4 + 4x2 lists for 64 ticks; the timeouts lie on, just
  below and just above the edges of the arrays. The clock goes through its whole
  span, so every cascade and the wrap-around occur. With kPeriod = 1 the rounding
  to ticks is exact; a timeout of zero stands for those below half a period.
- Three sockets let a service move between two of them while the epoll thread
  still holds an event of the first.
- Three producers let two pushes be cut while a third completes behind them; four
  nodes let memory be reused while they are.
- Two consumers and two items let one be woken, be interrupted and leave its item
  to the other. Two workers and a task with a child let the child lie in the queue of
  the worker that waits for it.
- One sleeping service meets every order of its timers, signals and stops with the
  timer thread and WakeupService; services do not affect each other here, except
  through the thread that a zero sleep stops. `MaxArmed` bounds abandoned timers.
- Three blocks, each behind another but the first, and in any order in the map, let a
  block in the middle lie behind the last one, and let one be free or lost while two are
  in use.
- Two lives of a system show what a Start finds that the Stop before it left.
- Four descriptors run out with a listener, a connection and two clients.
- Words, bytes and decimals are small (`SizeMod`, `CountMod`, `ByteMod`,
  `MhzDigits`), so that they wrap within a few steps. The length of a protobuf string
  goes over 127, where it takes a second byte.
- Deadlock is not checked where the system may come to rest: after Stop, or when
  nothing is sent any more.

### Fairness

- Scheduler: weak fairness of each worker's library steps (the operating system
  runs every thread), of the steps inside Stop and LaunchService (their callers go
  on), and strong fairness of the return of each handler and Main (user code
  returns after finitely many calls; other services' steps may disable it in
  between). Nothing is assumed of senders, signals or interrupts.
- TimerService: weak fairness of the wheel's thread: time passes, callbacks return.
- IOService: weak fairness of the epoll thread and of each service inside a read,
  the latter being what Scheduler's `NoLostWakeup` and fairness give.
- MPSCQueue: weak fairness of a push that has begun and of the consumer, which is
  assumed to keep popping.
- BlockingQueue and ThreadPool: threads run, get a mutex they keep asking for, and
  tasks return once what they wait for is done.
- SleepService and WakeupService: ticks come, the timer thread calls back, and
  workers resume what is ready.
- LifeCycle: weak fairness of Start and of the workers, strong fairness of Stop and
  WaitStop, which compete for the mutex. TcpServer: of the acceptor. Rpc: of each
  client, each connection and InternalRpcService. Nobody has to call anything, and
  nothing has to fail.

## Proofs

`Scheduler_proofs` proves, for any sets of services, workers and messages:
`TypeOK`, `OneThreadPerService`, `ResumeChecks`, `NoLostWakeup`,
`ReadyIsScheduled` and `RunningHasThread` (together `StatusMatchesSchedule`) and
`NoSpuriousWakeup`. None of these is
inductive by itself: whether a second thread can enter a context depends on who
may queue it, and that on what the leaving thread still has to do. `TypeInv`
strengthens TypeOK by `NamesInv` (a thread that schedules or runs is in a real
service). `SchedInv` says who owns a context at each step of a switch: what holds
at each `pc` of a thread, that `current` and `prev` are disjoint between threads,
that the run queue holds ready services of no thread once each, where a service of
each status is, that a blocked service without a pending signal has been sent
nothing it waits for, and that a signal or a resumption has an event of the mask
as its reason. There is one lemma per operation (`WakeupSched`, `BlockSched`,
`SwitchSched`, ...) and one per class of steps.

`IOService_proofs` proves `NoLostReadiness` and `NoStaleReadiness` for any
services and sockets, no socket shared by two services. `IOInv` adds `OwnInv`
(an entry, an event and a service's descriptor always belong to the same service)
and `StopInv` (a stop is latched before anyone blocks on it): the removal of a
foreign descriptor is harmless only because the thread then still holds an event
for the very service it took the entry from.

`IOInv` has a second half for services that nobody interrupts: `UninterruptedReads`
needs `QuietInv`, which ties their entry in epoll, their latched event and the event
in the thread's hand to the one wait they are in (`EndInv`, `EntryInv`, `HandInv`).

`SchedulerMail_proofs` builds on `SchedInv`. `CallsInv` says that a message is in
one place, that a service in CallMethod has an unanswered call or kResponse latched
and not both, and that only the closure of its own call can latch it; this gives
`ResponseMatchesCall`. With `LifeInv` (a service is in the main function of its kind
and dies stopping with an empty queue) every step is a step of the actors of
`ActorMailbox` or none: `Spec => ImplementsMailbox`, the mailbox without its fairness,
under `ActorsAreCalled` (messages go to message-driven services). `StopRetiresAll`
is proved under `OrderlyUse`: at least one worker, no launch beside Stop, nobody
yields, actors are called, and calls are well-founded (`CallsEnd`). `BlockInv` says
that whoever is blocked waits for kServiceStop or in a call, `SwapInv` that
a switch under way has its thread; so when the last idle worker leaves, a service
that had not ended would wait for a call to another one that has not ended either,
and so on without end. Where `OrderlyUse` fails the property does: *Where properties
stop*. The run `scheduler_stop` satisfies it.

`TimerService_proofs` proves, for arrays and periods of any size, the types of the
wheel, that a timer fires in its tick (`FiresOnItsTick`) and that none is passed
over (`NeverMissed`, with `SlotWhileArmed` and `CascadeDescends` in it), the last two under `RaceFree`.
`PlacedInv` says for each list which due times it may hold, relative to the tick whose
Update has not spliced yet and to how far that Update has sorted the arrays down:
a list of an array holds what is due within that array's next round,
and in the very list its digit names. It rests on lemmas about quotients and remainders
(`DivMod` and those after it), since indices are digits of a time.
`ClockInv` ties `cur_time` to the Update in progress and `BoundInv` bounds how far
ahead a timer is.

`Threads_proofs` proves of `MPSCQueue`, for any number of producers, nodes and
values, that the queue refines `FifoQueue`, that the list follows the exchanges, that no push
writes to a popped node and that `size_` counts (together `QueueIsConsistent`), and
that `size_` never wraps below zero (`SizeFitsUnsigned`). `QueueInv` adds to the
shape of the list who owns each
node (`OwnInv`: unmade, with a producer, in the list, with the consumer, popped),
which link each producer owes (`LinkInv`: one each, and still null), and what a pop
in progress holds (`PopInv`). A node whose link is owed has a null `next`, Pop
follows only links that are there, and so never leaves a node that will be written
to. The exchange is the abstract push and PopMove the abstract pop; every other step
leaves the values behind the stub alone. `size_` is counted up before the exchange
and down after the move, so it is never less than the length of the list.

It also proves `NoItemStranded` for any consumers (the key is
`ShortInv`: beside a sleeping consumer there is at most one item, because a push
wakes one consumer for the first item and all of them for a second) and `TaskInOnePlace`
for any workers, tasks and both policies (`PoolInv`: queues and hands hold exactly
the submitted and the running tasks, once each).

`Services_proofs` proves `FdsHaveOneOwner` (`TcpInv`: who holds a descriptor at each
step, failing ones included, pairwise different and open, and nothing else open),
`WorkersEncloseServices` (`LifeInv`: who is inside mutex_, what Start and Stop find
there, and what worker_init_num_ counts in the first life) and, for the composition
of sleepers with WakeupService, `SleepsWhole` (`TimerInv`: a service that was never
disturbed has one timer at most, that of the sleep it is in).

`Storage_proofs` proves `StatusSaysWhatWasMeant` for any variables and addresses
(`StatusInv`: an array has one owner and holds what that owner was given), and
`MemoryIsAccounted` for any threads, sizes of caches and buffers, and sizes of types.
`CacheInv` says that users' hands, threads that put back, caches and listed caches
have no object in common and none twice (`ApartInv`), that no two threads
carve one buffer and what it has not handed out is nowhere (`BufferInv`,
`CarvedInv`), and what a thread between two of its critical sections can rely on: it
looks elsewhere only with its own cache empty, and spills only a full one
(`StageInv`, `FullInv`). The alignments are those that divide a word, taken case by
case.

It also proves the containers, for every word size, capacity and length. A position
is reduced to a slot modulo the capacity after it was reduced modulo the word, which
is harmless only because the one divides the other: capacities and the word are powers
of two (`PowersOfTwo`, by their divisors, since exponentiation is opaque to the
provers), and a smaller power of two divides a larger one. The invariant `RingHolds`
then says which slot holds which element, for growth, for the wrap-around of
the positions and for Clear (`RingIsSequence`). `QueueInv` puts the elements of
`BlockQueue` into rows of `PerBlock` slots from `begin_` on; that the number of slots
in front of one is its place in the sequence is counted row by row
(`QueueIsSequence`). Of slots that are not in use it says nothing, so it does not
matter what `~T` leaves there. From the same invariant follows, operation by operation,
which slots leave the queue and which ones `~T` ran on (`DestroysWhatLeaves`): Push
none, Pop the first one in either of its two cases, Clear the rest, where the first
block is full unless it is the only one.

The stopwatch (`ElapsedIsRight`): the frequency is read by a recursion over the digits
of a line, which has one solution by the least-number principle; digits behind digits
continue a number and zeros multiply it by a power of ten, so compensating for
missing decimals gives Hz (`ReadsHz`). `StopwatchInv` says that the counter is as far
from Start as time has passed, modulo the word.

The jumps of libcontext (`JumpsArrive`): one lemma per platform shows that its pops
reverse its pushes and that make_fcontext writes where the first pops read (`JumpFits`,
`MakeFits`); from there the argument is the same for all. `ContextInv` says that a fresh
stack is as it was made and that the stack of a context that has jumped away holds its
registers where they will be popped (`FrameHolds`).

`Rpc_proofs` proves `MessageSaysWhatWasSet` and `RoundTrips` for payloads of any
bytes, and `AnswerIsOwnInTurn` for any clients, connections, calls and texts and
wherever reads and writes are cut.
- `Fields` is a recursive function on the bytes of an input. Each field read leaves a
  shorter input, so the least-number principle gives the function its one solution
  (`FieldsIs`). What `Serialize` writes is read back field by field; an input that lacks
  the last bytes of a required field is refused (`LacksFails`).
- `MessageInv` says of each message which fields were put into it, that the strings of
  the others are empty, and that its unknown bytes are those of a field of a later
  version or none.
- `RpcInv` places both ends of a connection in two streams of bytes, those of the
  request and of its answer: what the client has sent and received, what the
  service has (`Joined`). One service at a time is between its first byte and its
  last in `buffer_` (`InTurn`); when another one joins, `overlapped` is set and
  nothing more is claimed. A message of 256 bytes or more is announced too short
  (run `rpc_frame`), so what arrives lacks its end, is refused, and the call fails
  instead of bringing back a wrong text.

The assumptions are those of the modules on their constants: the roles are sets
of services; `Idle`, `None`, `Nobody`, `NoTask`, `NoFd`, `NoCaller`, `NoCache` and `Null` are not
members of the sets they stand outside of; `Uses` gives services
disjoint sets of sockets; the stub is a node; producers and tasks are
finitely many; the arrays of the wheel have two lists at least and a request fits its
span; a sleep's ticks fit the bound on timers; caches and
buffers hold an object at least and types have a size. Of the containers
(`RingAssumption`, `QueueAssumption`): a word has a number of bits and so a power of two
of values, what is kept in memory leaves room in a word to double its capacity, and a
slot without an object is told from one with. Of the messages: strings are bytes and the
default string is none of them, being an object of its own (`DefaultStringAssumption`);
payloads and texts fit the three bytes of the modelled varint (`PayloadAssumption`,
`TextAssumption`), since WriteMessage aborts on 0xFFFF bytes (`CHECK_LT`); no connection
is `NoConn` (`RpcAssumption`). A line of cpuinfo is decimal digits, six behind the point
at most (`PerSecondAssumption`); the thread's own context is one of the contexts
(`ContextsAssumption`). TLC evaluates all of them.

Only model-checked is all liveness (it needs fairness and ENABLED): `StopReturns`,
`AcceptedIsHandled`, `TimerFires`, `ReadinessIsDelivered`, `PushedIsPopped`,
`PoolMakesProgress`, `SleepEnds`, `IdleIsInterrupted`, `LifeCycleCallsReturn`,
`AcceptorMakesProgress`, `CallReturns`, and the fairness in `ImplementsFairMailbox`.

## Not modelled

- `SendStringMessage` (a SendMessage without a closure) and OnServiceStart.
- Sockets shared by two services, and descriptor numbers reused after close.
- Two threads that delete one timer at the same time (both would erase its
  position), a queue node that is pushed again without being made anew, the postfix
  increment of the iterators of CircularBuffer (it decrements; nobody uses it), and a
  TcpServer::Stop from another thread during Start.
- The composition of the parts with each other beyond what is named above: Rpc takes
  from Scheduler and IOService that a service waiting for a socket resumes when there
  is something to read or when it is stopped, SleepService takes its timers from
  TimerService as ticks that are left.
- Weak memory: atomics are sequentially consistent in all modules.
- The destruction of MemCache at exit, and descriptors, registration and
  arenas of the generated code.
- Logging, DateTime, Closure and the translation of addresses and errno: formatting
  and calls of the system. valgrind.h: macros without effect outside of valgrind.
