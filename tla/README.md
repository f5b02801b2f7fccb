# Verification of c-co

TLA+ models, TLC runs and TLAPS proofs for the coroutine network library in
this repository. Paths below are those of the repository.

## The system

| Part | State | Operations | Talks to |
|---|---|---|---|
| thread pool, `src/thrdpool.cc` | FIFO of tasks, mutex, condition variable, `running_`, worker threads | `execute`, `worker_loop`, destructor | runs what `co_excutor::execute` submits |
| epoll backend, `src/excutor_epoll.cc` | per instance: epoll descriptor, context pool; shared: `running_`, loop threads | `async_io`, `event_loop`, `stop` | called by awaitables, calls back into coroutines |
| io_uring backend, `src/excutor_iouring.cc` | per instance: ring, submission mutex, context pool | the same | the same |
| runtime, `include/co_excutor.h`, `src/co_excutor.cc` | the executor singleton, `detached_registry`, signal handlers, three function-local statics | `detach`, `sync_wait`, `submit`, `shutdown`, exit | pool, backend, frames |
| awaitables, `src/async.cc` | buffer, offset, result | `co_read`, `co_read_until`, `co_write`, `co_accept`, `co_connect` | try the system call inline, then `async_io` |
| coroutine task, `include/task.h` | frame, continuation, exception, `self_destroy_` | `co_await`, final suspension, move, destroy | the runtime detaches it |
| `FileDescriptor`, log, samples | shared count; level; - | close on last copy; print; echo, http | |

A program submits a coroutine with `detach` or `sync_wait`; a pool worker
resumes it for the first time. When an operation would block, the awaitable
hands a callback to the backend and the coroutine suspends. The event loop of
instance `fd % N` performs the operation and runs the callback, which resumes
the coroutine on the event loop thread. `shutdown`, called from a signal handler,
stops the loops and destroys the frames of the registry.

What makes this code hard: one queue and one flag between workers and the
destructor; callbacks that re-enter the backend on the stack of the thread
that invoked them; a registration that may fire on another thread before
`async_io` has returned; the two ways out of `async_io` that never register;
one `running_` flag that five kinds of thread read without a lock; frames whose
owner changes from pool to backend to registry. `PROJECT.json` lists each of
them under "hazards", at its line, with the properties that cover it.

What makes each part correct:

- pool: a task runs exactly once, in order, and never waits while a worker is
  idle; destruction ends and leaves no task behind;
- backends: one resumption per wait, on readiness or refusal only; no wakeup
  lost; contexts neither shared nor leaked; quiet once stopped;
- runtime: a frame is destroyed once, and never while it runs or can still run;
- awaitables: the bytes and counts a coroutine sees are those of the stream;
- task: a frame has one owner, its continuation runs after it, once;
- all of them together: every connection is accepted and served to its end, and
  the way out of the process ends.

## Modules

| Module | Role |
|---|---|
| `TaskExecutor` | what a pool promises: each task started once, in order, on at most `Width` threads, and finished |
| `ThreadPool`, `MCThreadPool` | the pool, and its instances for TLC |
| `ThreadPoolProofs` | theorems about `ThreadPool`, and that it implements `TaskExecutor` |
| `QueueLemmas` | what a push, a pop and an emptied slot do to a queue |
| `AsyncIO` | what a backend promises a suspended coroutine |
| `EpollExecutor`, `MCEpollExecutor` | the epoll backend, and its instances for TLC |
| `EpollProofs` | theorems about `EpollExecutor` |
| `EpollRefinement` | theorems about it when no descriptor is shared: no leak, and that it implements `AsyncIO` |
| `UringExecutor`, `MCUringExecutor` | the io_uring backend, and its instances for TLC |
| `UringProofs` | theorems about `UringExecutor` |
| `UringRefinement` | that it implements `AsyncIO` |
| `StreamIO`, `MCStreamIO` | the awaitables at the two ends of a connection, and its instances for TLC |
| `StreamProofs` | theorems about `StreamIO` |
| `CoTask` | `task<T>`: frames, continuations, self-destruction |
| `Runtime`, `MCRuntime` | a server process from `main()` to its exit, over `CoTask`, and its instance for TLC |
| `RuntimeProofs` | theorems about `Runtime` |

`ThreadPool` implements `TaskExecutor`; both backends implement `AsyncIO`, by
the refinement mappings at the end of their modules. `Runtime` and `StreamIO`
use those promises in place of the components: in `Runtime` the pool is a FIFO
that starts each task once, and the backend resumes a waiting coroutine once, on
a loop thread, when its descriptor is ready. Each module has a section
of faulty variants: definitions changed the way a bug would change them, each
of which makes one property fail, so that no property holds for want of
something that could break it.

### ThreadPool

One action per step another thread can observe. A critical section is one step,
with one exception: `running_` is written without the mutex, so `Idle` (the
predicate of the wait is false) and `Park` (the thread sleeps, releasing the
mutex) are two, and `mutex` is only ever held between those. `DrainTest`,
`DrainMove` and `DrainPop` are the three unlocked accesses of the last loop;
two workers that move the front slot at the same time race, so `DrainMove` may
leave the slot full. `NotifyOne` comes after the unlock, and `SpuriousWake` may
come at any time. `pushed` and `runs` are history. Clients stop submitting
before the destructor begins, as C++ requires; running tasks may still submit.

### EpollExecutor

`reg` is what epoll holds for each descriptor: nothing, a context, or a
registration disarmed by its one shot. `Mod` and `Add` are the two `epoll_ctl`
calls of `async_io`, `Enter` is the test of `running_` and `Poll` the `epoll_wait`
after it, with its array of `MaxEvents`: a loop that has entered it may still take
a batch after `stop()`, and serves it without the callbacks (`Skip`).
`Dispatch` is `do_io` and the callback. A callback runs on the stack of its
thread until the coroutine suspends again, and only then is its context
released: `unwind[t]` is the stack of those pending releases, `host[c]` the
thread a coroutine runs on, `Return` the release. When both `epoll_ctl` calls
fail the coroutine is resumed inside its own `async_io`, so the stack grows.

A direction (read or write) is not distinguished: a descriptor is ready or
not. That is what the registration does too, since every MOD replaces the whole
registration. The static instance is taken as constructed. `Arrive` is an edge:
data, room, or a connection.

A coroutine is resumed on the event loop thread that completed its operation
and runs there until it suspends again, although `readme.md:12` says that
coroutines are resumed in the thread pool. The models follow the code.

### UringExecutor

`sq`, `flight` and `cq` are the three places of a request: submitted, with the
kernel, completed. `Lock` to `Submit` or `Full` is the critical section of
`async_io`; the unlock comes when `async_io` returns, so `unwind[t]` holds
mutexes to unlock as well as contexts to release, and `Return` does both.
`Full` is the path where `io_uring_get_sqe` fails twice: with SQPOLL,
`io_uring_submit` waits for nobody and makes no room itself. `Fetch` is the
SQPOLL thread, `Complete` the operation. The loop over completions reads the
tail of the ring at each turn, which is why `Advance` needs an empty `cq`.
`Enter` and `WaitCqe` are two steps as in the epoll loop.
Nothing in `stop()` cancels what is in `flight`: no callback runs any more
(`StopQuiesces`), but the kernel may still write into the buffer of a frame that
`destroy_all` frees afterwards.

### AsyncIO and the refinements

`state`, `wants` and `ready` say what each coroutine does and which descriptors
are ready. epoll performs the operation when it resumes (`Perform` inside
`Resume`); io_uring performs it ahead, which `served` remembers (`Serve`), and
drops it if the backend stops in between (`Drop`). Fairness of `Resume` in the
abstract specification is the promise that no wakeup is lost while the backend
runs.

### StreamIO

First the two ends get a connection. `Connect` is the attempt in `await_suspend`
of `co_connect`, which may connect at once, without suspending; `Register(e)` is
the call of `async_io` that follows the attempt of either end, so that the
handshake (`Handshake`) may end, or fail, before the backend learns of the
descriptor; `ConnectCallback` is the completion. `AcceptReady` and
`AcceptCallback` are `co_accept`. With io_uring the callback
has the result of a second `connect()` on a socket that `await_suspend` has
already connected or is connecting, so with `MayRefuse` it may report an error
although the handshake goes on, or is complete and accepted. An end that is told of an error drops
its descriptor (`GivesUp`), as `Close` does; the other may be waiting in an
operation by then, which has to end (`AbandonedEnds`).

Then each end has at most one awaitable, in phases `ready` (inside
`await_ready`), `armed` (a callback is with the backend) and `done` (resumed).
One action is one system call and what the awaitable does with its result.
Bytes are numbered in the order they are written, so that a byte lost, repeated
or misplaced shows. `Recv` and `Send` give every count that the sockets allow:
short reads, short writes, end of stream, reset. `Completion` is what a backend
may pass to a callback, with `MayRefuse` also an error of `epoll_ctl` or an
EAGAIN.

`program` is what the coroutines do with it: any operation at any time, closing
after an error (`any`), or the programs of `test/echo_client_buf.cc` and
`test/echo_server.cc` (`echo`): the client writes a whole message before it reads
it back, the server writes back each vector it has read.

### CoTask and Runtime

A job is a coroutine with the wrapper that `sync_wait()` or `detach()` puts
around it. `frame` is the life of each frame: `suspended`, `running`, `final`
(at its final suspension), `unhooked` (`on_destroy_` has been called),
`destroyed`. `on[t]` is the frame that a thread executes; `AwaitTask` and `Finish`
are the symmetric transfers, so that `on` changes without the thread
returning to its loop. To resume a coroutine that is not suspended, or to
destroy one that runs or is gone, is undefined in C++: there the model stops
with `fault`.

`Runtime` is `test/echo_server.cc`: `main()` calls `sync_wait()` on the accept
loop, which calls `detach()` for each connection. `srv` is the program counter
of the accept loop, because `detach()` is four steps between which others run:
the frames, the registry, the queue, and the end of the scope that holds the
other copy of the connection. A handler (`handle_client`, whose place is
`handler[c]`) reads, writes back what it has read, in an operation that may block too
when the buffer of the socket is full, and leaves at the end of the stream or at an error
of either. `RunTask` is a worker, `AcceptCallback` and `HandlerCallback` the event
loops. `RegistryRemove` and `WrapperGone` are the two halves of the final suspension of
a detached wrapper.

`sync_wait()` is split where a signal can find it: `SyncWait` creates the frames,
`FirstInstance` constructs the singleton, after its constructor has
installed the handler, and `Execute` is two steps, between which `main()` holds the
mutex of the queue. `MainStep` is the rest of `main()`. A coroutine
that throws makes `future.get()` throw in `main()`, which does not catch it: the process
terminates (`mpc = "thrown"`), and nothing is said of what comes after. A wrapper that
ended without setting its promise would break it (`PromiseGone`).

Otherwise the process ends in one of two ways: a signal, at any point after
`sync_wait()` has begun to construct the singleton, whose handler runs `shutdown()` and `exit()` on the
thread it interrupts, or the return of `main()`. `ethread` is the thread that
does it, and it does nothing else from then on. `epc` follows it through the log,
`stop()` and its joins, `destroy_all()` one handle at a time (`DestroyOne`), and
the destructors of the static objects in the reverse order of their
construction (`born`), which depends on who used what first (`Touch`): each
is begun (`ExitBegins`) and returns (`RegistryDies`, `BackendDies`, `PoolDies`),
and a static that is constructed while one of them runs is the next to go, until
none is left (`ProcessEnds`).
`UseOfDeadStatic` is a thread that comes too late.

`~co_excutor` destroys the pool, and that destructor may hang, as the run
`pool_lost_wakeup` shows: when it begins on an empty queue, `ExitBegins` lets one
worker miss the notification (`parked`), and `PoolDies` waits for it
for ever, unless a task submitted by a late accept loop wakes it up. (A spurious
wakeup of that worker is the same as its not being parked.) One is enough,
since a worker keeps the mutex from its predicate to its sleep. `PoolDies` also needs the
mutex, which `main()` may have been interrupted with. What the drain loops
lose when two workers race in them is in `ThreadPool` only.

The messages of the sample programs go through the log, whose mutex the handler
needs too; `mpc = "logging"` is `main()` inside it, `"construct"` and `"locked"` are
`main()` inside the construction of the singleton and inside `execute()`.

`task.h:17` says that `on_destroy_` is set by `detach()` and `sync_wait()`;
`sync_wait()` does not set it, and does not need it, as its wrapper is in no
registry.

## Runs

| Run | Instance | Shows |
|---|---|---|
| `pool_dtor` | 2 workers, 1 client, 3 tasks, destructor | no lost notification, no stranded task; the destructor ends and runs everything, but for the two races below |
| `pool_service` | 2 workers, 1 client, 3 tasks | the pool implements `TaskExecutor`, liveness included |
| `pool_lost_wakeup` | 1 worker, 1 task | finding: the destructor hangs |
| `epoll_safety` | 2 coroutines, 3 descriptors, 2 instances, 4 contexts; one descriptor refused, one instance that may be dead | contexts exclusive and never lost, single resumption, quiet after `stop`, `AsyncIO` without its liveness |
| `epoll_async` | 2 coroutines, 1 instance | implements `AsyncIO` with liveness; `stop` returns |
| `uring_safety` | 2 coroutines sharing a descriptor, 2 rings of one entry, 4 contexts; failing operations, a loop that may give up | the same, one request per wait, exclusive submission, on the full queue path too |
| `uring_async` | 2 coroutines, 1 ring of 2 entries, 3 contexts | implements `AsyncIO` with liveness; `stop` returns |
| `uring_self_deadlock` | 2 coroutines, 1 ring of one entry | finding: a coroutine called back with ENOMEM waits for a mutex of its own thread |
| `stream_exact` | both programs, vectors of 1 and 3 and 4 bytes per end, or messages of 1 and 5; buffers of 2 | every byte once, in order, in its place; nothing stops short while the peer lives; both ends learn what became of the connection, whenever the handshake ends; nobody waits for a peer whose connect or accept failed; an echo that fits completes |
| `stream_eof` | one writer, one `co_read_until` | finding: bytes read before the end of the stream are reported as 0 |
| `runtime_exit` | 1 worker, 1 loop, 2 connections, system calls that may fail, a server that may throw, a signal to `main()` or to the loop | one resumption per coroutine, exact registry, connections accepted and served to the end, `sync_wait` passes on what became of the coroutine, the handler gets to the end of the process or to one of six deadlocks, a clean way out unless it meets a coroutine it does not wait for |
| `runtime_frames` | the same, a signal to `main()` | finding: `shutdown()` destroys a frame that a worker runs or has queued |

Deadlock is checked by `pool_service` only: elsewhere the system may stop,
because the pool is destroyed, no peer sends, the backend is stopped, or the
process has exited.

The findings are runs that are expected to fail; `PROJECT.json` quotes the line
of the repository that each contradicts.

Three properties hold with an exception they name, and without it they do not.
`AllRunUnlessRacing` excepts two workers in the drain loops of `thrdpool.cc:39` at once,
which lose a task or run it twice, as test, move and pop have no mutex.
`DtorCompletesUnlessParking` excepts the lost wakeup. `ShutdownClean` excepts
`Unquiet`: pool work left while `destroy_all()` or the destructors of the
statics run, or a return of `main()` that leaves coroutines in a backend
nobody has stopped; then frames and statics are used after their end. Unless that
happens, the handler, the loops and the registry leave nothing behind.

The handler of the signal does not always return. `HandlerEnds` says that it gets
to the end of the process, whatever the other threads are doing, or stops in one of the six
deadlocks that `Stuck` lists: at the lock of the log, which `main()` was interrupted
with; at the initialisation of `instance()`, which it was interrupted in; at the join of
the loop it has interrupted; and in `~thrdpool`, at the join of the worker it
has interrupted, of one that needs the mutex `main()` was interrupted with, or of one that has
missed its notification. All but the last need the signal at one place of one
thread; each is what the code does, and the run reaches
each but the interrupted worker, as `SigThreads` has `main()` and the loop. Excepted
are the cases in which the process ends otherwise: an exception that leaves
`main()`, or a frame or static used after its end.
The kernel gives a signal of the process to any thread that does not
block it, to its main thread if that one can take it. Of the locks that an interrupted
worker or loop may hold (the log, the queue, the context pool) the model has none: an
interrupted loop stops at its own join anyway, and of workers the run has no signal.
A second way out begun while one is under way (another signal on top of the
handler, or `main()` returning beside a handler on another thread) is left out.

Two more contradictions need no run.
`stop()` called while another thread is inside it returns at once, before the
loops are joined, so "no more callbacks will fire" (`src/co_excutor.cc:13`)
holds for its first caller only; the models that check `StopQuiesces` have one.
The other is the thread a coroutine is resumed on, above.

### Bounds, and why they are enough

- Two workers and three tasks: a worker that sleeps, one on its way, and a task
  queued behind the one that submits it. The theorems remove this bound.
- Two coroutines and two instances: a race needs a second coroutine on an
  instance, a release into the wrong pool needs a second instance. Four
  contexts let the inline error path nest and a freed context be taken again;
  `Ctxs` bounds the heap, so an operation that finds no context stops there
  (in the runs with liveness there are enough for it never to happen). The
  theorems hold for every value of these.
- `MaxEvents = 1` is below the number of ready descriptors, `Entries = 1` below
  the number of submitters, `Cap = 2` below the size of a vector and below
  what is written: the full array, the full queue and the short read and write
  occur.
- `MaxBytes = 4` is one full vector and the beginning of the next. The messages
  of the echo are 1 and 5, that is `2 * Cap + 1`: the buffers of both
  directions and the one byte that the server holds when it blocks. With one
  byte more both ends block in `co_write` and `EchoCompletes` fails.
- One worker, one loop and two connections: the worker and the loop each run the
  accept loop and a handler at some time, and so race with each other and with
  `main()`; two connections allow one in the registry while the other is accepted. The
  second adds no sends, since one message is enough for a handler to block
  in a read before and after it, and in the write between them (the buffer of the
  socket may be full after any write). Only the server coroutine throws: the exception
  of a detached one is swallowed by its wrapper, as the end of a handler is. The theorems about `Runtime` hold for every number of each.

### Fairness

Weak fairness of every thread of the library, in the granularity of its
functions: an operating system schedules them all, and nothing in the code
spins or gives up. A task returns and a coroutine that runs suspends or ends,
as any user of an executor must. The kernel fetches and completes requests it
can complete. `Lock` has strong fairness, since other threads lock and unlock
the same mutex for ever; without it a `std::mutex` promises a waiter nothing.
No client must submit, no peer must send, nobody must call `stop` or the
destructor.

`StreamIO` has the fairness that `AsyncIO` promises: the callback of an
operation whose system call would not block comes in the end (`Possible`); a
refusal need not come. What follows an attempt to connect or accept is done: the
registration, the handshake, the callback (`Links`). Coroutines go on only where
they are the echo programs. In `Runtime` every thread keeps running, the handler included; peers,
signals and exceptions are not fair.

## Proofs

For every number of workers, tasks, instances, rings, coroutines, descriptors,
contexts, loops and connections, and every size of buffers, vectors, messages
and queues, from `PoolAssumption`, `EpollAssumption`, `UringAssumption`,
`StreamAssumption` and `RuntimeAssumption` (TLC evaluates them in every run),
and where the table says so one more hypothesis:

| Theorem | States |
|---|---|
| `ThreadPoolProofs!TypeCorrect` | `TypeOK` |
| `ThreadPoolProofs!NeverStranded` | `NoStrandedTask`: with whatever the destructor does |
| `ThreadPoolProofs!NoIdleWorker` | `WorkConserving` |
| `ThreadPoolProofs!DestructorDrains` | `AllRunUnlessRacing` |
| `ThreadPoolProofs!ImplementsExecutor` | `ServiceSpec` implements `TaskExecutor!Spec`, that is `ExecutorSpec` without its fairness |
| `EpollProofs!TypeCorrect` | `TypeOK` |
| `EpollProofs!ContextsExclusive` | `NoDoubleUse` |
| `EpollProofs!ResumedOnce` | `SingleResume`, shared descriptors and refusals included |
| `EpollProofs!QuietAfterStop` | `StopQuiesces`, when one thread calls `stop` |
| `EpollRefinement!NothingLeaks` | `NoLeak`, when no two coroutines use a descriptor (`Apart`) |
| `EpollRefinement!ImplementsAsyncIO` | `AsyncSafety`, when `Apart` |
| `UringProofs!TypeCorrect` | `TypeOK` |
| `UringProofs!ContextsExclusive` | `NoDoubleUse`, shared descriptors included |
| `UringProofs!NothingLeaks` | `NoLeak`, shared descriptors included |
| `UringProofs!RequestedOnce` | `OneRequest` |
| `UringProofs!SubmissionExclusive` | `SubmitsAlone` |
| `UringProofs!QuietAfterStop` | `StopQuiesces`, when one thread calls `stop` |
| `UringRefinement!ImplementsAsyncIO` | `AsyncSafety`, when there are finitely many coroutines |
| `UringRefinement!RoomPreventsSelfDeadlock` | `NoSelfDeadlock`, when no submission queue is smaller than the (finite) number of coroutines that use it |
| `StreamProofs!TypeCorrect` | `TypeOK` |
| `StreamProofs!ReadsExact` | `ReadExact` |
| `StreamProofs!BytesConserved` | `Conserved` |
| `StreamProofs!NeverShort` | `ShortOnlyAtEof` |
| `StreamProofs!NothingMadeUp` | no end has more than the other has offered, after errors and closes too |
| `RuntimeProofs!TypeCorrect` | `TypeOK` |
| `RuntimeProofs!ResumedOnce` | `OneResumption` |
| `RuntimeProofs!RegistryIsExact` | `RegistryExact` |
| `RuntimeProofs!ShutdownIsClean` | `ShutdownClean` |

The pool. `WorkConserving` is a counting invariant: a push adds one task and one
notification, `notify_one` trades a notification for an awake worker, `Take`
trades a task for one. `Idle` is what needs the mutex: it requires an empty
queue, and `Park` must find it still empty, which holds because no push fits in
between. The inductive invariant `IInv` therefore adds to the type and the two
properties `PhaseInv` (what the phase of the destructor says about queue,
workers and clients) and `ParkInv` (the mutex is held between two steps exactly
by a worker about to sleep, and the queue is then empty). Each part is
preserved given those before it; `TopCount` does the counting.
`NeverStranded` needs none: it follows the last awake worker.

`DestructorDrains` is about a property that fails once two workers have raced,
so its invariant `DInv` holds as long as they have not: a task is in the queue, in
the hand of one worker, or was run once (`OnceInv`), and an empty slot is at the
front, where the one worker that emptied it will pop it (`DrainInv`). Temporal
reasoning turns "`DInv` until `Racing`" into the property. In service nobody
races, so `DInv` also gives the refinement: `Push`, `Take` and `Finish` are the
steps of `TaskExecutor`, the others change nothing it shows, and a worker outside
a task leaves room for one (`RoomLeft`).

The epoll backend. `NoDoubleUse` is not inductive: that nobody else refers to the
context popped from a free list depends on what every context in use refers
to. `IInv` adds that a context with a callback belongs to the pool of its
descriptor and a free one has no callback (`PoolInv`); that what `async_io`,
epoll or a loop refers to is about the operation its coroutine is in
(`HeldInv`, `ArmedInv`, `BatchInv`), once per coroutine (`UniqueInv`); and that
a context whose callback is on a stack is there once and nowhere else
(`StackInv`, `StackOnce`). There is one lemma per action. `PlaceKinds` and
`PlaceFacts` then read `NoDoubleUse` off the invariant. `QuietAfterStop` needs that a loop that has
exited has no callback on its stack and that `stop` has seen every loop exit. It
is false for a second caller, who may return while the first is joining.

A context whose registration is replaced by another coroutine's `EPOLL_CTL_MOD`,
or removed by its `close()`, is never called back nor released. That is what the code
does when two coroutines share a descriptor, so `NoLeak` and the refinement have
the hypothesis `Apart`, as the runs that check them do. `OwnInv` says what it gives:
a context is kept in some place, what epoll has reported stays true until it
is served, and (`RegInv`) nobody registers a descriptor between the MOD that
failed and the ADD. So `Dispatch` is `Resume` on a ready descriptor, and
`Reject` only happens where epoll may refuse.

The io_uring backend. Along the same lines, with the submission queue, the
kernel and the completion queue as three more places, which exclude one another
(`RingInv`). A request cannot be replaced, so a shared descriptor does no harm
and nothing is ever lost (`KeptInv`, `WaitInv`). The unlock of a submission comes when
`async_io` returns, by which time its coroutine may run elsewhere: `MutexInv`
says that the owner of a mutex is the thread of the one call that submits or has
its unlock pending on its stack. The refinement maps `Complete` to
`Serve`, and `Dispatch` to `Resume` of a served coroutine or to `Reject`. That
`Full` is a permitted `Reject` is a counting argument: a queue is full of requests of different
coroutines (`UniqueInv`), none of them the caller's, so more coroutines
than `Entries` use the instance (`FullOverloads`). Counting them is where
their number must be finite.

The run `uring_self_deadlock` shows that a refused coroutine may wait for a mutex
of its own thread. `RoomPreventsSelfDeadlock` says that this is the only way to
it: where every queue has room for the coroutines that use it `Full` never happens
(`NeverFull`, from `FullOverloads`), so a thread hosts one coroutine at a time and
has no unlock pending below it (`HostInv`), and `MutexInv` leaves no owner that could
be the thread that waits.

The awaitables. None of the properties is inductive: that a read reports the
next bytes depends on what the socket holds, and that on what the vector of the
write still has. `IInv` of `StreamProofs` therefore places every byte in the
stream (`DataInv`: the vector of a read, then the socket, go on where the reader
is; the vector of a write ends where the writer is), bounds each direction by
what was offered (`FlowInv`), which outlives errors and closes where
`Conserved` does not, and says what is left of an awaitable in each phase
(`OpInv`) and of a connection (`ConnectInv`, `LinkInv`: an end that is not connected
has no awaitable and nothing has been sent to it). Five steps on the stream preserve it
(`Receives`, `Gives`, `Begins`, `Resumes`, `Closes`), on lemmas about the
sequences a partial `recv` and `send` leave (`TakeBytes`, `PutBytes`); each
action is shown to be one of them, a system call that would have blocked being
one that moves no byte.

The runtime. `OneResumption` counts what will go on with a job and says nothing
of where that is, so it is not inductive, nor is `RegistryExact`. `Staged`
gives each job its place in a life: `Absent`, `Fresh` (queued, or about to be
by `detach()` or `sync_wait()`), `First` (the wrapper runs), `Inside` (its coroutine runs),
`Blocked` (in the backend), `Ending` (the wrapper again) and `Dead`, each of which
fixes both frames, the continuation, and which of queue, backend, thread and
those two calls has the job. With that go `AloneInv` (no two threads in a
job), `QueueInv` (only wrappers, each once), `CreateInv` (a job is
created once, and the accept loop is under way only in a coroutine that runs) and
`RegInv` (the registry, up to the `add()` that `detach()` is about to make). A
step is about one job, which goes from one stage to the next, and leaves the
others `Frozen`; there is one lemma per action. Once a fault has happened nothing
is promised, so `IInv` is the type invariant and, without a fault, the rest.

`ShutdownIsClean` holds until the process is `Unquiet`, the case in which the
code does use frames after their end (run `runtime_frames`). `WayOutInv` adds to `IInv` what
each label of `epc` says of loops, `stopping` and statics, and that there is no
fault. When the way out comes to destroy anything (`Late`), every thread is
at rest, the pool is empty and no callback can come (`AllQuiet`): only the way out
itself moves, `destroy_all()` finds suspended frames, and when
the last static is gone the registry has been emptied, which leaves no detached
coroutine (`Reclaimed`). Before that, what is queued or armed is
`Fresh` or `Blocked`, so resuming it is defined (`ThreadStepSafe`).

Only model-checked: liveness and everything else that rests on fairness, which
the prover cannot reach: `DtorCompletesUnlessParking`, `StopReturns`,
`ConnectEnds`, `AbandonedEnds`, `EchoCompletes`, `ServedToEnd`, `Accepted`, `SyncWaitReturns`,
`HandlerEnds`, and the fairness in `ExecutorSpec` and `AsyncSpec`. Every
invariant of a passing run is a theorem.

## What is not modelled

- `submit()`, which is `execute()` with a `packaged_task`; `co_listen` and socket
  options, which run before anything else; move construction and assignment of
  `task<T>`, which do not outlive their caller; the count of `FileDescriptor`, a
  `std::shared_ptr` (where the copies live is in `Runtime`).
- `sync_wait()` on a pool worker, which `readme.md:305` forbids; exceptions
  thrown by tasks of the pool (those the library submits do not throw).
- Buffers of destroyed frames that io_uring still works on, and a completed
  accept that is dropped at shutdown: nothing cancels requests, so both happen
  and there is no property of the code to state.
- The stack depth of nested error callbacks, memory exhaustion, the results a
  completion carries (except in `StreamIO`), a descriptor number reused by
  another owner, kernels without `IORING_FEAT_EXT_ARG`.
- The formatting and the levels of the log, the HTTP samples, which use the
  library as the echo programs do, and `tmp/`, which nothing compiles.

## Plan

1. `ThreadPool`, `EpollExecutor`, `UringExecutor`, `StreamIO` with their
   abstract specifications, and the proofs about the first two (done).
2. `StreamIO` with the handshake and driven by the echo programs; `CoTask`; `Runtime`
   over pool, loops, registry, signal handler and static destruction (done).
3. `StreamProofs` (done).
4. `UringProofs`; the safety half of the refinements, of `TaskExecutor` by
   `ThreadPool` and of `AsyncIO` by both backends; `RuntimeProofs` (done).
5. That the self-deadlock of `uring_self_deadlock` needs a submission queue smaller
   than the number of its users: `NoSelfDeadlock` under that condition (done).
6. That a job of `Runtime` only goes forward through its stages, as an action property.
