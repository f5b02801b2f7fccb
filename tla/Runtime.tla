------------------------------ MODULE Runtime ------------------------------
(***************************************************************************)
(* A server process of this library (test/echo_server.cc) from its main()  *)
(* to its exit: sync_wait(), detach() and the detached_registry            *)
(* (include/co_excutor.h), the accept loop that detaches one coroutine per *)
(* connection, and the two ways out, the signal handler with shutdown()    *)
(* (src/co_excutor.cc) and the return of main(), both followed by the      *)
(* destructors of the static objects.                                      *)
(*                                                                         *)
(* The thread pool is what ThreadPool shows it to be: a FIFO whose tasks   *)
(* are started once, and whose destructor hangs when a worker misses its   *)
(* notification, which a task submitted later makes up for.  (The race of  *)
(* its drain loops, which takes two workers, is left to that module.)  The *)
(* backend is what AsyncIO promises: it resumes a waiting coroutine once,  *)
(* on a loop thread, when its descriptor is ready and the backend has not  *)
(* been stopped.                                                           *)
(***************************************************************************)
EXTENDS CoTask

CONSTANTS Workers, Loops, Main, \* the threads: the pool, the loops and main()
          Server,     \* the job of sync_wait(); the others are connections
          Msgs,       \* bounds what each peer sends
          MayThrow,   \* the jobs whose coroutine may throw
          MayRefuse,  \* a system call may fail on a descriptor that is ready
          SigThreads  \* the threads that may be interrupted by the signal

Conns == Jobs \ {Server}

ASSUME RuntimeAssumption ==
    /\ Server \in Jobs /\ Threads = Workers \cup Loops \cup {Main}
    /\ Main \notin Workers \cup Loops /\ Workers \cap Loops = {}
    /\ Null \notin Frames \cup Threads \cup Jobs
    /\ MayThrow \subseteq Jobs /\ SigThreads \subseteq Threads
    /\ Msgs \in [Conns -> Nat] /\ MayRefuse \in BOOLEAN

VARIABLES queue,    \* task_queue_ of the pool: the wrappers to be resumed
          armed,    \* the frames that wait in the backend
          registry, \* handles_, as the jobs of the wrappers
          srv,      \* where the accept loop is, and its variable conn
          handler,  \* what handle_client() of each connection does next
          sock,     \* each connection, as its peer drives it
          promise,  \* of sync_wait()
          mpc,      \* where main() is
          ethread,  \* the thread that shuts the process down, or Null
          epc,      \* where it is
          stopping, \* running_ of the backend is false
          born,     \* the static objects alive, in the order of construction
          gone,     \* those whose destructor has run
          parked    \* the worker that sleeps on though ~thrdpool has notified

process == <<promise, mpc, ethread, epc, stopping, born, gone, parked>>
vars == <<co, queue, armed, registry, srv, handler, sock, process>>

Statics == {"instance", "backend", "registry"}

TypeOK ==
    /\ CoTypeOK
    /\ queue \in Seq(Frames) /\ armed \subseteq Frames /\ registry \subseteq Conns
    /\ srv \in [at : {"accept", "got", "add", "push", "next", "end"}, conn : Conns \cup {Null}]
    /\ \A c \in Conns : sock[c] \in [up : {"none", "backlog", "accepted"}, left : 0 .. Msgs[c],
                                    data : 0 .. Msgs[c], full : BOOLEAN, eof : BOOLEAN]
    /\ handler \in [Conns -> {"read", "write", "leave"}]
    /\ promise \in {"empty", "value", "exception", "broken"}
    /\ mpc \in {"start", "construct", "call", "locked", "wait", "log", "logging", "left", "thrown"}
    /\ ethread \in Threads \cup {Null}
    /\ epc \in {"none", "log", "stop", "join", "lock", "destroying", "exit", "dying",
                "closing", "draining", "exited"}
    /\ stopping \in BOOLEAN /\ born \in Seq(Statics) /\ gone \subseteq Statics
    /\ parked \in Workers \cup {Null}

Init ==
    /\ CoInit
    /\ queue = <<>> /\ armed = {} /\ registry = {}
    /\ srv = [at |-> "accept", conn |-> Null]
    /\ sock = [c \in Conns |-> [up |-> "none", left |-> Msgs[c], data |-> 0,
                            full |-> FALSE, eof |-> FALSE]]
    /\ handler = [c \in Conns |-> "read"]
    /\ promise = "empty" /\ mpc = "start" /\ ethread = Null /\ epc = "none"
    /\ stopping = FALSE /\ born = <<>> /\ gone = {} /\ parked = Null

\* A thread goes on unless the signal handler has interrupted it, and as long
\* as there is a process whose behaviour is defined.
Alive     == fault = "none" /\ epc # "exited" /\ mpc # "thrown"
Active(t) == Alive /\ t # ethread
Idle(t)   == Active(t) /\ on[t] = Null

\* A function-local static is constructed by its first user.
Born(x) == \E i \in DOMAIN born : born[i] = x
Touch(x) ==
    /\ x \notin gone
    /\ born' = IF Born(x) THEN born ELSE Append(born, x)
-----------------------------------------------------------------------------
(* Faulty variants of definitions below, as in CoTask.                     *)

\* The wrapper of sync_wait() does not catch.
OutcomeUncaught(j) == IF j = Server /\ Inner(j) \notin thrown THEN "value" ELSE promise
\* The frame is destroyed before it is taken from the registry.
MayGoRegistered(j) == frame[Wrapper(j)] \in {"final", "unhooked"}
\* The result of accept4 is not checked.
AcceptFailsUnchecked == srv' = [srv EXCEPT !.at = "got"]
\* stop() waits for the operations that are pending, or for nothing.
LoopsDrained == ethread \notin Loops /\ armed = {}
LoopsLeft    == ethread \notin Loops
\* The callback of co_accept() does not resume.
AcceptCallbackMute(l) ==
    /\ Active(l) /\ on[l] = Null /\ ~stopping /\ Inner(Server) \in armed
    /\ \E c \in {d \in Conns : sock[d].up = "backlog"} :
         sock' = [sock EXCEPT ![c].up = "accepted"]
    /\ armed' = armed \ {Inner(Server)}
    /\ UNCHANGED <<co, queue, registry, srv, handler, process>>
-----------------------------------------------------------------------------
(* main() and sync_wait().                                                 *)

\* The frames; the first use of instance(), which installs the signal handler
\* before it constructs the pool; and execute(), which holds queue_mutex_ while
\* it appends.  Nothing is queued before that, so no worker takes the mutex but
\* to leave.
SyncWait ==
    /\ Idle(Main) /\ mpc = "start"
    /\ Create(Server)
    /\ mpc' = "construct"
    /\ UNCHANGED <<queue, armed, registry, srv, handler, sock, promise, ethread, epc, stopping,
                   born, gone, parked>>

FirstInstance ==
    /\ Idle(Main) /\ mpc = "construct"
    /\ Touch("instance")
    /\ mpc' = "call"
    /\ UNCHANGED <<co, queue, armed, registry, srv, handler, sock, promise, ethread, epc,
                   stopping, gone, parked>>

Execute ==
    /\ Idle(Main)
    /\ \/ mpc = "call" /\ mpc' = "locked" /\ UNCHANGED queue
       \/ mpc = "locked" /\ mpc' = "wait" /\ queue' = Append(queue, Wrapper(Server))
    /\ UNCHANGED <<co, armed, registry, srv, handler, sock, promise, ethread, epc, stopping,
                   born, gone, parked>>

\* future.get() returns the value or throws, which main() does not catch; then
\* the last message of main() in its two halves, under the lock of the log, and
\* the return.
MainStep ==
    /\ Idle(Main)
    /\ \/ mpc = "wait" /\ promise = "value" /\ mpc' = "log"
       \/ mpc = "wait" /\ promise \in {"exception", "broken"} /\ mpc' = "thrown"
       \/ mpc = "log" /\ mpc' = "logging"
       \/ mpc = "logging" /\ mpc' = "left"
    /\ UNCHANGED <<co, queue, armed, registry, srv, handler, sock, promise, ethread, epc,
                   stopping, born, gone, parked>>

\* The two ends of a wrapper: it awaits its coroutine, and reports (sync_wait)
\* or drops (detach) what became of it.
StartInner(t, j) ==
    /\ Active(t) /\ frame[Inner(j)] = "suspended" /\ cont[Inner(j)] = Null
    /\ AwaitTask(t, Wrapper(j), Inner(j))
    /\ UNCHANGED <<queue, armed, registry, srv, handler, sock, process>>

Outcome(j) ==
    IF j # Server THEN promise ELSE IF Inner(j) \in thrown THEN "exception" ELSE "value"

WrapperEnds(t, j) ==
    /\ Active(t) /\ Runs(t, Wrapper(j)) /\ AtEnd(Inner(j))
    /\ frame' = [frame EXCEPT ![Wrapper(j)] = IF j = Server THEN "unhooked" ELSE "final"]
    /\ promise' = Outcome(j)
    /\ UNCHANGED <<cont, thrown, on, fault, queue, armed, registry, srv, handler, sock, mpc,
                   ethread, epc, stopping, born, gone, parked>>

\* What on_destroy_ had to do is done.
MayGo(j) == frame[Wrapper(j)] = "unhooked"

\* The destructor of a promise that was never set.
PromiseGone(j) == IF j = Server /\ promise = "empty" THEN "broken" ELSE promise

WrapperGone(t, j) ==
    /\ Active(t) /\ MayGo(j)
    /\ SelfDestroy(t, Wrapper(j))
    /\ promise' = PromiseGone(j)
    /\ UNCHANGED <<queue, armed, registry, srv, handler, sock, mpc, ethread, epc, stopping,
                   born, gone, parked>>

\* Any coroutine may end by an exception while it runs.
Throw(t, j) ==
    /\ Active(t) /\ j \in MayThrow
    /\ j = Server => srv.at = "accept"
    /\ Finish(t, Inner(j), TRUE)
    /\ UNCHANGED <<queue, armed, registry, srv, handler, sock, process>>
-----------------------------------------------------------------------------
(* The detached_registry.  Its mutex is held across destroy_all().         *)

RegistryFree == epc \notin {"destroying", "dying"}

RegistryAdd(t) ==
    /\ Active(t) /\ Runs(t, Inner(Server)) /\ srv.at = "add"
    /\ RegistryFree /\ Touch("registry")
    /\ registry' = registry \cup {srv.conn}
    /\ srv' = [srv EXCEPT !.at = "push"]
    /\ UNCHANGED <<co, queue, armed, handler, sock, promise, mpc, ethread, epc, stopping, gone,
                   parked>>

\* on_destroy_ of a detached wrapper.
RegistryRemove(t, j) ==
    /\ Active(t) /\ on[t] = Wrapper(j) /\ frame[Wrapper(j)] = "final"
    /\ RegistryFree /\ Touch("registry")
    /\ registry' = registry \ {j}
    /\ frame' = [frame EXCEPT ![Wrapper(j)] = "unhooked"]
    /\ UNCHANGED <<cont, thrown, on, fault, queue, armed, srv, handler, sock, promise, mpc,
                   ethread, epc, stopping, gone, parked>>

\* One turn of the loop of destroy_all().
DestroyOne(j) ==
    /\ Alive /\ epc \in {"destroying", "dying"} /\ j \in registry
    /\ registry' = registry \ {j}
    /\ IF AtEnd(Wrapper(j)) THEN UNCHANGED co ELSE Destroy(Wrapper(j))
    /\ UNCHANGED <<queue, armed, srv, handler, sock, process>>
-----------------------------------------------------------------------------
(* The accept loop and detach().                                           *)

InServer(t, at) == Active(t) /\ Runs(t, Inner(Server)) /\ srv.at = at

Backlog == {c \in Conns : sock[c].up = "backlog"}
Accepts(c) ==
    /\ sock' = [sock EXCEPT ![c].up = "accepted"]
    /\ srv' = [at |-> "got", conn |-> c]

\* An empty connection leaves the loop.
AcceptFails == srv' = [srv EXCEPT !.at = "end"]

AcceptInline(t) ==
    /\ InServer(t, "accept")
    /\ \E c \in Backlog : Accepts(c)
    /\ UNCHANGED <<co, queue, armed, registry, handler, process>>

\* await_ready() takes any error of accept4 for "try later".
AcceptBlocks(t) ==
    /\ InServer(t, "accept")
    /\ Backlog = {} \/ MayRefuse
    /\ "instance" \notin gone /\ Touch("backend")
    /\ armed' = armed \cup {Inner(Server)}
    /\ Suspend(t)
    /\ UNCHANGED <<queue, registry, srv, handler, sock, promise, mpc, ethread, epc, stopping, gone, parked>>

\* The callback takes any error for the end.
AcceptCallback(l) ==
    /\ Idle(l) /\ ~stopping /\ Inner(Server) \in armed
    /\ \/ \E c \in Backlog : Accepts(c)
       \/ /\ MayRefuse /\ Backlog # {}
          /\ AcceptFails /\ UNCHANGED sock
    /\ armed' = armed \ {Inner(Server)}
    /\ Resume(l, Inner(Server))
    /\ UNCHANGED <<queue, registry, handler, process>>

\* detach(): the frames, then the registry, then the pool; the variable conn
\* of the loop goes out of scope after that.
DetachCreate(t) ==
    /\ InServer(t, "got")
    /\ Create(srv.conn)
    /\ srv' = [srv EXCEPT !.at = "add"]
    /\ UNCHANGED <<queue, armed, registry, handler, sock, process>>

\* Its notify_one() finds the worker that missed the last one.
DetachPush(t) ==
    /\ InServer(t, "push") /\ "instance" \notin gone
    /\ queue' = Append(queue, Wrapper(srv.conn))
    /\ srv' = [srv EXCEPT !.at = "next"]
    /\ parked' = Null
    /\ UNCHANGED <<co, armed, registry, handler, sock, promise, mpc, ethread, epc, stopping,
                   born, gone>>

NextTurn(t) ==
    /\ InServer(t, "next")
    /\ srv' = [at |-> "accept", conn |-> Null]
    /\ UNCHANGED <<co, queue, armed, registry, handler, sock, process>>

ServerEnds(t) ==
    /\ InServer(t, "end")
    /\ Finish(t, Inner(Server), FALSE)
    /\ UNCHANGED <<queue, armed, registry, srv, handler, sock, process>>

Accepting(t) ==
    AcceptInline(t) \/ AcceptBlocks(t) \/ DetachCreate(t) \/ RegistryAdd(t)
    \/ DetachPush(t) \/ NextTurn(t) \/ ServerEnds(t)
-----------------------------------------------------------------------------
(* handle_client(): reads, writes back what it has read, and leaves at the *)
(* end of the stream or at an error of either.                             *)

InHandler(t, c) == Active(t) /\ c \in Conns /\ Runs(t, Inner(c))

\* The system call would not block.
Ready(c) ==
    \/ sock[c].eof
    \/ handler[c] = "read" /\ sock[c].data > 0
    \/ handler[c] = "write" /\ ~sock[c].full

\* What the handler makes of its result.  Once the peer has closed, a read may
\* still find data, or the end, or an error; what is written may fill the
\* buffer of the socket.
Operate(c) ==
    /\ Ready(c)
    /\ \/ /\ handler[c] = "read" /\ sock[c].data > 0
          /\ sock' = [sock EXCEPT ![c].data = @ - 1]
          /\ handler' = [handler EXCEPT ![c] = "write"]
       \/ /\ handler[c] = "write" /\ ~sock[c].full
          /\ \E full \in BOOLEAN : sock' = [sock EXCEPT ![c].full = full]
          /\ handler' = [handler EXCEPT ![c] = "read"]
       \/ /\ handler[c] # "leave" /\ (sock[c].eof \/ MayRefuse)
          /\ handler' = [handler EXCEPT ![c] = "leave"]
          /\ UNCHANGED sock

HandlerInline(t, c) ==
    /\ InHandler(t, c)
    /\ Operate(c)
    /\ UNCHANGED <<co, queue, armed, registry, srv, process>>

HandlerBlocks(t, c) ==
    /\ InHandler(t, c) /\ handler[c] # "leave" /\ ~Ready(c)
    /\ "instance" \notin gone /\ Touch("backend")
    /\ armed' = armed \cup {Inner(c)}
    /\ Suspend(t)
    /\ UNCHANGED <<queue, registry, srv, handler, sock, promise, mpc, ethread, epc, stopping,
                   gone, parked>>

HandlerReturns(t, c) ==
    /\ InHandler(t, c) /\ handler[c] = "leave"
    /\ Finish(t, Inner(c), FALSE)
    /\ UNCHANGED <<queue, armed, registry, srv, handler, sock, process>>

\* The callback of co_read() or co_write().
HandlerCallback(l, c) ==
    /\ Idle(l) /\ ~stopping /\ Inner(c) \in armed
    /\ Operate(c)
    /\ armed' = armed \ {Inner(c)}
    /\ Resume(l, Inner(c))
    /\ UNCHANGED <<queue, registry, srv, process>>

\* A worker of the pool takes a task: the wrapper of a job to be resumed.
RunTask(w) ==
    /\ Idle(w) /\ w # parked /\ queue # <<>>
    /\ queue' = Tail(queue)
    /\ Resume(w, Head(queue))
    /\ UNCHANGED <<armed, registry, srv, handler, sock, process>>

\* The static objects that the next step of a coroutine uses: its awaitable
\* goes to the backend by way of instance().
Needs(t) ==
    (IF \/ InServer(t, "add")
        \/ \E c \in Conns : on[t] = Wrapper(c) /\ frame[Wrapper(c)] = "final"
     THEN {"registry"} ELSE {})
    \cup (IF InServer(t, "push") THEN {"instance"} ELSE {})
    \cup (IF \/ InServer(t, "accept") /\ (Backlog = {} \/ MayRefuse)
             \/ \E c \in Conns : InHandler(t, c) /\ handler[c] # "leave" /\ ~Ready(c)
          THEN {"instance", "backend"} ELSE {})

UseOfDeadStatic(t) ==
    /\ Active(t) /\ Needs(t) \cap gone # {}
    /\ fault' = "static"
    /\ UNCHANGED <<frame, cont, thrown, on, queue, armed, registry, srv, handler, sock, process>>

Peer(c) ==
    /\ Alive
    /\ \/ sock[c].up = "none" /\ sock' = [sock EXCEPT ![c].up = "backlog"]
       \/ /\ sock[c].up # "none" /\ sock[c].left > 0 /\ ~sock[c].eof
          /\ sock' = [sock EXCEPT ![c].left = @ - 1, ![c].data = @ + 1]
       \/ /\ sock[c].up # "none" /\ ~sock[c].eof
          /\ sock' = [sock EXCEPT ![c].eof = TRUE]
       \/ /\ sock[c].full /\ ~sock[c].eof
          /\ sock' = [sock EXCEPT ![c].full = FALSE]
    /\ UNCHANGED <<co, queue, armed, registry, srv, handler, process>>
-----------------------------------------------------------------------------
(* The ways out: signal_handler() and shutdown(), then exit(), or exit()   *)
(* alone when main() returns.                                              *)

\* The steps that leave everything else as it is.
Exiting(pcs) ==
    /\ Alive /\ epc \in pcs
    /\ UNCHANGED <<co, queue, armed, registry, srv, handler, sock, promise, mpc>>
Goto(label) == epc' = label

Signal(t) ==
    /\ Exiting({"none"}) /\ mpc # "start"
    /\ t \in Workers => Born("instance")
    /\ t \in Loops => Born("backend")
    /\ ethread' = t /\ Goto("log")
    /\ UNCHANGED <<stopping, born, gone, parked>>

MainReturns ==
    /\ Exiting({"none"}) /\ mpc = "left"
    /\ ethread' = Main /\ Goto("exit")
    /\ UNCHANGED <<stopping, born, gone, parked>>

\* The handler logs first: not while it interrupts the thread that has the
\* lock of the log.
HandlerLogs ==
    /\ Exiting({"log"}) /\ ~(ethread = Main /\ mpc = "logging")
    /\ Goto("stop")
    /\ UNCHANGED <<ethread, stopping, born, gone, parked>>

\* instance() waits for itself when it is interrupted in its own initialisation.
StopBackend ==
    /\ Exiting({"stop"}) /\ mpc # "construct"
    /\ Touch("backend") /\ stopping' = TRUE
    /\ Goto("join")
    /\ UNCHANGED <<ethread, gone, parked>>

\* join() of the loops returns when none of them is in a coroutine, and never
\* when the caller is one of them.
LoopsEnded == ethread \notin Loops /\ \A l \in Loops : on[l] = Null
JoinLoops ==
    /\ Exiting({"join"}) /\ LoopsEnded
    /\ Goto("lock")
    /\ UNCHANGED <<ethread, stopping, born, gone, parked>>

DestroyAllStarts ==
    /\ Exiting({"lock"})
    /\ Touch("registry")
    /\ Goto("destroying")
    /\ UNCHANGED <<ethread, stopping, gone, parked>>

DestroyAllEnds ==
    /\ Exiting({"destroying"}) /\ registry = {}
    /\ Goto("exit")
    /\ UNCHANGED <<ethread, stopping, born, gone, parked>>

\* The static objects are destroyed in the reverse order of construction, one
\* that is constructed meanwhile as soon as the destructor that runs returns.
Last == born[Len(born)]
Destructor == [registry |-> "dying", backend |-> "closing", instance |-> "draining"]
Dies(x) ==
    /\ \E i \in DOMAIN born :
         born[i] = x /\ born' = SubSeq(born, 1, i - 1) \o SubSeq(born, i + 1, Len(born))
    /\ gone' = gone \cup {x}

\* ~co_excutor destroys the pool.  A worker that has found its queue empty and
\* the pool running, but does not sleep yet, misses the notification; it holds
\* the mutex until it sleeps, so there is at most one.
Parking ==
    IF Last = "instance" /\ queue = <<>> THEN {w \in Workers : on[w] = Null} ELSE {}

ExitBegins ==
    /\ Exiting({"exit"}) /\ born # <<>>
    /\ Goto(Destructor[Last])
    /\ stopping' = (stopping \/ Last = "backend")
    /\ parked' \in {Null} \cup Parking
    /\ UNCHANGED <<ethread, born, gone>>

RegistryDies ==
    /\ Exiting({"dying"}) /\ registry = {}
    /\ Dies("registry") /\ Goto("exit")
    /\ UNCHANGED <<ethread, stopping, parked>>

BackendDies ==
    /\ Exiting({"closing"}) /\ LoopsEnded
    /\ Dies("backend") /\ Goto("exit")
    /\ UNCHANGED <<ethread, stopping, parked>>

\* The workers run what is left in the queue, and leave; each needs the mutex
\* to wake up or to find that it has to leave.
PoolDies ==
    /\ Exiting({"draining"})
    /\ queue = <<>> /\ ethread \notin Workers /\ \A w \in Workers : on[w] = Null
    /\ parked = Null /\ mpc # "locked"
    /\ Dies("instance") /\ Goto("exit")
    /\ UNCHANGED <<ethread, stopping, parked>>

ProcessEnds ==
    /\ Exiting({"exit"}) /\ born = <<>>
    /\ Goto("exited")
    /\ UNCHANGED <<ethread, stopping, born, gone, parked>>

Exit ==
    \/ HandlerLogs \/ StopBackend \/ JoinLoops \/ DestroyAllStarts \/ DestroyAllEnds
    \/ ExitBegins \/ RegistryDies \/ BackendDies \/ PoolDies \/ ProcessEnds
    \/ \E j \in Conns : DestroyOne(j)
-----------------------------------------------------------------------------
\* What the coroutine on thread t does next; j is its job.
Coroutine(t) ==
    /\ Active(t) /\ on[t] # Null
    /\ LET j == on[t][2] IN
        \/ Accepting(t) \/ UseOfDeadStatic(t)
        \/ StartInner(t, j) \/ WrapperEnds(t, j) \/ WrapperGone(t, j) \/ RegistryRemove(t, j)
        \/ HandlerInline(t, j) \/ HandlerBlocks(t, j) \/ HandlerReturns(t, j)

LoopStep(l) == Coroutine(l) \/ AcceptCallback(l) \/ \E c \in Conns : HandlerCallback(l, c)
WorkerStep(w) == Coroutine(w) \/ RunTask(w)
MainRuns == SyncWait \/ FirstInstance \/ Execute \/ MainStep \/ MainReturns

Next ==
    \/ MainRuns \/ Exit
    \/ \E w \in Workers : WorkerStep(w)
    \/ \E l \in Loops : LoopStep(l)
    \/ \E t \in Workers \cup Loops, j \in Jobs : Throw(t, j)
    \/ \E c \in Conns : Peer(c)
    \/ \E t \in SigThreads : Signal(t)

Spec == Init /\ [][Next]_vars

\* Every thread keeps running; peers and signals come or not, and nothing has
\* to throw.
Fairness ==
    /\ WF_vars(MainRuns) /\ WF_vars(Exit)
    /\ \A w \in Workers : WF_vars(WorkerStep(w))
    /\ \A l \in Loops : WF_vars(LoopStep(l))

FairSpec == Spec /\ Fairness
-----------------------------------------------------------------------------
(* Properties.                                                             *)

\* What will go on with a job: a task of the pool, a callback of the backend,
\* a thread that executes it, or the call that is creating it, of detach() or
\* of sync_wait().
Starting(j) ==
    \/ srv.conn = j /\ srv.at \in {"add", "push"}
    \/ j = Server /\ mpc \in {"construct", "call", "locked"}

Resumptions(j) ==
    Cardinality({i \in DOMAIN queue : queue[i] = Wrapper(j)})
    + Cardinality({Inner(j)} \cap armed)
    + Cardinality({t \in Threads : on[t] \in {Wrapper(j), Inner(j)}})
    + (IF Starting(j) THEN 1 ELSE 0)

\* A coroutine that exists is neither forgotten nor in two hands, whichever
\* way it blocks, returns or throws: exactly one thing will go on with it.
OneResumption == fault = "none" => \A j \in Jobs : Live(Wrapper(j)) => Resumptions(j) = 1

\* The registry never holds a handle of a frame that is gone, and holds that
\* of every detached coroutine that waits in the backend, which only
\* destroy_all() can reclaim once the loops have stopped.
RegistryExact ==
    fault = "none" =>
        \A c \in Conns : /\ c \in registry => Live(Wrapper(c))
                         /\ Inner(c) \in armed /\ Live(Inner(c)) => c \in registry

\* The descriptor of a connection is closed with its last copy: the variable
\* of the accept loop and the parameter of the coroutine.
Open(c) == srv.conn = c \/ Live(Inner(c))

\* The ends of the service: a signal, the return of main(), or an exception
\* that leaves it.
Over == ethread # Null \/ mpc = "thrown"

\* A connection whose peer has closed is closed by the server in the end, and
\* nothing of its coroutines stays in memory, in whichever of its waits the end
\* or the error finds the handler, unless the process ends before.  (For each
\* connection this lasts once it is so: again and again it is so of all.)
ServedToEnd ==
    []<>(\A c \in Conns : sock[c].up = "accepted" /\ sock[c].eof
                            => Over \/ (~Open(c) /\ ~Live(Wrapper(c))))

\* No connection stays in the backlog, unless the accept loop ends.
Accepted == []<>(Backlog = {} \/ Over \/ promise # "empty")

\* What becomes of its coroutine comes out of sync_wait(), unless a signal
\* finds it waiting: it returns after a value, and the exception that leaves it
\* is that of the coroutine, not that of a promise nobody set.  The wrapper has
\* told another thread by then, and goes on to destroy itself while main()
\* returns: nothing of it is left, also when the process exits meanwhile,
\* unless the signal interrupts it.
SyncWaitReturns ==
    AtEnd(Inner(Server)) ~>
        /\ \/ mpc = "wait" /\ ethread # Null
           \/ mpc \in {"log", "logging", "left"} /\ promise = "value"
              /\ Inner(Server) \notin thrown
           \/ mpc = "thrown" /\ promise = "exception" /\ Inner(Server) \in thrown
        /\ \/ ~Live(Wrapper(Server)) \/ ethread \notin {Null, Main}
           \/ mpc = "thrown" \/ fault # "none"

\* The signal handler comes to the end of the process, whichever thread it has
\* interrupted, wherever main() is and whatever the loops and workers are
\* doing, unless an exception leaves main() meanwhile, or a frame or a static
\* is used after its end.  It waits for ever in six cases only: for the lock of
\* the log or the initialisation of instance(), when it has interrupted main()
\* in it; in the joins of stop() and of ~thrdpool, for the thread it has
\* interrupted; and in the latter for a worker that needs the lock main() was
\* interrupted with, or that has missed its notification.
Stuck ==
    \/ epc = "log" /\ ethread = Main /\ mpc = "logging"
    \/ epc = "stop" /\ ethread = Main /\ mpc = "construct"
    \/ epc = "join" /\ ethread \in Loops
    \/ /\ epc = "draining"
       /\ ethread \in Workers \/ parked # Null \/ (ethread = Main /\ mpc = "locked")
HandlerEnds == epc = "log" ~> epc = "exited" \/ Stuck \/ mpc = "thrown" \/ fault # "none"

\* "Now safe to destroy all suspended detached coroutine frames".
FrameSafe == fault # "frame"

\* What shutdown() does not wait for: the pool has coroutines left, queued or
\* running; or main() has returned while coroutines are left in the backend.
Unquiet ==
    /\ epc \in {"destroying", "exit", "dying", "closing", "draining"}
    /\ \/ queue # <<>> \/ \E w \in Workers : on[w] # Null
       \/ /\ epc # "destroying" /\ ~stopping
          /\ armed # {} \/ \E l \in Loops : on[l] # Null

\* Nothing else can go wrong on the way out: no frame or static object is used
\* after its destruction, and at the end no detached coroutine is left over.
ShutdownClean ==
    \/ <>Unquiet
    \/ [](fault = "none" /\ (epc = "exited" => \A c \in Conns : ~Live(Wrapper(c))))
=============================================================================
