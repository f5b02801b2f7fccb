---------------------------- MODULE EpollExecutor ----------------------------
(***************************************************************************)
(* The epoll backend (src/excutor_epoll.cc): N epoll_instances, each with  *)
(* its own event loop thread and context pool; a descriptor belongs to     *)
(* instance fd % N.  Coroutines call async_io() from the thread they run   *)
(* on, which is a pool worker at first and the event loop that resumed     *)
(* them from then on; the callback of a context resumes its coroutine.     *)
(*                                                                         *)
(* A callback runs on the stack of the thread that invokes it, and the     *)
(* context is released only when it returns: unwind[t] holds, innermost    *)
(* last, the contexts that thread t has yet to release.  The pool thread   *)
(* that starts coroutine c is named c as well.                             *)
(***************************************************************************)
EXTENDS Naturals, Sequences, FiniteSets

CONSTANTS Coros,     \* the coroutines that do I/O
          Fds,       \* descriptor numbers
          Uses,      \* the descriptors each coroutine operates on
          BadFds,    \* the descriptors epoll_ctl refuses (EBADF, EPERM)
          MayFail,   \* the instances whose epoll_create1 may fail
          Ctxs,      \* addresses of epoll_io_contexts: bounds the heap
          N,         \* num_cpus, the number of instances
          MaxEvents, \* MAX_EVENTS, the capacity of one epoll_wait
          Stoppers   \* the threads that call stop()

Insts == 0 .. N - 1
Inst(fd) == fd % N
Threads == Insts \cup Coros
SomeFd == CHOOSE f \in Fds : TRUE

ASSUME EpollAssumption ==
    /\ N \in Nat \ {0} /\ MaxEvents \in Nat \ {0}
    /\ Fds \subseteq Nat /\ Fds # {} /\ BadFds \subseteq Fds
    /\ MayFail \subseteq Insts
    /\ Uses \in [Coros -> SUBSET Fds]
    /\ Coros \cap Insts = {}
    /\ {"none", "absent", "disarmed"} \cap (Ctxs \cup Coros) = {}

VARIABLES running, \* excutor_epoll_impl::running_, shared by the instances
          dead,    \* the instances whose epoll_create1 failed
          loop,    \* where each event loop is: "head" of its while loop, or
                   \* serving its batch, "wait", or "exit"
          batch,   \* the contexts of the events[] each loop has yet to serve
          all,     \* all_allocated_ of each context pool
          free,    \* freelist_ of each context pool; the back is the top
          ctx,     \* the fd and the coroutine that each context's cb resumes
          reg,     \* what epoll holds for a descriptor: a context, "disarmed"
                   \* after its one shot, or "absent"
          ready,   \* the descriptors on which an operation would not block
          pc,      \* where each coroutine is, in its own code or in async_io
          at,      \* the descriptor of its last operation
          held,    \* the context it has acquired and not yet registered
          host,    \* the thread that last ran it
          unwind,  \* the contexts each thread releases when callbacks return
          spc      \* progress of each stop() call

kernel == <<reg, ready>>
pool   == <<all, free, ctx>>
coro   == <<pc, at, held, host>>
vars   == <<running, dead, loop, batch, pool, kernel, coro, unwind, spc>>

Active(c) == pc[c] \in {"user", "acquire", "mod", "add"}
Occupied(t) == \E c \in Coros : Active(c) /\ host[c] = t

\* The event loop is in its own code: no callback is under way on its stack.
AtLoop(i, label) == loop[i] = label /\ unwind[i] = <<>> /\ ~Occupied(i)

TypeOK ==
    /\ running \in BOOLEAN /\ dead \subseteq Insts
    /\ loop \in [Insts -> {"head", "wait", "exit"}]
    /\ batch \in [Insts -> SUBSET Ctxs]
    /\ all \in [Insts -> SUBSET Ctxs] /\ free \in [Insts -> Seq(Ctxs)]
    /\ ctx \in [Ctxs -> [fd : Fds, co : Coros \cup {"none"}]]
    /\ reg \in [Fds -> Ctxs \cup {"absent", "disarmed"}]
    /\ ready \subseteq Fds
    /\ pc \in [Coros -> {"user", "acquire", "mod", "add", "wait", "ended"}]
    /\ at \in [Coros -> Fds] /\ held \in [Coros -> Ctxs \cup {"none"}]
    /\ \A c \in Coros : held[c] # "none" <=> pc[c] \in {"mod", "add"}
    /\ host \in [Coros -> Threads] /\ unwind \in [Threads -> Seq(Ctxs)]
    /\ spc \in [Stoppers -> {"idle", "join", "done"}]

\* The pool has just called resume() on every coroutine for the first time.
Init ==
    /\ running = TRUE /\ dead \in SUBSET MayFail
    /\ loop = [i \in Insts |-> "head"] /\ batch = [i \in Insts |-> {}]
    /\ all = [i \in Insts |-> {}] /\ free = [i \in Insts |-> <<>>]
    /\ ctx = [x \in Ctxs |-> [fd |-> SomeFd, co |-> "none"]]
    /\ reg = [f \in Fds |-> "absent"] /\ ready = {}
    /\ pc = [c \in Coros |-> "user"] /\ at = [c \in Coros |-> SomeFd]
    /\ held = [c \in Coros |-> "none"] /\ host = [c \in Coros |-> c]
    /\ unwind = [t \in Threads |-> <<>>]
    /\ spc = [s \in Stoppers |-> "idle"]

Goto(c, label) == pc' = [pc EXCEPT ![c] = label]

Refused(fd) == fd \in BadFds \/ Inst(fd) \in dead
ReadyFds(i) == {fd \in ready : Inst(fd) = i /\ reg[fd] \in Ctxs}
-----------------------------------------------------------------------------
(* Faulty variants of definitions below, one for each property: a run with *)
(* the variant in place of the definition violates the property.           *)

\* acquire() leaves the context in the free list.
RemainingAll(i) == free[i]
\* The context still counts as the caller's after epoll_ctl.
GiveUpNot(c) == UNCHANGED held
\* epoll_ctl is called without the events to wait for.
RegisterNot(c) == UNCHANGED reg
\* The failure path of async_io() does not release the context.
LaterNot(t, x) == UNCHANGED unwind
\* Registrations without EPOLLONESHOT.
DisarmNot(S) == UNCHANGED reg
\* Callbacks are invoked after running_ was cleared.
DroppingNever == FALSE
\* The loop does not look at running_.
GivesUpOnErrorOnly(i) == AtLoop(i, "wait") /\ i \in dead
\* stop() does not join.
JoinedAlways == TRUE
-----------------------------------------------------------------------------
(* A coroutine in its own code, and in async_io() on the thread hosting it.*)

\* async_io() drops the callback of a backend that is stopping: the coroutine
\* stays suspended.
Await(c, fd) ==
    /\ pc[c] = "user" /\ fd \in Uses[c]
    /\ at' = [at EXCEPT ![c] = fd]
    /\ Goto(c, IF running THEN "acquire" ELSE "wait")
    /\ UNCHANGED <<running, dead, loop, batch, pool, kernel, held, host,
                   unwind, spc>>

Remaining(i) == SubSeq(free[i], 1, Len(free[i]) - 1)

\* epoll_ctx_pool::acquire: the top of the free list, or a new context.
Acquire(c) ==
    LET i == Inst(at[c]) IN
    /\ pc[c] = "acquire"
    /\ \E x \in Ctxs :
        /\ IF free[i] # <<>>
           THEN /\ x = free[i][Len(free[i])]
                /\ free' = [free EXCEPT ![i] = Remaining(i)]
                /\ UNCHANGED all
           ELSE /\ x \notin UNION {all[j] : j \in Insts}
                /\ all' = [all EXCEPT ![i] = @ \cup {x}]
                /\ UNCHANGED free
        /\ ctx' = [ctx EXCEPT ![x] = [fd |-> at[c], co |-> c]]
        /\ held' = [held EXCEPT ![c] = x]
    /\ Goto(c, "mod")
    /\ UNCHANGED <<running, dead, loop, batch, kernel, at, host, unwind, spc>>

GiveUp(c)   == held' = [held EXCEPT ![c] = "none"]
Register(c) == reg' = [reg EXCEPT ![at[c]] = held[c]]
Later(t, x) == unwind' = [unwind EXCEPT ![t] = Append(@, x)]

\* epoll_ctl succeeds: the descriptor reports its next readiness to held[c],
\* whatever was registered before.  From here on the event loop of the
\* instance may resume c while this thread is still returning.
Arm(c) ==
    /\ Register(c) /\ GiveUp(c)
    /\ Goto(c, "wait")
    /\ UNCHANGED <<host, unwind>>

\* EPOLL_CTL_MOD works on a descriptor that is registered.
Mod(c) ==
    /\ pc[c] = "mod"
    /\ IF Refused(at[c]) \/ reg[at[c]] = "absent"
       THEN Goto(c, "add") /\ UNCHANGED <<reg, held, host, unwind>>
       ELSE Arm(c)
    /\ UNCHANGED <<running, dead, loop, batch, pool, ready, at, spc>>

\* EPOLL_CTL_ADD works on one that is not.  When it fails as well, cb(-errno)
\* resumes the coroutine at once, inside this call, and the context is
\* released when that returns.
Add(c) ==
    /\ pc[c] = "add"
    /\ IF Refused(at[c]) \/ reg[at[c]] # "absent"
       THEN /\ Later(host[c], held[c]) /\ GiveUp(c)
            /\ Goto(c, "user")
            /\ UNCHANGED <<reg, host>>
       ELSE Arm(c)
    /\ UNCHANGED <<running, dead, loop, batch, pool, ready, at, spc>>

\* The last copy of a connection goes away: close() removes the descriptor
\* from epoll.  The number may come back with the next connection.
Close(c, fd) ==
    /\ pc[c] = "user" /\ fd \in Uses[c] /\ reg[fd] # "absent"
    /\ reg' = [reg EXCEPT ![fd] = "absent"]
    /\ ready' = ready \ {fd}
    /\ UNCHANGED <<running, dead, loop, batch, pool, coro, unwind, spc>>

End(c) ==
    /\ pc[c] = "user"
    /\ Goto(c, "ended")
    /\ UNCHANGED <<running, dead, loop, batch, pool, kernel, at, held, host,
                   unwind, spc>>
-----------------------------------------------------------------------------
\* epoll_ctx_pool::release: forget the callback, then push under the mutex.
Release(x) ==
    /\ ctx' = [ctx EXCEPT ![x] = [fd |-> @.fd, co |-> "none"]]
    /\ free' = [free EXCEPT ![Inst(ctx[x].fd)] = Append(@, x)]
    /\ UNCHANGED all

\* A callback has returned to thread t, which releases its context.
Return(t) ==
    /\ ~Occupied(t) /\ unwind[t] # <<>>
    /\ Release(unwind[t][Len(unwind[t])])
    /\ unwind' = [unwind EXCEPT ![t] = SubSeq(@, 1, Len(@) - 1)]
    /\ UNCHANGED <<running, dead, loop, batch, kernel, coro, spc>>
-----------------------------------------------------------------------------
(* epoll_instance::event_loop.                                             *)

\* EPOLLONESHOT
Disarm(S) == reg' = [fd \in Fds |-> IF fd \in S THEN "disarmed" ELSE reg[fd]]

\* The test of running_ at the head of the loop.
Enter(i) ==
    /\ AtLoop(i, "head") /\ batch[i] = {} /\ running
    /\ loop' = [loop EXCEPT ![i] = "wait"]
    /\ UNCHANGED <<running, dead, batch, pool, kernel, coro, unwind, spc>>

\* epoll_wait: nothing is reported at a timeout or EINTR.
Poll(i) ==
    /\ AtLoop(i, "wait") /\ batch[i] = {} /\ i \notin dead
    /\ \E S \in SUBSET ReadyFds(i) :
        /\ Cardinality(S) <= MaxEvents
        /\ S = ReadyFds(i) \/ Cardinality(S) = MaxEvents
        /\ batch' = [batch EXCEPT ![i] = {reg[fd] : fd \in S}]
        /\ Disarm(S)
    /\ loop' = [loop EXCEPT ![i] = "head"]
    /\ UNCHANGED <<running, dead, pool, ready, coro, unwind, spc>>

\* What epoll reports is served without its callbacks.
Dropping == ~running

\* do_io() and the callback, which resumes the coroutine on this thread.  The
\* operation may leave the descriptor ready, or drain it.
Dispatch(i, x) ==
    LET c == ctx[x].co IN
    /\ AtLoop(i, "head") /\ x \in batch[i] /\ ~Dropping
    /\ batch' = [batch EXCEPT ![i] = @ \ {x}]
    /\ ready' \in {ready, ready \ {ctx[x].fd}}
    /\ unwind' = [unwind EXCEPT ![i] = <<x>>]
    /\ host' = [host EXCEPT ![c] = i]
    /\ Goto(c, "user")
    /\ UNCHANGED <<running, dead, loop, pool, reg, at, held, spc>>

\* Shutting down: the context is freed and its coroutine stays suspended.
Skip(i, x) ==
    /\ AtLoop(i, "head") /\ x \in batch[i] /\ Dropping
    /\ batch' = [batch EXCEPT ![i] = @ \ {x}]
    /\ Release(x)
    /\ UNCHANGED <<running, dead, loop, kernel, coro, unwind, spc>>

\* running_ is false at the head of the loop, or epoll_wait fails (EBADF).
GivesUp(i) ==
    \/ AtLoop(i, "head") /\ batch[i] = {} /\ ~running
    \/ AtLoop(i, "wait") /\ i \in dead
LoopExit(i) ==
    /\ GivesUp(i)
    /\ loop' = [loop EXCEPT ![i] = "exit"]
    /\ UNCHANGED <<running, dead, batch, pool, kernel, coro, unwind, spc>>
-----------------------------------------------------------------------------
(* excutor_epoll_impl::stop: the caller that clears running_ joins.        *)

StopCall(s) ==
    /\ spc[s] = "idle"
    /\ spc' = [spc EXCEPT ![s] = IF running THEN "join" ELSE "done"]
    /\ running' = FALSE
    /\ UNCHANGED <<dead, loop, batch, pool, kernel, coro, unwind>>

Joined == \A i \in Insts : loop[i] = "exit"
StopReturn(s) ==
    /\ spc[s] = "join" /\ Joined
    /\ spc' = [spc EXCEPT ![s] = "done"]
    /\ UNCHANGED <<running, dead, loop, batch, pool, kernel, coro, unwind>>

\* The peer sends, connects, or makes room.
Arrive(fd) ==
    /\ fd \notin ready
    /\ ready' = ready \cup {fd}
    /\ UNCHANGED <<running, dead, loop, batch, pool, reg, coro, unwind, spc>>
-----------------------------------------------------------------------------
AsyncIo(c) == Acquire(c) \/ Mod(c) \/ Add(c)
User(c) == End(c) \/ \E fd \in Uses[c] : Await(c, fd) \/ Close(c, fd)
Loop(i) == Enter(i) \/ Poll(i) \/ LoopExit(i) \/ \E x \in Ctxs : Dispatch(i, x) \/ Skip(i, x)

Next ==
    \/ \E c \in Coros : AsyncIo(c) \/ User(c)
    \/ \E t \in Threads : Return(t)
    \/ \E i \in Insts : Loop(i)
    \/ \E s \in Stoppers : StopCall(s) \/ StopReturn(s)
    \/ \E fd \in Fds : Arrive(fd)

Spec == Init /\ [][Next]_vars

\* Threads keep being scheduled, and a coroutine that runs suspends or ends.
\* No peer has to send anything and nobody has to call stop().
Fairness ==
    /\ \A c \in Coros : WF_vars(AsyncIo(c)) /\ WF_vars(User(c))
    /\ \A t \in Threads : WF_vars(Return(t))
    /\ \A i \in Insts : WF_vars(Loop(i))
    /\ \A s \in Stoppers : WF_vars(StopReturn(s))

FairSpec == Spec /\ Fairness
-----------------------------------------------------------------------------
(* Properties.                                                             *)

\* The places that hold a pointer to context x.
Places(x) ==
    {<<"held", c>> : c \in {d \in Coros : held[d] = x}}
    \cup {<<"armed", f>> : f \in {g \in Fds : reg[g] = x}}
    \cup {<<"batch", i>> : i \in {j \in Insts : x \in batch[j]}}
    \cup (UNION {{<<"free", i, k>> : k \in {n \in DOMAIN free[i] : free[i][n] = x}}
                 : i \in Insts})
    \cup (UNION {{<<"stack", t, k>> : k \in {n \in DOMAIN unwind[t] : unwind[t][n] = x}}
                 : t \in Threads})

\* A context is never in two hands: no coroutine is given one that epoll, an
\* event loop or a callback still on some stack refers to, and none is
\* released twice or into the pool of another instance.
NoDoubleUse ==
    /\ \A x \in Ctxs : \A p, q \in Places(x) : p = q
    /\ \A i \in Insts : \A k \in DOMAIN free[i] : free[i][k] \in all[i]

\* Contexts are not lost: what was allocated is in use or in a free list.
NoLeak == \A i \in Insts : \A x \in all[i] : Places(x) # {}

\* Exactly one resumption: a context that epoll or an event loop will call
\* back belongs to a suspended coroutine, is about the operation it waits
\* for, and is the only such context of that coroutine.
Pending(x) == (\E f \in Fds : reg[f] = x) \/ \E i \in Insts : x \in batch[i]

SingleResume ==
    \A x \in Ctxs : Pending(x) =>
        LET c == ctx[x].co IN
        /\ c \in Coros /\ pc[c] = "wait" /\ at[c] = ctx[x].fd
        /\ \A y \in Ctxs : Pending(y) /\ ctx[y].co = c => y = x

\* "Stop event loop threads first (no more callbacks will fire)": when stop()
\* has returned, no event loop thread is inside a coroutine any more.
StopQuiesces ==
    (\E s \in Stoppers : spc[s] = "done")
        => \A c \in Coros : Active(c) => host[c] \notin Insts

\* stop() returns once the callbacks under way do.
StopReturns == \A s \in Stoppers : (spc[s] = "join") ~> (spc[s] = "done")

\* What the backend shows of a coroutine: in async_io() or registered, it is
\* waiting.
CoState == [c \in Coros |-> IF pc[c] = "user" THEN "running"
                            ELSE IF pc[c] = "ended" THEN "ended" ELSE "waiting"]
Refusable == BadFds \cup {fd \in Fds : Inst(fd) \in MayFail}

\* The backend implements AsyncIO.  With fairness this is also that no wakeup
\* is lost: a coroutine whose descriptor is ready is resumed while the backend
\* runs.
Async == INSTANCE AsyncIO WITH
    state <- CoState, wants <- at, served <- {}, open <- running,
    Faulty <- Refusable

AsyncSafety == Async!Spec
AsyncSpec   == Async!FairSpec
=============================================================================
