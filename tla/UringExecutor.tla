---------------------------- MODULE UringExecutor ----------------------------
(***************************************************************************)
(* The io_uring backend (src/excutor_iouring.cc): N uring_instances, each  *)
(* with its ring, its event loop thread, its context pool and a mutex      *)
(* around the submission queue.  The kernel's SQPOLL thread fetches what   *)
(* is submitted, performs it when the descriptor allows, and posts a       *)
(* completion; the event loop thread runs the callback, which resumes the  *)
(* coroutine on that thread.                                               *)
(*                                                                         *)
(* unwind[t] is what is left to do on the stack of thread t when the       *)
(* callback or the async_io() under way there returns, innermost last: a   *)
(* context to release, a submission mutex to unlock, or both.  The pool    *)
(* thread that starts coroutine c is named c as well.                      *)
(***************************************************************************)
EXTENDS Naturals, Sequences, FiniteSets

CONSTANTS Coros,    \* the coroutines that do I/O
          Fds,      \* descriptor numbers
          Uses,     \* the descriptors each coroutine operates on
          BadFds,   \* the descriptors whose operations complete with an error
          MayFail,  \* the instances whose wait for completions may fail
          Ctxs,     \* addresses of uring_io_contexts: bounds the heap
          N,        \* num_cpus, the number of instances
          Entries,  \* the size of the submission queue
          Stoppers, \* the threads that call stop()
          Nobody    \* no context, no coroutine, no thread

Insts == 0 .. N - 1
Inst(fd) == fd % N
Threads == Insts \cup Coros
SomeFd == CHOOSE f \in Fds : TRUE

ASSUME UringAssumption ==
    /\ N \in Nat \ {0} /\ Entries \in Nat \ {0}
    /\ Fds \subseteq Nat /\ Fds # {} /\ BadFds \subseteq Fds
    /\ MayFail \subseteq Insts
    /\ Uses \in [Coros -> SUBSET Fds]
    /\ Coros \cap Insts = {}
    /\ Nobody \notin Ctxs \cup Threads

VARIABLES running, \* excutor_uring_impl::running_, shared by the instances
          loop,    \* where each event loop is: "head" of its while loop,
                   \* "wait", "reap" in the loop over completions, or "exit"
          sq,      \* the submitted requests of each ring, oldest first
          flight,  \* the requests the kernel is working on
          cq,      \* the completions of each ring, oldest first
          all,     \* all_allocated_ of each instance
          free,    \* freelist_ of each instance; the back is the top
          ctx,     \* the fd and the coroutine that each context's cb resumes
          mutex,   \* the thread that owns each sq_mutex_
          ready,   \* the descriptors on which an operation would not block
          pc,      \* where each coroutine is, in its own code or in async_io
          at,      \* the descriptor of its last operation
          held,    \* the context it has acquired and not yet submitted
          host,    \* the thread that last ran it
          unwind,  \* what each thread does when callbacks return
          spc      \* progress of each stop() call

ring == <<sq, flight, cq>>
pool == <<all, free, ctx>>
coro == <<pc, at, held, host>>
vars == <<running, loop, ring, pool, mutex, ready, coro, unwind, spc>>

Active(c) == pc[c] \in {"user", "acquire", "lock", "sqe"}
Occupied(t) == \E c \in Coros : Active(c) /\ host[c] = t

\* The event loop is in its own code: no callback is under way on its stack.
AtLoop(i, label) == loop[i] = label /\ unwind[i] = <<>> /\ ~Occupied(i)

TypeOK ==
    /\ running \in BOOLEAN
    /\ loop \in [Insts -> {"head", "wait", "reap", "exit"}]
    /\ sq \in [Insts -> Seq(Ctxs)] /\ \A i \in Insts : Len(sq[i]) <= Entries
    /\ flight \subseteq Ctxs /\ cq \in [Insts -> Seq(Ctxs)]
    /\ all \in [Insts -> SUBSET Ctxs] /\ free \in [Insts -> Seq(Ctxs)]
    /\ ctx \in [Ctxs -> [fd : Fds, co : Coros \cup {Nobody}]]
    /\ mutex \in [Insts -> Threads \cup {Nobody}]
    /\ ready \subseteq Fds
    /\ pc \in [Coros -> {"user", "acquire", "lock", "sqe", "wait", "ended"}]
    /\ at \in [Coros -> Fds] /\ held \in [Coros -> Ctxs \cup {Nobody}]
    /\ \A c \in Coros : held[c] # Nobody <=> pc[c] \in {"lock", "sqe"}
    /\ host \in [Coros -> Threads]
    /\ unwind \in [Threads -> Seq([ctx : Ctxs \cup {Nobody}, unlock : SUBSET Insts])]
    /\ spc \in [Stoppers -> {"idle", "join", "done"}]

\* The pool has just called resume() on every coroutine for the first time.
Init ==
    /\ running = TRUE /\ loop = [i \in Insts |-> "head"]
    /\ sq = [i \in Insts |-> <<>>] /\ flight = {} /\ cq = [i \in Insts |-> <<>>]
    /\ all = [i \in Insts |-> {}] /\ free = [i \in Insts |-> <<>>]
    /\ ctx = [x \in Ctxs |-> [fd |-> SomeFd, co |-> Nobody]]
    /\ mutex = [i \in Insts |-> Nobody] /\ ready = {}
    /\ pc = [c \in Coros |-> "user"] /\ at = [c \in Coros |-> SomeFd]
    /\ held = [c \in Coros |-> Nobody] /\ host = [c \in Coros |-> c]
    /\ unwind = [t \in Threads |-> <<>>]
    /\ spc = [s \in Stoppers |-> "idle"]

Goto(c, label) == pc' = [pc EXCEPT ![c] = label]
Later(t, x, locks) ==
    unwind' = [unwind EXCEPT ![t] = Append(@, [ctx |-> x, unlock |-> locks])]
\* release_ctx(): forget the callback, then push under the mutex.
Release(x) ==
    /\ ctx' = [ctx EXCEPT ![x] = [fd |-> @.fd, co |-> Nobody]]
    /\ free' = [free EXCEPT ![Inst(ctx[x].fd)] = Append(@, x)]
    /\ UNCHANGED all
-----------------------------------------------------------------------------
(* Faulty variants of definitions below, one for each property: a run with *)
(* the variant in place of the definition violates the property.           *)

\* The context still counts as the caller's after async_io() is done with it.
GiveUpNot(c) == UNCHANGED held
\* io_uring_submit() is left out after the request was prepared.
PublishNot(i, x) == UNCHANGED sq
\* The callback does not resume.
ResumeMute(c, t) == Goto(c, "wait") /\ host' = [host EXCEPT ![c] = t]
\* The context taken from the free list stays there.
RemainingAll(i) == free[i]
\* The path of a full queue unlocks and does not release the context.
CleanUpLeaks(c) == Later(host[c], Nobody, {Inst(at[c])})
\* The submission queue is used without its mutex.
UnlockedAlways(i) == TRUE
\* Callbacks are invoked after running_ was cleared.
DroppingNever == FALSE
\* The loop does not look at running_.
GivesUpOnErrorOnly(i) == AtLoop(i, "wait") /\ i \in MayFail
\* stop() does not join.
JoinedAlways == TRUE
-----------------------------------------------------------------------------
(* A coroutine in its own code, and in async_io() on the thread hosting it.*)

\* async_io() drops the callback of a backend that is stopping: the coroutine
\* stays suspended.
Await(c, fd) ==
    /\ pc[c] = "user" /\ fd \in Uses[c]
    /\ at' = [at EXCEPT ![c] = fd]
    /\ Goto(c, IF running THEN "acquire" ELSE "wait")
    /\ UNCHANGED <<running, loop, ring, pool, mutex, ready, held, host, unwind,
                   spc>>

Remaining(i) == SubSeq(free[i], 1, Len(free[i]) - 1)

\* acquire_ctx(): the top of the free list, or a new context.
Acquire(c) ==
    LET i == Inst(at[c]) IN
    /\ pc[c] = "acquire"
    /\ \E x \in Ctxs :
        /\ IF free[i] # <<>>
           THEN /\ x = free[i][Len(free[i])]
                /\ free' = [free EXCEPT ![i] = Remaining(i)]
                /\ UNCHANGED all
           ELSE /\ x \notin UNION {all[j] : j \in Insts}
                /\ all' = [all EXCEPT ![i] = @ \cup {x}]
                /\ UNCHANGED free
        /\ ctx' = [ctx EXCEPT ![x] = [fd |-> at[c], co |-> c]]
        /\ held' = [held EXCEPT ![c] = x]
    /\ Goto(c, "lock")
    /\ UNCHANGED <<running, loop, ring, mutex, ready, at, host, unwind, spc>>

Unlocked(i) == mutex[i] = Nobody
Lock(c) ==
    LET i == Inst(at[c]) IN
    /\ pc[c] = "lock" /\ Unlocked(i)
    /\ mutex' = [mutex EXCEPT ![i] = host[c]]
    /\ Goto(c, "sqe")
    /\ UNCHANGED <<running, loop, ring, pool, ready, at, held, host, unwind, spc>>

GiveUp(c)     == held' = [held EXCEPT ![c] = Nobody]
Publish(i, x) == sq' = [sq EXCEPT ![i] = Append(@, x)]
Resume(c, t)  == Goto(c, "user") /\ host' = [host EXCEPT ![c] = t]

\* io_uring_get_sqe() finds room and io_uring_submit() publishes the request.
\* From here on the event loop of the instance may resume c while this thread
\* has yet to unlock.
Submit(c) ==
    LET i == Inst(at[c]) IN
    /\ pc[c] = "sqe" /\ Len(sq[i]) < Entries
    /\ Publish(i, held[c]) /\ GiveUp(c)
    /\ Goto(c, "wait")
    /\ Later(host[c], Nobody, {i})
    /\ UNCHANGED <<running, loop, flight, cq, pool, mutex, ready, at, host, spc>>

\* What is left to do after the callback of a full queue.
CleanUp(c) == Later(host[c], held[c], {Inst(at[c])})

\* The queue is full, and full again after the forced submit, which waits for
\* nobody: cb(-ENOMEM) resumes the coroutine at once, inside this call and
\* with the mutex locked.
Full(c) ==
    /\ pc[c] = "sqe" /\ Len(sq[Inst(at[c])]) = Entries
    /\ GiveUp(c) /\ CleanUp(c)
    /\ Resume(c, host[c])
    /\ UNCHANGED <<running, loop, ring, pool, mutex, ready, at, spc>>

\* A coroutine in an operation keeps a copy of its connection; the last copy
\* to go away closes the descriptor, whose number may come back.  Only closing
\* one that is ready changes anything here.
Close(c, fd) ==
    /\ pc[c] = "user" /\ fd \in Uses[c] \cap ready
    /\ \A d \in Coros : at[d] = fd => pc[d] \in {"user", "ended"}
    /\ ready' = ready \ {fd}
    /\ UNCHANGED <<running, loop, ring, pool, mutex, coro, unwind, spc>>

End(c) ==
    /\ pc[c] = "user"
    /\ Goto(c, "ended")
    /\ UNCHANGED <<running, loop, ring, pool, mutex, ready, at, held, host,
                   unwind, spc>>
-----------------------------------------------------------------------------
\* A callback or async_io() returns on thread t.
Return(t) ==
    LET frame == unwind[t][Len(unwind[t])] IN
    /\ ~Occupied(t) /\ unwind[t] # <<>>
    /\ IF frame.ctx = Nobody THEN UNCHANGED pool ELSE Release(frame.ctx)
    /\ mutex' = [i \in Insts |-> IF i \in frame.unlock THEN Nobody ELSE mutex[i]]
    /\ unwind' = [unwind EXCEPT ![t] = SubSeq(@, 1, Len(@) - 1)]
    /\ UNCHANGED <<running, loop, ring, ready, coro, spc>>
-----------------------------------------------------------------------------
(* The kernel.                                                             *)

\* The SQPOLL thread of ring i takes the oldest request.
Fetch(i) ==
    /\ sq[i] # <<>>
    /\ flight' = flight \cup {Head(sq[i])}
    /\ sq' = [sq EXCEPT ![i] = Tail(@)]
    /\ UNCHANGED <<running, loop, cq, pool, mutex, ready, coro, unwind, spc>>

\* The operation is performed, or fails.  It may leave the descriptor ready,
\* or drain it.
Complete(x) ==
    LET fd == ctx[x].fd IN
    /\ x \in flight
    /\ \/ fd \in BadFds /\ UNCHANGED ready
       \/ fd \in ready \ BadFds /\ ready' \in {ready, ready \ {fd}}
    /\ flight' = flight \ {x}
    /\ cq' = [cq EXCEPT ![Inst(fd)] = Append(@, x)]
    /\ UNCHANGED <<running, loop, sq, pool, mutex, coro, unwind, spc>>

\* The peer sends, connects, or makes room.
Arrive(fd) ==
    /\ fd \notin ready
    /\ ready' = ready \cup {fd}
    /\ UNCHANGED <<running, loop, ring, pool, mutex, coro, unwind, spc>>
-----------------------------------------------------------------------------
(* uring_instance::event_loop.                                             *)

\* The test of running_ at the head of the loop.
Enter(i) ==
    /\ AtLoop(i, "head") /\ running
    /\ loop' = [loop EXCEPT ![i] = "wait"]
    /\ UNCHANGED <<running, ring, pool, mutex, ready, coro, unwind, spc>>

\* io_uring_wait_cqe_timeout; nothing has come at a timeout or EINTR.
WaitCqe(i) ==
    /\ AtLoop(i, "wait")
    /\ loop' = [loop EXCEPT ![i] = IF cq[i] = <<>> THEN "head" ELSE "reap"]
    /\ UNCHANGED <<running, ring, pool, mutex, ready, coro, unwind, spc>>

\* Completions are reaped without their callbacks.
Dropping == ~running

\* The callback of the next completion resumes its coroutine on this thread.
Dispatch(i) ==
    LET x == Head(cq[i]) IN
    /\ AtLoop(i, "reap") /\ cq[i] # <<>> /\ ~Dropping
    /\ cq' = [cq EXCEPT ![i] = Tail(@)]
    /\ Later(i, x, {})
    /\ Resume(ctx[x].co, i)
    /\ UNCHANGED <<running, loop, sq, flight, pool, mutex, ready, at, held, spc>>

\* Shutting down: the context is freed and its coroutine stays suspended.
Skip(i) ==
    /\ AtLoop(i, "reap") /\ cq[i] # <<>> /\ Dropping
    /\ cq' = [cq EXCEPT ![i] = Tail(@)]
    /\ Release(Head(cq[i]))
    /\ UNCHANGED <<running, loop, sq, flight, mutex, ready, coro, unwind, spc>>

\* The loop over completions reads the tail of the ring at each turn, so it
\* ends when the ring is empty.
Advance(i) ==
    /\ AtLoop(i, "reap") /\ cq[i] = <<>>
    /\ loop' = [loop EXCEPT ![i] = "head"]
    /\ UNCHANGED <<running, ring, pool, mutex, ready, coro, unwind, spc>>

GivesUp(i) ==
    \/ AtLoop(i, "head") /\ ~running
    \/ AtLoop(i, "wait") /\ i \in MayFail
LoopExit(i) ==
    /\ GivesUp(i)
    /\ loop' = [loop EXCEPT ![i] = "exit"]
    /\ UNCHANGED <<running, ring, pool, mutex, ready, coro, unwind, spc>>
-----------------------------------------------------------------------------
(* stop(): the caller that clears running_ joins the loops.                *)

StopCall(s) ==
    /\ spc[s] = "idle"
    /\ spc' = [spc EXCEPT ![s] = IF running THEN "join" ELSE "done"]
    /\ running' = FALSE
    /\ UNCHANGED <<loop, ring, pool, mutex, ready, coro, unwind>>

Joined == \A i \in Insts : loop[i] = "exit"
StopReturn(s) ==
    /\ spc[s] = "join" /\ Joined
    /\ spc' = [spc EXCEPT ![s] = "done"]
    /\ UNCHANGED <<running, loop, ring, pool, mutex, ready, coro, unwind>>
-----------------------------------------------------------------------------
AsyncIo(c) == Acquire(c) \/ Lock(c) \/ Submit(c) \/ Full(c)
Suspend(c) == End(c) \/ \E fd \in Uses[c] : Await(c, fd)
User(c) == Suspend(c) \/ \E fd \in Uses[c] : Close(c, fd)
Kernel == (\E i \in Insts : Fetch(i)) \/ \E x \in Ctxs : Complete(x)
Loop(i) == Enter(i) \/ WaitCqe(i) \/ Dispatch(i) \/ Skip(i) \/ Advance(i) \/ LoopExit(i)

Next ==
    \/ \E c \in Coros : AsyncIo(c) \/ User(c)
    \/ \E t \in Threads : Return(t)
    \/ Kernel
    \/ \E i \in Insts : Loop(i)
    \/ \E s \in Stoppers : StopCall(s) \/ StopReturn(s)
    \/ \E fd \in Fds : Arrive(fd)

Spec == Init /\ [][Next]_vars

\* Threads and the kernel keep being scheduled, a coroutine that runs suspends
\* or ends, and a mutex unlocked again and again is obtained in the end.
Fairness ==
    /\ \A c \in Coros : WF_vars(AsyncIo(c)) /\ SF_vars(Lock(c)) /\ WF_vars(Suspend(c))
    /\ \A t \in Threads : WF_vars(Return(t))
    /\ \A i \in Insts : WF_vars(Fetch(i)) /\ WF_vars(Loop(i))
    /\ \A x \in Ctxs : WF_vars(Complete(x))
    /\ \A s \in Stoppers : WF_vars(StopReturn(s))

FairSpec == Spec /\ Fairness
-----------------------------------------------------------------------------
(* Properties.                                                             *)

\* The places that hold a pointer to context x.
Places(x) ==
    {<<"held", c>> : c \in {d \in Coros : held[d] = x}}
    \cup {<<"flight">> : y \in flight \cap {x}}
    \cup (UNION {{<<"sq", i, k>> : k \in {n \in DOMAIN sq[i] : sq[i][n] = x}}
                 : i \in Insts})
    \cup (UNION {{<<"cq", i, k>> : k \in {n \in DOMAIN cq[i] : cq[i][n] = x}}
                 : i \in Insts})
    \cup (UNION {{<<"free", i, k>> : k \in {n \in DOMAIN free[i] : free[i][n] = x}}
                 : i \in Insts})
    \cup (UNION {{<<"stack", t, k>> : k \in {n \in DOMAIN unwind[t] : unwind[t][n].ctx = x}}
                 : t \in Threads})

\* A context is never in two hands: no coroutine is given one that the ring,
\* the kernel or a callback still on some stack refers to, and none is
\* released twice or into the pool of another instance.
NoDoubleUse ==
    /\ \A x \in Ctxs : \A p, q \in Places(x) : p = q
    /\ \A i \in Insts : \A k \in DOMAIN free[i] : free[i][k] \in all[i]

\* Contexts are not lost: what was allocated is in use or in a free list.
NoLeak == \A i \in Insts : \A x \in all[i] : Places(x) # {}

\* A request that the ring or the kernel has.
Requested(x) ==
    \/ x \in flight
    \/ \E i \in Insts : x \in {sq[i][k] : k \in DOMAIN sq[i]}
                             \cup {cq[i][k] : k \in DOMAIN cq[i]}

\* Whoever shares the descriptor: while the backend runs, a suspended
\* coroutine has exactly one request under way, for the operation it waits
\* for, and no other coroutine has any.
OneRequest ==
    LET requests(c) == {x \in Ctxs : Requested(x) /\ ctx[x].co = c} IN
    \A c \in Coros :
        /\ running => (pc[c] = "wait" <=> requests(c) # {})
        /\ \A x, y \in requests(c) : x = y /\ ctx[x].fd = at[c]

\* What is using the submission queue of instance i.
Submitting(i) ==
    {<<"sqe", c>> : c \in {d \in Coros : pc[d] = "sqe" /\ Inst(at[d]) = i}}
    \cup (UNION {{<<"stack", t, k>> : k \in {n \in DOMAIN unwind[t] : i \in unwind[t][n].unlock}}
                 : t \in Threads})

\* One async_io() at a time is between io_uring_get_sqe() and the unlock, also
\* when its coroutine is resumed on another thread before it unlocks, and the
\* mutex is always given back.
SubmitsAlone ==
    \A i \in Insts :
        /\ \A p, q \in Submitting(i) : p = q
        /\ mutex[i] = Nobody <=> Submitting(i) = {}

\* "SQ full - force submit and retry": a coroutine whose operation met a full
\* queue can go on; no thread waits for a submission mutex that it owns.
NoSelfDeadlock == \A c \in Coros : pc[c] = "lock" => mutex[Inst(at[c])] # host[c]

\* "Stop event loop threads first (no more callbacks will fire)": when stop()
\* has returned, no event loop thread is inside a coroutine any more.
StopQuiesces ==
    (\E s \in Stoppers : spc[s] = "done")
        => \A c \in Coros : Active(c) => host[c] \notin Insts

\* stop() returns once the callbacks under way do.
StopReturns == \A s \in Stoppers : (spc[s] = "join") ~> (spc[s] = "done")

\* More coroutines use an instance than its submission queue holds, so that an
\* operation may be refused.
Overloaded(i) ==
    Cardinality({c \in Coros : \E fd \in Uses[c] : Inst(fd) = i}) > Entries

\* What the backend shows of a coroutine, and the coroutines whose operation
\* the kernel has completed without an error.
CoState == [c \in Coros |-> IF pc[c] = "user" THEN "running"
                            ELSE IF pc[c] = "ended" THEN "ended" ELSE "waiting"]
Performed ==
    {c \in Coros : \E i \in Insts : \E k \in DOMAIN cq[i] :
        ctx[cq[i][k]].co = c /\ ctx[cq[i][k]].fd \notin BadFds}
Refusable == BadFds \cup {fd \in Fds : Overloaded(Inst(fd))}

\* The backend implements AsyncIO: an operation is performed when the kernel
\* completes it.  With fairness this is also that no completion is lost: a
\* coroutine whose descriptor is ready is resumed while the backend runs.
Async == INSTANCE AsyncIO WITH
    state <- CoState, wants <- at, served <- Performed, open <- running,
    Faulty <- Refusable

AsyncSafety == Async!Spec
AsyncSpec   == Async!FairSpec
=============================================================================
