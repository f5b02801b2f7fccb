----------------------------- MODULE ThreadPool -----------------------------
(***************************************************************************)
(* thrdpool (src/thrdpool.cc): a FIFO of tasks under queue_mutex_, worker  *)
(* threads that sleep on queue_cv_, and a destructor that clears running_  *)
(* without the mutex, wakes everybody and joins.                           *)
(*                                                                         *)
(* A critical section that nothing can interrupt visibly is one step.  The *)
(* one that can is the wait of an idle worker: running_ is written without *)
(* the mutex, so the destructor may act after the predicate was evaluated  *)
(* and before the thread sleeps (pc "park").  The loop after the main loop *)
(* touches the queue with no lock at all, so each access is a step.        *)
(***************************************************************************)
EXTENDS Naturals, Sequences, FiniteSets

CONSTANTS Workers,  \* the threads of worker_threads_
          Clients,  \* other threads that call execute()
          Tasks,    \* the callables submitted, each of them once
          Null      \* an empty std::function, and the owner of a free mutex

ASSUME PoolAssumption ==
    /\ Workers # {} /\ IsFiniteSet(Workers)
    /\ Workers \cap Clients = {}
    /\ Null \notin Workers \cup Tasks

VARIABLES running,  \* running_
          mutex,    \* who holds queue_mutex_ between two steps, or Null
          queue,    \* task_queue_; Null is a slot whose function was moved out
          wpc,      \* where each worker is in worker_loop()
          task,     \* each worker's local variable task
          notifying,\* threads in execute() past the unlock, before notify_one
          dpc,      \* progress of ~thrdpool
          pushed,   \* history: the tasks ever pushed
          runs      \* history: how often each task was run to its end

vars == <<running, mutex, queue, wpc, task, notifying, dpc, pushed, runs>>

Threads == Workers \cup Clients
Busy    == {w \in Workers : wpc[w] \in {"run", "rerun"}}
Asleep  == {w \in Workers : wpc[w] = "wait"}
AtTop   == {w \in Workers : wpc[w] = "top"}

TypeOK ==
    /\ running \in BOOLEAN
    /\ mutex \in Workers \cup {Null}
    /\ queue \in Seq(Tasks \cup {Null})
    /\ wpc \in [Workers -> {"top", "park", "wait", "run", "drain", "move",
                            "pop", "rerun", "done", "crashed"}]
    /\ task \in [Workers -> Tasks \cup {Null}]
    /\ \A w \in Workers : \/ wpc[w] \in {"pop", "crashed"}
                          \/ task[w] # Null <=> wpc[w] \in {"run", "rerun"}
    /\ notifying \subseteq Threads
    /\ dpc \in {"alive", "notify", "join", "gone"}
    /\ pushed \subseteq Tasks
    /\ runs \in [Tasks -> Nat]

Init ==
    /\ running = TRUE
    /\ mutex = Null
    /\ queue = <<>>
    /\ wpc = [w \in Workers |-> "top"]
    /\ task = [w \in Workers |-> Null]
    /\ notifying = {}
    /\ dpc = "alive"
    /\ pushed = {}
    /\ runs = [t \in Tasks |-> 0]

Goto(w, label) == wpc' = [wpc EXCEPT ![w] = label]

\* A client calls execute() only on a live pool; a task that is running may
\* itself submit, whatever the state of the pool.
CanSubmit(p) ==
    /\ p \notin notifying
    /\ IF p \in Workers THEN p \in Busy ELSE dpc = "alive"
-----------------------------------------------------------------------------
(* Faulty variants of definitions below, one for each property: a run with *)
(* the variant in place of the definition violates the property.           *)

\* execute() notifies only when the queue was empty.
AnnounceFirst(p) == notifying' = IF Len(queue) = 0 THEN notifying \cup {p} ELSE notifying
\* The newest task is taken first.
DequeueNewest(w) ==
    /\ task' = [task EXCEPT ![w] = queue[Len(queue)]]
    /\ queue' = SubSeq(queue, 1, Len(queue) - 1)
\* The mutex is not held from the predicate to the sleep.
KeepLockNot(w) == UNCHANGED mutex
\* The worker returns from worker_loop() instead of breaking out.
BreakOutForGood(w) == Goto(w, "done")
\* The variable task outlives the iteration.
ForgetNot(w) == UNCHANGED task
\* The destructor wakes one worker.
WakeOne ==
    IF Asleep = {} THEN UNCHANGED wpc ELSE \E w \in Asleep : Goto(w, "top")
-----------------------------------------------------------------------------
(* execute(): push under the mutex, then notify_one outside it.            *)

Announce(p) == notifying' = notifying \cup {p}

Push(p, t) ==
    /\ CanSubmit(p)
    /\ mutex = Null
    /\ t \notin pushed
    /\ queue' = Append(queue, t)
    /\ pushed' = pushed \cup {t}
    /\ Announce(p)
    /\ UNCHANGED <<running, mutex, wpc, task, dpc, runs>>

\* notify_one wakes some sleeper, or nobody when there is none.
NotifyOne(p) ==
    /\ p \in notifying
    /\ notifying' = notifying \ {p}
    /\ IF Asleep = {} THEN UNCHANGED wpc
                      ELSE \E w \in Asleep : Goto(w, "top")
    /\ UNCHANGED <<running, mutex, queue, task, dpc, pushed, runs>>
-----------------------------------------------------------------------------
(* worker_loop(): the main loop.                                           *)

Dequeue(w)  == task' = [task EXCEPT ![w] = Head(queue)] /\ queue' = Tail(queue)
KeepLock(w) == mutex' = w

\* The predicate holds and running_ is set: take the oldest task.
Take(w) ==
    /\ wpc[w] = "top" /\ mutex = Null
    /\ running /\ queue # <<>>
    /\ Dequeue(w)
    /\ Goto(w, "run")
    /\ UNCHANGED <<running, mutex, notifying, dpc, pushed, runs>>

\* The predicate is false: the worker still holds the mutex, and is about to
\* sleep on what it has just read.
Idle(w) ==
    /\ wpc[w] = "top" /\ mutex = Null
    /\ running /\ queue = <<>>
    /\ KeepLock(w)
    /\ Goto(w, "park")
    /\ UNCHANGED <<running, queue, task, notifying, dpc, pushed, runs>>

\* condition_variable::wait releases the mutex and sleeps in one step.
Park(w) ==
    /\ wpc[w] = "park"
    /\ mutex' = Null
    /\ Goto(w, "wait")
    /\ UNCHANGED <<running, queue, task, notifying, dpc, pushed, runs>>

\* A condition variable may wake without a notification.
SpuriousWake(w) ==
    /\ w \in Asleep
    /\ Goto(w, "top")
    /\ UNCHANGED <<running, mutex, queue, task, notifying, dpc, pushed, runs>>

BreakOut(w) == Goto(w, "drain")

\* running_ is false: break out of the main loop and give the mutex back.
Leave(w) ==
    /\ wpc[w] = "top" /\ mutex = Null
    /\ ~running
    /\ BreakOut(w)
    /\ UNCHANGED <<running, mutex, queue, task, notifying, dpc, pushed, runs>>

Forget(w) == task' = [task EXCEPT ![w] = Null]

\* The callable returns, in either loop; the local variable dies with it.
Finish(w) ==
    /\ w \in Busy \ notifying
    /\ runs' = [runs EXCEPT ![task[w]] = @ + 1]
    /\ Forget(w)
    /\ Goto(w, IF wpc[w] = "run" THEN "top" ELSE "drain")
    /\ UNCHANGED <<running, mutex, queue, notifying, dpc, pushed>>
-----------------------------------------------------------------------------
(* worker_loop(): the loop that empties the queue after the break, without *)
(* the mutex.  front() and pop() on an empty queue are undefined.          *)

DrainTest(w) ==
    /\ wpc[w] = "drain"
    /\ Goto(w, IF queue = <<>> THEN "done" ELSE "move")
    /\ UNCHANGED <<running, mutex, queue, task, notifying, dpc, pushed, runs>>

\* Two workers may copy the function out of the front slot before either of
\* them has emptied it: the race leaves the slot as it was.
DrainMove(w) ==
    /\ wpc[w] = "move" /\ queue # <<>>
    /\ task' = [task EXCEPT ![w] = Head(queue)]
    /\ \/ queue' = <<Null>> \o Tail(queue)
       \/ /\ \E v \in Workers \ {w} : wpc[v] = "move"
          /\ UNCHANGED queue
    /\ Goto(w, "pop")
    /\ UNCHANGED <<running, mutex, notifying, dpc, pushed, runs>>

\* An empty function is not called.
DrainPop(w) ==
    /\ wpc[w] = "pop" /\ queue # <<>>
    /\ queue' = Tail(queue)
    /\ Goto(w, IF task[w] = Null THEN "drain" ELSE "rerun")
    /\ UNCHANGED <<running, mutex, task, notifying, dpc, pushed, runs>>

DrainEmpty(w) ==
    /\ wpc[w] \in {"move", "pop"} /\ queue = <<>>
    /\ Goto(w, "crashed")
    /\ UNCHANGED <<running, mutex, queue, task, notifying, dpc, pushed, runs>>
-----------------------------------------------------------------------------
(* ~thrdpool(): no client is inside the pool when its owner destroys it.   *)

DtorStore ==
    /\ dpc = "alive"
    /\ notifying \cap Clients = {}
    /\ running' = FALSE
    /\ dpc' = "notify"
    /\ UNCHANGED <<mutex, queue, wpc, task, notifying, pushed, runs>>

WakeAll == wpc' = [w \in Workers |-> IF w \in Asleep THEN "top" ELSE wpc[w]]
DtorNotifyAll ==
    /\ dpc = "notify"
    /\ WakeAll
    /\ dpc' = "join"
    /\ UNCHANGED <<running, mutex, queue, task, notifying, pushed, runs>>

DtorJoin ==
    /\ dpc = "join"
    /\ \A w \in Workers : wpc[w] = "done"
    /\ dpc' = "gone"
    /\ UNCHANGED <<running, mutex, queue, wpc, task, notifying, pushed, runs>>
-----------------------------------------------------------------------------
MainLoop(w) == Take(w) \/ Idle(w) \/ Park(w) \/ Leave(w) \/ Finish(w)
DrainLoop(w) == DrainTest(w) \/ DrainMove(w) \/ DrainPop(w) \/ DrainEmpty(w)
Dtor == DtorNotifyAll \/ DtorJoin

\* The pool in service, as long as nobody destroys it.
Service ==
    \/ \E p \in Threads : NotifyOne(p) \/ \E t \in Tasks : Push(p, t)
    \/ \E w \in Workers : MainLoop(w) \/ SpuriousWake(w)

Next == Service \/ DtorStore \/ Dtor \/ \E w \in Workers : DrainLoop(w)

Spec == Init /\ [][Next]_vars
ServiceSpec == Init /\ [][Service]_vars

\* Every thread keeps being scheduled and a task returns.  Nobody has to
\* submit or to destroy the pool, and no wakeup has to be spurious.
Fairness ==
    /\ \A w \in Workers : WF_vars(MainLoop(w)) /\ WF_vars(DrainLoop(w))
    /\ \A p \in Threads : WF_vars(NotifyOne(p))
    /\ WF_vars(Dtor)

FairSpec == Spec /\ Fairness
FairServiceSpec == ServiceSpec /\ Fairness
-----------------------------------------------------------------------------
(* Properties.                                                             *)

\* No lost wakeup: while a worker sleeps, every queued task has a worker on
\* its way to the queue or a notify_one still to come, so tasks never wait
\* for one worker while another is idle.
WorkConserving ==
    running /\ Asleep # {} =>
        Len(queue) <= Cardinality(AtTop) + Cardinality(notifying)

\* Whatever the destructor does meanwhile, a non-empty queue is never left to
\* threads that are all asleep or gone.
NoStrandedTask ==
    queue # <<>> =>
        notifying # {} \/ \E w \in Workers : wpc[w] \notin {"wait", "done"}

\* What ~thrdpool leaves behind: every task that execute() accepted was run,
\* exactly once, by the time the workers are joined.
AllRunAtExit ==
    dpc = "gone" => queue = <<>> /\ \A t \in pushed : runs[t] = 1

\* Two workers are between the test of the queue and its pop() in the drain
\* loop, which has no mutex.
Racing ==
    \E v, w \in Workers : v # w /\ {wpc[v], wpc[w]} \subseteq {"move", "pop"}

\* Nothing but that race of the drain loops can lose a task or run it twice,
\* tasks submitted by tasks that the destructor drains included.
AllRunUnlessRacing == <>Racing \/ []AllRunAtExit

\* Destroying the pool ends.
DtorCompletes == (dpc = "notify") ~> (dpc = "gone")

\* The only workers that can make it hang are those caught between their
\* predicate and their sleep; the only other way not to end is the race of
\* the drain loops on the last slot.
DtorCompletesUnlessParking ==
    (dpc = "notify" /\ \A w \in Workers : wpc[w] # "park")
        ~> (dpc = "gone" \/ \E w \in Workers : wpc[w] = "crashed")

\* In service the pool implements TaskExecutor: one start per task, in order,
\* and every task that was submitted is run to its end.
Active   == {task[w] : w \in Busy}
Finished == {t \in Tasks : runs[t] > 0}
Executor == INSTANCE TaskExecutor WITH
    Width    <- Cardinality(Workers),
    backlog  <- queue,
    active   <- Active,
    finished <- Finished

ExecutorSpec == Executor!FairSpec
=============================================================================
