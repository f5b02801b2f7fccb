--------------------------- MODULE ThreadPoolProofs ---------------------------
(***************************************************************************)
(* What ThreadPool guarantees for every number of workers, clients and     *)
(* tasks, and whatever the destructor does meanwhile.  The inductive       *)
(* invariant is IInv; each of its parts is preserved given those before.   *)
(***************************************************************************)
EXTENDS ThreadPool, QueueLemmas, FiniteSetTheorems, SequenceTheorems, TLAPS

\* Parts of actions, opened wherever their actions are.
USE DEF Announce, Dequeue, KeepLock, BreakOut, Forget, WakeAll

\* Until the destructor clears running_, workers stay in the main loop and no
\* slot of the queue is empty; from then on no client is inside execute().
\* A worker is inside it only from a task.
PhaseInv ==
    /\ running <=> dpc = "alive"
    /\ running => /\ queue \in Seq(Tasks)
                  /\ \A w \in Workers : wpc[w] \in {"top", "park", "wait", "run"}
    /\ ~running => notifying \cap Clients = {}
    /\ notifying \cap Workers \subseteq Busy

TInv == TypeOK /\ PhaseInv

\* queue_mutex_ is held between two steps only by a worker that is about to
\* sleep, and nobody can have pushed since it found the queue empty.
ParkInv ==
    /\ \A w \in Workers : wpc[w] = "park" <=> mutex = w
    /\ \A w \in Workers : wpc[w] = "park" => queue = <<>>

FinInv == IsFiniteSet(notifying)

IInv == TInv /\ ParkInv /\ FinInv /\ NoStrandedTask /\ WorkConserving

-----------------------------------------------------------------------------
\* notify_one moves one sleeper, or nobody, to the top of its loop.
LEMMA Woken ==
  ASSUME NEW p, NotifyOne(p)
  PROVE  \/ Asleep = {} /\ wpc' = wpc
         \/ \E w \in Asleep : wpc' = [wpc EXCEPT ![w] = "top"]
BY DEF NotifyOne, Goto

LEMMA NextTInv == TInv /\ [Next]_vars => TInv'
<1> SUFFICES ASSUME TInv, [Next]_vars PROVE TInv'
  OBVIOUS
<1> USE PoolAssumption DEF TInv, TypeOK, PhaseInv, Busy, Goto
<1>1. ASSUME NEW p \in Threads, NotifyOne(p) PROVE TInv'
  <2>1. CASE Asleep = {} /\ wpc' = wpc
    BY <1>1, <2>1 DEF NotifyOne
  <2>2. ASSUME NEW w \in Asleep, wpc' = [wpc EXCEPT ![w] = "top"] PROVE TInv'
    BY <1>1, <2>2 DEF NotifyOne, Asleep
  <2> QED
    BY <1>1, <2>1, <2>2, Woken
<1>2. ASSUME NEW p \in Threads, NEW t \in Tasks, Push(p, t) PROVE TInv'
  BY <1>2 DEF Push, CanSubmit, Threads
<1>3. ASSUME NEW w \in Workers, Take(w) PROVE TInv'
  BY <1>3 DEF Take
<1>4. ASSUME NEW w \in Workers, Idle(w) PROVE TInv'
  BY <1>4 DEF Idle
<1>5. ASSUME NEW w \in Workers, Park(w) PROVE TInv'
  BY <1>5 DEF Park
<1>6. ASSUME NEW w \in Workers, SpuriousWake(w) PROVE TInv'
  BY <1>6 DEF SpuriousWake, Asleep
<1>7. ASSUME NEW w \in Workers, Leave(w) PROVE TInv'
  BY <1>7 DEF Leave
<1>8. ASSUME NEW w \in Workers, Finish(w) PROVE TInv'
  BY <1>8 DEF Finish
<1>9. ASSUME NEW w \in Workers, DrainTest(w) PROVE TInv'
  BY <1>9 DEF DrainTest
<1>10. ASSUME NEW w \in Workers, DrainMove(w) PROVE TInv'
  <2>1. /\ Head(queue) \in Tasks \cup {Null}
        /\ Tail(queue) \in Seq(Tasks \cup {Null})
    BY <1>10, HeadTailProperties DEF DrainMove
  <2>2. <<Null>> \o Tail(queue) \in Seq(Tasks \cup {Null})
    BY <2>1, ConcatProperties
  <2>3. queue' \in Seq(Tasks \cup {Null})
    BY <1>10, <2>2 DEF DrainMove
  <2> QED
    BY <1>10, <2>1, <2>3 DEF DrainMove
<1>11. ASSUME NEW w \in Workers, DrainPop(w) PROVE TInv'
  BY <1>11 DEF DrainPop
<1>12. ASSUME NEW w \in Workers, DrainEmpty(w) PROVE TInv'
  BY <1>12 DEF DrainEmpty
<1>13. CASE DtorStore
  BY <1>13 DEF DtorStore
<1>14. CASE DtorNotifyAll
  BY <1>14 DEF DtorNotifyAll, Asleep
<1>15. CASE DtorJoin
  BY <1>15 DEF DtorJoin
<1>16. CASE UNCHANGED vars
  BY <1>16 DEF vars
<1> QED
  BY <1>1, <1>2, <1>3, <1>4, <1>5, <1>6, <1>7, <1>8, <1>9, <1>10, <1>11,
     <1>12, <1>13, <1>14, <1>15, <1>16
     DEF Next, Service, MainLoop, DrainLoop, Dtor
-----------------------------------------------------------------------------
LEMMA NextParkInv == TInv /\ ParkInv /\ [Next]_vars => ParkInv'
<1> SUFFICES ASSUME TInv, ParkInv, [Next]_vars PROVE ParkInv'
  OBVIOUS
<1> USE PoolAssumption DEF TInv, TypeOK, ParkInv, Goto
<1>1. ASSUME NEW p \in Threads, NotifyOne(p) PROVE ParkInv'
  BY <1>1 DEF NotifyOne, Asleep
<1>2. ASSUME NEW p \in Threads, NEW t \in Tasks, Push(p, t) PROVE ParkInv'
  BY <1>2 DEF Push
<1>3. ASSUME NEW w \in Workers, Take(w) PROVE ParkInv'
  BY <1>3 DEF Take
<1>4. ASSUME NEW w \in Workers, Idle(w) PROVE ParkInv'
  BY <1>4 DEF Idle
<1>5. ASSUME NEW w \in Workers, Park(w) PROVE ParkInv'
  BY <1>5 DEF Park
<1>6. ASSUME NEW w \in Workers, SpuriousWake(w) PROVE ParkInv'
  BY <1>6 DEF SpuriousWake, Asleep
<1>7. ASSUME NEW w \in Workers, Leave(w) PROVE ParkInv'
  BY <1>7 DEF Leave
<1>8. ASSUME NEW w \in Workers, Finish(w) PROVE ParkInv'
  BY <1>8 DEF Finish, Busy
<1>9. ASSUME NEW w \in Workers, DrainTest(w) PROVE ParkInv'
  BY <1>9 DEF DrainTest
<1>10. ASSUME NEW w \in Workers, DrainMove(w) PROVE ParkInv'
  BY <1>10 DEF DrainMove
<1>11. ASSUME NEW w \in Workers, DrainPop(w) PROVE ParkInv'
  BY <1>11 DEF DrainPop
<1>12. ASSUME NEW w \in Workers, DrainEmpty(w) PROVE ParkInv'
  BY <1>12 DEF DrainEmpty
<1>13. CASE DtorStore
  BY <1>13 DEF DtorStore
<1>14. CASE DtorNotifyAll
  BY <1>14 DEF DtorNotifyAll, Asleep
<1>15. CASE DtorJoin
  BY <1>15 DEF DtorJoin
<1>16. CASE UNCHANGED vars
  BY <1>16 DEF vars
<1> QED
  BY <1>1, <1>2, <1>3, <1>4, <1>5, <1>6, <1>7, <1>8, <1>9, <1>10, <1>11,
     <1>12, <1>13, <1>14, <1>15, <1>16
     DEF Next, Service, MainLoop, DrainLoop, Dtor
-----------------------------------------------------------------------------
LEMMA NextNoStrandedTask ==
  TInv /\ ParkInv /\ NoStrandedTask /\ [Next]_vars => NoStrandedTask'
<1> SUFFICES ASSUME TInv, ParkInv, NoStrandedTask, [Next]_vars
             PROVE  NoStrandedTask'
  OBVIOUS
<1> USE PoolAssumption DEF TInv, TypeOK, PhaseInv, ParkInv, NoStrandedTask, Goto
<1>1. ASSUME NEW p \in Threads, NotifyOne(p) PROVE NoStrandedTask'
  <2>1. CASE Asleep = {} /\ wpc' = wpc
    <3>1. p \in Workers => wpc[p] \in {"run", "rerun"}
      BY <1>1 DEF NotifyOne, Busy
    <3>2. p \in Clients => \A w \in Workers : wpc[w] \notin {"wait", "done"}
      BY <1>1, <2>1 DEF NotifyOne, Asleep
    <3> QED
      BY <1>1, <2>1, <3>1, <3>2 DEF Threads, NotifyOne
  <2>2. ASSUME NEW w \in Asleep, wpc' = [wpc EXCEPT ![w] = "top"]
        PROVE  NoStrandedTask'
    BY <1>1, <2>2 DEF NotifyOne, Asleep
  <2> QED
    BY <1>1, <2>1, <2>2, Woken
<1>2. ASSUME NEW p \in Threads, NEW t \in Tasks, Push(p, t) PROVE NoStrandedTask'
  BY <1>2 DEF Push
<1>3. ASSUME NEW w \in Workers, Take(w) PROVE NoStrandedTask'
  BY <1>3 DEF Take
<1>4. ASSUME NEW w \in Workers, Idle(w) PROVE NoStrandedTask'
  BY <1>4 DEF Idle
<1>5. ASSUME NEW w \in Workers, Park(w) PROVE NoStrandedTask'
  BY <1>5 DEF Park
<1>6. ASSUME NEW w \in Workers, SpuriousWake(w) PROVE NoStrandedTask'
  BY <1>6 DEF SpuriousWake, Asleep
<1>7. ASSUME NEW w \in Workers, Leave(w) PROVE NoStrandedTask'
  BY <1>7 DEF Leave
<1>8. ASSUME NEW w \in Workers, Finish(w) PROVE NoStrandedTask'
  BY <1>8 DEF Finish, Busy
<1>9. ASSUME NEW w \in Workers, DrainTest(w) PROVE NoStrandedTask'
  BY <1>9 DEF DrainTest
<1>10. ASSUME NEW w \in Workers, DrainMove(w) PROVE NoStrandedTask'
  BY <1>10 DEF DrainMove
<1>11. ASSUME NEW w \in Workers, DrainPop(w) PROVE NoStrandedTask'
  BY <1>11 DEF DrainPop
<1>12. ASSUME NEW w \in Workers, DrainEmpty(w) PROVE NoStrandedTask'
  BY <1>12 DEF DrainEmpty
<1>13. CASE DtorStore
  BY <1>13 DEF DtorStore
<1>14. CASE DtorNotifyAll
  BY <1>14 DEF DtorNotifyAll, Asleep
<1>15. CASE DtorJoin
  BY <1>15 DEF DtorJoin
<1>16. CASE UNCHANGED vars
  BY <1>16 DEF vars
<1> QED
  BY <1>1, <1>2, <1>3, <1>4, <1>5, <1>6, <1>7, <1>8, <1>9, <1>10, <1>11,
     <1>12, <1>13, <1>14, <1>15, <1>16
     DEF Next, Service, MainLoop, DrainLoop, Dtor
-----------------------------------------------------------------------------
LEMMA NextFinInv == FinInv /\ [Next]_vars => FinInv'
<1> USE DEF FinInv
<1>1. ASSUME FinInv, NEW p
      PROVE  IsFiniteSet(notifying \cup {p}) /\ IsFiniteSet(notifying \ {p})
  BY <1>1, FS_AddElement, FS_RemoveElement
<1> QED
  BY <1>1 DEF Next, Service, MainLoop, DrainLoop, Dtor, vars, Push, NotifyOne,
     Take, Idle, Park, SpuriousWake, Leave, Finish, DrainTest, DrainMove,
     DrainPop, DrainEmpty, DtorStore, DtorNotifyAll, DtorJoin

\* A worker that arrives at the top of its loop, or leaves it, is one more or
\* one less there.
LEMMA TopCount ==
  ASSUME NEW w \in Workers
  PROVE  /\ AtTop' = AtTop \cup {w} /\ w \notin AtTop
             => Cardinality(AtTop') = Cardinality(AtTop) + 1
         /\ AtTop' = AtTop \ {w} /\ w \in AtTop
             => Cardinality(AtTop') = Cardinality(AtTop) - 1
<1>1. IsFiniteSet(AtTop)
  BY PoolAssumption, FS_Subset DEF AtTop
<1> QED
  BY <1>1, FS_AddElement, FS_RemoveElement

LEMMA NextWorkConserving ==
  TInv /\ ParkInv /\ FinInv /\ WorkConserving /\ [Next]_vars => WorkConserving'
<1> SUFFICES ASSUME TInv, ParkInv, FinInv, WorkConserving, [Next]_vars
             PROVE  WorkConserving'
  OBVIOUS
<1>0. /\ Cardinality(AtTop) \in Nat /\ Cardinality(notifying) \in Nat
      /\ Cardinality(AtTop') \in Nat /\ Cardinality(notifying') \in Nat
  <2>1. IsFiniteSet(AtTop) /\ IsFiniteSet(AtTop')
    BY PoolAssumption, FS_Subset DEF AtTop
  <2>2. IsFiniteSet(notifying) /\ IsFiniteSet(notifying')
    BY NextFinInv DEF FinInv
  <2> QED
    BY <2>1, <2>2, FS_CardinalityType
<1> USE PoolAssumption, <1>0
    DEF TInv, TypeOK, PhaseInv, ParkInv, WorkConserving, Asleep, Goto
<1>1. ASSUME NEW p \in Threads, NotifyOne(p) PROVE WorkConserving'
  <2>1. CASE Asleep = {} /\ wpc' = wpc
    BY <1>1, <2>1
  <2>2. ASSUME NEW w \in Asleep, wpc' = [wpc EXCEPT ![w] = "top"]
        PROVE  WorkConserving'
    <3>1. Cardinality(AtTop') = Cardinality(AtTop) + 1
      BY <2>2, TopCount DEF AtTop
    <3>2. Cardinality(notifying') = Cardinality(notifying) - 1
      BY <1>1, FS_RemoveElement DEF NotifyOne, FinInv
    <3> QED
      BY <1>1, <2>2, <3>1, <3>2 DEF NotifyOne
  <2> QED
    BY <1>1, <2>1, <2>2, Woken DEF NotifyOne
<1>2. ASSUME NEW p \in Threads, NEW t \in Tasks, Push(p, t) PROVE WorkConserving'
  <2>1. Len(queue') = Len(queue) + 1
    BY <1>2 DEF Push
  <2>2. Cardinality(notifying') = Cardinality(notifying) + 1
    BY <1>2, FS_AddElement DEF Push, CanSubmit, FinInv
  <2> QED
    BY <1>2, <2>1, <2>2 DEF Push, AtTop
<1>3. ASSUME NEW w \in Workers, Take(w) PROVE WorkConserving'
  <2>1. Len(queue') = Len(queue) - 1
    BY <1>3 DEF Take
  <2>2. Cardinality(AtTop') = Cardinality(AtTop) - 1
    BY <1>3, TopCount DEF Take, AtTop
  <2> QED
    BY <1>3, <2>1, <2>2 DEF Take
<1>4. ASSUME NEW w \in Workers, Idle(w) PROVE WorkConserving'
  BY <1>4 DEF Idle
<1>5. ASSUME NEW w \in Workers, Park(w) PROVE WorkConserving'
  BY <1>5 DEF Park
<1>6. ASSUME NEW w \in Workers, SpuriousWake(w) PROVE WorkConserving'
  <2>1. Cardinality(AtTop') = Cardinality(AtTop) + 1
    BY <1>6, TopCount DEF SpuriousWake, AtTop
  <2> QED
    BY <1>6, <2>1 DEF SpuriousWake
<1>7. ASSUME NEW w \in Workers, Leave(w) PROVE WorkConserving'
  BY <1>7 DEF Leave
<1>8. ASSUME NEW w \in Workers, Finish(w) PROVE WorkConserving'
  <2>1. CASE running
    <3>1. Cardinality(AtTop') = Cardinality(AtTop) + 1
      BY <1>8, <2>1, TopCount DEF Finish, Busy, AtTop
    <3> QED
      BY <1>8, <3>1 DEF Finish, Busy
  <2>2. CASE ~running
    BY <1>8, <2>2 DEF Finish
  <2> QED
    BY <2>1, <2>2
<1>9. ASSUME NEW w \in Workers, DrainTest(w) PROVE WorkConserving'
  BY <1>9 DEF DrainTest
<1>10. ASSUME NEW w \in Workers, DrainMove(w) PROVE WorkConserving'
  BY <1>10 DEF DrainMove
<1>11. ASSUME NEW w \in Workers, DrainPop(w) PROVE WorkConserving'
  BY <1>11 DEF DrainPop
<1>12. ASSUME NEW w \in Workers, DrainEmpty(w) PROVE WorkConserving'
  BY <1>12 DEF DrainEmpty
<1>13. CASE DtorStore
  BY <1>13 DEF DtorStore
<1>14. CASE DtorNotifyAll
  BY <1>14 DEF DtorNotifyAll
<1>15. CASE DtorJoin
  BY <1>15 DEF DtorJoin
<1>16. CASE UNCHANGED vars
  BY <1>16 DEF vars, AtTop
<1> QED
  BY <1>1, <1>2, <1>3, <1>4, <1>5, <1>6, <1>7, <1>8, <1>9, <1>10, <1>11,
     <1>12, <1>13, <1>14, <1>15, <1>16
     DEF Next, Service, MainLoop, DrainLoop, Dtor
-----------------------------------------------------------------------------
LEMMA InitIInv == Init => IInv
<1> SUFFICES ASSUME Init PROVE IInv
  OBVIOUS
<1> USE PoolAssumption DEF Init
<1>1. TInv
  BY DEF TInv, TypeOK, PhaseInv
<1>2. ParkInv /\ FinInv /\ NoStrandedTask
  BY FS_EmptySet DEF ParkInv, FinInv, NoStrandedTask
<1>3. WorkConserving
  BY DEF WorkConserving, Asleep
<1> QED
  BY <1>1, <1>2, <1>3 DEF IInv

THEOREM Invariance == Spec => []IInv
<1>1. IInv /\ [Next]_vars => IInv'
  BY NextTInv, NextParkInv, NextFinInv, NextNoStrandedTask, NextWorkConserving
     DEF IInv
<1> QED
  BY InitIInv, <1>1, PTL DEF Spec

\* Every variable keeps its type, and the local variable task holds a callable
\* exactly while worker_loop() runs one.
THEOREM TypeCorrect == Spec => []TypeOK
<1>1. IInv => TypeOK
  BY DEF IInv, TInv
<1> QED
  BY Invariance, <1>1, PTL

\* However the destructor interferes, the mutex and the predicate of the wait
\* are enough for no accepted task to be left with only sleeping or finished
\* workers and nobody about to notify.
THEOREM NeverStranded == Spec => []NoStrandedTask
<1>1. IInv => NoStrandedTask
  BY DEF IInv
<1> QED
  BY Invariance, <1>1, PTL

\* One notify_one per push is enough: while running_ is set, tasks do not
\* outnumber the workers on their way to the queue as long as one sleeps.
THEOREM NoIdleWorker == Spec => []WorkConserving
<1>1. IInv => WorkConserving
  BY DEF IInv
<1> QED
  BY Invariance, <1>1, PTL
-----------------------------------------------------------------------------
(* Each task is run once, unless two workers race in their drain loops.    *)

InHand(t) == \E w \in Workers : task[w] = t

\* A task is in the queue, or in the hand of a worker, or was run, and that
\* once.
OnceInv ==
    /\ \A t \in pushed : t \in Range(queue) \/ InHand(t) \/ runs[t] = 1
    /\ \A t \in Tasks : t \in Range(queue) => t \in pushed /\ ~InHand(t) /\ runs[t] = 0
    /\ \A t \in Tasks : InHand(t) => t \in pushed /\ runs[t] = 0
    /\ \A t \in Tasks : runs[t] # 0 => t \in pushed /\ runs[t] = 1
    /\ IsInjective(queue)
    /\ \A v, w \in Workers : task[v] = task[w] /\ task[v] # Null => v = w

\* An empty slot is at the front, where the worker that emptied it will pop it.
DrainInv ==
    /\ \A w \in Workers : wpc[w] = "pop" => queue # <<>> /\ Head(queue) = Null
    /\ \A w \in Workers : wpc[w] = "move" => queue # <<>>
    /\ Null \in Range(queue) => \E w \in Workers : wpc[w] = "pop"
    /\ \A w \in Workers : wpc[w] # "crashed"
    /\ dpc = "gone" => \A w \in Workers : wpc[w] = "done"

DInv == OnceInv /\ DrainInv

\* Steps that leave queue, hands and history alone, and are not about the
\* drain loops.
LEMMA DFrame ==
  ASSUME DInv, UNCHANGED <<queue, task, pushed, runs>>, DrainInv'
  PROVE  DInv'
BY DEF DInv, OnceInv, InHand

LEMMA DMoves ==
  ASSUME TInv, DInv, NEW w \in Workers, NEW label, Goto(w, label),
         wpc[w] \notin {"pop", "done"}, label \notin {"move", "pop", "crashed"},
         UNCHANGED <<queue, task, pushed, runs, dpc>>
  PROVE  DInv'
<1>1. DrainInv'
  BY DEF TInv, TypeOK, DInv, DrainInv, Goto
<1> QED
  BY <1>1, DFrame

LEMMA DPush ==
  ASSUME TInv, DInv, NEW p \in Threads, NEW t \in Tasks, Push(p, t)
  PROVE  DInv'
<1>1. /\ queue \in Seq(Tasks \cup {Null}) /\ t \notin pushed /\ t # Null
      /\ queue' = Append(queue, t) /\ pushed' = pushed \cup {t}
      /\ UNCHANGED <<wpc, task, dpc, runs>>
  BY PoolAssumption DEF Push, TInv, TypeOK
<1>2. t \notin Range(queue) /\ ~InHand(t) /\ runs[t] = 0
  BY <1>1 DEF DInv, OnceInv
<1>3. /\ Range(queue') = Range(queue) \cup {t} /\ IsInjective(queue')
      /\ queue # <<>> => Head(queue') = Head(queue)
      /\ queue' # <<>>
  BY <1>1, <1>2, Appended DEF DInv, OnceInv
<1>4. OnceInv'
  BY <1>1, <1>2, <1>3 DEF DInv, OnceInv, InHand
<1>5. DrainInv'
  BY <1>1, <1>3 DEF DInv, DrainInv
<1> QED
  BY <1>4, <1>5 DEF DInv

LEMMA DTake ==
  ASSUME TInv, DInv, NEW w \in Workers, Take(w)
  PROVE  DInv'
<1> DEFINE h == Head(queue)
<1>1. /\ queue \in Seq(Tasks) /\ queue # <<>> /\ IsInjective(queue) /\ dpc # "gone"
      /\ \A v \in Workers : wpc[v] \in {"top", "park", "wait", "run"}
      /\ wpc[w] = "top" /\ task[w] = Null
  BY DEF Take, TInv, TypeOK, PhaseInv, DInv, OnceInv
<1>2. /\ queue' = Tail(queue) /\ task' = [task EXCEPT ![w] = h]
      /\ wpc' = [wpc EXCEPT ![w] = "run"]
      /\ UNCHANGED <<pushed, runs, dpc>>
  BY DEF Take, Goto
<1>3. /\ h \in Tasks /\ h \in Range(queue) /\ IsInjective(Tail(queue))
      /\ Range(Tail(queue)) = Range(queue) \ {h}
  BY <1>1, Shifted
<1> HIDE DEF h
<1>4. /\ Range(queue') = Range(queue) \ {h} /\ IsInjective(queue')
      /\ h \in pushed /\ ~InHand(h) /\ runs[h] = 0
  BY <1>2, <1>3 DEF DInv, OnceInv
<1>5. \A t \in Tasks : InHand(t)' <=> InHand(t) \/ t = h
  BY <1>1, <1>2, PoolAssumption DEF TInv, TypeOK, InHand
<1>6. OnceInv'
  <2>1. ASSUME NEW u \in Workers, NEW v \in Workers, task'[u] = task'[v], task'[u] # Null
        PROVE  u = v
    <3>1. \A x \in Workers : task[x] # h
      BY <1>4 DEF InHand
    <3> QED
      BY <1>2, <2>1, <3>1 DEF TInv, TypeOK, DInv, OnceInv
  <2>2. \A t \in pushed' : t \in Range(queue') \/ InHand(t)' \/ runs'[t] = 1
    BY <1>2, <1>4, <1>5 DEF DInv, OnceInv, TInv, TypeOK
  <2> QED
    BY <1>2, <1>4, <1>5, <2>1, <2>2 DEF DInv, OnceInv
<1>7. DrainInv'
  <2>1. Null \notin Range(queue)
    BY <1>1 DEF DInv, DrainInv
  <2> QED
    BY <1>1, <1>2, <1>4, <2>1 DEF DrainInv, TInv, TypeOK
<1> QED
  BY <1>6, <1>7 DEF DInv

LEMMA DFinish ==
  ASSUME TInv, DInv, NEW w \in Workers, Finish(w)
  PROVE  DInv'
<1> DEFINE t == task[w]
<1>1. /\ wpc[w] \in {"run", "rerun"} /\ t \in Tasks /\ t # Null
  BY DEF Finish, Busy, TInv, TypeOK
<1>2. /\ runs' = [runs EXCEPT ![t] = @ + 1] /\ task' = [task EXCEPT ![w] = Null]
      /\ Goto(w, IF wpc[w] = "run" THEN "top" ELSE "drain")
      /\ UNCHANGED <<queue, dpc, pushed>>
  BY DEF Finish
<1>3. /\ InHand(t) /\ t \in pushed /\ runs[t] = 0 /\ t \notin Range(queue)
      /\ \A v \in Workers : task[v] = t => v = w
  BY <1>1 DEF InHand, DInv, OnceInv
<1> HIDE DEF t
<1>4. \A s \in Tasks : InHand(s)' <=> InHand(s) /\ s # t
  <2>1. task'[w] = Null /\ \A v \in Workers : v # w => task'[v] = task[v]
    BY <1>2 DEF TInv, TypeOK
  <2> QED
    BY <1>3, <2>1, PoolAssumption DEF InHand, t
<1>5. runs'[t] = 1 /\ \A s \in Tasks : s # t => runs'[s] = runs[s]
  BY <1>1, <1>2, <1>3 DEF TInv, TypeOK
<1>6. OnceInv'
  <2>1. ASSUME NEW u \in Workers, NEW v \in Workers, task'[u] = task'[v], task'[u] # Null
        PROVE  u = v
    BY <1>2, <2>1 DEF TInv, TypeOK, DInv, OnceInv
  <2>2. \A s \in pushed' : s \in Range(queue') \/ InHand(s)' \/ runs'[s] = 1
    BY <1>2, <1>4, <1>5 DEF DInv, OnceInv, TInv, TypeOK
  <2> QED
    BY <1>2, <1>3, <1>4, <1>5, <2>1, <2>2 DEF DInv, OnceInv
<1>7. DrainInv'
  BY <1>1, <1>2 DEF DInv, DrainInv, TInv, TypeOK, Goto
<1> QED
  BY <1>6, <1>7 DEF DInv

\* Alone in its drain loop, a worker empties the slot and then pops it.
LEMMA DDrainMove ==
  ASSUME TInv, DInv, ~Racing, NEW w \in Workers, DrainMove(w)
  PROVE  DInv'
<1> DEFINE h == Head(queue)
           z == <<Null>> \o Tail(queue)
<1>0. \A v \in Workers \ {w} : wpc[v] \notin {"move", "pop"}
  BY DEF Racing, DrainMove
<1>1. /\ queue \in Seq(Tasks \cup {Null}) /\ queue # <<>> /\ IsInjective(queue)
      /\ wpc[w] = "move" /\ task[w] = Null
  BY DEF DrainMove, TInv, TypeOK, DInv, OnceInv
<1>2. Null \notin Range(queue)
  BY <1>0, <1>1 DEF DInv, DrainInv
<1>3. /\ queue' = z /\ task' = [task EXCEPT ![w] = h]
      /\ wpc' = [wpc EXCEPT ![w] = "pop"]
      /\ UNCHANGED <<pushed, runs, dpc>>
  BY <1>0 DEF DrainMove, Goto
<1>4. /\ Range(z) = (Range(queue) \ {h}) \cup {Null} /\ IsInjective(z)
      /\ z # <<>> /\ Head(z) = Null
  BY <1>1, <1>2, Emptied
<1>5. h \in Tasks /\ h \in Range(queue)
  BY <1>1, <1>2, Shifted
<1> HIDE DEF h, z
<1>6. h \in pushed /\ ~InHand(h) /\ runs[h] = 0
  BY <1>5 DEF DInv, OnceInv
<1>7. \A t \in Tasks : InHand(t)' <=> InHand(t) \/ t = h
  BY <1>1, <1>3, PoolAssumption DEF TInv, TypeOK, InHand
<1>8. \A t \in Tasks : t \in Range(queue') <=> t \in Range(queue) /\ t # h
  BY <1>3, <1>4, PoolAssumption
<1>9. OnceInv'
  <2>1. ASSUME NEW u \in Workers, NEW v \in Workers, task'[u] = task'[v], task'[u] # Null
        PROVE  u = v
    <3>1. \A x \in Workers : task[x] # h
      BY <1>6 DEF InHand
    <3> QED
      BY <1>3, <2>1, <3>1 DEF TInv, TypeOK, DInv, OnceInv
  <2>2. \A t \in pushed' : t \in Range(queue') \/ InHand(t)' \/ runs'[t] = 1
    BY <1>3, <1>7, <1>8 DEF DInv, OnceInv, TInv, TypeOK
  <2> QED
    BY <1>3, <1>4, <1>6, <1>7, <1>8, <2>1, <2>2 DEF DInv, OnceInv
<1>10. DrainInv'
  BY <1>0, <1>1, <1>3, <1>4 DEF DInv, DrainInv, TInv, TypeOK
<1> QED
  BY <1>9, <1>10 DEF DInv

LEMMA DDrainPop ==
  ASSUME TInv, DInv, ~Racing, NEW w \in Workers, DrainPop(w)
  PROVE  DInv'
<1>0. \A v \in Workers \ {w} : wpc[v] \notin {"move", "pop"}
  BY DEF Racing, DrainPop
<1>1. /\ queue \in Seq(Tasks \cup {Null}) /\ queue # <<>> /\ IsInjective(queue)
      /\ wpc[w] = "pop" /\ Head(queue) = Null /\ dpc # "gone"
  BY DEF DrainPop, TInv, TypeOK, DInv, OnceInv, DrainInv
<1>2. /\ queue' = Tail(queue)
      /\ Goto(w, IF task[w] = Null THEN "drain" ELSE "rerun")
      /\ UNCHANGED <<task, pushed, runs, dpc>>
  BY DEF DrainPop
<1>3. Range(queue') = Range(queue) \ {Null} /\ IsInjective(queue')
  BY <1>1, <1>2, Shifted
<1>4. OnceInv'
  <2>1. \A t \in Tasks : t \in Range(queue') <=> t \in Range(queue)
    BY <1>3, PoolAssumption
  <2>2. \A t \in Tasks : InHand(t)' <=> InHand(t)
    BY <1>2 DEF InHand
  <2>3. pushed \subseteq Tasks /\ UNCHANGED <<task, pushed, runs>>
    BY <1>2 DEF TInv, TypeOK
  <2> QED
    BY <1>3, <2>1, <2>2, <2>3 DEF DInv, OnceInv
<1>5. DrainInv'
  BY <1>0, <1>1, <1>2, <1>3 DEF DInv, DrainInv, TInv, TypeOK, Goto
<1> QED
  BY <1>4, <1>5 DEF DInv

\* Nobody else pops what a worker is about to pop, or still finds it there.
LEMMA NoDrainEmpty ==
  ASSUME DInv, NEW w \in Workers, DrainEmpty(w)
  PROVE  FALSE
BY DEF DInv, DrainInv, DrainEmpty

LEMMA NextDInv == TInv /\ DInv /\ ~Racing /\ [Next]_vars => DInv'
<1> SUFFICES ASSUME TInv, DInv, ~Racing, [Next]_vars PROVE DInv'
  OBVIOUS
<1>1. ASSUME NEW p \in Threads, NotifyOne(p) PROVE DInv'
  <2>1. CASE Asleep = {} /\ wpc' = wpc
    BY <1>1, <2>1, DFrame DEF NotifyOne, DInv, DrainInv
  <2>2. ASSUME NEW w \in Asleep, wpc' = [wpc EXCEPT ![w] = "top"] PROVE DInv'
    BY <1>1, <2>2, DMoves DEF NotifyOne, Asleep, Goto
  <2> QED
    BY <1>1, <2>1, <2>2, Woken
<1>2. ASSUME NEW p \in Threads, NEW t \in Tasks, Push(p, t) PROVE DInv'
  BY <1>2, DPush
<1>3. ASSUME NEW w \in Workers, Take(w) PROVE DInv'
  BY <1>3, DTake
<1>4. ASSUME NEW w \in Workers, Idle(w) \/ Park(w) \/ SpuriousWake(w) \/ Leave(w)
      PROVE  DInv'
  BY <1>4, DMoves DEF Idle, Park, SpuriousWake, Leave, Asleep
<1>5. ASSUME NEW w \in Workers, Finish(w) PROVE DInv'
  BY <1>5, DFinish
<1>6. ASSUME NEW w \in Workers, DrainTest(w) PROVE DInv'
  <2>1. CASE queue = <<>>
    BY <1>6, <2>1, DMoves DEF DrainTest
  <2>2. CASE queue # <<>>
    <3>1. DrainInv'
      BY <1>6, <2>2 DEF DrainTest, Goto, DInv, DrainInv, TInv, TypeOK
    <3> QED
      BY <1>6, <3>1, DFrame DEF DrainTest
  <2> QED
    BY <2>1, <2>2
<1>7. ASSUME NEW w \in Workers, DrainMove(w) PROVE DInv'
  BY <1>7, DDrainMove
<1>8. ASSUME NEW w \in Workers, DrainPop(w) PROVE DInv'
  BY <1>8, DDrainPop
<1>9. CASE DtorStore \/ DtorJoin
  BY <1>9, DFrame DEF DtorStore, DtorJoin, DInv, DrainInv
<1>10. CASE DtorNotifyAll
  <2>1. DrainInv'
    BY <1>10 DEF DtorNotifyAll, DInv, DrainInv, TInv, TypeOK, Asleep
  <2> QED
    BY <1>10, <2>1, DFrame DEF DtorNotifyAll
<1>11. CASE UNCHANGED vars
  BY <1>11, DFrame DEF vars, DInv, DrainInv
<1> QED
  BY <1>1, <1>2, <1>3, <1>4, <1>5, <1>6, <1>7, <1>8, <1>9, <1>10, <1>11,
     NoDrainEmpty DEF Next, Service, MainLoop, DrainLoop, Dtor

LEMMA InitDInv == Init => DInv
<1> SUFFICES ASSUME Init PROVE DInv
  OBVIOUS
<1>1. queue = <<>> /\ Range(queue) = {} /\ IsInjective(queue)
  BY DEF Init, Range, IsInjective
<1>2. OnceInv
  BY <1>1, PoolAssumption DEF Init, OnceInv, InHand
<1>3. DrainInv
  BY <1>1 DEF Init, DrainInv
<1> QED
  BY <1>2, <1>3 DEF DInv

LEMMA ExitRun == IInv /\ DInv => AllRunAtExit
<1> SUFFICES ASSUME IInv, DInv, dpc = "gone"
             PROVE  queue = <<>> /\ \A t \in pushed : runs[t] = 1
  BY DEF AllRunAtExit
<1>1. \A w \in Workers : wpc[w] = "done" /\ task[w] = Null
  BY DEF IInv, TInv, TypeOK, DInv, DrainInv
<1>2. notifying = {}
  BY <1>1 DEF IInv, TInv, TypeOK, PhaseInv, Threads, Busy
<1>3. queue = <<>> /\ Range(queue) = {}
  BY <1>1, <1>2 DEF IInv, NoStrandedTask, Range
<1>4. \A t \in pushed : ~InHand(t)
  BY <1>1, PoolAssumption DEF InHand, IInv, TInv, TypeOK
<1> QED
  BY <1>3, <1>4 DEF DInv, OnceInv

\* ~thrdpool leaves no task that execute() accepted unrun, and runs none of
\* them twice, unless two workers were at some time between the test of the
\* queue and the pop in the loop that drains it without the mutex.
THEOREM DestructorDrains == Spec => AllRunUnlessRacing
<1>1. IInv /\ DInv /\ ~Racing /\ [Next]_vars => DInv'
  BY NextDInv DEF IInv
<1> QED
  BY Invariance, InitDInv, <1>1, ExitRun, PTL DEF Spec, AllRunUnlessRacing
-----------------------------------------------------------------------------
(* As long as nobody destroys it, the pool is a TaskExecutor.              *)

SInv == TInv /\ DInv /\ running

LEMMA InService ==
  ASSUME SInv
  PROVE  /\ ~Racing
         /\ \A w \in Workers : wpc[w] \in {"top", "park", "wait", "run"}
BY DEF SInv, TInv, PhaseInv, Racing

\* The tasks being run are those in the hand of a worker.
LEMMA ActiveInHand ==
  ASSUME SInv
  PROVE  /\ \A t \in Tasks : t \in Active <=> InHand(t)
         /\ Active \subseteq Tasks
         /\ \A w \in Workers : w \in Busy <=> task[w] # Null
BY InService, PoolAssumption DEF SInv, TInv, TypeOK, Active, Busy, InHand

LEMMA NextSInv == SInv /\ [Service]_vars => SInv'
<1> SUFFICES ASSUME SInv, [Service]_vars PROVE SInv'
  OBVIOUS
<1>1. [Next]_vars
  BY DEF Next
<1>2. TInv' /\ DInv'
  BY <1>1, InService, NextTInv, NextDInv DEF SInv
<1>3. running'
  BY DEF SInv, Service, MainLoop, vars, NotifyOne, Push, Take, Idle, Park,
     Leave, Finish, SpuriousWake
<1> QED
  BY <1>2, <1>3 DEF SInv

\* A worker that is not running a task makes room for one more.
LEMMA RoomLeft ==
  ASSUME SInv, NEW w \in Workers \ Busy
  PROVE  Cardinality(Active) < Cardinality(Workers)
<1> DEFINE f == [v \in Busy |-> task[v]]
<1>1. f \in Surjection(Busy, Active)
  BY DEF Surjection, Active
<1>2. Busy \subseteq Workers \ {w}
  BY DEF Busy
<1>3. /\ IsFiniteSet(Workers \ {w})
      /\ Cardinality(Workers \ {w}) = Cardinality(Workers) - 1
      /\ Cardinality(Workers) \in Nat
  BY PoolAssumption, FS_RemoveElement, FS_CardinalityType
<1>4. IsFiniteSet(Busy) /\ Cardinality(Busy) <= Cardinality(Workers \ {w})
  BY <1>2, <1>3, FS_Subset
<1>5. IsFiniteSet(Active) /\ Cardinality(Active) <= Cardinality(Busy)
  BY <1>1, <1>4, FS_Surjection
<1>6. Cardinality(Active) \in Nat /\ Cardinality(Busy) \in Nat
  BY <1>4, <1>5, FS_CardinalityType
<1> QED
  BY <1>3, <1>4, <1>5, <1>6

\* A step that changes no queue, hand or history is a stutter.
LEMMA Stutters ==
  ASSUME SInv, SInv', UNCHANGED <<queue, task, runs>>
  PROVE  UNCHANGED <<queue, Active, Finished>>
<1>1. \A w \in Workers : w \in Busy' <=> w \in Busy
  BY DEF SInv, TInv, TypeOK, PhaseInv, Busy
<1>2. Busy' = Busy
  BY <1>1 DEF Busy
<1> QED
  BY <1>2 DEF Active, Finished

LEMMA PushMaps ==
  ASSUME SInv, SInv', NEW p \in Threads, NEW t \in Tasks, Push(p, t)
  PROVE  Executor!Submit(t)
<1>1. /\ t \notin pushed /\ queue' = Append(queue, t)
      /\ UNCHANGED <<wpc, task, runs>>
  BY DEF Push
<1>2. t \notin Range(queue) /\ ~InHand(t) /\ runs[t] = 0
  BY <1>1 DEF SInv, DInv, OnceInv
<1>3. t \notin Executor!Submitted
  BY <1>2, ActiveInHand DEF Executor!Submitted, Range, Finished
<1>4. Active' = Active /\ Finished' = Finished
  BY <1>1 DEF Active, Busy, Finished
<1> QED
  BY <1>1, <1>3, <1>4 DEF Executor!Submit

LEMMA TakeMaps ==
  ASSUME SInv, SInv', NEW w \in Workers, Take(w)
  PROVE  Executor!Start
<1> DEFINE h == Head(queue)
<1>1. /\ queue # <<>> /\ queue' = Tail(queue) /\ UNCHANGED runs
      /\ wpc[w] = "top" /\ wpc' = [wpc EXCEPT ![w] = "run"]
      /\ task' = [task EXCEPT ![w] = h]
  BY DEF Take, Goto
<1> HIDE DEF h
<1>2. Cardinality(Active) < Cardinality(Workers)
  BY <1>1, RoomLeft DEF Busy
<1>3. Busy' = Busy \cup {w} /\ w \notin Busy /\ task'[w] = h
      /\ \A v \in Busy : task'[v] = task[v]
  BY <1>1 DEF Busy, SInv, TInv, TypeOK
<1>4. Active' = Active \cup {h}
  BY <1>3 DEF Active
<1>5. Finished' = Finished
  BY <1>1 DEF Finished
<1>6. Active' = Active \cup {Head(queue)}
  BY <1>4 DEF h
<1>7. queue # <<>> /\ queue' = Tail(queue)
  BY DEF Take
<1> QED
  BY <1>2, <1>5, <1>6, <1>7 DEF Executor!Start, Executor!Cardinality, Cardinality

LEMMA FinishMaps ==
  ASSUME SInv, SInv', NEW w \in Workers, Finish(w)
  PROVE  Executor!Finish(task[w]) /\ task[w] \in Tasks
<1> DEFINE t == task[w]
<1>1. /\ w \in Busy /\ wpc[w] = "run" /\ t \in Tasks /\ UNCHANGED queue
      /\ runs' = [runs EXCEPT ![t] = @ + 1] /\ task' = [task EXCEPT ![w] = Null]
      /\ wpc' = [wpc EXCEPT ![w] = "top"]
  BY InService DEF Finish, Busy, Goto, SInv, TInv, TypeOK
<1>2. t \in Active
  BY <1>1 DEF Active
<1>3. \A v \in Busy : task[v] = t => v = w
  BY <1>1, PoolAssumption DEF SInv, DInv, OnceInv, Busy
<1> HIDE DEF t
<1>4. Busy' = Busy \ {w} /\ \A v \in Busy' : task'[v] = task[v]
  BY <1>1 DEF Busy, SInv, TInv, TypeOK
<1>5. Active' = Active \ {t}
  <2>1. Active' = {task[v] : v \in Busy \ {w}}
    BY <1>4 DEF Active
  <2> QED
    BY <1>3, <2>1 DEF Active, t
<1>6. Finished' = Finished \cup {t}
  BY <1>1 DEF Finished, SInv, TInv, TypeOK
<1> QED
  BY <1>1, <1>2, <1>5, <1>6 DEF Executor!Finish, t

LEMMA ServiceMaps ==
  SInv /\ SInv' /\ [Service]_vars => [Executor!Next]_(Executor!vars)
<1> SUFFICES ASSUME SInv, SInv', [Service]_vars
             PROVE  Executor!Next \/ UNCHANGED <<queue, Active, Finished>>
  BY DEF Executor!vars
<1>1. ASSUME NEW p \in Threads, NotifyOne(p)
      PROVE  UNCHANGED <<queue, Active, Finished>>
  BY <1>1, Stutters DEF NotifyOne
<1>2. ASSUME NEW p \in Threads, NEW t \in Tasks, Push(p, t) PROVE Executor!Next
  BY <1>2, PushMaps DEF Executor!Next
<1>3. ASSUME NEW w \in Workers, Take(w) PROVE Executor!Next
  BY <1>3, TakeMaps DEF Executor!Next
<1>4. ASSUME NEW w \in Workers, Finish(w) PROVE Executor!Next
  BY <1>4, FinishMaps DEF Executor!Next
<1>5. ASSUME NEW w \in Workers, Idle(w) \/ Park(w) \/ Leave(w) \/ SpuriousWake(w)
      PROVE  UNCHANGED <<queue, Active, Finished>>
  BY <1>5, Stutters DEF Idle, Park, Leave, SpuriousWake
<1>6. CASE UNCHANGED vars
  BY <1>6, Stutters DEF vars
<1> QED
  BY <1>1, <1>2, <1>3, <1>4, <1>5, <1>6 DEF Service, MainLoop

\* While it is in service the pool implements TaskExecutor: a task starts once,
\* in the order of execute(), on one of Cardinality(Workers) threads.
THEOREM ImplementsExecutor == ServiceSpec => Executor!Spec
<1>1. Init => SInv
  BY InitIInv, InitDInv DEF IInv, SInv, Init
<1>2. Init => Executor!Init
  BY DEF Init, Executor!Init, Active, Busy, Finished
<1> QED
  BY <1>1, <1>2, NextSInv, ServiceMaps, PTL DEF ServiceSpec, Executor!Spec
=============================================================================
