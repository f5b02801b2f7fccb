--------------------------- MODULE UringRefinement ---------------------------
(***************************************************************************)
(* The io_uring backend does, for every number of rings, descriptors,      *)
(* coroutines and contexts, what AsyncIO promises a suspended coroutine:   *)
(* each step of UringExecutor is one of AsyncIO's on what the backend      *)
(* shows (CoState, Performed, Refusable), or leaves all of that alone.     *)
(* From what makes a full queue refusable also follows when no coroutine   *)
(* can meet the self-deadlock of a callback under the submission mutex.    *)
(***************************************************************************)
EXTENDS UringProofs

\* A completion that no event loop has reaped.
Done(x) == \E i \in Insts : x \in Range(cq[i])

LEMMA DoneRequested ==
  ASSUME IInv, NEW x, Done(x)
  PROVE  x \in Ctxs /\ Requested(x) /\ Awaited(x)
<1>1. x \in Ctxs
  BY DEF Done, Range, IInv, TypeOK
<1>2. Requested(x)
  BY RequestedIs DEF Done
<1> QED
  BY <1>1, <1>2 DEF IInv, RingInv

LEMMA PerformedIs ==
  ASSUME NEW c
  PROVE  c \in Performed <=>
           /\ c \in Coros
           /\ \E x : Done(x) /\ ctx[x].co = c /\ ctx[x].fd \notin BadFds
BY DEF Performed, Done, Range

LEMMA PerformedNext ==
  ASSUME NEW c
  PROVE  c \in Performed' <=>
           /\ c \in Coros
           /\ \E x : Done(x)' /\ ctx'[x].co = c /\ ctx'[x].fd \notin BadFds
BY DEF Performed, Done, Range

\* What the contexts of the completions say decides.
LEMMA PerformedKept ==
  ASSUME \A x : Done(x)' <=> Done(x),
         \A x : Done(x) => ctx'[x] = ctx[x]
  PROVE  Performed' = Performed
BY PerformedIs, PerformedNext

LEMMA PerformedFrame ==
  ASSUME UNCHANGED <<ctx, cq>>
  PROVE  Performed' = Performed
BY DEF Performed

\* Going from one of its own steps to another shows in no coroutine.
LEMMA CoStateMoves ==
  ASSUME TypeOK, NEW c \in Coros, NEW label, Goto(c, label)
  PROVE  /\ CoState \in [Coros -> {"running", "ended", "waiting"}]
         /\ label = "user" => CoState' = [CoState EXCEPT ![c] = "running"]
         /\ label = "ended" => CoState' = [CoState EXCEPT ![c] = "ended"]
         /\ label \notin {"user", "ended"} => CoState' = [CoState EXCEPT ![c] = "waiting"]
         /\ pc[c] = "user" => CoState[c] = "running"
         /\ pc[c] \notin {"user", "ended"} => CoState[c] = "waiting"
BY DEF TypeOK, Goto, CoState

LEMMA CoStateFrame ==
  ASSUME UNCHANGED pc
  PROVE  CoState' = CoState
BY DEF CoState
-----------------------------------------------------------------------------
LEMMA InitMaps == Init => Async!Init
<1> SUFFICES ASSUME Init PROVE Async!Init
  OBVIOUS
<1>1. CoState = [c \in Coros |-> "running"]
  BY DEF Init, CoState
<1>2. Performed = {}
  BY DEF Init, Performed
<1>3. at \in [Coros -> Fds]
  BY UringAssumption DEF Init, SomeFd
<1> QED
  BY <1>1, <1>2, <1>3 DEF Init, Async!Init

LEMMA AwaitMaps ==
  ASSUME IInv, NEW c \in Coros, NEW fd \in Uses[c], Await(c, fd)
  PROVE  Async!Await(c, fd)
<1>1. CoState[c] = "running" /\ CoState' = [CoState EXCEPT ![c] = "waiting"]
  BY CoStateMoves DEF IInv, Await
<1>2. Performed' = Performed
  BY PerformedFrame DEF Await, ring, pool
<1> QED
  BY <1>1, <1>2 DEF Await, Async!Await

LEMMA EndMaps ==
  ASSUME IInv, NEW c \in Coros, End(c)
  PROVE  Async!End(c)
<1>1. CoState[c] = "running" /\ CoState' = [CoState EXCEPT ![c] = "ended"]
  BY CoStateMoves DEF IInv, End
<1>2. Performed' = Performed
  BY PerformedFrame DEF End, ring, pool
<1> QED
  BY <1>1, <1>2 DEF End, Async!End

LEMMA CloseMaps ==
  ASSUME IInv, NEW c \in Coros, NEW fd \in Uses[c], Close(c, fd)
  PROVE  Async!Close(c, fd)
<1>1. CoState[c] = "running" /\ CoState' = CoState
  BY CoStateFrame DEF Close, coro, CoState
<1>2. Performed' = Performed
  BY PerformedFrame DEF Close, ring, pool
<1> QED
  BY <1>1, <1>2 DEF Close, coro, Async!Close

\* A context that acquire_ctx() hands out is in no ring.
LEMMA AcquireMaps ==
  ASSUME IInv, NEW c \in Coros, Acquire(c)
  PROVE  UNCHANGED Async!vars
<1>1. CoState' = CoState
  <2>1. CoState' = [CoState EXCEPT ![c] = "waiting"] /\ CoState[c] = "waiting"
    BY CoStateMoves DEF IInv, Acquire
  <2>2. CoState \in [Coros -> {"running", "ended", "waiting"}]
    BY CoStateMoves DEF IInv, Acquire
  <2> QED
    BY <2>1, <2>2
<1>2. PICK x \in Ctxs :
        /\ \/ /\ free[Inst(at[c])] # <<>>
              /\ x = free[Inst(at[c])][Len(free[Inst(at[c])])]
           \/ x \notin UNION {all[j] : j \in Insts}
        /\ ctx' = [ctx EXCEPT ![x] = [fd |-> at[c], co |-> c]]
  BY DEF Acquire
<1>3. ctx[x].co \notin Coros
  <2>1. CASE x \notin UNION {all[j] : j \in Insts}
    BY <2>1, InstType DEF IInv, TypeOK, PoolInv
  <2>2. CASE /\ free[Inst(at[c])] # <<>>
             /\ x = free[Inst(at[c])][Len(free[Inst(at[c])])]
    <3>1. Inst(at[c]) \in Insts
      BY InstType DEF IInv, TypeOK
    <3>2. x \in Range(free[Inst(at[c])])
      BY <2>2, <3>1, PoppedRange DEF IInv, TypeOK, PoolInv
    <3> QED
      BY <3>1, <3>2, Reserved DEF IInv, PoolInv
  <2> QED
    BY <1>2, <2>1, <2>2
<1>4. \A y : Done(y) => y # x /\ y \in Ctxs
  BY <1>3, DoneRequested DEF Awaited
<1>5. \A y : Done(y)' <=> Done(y)
  BY DEF Acquire, ring, Done
<1>6. \A y \in Ctxs \ {x} : ctx'[y] = ctx[y]
  BY <1>2 DEF IInv, TypeOK
<1>7. Performed' = Performed
  BY <1>4, <1>5, <1>6, PerformedKept
<1> QED
  BY <1>1, <1>7 DEF Acquire, Async!vars

LEMMA LockMaps ==
  ASSUME IInv, NEW c \in Coros, Lock(c)
  PROVE  UNCHANGED Async!vars
<1>1. CoState' = [CoState EXCEPT ![c] = "waiting"] /\ CoState[c] = "waiting"
      /\ CoState \in [Coros -> {"running", "ended", "waiting"}]
  BY CoStateMoves DEF IInv, Lock
<1>2. CoState' = CoState
  BY <1>1
<1>3. Performed' = Performed
  BY PerformedFrame DEF Lock, ring, pool
<1> QED
  BY <1>2, <1>3 DEF Lock, Async!vars

LEMMA SubmitMaps ==
  ASSUME IInv, NEW c \in Coros, Submit(c)
  PROVE  UNCHANGED Async!vars
<1>1. CoState' = [CoState EXCEPT ![c] = "waiting"] /\ CoState[c] = "waiting"
      /\ CoState \in [Coros -> {"running", "ended", "waiting"}]
  BY CoStateMoves DEF IInv, Submit
<1>2. CoState' = CoState
  BY <1>1
<1>3. Performed' = Performed
  BY PerformedFrame DEF Submit, pool
<1> QED
  BY <1>2, <1>3 DEF Submit, Async!vars
-----------------------------------------------------------------------------
\* A queue that is full holds requests of as many other coroutines, each of
\* which uses the instance too.
LEMMA FullOverloads ==
  ASSUME IInv, IsFiniteSet(Coros), NEW c \in Coros, pc[c] = "sqe",
         Len(sq[Inst(at[c])]) = Entries
  PROVE  Overloaded(Inst(at[c]))
<1> DEFINE i == Inst(at[c])
           users == {d \in Coros : \E fd \in Uses[d] : Inst(fd) = i}
           f == [k \in 1 .. Entries |-> ctx[sq[i][k]].co]
<1>1. /\ i \in Insts /\ sq[i] \in Seq(Ctxs) /\ DOMAIN sq[i] = 1 .. Entries
      /\ Entries \in Nat
  <2>1. i \in Insts /\ sq[i] \in Seq(Ctxs) /\ Len(sq[i]) = Entries
    BY InstType DEF IInv, TypeOK
  <2> HIDE DEF i
  <2> QED
    BY <2>1, UringAssumption
<1>2. ASSUME NEW k \in 1 .. Entries
      PROVE  /\ sq[i][k] \in Ctxs /\ Requested(sq[i][k])
             /\ f[k] \in users \ {c} /\ f[k] = ctx[sq[i][k]].co
  <2> DEFINE x == sq[i][k]
  <2>1. x \in Ctxs /\ x \in Range(sq[i])
    BY <1>1 DEF Range
  <2>2. Requested(x) /\ Awaited(x) /\ Inst(ctx[x].fd) = i
    BY <1>1, <2>1, RequestedIs DEF IInv, RingInv
  <2>3. /\ ctx[x].co \in Coros /\ pc[ctx[x].co] = "wait"
        /\ at[ctx[x].co] \in Uses[ctx[x].co] /\ Inst(at[ctx[x].co]) = i
    BY <2>2 DEF Awaited, IInv, UsesInv
  <2> QED
    BY <2>1, <2>2, <2>3
<1>3. c \in users
  BY DEF IInv, UsesInv
<1>4. IsFiniteSet(users) /\ Cardinality(users) \in Nat
  <2>1. users \in SUBSET Coros
    OBVIOUS
  <2> QED
    BY <2>1, FS_Subset, FS_CardinalityType
<1>5. f \in Injection(1 .. Entries, users \ {c})
  <2>1. f \in [1 .. Entries -> users \ {c}]
    BY <1>2
  <2>2. ASSUME NEW k \in 1 .. Entries, NEW l \in 1 .. Entries, f[k] = f[l]
        PROVE  k = l
    <3>1. sq[i][k] = sq[i][l]
      BY <1>2, <2>2 DEF IInv, UniqueInv
    <3> QED
      BY <1>1, <3>1 DEF IInv, RingInv, IsInjective
  <2> QED
    BY <2>1, <2>2 DEF Injection, IsInjective
<1> HIDE DEF f, users, i
<1>6. IsFiniteSet(users \ {c}) /\ Cardinality(users \ {c}) = Cardinality(users) - 1
  BY <1>3, <1>4, FS_RemoveElement
<1>7. Cardinality(1 .. Entries) <= Cardinality(users \ {c})
  BY <1>5, <1>6, FS_Injection
<1>8. Cardinality(1 .. Entries) = Entries
  BY <1>1, FS_Interval, UringAssumption
<1>9. Entries < Cardinality(users)
  BY <1>1, <1>4, <1>6, <1>7, <1>8
<1> QED
  BY <1>1, <1>4, <1>9 DEF Overloaded, users, i

LEMMA FullMaps ==
  ASSUME IInv, IsFiniteSet(Coros), NEW c \in Coros, Full(c)
  PROVE  Async!Reject(c)
<1>1. CoState[c] = "waiting" /\ CoState' = [CoState EXCEPT ![c] = "running"]
  BY CoStateMoves DEF IInv, Full, Resume
<1>2. Performed' = Performed
  BY PerformedFrame DEF Full, ring, pool
<1>3. at[c] \in Refusable
  <2>1. pc[c] = "sqe" /\ Len(sq[Inst(at[c])]) = Entries
    BY DEF Full
  <2>2. Overloaded(Inst(at[c])) /\ at[c] \in Fds
    BY <2>1, FullOverloads DEF IInv, TypeOK
  <2> QED
    BY <2>2 DEF Refusable
<1> QED
  BY <1>1, <1>2, <1>3 DEF Full, Async!Reject

LEMMA ReturnMaps ==
  ASSUME IInv, NEW t \in Threads, Return(t)
  PROVE  UNCHANGED Async!vars
<1> DEFINE x == unwind[t][Len(unwind[t])].ctx
<1>1. CoState' = CoState
  BY CoStateFrame DEF Return, coro
<1>2. \A y : Done(y)' <=> Done(y)
  BY DEF Return, ring, Done
<1>3. Performed' = Performed
  <2>1. CASE x = Nobody
    BY <2>1, PerformedFrame DEF Return, ring, pool
  <2>2. CASE x # Nobody
    <3>1. ctx' = [ctx EXCEPT ![x] = [fd |-> @.fd, co |-> Nobody]]
      BY <2>2 DEF Return, Release
    <3>2. Stacked(x) /\ x \in Ctxs
      <4>1. unwind[t] \in Seq([ctx : Ctxs \cup {Nobody}, unlock : SUBSET Insts]) /\ unwind[t] # <<>>
        BY DEF IInv, TypeOK, Return
      <4>2. /\ Len(unwind[t]) \in DOMAIN unwind[t]
            /\ unwind[t][Len(unwind[t])] \in [ctx : Ctxs \cup {Nobody}, unlock : SUBSET Insts]
        BY <4>1, Popped
      <4> QED
        BY <2>2, <4>2 DEF Stacked
    <3>3. \A y : Done(y) => y # x /\ y \in Ctxs
      BY <3>2, DoneRequested DEF IInv, StackInv
    <3>4. \A y \in Ctxs \ {x} : ctx'[y] = ctx[y]
      BY <3>1 DEF IInv, TypeOK
    <3> QED
      BY <1>2, <3>3, <3>4, PerformedKept
  <2> QED
    BY <2>1, <2>2
<1> QED
  BY <1>1, <1>3 DEF Return, coro, Async!vars

LEMMA FetchMaps ==
  ASSUME IInv, NEW i \in Insts, Fetch(i)
  PROVE  UNCHANGED Async!vars
BY CoStateFrame, PerformedFrame DEF Fetch, pool, coro, Async!vars
-----------------------------------------------------------------------------
(* The kernel performs, the event loop resumes.                            *)

\* Only one completion is about a coroutine.
LEMMA DoneOnce ==
  ASSUME IInv, NEW x \in Ctxs, Requested(x)
  PROVE  /\ ctx[x].co \in Coros /\ CoState[ctx[x].co] = "waiting"
         /\ at[ctx[x].co] = ctx[x].fd /\ ctx[x].fd \in Fds
         /\ \A y : Done(y) /\ ctx[y].co = ctx[x].co => y = x
         /\ ctx[x].co \in Performed <=> Done(x) /\ ctx[x].fd \notin BadFds
<1>1. Awaited(x)
  BY DEF IInv, RingInv
<1>2. \A y : Done(y) /\ ctx[y].co = ctx[x].co => y = x
  BY DoneRequested DEF IInv, UniqueInv
<1>3. ctx[x].co \in Coros /\ CoState[ctx[x].co] = "waiting" /\ at[ctx[x].co] = ctx[x].fd
  BY <1>1 DEF Awaited, CoState
<1>4. ctx[x].fd \in Fds
  BY <1>1, <1>3 DEF IInv, TypeOK
<1>5. ctx[x].co \in Performed <=> Done(x) /\ ctx[x].fd \notin BadFds
  BY <1>2, <1>3, PerformedIs
<1> QED
  BY <1>2, <1>3, <1>4, <1>5

LEMMA CompleteMaps ==
  ASSUME IInv, NEW x \in Ctxs, Complete(x)
  PROVE  \/ Async!Serve(ctx[x].co) /\ ctx[x].co \in Coros
         \/ UNCHANGED Async!vars
<1> DEFINE c == ctx[x].co
           i == Inst(ctx[x].fd)
<1>1. x \in flight /\ Requested(x)
  BY RequestedIs DEF Complete
<1>2. /\ c \in Coros /\ CoState[c] = "waiting" /\ at[c] = ctx[x].fd /\ ctx[x].fd \in Fds
      /\ c \in Performed <=> Done(x) /\ ctx[x].fd \notin BadFds
  BY <1>1, DoneOnce
<1>3. ~Done(x)
  BY <1>1 DEF Done, IInv, RingInv
<1>4. \A y : Done(y)' <=> Done(y) \/ y = x
  <2>1. /\ i \in Insts /\ cq[i] \in Seq(Ctxs) /\ cq \in [Insts -> Seq(Ctxs)]
        /\ cq' = [cq EXCEPT ![i] = Append(@, x)]
    BY <1>2, InstType DEF IInv, TypeOK, Complete
  <2>2. Range(Append(cq[i], x)) = Range(cq[i]) \cup {x}
    BY <2>1, PushedRange
  <2> HIDE DEF i
  <2>3. /\ Range(cq'[i]) = Range(cq[i]) \cup {x}
        /\ \A j \in Insts : j # i => cq'[j] = cq[j]
    BY <2>1, <2>2
  <2>4. \A y : Done(y)' <=> \E j \in Insts : y \in Range(cq'[j])
    BY DEF Done, Range
  <2> QED
    BY <2>1, <2>3, <2>4 DEF Done
<1>5. CoState' = CoState /\ UNCHANGED <<ctx, at, running>>
  BY CoStateFrame DEF Complete, coro, pool
<1>6. CASE ctx[x].fd \in BadFds
  <2>1. Performed' = Performed
    BY <1>4, <1>5, <1>6, PerformedIs, PerformedNext
  <2>2. ready' = ready
    BY <1>6 DEF Complete
  <2> QED
    BY <1>5, <2>1, <2>2 DEF Async!vars
<1>7. CASE ctx[x].fd \notin BadFds
  <2>1. Performed' = Performed \cup {c}
    BY <1>2, <1>4, <1>5, <1>7, PerformedIs, PerformedNext
  <2>2. at[c] \in ready /\ ready' \in {ready, ready \ {at[c]}}
    BY <1>2, <1>7 DEF Complete
  <2>3. c \notin Performed
    BY <1>2, <1>3
  <2> QED
    BY <1>2, <1>5, <2>1, <2>2, <2>3 DEF Async!Serve, Async!Perform
<1> QED
  BY <1>6, <1>7

\* Reaping a completion.
LEMMA Reaped ==
  ASSUME IInv, NEW i \in Insts, cq[i] # <<>>,
         cq' = [cq EXCEPT ![i] = Tail(@)], UNCHANGED <<sq, flight>>,
         \A y \in Ctxs \ {Head(cq[i])} : ctx'[y] = ctx[y]
  PROVE  LET x == Head(cq[i]) IN
         /\ x \in Ctxs /\ Requested(x) /\ Done(x)
         /\ Performed' = Performed \ {ctx[x].co}
<1> DEFINE x == Head(cq[i])
<1>1. /\ x \in Ctxs /\ x \in Range(cq[i]) /\ Requested(x) /\ Inst(ctx[x].fd) = i
      /\ Range(cq'[i]) = Range(cq[i]) \ {x}
      /\ \A j \in Insts : j # i => cq'[j] = cq[j]
  BY ReapFacts
<1> HIDE DEF x
<1>2. Done(x)
  BY <1>1 DEF Done
<1>3. \A y : Done(y)' <=> Done(y) /\ y # x
  <2>1. \A y : Done(y)' <=> \E j \in Insts : y \in Range(cq'[j])
    BY DEF Done, Range
  <2>2. \A j \in Insts : x \in Range(cq[j]) => j = i
    BY <1>1 DEF IInv, RingInv
  <2> QED
    BY <1>1, <2>1, <2>2 DEF Done
<1>4. \A y : Done(y)' => y \in Ctxs /\ ctx'[y] = ctx[y] /\ ctx[y].co # ctx[x].co
  BY <1>1, <1>3, DoneRequested, DoneOnce DEF x
<1>5. \A y : Done(y) /\ ctx[y].co # ctx[x].co => Done(y)'
  BY <1>3
<1>6. Performed' = Performed \ {ctx[x].co}
  BY <1>4, <1>5, <1>3, PerformedIs, PerformedNext
<1> QED
  BY <1>1, <1>2, <1>6 DEF x

LEMMA DispatchMaps ==
  ASSUME IInv, NEW i \in Insts, Dispatch(i)
  PROVE  \E c \in Coros : Async!Resume(c) \/ Async!Reject(c)
<1> DEFINE x == Head(cq[i])
           c == ctx[x].co
<1>1. /\ cq[i] # <<>> /\ running /\ cq' = [cq EXCEPT ![i] = Tail(@)]
      /\ Goto(c, "user")
      /\ UNCHANGED <<running, sq, flight, ctx, ready, at>>
  BY DEF Dispatch, Dropping, Resume, pool
<1>2. x \in Ctxs /\ Requested(x) /\ Done(x) /\ Performed' = Performed \ {c}
  BY <1>1, Reaped
<1> HIDE DEF x
<1>3. /\ c \in Coros /\ CoState[c] = "waiting" /\ at[c] = ctx[x].fd
      /\ c \in Performed <=> ctx[x].fd \notin BadFds
  BY <1>2, DoneOnce
<1>4. CoState' = [CoState EXCEPT ![c] = "running"]
  BY <1>1, <1>3, CoStateMoves DEF IInv
<1> HIDE DEF c
<1>5. CASE ctx[x].fd \in BadFds
  <2>1. Performed' = Performed /\ at[c] \in Refusable
    BY <1>2, <1>3, <1>5 DEF Refusable
  <2> QED
    BY <1>1, <1>3, <1>4, <2>1 DEF Async!Reject
<1>6. CASE ctx[x].fd \notin BadFds
  BY <1>1, <1>2, <1>3, <1>4, <1>6 DEF Async!Resume
<1> QED
  BY <1>5, <1>6

LEMMA SkipMaps ==
  ASSUME IInv, NEW i \in Insts, Skip(i)
  PROVE  (\E c \in Coros : Async!Drop(c)) \/ UNCHANGED Async!vars
<1> DEFINE x == Head(cq[i])
           c == ctx[x].co
<1>1. /\ cq[i] # <<>> /\ ~running /\ cq' = [cq EXCEPT ![i] = Tail(@)]
      /\ ctx' = [ctx EXCEPT ![x] = [fd |-> @.fd, co |-> Nobody]]
      /\ UNCHANGED <<running, sq, flight, ready, at, pc>>
  BY DEF Skip, Dropping, Release, coro
<1>2. \A y \in Ctxs \ {x} : ctx'[y] = ctx[y]
  BY <1>1 DEF IInv, TypeOK
<1>3. x \in Ctxs /\ Requested(x) /\ Done(x) /\ Performed' = Performed \ {c}
  BY <1>1, <1>2, Reaped
<1> HIDE DEF x
<1>4. c \in Coros
  BY <1>3, DoneOnce
<1>5. CoState' = CoState
  BY <1>1, CoStateFrame
<1> HIDE DEF c
<1>6. CASE c \in Performed
  BY <1>1, <1>3, <1>4, <1>5, <1>6 DEF Async!Drop
<1>7. CASE c \notin Performed
  <2>1. Performed' = Performed
    BY <1>3, <1>7
  <2> QED
    BY <1>1, <1>5, <2>1 DEF Async!vars
<1> QED
  BY <1>6, <1>7

LEMMA OtherMaps ==
  ASSUME \/ \E i \in Insts : Enter(i) \/ WaitCqe(i) \/ Advance(i) \/ LoopExit(i)
         \/ \E s \in Stoppers : StopReturn(s)
         \/ UNCHANGED vars
  PROVE  UNCHANGED Async!vars
BY CoStateFrame, PerformedFrame
DEF Enter, WaitCqe, Advance, LoopExit, StopReturn, vars, ring, pool, coro, Async!vars

LEMMA StopMaps ==
  ASSUME IInv, NEW s \in Stoppers, StopCall(s)
  PROVE  Async!Stop \/ UNCHANGED Async!vars
<1>1. CoState' = CoState /\ Performed' = Performed
  BY CoStateFrame, PerformedFrame DEF StopCall, ring, pool, coro
<1> QED
  BY <1>1 DEF IInv, TypeOK, StopCall, coro, Async!Stop, Async!vars

LEMMA ArriveMaps ==
  ASSUME NEW fd \in Fds, Arrive(fd)
  PROVE  Async!Arrive(fd)
<1>1. CoState' = CoState /\ Performed' = Performed
  BY CoStateFrame, PerformedFrame DEF Arrive, ring, pool, coro
<1> QED
  BY <1>1 DEF Arrive, coro, Async!Arrive
-----------------------------------------------------------------------------
LEMMA NextMaps ==
  IInv /\ IsFiniteSet(Coros) /\ [Next]_vars => [Async!Next]_(Async!vars)
<1> SUFFICES ASSUME IInv, IsFiniteSet(Coros), [Next]_vars
             PROVE  Async!Next \/ UNCHANGED Async!vars
  OBVIOUS
<1>1. ASSUME NEW c \in Coros, AsyncIo(c) PROVE Async!Next \/ UNCHANGED Async!vars
  BY <1>1, AcquireMaps, LockMaps, SubmitMaps, FullMaps DEF AsyncIo, Async!Next
<1>2. ASSUME NEW c \in Coros, User(c) PROVE Async!Next
  BY <1>2, AwaitMaps, EndMaps, CloseMaps DEF User, Suspend, Async!Next
<1>3. ASSUME NEW t \in Threads, Return(t) PROVE UNCHANGED Async!vars
  BY <1>3, ReturnMaps
<1>4. ASSUME Kernel PROVE Async!Next \/ UNCHANGED Async!vars
  BY <1>4, FetchMaps, CompleteMaps DEF Kernel, Async!Next
<1>5. ASSUME NEW i \in Insts, Loop(i) PROVE Async!Next \/ UNCHANGED Async!vars
  BY <1>5, DispatchMaps, SkipMaps, OtherMaps DEF Loop, Async!Next
<1>6. ASSUME NEW s \in Stoppers, StopCall(s) \/ StopReturn(s)
      PROVE  Async!Next \/ UNCHANGED Async!vars
  BY <1>6, StopMaps, OtherMaps DEF Async!Next
<1>7. ASSUME NEW fd \in Fds, Arrive(fd) PROVE Async!Next
  BY <1>7, ArriveMaps DEF Async!Next
<1> QED
  BY <1>1, <1>2, <1>3, <1>4, <1>5, <1>6, <1>7, OtherMaps DEF Next

\* Whatever the kernel completes and whoever shares a descriptor, a suspended
\* coroutine is resumed once per wait: with the result of an operation that
\* the kernel performed while its descriptor was ready, or with an error where
\* one can occur: an operation that fails, or a submission queue smaller than
\* the number of coroutines that use its instance.
THEOREM ImplementsAsyncIO ==
  ASSUME IsFiniteSet(Coros)
  PROVE  Spec => AsyncSafety
<1>1. Spec => []IInv
  BY Invariance
<1>2. IInv /\ [Next]_vars => [Async!Next]_(Async!vars)
  BY NextMaps
<1> QED
  BY <1>1, <1>2, InitMaps, PTL DEF Spec, AsyncSafety, Async!Spec
-----------------------------------------------------------------------------
(* A submission queue as large as the number of coroutines that use it is  *)
(* never full, so that no callback runs inside async_io(), with the mutex. *)

\* A thread hosts one coroutine at a time, and has nothing to unlock further
\* down its stack.
HostInv ==
    /\ \A c, d \in Coros : Active(c) /\ Active(d) /\ host[c] = host[d] => c = d
    /\ \A c \in Coros : Active(c) =>
        \A k \in DOMAIN unwind[host[c]] : unwind[host[c]][k].unlock = {}

LEMMA NeverFull ==
  ASSUME IInv, IsFiniteSet(Coros), \A i \in Insts : ~Overloaded(i), NEW c \in Coros
  PROVE  ~Full(c)
<1> SUFFICES ASSUME Full(c) PROVE FALSE
  OBVIOUS
<1>1. Overloaded(Inst(at[c]))
  BY FullOverloads DEF Full
<1> QED
  BY <1>1, InstType DEF IInv, TypeOK

LEMMA HostFrame ==
  ASSUME HostInv, UNCHANGED <<host, unwind>>,
         \A c \in Coros : Active(c)' => Active(c)
  PROVE  HostInv'
BY DEF HostInv

\* A coroutine in its own code goes on in async_io(), or suspends, or ends.
LEMMA CoroHosted ==
  ASSUME IInv, HostInv, NEW c \in Coros, Acquire(c) \/ Lock(c) \/ User(c)
  PROVE  HostInv'
<1>1. Active(c) /\ UNCHANGED <<host, unwind>>
  BY DEF Acquire, Lock, User, Suspend, End, Await, Close, Active, coro
<1>2. \A d \in Coros : d # c => pc'[d] = pc[d]
  BY DEF IInv, TypeOK, Acquire, Lock, User, Suspend, End, Await, Close, Goto, coro
<1> QED
  BY <1>1, <1>2, HostFrame DEF Active

\* The frame that will unlock is on a thread that hosts nobody any more.
LEMMA SubmitHosted ==
  ASSUME IInv, HostInv, NEW c \in Coros, Submit(c)
  PROVE  HostInv'
<1>1. /\ Active(c) /\ ~Active(c)' /\ host' = host
      /\ \A d \in Coros : Active(d)' => Active(d)
  BY DEF IInv, TypeOK, Submit, Goto, Active
<1>2. \A t \in Threads : t # host[c] => unwind'[t] = unwind[t]
  BY DEF IInv, TypeOK, Submit, Later
<1>3. ASSUME NEW d \in Coros, Active(d)'
      PROVE  Active(d) /\ unwind'[host[d]] = unwind[host[d]]
  <2>1. Active(d) /\ d # c /\ host[d] \in Threads
    BY <1>1, <1>3 DEF IInv, TypeOK
  <2>2. host[d] # host[c]
    BY <1>1, <2>1 DEF HostInv
  <2> QED
    BY <1>2, <2>1, <2>2
<1> QED
  BY <1>1, <1>3 DEF HostInv

LEMMA ReturnHosted ==
  ASSUME IInv, HostInv, NEW t \in Threads, Return(t)
  PROVE  HostInv'
<1>1. ~Occupied(t) /\ UNCHANGED <<pc, host>>
  BY DEF Return, coro
<1>2. \A u \in Threads : u # t => unwind'[u] = unwind[u]
  BY DEF IInv, TypeOK, Return
<1>3. \A c \in Coros : Active(c) => host[c] \in Threads /\ host[c] # t
  BY <1>1 DEF Occupied, IInv, TypeOK
<1> QED
  BY <1>1, <1>2, <1>3 DEF HostInv, Active

\* A callback starts on an event loop that has nothing else on its stack.
LEMMA DispatchHosted ==
  ASSUME IInv, HostInv, NEW i \in Insts, Dispatch(i)
  PROVE  HostInv'
<1> DEFINE x == Head(cq[i])
           d == ctx[x].co
<1>1. /\ unwind[i] = <<>> /\ ~Occupied(i) /\ i \in Threads
      /\ pc' = [pc EXCEPT ![d] = "user"] /\ host' = [host EXCEPT ![d] = i]
      /\ unwind' = [unwind EXCEPT ![i] = Append(@, [ctx |-> x, unlock |-> {}])]
  BY DEF Dispatch, AtLoop, Resume, Goto, Later, Threads
<1> HIDE DEF x, d
<1>2. x \in Ctxs /\ Later(i, x, {})
  BY ReapFacts DEF Dispatch, x
<1>3. \A k \in DOMAIN unwind'[i] : unwind'[i][k].unlock = {}
  <2>1. /\ \A k : k \in DOMAIN unwind'[i] <=>
             k \in DOMAIN unwind[i] \/ k = Len(unwind[i]) + 1
        /\ unwind'[i][Len(unwind[i]) + 1].unlock = {}
    BY <1>1, <1>2, PushStack DEF IInv
  <2>2. DOMAIN unwind[i] = {}
    BY <1>1
  <2> QED
    BY <2>1, <2>2
<1>4. \A t \in Threads : t # i => unwind'[t] = unwind[t]
  BY <1>1 DEF IInv, TypeOK
<1>5. \A c \in Coros : c # d => (Active(c)' <=> Active(c)) /\ host'[c] = host[c]
  BY <1>1 DEF IInv, TypeOK, Active
<1>6. \A c \in Coros : c = d => host'[c] = i
  BY <1>1 DEF IInv, TypeOK
<1>7. \A c \in Coros : Active(c) => host[c] \in Threads /\ host[c] # i
  BY <1>1 DEF Occupied, IInv, TypeOK
<1>8. \A c \in Coros : c # d /\ Active(c)' =>
        Active(c) /\ host'[c] = host[c] /\ host'[c] # i /\ unwind'[host'[c]] = unwind[host[c]]
  BY <1>4, <1>5, <1>7
<1>9. \A c, e \in Coros : Active(c)' /\ Active(e)' /\ host'[c] = host'[e] => c = e
  BY <1>6, <1>8 DEF HostInv
<1>10. \A c \in Coros : Active(c)' =>
         \A k \in DOMAIN unwind'[host'[c]] : unwind'[host'[c]][k].unlock = {}
  BY <1>3, <1>6, <1>8 DEF HostInv
<1> QED
  BY <1>9, <1>10 DEF HostInv

LEMMA NextHosted ==
  ASSUME IsFiniteSet(Coros), \A i \in Insts : ~Overloaded(i)
  PROVE  IInv /\ HostInv /\ [Next]_vars => HostInv'
<1> SUFFICES ASSUME IInv, HostInv, [Next]_vars PROVE HostInv'
  OBVIOUS
<1>1. ASSUME NEW c \in Coros, AsyncIo(c) \/ User(c) PROVE HostInv'
  BY <1>1, NeverFull, CoroHosted, SubmitHosted DEF AsyncIo
<1>2. ASSUME NEW t \in Threads, Return(t) PROVE HostInv'
  BY <1>2, ReturnHosted
<1>3. ASSUME Kernel PROVE HostInv'
  BY <1>3, HostFrame DEF Kernel, Fetch, Complete, Active, coro
<1>4. ASSUME NEW i \in Insts, Loop(i) PROVE HostInv'
  <2>1. CASE Enter(i) \/ WaitCqe(i) \/ Skip(i) \/ Advance(i) \/ LoopExit(i)
    BY <2>1, HostFrame DEF Enter, WaitCqe, Skip, Advance, LoopExit, Active, coro
  <2> QED
    BY <1>4, <2>1, DispatchHosted DEF Loop
<1>5. ASSUME NEW s \in Stoppers, StopCall(s) \/ StopReturn(s) PROVE HostInv'
  BY <1>5, HostFrame DEF StopCall, StopReturn, Active, coro
<1>6. ASSUME NEW fd \in Fds, Arrive(fd) PROVE HostInv'
  BY <1>6, HostFrame DEF Arrive, Active, coro
<1>7. CASE UNCHANGED vars
  BY <1>7, HostFrame DEF vars, Active, coro
<1> QED
  BY <1>1, <1>2, <1>3, <1>4, <1>5, <1>6, <1>7 DEF Next

\* Where no submission queue is smaller than the number of coroutines that use
\* it, no async_io() call waits for a submission mutex that its own thread has.
\* Without the condition one may: a coroutine that was refused is resumed with
\* the mutex locked.
THEOREM RoomPreventsSelfDeadlock ==
  ASSUME IsFiniteSet(Coros), \A i \in Insts : ~Overloaded(i)
  PROVE  Spec => []NoSelfDeadlock
<1>1. ASSUME IInv, MutexInv, HostInv PROVE NoSelfDeadlock
  <2> SUFFICES ASSUME NEW c \in Coros, pc[c] = "lock", mutex[Inst(at[c])] = host[c]
               PROVE  FALSE
    BY DEF NoSelfDeadlock
  <2> DEFINE i == Inst(at[c])
  <2>1. i \in Insts /\ host[c] \in Threads /\ Active(c)
    BY <1>1, InstType DEF IInv, TypeOK, Active
  <2>2. mutex[i] = host[c] /\ mutex[i] # Nobody
    BY <2>1, Reserved
  <2> HIDE DEF i
  <2>3. ASSUME NEW d \in Coros, Submits(d, i) PROVE FALSE
    <3>1. mutex[i] = host[d]
      BY <1>1, <2>1, <2>3 DEF MutexInv
    <3>2. Active(d) /\ pc[d] = "sqe"
      BY <2>3 DEF Submits, Active
    <3> QED
      BY <1>1, <2>1, <2>2, <3>1, <3>2 DEF HostInv
  <2>4. ASSUME NEW t \in Threads, NEW k \in DOMAIN unwind[t], Unlocks(t, k, i) PROVE FALSE
    <3>1. mutex[i] = t
      BY <1>1, <2>1, <2>4 DEF MutexInv
    <3>2. unwind[t][k].unlock = {}
      BY <1>1, <2>1, <2>2, <3>1 DEF HostInv
    <3> QED
      BY <2>4, <3>2 DEF Unlocks
  <2> QED
    BY <1>1, <2>1, <2>2, <2>3, <2>4 DEF MutexInv
<1>2. ASSUME Init PROVE HostInv
  <2>1. \A c \in Coros : host[c] = c /\ unwind[c] = <<>>
    BY <1>2 DEF Init, Threads
  <2> QED
    BY <2>1 DEF HostInv
<1>3. Spec => []IInv
  BY Invariance
<1>4. Init => MutexInv
  BY InitIInv
<1> QED
  BY <1>1, <1>2, <1>3, <1>4, NextMutexInv, NextHosted, PTL DEF Spec
=============================================================================
