----------------------------- MODULE EpollProofs -----------------------------
(***************************************************************************)
(* What EpollExecutor guarantees for every number of instances,            *)
(* descriptors, coroutines and contexts, shared descriptors and refused    *)
(* operations included.                                                    *)
(***************************************************************************)
EXTENDS EpollExecutor, SequenceTheorems, TLAPS

\* Parts of actions, opened wherever their actions are.
USE DEF Remaining, GiveUp, Register, Later, Disarm, Dropping, GivesUp, Joined

\* The coroutine of context x is suspended in the operation x stands for.
Awaited(x) ==
    /\ ctx[x].co \in Coros
    /\ pc[ctx[x].co] = "wait"
    /\ at[ctx[x].co] = ctx[x].fd

\* A context belongs to one pool, the one of its descriptor; a free one is in
\* that pool's list once and has no callback.
PoolInv ==
    /\ \A x \in Ctxs : ctx[x].co \in Coros => x \in all[Inst(ctx[x].fd)]
    /\ \A i, j \in Insts : i # j => all[i] \cap all[j] = {}
    /\ \A i \in Insts : \A k \in DOMAIN free[i] :
        free[i][k] \in all[i] /\ ctx[free[i][k]].co = "none"
    /\ \A i \in Insts : \A k, l \in DOMAIN free[i] :
        free[i][k] = free[i][l] => k = l

\* A context that async_io, epoll or an event loop refers to is about the
\* operation its coroutine is in, and only epoll or only the loop refers to it.
HeldInv ==
    \A c \in Coros : held[c] \in Ctxs =>
        ctx[held[c]].co = c /\ ctx[held[c]].fd = at[c]

ArmedInv ==
    \A f \in Fds : reg[f] \in Ctxs =>
        /\ Awaited(reg[f]) /\ ctx[reg[f]].fd = f
        /\ \A i \in Insts : reg[f] \notin batch[i]

BatchInv ==
    \A i \in Insts : \A x \in batch[i] : Awaited(x) /\ Inst(ctx[x].fd) = i

UniqueInv ==
    \A x, y \in Ctxs :
        Pending(x) /\ Pending(y) /\ ctx[x].co = ctx[y].co => x = y

\* A context whose callback is still on a stack is there once and nowhere else.
StackInv ==
    \A t \in Threads : \A k \in DOMAIN unwind[t] :
        /\ ctx[unwind[t][k]].co \in Coros
        /\ ~Pending(unwind[t][k])
        /\ \A c \in Coros : held[c] # unwind[t][k]

StackOnce ==
    \A t, u \in Threads : \A k \in DOMAIN unwind[t], l \in DOMAIN unwind[u] :
        unwind[t][k] = unwind[u][l] => t = u /\ k = l

IInv ==
    /\ TypeOK /\ PoolInv /\ HeldInv /\ ArmedInv /\ BatchInv /\ UniqueInv
    /\ StackInv /\ StackOnce

-----------------------------------------------------------------------------
(* The two sequence operations of the model, used as stacks.               *)

LEMMA Pushed ==
  ASSUME NEW S, NEW s \in Seq(S), NEW e \in S
  PROVE  /\ Append(s, e) \in Seq(S)
         /\ DOMAIN Append(s, e) = 1 .. Len(s) + 1
         /\ \A k \in DOMAIN s : Append(s, e)[k] = s[k] /\ k \in 1 .. Len(s)
         /\ Append(s, e)[Len(s) + 1] = e
         /\ Len(s) \in Nat /\ DOMAIN s = 1 .. Len(s)
OBVIOUS

LEMMA Popped ==
  ASSUME NEW S, NEW s \in Seq(S), s # <<>>
  PROVE  /\ SubSeq(s, 1, Len(s) - 1) \in Seq(S)
         /\ DOMAIN SubSeq(s, 1, Len(s) - 1) = 1 .. Len(s) - 1
         /\ \A k \in 1 .. Len(s) - 1 : SubSeq(s, 1, Len(s) - 1)[k] = s[k]
         /\ Len(s) \in Nat \ {0} /\ DOMAIN s = 1 .. Len(s)
         /\ Len(s) \in DOMAIN s /\ s[Len(s)] \in S
OBVIOUS

LEMMA InstType == ASSUME NEW f \in Fds PROVE Inst(f) \in Insts
BY EpollAssumption DEF Inst, Insts

LEMMA Reserved ==
  /\ "none" \notin Ctxs /\ "none" \notin Coros
  /\ "absent" \notin Ctxs /\ "disarmed" \notin Ctxs
BY EpollAssumption

\* What is pending is awaited, so its coroutine is not in async_io.
LEMMA PendingAwaited ==
  ASSUME ArmedInv, BatchInv, NEW x \in Ctxs, Pending(x)
  PROVE  Awaited(x)
BY DEF ArmedInv, BatchInv, Pending

\* Steps that register nothing keep UniqueInv.
LEMMA UniqueFrame ==
  ASSUME UniqueInv,
         \A x \in Ctxs : Pending(x)' => Pending(x) /\ ctx'[x].co = ctx[x].co
  PROVE  UniqueInv'
BY DEF UniqueInv

LEMMA InitIInv == Init => IInv
BY EpollAssumption DEF Init, IInv, TypeOK, PoolInv, HeldInv, ArmedInv, BatchInv,
   UniqueInv, StackInv, StackOnce, Pending, Threads, SomeFd
-----------------------------------------------------------------------------
(* epoll_ctl succeeds.                                                     *)
LEMMA ArmStep ==
  ASSUME IInv, NEW c \in Coros, pc[c] \in {"mod", "add"}, Arm(c),
         UNCHANGED <<running, dead, loop, batch, pool, ready, at, spc>>
  PROVE  IInv'
<1> DEFINE x == held[c]
<1>1. x \in Ctxs /\ ctx[x].co = c /\ ctx[x].fd = at[c] /\ at[c] \in Fds
  BY Reserved DEF IInv, TypeOK, HeldInv
<1>2. \A y \in Ctxs : Pending(y) => ctx[y].co # c /\ y # x
  BY <1>1, PendingAwaited DEF IInv, Awaited
<1>3. \A y \in Ctxs : Pending(y)' => y = x \/ Pending(y)
  BY <1>1 DEF IInv, TypeOK, Arm, Pending
<1>4. TypeOK'
  BY <1>1, Reserved DEF IInv, TypeOK, Arm, Goto, pool, coro
<1>5. PoolInv'
  BY DEF IInv, PoolInv, Arm, pool
<1>6. HeldInv'
  BY Reserved DEF IInv, TypeOK, HeldInv, Arm, pool
<1>7. ArmedInv'
  <2> SUFFICES ASSUME NEW f \in Fds, reg'[f] \in Ctxs
               PROVE  /\ Awaited(reg[f])' /\ ctx'[reg'[f]].fd = f
                      /\ \A i \in Insts : reg'[f] \notin batch'[i]
    BY DEF ArmedInv
  <2>1. CASE f = at[c]
    <3>1. reg'[f] = x
      BY <2>1 DEF IInv, TypeOK, Arm
    <3>2. \A i \in Insts : x \notin batch[i]
      BY <1>1, <1>2 DEF Pending
    <3> QED
      BY <1>1, <2>1, <3>1, <3>2 DEF IInv, TypeOK, Awaited, Arm, Goto, pool, coro
  <2>2. CASE f # at[c]
    BY <1>1, <2>2 DEF IInv, TypeOK, ArmedInv, Awaited, Arm, Goto, pool, coro
  <2> QED
    BY <2>1, <2>2
<1>8. BatchInv'
  BY DEF IInv, TypeOK, BatchInv, Awaited, Arm, Goto, pool
<1>9. UniqueInv'
  BY <1>1, <1>2, <1>3 DEF IInv, UniqueInv, pool
<1>10. StackInv'
  <2> SUFFICES ASSUME NEW t \in Threads, NEW k \in DOMAIN unwind[t]
               PROVE  /\ ctx[unwind[t][k]].co \in Coros
                      /\ ~Pending(unwind[t][k])'
                      /\ \A d \in Coros : held'[d] # unwind[t][k]
    BY DEF StackInv, Arm, pool
  <2>1. unwind[t][k] \in Ctxs /\ unwind[t][k] # x
    BY DEF IInv, TypeOK, StackInv
  <2> QED
    BY <1>3, <2>1, Reserved DEF IInv, TypeOK, StackInv, Arm
<1>11. StackOnce'
  BY DEF IInv, StackOnce, Arm
<1> QED
  BY <1>4, <1>5, <1>6, <1>7, <1>8, <1>9, <1>10, <1>11 DEF IInv
-----------------------------------------------------------------------------
(* A context goes back to its pool.                                        *)
LEMMA ReleasePool ==
  ASSUME TypeOK, PoolInv, NEW x \in Ctxs, ctx[x].co \in Coros, Release(x)
  PROVE  /\ PoolInv'
         /\ all' = all /\ free' \in [Insts -> Seq(Ctxs)]
         /\ ctx' \in [Ctxs -> [fd : Fds, co : Coros \cup {"none"}]]
         /\ \A y \in Ctxs \ {x} : ctx'[y] = ctx[y]
         /\ ctx'[x].co = "none"
<1> DEFINE i == Inst(ctx[x].fd)
<1>1. i \in Insts /\ x \in all[i]
  BY InstType DEF TypeOK, PoolInv
<1>2. /\ all' = all
      /\ ctx' \in [Ctxs -> [fd : Fds, co : Coros \cup {"none"}]]
      /\ \A y \in Ctxs \ {x} : ctx'[y] = ctx[y]
      /\ ctx'[x].co = "none"
  <2> DEFINE r == [fd |-> ctx[x].fd, co |-> "none"]
  <2>1. r \in [fd : Fds, co : Coros \cup {"none"}] /\ r.co = "none"
    BY DEF TypeOK
  <2>2. ctx' = [ctx EXCEPT ![x] = r] /\ all' = all
    BY DEF Release
  <2> HIDE DEF r
  <2> QED
    BY <2>1, <2>2 DEF TypeOK
<1>3. /\ free' \in [Insts -> Seq(Ctxs)]
      /\ free'[i] = Append(free[i], x)
      /\ \A j \in Insts \ {i} : free'[j] = free[j]
  BY <1>1, Pushed DEF TypeOK, Release
<1>4. ASSUME NEW j \in Insts, NEW k \in DOMAIN free'[j]
      PROVE  /\ free'[j][k] \in all'[j] /\ ctx'[free'[j][k]].co = "none"
             /\ \A l \in DOMAIN free'[j] : free'[j][k] = free'[j][l] => k = l
  <2>1. \A m \in DOMAIN free[j] : /\ free[j][m] \in all[j] \ {x}
                                  /\ free[j][m] \in Ctxs
                                  /\ ctx'[free[j][m]].co = "none"
    BY <1>2, Reserved DEF PoolInv, TypeOK
  <2>2. CASE j # i
    BY <1>2, <1>3, <1>4, <2>1, <2>2 DEF PoolInv
  <2>3. CASE j = i
    <3>1. /\ DOMAIN free'[i] = 1 .. Len(free[i]) + 1
          /\ Len(free[i]) \in Nat /\ DOMAIN free[i] = 1 .. Len(free[i])
          /\ \A m \in DOMAIN free[i] : free'[i][m] = free[i][m]
          /\ free'[i][Len(free[i]) + 1] = x
      BY <1>1, <1>3, Pushed DEF TypeOK
    <3>2. \A m \in DOMAIN free'[i] : m \in DOMAIN free[i] \/ m = Len(free[i]) + 1
      BY <3>1
    <3> QED
      BY <1>1, <1>2, <1>4, <2>1, <2>3, <3>1, <3>2 DEF PoolInv
  <2> QED
    BY <2>2, <2>3
<1>5. \A y \in Ctxs : ctx'[y].co \in Coros => y \in all'[Inst(ctx'[y].fd)]
  BY <1>2, Reserved DEF PoolInv
<1>6. PoolInv'
  BY <1>2, <1>4, <1>5 DEF PoolInv
<1> QED
  BY <1>2, <1>3, <1>6
-----------------------------------------------------------------------------
(* Steps that leave contexts, registrations and coroutines alone.          *)
LEMMA FrameStep ==
  ASSUME IInv, TypeOK', UNCHANGED <<batch, pool, reg, coro, unwind>>
  PROVE  IInv'
<1>1. \A x \in Ctxs : Pending(x)' <=> Pending(x)
  BY DEF Pending
<1>2. PoolInv' /\ HeldInv' /\ StackOnce'
  BY DEF IInv, PoolInv, HeldInv, StackOnce, pool, coro
<1>3. ArmedInv' /\ BatchInv'
  BY DEF IInv, ArmedInv, BatchInv, Awaited, pool, coro
<1>4. UniqueInv'
  BY <1>1, UniqueFrame DEF IInv, pool
<1>5. StackInv'
  BY DEF IInv, StackInv, Pending, pool, coro
<1> QED
  BY <1>2, <1>3, <1>4, <1>5 DEF IInv
-----------------------------------------------------------------------------
(* A coroutine in its own code.                                            *)
LEMMA AwaitStep ==
  ASSUME IInv, NEW c \in Coros, NEW fd \in Fds, Await(c, fd)
  PROVE  IInv'
<1>0. held[c] \notin Ctxs /\ pc[c] = "user"
  BY Reserved DEF IInv, TypeOK, Await
<1>1. TypeOK'
  BY <1>0 DEF IInv, TypeOK, Await, Goto, pool, kernel
<1>2. PoolInv'
  BY DEF IInv, PoolInv, Await, pool
<1>3. HeldInv'
  BY <1>0 DEF IInv, TypeOK, HeldInv, Await, pool
<1>4. ArmedInv'
  BY <1>0 DEF IInv, TypeOK, ArmedInv, Awaited, Await, Goto, pool, kernel
<1>5. BatchInv'
  BY <1>0 DEF IInv, TypeOK, BatchInv, Awaited, Await, Goto, pool
<1>6. UniqueInv'
  BY UniqueFrame DEF IInv, Pending, Await, pool, kernel
<1>7. StackInv'
  BY DEF IInv, StackInv, Pending, Await, pool, kernel
<1>8. StackOnce'
  BY DEF IInv, StackOnce, Await
<1> QED
  BY <1>1, <1>2, <1>3, <1>4, <1>5, <1>6, <1>7, <1>8 DEF IInv

LEMMA CloseStep ==
  ASSUME IInv, NEW c \in Coros, NEW fd \in Fds, Close(c, fd)
  PROVE  IInv'
<1>1. TypeOK'
  BY DEF IInv, TypeOK, Close, pool, coro
<1>2. PoolInv'
  BY DEF IInv, PoolInv, Close, pool
<1>3. HeldInv'
  BY DEF IInv, HeldInv, Close, pool, coro
<1>4. ArmedInv'
  BY Reserved DEF IInv, TypeOK, ArmedInv, Awaited, Close, pool, coro
<1>5. BatchInv'
  BY DEF IInv, BatchInv, Awaited, Close, pool, coro
<1>0. \A x \in Ctxs : Pending(x)' => Pending(x)
  BY Reserved DEF IInv, TypeOK, Pending, Close
<1>6. UniqueInv'
  BY <1>0, UniqueFrame DEF IInv, Close, pool
<1>7. StackInv'
  BY <1>0 DEF IInv, TypeOK, StackInv, Close, pool, coro
<1>8. StackOnce'
  BY DEF IInv, StackOnce, Close
<1> QED
  BY <1>1, <1>2, <1>3, <1>4, <1>5, <1>6, <1>7, <1>8 DEF IInv

LEMMA EndStep ==
  ASSUME IInv, NEW c \in Coros, End(c)
  PROVE  IInv'
<1>1. TypeOK'
  BY DEF IInv, TypeOK, End, Goto, pool, kernel
<1>2. PoolInv'
  BY DEF IInv, PoolInv, End, pool
<1>3. HeldInv'
  BY DEF IInv, HeldInv, End, pool
<1>4. ArmedInv'
  BY DEF IInv, TypeOK, ArmedInv, Awaited, End, Goto, pool, kernel
<1>5. BatchInv'
  BY DEF IInv, TypeOK, BatchInv, Awaited, End, Goto, pool
<1>6. UniqueInv'
  BY UniqueFrame DEF IInv, Pending, End, pool, kernel
<1>7. StackInv'
  BY DEF IInv, StackInv, Pending, End, pool, kernel
<1>8. StackOnce'
  BY DEF IInv, StackOnce, End
<1> QED
  BY <1>1, <1>2, <1>3, <1>4, <1>5, <1>6, <1>7, <1>8 DEF IInv
-----------------------------------------------------------------------------
(* async_io().                                                             *)
LEMMA AcquireStep ==
  ASSUME IInv, NEW c \in Coros, Acquire(c)
  PROVE  IInv'
<1> DEFINE i == Inst(at[c])
<1>a. i \in Insts /\ at[c] \in Fds /\ pc[c] = "acquire" /\ held[c] = "none"
  BY InstType DEF IInv, TypeOK, Acquire
<1>b. PICK x \in Ctxs :
        /\ \/ /\ free[i] # <<>> /\ x = free[i][Len(free[i])]
              /\ free' = [free EXCEPT ![i] = SubSeq(@, 1, Len(@) - 1)]
              /\ all' = all
           \/ /\ x \notin UNION {all[j] : j \in Insts}
              /\ all' = [all EXCEPT ![i] = @ \cup {x}]
              /\ free' = free
        /\ ctx' = [ctx EXCEPT ![x] = [fd |-> at[c], co |-> c]]
        /\ held' = [held EXCEPT ![c] = x]
  BY DEF Acquire
<1>c. ctx[x].co \notin Coros
  <2>1. CASE free[i] # <<>> /\ x = free[i][Len(free[i])]
    BY <1>a, <2>1, Popped, Reserved DEF IInv, TypeOK, PoolInv
  <2>2. CASE x \notin UNION {all[j] : j \in Insts}
    BY <2>2, InstType DEF IInv, TypeOK, PoolInv
  <2> QED
    BY <1>b, <2>1, <2>2
<1>d. /\ ctx'[x].co = c /\ ctx'[x].fd = at[c]
      /\ \A y \in Ctxs \ {x} : ctx'[y] = ctx[y]
  BY <1>b DEF IInv, TypeOK
<1>e. ~Pending(x) /\ \A y \in Ctxs : Pending(y)' <=> Pending(y)
  BY <1>c, PendingAwaited DEF IInv, Awaited, Pending, Acquire, kernel
<1>1. TypeOK'
  <2>0. free[i] # <<>> => SubSeq(free[i], 1, Len(free[i]) - 1) \in Seq(Ctxs)
    BY <1>a, Popped DEF IInv, TypeOK
  <2>1. all' \in [Insts -> SUBSET Ctxs]
    <3>1. all \in [Insts -> SUBSET Ctxs]
      BY DEF IInv, TypeOK
    <3>2. all' = all \/ all' = [all EXCEPT ![i] = @ \cup {x}]
      BY <1>b
    <3> QED
      BY <1>a, <3>1, <3>2
  <2>2. free' \in [Insts -> Seq(Ctxs)]
    <3>1. CASE free' = free
      BY <3>1 DEF IInv, TypeOK
    <3>2. CASE /\ free[i] # <<>>
               /\ free' = [free EXCEPT ![i] = SubSeq(@, 1, Len(@) - 1)]
      BY <1>a, <2>0, <3>2 DEF IInv, TypeOK
    <3> QED
      BY <1>b, <3>1, <3>2
  <2> QED
    BY <1>a, <1>b, <2>1, <2>2, Reserved DEF IInv, TypeOK, Acquire, Goto, kernel
<1>2. PoolInv'
  <2>1. CASE /\ free[i] # <<>> /\ x = free[i][Len(free[i])]
             /\ free' = [free EXCEPT ![i] = SubSeq(@, 1, Len(@) - 1)]
             /\ all' = all
    <3>1. /\ DOMAIN free'[i] = 1 .. Len(free[i]) - 1
          /\ \A k \in DOMAIN free'[i] : free'[i][k] = free[i][k]
          /\ Len(free[i]) \in Nat \ {0} /\ DOMAIN free[i] = 1 .. Len(free[i])
          /\ \A j \in Insts \ {i} : free'[j] = free[j]
      BY <1>a, <2>1, Popped DEF IInv, TypeOK
    <3>2. x \in all[i]
      BY <1>a, <2>1, <3>1 DEF IInv, PoolInv
    <3>3. \A j \in Insts : \A k \in DOMAIN free'[j] :
            k \in DOMAIN free[j] /\ free'[j][k] = free[j][k] /\ free'[j][k] # x
      BY <1>a, <2>1, <3>1, <3>2 DEF IInv, PoolInv
    <3>4. \A j \in Insts : \A k \in DOMAIN free'[j] : free'[j][k] \in Ctxs
      BY <2>1, <1>1 DEF TypeOK
    <3>5. \A y \in Ctxs : ctx'[y].co \in Coros => y \in all'[Inst(ctx'[y].fd)]
      BY <1>a, <1>d, <2>1, <3>2 DEF IInv, PoolInv
    <3>6. \A j \in Insts : \A k \in DOMAIN free'[j] :
            free'[j][k] \in all'[j] /\ ctx'[free'[j][k]].co = "none"
      BY <1>d, <2>1, <3>3, <3>4 DEF IInv, PoolInv
    <3>7. \A j \in Insts : \A k, l \in DOMAIN free'[j] :
            free'[j][k] = free'[j][l] => k = l
      BY <3>3 DEF IInv, PoolInv
    <3> QED
      BY <2>1, <3>5, <3>6, <3>7 DEF IInv, PoolInv
  <2>2. CASE /\ x \notin UNION {all[j] : j \in Insts}
             /\ all' = [all EXCEPT ![i] = @ \cup {x}]
             /\ free' = free
    <3>1. /\ all'[i] = all[i] \cup {x}
          /\ \A j \in Insts \ {i} : all'[j] = all[j]
          /\ \A j \in Insts : x \notin all[j]
      BY <1>a, <2>2 DEF IInv, TypeOK
    <3>2. \A j \in Insts : \A k \in DOMAIN free[j] :
            free[j][k] \in Ctxs \ {x}
      BY <3>1 DEF IInv, TypeOK, PoolInv
    <3>3. \A y \in Ctxs : ctx'[y].co \in Coros => y \in all'[Inst(ctx'[y].fd)]
      <4> SUFFICES ASSUME NEW y \in Ctxs, ctx'[y].co \in Coros
                   PROVE  y \in all'[Inst(ctx'[y].fd)]
        OBVIOUS
      <4>1. CASE y = x
        BY <1>d, <3>1, <4>1
      <4>2. CASE y # x
        <5>1. y \in all[Inst(ctx[y].fd)] /\ Inst(ctx[y].fd) \in Insts
          BY <1>d, <4>2, InstType DEF IInv, TypeOK, PoolInv
        <5> QED
          BY <1>d, <3>1, <4>2, <5>1
      <4> QED
        BY <4>1, <4>2
    <3> QED
      BY <1>a, <1>d, <2>2, <3>1, <3>2, <3>3 DEF IInv, PoolInv
  <2> QED
    BY <1>b, <2>1, <2>2
<1>3. HeldInv'
  BY <1>a, <1>b, <1>c, <1>d DEF IInv, TypeOK, HeldInv, Acquire
<1>4. ArmedInv'
  BY <1>a, <1>c, <1>d DEF IInv, TypeOK, ArmedInv, Awaited, Acquire, Goto, kernel
<1>5. BatchInv'
  BY <1>a, <1>c, <1>d DEF IInv, TypeOK, BatchInv, Awaited, Acquire, Goto
<1>6. UniqueInv'
  BY <1>d, <1>e, UniqueFrame DEF IInv
<1>7. StackInv'
  BY <1>b, <1>c, <1>d, <1>e DEF IInv, TypeOK, StackInv, Acquire
<1>8. StackOnce'
  BY DEF IInv, StackOnce, Acquire
<1> QED
  BY <1>1, <1>2, <1>3, <1>4, <1>5, <1>6, <1>7, <1>8 DEF IInv

LEMMA ModStep ==
  ASSUME IInv, NEW c \in Coros, Mod(c)
  PROVE  IInv'
<1>1. CASE Refused(at[c]) \/ reg[at[c]] = "absent"
  <2>0. /\ pc[c] = "mod" /\ pc' = [pc EXCEPT ![c] = "add"]
        /\ UNCHANGED <<running, dead, loop, batch, pool, kernel, at, held,
                       host, unwind, spc>>
    BY <1>1 DEF Mod, Goto, kernel
  <2>1. TypeOK'
    BY <2>0 DEF IInv, TypeOK, pool, kernel
  <2>2. PoolInv' /\ HeldInv' /\ StackOnce'
    BY <1>1 DEF IInv, PoolInv, HeldInv, StackOnce, Mod, pool
  <2>3. ArmedInv' /\ BatchInv'
    BY <1>1 DEF IInv, TypeOK, ArmedInv, BatchInv, Awaited, Mod, Goto, pool
  <2>4. UniqueInv'
    BY <1>1, UniqueFrame DEF IInv, Pending, Mod, pool
  <2>5. StackInv'
    BY <1>1 DEF IInv, StackInv, Pending, Mod, pool
  <2> QED
    BY <2>1, <2>2, <2>3, <2>4, <2>5 DEF IInv
<1>2. CASE ~(Refused(at[c]) \/ reg[at[c]] = "absent")
  BY <1>2, ArmStep DEF Mod
<1> QED
  BY <1>1, <1>2

LEMMA AddStep ==
  ASSUME IInv, NEW c \in Coros, Add(c)
  PROVE  IInv'
<1>1. CASE Refused(at[c]) \/ reg[at[c]] # "absent"
  <2> DEFINE x == held[c]
             t == host[c]
  <2>a. /\ x \in Ctxs /\ ctx[x].co = c /\ t \in Threads
        /\ pc[c] = "add" /\ at[c] \in Fds
    BY Reserved DEF IInv, TypeOK, HeldInv, Add
  <2>b. ~Pending(x) /\ \A y \in Ctxs : Pending(y)' <=> Pending(y)
    BY <1>1, <2>a, PendingAwaited DEF IInv, Awaited, Pending, Add
  <2>c. /\ unwind' = [unwind EXCEPT ![t] = Append(@, x)]
        /\ held' = [held EXCEPT ![c] = "none"]
        /\ pc' = [pc EXCEPT ![c] = "user"]
        /\ UNCHANGED <<running, dead, loop, batch, pool, kernel, at, host, spc>>
    BY <1>1 DEF Add, Goto, kernel
  <2>d. /\ unwind' \in [Threads -> Seq(Ctxs)]
        /\ \A u \in Threads \ {t} : unwind'[u] = unwind[u]
        /\ DOMAIN unwind'[t] = 1 .. Len(unwind[t]) + 1
        /\ Len(unwind[t]) \in Nat /\ DOMAIN unwind[t] = 1 .. Len(unwind[t])
        /\ \A k \in DOMAIN unwind[t] : unwind'[t][k] = unwind[t][k]
        /\ unwind'[t][Len(unwind[t]) + 1] = x
    BY <2>a, <2>c, Pushed DEF IInv, TypeOK
  <2>e. ASSUME NEW u \in Threads, NEW k \in DOMAIN unwind'[u]
        PROVE  \/ u = t /\ k = Len(unwind[t]) + 1 /\ unwind'[u][k] = x
               \/ /\ k \in DOMAIN unwind[u] /\ unwind'[u][k] = unwind[u][k]
                  /\ unwind'[u][k] # x /\ unwind'[u][k] \in Ctxs
                  /\ k \in Nat /\ (u = t => k <= Len(unwind[t]))
    <3>1. CASE u # t
      BY <2>a, <2>d, <2>e, <3>1 DEF IInv, TypeOK, StackInv
    <3>2. CASE u = t
      <4>1. CASE k = Len(unwind[t]) + 1
        BY <2>d, <3>2, <4>1
      <4>2. CASE k # Len(unwind[t]) + 1
        <5>1. k \in DOMAIN unwind[t] /\ k <= Len(unwind[t]) /\ k \in Nat
          BY <2>d, <2>e, <3>2, <4>2
        <5>2. unwind[t][k] # x /\ unwind[t][k] \in Ctxs
          BY <2>a, <5>1 DEF IInv, TypeOK, StackInv
        <5> QED
          BY <2>d, <3>2, <5>1, <5>2
      <4> QED
        BY <4>1, <4>2
    <3> QED
      BY <3>1, <3>2
  <2>1. TypeOK'
    BY <2>a, <2>c, <2>d, Reserved DEF IInv, TypeOK, pool, kernel
  <2>2. PoolInv'
    BY <1>1 DEF IInv, PoolInv, Add, pool
  <2>3. HeldInv'
    BY <2>c, Reserved DEF IInv, TypeOK, HeldInv, pool
  <2>4. ArmedInv' /\ BatchInv'
    BY <1>1, <2>a DEF IInv, TypeOK, ArmedInv, BatchInv, Awaited, Add, Goto, pool
  <2>5. UniqueInv'
    BY <1>1, <2>b, UniqueFrame DEF IInv, Add, pool
  <2>6. StackInv'
    <3>1. \A d \in Coros : held'[d] # x
      BY <2>a, <2>c, Reserved DEF IInv, TypeOK, HeldInv
    <3>2. \A d \in Coros : held'[d] = "none" \/ held'[d] = held[d]
      BY <2>c DEF IInv, TypeOK
    <3> QED
      BY <1>1, <2>a, <2>b, <2>e, <3>1, <3>2, Reserved DEF IInv, StackInv, Add, pool
  <2>7. StackOnce'
    BY <2>d, <2>e DEF IInv, StackOnce
  <2> QED
    BY <2>1, <2>2, <2>3, <2>4, <2>5, <2>6, <2>7 DEF IInv
<1>2. CASE ~(Refused(at[c]) \/ reg[at[c]] # "absent")
  BY <1>2, ArmStep DEF Add
<1> QED
  BY <1>1, <1>2
-----------------------------------------------------------------------------
(* The thread that invoked a callback, and the event loop.                 *)
LEMMA ReturnStep ==
  ASSUME IInv, NEW t \in Threads, Return(t)
  PROVE  IInv'
<1> DEFINE n == Len(unwind[t])
           x == unwind[t][n]
<1>a. /\ n \in DOMAIN unwind[t] /\ n \in Nat \ {0} /\ x \in Ctxs
      /\ DOMAIN unwind[t] = 1 .. n
  BY Popped DEF IInv, TypeOK, Return
<1>b. /\ ctx[x].co \in Coros /\ ~Pending(x)
      /\ \A c \in Coros : held[c] # x
  BY <1>a DEF IInv, StackInv
<1>c. Release(x) /\ unwind' = [unwind EXCEPT ![t] = SubSeq(@, 1, Len(@) - 1)]
  BY DEF Return
<1>d. /\ PoolInv'
      /\ all' = all /\ free' \in [Insts -> Seq(Ctxs)]
      /\ ctx' \in [Ctxs -> [fd : Fds, co : Coros \cup {"none"}]]
      /\ \A y \in Ctxs \ {x} : ctx'[y] = ctx[y]
  BY <1>a, <1>b, <1>c, ReleasePool DEF IInv
<1>e. /\ unwind' \in [Threads -> Seq(Ctxs)]
      /\ \A u \in Threads \ {t} : unwind'[u] = unwind[u]
      /\ DOMAIN unwind'[t] = 1 .. n - 1
      /\ \A k \in 1 .. n - 1 : unwind'[t][k] = unwind[t][k]
  <2>1. /\ SubSeq(unwind[t], 1, n - 1) \in Seq(Ctxs)
        /\ DOMAIN SubSeq(unwind[t], 1, n - 1) = 1 .. n - 1
        /\ \A k \in 1 .. n - 1 : SubSeq(unwind[t], 1, n - 1)[k] = unwind[t][k]
    BY Popped DEF IInv, TypeOK, Return
  <2> QED
    BY <1>c, <2>1 DEF IInv, TypeOK
<1>f. \A u \in Threads : \A k \in DOMAIN unwind'[u] :
        /\ k \in DOMAIN unwind[u] /\ unwind'[u][k] = unwind[u][k]
        /\ unwind[u][k] \in Ctxs /\ unwind[u][k] # x
  <2> SUFFICES ASSUME NEW u \in Threads, NEW k \in DOMAIN unwind'[u]
               PROVE  /\ k \in DOMAIN unwind[u] /\ unwind'[u][k] = unwind[u][k]
                      /\ unwind[u][k] \in Ctxs /\ unwind[u][k] # x
    OBVIOUS
  <2>1. /\ k \in DOMAIN unwind[u] /\ unwind'[u][k] = unwind[u][k]
        /\ u = t => k # n
    BY <1>a, <1>e
  <2> QED
    BY <1>a, <2>1 DEF IInv, TypeOK, StackOnce
<1>g. \A y \in Ctxs : Pending(y)' <=> Pending(y)
  BY DEF Pending, Return, kernel
<1>1. TypeOK'
  BY <1>d, <1>e DEF IInv, TypeOK, Return, kernel, coro
<1>2. PoolInv'
  BY <1>d
<1>3. HeldInv'
  BY <1>b, <1>d DEF IInv, HeldInv, Return, coro
<1>4. ArmedInv'
  <2>1. \A f \in Fds : reg[f] # x
    BY <1>b DEF Pending
  <2> QED
    BY <1>d, <2>1 DEF IInv, ArmedInv, Awaited, Return, kernel, coro
<1>5. BatchInv'
  <2>1. \A i \in Insts : \A y \in batch[i] : y \in Ctxs \ {x}
    BY <1>b DEF IInv, TypeOK, Pending
  <2> QED
    BY <1>d, <2>1 DEF IInv, BatchInv, Awaited, Return, coro
<1>6. UniqueInv'
  BY <1>b, <1>d, <1>g, UniqueFrame DEF IInv
<1>7. StackInv'
  <2> SUFFICES ASSUME NEW u \in Threads, NEW k \in DOMAIN unwind'[u]
               PROVE  /\ ctx'[unwind'[u][k]].co \in Coros
                      /\ ~Pending(unwind[u][k])'
                      /\ \A c \in Coros : held'[c] # unwind'[u][k]
    BY DEF StackInv
  <2>1. PICK y \in Ctxs \ {x} : /\ y = unwind[u][k] /\ y = unwind'[u][k]
                                /\ k \in DOMAIN unwind[u]
    BY <1>f
  <2>2. /\ ctx[y].co \in Coros /\ ~Pending(y)
        /\ \A c \in Coros : held[c] # y
    BY <2>1 DEF IInv, StackInv
  <2>3. ctx'[y] = ctx[y] /\ ~Pending(y)'
    BY <1>d, <1>g, <2>2
  <2> QED
    BY <2>1, <2>2, <2>3 DEF Pending, Return, coro
<1>8. StackOnce'
  BY <1>f DEF IInv, StackOnce
<1> QED
  BY <1>1, <1>2, <1>3, <1>4, <1>5, <1>6, <1>7, <1>8 DEF IInv

LEMMA SkipStep ==
  ASSUME IInv, NEW i \in Insts, NEW x \in Ctxs, Skip(i, x)
  PROVE  IInv'
<1>a. /\ ctx[x].co \in Coros /\ pc[ctx[x].co] = "wait" /\ Pending(x)
      /\ Inst(ctx[x].fd) = i
  BY DEF IInv, BatchInv, Awaited, Pending, Skip
<1>b. Release(x) /\ batch' = [batch EXCEPT ![i] = @ \ {x}]
  BY DEF Skip
<1>c. /\ PoolInv'
      /\ all' = all /\ free' \in [Insts -> Seq(Ctxs)]
      /\ ctx' \in [Ctxs -> [fd : Fds, co : Coros \cup {"none"}]]
      /\ \A y \in Ctxs \ {x} : ctx'[y] = ctx[y]
  BY <1>a, <1>b, ReleasePool DEF IInv
<1>d. /\ \A f \in Fds : reg[f] # x
      /\ \A j \in Insts : x \notin batch'[j] /\ batch'[j] \subseteq batch[j]
  BY <1>a, <1>b DEF IInv, TypeOK, ArmedInv, BatchInv, Skip
<1>e. \A y \in Ctxs : Pending(y)' => Pending(y) /\ y # x
  BY <1>d DEF Pending, Skip, kernel
<1>f. \A d \in Coros : held[d] # x
  <2> SUFFICES ASSUME NEW d \in Coros, held[d] = x PROVE FALSE
    OBVIOUS
  <2>1. ctx[x].co = d /\ pc[d] \in {"mod", "add"}
    BY Reserved DEF IInv, TypeOK, HeldInv
  <2> QED
    BY <1>a, <2>1
<1>1. TypeOK'
  <2>1. batch' \in [Insts -> SUBSET Ctxs]
    BY <1>b DEF IInv, TypeOK
  <2> QED
    BY <1>c, <2>1 DEF IInv, TypeOK, Skip, kernel, coro
<1>2. PoolInv'
  BY <1>c
<1>3. HeldInv'
  BY <1>c, <1>f DEF IInv, HeldInv, Skip, coro
<1>4. ArmedInv'
  BY <1>c, <1>d DEF IInv, ArmedInv, Awaited, Skip, kernel, coro
<1>5. BatchInv'
  <2> SUFFICES ASSUME NEW j \in Insts, NEW y \in batch'[j]
               PROVE  Awaited(y)' /\ Inst(ctx'[y].fd) = j
    BY DEF BatchInv
  <2>1. y \in batch[j] /\ y \in Ctxs \ {x} /\ ctx'[y] = ctx[y]
    BY <1>c, <1>d DEF IInv, TypeOK
  <2> QED
    BY <2>1 DEF IInv, BatchInv, Awaited, Skip, coro
<1>6. UniqueInv'
  BY <1>c, <1>e, UniqueFrame DEF IInv
<1>7. StackInv'
  <2>1. \A t \in Threads : \A k \in DOMAIN unwind[t] :
          unwind[t][k] \in Ctxs \ {x}
    BY <1>a DEF IInv, TypeOK, StackInv
  <2> QED
    BY <1>c, <1>e, <2>1 DEF IInv, StackInv, Skip, coro
<1>8. StackOnce'
  BY DEF IInv, StackOnce, Skip
<1> QED
  BY <1>1, <1>2, <1>3, <1>4, <1>5, <1>6, <1>7, <1>8 DEF IInv

LEMMA PollStep ==
  ASSUME IInv, NEW i \in Insts, Poll(i)
  PROVE  IInv'
<1>a. PICK S \in SUBSET ReadyFds(i) :
        /\ batch' = [batch EXCEPT ![i] = {reg[fd] : fd \in S}]
        /\ reg' = [fd \in Fds |-> IF fd \in S THEN "disarmed" ELSE reg[fd]]
  BY DEF Poll
<1>b. /\ S \subseteq Fds /\ \A f \in S : reg[f] \in Ctxs /\ Inst(f) = i
      /\ batch[i] = {}
  BY DEF ReadyFds, Poll, IInv, TypeOK
<1>c. \A f \in Fds : reg'[f] \in Ctxs => f \notin S /\ reg'[f] = reg[f]
  BY <1>a, Reserved
<1>d. \A j \in Insts : \A y \in batch'[j] :
        \/ y \in batch[j]
        \/ j = i /\ \E f \in S : y = reg[f]
  BY <1>a DEF IInv, TypeOK
<1>e. \A y \in Ctxs : Pending(y)' => Pending(y)
  BY <1>b, <1>c, <1>d DEF Pending
<1>1. TypeOK'
  <2>1. batch' \in [Insts -> SUBSET Ctxs]
    BY <1>a, <1>b DEF IInv, TypeOK
  <2>2. reg' \in [Fds -> Ctxs \cup {"absent", "disarmed"}]
    BY <1>a DEF IInv, TypeOK
  <2> QED
    BY <2>1, <2>2 DEF IInv, TypeOK, Poll, AtLoop, pool, coro
<1>2. PoolInv'
  BY DEF IInv, PoolInv, Poll, pool
<1>3. HeldInv'
  BY DEF IInv, HeldInv, Poll, pool, coro
<1>4. ArmedInv'
  <2> SUFFICES ASSUME NEW f \in Fds, reg'[f] \in Ctxs
               PROVE  /\ Awaited(reg[f])' /\ ctx'[reg'[f]].fd = f
                      /\ \A j \in Insts : reg'[f] \notin batch'[j]
    BY DEF ArmedInv
  <2>1. f \notin S /\ reg'[f] = reg[f] /\ ctx[reg[f]].fd = f
    BY <1>c DEF IInv, ArmedInv
  <2>2. \A g \in S : ctx[reg[g]].fd = g
    BY <1>b DEF IInv, ArmedInv
  <2>3. \A j \in Insts : reg[f] \notin batch'[j]
    BY <1>d, <2>1, <2>2 DEF IInv, ArmedInv
  <2>4. Awaited(reg[f])'
    BY <2>1 DEF IInv, ArmedInv, Awaited, Poll, pool, coro
  <2> QED
    BY <2>1, <2>3, <2>4 DEF Poll, pool
<1>5. BatchInv'
  <2>1. \A j \in Insts : \A y \in batch'[j] : Awaited(y) /\ Inst(ctx[y].fd) = j
    BY <1>b, <1>d DEF IInv, ArmedInv, BatchInv
  <2> QED
    BY <2>1 DEF BatchInv, Awaited, Poll, pool, coro
<1>6. UniqueInv'
  BY <1>e, UniqueFrame DEF IInv, Poll, pool
<1>7. StackInv'
  BY <1>e DEF IInv, TypeOK, StackInv, Poll, pool, coro
<1>8. StackOnce'
  BY DEF IInv, StackOnce, Poll
<1> QED
  BY <1>1, <1>2, <1>3, <1>4, <1>5, <1>6, <1>7, <1>8 DEF IInv

LEMMA DispatchStep ==
  ASSUME IInv, NEW i \in Insts, NEW x \in Ctxs, Dispatch(i, x)
  PROVE  IInv'
<1> DEFINE c == ctx[x].co
<1>a. /\ c \in Coros /\ pc[c] = "wait" /\ Pending(x) /\ Inst(ctx[x].fd) = i
      /\ unwind[i] = <<>> /\ i \in Threads
  BY DEF IInv, BatchInv, Awaited, Pending, Dispatch, AtLoop, Threads
<1>b. /\ batch' = [batch EXCEPT ![i] = @ \ {x}]
      /\ unwind' = [unwind EXCEPT ![i] = <<x>>]
      /\ host' = [host EXCEPT ![c] = i]
      /\ pc' = [pc EXCEPT ![c] = "user"]
      /\ ready' \in {ready, ready \ {ctx[x].fd}}
      /\ UNCHANGED <<running, dead, loop, pool, reg, at, held, spc>>
  BY DEF Dispatch, Goto
<1>c. /\ \A f \in Fds : reg[f] # x
      /\ \A j \in Insts : x \notin batch'[j] /\ batch'[j] \subseteq batch[j]
  BY <1>a, <1>b DEF IInv, TypeOK, ArmedInv, BatchInv, Dispatch
<1>d. \A y \in Ctxs : Pending(y)' => Pending(y) /\ y # x
  BY <1>b, <1>c DEF Pending
<1>e. \A y \in Ctxs : Pending(y)' => ctx[y].co # c
  BY <1>a, <1>d DEF IInv, UniqueInv
<1>f. \A d \in Coros : held[d] # x
  <2> SUFFICES ASSUME NEW d \in Coros, held[d] = x PROVE FALSE
    OBVIOUS
  <2>1. ctx[x].co = d /\ pc[d] \in {"mod", "add"}
    BY Reserved DEF IInv, TypeOK, HeldInv
  <2> QED
    BY <1>a, <2>1
<1>1. TypeOK'
  <2>1. <<x>> \in Seq(Ctxs)
    OBVIOUS
  <2> QED
    BY <1>a, <1>b, <2>1 DEF IInv, TypeOK, pool
<1>2. PoolInv'
  BY <1>b DEF IInv, PoolInv, pool
<1>3. HeldInv'
  BY <1>b DEF IInv, HeldInv, pool
<1>4. ArmedInv'
  <2>1. \A f \in Fds : reg[f] \in Ctxs => ctx[reg[f]].co # c
    BY <1>b, <1>e DEF Pending
  <2> QED
    BY <1>b, <1>c, <2>1 DEF IInv, TypeOK, ArmedInv, Awaited, pool
<1>5. BatchInv'
  <2>1. \A j \in Insts : \A y \in batch'[j] :
          y \in batch[j] /\ ctx[y].co # c
    BY <1>c, <1>e DEF IInv, TypeOK, Pending
  <2> QED
    BY <1>b, <2>1 DEF IInv, TypeOK, BatchInv, Awaited, pool
<1>6. UniqueInv'
  BY <1>b, <1>d, UniqueFrame DEF IInv, pool
<1>g. \A t \in Threads : \A k \in DOMAIN unwind'[t] :
        \/ t = i /\ k = 1 /\ unwind'[t][k] = x
        \/ /\ t # i /\ k \in DOMAIN unwind[t]
           /\ unwind'[t][k] = unwind[t][k] /\ unwind[t][k] \in Ctxs
           /\ unwind[t][k] # x
  <2>1. DOMAIN <<x>> = {1} /\ <<x>>[1] = x
    OBVIOUS
  <2>2. \A t \in Threads : \A k \in DOMAIN unwind[t] :
          unwind[t][k] \in Ctxs \ {x}
    BY <1>a DEF IInv, TypeOK, StackInv
  <2>3. unwind'[i] = <<x>> /\ \A t \in Threads \ {i} : unwind'[t] = unwind[t]
    BY <1>a, <1>b DEF IInv, TypeOK
  <2> QED
    BY <2>1, <2>2, <2>3
<1>7. StackInv'
  BY <1>a, <1>b, <1>d, <1>f, <1>g DEF IInv, StackInv, pool
<1>8. StackOnce'
  BY <1>g DEF IInv, StackOnce
<1> QED
  BY <1>1, <1>2, <1>3, <1>4, <1>5, <1>6, <1>7, <1>8 DEF IInv
-----------------------------------------------------------------------------
LEMMA NextIInv == IInv /\ [Next]_vars => IInv'
<1> SUFFICES ASSUME IInv, [Next]_vars PROVE IInv'
  OBVIOUS
<1>0. \A c \in Coros : Uses[c] \subseteq Fds
  BY EpollAssumption
<1>1. ASSUME NEW c \in Coros, AsyncIo(c) PROVE IInv'
  BY <1>1, AcquireStep, ModStep, AddStep DEF AsyncIo
<1>2. ASSUME NEW c \in Coros, User(c) PROVE IInv'
  BY <1>0, <1>2, EndStep, AwaitStep, CloseStep DEF User
<1>3. ASSUME NEW t \in Threads, Return(t) PROVE IInv'
  BY <1>3, ReturnStep
<1>4. ASSUME NEW i \in Insts, Loop(i) PROVE IInv'
  <2>1. CASE Enter(i) \/ LoopExit(i)
    <3>1. TypeOK'
      BY <2>1 DEF IInv, TypeOK, Enter, LoopExit, pool, kernel, coro
    <3> QED
      BY <2>1, <3>1, FrameStep DEF Enter, LoopExit, kernel
  <2> QED
    BY <1>4, <2>1, PollStep, DispatchStep, SkipStep DEF Loop
<1>5. ASSUME NEW s \in Stoppers, StopCall(s) \/ StopReturn(s) PROVE IInv'
  <2>1. TypeOK'
    BY <1>5 DEF IInv, TypeOK, StopCall, StopReturn, pool, kernel, coro
  <2> QED
    BY <1>5, <2>1, FrameStep DEF StopCall, StopReturn, kernel
<1>6. ASSUME NEW fd \in Fds, Arrive(fd) PROVE IInv'
  <2>1. TypeOK'
    BY <1>6 DEF IInv, TypeOK, Arrive, pool, coro
  <2> QED
    BY <1>6, <2>1, FrameStep DEF Arrive
<1>7. CASE UNCHANGED vars
  <2>1. TypeOK'
    BY <1>7 DEF IInv, TypeOK, vars, pool, kernel, coro
  <2> QED
    BY <1>7, <2>1, FrameStep DEF vars, kernel
<1> QED
  BY <1>1, <1>2, <1>3, <1>4, <1>5, <1>6, <1>7 DEF Next

THEOREM Invariance == Spec => []IInv
BY InitIInv, NextIInv, PTL DEF Spec

\* Every variable keeps its type; async_io() has a context exactly between
\* acquire() and epoll_ctl.
THEOREM TypeCorrect == Spec => []TypeOK
<1>1. IInv => TypeOK
  BY DEF IInv
<1> QED
  BY Invariance, <1>1, PTL

\* Whoever shares a descriptor, and whichever call epoll refuses: what epoll or
\* an event loop will call back is one suspended coroutine, in the operation
\* it waits for, and no other context will resume it.
THEOREM ResumedOnce == Spec => []SingleResume
<1>1. IInv => SingleResume
  BY PendingAwaited DEF IInv, UniqueInv, SingleResume, Awaited
<1> QED
  BY Invariance, <1>1, PTL

-----------------------------------------------------------------------------
(* Where a context is.                                                     *)

HeldAt(x, r)  == \E c \in Coros : r = <<"held", c>> /\ held[c] = x
ArmedAt(x, r) == \E f \in Fds : r = <<"armed", f>> /\ reg[f] = x
TakenAt(x, r) == \E i \in Insts : r = <<"batch", i>> /\ x \in batch[i]
FreeAt(x, r)  ==
    \E i \in Insts : \E k \in DOMAIN free[i] : r = <<"free", i, k>> /\ free[i][k] = x
StackAt(x, r) ==
    \E t \in Threads : \E k \in DOMAIN unwind[t] :
        r = <<"stack", t, k>> /\ unwind[t][k] = x

LEMMA PlaceKinds ==
  ASSUME NEW x \in Ctxs, NEW r \in Places(x)
  PROVE  HeldAt(x, r) \/ ArmedAt(x, r) \/ TakenAt(x, r) \/ FreeAt(x, r) \/ StackAt(x, r)
<1> DEFINE F(i) == {<<"free", i, k>> : k \in {n \in DOMAIN free[i] : free[i][n] = x}}
           S(t) == {<<"stack", t, k>> : k \in {n \in DOMAIN unwind[t] : unwind[t][n] = x}}
<1>1. CASE r \in {<<"held", c>> : c \in {d \in Coros : held[d] = x}}
  BY <1>1 DEF HeldAt
<1>2. CASE r \in {<<"armed", f>> : f \in {g \in Fds : reg[g] = x}}
  BY <1>2 DEF ArmedAt
<1>3. CASE r \in {<<"batch", i>> : i \in {j \in Insts : x \in batch[j]}}
  BY <1>3 DEF TakenAt
<1>4. CASE r \in UNION {F(i) : i \in Insts}
  <2>1. PICK i \in Insts : r \in F(i)
    BY <1>4
  <2> QED
    BY <2>1 DEF FreeAt
<1>5. CASE r \in UNION {S(t) : t \in Threads}
  <2>1. PICK t \in Threads : r \in S(t)
    BY <1>5
  <2> QED
    BY <2>1 DEF StackAt
<1> QED
  BY <1>1, <1>2, <1>3, <1>4, <1>5 DEF Places

LEMMA PlaceFacts ==
  ASSUME IInv, NEW x \in Ctxs, NEW r
  PROVE  /\ HeldAt(x, r) => /\ ctx[x].co \in Coros /\ r = <<"held", ctx[x].co>>
                            /\ held[ctx[x].co] = x /\ pc[ctx[x].co] # "wait"
         /\ ArmedAt(x, r) => /\ ctx[x].co \in Coros /\ r = <<"armed", ctx[x].fd>>
                             /\ Pending(x) /\ pc[ctx[x].co] = "wait"
                             /\ \A i \in Insts : x \notin batch[i]
         /\ TakenAt(x, r) => /\ ctx[x].co \in Coros /\ r = <<"batch", Inst(ctx[x].fd)>>
                             /\ Pending(x) /\ pc[ctx[x].co] = "wait"
                             /\ \E i \in Insts : x \in batch[i]
         /\ FreeAt(x, r) => ctx[x].co = "none"
         /\ StackAt(x, r) => /\ ctx[x].co \in Coros /\ ~Pending(x)
                             /\ \A c \in Coros : held[c] # x
<1>1. ASSUME HeldAt(x, r)
      PROVE  /\ ctx[x].co \in Coros /\ r = <<"held", ctx[x].co>>
             /\ held[ctx[x].co] = x /\ pc[ctx[x].co] # "wait"
  <2>1. PICK c \in Coros : r = <<"held", c>> /\ held[c] = x
    BY <1>1 DEF HeldAt
  <2>2. ctx[x].co = c
    BY <2>1 DEF IInv, HeldInv
  <2>3. pc[c] # "wait"
    BY <2>1, Reserved DEF IInv, TypeOK
  <2> QED
    BY <2>1, <2>2, <2>3
<1>2. ASSUME ArmedAt(x, r)
      PROVE  /\ ctx[x].co \in Coros /\ r = <<"armed", ctx[x].fd>>
             /\ Pending(x) /\ pc[ctx[x].co] = "wait"
             /\ \A i \in Insts : x \notin batch[i]
  BY <1>2 DEF ArmedAt, IInv, ArmedInv, Awaited, Pending
<1>3. ASSUME TakenAt(x, r)
      PROVE  /\ ctx[x].co \in Coros /\ r = <<"batch", Inst(ctx[x].fd)>>
             /\ Pending(x) /\ pc[ctx[x].co] = "wait"
             /\ \E i \in Insts : x \in batch[i]
  BY <1>3 DEF TakenAt, IInv, BatchInv, Awaited, Pending
<1>4. FreeAt(x, r) => ctx[x].co = "none"
  BY DEF FreeAt, IInv, PoolInv
<1>5. StackAt(x, r) => /\ ctx[x].co \in Coros /\ ~Pending(x)
                       /\ \A c \in Coros : held[c] # x
  BY DEF StackAt, IInv, StackInv
<1> QED
  BY <1>1, <1>2, <1>3, <1>4, <1>5

\* No context is ever in two hands, however deep error callbacks nest and
\* however many threads release into the same pool.
THEOREM ContextsExclusive == Spec => []NoDoubleUse
<1>1. ASSUME IInv PROVE NoDoubleUse
  <2>1. ASSUME NEW x \in Ctxs, NEW p \in Places(x), NEW q \in Places(x)
        PROVE  p = q
    <3>1. /\ HeldAt(x, p) \/ ArmedAt(x, p) \/ TakenAt(x, p) \/ FreeAt(x, p) \/ StackAt(x, p)
          /\ HeldAt(x, q) \/ ArmedAt(x, q) \/ TakenAt(x, q) \/ FreeAt(x, q) \/ StackAt(x, q)
      BY PlaceKinds
    <3>2. ASSUME FreeAt(x, p), FreeAt(x, q) PROVE p = q
      <4>1. PICK i \in Insts : \E k \in DOMAIN free[i] :
              p = <<"free", i, k>> /\ free[i][k] = x
        BY <3>2 DEF FreeAt
      <4>2. PICK j \in Insts : \E l \in DOMAIN free[j] :
              q = <<"free", j, l>> /\ free[j][l] = x
        BY <3>2 DEF FreeAt
      <4>3. i = j
        BY <1>1, <4>1, <4>2 DEF IInv, PoolInv
      <4> QED
        BY <1>1, <4>1, <4>2, <4>3 DEF IInv, PoolInv
    <3>3. ASSUME StackAt(x, p), StackAt(x, q) PROVE p = q
      BY <1>1, <3>3 DEF IInv, StackOnce, StackAt
    <3>4. CASE HeldAt(x, p) \/ HeldAt(x, q)
      BY <1>1, <3>1, <3>4, PlaceFacts, Reserved
    <3>5. CASE ArmedAt(x, p) \/ ArmedAt(x, q)
      BY <1>1, <3>1, <3>5, PlaceFacts, Reserved
    <3>6. CASE TakenAt(x, p) \/ TakenAt(x, q)
      BY <1>1, <3>1, <3>6, PlaceFacts, Reserved
    <3>7. CASE (FreeAt(x, p) /\ StackAt(x, q)) \/ (StackAt(x, p) /\ FreeAt(x, q))
      <4>1. \A r : FreeAt(x, r) => ctx[x].co \notin Coros
        BY <1>1, PlaceFacts, Reserved
      <4>2. \A r : StackAt(x, r) => ctx[x].co \in Coros
        BY <1>1, PlaceFacts
      <4> QED
        BY <3>7, <4>1, <4>2
    <3> QED
      BY <3>1, <3>2, <3>3, <3>4, <3>5, <3>6, <3>7
  <2> QED
    BY <1>1, <2>1 DEF IInv, PoolInv, NoDoubleUse
<1> QED
  BY Invariance, <1>1, PTL
-----------------------------------------------------------------------------
(* stop(), when one thread calls it.                                       *)

QuietInv ==
    /\ running <=> \A s \in Stoppers : spc[s] = "idle"
    /\ (\E s \in Stoppers : spc[s] = "done") => \A i \in Insts : loop[i] = "exit"
    /\ \A i \in Insts : loop[i] = "exit" => ~Occupied(i)

LEMMA NextQuietInv ==
  ASSUME \A s, r \in Stoppers : s = r,
         IInv, QuietInv, [Next]_vars
  PROVE  QuietInv'
<1> USE DEF QuietInv, Occupied, Active
<1>1. ASSUME NEW c \in Coros, AsyncIo(c) PROVE QuietInv'
  BY <1>1 DEF AsyncIo, Acquire, Mod, Add, Arm, Goto, IInv, TypeOK, coro
<1>2. ASSUME NEW c \in Coros, User(c) PROVE QuietInv'
  BY <1>2 DEF User, End, Await, Close, Goto, IInv, TypeOK, coro
<1>3. ASSUME NEW t \in Threads, Return(t) PROVE QuietInv'
  BY <1>3 DEF Return, coro
<1>4. ASSUME NEW i \in Insts, Loop(i) PROVE QuietInv'
  <2>1. CASE Enter(i) \/ Poll(i)
    BY <2>1 DEF Enter, Poll, AtLoop, IInv, TypeOK, coro
  <2>2. CASE LoopExit(i)
    BY <2>2 DEF LoopExit, GivesUp, AtLoop, IInv, TypeOK, coro
  <2>3. ASSUME NEW x \in Ctxs, Dispatch(i, x) PROVE QuietInv'
    BY <2>3 DEF Dispatch, AtLoop, Goto, IInv, TypeOK
  <2>4. ASSUME NEW x \in Ctxs, Skip(i, x) PROVE QuietInv'
    BY <2>4 DEF Skip, coro
  <2> QED
    BY <1>4, <2>1, <2>2, <2>3, <2>4 DEF Loop
<1>5. ASSUME NEW s \in Stoppers, StopCall(s) PROVE QuietInv'
  BY <1>5 DEF StopCall, IInv, TypeOK, coro
<1>6. ASSUME NEW s \in Stoppers, StopReturn(s) PROVE QuietInv'
  BY <1>6 DEF StopReturn, IInv, TypeOK, coro
<1>7. ASSUME NEW fd \in Fds, Arrive(fd) PROVE QuietInv'
  BY <1>7 DEF Arrive, coro
<1>8. CASE UNCHANGED vars
  BY <1>8 DEF vars, coro
<1> QED
  BY <1>1, <1>2, <1>3, <1>4, <1>5, <1>6, <1>7, <1>8 DEF Next

\* As long as only one thread ever calls stop(), no event loop thread is in a
\* coroutine once it has returned.  A second caller may return while the loops
\* still run.
THEOREM QuietAfterStop ==
  ASSUME \A s, r \in Stoppers : s = r
  PROVE  Spec => []StopQuiesces
<1>1. Init => QuietInv
  BY EpollAssumption DEF Init, QuietInv, Occupied, Active
<1>2. IInv /\ QuietInv /\ [Next]_vars => QuietInv'
  BY NextQuietInv
<1>3. QuietInv => StopQuiesces
  BY DEF QuietInv, StopQuiesces, Occupied
<1> QED
  BY Invariance, <1>1, <1>2, <1>3, PTL DEF Spec
=============================================================================
