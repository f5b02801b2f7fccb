--------------------------- MODULE EpollRefinement ---------------------------
(***************************************************************************)
(* What the epoll backend guarantees when no two coroutines operate on the *)
(* same descriptor: it loses no context, and does what AsyncIO promises a  *)
(* suspended coroutine.  With a shared descriptor neither holds, because   *)
(* EPOLL_CTL_MOD replaces a registration and close() removes it.           *)
(***************************************************************************)
EXTENDS EpollProofs

USE DEF Remaining, GiveUp, Register, Later, Disarm, Dropping, GivesUp, Joined

Apart == \A c, d \in Coros : c # d => Uses[c] \cap Uses[d] = {}

Freed(i, x) == \E k \in DOMAIN free[i] : free[i][k] = x
Stacked(x) == \E t \in Threads : \E k \in DOMAIN unwind[t] : unwind[t][k] = x
InUse(x) == (\E c \in Coros : held[c] = x) \/ Pending(x) \/ Stacked(x)

UsesInv == \A c \in Coros : pc[c] \notin {"user", "ended"} => at[c] \in Uses[c]

\* What was allocated is in use or in a free list.
KeptInv == \A i \in Insts : \A x \in all[i] : Freed(i, x) \/ InUse(x)

\* What epoll has reported stays so until it is served, because only the
\* waiting coroutine could drain or close the descriptor.
ReportInv == \A i \in Insts : \A x \in batch[i] : ctx[x].fd \in ready

DeadInv == dead \subseteq MayFail

OwnInv == UsesInv /\ KeptInv /\ ReportInv /\ DeadInv

LEMMA InitOwnInv == Init => OwnInv
BY DEF Init, OwnInv, UsesInv, KeptInv, ReportInv, DeadInv

\* Nobody else waits for the descriptor of a coroutine.
LEMMA Alone ==
  ASSUME Apart, UsesInv, NEW c \in Coros, NEW x, Awaited(x),
         ctx[x].fd \in Uses[c]
  PROVE  ctx[x].co = c
BY DEF Apart, UsesInv, Awaited

LEMMA KeptNext ==
  ASSUME KeptInv, all' = all,
         \A i \in Insts : \A x \in all[i] :
            Freed(i, x) \/ InUse(x) => Freed(i, x)' \/ InUse(x)'
  PROVE  KeptInv'
BY DEF KeptInv

\* Steps that leave every context where it is.
LEMMA OwnFrame ==
  ASSUME OwnInv, UsesInv', ready \subseteq ready',
         UNCHANGED <<dead, batch, pool, reg, held, unwind>>
  PROVE  OwnInv'
<1>1. KeptInv'
  BY KeptNext DEF OwnInv, Freed, InUse, Stacked, Pending, pool
<1> QED
  BY <1>1 DEF OwnInv, ReportInv, DeadInv, pool

LEMMA OwnAwait ==
  ASSUME OwnInv, IInv, NEW c \in Coros, NEW fd \in Uses[c], Await(c, fd)
  PROVE  OwnInv'
<1>1. UsesInv'
  BY EpollAssumption DEF OwnInv, UsesInv, Await, Goto, IInv, TypeOK
<1> QED
  BY <1>1, OwnFrame DEF Await, kernel

LEMMA OwnEnd ==
  ASSUME OwnInv, IInv, NEW c \in Coros, End(c)
  PROVE  OwnInv'
<1>1. UsesInv'
  BY DEF OwnInv, UsesInv, End, Goto, IInv, TypeOK
<1> QED
  BY <1>1, OwnFrame DEF End, kernel

\* A coroutine closes a descriptor that none waits for.
LEMMA OwnClose ==
  ASSUME Apart, OwnInv, IInv, NEW c \in Coros, NEW fd \in Uses[c], Close(c, fd)
  PROVE  OwnInv'
<1>1. \A x : Awaited(x) => ctx[x].fd # fd
  BY Alone DEF OwnInv, Awaited, Close
<1>2. reg[fd] \notin Ctxs
  BY <1>1, EpollAssumption DEF IInv, ArmedInv
<1>3. \A x \in Ctxs : Pending(x)' <=> Pending(x)
  BY <1>2, Reserved, EpollAssumption DEF Pending, Close, IInv, TypeOK
<1>4. KeptInv'
  <2>1. \A i \in Insts : \A x \in all[i] : x \in Ctxs
    BY DEF IInv, TypeOK
  <2> QED
    BY <1>3, <2>1, KeptNext DEF OwnInv, Freed, InUse, Stacked, Close, pool, coro
<1>5. ReportInv'
  BY <1>1 DEF OwnInv, ReportInv, IInv, BatchInv, Close, pool
<1> QED
  BY <1>4, <1>5 DEF OwnInv, UsesInv, DeadInv, Close, coro

LEMMA OwnAcquire ==
  ASSUME OwnInv, IInv, NEW c \in Coros, Acquire(c)
  PROVE  OwnInv'
<1> DEFINE i == Inst(at[c])
<1>a. i \in Insts /\ pc[c] = "acquire" /\ held[c] = "none"
  BY InstType DEF IInv, TypeOK, Acquire
<1>b. PICK x \in Ctxs :
        /\ \/ /\ free[i] # <<>> /\ x = free[i][Len(free[i])]
              /\ free' = [free EXCEPT ![i] = SubSeq(@, 1, Len(@) - 1)]
              /\ all' = all
           \/ /\ x \notin UNION {all[j] : j \in Insts}
              /\ all' = [all EXCEPT ![i] = @ \cup {x}]
              /\ free' = free
        /\ ctx' = [ctx EXCEPT ![x] = [fd |-> at[c], co |-> c]]
        /\ held' = [held EXCEPT ![c] = x]
  BY DEF Acquire, Remaining
<1> HIDE DEF i
<1>c. UNCHANGED <<dead, batch, kernel, at, unwind>> /\ Goto(c, "mod")
  BY DEF Acquire
<1>1. ctx[x].co \notin Coros
  <2>1. CASE free[i] # <<>> /\ x = free[i][Len(free[i])]
    BY <1>a, <2>1, Popped, Reserved DEF IInv, TypeOK, PoolInv
  <2>2. CASE x \notin UNION {all[j] : j \in Insts}
    BY <2>2, InstType DEF IInv, TypeOK, PoolInv
  <2> QED
    BY <1>b, <2>1, <2>2
<1>2. UsesInv'
  BY <1>a, <1>c DEF OwnInv, UsesInv, Goto, IInv, TypeOK
<1>3. /\ \A j \in Insts : all'[j] \subseteq all[j] \cup {x}
      /\ \A j \in Insts : \A y : Freed(j, y) => y = x \/ Freed(j, y)'
  <2>1. CASE /\ free[i] # <<>> /\ x = free[i][Len(free[i])]
             /\ free' = [free EXCEPT ![i] = SubSeq(@, 1, Len(@) - 1)]
             /\ all' = all
    <3>1. /\ DOMAIN SubSeq(free[i], 1, Len(free[i]) - 1) = 1 .. Len(free[i]) - 1
          /\ \A k \in 1 .. Len(free[i]) - 1 :
               SubSeq(free[i], 1, Len(free[i]) - 1)[k] = free[i][k]
          /\ Len(free[i]) \in Nat \ {0} /\ DOMAIN free[i] = 1 .. Len(free[i])
      BY <1>a, <2>1, Popped DEF IInv, TypeOK
    <3>2. /\ DOMAIN free'[i] = 1 .. Len(free[i]) - 1
          /\ \A k \in 1 .. Len(free[i]) - 1 : free'[i][k] = free[i][k]
          /\ \A j \in Insts \ {i} : free'[j] = free[j]
      BY <1>a, <2>1, <3>1 DEF IInv, TypeOK
    <3>3. \A k \in DOMAIN free[i] : k = Len(free[i]) \/ k \in 1 .. Len(free[i]) - 1
      BY <3>1
    <3>4. \A j \in Insts : \A y : Freed(j, y) => y = x \/ Freed(j, y)'
      BY <2>1, <3>2, <3>3 DEF Freed
    <3> QED
      BY <2>1, <3>4
  <2>2. CASE /\ x \notin UNION {all[j] : j \in Insts}
             /\ all' = [all EXCEPT ![i] = @ \cup {x}]
             /\ free' = free
    BY <1>a, <2>2 DEF IInv, TypeOK, Freed
  <2> QED
    BY <1>b, <2>1, <2>2
<1>4. KeptInv'
  <2>1. InUse(x)'
    BY <1>b DEF InUse, IInv, TypeOK
  <2>2. ASSUME NEW y, InUse(y), y # "none" PROVE InUse(y)'
    <3>1. \A d \in Coros : held[d] = y => held'[d] = y
      BY <1>a, <1>b, <2>2 DEF IInv, TypeOK
    <3>2. (Pending(y) => Pending(y)') /\ (Stacked(y) => Stacked(y)')
      BY <1>c DEF Pending, Stacked, kernel
    <3> QED
      BY <2>2, <3>1, <3>2 DEF InUse
  <2>3. ASSUME NEW j \in Insts, NEW y \in all'[j]
        PROVE  Freed(j, y)' \/ InUse(y)'
    <3>1. CASE y = x
      BY <2>1, <3>1
    <3>2. CASE y # x
      <4>1. y \in all[j] /\ y # "none"
        BY <1>3, <3>2, Reserved DEF IInv, TypeOK
      <4> QED
        BY <1>3, <2>2, <3>2, <4>1 DEF OwnInv, KeptInv
    <3> QED
      BY <3>1, <3>2
  <2> QED
    BY <2>3 DEF KeptInv
<1>5. ReportInv'
  <2>1. \A y \in Ctxs \ {x} : ctx'[y] = ctx[y]
    BY <1>b DEF IInv, TypeOK
  <2>2. \A j \in Insts : \A y \in batch[j] : y \in Ctxs \ {x}
    BY <1>1 DEF IInv, TypeOK, BatchInv, Awaited
  <2> QED
    BY <1>c, <2>1, <2>2 DEF OwnInv, ReportInv, kernel
<1> QED
  BY <1>2, <1>4, <1>5, <1>c DEF OwnInv, DeadInv
-----------------------------------------------------------------------------
\* MOD on a descriptor that is registered replaces nothing that anyone waits
\* for.
LEMMA OwnArm ==
  ASSUME Apart, OwnInv, IInv, NEW c \in Coros, pc[c] \in {"mod", "add"}, Arm(c),
         UNCHANGED <<dead, batch, pool, ready, at>>
  PROVE  OwnInv'
<1> DEFINE x == held[c]
           f == at[c]
<1>1. x \in Ctxs /\ f \in Fds /\ f \in Uses[c]
  BY Reserved DEF IInv, TypeOK, OwnInv, UsesInv
<1>2. /\ reg' = [reg EXCEPT ![f] = x] /\ held' = [held EXCEPT ![c] = "none"]
      /\ UNCHANGED unwind /\ Goto(c, "wait")
  BY DEF Arm
<1> HIDE DEF x, f
<1>3. reg[f] \notin Ctxs
  <2> SUFFICES ASSUME reg[f] \in Ctxs PROVE FALSE
    OBVIOUS
  <2>1. Awaited(reg[f]) /\ ctx[reg[f]].fd = f
    BY <1>1 DEF IInv, ArmedInv
  <2>2. ctx[reg[f]].co = c
    BY <1>1, <2>1, Alone DEF OwnInv
  <2> QED
    BY <2>1, <2>2 DEF Awaited
<1>4. \A y \in Ctxs : InUse(y) => InUse(y)'
  <2>1. \A y : y = x => Pending(y)'
    BY <1>1, <1>2 DEF Pending, IInv, TypeOK
  <2>2. \A y \in Ctxs : Pending(y) => Pending(y)'
    BY <1>2, <1>3 DEF Pending, IInv, TypeOK
  <2>3. \A d \in Coros : held'[d] = held[d] \/ held[d] = x
    BY <1>2 DEF IInv, TypeOK, x
  <2>4. \A y : Stacked(y) => Stacked(y)'
    BY <1>2 DEF Stacked
  <2> QED
    BY <2>1, <2>2, <2>3, <2>4 DEF InUse
<1>5. KeptInv'
  <2>1. \A i \in Insts : \A y \in all[i] : y \in Ctxs
    BY DEF IInv, TypeOK
  <2> QED
    BY <1>4, <2>1, KeptNext DEF OwnInv, Freed, pool
<1>6. UsesInv' /\ ReportInv'
  BY <1>1, <1>2 DEF OwnInv, UsesInv, ReportInv, Goto, IInv, TypeOK, pool
<1> QED
  BY <1>5, <1>6 DEF OwnInv, DeadInv

LEMMA OwnMod ==
  ASSUME Apart, OwnInv, IInv, NEW c \in Coros, Mod(c)
  PROVE  OwnInv'
<1>1. CASE Refused(at[c]) \/ reg[at[c]] = "absent"
  <2>1. UsesInv'
    BY <1>1 DEF OwnInv, UsesInv, Mod, Goto, IInv, TypeOK
  <2> QED
    BY <1>1, <2>1, OwnFrame DEF Mod
<1>2. CASE ~(Refused(at[c]) \/ reg[at[c]] = "absent")
  BY <1>2, OwnArm DEF Mod
<1> QED
  BY <1>1, <1>2

LEMMA OwnAdd ==
  ASSUME Apart, OwnInv, IInv, NEW c \in Coros, Add(c)
  PROVE  OwnInv'
<1>1. CASE Refused(at[c]) \/ reg[at[c]] # "absent"
  <2> DEFINE x == held[c]
             t == host[c]
  <2>1. x \in Ctxs /\ t \in Threads /\ unwind[t] \in Seq(Ctxs)
    BY Reserved DEF IInv, TypeOK, Add
  <2>2. /\ unwind' = [unwind EXCEPT ![t] = Append(@, x)]
        /\ held' = [held EXCEPT ![c] = "none"] /\ Goto(c, "user")
        /\ UNCHANGED <<dead, batch, pool, reg, ready, at>>
    BY <1>1 DEF Add
  <2>3. \A y : InUse(y) => InUse(y)'
    <3>1. /\ \A k \in DOMAIN unwind[t] : Append(unwind[t], x)[k] = unwind[t][k]
          /\ \A k \in DOMAIN unwind[t] : k \in DOMAIN Append(unwind[t], x)
          /\ Len(unwind[t]) + 1 \in DOMAIN Append(unwind[t], x)
          /\ Append(unwind[t], x)[Len(unwind[t]) + 1] = x
      BY <2>1
    <3> HIDE DEF x, t
    <3>2. unwind'[t] = Append(unwind[t], x) /\ \A u \in Threads \ {t} : unwind'[u] = unwind[u]
      BY <2>1, <2>2 DEF IInv, TypeOK
    <3>3. \A y : Stacked(y) \/ y = x => Stacked(y)'
      BY <2>1, <3>1, <3>2 DEF Stacked
    <3>4. \A d \in Coros : held'[d] = held[d] \/ held[d] = x
      BY <2>2 DEF IInv, TypeOK, x
    <3> QED
      BY <2>2, <3>3, <3>4 DEF InUse, Pending
  <2>4. KeptInv'
    BY <2>2, <2>3, KeptNext DEF OwnInv, Freed, pool
  <2>5. UsesInv' /\ ReportInv'
    BY <2>2 DEF OwnInv, UsesInv, ReportInv, Goto, IInv, TypeOK, pool
  <2> QED
    BY <2>2, <2>4, <2>5 DEF OwnInv, DeadInv
<1>2. CASE ~(Refused(at[c]) \/ reg[at[c]] # "absent")
  BY <1>2, OwnArm DEF Add
<1> QED
  BY <1>1, <1>2

\* Releasing puts a context where it can be found.
LEMMA Releasing ==
  ASSUME IInv, NEW x \in Ctxs, ctx[x].co \in Coros, Release(x)
  PROVE  /\ all' = all
         /\ \A i \in Insts : \A y : Freed(i, y) => Freed(i, y)'
         /\ \A i \in Insts : \A y \in all[i] : y = x => Freed(i, y)'
         /\ \A y \in Ctxs : ctx'[y].fd = ctx[y].fd
<1> DEFINE j == Inst(ctx[x].fd)
<1>1. j \in Insts /\ x \in all[j] /\ free[j] \in Seq(Ctxs)
  BY InstType DEF IInv, TypeOK, PoolInv
<1>2. all' = all /\ \A y \in Ctxs : ctx'[y].fd = ctx[y].fd
  BY DEF Release, IInv, TypeOK
<1>3. free' = [free EXCEPT ![j] = Append(@, x)]
  BY DEF Release
<1> HIDE DEF j
<1>4. /\ \A k \in DOMAIN free[j] : /\ Append(free[j], x)[k] = free[j][k]
                                   /\ k \in DOMAIN Append(free[j], x)
      /\ Len(free[j]) + 1 \in DOMAIN Append(free[j], x)
      /\ Append(free[j], x)[Len(free[j]) + 1] = x
  BY <1>1
<1>5. free'[j] = Append(free[j], x) /\ \A i \in Insts \ {j} : free'[i] = free[i]
  BY <1>1, <1>3 DEF IInv, TypeOK
<1>6. \A i \in Insts : \A y : Freed(i, y) \/ (i = j /\ y = x) => Freed(i, y)'
  BY <1>4, <1>5 DEF Freed
<1>7. \A i \in Insts : x \in all[i] => i = j
  BY <1>1 DEF IInv, PoolInv
<1> QED
  BY <1>2, <1>6, <1>7

LEMMA OwnReturn ==
  ASSUME OwnInv, IInv, NEW t \in Threads, Return(t)
  PROVE  OwnInv'
<1> DEFINE n == Len(unwind[t])
           x == unwind[t][n]
<1>1. /\ SubSeq(unwind[t], 1, n - 1) \in Seq(Ctxs)
      /\ DOMAIN SubSeq(unwind[t], 1, n - 1) = 1 .. n - 1
      /\ \A k \in 1 .. n - 1 : SubSeq(unwind[t], 1, n - 1)[k] = unwind[t][k]
      /\ n \in DOMAIN unwind[t] /\ n \in Nat \ {0} /\ x \in Ctxs
      /\ DOMAIN unwind[t] = 1 .. n
  BY Popped DEF IInv, TypeOK, Return
<1>2. ctx[x].co \in Coros /\ Release(x)
  BY <1>1 DEF IInv, StackInv, Return
<1>3. /\ unwind' = [unwind EXCEPT ![t] = SubSeq(@, 1, Len(@) - 1)]
      /\ UNCHANGED <<dead, batch, reg, ready, pc, at, held>>
  BY DEF Return, kernel, coro
<1>4. /\ unwind'[t] = SubSeq(unwind[t], 1, n - 1)
      /\ \A u \in Threads \ {t} : unwind'[u] = unwind[u]
  BY <1>3 DEF IInv, TypeOK
<1>5. \A k \in DOMAIN unwind[t] : k = n \/ k \in 1 .. n - 1
  BY <1>1
<1> HIDE DEF n
<1>6. \A y : Stacked(y) => y = x \/ Stacked(y)'
  BY <1>1, <1>4, <1>5 DEF Stacked
<1> HIDE DEF x
<1>7. /\ all' = all
      /\ \A i \in Insts : \A y : Freed(i, y) => Freed(i, y)'
      /\ \A i \in Insts : \A y \in all[i] : y = x => Freed(i, y)'
      /\ \A y \in Ctxs : ctx'[y].fd = ctx[y].fd
  BY <1>1, <1>2, Releasing
<1>8. KeptInv'
  <2>1. \A y : InUse(y) => y = x \/ InUse(y)'
    BY <1>3, <1>6 DEF InUse, Pending
  <2> QED
    BY <1>7, <2>1, KeptNext DEF OwnInv
<1>9. UsesInv' /\ ReportInv'
  BY <1>3, <1>7 DEF OwnInv, UsesInv, ReportInv, IInv, TypeOK
<1> QED
  BY <1>3, <1>8, <1>9 DEF OwnInv, DeadInv

LEMMA OwnSkip ==
  ASSUME OwnInv, IInv, NEW i \in Insts, NEW x \in Ctxs, Skip(i, x)
  PROVE  OwnInv'
<1>1. ctx[x].co \in Coros /\ Release(x)
  BY DEF IInv, BatchInv, Awaited, Skip
<1>2. /\ batch' = [batch EXCEPT ![i] = @ \ {x}]
      /\ UNCHANGED <<dead, reg, ready, pc, at, held, unwind>>
  BY DEF Skip, kernel, coro
<1>3. /\ all' = all
      /\ \A j \in Insts : \A y : Freed(j, y) => Freed(j, y)'
      /\ \A j \in Insts : \A y \in all[j] : y = x => Freed(j, y)'
      /\ \A y \in Ctxs : ctx'[y].fd = ctx[y].fd
  BY <1>1, Releasing
<1>4. KeptInv'
  <2>1. \A y : Pending(y) => y = x \/ Pending(y)'
    BY <1>2 DEF Pending, IInv, TypeOK
  <2>2. \A y : InUse(y) => y = x \/ InUse(y)'
    BY <1>2, <2>1 DEF InUse, Stacked
  <2> QED
    BY <1>3, <2>2, KeptNext DEF OwnInv
<1>5. \A j \in Insts : \A y \in batch'[j] : y \in batch[j] /\ y \in Ctxs
  BY <1>2 DEF IInv, TypeOK
<1>6. UsesInv' /\ ReportInv'
  BY <1>2, <1>3, <1>5 DEF OwnInv, UsesInv, ReportInv
<1> QED
  BY <1>2, <1>4, <1>6 DEF OwnInv, DeadInv

LEMMA OwnPoll ==
  ASSUME OwnInv, IInv, NEW i \in Insts, Poll(i)
  PROVE  OwnInv'
<1>1. PICK S \in SUBSET ReadyFds(i) :
        /\ batch' = [batch EXCEPT ![i] = {reg[fd] : fd \in S}]
        /\ reg' = [fd \in Fds |-> IF fd \in S THEN "disarmed" ELSE reg[fd]]
  BY DEF Poll
<1>2. /\ \A f \in S : f \in Fds /\ f \in ready /\ reg[f] \in Ctxs /\ ctx[reg[f]].fd = f
      /\ batch[i] = {}
  BY DEF ReadyFds, Poll, IInv, TypeOK, ArmedInv
<1>3. /\ batch'[i] = {reg[fd] : fd \in S}
      /\ \A j \in Insts \ {i} : batch'[j] = batch[j]
  BY <1>1 DEF IInv, TypeOK
<1>4. \A y : Pending(y) => Pending(y)'
  <2>1. ASSUME NEW y, NEW f \in Fds, reg[f] = y PROVE Pending(y)'
    BY <1>1, <1>3, <2>1 DEF Pending
  <2>2. ASSUME NEW y, NEW j \in Insts, y \in batch[j] PROVE Pending(y)'
    BY <1>2, <1>3, <2>2 DEF Pending
  <2> QED
    BY <2>1, <2>2 DEF Pending
<1>5. KeptInv'
  BY <1>4, KeptNext DEF OwnInv, Freed, InUse, Stacked, Poll, pool, coro
<1>6. ReportInv'
  BY <1>2, <1>3 DEF OwnInv, ReportInv, Poll, pool
<1> QED
  BY <1>5, <1>6 DEF OwnInv, UsesInv, DeadInv, Poll, coro

\* The operation may drain its own descriptor only.
LEMMA OwnDispatch ==
  ASSUME Apart, OwnInv, IInv, NEW i \in Insts, NEW x \in Ctxs, Dispatch(i, x)
  PROVE  OwnInv'
<1> DEFINE c == ctx[x].co
<1>1. /\ c \in Coros /\ pc[c] = "wait" /\ at[c] = ctx[x].fd /\ Pending(x)
      /\ at[c] \in Uses[c]
      /\ unwind[i] = <<>> /\ i \in Threads
  BY DEF IInv, BatchInv, Awaited, Pending, Dispatch, AtLoop, Threads, OwnInv, UsesInv
<1>2. /\ batch' = [batch EXCEPT ![i] = @ \ {x}]
      /\ unwind' = [unwind EXCEPT ![i] = <<x>>]
      /\ Goto(c, "user")
      /\ ready' \in {ready, ready \ {ctx[x].fd}}
      /\ UNCHANGED <<dead, pool, reg, at, held>>
  BY DEF Dispatch
<1>3. /\ \A j \in Insts : batch'[j] \subseteq batch[j] /\ batch'[j] \subseteq Ctxs
      /\ \A j \in Insts : \A y \in batch[j] : y = x \/ y \in batch'[j]
      /\ \A j \in Insts : x \notin batch'[j]
  BY <1>2 DEF IInv, TypeOK, BatchInv, Dispatch
<1>4. \A y : Stacked(y) => Stacked(y)'
  BY <1>1, <1>2 DEF Stacked, IInv, TypeOK
<1>5. Stacked(x)'
  <2>1. DOMAIN <<x>> = {1} /\ <<x>>[1] = x
    OBVIOUS
  <2>2. unwind'[i] = <<x>>
    BY <1>1, <1>2 DEF IInv, TypeOK
  <2> QED
    BY <1>1, <2>1, <2>2 DEF Stacked
<1>6. \A y : Pending(y) => y = x \/ Pending(y)'
  BY <1>2, <1>3 DEF Pending
<1>7. KeptInv'
  BY <1>2, <1>4, <1>5, <1>6, KeptNext DEF OwnInv, Freed, InUse, pool
<1>8. ReportInv'
  <2> SUFFICES ASSUME NEW j \in Insts, NEW y \in batch'[j] PROVE ctx'[y].fd \in ready'
    BY DEF ReportInv
  <2>1. y \in batch[j] /\ y \in Ctxs /\ y # x /\ Awaited(y) /\ Pending(y)
    BY <1>3 DEF IInv, BatchInv, Pending
  <2>2. ctx[y].co # c
    BY <1>1, <2>1 DEF IInv, UniqueInv
  <2>3. ctx[y].fd # ctx[x].fd
    BY <1>1, <2>1, <2>2, Alone DEF OwnInv
  <2> QED
    BY <1>2, <2>1, <2>3 DEF OwnInv, ReportInv, pool
<1>9. UsesInv'
  BY <1>1, <1>2 DEF OwnInv, UsesInv, Goto, IInv, TypeOK
<1> QED
  BY <1>2, <1>7, <1>8, <1>9 DEF OwnInv, DeadInv

LEMMA NextOwnInv == Apart /\ IInv /\ OwnInv /\ [Next]_vars => OwnInv'
<1> SUFFICES ASSUME Apart, IInv, OwnInv, [Next]_vars PROVE OwnInv'
  OBVIOUS
<1>1. ASSUME NEW c \in Coros, AsyncIo(c) PROVE OwnInv'
  BY <1>1, OwnAcquire, OwnMod, OwnAdd DEF AsyncIo
<1>2. ASSUME NEW c \in Coros, User(c) PROVE OwnInv'
  BY <1>2, OwnEnd, OwnAwait, OwnClose DEF User
<1>3. ASSUME NEW t \in Threads, Return(t) PROVE OwnInv'
  BY <1>3, OwnReturn
<1>4. ASSUME NEW i \in Insts, Loop(i) PROVE OwnInv'
  <2>1. CASE Enter(i) \/ LoopExit(i)
    BY <2>1, OwnFrame DEF Enter, LoopExit, kernel, coro, OwnInv, UsesInv
  <2> QED
    BY <1>4, <2>1, OwnPoll, OwnDispatch, OwnSkip DEF Loop
<1>5. ASSUME NEW s \in Stoppers, StopCall(s) \/ StopReturn(s) PROVE OwnInv'
  BY <1>5, OwnFrame DEF StopCall, StopReturn, kernel, coro, OwnInv, UsesInv
<1>6. ASSUME NEW fd \in Fds, Arrive(fd) PROVE OwnInv'
  BY <1>6, OwnFrame DEF Arrive, coro, OwnInv, UsesInv
<1>7. CASE UNCHANGED vars
  BY <1>7, OwnFrame DEF vars, kernel, coro, OwnInv, UsesInv
<1> QED
  BY <1>1, <1>2, <1>3, <1>4, <1>5, <1>6, <1>7 DEF Next

THEOREM Ownership == ASSUME Apart PROVE Spec => []OwnInv
BY InitOwnInv, Invariance, NextOwnInv, PTL DEF Spec

LEMMA PlaceOf ==
  ASSUME NEW x, NEW p,
         \/ HeldAt(x, p) \/ ArmedAt(x, p) \/ TakenAt(x, p) \/ FreeAt(x, p)
         \/ StackAt(x, p)
  PROVE  p \in Places(x)
BY DEF Places, HeldAt, ArmedAt, TakenAt, FreeAt, StackAt

\* While every descriptor is used by one coroutine no context is lost, when
\* epoll refuses, on close and during shutdown too.
THEOREM NothingLeaks == ASSUME Apart PROVE Spec => []NoLeak
<1>1. ASSUME IInv, OwnInv PROVE NoLeak
  <2> SUFFICES ASSUME NEW i \in Insts, NEW x \in all[i] PROVE \E p : p \in Places(x)
    BY DEF NoLeak
  <2>1. Freed(i, x) => \E p : FreeAt(x, p)
    BY DEF Freed, FreeAt
  <2>2. (\E c \in Coros : held[c] = x) => \E p : HeldAt(x, p)
    BY DEF HeldAt
  <2>3. Pending(x) => \E p : ArmedAt(x, p) \/ TakenAt(x, p)
    BY DEF Pending, ArmedAt, TakenAt
  <2>4. Stacked(x) => \E p : StackAt(x, p)
    BY DEF Stacked, StackAt
  <2> QED
    BY <1>1, <2>1, <2>2, <2>3, <2>4, PlaceOf DEF OwnInv, KeptInv, InUse
<1> QED
  BY Invariance, Ownership, <1>1, PTL
-----------------------------------------------------------------------------
(* Each step is one of AsyncIO's, or shows in no coroutine.                *)

LEMMA CoStateMoves ==
  ASSUME TypeOK, NEW c \in Coros, NEW label, Goto(c, label)
  PROVE  /\ label = "user" => CoState' = [CoState EXCEPT ![c] = "running"]
         /\ label = "ended" => CoState' = [CoState EXCEPT ![c] = "ended"]
         /\ label \notin {"user", "ended"} => CoState' = [CoState EXCEPT ![c] = "waiting"]
         /\ pc[c] = "user" => CoState[c] = "running"
         /\ pc[c] \notin {"user", "ended"} => CoState[c] = "waiting"
         /\ pc[c] \notin {"user", "ended"} /\ label \notin {"user", "ended"}
              => CoState' = CoState
BY DEF TypeOK, Goto, CoState

LEMMA CoStateFrame ==
  ASSUME UNCHANGED pc
  PROVE  CoState' = CoState
BY DEF CoState

LEMMA InitMaps == Init => Async!Init
BY EpollAssumption DEF Init, SomeFd, CoState, Async!Init

LEMMA AwaitMaps ==
  ASSUME IInv, NEW c \in Coros, NEW fd \in Uses[c], Await(c, fd)
  PROVE  Async!Await(c, fd)
<1>1. CoState[c] = "running" /\ CoState' = [CoState EXCEPT ![c] = "waiting"]
  BY CoStateMoves DEF IInv, Await
<1> QED
  BY <1>1 DEF Await, kernel, Async!Await

LEMMA EndMaps ==
  ASSUME IInv, NEW c \in Coros, End(c)
  PROVE  Async!End(c)
<1>1. CoState[c] = "running" /\ CoState' = [CoState EXCEPT ![c] = "ended"]
  BY CoStateMoves DEF IInv, End
<1> QED
  BY <1>1 DEF End, kernel, Async!End

LEMMA CloseMaps ==
  ASSUME NEW c \in Coros, NEW fd \in Uses[c], Close(c, fd)
  PROVE  Async!Close(c, fd)
<1>1. CoState[c] = "running" /\ CoState' = CoState
  BY CoStateFrame DEF Close, coro, CoState
<1> QED
  BY <1>1 DEF Close, coro, Async!Close

LEMMA AcquireMaps ==
  ASSUME IInv, NEW c \in Coros, Acquire(c)
  PROVE  UNCHANGED Async!vars
<1>1. CoState' = CoState
  BY CoStateMoves DEF IInv, Acquire
<1> QED
  BY <1>1 DEF Acquire, kernel, Async!vars

LEMMA ModMaps ==
  ASSUME IInv, NEW c \in Coros, Mod(c)
  PROVE  UNCHANGED Async!vars
<1>1. pc[c] = "mod" /\ (Goto(c, "add") \/ Goto(c, "wait"))
  BY DEF Mod, Arm
<1>2. CoState' = CoState
  BY <1>1, CoStateMoves DEF IInv
<1> QED
  BY <1>2 DEF Mod, Async!vars


\* When async_io() comes to ADD, the descriptor cannot be registered or is not
\* registered: nobody else registers it in between.
RegInv == \A c \in Coros : pc[c] = "add" => Refused(at[c]) \/ reg[at[c]] = "absent"

LEMMA RegNext ==
  ASSUME RegInv, dead' = dead,
         \A c \in Coros : pc'[c] = "add" =>
            pc[c] = "add" /\ at'[c] = at[c]
              /\ (reg[at[c]] = "absent" => reg'[at[c]] = "absent")
  PROVE  RegInv'
BY DEF RegInv, Refused

LEMMA NextRegInv == Apart /\ IInv /\ OwnInv /\ RegInv /\ [Next]_vars => RegInv'
<1> SUFFICES ASSUME Apart, IInv, OwnInv, RegInv, [Next]_vars PROVE RegInv'
  OBVIOUS
<1>0. /\ pc \in [Coros -> {"user", "acquire", "mod", "add", "wait", "ended"}]
      /\ at \in [Coros -> Fds] /\ reg \in [Fds -> Ctxs \cup {"absent", "disarmed"}]
  BY DEF IInv, TypeOK
<1>a. ASSUME NEW c \in Coros, pc[c] \in {"mod", "add"}, Arm(c),
             UNCHANGED <<dead, at>>
      PROVE  RegInv'
  <2>1. \A d \in Coros : pc[d] = "add" /\ d # c => at[d] # at[c]
    BY <1>a DEF Apart, OwnInv, UsesInv
  <2> QED
    BY <1>0, <1>a, <2>1, RegNext DEF Arm, Goto
<1>1. ASSUME NEW c \in Coros, AsyncIo(c) PROVE RegInv'
  <2>1. CASE Acquire(c)
    BY <1>0, <2>1, RegNext DEF Acquire, kernel, Goto
  <2>2. CASE Mod(c)
    <3>1. CASE Refused(at[c]) \/ reg[at[c]] = "absent"
      BY <1>0, <2>2, <3>1 DEF Mod, Goto, RegInv, Refused
    <3>2. CASE ~(Refused(at[c]) \/ reg[at[c]] = "absent")
      BY <1>a, <2>2, <3>2 DEF Mod
    <3> QED
      BY <3>1, <3>2
  <2>3. CASE Add(c)
    <3>1. CASE Refused(at[c]) \/ reg[at[c]] # "absent"
      BY <1>0, <2>3, <3>1, RegNext DEF Add, Goto
    <3>2. CASE ~(Refused(at[c]) \/ reg[at[c]] # "absent")
      BY <1>a, <2>3, <3>2 DEF Add
    <3> QED
      BY <3>1, <3>2
  <2> QED
    BY <1>1, <2>1, <2>2, <2>3 DEF AsyncIo
<1>2. ASSUME NEW c \in Coros, User(c) PROVE RegInv'
  <2>1. CASE End(c)
    BY <1>0, <2>1, RegNext DEF End, kernel, Goto
  <2>2. ASSUME NEW fd \in Uses[c], Await(c, fd) PROVE RegInv'
    BY <1>0, <2>2, RegNext DEF Await, kernel, Goto
  <2>3. ASSUME NEW fd \in Uses[c], Close(c, fd) PROVE RegInv'
    BY <1>0, <2>3, RegNext DEF Close, coro
  <2> QED
    BY <1>2, <2>1, <2>2, <2>3 DEF User
<1>3. ASSUME NEW t \in Threads, Return(t) PROVE RegInv'
  BY <1>3, RegNext DEF Return, kernel, coro
<1>4. ASSUME NEW i \in Insts, Loop(i) PROVE RegInv'
  <2>1. CASE Poll(i)
    <3>1. PICK S \in SUBSET ReadyFds(i) :
            reg' = [fd \in Fds |-> IF fd \in S THEN "disarmed" ELSE reg[fd]]
      BY <2>1 DEF Poll
    <3>2. \A fd \in Fds : reg[fd] = "absent" => reg'[fd] = "absent"
      BY <3>1, Reserved DEF ReadyFds
    <3> QED
      BY <1>0, <2>1, <3>2, RegNext DEF Poll, coro
  <2>2. ASSUME NEW x \in Ctxs, Dispatch(i, x) PROVE RegInv'
    BY <1>0, <2>2, RegNext DEF Dispatch, Goto
  <2>3. ASSUME NEW x \in Ctxs, Skip(i, x) PROVE RegInv'
    BY <2>3, RegNext DEF Skip, kernel, coro
  <2>4. CASE Enter(i) \/ LoopExit(i)
    BY <2>4, RegNext DEF Enter, LoopExit, kernel, coro
  <2> QED
    BY <1>4, <2>1, <2>2, <2>3, <2>4 DEF Loop
<1>5. ASSUME NEW s \in Stoppers, StopCall(s) \/ StopReturn(s) PROVE RegInv'
  BY <1>5, RegNext DEF StopCall, StopReturn, kernel, coro
<1>6. ASSUME NEW fd \in Fds, Arrive(fd) PROVE RegInv'
  BY <1>6, RegNext DEF Arrive, coro
<1>7. CASE UNCHANGED vars
  BY <1>7, RegNext DEF vars, kernel, coro
<1> QED
  BY <1>1, <1>2, <1>3, <1>4, <1>5, <1>6, <1>7 DEF Next

LEMMA AddMaps ==
  ASSUME IInv, OwnInv, RegInv, NEW c \in Coros, Add(c)
  PROVE  Async!Reject(c) \/ UNCHANGED Async!vars
<1>1. CASE Refused(at[c]) \/ reg[at[c]] # "absent"
  <2>1. CoState[c] = "waiting" /\ CoState' = [CoState EXCEPT ![c] = "running"]
    BY <1>1, CoStateMoves DEF IInv, Add
  <2>2. Refused(at[c])
    BY <1>1 DEF RegInv, Add
  <2>3. at[c] \in Refusable
    BY <2>2 DEF Refused, Refusable, OwnInv, DeadInv, IInv, TypeOK
  <2> QED
    BY <2>1, <2>3 DEF Add, Async!Reject
<1>2. CASE ~(Refused(at[c]) \/ reg[at[c]] # "absent")
  <2>1. CoState' = CoState
    BY <1>2, CoStateMoves DEF IInv, Add, Arm
  <2> QED
    BY <2>1 DEF Add, Async!vars
<1> QED
  BY <1>1, <1>2

\* The descriptor that epoll reported is still ready when the event loop
\* performs the operation.
LEMMA DispatchMaps ==
  ASSUME IInv, OwnInv, NEW i \in Insts, NEW x \in Ctxs, Dispatch(i, x)
  PROVE  \E c \in Coros : Async!Resume(c)
<1> DEFINE c == ctx[x].co
<1>1. c \in Coros /\ pc[c] = "wait" /\ at[c] = ctx[x].fd /\ ctx[x].fd \in ready
  BY DEF IInv, BatchInv, Awaited, Dispatch, OwnInv, ReportInv
<1>2. /\ running /\ Goto(c, "user") /\ UNCHANGED <<running, at>>
      /\ ready' \in {ready, ready \ {ctx[x].fd}}
  BY DEF Dispatch
<1> HIDE DEF c
<1>3. CoState[c] = "waiting" /\ CoState' = [CoState EXCEPT ![c] = "running"]
  BY <1>1, <1>2, CoStateMoves DEF IInv
<1> QED
  BY <1>1, <1>2, <1>3 DEF Async!Resume, Async!Perform

LEMMA OtherMaps ==
  ASSUME \/ \E t \in Threads : Return(t)
         \/ \E i \in Insts : \/ Enter(i) \/ Poll(i) \/ LoopExit(i)
                             \/ \E x \in Ctxs : Skip(i, x)
         \/ \E s \in Stoppers : StopReturn(s)
         \/ UNCHANGED vars
  PROVE  UNCHANGED Async!vars
BY CoStateFrame
DEF Return, Enter, Poll, LoopExit, Skip, StopReturn, vars, kernel, coro, Async!vars

LEMMA StopMaps ==
  ASSUME IInv, NEW s \in Stoppers, StopCall(s)
  PROVE  Async!Stop \/ UNCHANGED Async!vars
BY CoStateFrame DEF IInv, TypeOK, StopCall, kernel, coro, Async!Stop, Async!vars

LEMMA ArriveMaps ==
  ASSUME NEW fd \in Fds, Arrive(fd)
  PROVE  Async!Arrive(fd)
BY CoStateFrame DEF Arrive, coro, Async!Arrive

LEMMA NextMaps ==
  IInv /\ OwnInv /\ RegInv /\ [Next]_vars => [Async!Next]_(Async!vars)
<1> SUFFICES ASSUME IInv, OwnInv, RegInv, [Next]_vars
             PROVE  Async!Next \/ UNCHANGED Async!vars
  OBVIOUS
<1>1. ASSUME NEW c \in Coros, AsyncIo(c) PROVE Async!Next \/ UNCHANGED Async!vars
  BY <1>1, AcquireMaps, ModMaps, AddMaps DEF AsyncIo, Async!Next
<1>2. ASSUME NEW c \in Coros, User(c) PROVE Async!Next
  BY <1>2, AwaitMaps, EndMaps, CloseMaps DEF User, Async!Next
<1>3. ASSUME NEW i \in Insts, Loop(i) PROVE Async!Next \/ UNCHANGED Async!vars
  BY <1>3, DispatchMaps, OtherMaps DEF Loop, Async!Next
<1>4. ASSUME NEW s \in Stoppers, StopCall(s) \/ StopReturn(s)
      PROVE  Async!Next \/ UNCHANGED Async!vars
  BY <1>4, StopMaps, OtherMaps DEF Async!Next
<1>5. ASSUME NEW fd \in Fds, Arrive(fd) PROVE Async!Next
  BY <1>5, ArriveMaps DEF Async!Next
<1> QED
  BY <1>1, <1>2, <1>3, <1>4, <1>5, OtherMaps DEF Next

\* While every descriptor is used by one coroutine, a suspended coroutine is
\* resumed once per wait: on the event loop, while its descriptor is ready, or
\* inside its own async_io() where epoll refuses the descriptor.
THEOREM ImplementsAsyncIO == ASSUME Apart PROVE Spec => AsyncSafety
<1>1. Init => RegInv
  BY DEF Init, RegInv
<1>2. Spec => [](IInv /\ OwnInv)
  BY Invariance, Ownership, PTL
<1>3. Apart /\ IInv /\ OwnInv /\ RegInv /\ [Next]_vars => RegInv'
  BY NextRegInv
<1>4. IInv /\ OwnInv /\ RegInv /\ [Next]_vars => [Async!Next]_(Async!vars)
  BY NextMaps
<1> QED
  BY <1>1, <1>2, <1>3, <1>4, InitMaps, PTL DEF Spec, AsyncSafety, Async!Spec
=============================================================================
