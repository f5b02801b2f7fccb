----------------------------- MODULE UringProofs -----------------------------
(***************************************************************************)
(* What UringExecutor guarantees for every number of rings, descriptors,   *)
(* coroutines and contexts and every size of the submission queue, shared  *)
(* descriptors and failing operations included.                            *)
(*                                                                         *)
(* A context moves from a free list to the coroutine that acquires it, the *)
(* submission queue, the kernel, the completion queue, the stack of the    *)
(* thread that calls it back and the free list again.  The inductive       *)
(* invariant IInv says that these places exclude one another and what each *)
(* of them says about the coroutine; MutexInv does the same for the        *)
(* submission mutexes.                                                     *)
(***************************************************************************)
EXTENDS UringExecutor, SequenceTheorems, FiniteSetTheorems, TLAPS

\* The coroutine of context x is suspended in the operation x stands for.
Awaited(x) ==
    /\ ctx[x].co \in Coros
    /\ pc[ctx[x].co] = "wait"
    /\ at[ctx[x].co] = ctx[x].fd

Held(x) == \E c \in Coros : held[c] = x
Stacked(x) == \E t \in Threads : \E k \in DOMAIN unwind[t] : unwind[t][k].ctx = x

\* A context belongs to one pool, the one of its descriptor; a free one is in
\* that pool's list once and has no callback.
PoolInv ==
    /\ \A x \in Ctxs : ctx[x].co \in Coros => x \in all[Inst(ctx[x].fd)]
    /\ \A i, j \in Insts : i # j => all[i] \cap all[j] = {}
    /\ \A i \in Insts : \A x \in Range(free[i]) : x \in all[i] /\ ctx[x].co = Nobody
    /\ \A i \in Insts : IsInjective(free[i])

\* The context of an async_io() call is about that call.
HeldInv ==
    \A c \in Coros : held[c] \in Ctxs =>
        ctx[held[c]].co = c /\ ctx[held[c]].fd = at[c]

\* A request is awaited, is in the ring of its descriptor, and is either
\* submitted, or in the kernel, or completed.
RingInv ==
    /\ \A x \in Ctxs : Requested(x) => Awaited(x)
    /\ \A i \in Insts : \A x \in Range(sq[i]) \cup Range(cq[i]) :
        Inst(ctx[x].fd) = i /\ x \notin flight
    /\ \A i \in Insts : Range(sq[i]) \cap Range(cq[i]) = {}
    /\ \A i \in Insts : IsInjective(sq[i]) /\ IsInjective(cq[i])

UniqueInv ==
    \A x, y \in Ctxs :
        Requested(x) /\ Requested(y) /\ ctx[x].co = ctx[y].co => x = y

\* A context whose callback is still on a stack is there once and nowhere else.
StackInv ==
    \A x \in Ctxs : Stacked(x) => ctx[x].co \in Coros /\ ~Requested(x) /\ ~Held(x)

StackOnce ==
    \A t, u \in Threads : \A k \in DOMAIN unwind[t], l \in DOMAIN unwind[u] :
        unwind[t][k].ctx = unwind[u][l].ctx /\ unwind[t][k].ctx # Nobody
            => t = u /\ k = l

\* What was allocated is in one of the places.
KeptInv ==
    \A i \in Insts : \A x \in all[i] :
        x \in Range(free[i]) \/ Held(x) \/ Requested(x) \/ Stacked(x)

\* Until stop(), a suspended coroutine has a request under way.
WaitInv ==
    running => \A c \in Coros : pc[c] = "wait" =>
        \E x \in Ctxs : Requested(x) /\ ctx[x].co = c

UsesInv == \A c \in Coros : pc[c] \notin {"user", "ended"} => at[c] \in Uses[c]

IInv ==
    /\ TypeOK /\ PoolInv /\ HeldInv /\ RingInv /\ UniqueInv
    /\ StackInv /\ StackOnce /\ KeptInv /\ WaitInv /\ UsesInv

\* The owner of a submission mutex is the thread of the one call that submits
\* on the instance, until that call has returned.
Submits(c, i) == pc[c] = "sqe" /\ Inst(at[c]) = i
Unlocks(t, k, i) == k \in DOMAIN unwind[t] /\ i \in unwind[t][k].unlock

MutexInv ==
    \A i \in Insts :
        /\ \A c \in Coros : Submits(c, i) => mutex[i] = host[c]
        /\ \A t \in Threads : \A k \in DOMAIN unwind[t] : Unlocks(t, k, i) => mutex[i] = t
        /\ \A c, d \in Coros : Submits(c, i) /\ Submits(d, i) => c = d
        /\ \A c \in Coros : \A t \in Threads : \A k \in DOMAIN unwind[t] :
            ~(Submits(c, i) /\ Unlocks(t, k, i))
        /\ \A t, u \in Threads : \A k \in DOMAIN unwind[t], l \in DOMAIN unwind[u] :
            Unlocks(t, k, i) /\ Unlocks(u, l, i) => t = u /\ k = l
        /\ mutex[i] # Nobody =>
            \/ \E c \in Coros : Submits(c, i)
            \/ \E t \in Threads : \E k \in DOMAIN unwind[t] : Unlocks(t, k, i)

\* What stop() relies on when one thread calls it.
QuietInv ==
    /\ running <=> \A s \in Stoppers : spc[s] = "idle"
    /\ (\E s \in Stoppers : spc[s] = "done") => \A i \in Insts : loop[i] = "exit"
    /\ \A i \in Insts : loop[i] = "exit" => ~Occupied(i)
-----------------------------------------------------------------------------
(* Sequences used as stacks and as queues.                                 *)

LEMMA Pushed ==
  ASSUME NEW S, NEW s \in Seq(S), NEW e \in S
  PROVE  /\ Append(s, e) \in Seq(S) /\ Len(Append(s, e)) = Len(s) + 1
         /\ DOMAIN Append(s, e) = 1 .. Len(s) + 1
         /\ \A k \in DOMAIN s : Append(s, e)[k] = s[k] /\ k \in 1 .. Len(s)
         /\ Append(s, e)[Len(s) + 1] = e
         /\ Len(s) \in Nat /\ DOMAIN s = 1 .. Len(s)
OBVIOUS

LEMMA PushedRange ==
  ASSUME NEW S, NEW s \in Seq(S), NEW e \in S
  PROVE  /\ Range(Append(s, e)) = Range(s) \cup {e}
         /\ IsInjective(s) /\ e \notin Range(s) => IsInjective(Append(s, e))
<1> DEFINE z == Append(s, e)
<1>1. /\ DOMAIN z = 1 .. Len(s) + 1 /\ DOMAIN s = 1 .. Len(s) /\ Len(s) \in Nat
      /\ \A k \in DOMAIN s : z[k] = s[k]
      /\ z[Len(s) + 1] = e
  BY Pushed
<1>2. DOMAIN z = DOMAIN s \cup {Len(s) + 1} /\ Len(s) + 1 \notin DOMAIN s
  BY <1>1
<1> HIDE DEF z
<1>3. Range(z) = Range(s) \cup {e}
  BY <1>1, <1>2 DEF Range
<1>4. IsInjective(s) /\ e \notin Range(s) => IsInjective(z)
  BY <1>1, <1>2 DEF Range, IsInjective
<1> QED
  BY <1>3, <1>4 DEF z

LEMMA Popped ==
  ASSUME NEW S, NEW s \in Seq(S), s # <<>>
  PROVE  /\ SubSeq(s, 1, Len(s) - 1) \in Seq(S)
         /\ DOMAIN SubSeq(s, 1, Len(s) - 1) = 1 .. Len(s) - 1
         /\ \A k \in 1 .. Len(s) - 1 : SubSeq(s, 1, Len(s) - 1)[k] = s[k]
         /\ Len(s) \in Nat \ {0} /\ DOMAIN s = 1 .. Len(s)
         /\ Len(s) \in DOMAIN s /\ s[Len(s)] \in S
OBVIOUS

LEMMA PoppedRange ==
  ASSUME NEW S, NEW s \in Seq(S), s # <<>>, IsInjective(s)
  PROVE  /\ IsInjective(SubSeq(s, 1, Len(s) - 1))
         /\ Range(SubSeq(s, 1, Len(s) - 1)) = Range(s) \ {s[Len(s)]}
         /\ s[Len(s)] \in Range(s) /\ s[Len(s)] \in S
<1> DEFINE z == SubSeq(s, 1, Len(s) - 1)
<1>1. /\ DOMAIN z = 1 .. Len(s) - 1 /\ DOMAIN s = 1 .. Len(s) /\ Len(s) \in Nat \ {0}
      /\ \A k \in 1 .. Len(s) - 1 : z[k] = s[k]
      /\ s[Len(s)] \in S
  BY Popped
<1>2. DOMAIN s = DOMAIN z \cup {Len(s)} /\ Len(s) \notin DOMAIN z
  BY <1>1
<1> HIDE DEF z
<1>3. IsInjective(z)
  BY <1>1, <1>2 DEF IsInjective
<1>4. Range(z) = Range(s) \ {s[Len(s)]} /\ s[Len(s)] \in Range(s)
  BY <1>1, <1>2 DEF Range, IsInjective
<1> QED
  BY <1>1, <1>3, <1>4 DEF z

LEMMA Taken ==
  ASSUME NEW S, NEW s \in Seq(S), s # <<>>, IsInjective(s)
  PROVE  /\ Tail(s) \in Seq(S) /\ Head(s) \in S /\ Len(Tail(s)) = Len(s) - 1
         /\ IsInjective(Tail(s))
         /\ Range(Tail(s)) = Range(s) \ {Head(s)} /\ Head(s) \in Range(s)
<1> DEFINE z == Tail(s)
<1>1. /\ z \in Seq(S) /\ Head(s) \in S /\ Head(s) = s[1] /\ Len(z) = Len(s) - 1
      /\ DOMAIN z = 1 .. Len(s) - 1 /\ DOMAIN s = 1 .. Len(s) /\ Len(s) \in Nat \ {0}
      /\ \A k \in 1 .. Len(s) - 1 : z[k] = s[k + 1]
  OBVIOUS
<1> HIDE DEF z
<1>2. ASSUME NEW k \in DOMAIN z PROVE k + 1 \in DOMAIN s \ {1} /\ z[k] = s[k + 1]
  BY <1>1
<1>3. ASSUME NEW k \in DOMAIN s, k # 1 PROVE k - 1 \in DOMAIN z /\ z[k - 1] = s[k]
  BY <1>1, <1>3
<1>4. IsInjective(z)
  <2> SUFFICES ASSUME NEW k \in DOMAIN z, NEW l \in DOMAIN z, z[k] = z[l] PROVE k = l
    BY DEF IsInjective
  <2>1. s[k + 1] = s[l + 1] /\ k + 1 \in DOMAIN s /\ l + 1 \in DOMAIN s
    BY <1>2
  <2>2. k + 1 = l + 1
    BY <2>1 DEF IsInjective
  <2> QED
    BY <1>1, <2>2
<1>5. Range(z) = Range(s) \ {s[1]} /\ s[1] \in Range(s)
  <2>1. 1 \in DOMAIN s
    BY <1>1
  <2>2. ASSUME NEW y \in Range(z) PROVE y \in Range(s) \ {s[1]}
    BY <1>2, <2>1 DEF Range, IsInjective
  <2>3. ASSUME NEW y \in Range(s), y # s[1] PROVE y \in Range(z)
    BY <1>3, <2>3 DEF Range
  <2> QED
    BY <2>1, <2>2, <2>3 DEF Range
<1> QED
  BY <1>1, <1>4, <1>5 DEF z
-----------------------------------------------------------------------------
LEMMA InstType == ASSUME NEW f \in Fds PROVE Inst(f) \in Insts
BY UringAssumption DEF Inst, Insts

LEMMA Reserved == Nobody \notin Ctxs /\ Nobody \notin Coros /\ Nobody \notin Threads
BY UringAssumption DEF Threads

LEMMA RequestedIs ==
  ASSUME NEW x
  PROVE  Requested(x) <=>
           x \in flight \/ \E i \in Insts : x \in Range(sq[i]) \/ x \in Range(cq[i])
BY DEF Requested, Range

LEMMA InitIInv == Init => IInv /\ MutexInv
<1> SUFFICES ASSUME Init PROVE IInv /\ MutexInv
  OBVIOUS
<1>1. \A x : ~Requested(x) /\ ~Stacked(x)
  BY RequestedIs DEF Init, Stacked, Range
<1>2. TypeOK
  BY UringAssumption, Reserved DEF Init, TypeOK, SomeFd, Threads
<1>3. PoolInv /\ HeldInv
  BY Reserved DEF Init, PoolInv, HeldInv, Range, IsInjective
<1>4. RingInv
  BY <1>1 DEF Init, RingInv, Range, IsInjective
<1>5. UniqueInv /\ StackInv /\ StackOnce /\ KeptInv /\ WaitInv /\ UsesInv
  BY <1>1 DEF Init, UniqueInv, StackInv, StackOnce, KeptInv, WaitInv, UsesInv
<1>6. MutexInv
  BY DEF Init, MutexInv, Submits, Unlocks
<1> QED
  BY <1>2, <1>3, <1>4, <1>5, <1>6 DEF IInv
-----------------------------------------------------------------------------
(* The stacks of callbacks.                                                *)

LEMMA PushStack ==
  ASSUME TypeOK, NEW t \in Threads, NEW x \in Ctxs \cup {Nobody},
         NEW locks \in SUBSET Insts, Later(t, x, locks)
  PROVE  LET n == Len(unwind[t]) + 1 IN
         /\ unwind' \in [Threads -> Seq([ctx : Ctxs \cup {Nobody}, unlock : SUBSET Insts])]
         /\ \A u \in Threads : \A k : k \in DOMAIN unwind'[u] <=>
              k \in DOMAIN unwind[u] \/ (u = t /\ k = n)
         /\ \A u \in Threads : \A k \in DOMAIN unwind[u] : unwind'[u][k] = unwind[u][k]
         /\ unwind'[t][n].ctx = x /\ unwind'[t][n].unlock = locks
         /\ n \notin DOMAIN unwind[t]
<1> DEFINE r == [ctx |-> x, unlock |-> locks]
           R == [ctx : Ctxs \cup {Nobody}, unlock : SUBSET Insts]
<1>1. r \in R /\ r.ctx = x /\ r.unlock = locks
  OBVIOUS
<1>2. unwind \in [Threads -> Seq(R)] /\ unwind' = [unwind EXCEPT ![t] = Append(@, r)]
  BY DEF TypeOK, Later
<1> HIDE DEF r, R
<1>3. /\ Append(unwind[t], r) \in Seq(R)
      /\ DOMAIN Append(unwind[t], r) = 1 .. Len(unwind[t]) + 1
      /\ \A k \in DOMAIN unwind[t] : Append(unwind[t], r)[k] = unwind[t][k]
      /\ Append(unwind[t], r)[Len(unwind[t]) + 1] = r
      /\ Len(unwind[t]) \in Nat /\ DOMAIN unwind[t] = 1 .. Len(unwind[t])
  BY <1>1, <1>2, Pushed
<1>4. /\ unwind'[t] = Append(unwind[t], r)
      /\ \A u \in Threads : u # t => unwind'[u] = unwind[u]
      /\ unwind' \in [Threads -> Seq(R)]
  BY <1>2, <1>3
<1>5. \A k : k \in 1 .. Len(unwind[t]) + 1 <=>
               k \in 1 .. Len(unwind[t]) \/ k = Len(unwind[t]) + 1
  BY <1>3
<1>6. Len(unwind[t]) + 1 \notin DOMAIN unwind[t]
  BY <1>3
<1> QED
  BY <1>1, <1>3, <1>4, <1>5, <1>6 DEF R

LEMMA PushStacked ==
  ASSUME TypeOK, StackOnce, NEW t \in Threads, NEW x \in Ctxs \cup {Nobody},
         NEW locks \in SUBSET Insts, Later(t, x, locks),
         x # Nobody => ~Stacked(x)
  PROVE  /\ \A y : Stacked(y)' <=> Stacked(y) \/ y = x
         /\ StackOnce'
         /\ unwind' \in [Threads -> Seq([ctx : Ctxs \cup {Nobody}, unlock : SUBSET Insts])]
<1> DEFINE n == Len(unwind[t]) + 1
<1>1. /\ \A u \in Threads : \A k : k \in DOMAIN unwind'[u] <=>
           k \in DOMAIN unwind[u] \/ (u = t /\ k = n)
      /\ \A u \in Threads : \A k \in DOMAIN unwind[u] : unwind'[u][k] = unwind[u][k]
      /\ unwind'[t][n].ctx = x
      /\ n \notin DOMAIN unwind[t]
      /\ unwind' \in [Threads -> Seq([ctx : Ctxs \cup {Nobody}, unlock : SUBSET Insts])]
  BY PushStack
<1> HIDE DEF n
<1>2. \A y : Stacked(y)' <=> Stacked(y) \/ y = x
  BY <1>1 DEF Stacked
<1>3. StackOnce'
  BY <1>1 DEF StackOnce, Stacked
<1> QED
  BY <1>1, <1>2, <1>3

LEMMA PopStack ==
  ASSUME TypeOK, StackOnce, NEW t \in Threads, unwind[t] # <<>>,
         unwind' = [unwind EXCEPT ![t] = SubSeq(@, 1, Len(@) - 1)]
  PROVE  LET n == Len(unwind[t]) IN
         /\ unwind' \in [Threads -> Seq([ctx : Ctxs \cup {Nobody}, unlock : SUBSET Insts])]
         /\ n \in DOMAIN unwind[t]
         /\ unwind[t][n] \in [ctx : Ctxs \cup {Nobody}, unlock : SUBSET Insts]
         /\ \A u \in Threads : \A k : k \in DOMAIN unwind'[u] <=>
              k \in DOMAIN unwind[u] /\ ~(u = t /\ k = n)
         /\ \A u \in Threads : \A k \in DOMAIN unwind'[u] : unwind'[u][k] = unwind[u][k]
         /\ \A y : Stacked(y)' => Stacked(y)
         /\ \A y : Stacked(y) => Stacked(y)' \/ y = unwind[t][n].ctx
         /\ \A y : y = unwind[t][n].ctx /\ y # Nobody => ~Stacked(y)'
         /\ StackOnce'
<1> DEFINE n == Len(unwind[t])
           R == [ctx : Ctxs \cup {Nobody}, unlock : SUBSET Insts]
<1>1. unwind \in [Threads -> Seq(R)] /\ unwind[t] \in Seq(R)
  BY DEF TypeOK
<1> HIDE DEF R
<1>2. /\ SubSeq(unwind[t], 1, n - 1) \in Seq(R)
      /\ DOMAIN SubSeq(unwind[t], 1, n - 1) = 1 .. n - 1
      /\ \A k \in 1 .. n - 1 : SubSeq(unwind[t], 1, n - 1)[k] = unwind[t][k]
      /\ n \in Nat \ {0} /\ DOMAIN unwind[t] = 1 .. n
      /\ n \in DOMAIN unwind[t] /\ unwind[t][n] \in R
  BY <1>1, Popped
<1>3. /\ unwind'[t] = SubSeq(unwind[t], 1, n - 1)
      /\ \A u \in Threads : u # t => unwind'[u] = unwind[u]
      /\ unwind' \in [Threads -> Seq(R)]
  BY <1>1, <1>2
<1>4. \A k : k \in 1 .. n - 1 <=> k \in 1 .. n /\ k # n
  BY <1>2
<1> HIDE DEF n
<1>5. /\ \A u \in Threads : \A k : k \in DOMAIN unwind'[u] <=>
           k \in DOMAIN unwind[u] /\ ~(u = t /\ k = n)
      /\ \A u \in Threads : \A k \in DOMAIN unwind'[u] : unwind'[u][k] = unwind[u][k]
  BY <1>2, <1>3, <1>4
<1>6. /\ \A y : Stacked(y)' => Stacked(y)
      /\ \A y : Stacked(y) => Stacked(y)' \/ y = unwind[t][n].ctx
  BY <1>5 DEF Stacked
<1>7. \A y : y = unwind[t][n].ctx /\ y # Nobody => ~Stacked(y)'
  BY <1>2, <1>5 DEF Stacked, StackOnce
<1>8. StackOnce'
  BY <1>5 DEF StackOnce
<1> QED
  BY <1>2, <1>3, <1>5, <1>6, <1>7, <1>8 DEF n, R
-----------------------------------------------------------------------------
(* A context goes back to its pool.                                        *)
LEMMA ReleasePool ==
  ASSUME TypeOK, PoolInv, NEW x \in Ctxs, ctx[x].co \in Coros, Release(x)
  PROVE  /\ PoolInv' /\ all' = all
         /\ free' \in [Insts -> Seq(Ctxs)]
         /\ ctx' \in [Ctxs -> [fd : Fds, co : Coros \cup {Nobody}]]
         /\ \A y \in Ctxs \ {x} : ctx'[y] = ctx[y]
         /\ ctx'[x].co = Nobody /\ ctx'[x].fd = ctx[x].fd
         /\ \A i \in Insts : \A y \in Range(free[i]) : y \in Range(free'[i])
         /\ \A i \in Insts : x \in all[i] => x \in Range(free'[i])
<1> DEFINE i == Inst(ctx[x].fd)
           r == [fd |-> ctx[x].fd, co |-> Nobody]
<1>1. i \in Insts /\ x \in all[i] /\ free[i] \in Seq(Ctxs)
  BY InstType DEF TypeOK, PoolInv
<1>2. r \in [fd : Fds, co : Coros \cup {Nobody}] /\ r.co = Nobody /\ r.fd = ctx[x].fd
  BY DEF TypeOK
<1>3. ctx' = [ctx EXCEPT ![x] = r] /\ all' = all
  BY DEF Release
<1>4. free' = [free EXCEPT ![i] = Append(free[i], x)]
  BY <1>1 DEF TypeOK, Release
<1> HIDE DEF r, i
<1>5. /\ ctx' \in [Ctxs -> [fd : Fds, co : Coros \cup {Nobody}]]
      /\ \A y \in Ctxs \ {x} : ctx'[y] = ctx[y]
      /\ ctx'[x] = r
  BY <1>2, <1>3 DEF TypeOK
<1>6. x \notin Range(free[i])
  BY <1>1, Reserved DEF PoolInv
<1>7. /\ free' \in [Insts -> Seq(Ctxs)]
      /\ \A j \in Insts : j # i => free'[j] = free[j]
      /\ Range(free'[i]) = Range(free[i]) \cup {x}
      /\ IsInjective(free[i]) => IsInjective(free'[i])
  BY <1>1, <1>4, <1>6, Pushed, PushedRange DEF TypeOK
<1>8. \A j \in Insts : Range(free[j]) \subseteq Ctxs
  BY DEF TypeOK, Range
<1>9. PoolInv'
  <2>1. \A y \in Ctxs : ctx'[y].co \in Coros => y \in all'[Inst(ctx'[y].fd)]
    BY <1>2, <1>3, <1>5, Reserved DEF PoolInv
  <2>2. ASSUME NEW j \in Insts, NEW y \in Range(free'[j])
        PROVE  y \in all'[j] /\ ctx'[y].co = Nobody
    BY <1>1, <1>2, <1>3, <1>5, <1>7, <1>8 DEF PoolInv
  <2>3. \A j \in Insts : IsInjective(free'[j])
    BY <1>7 DEF PoolInv
  <2> QED
    BY <1>3, <2>1, <2>2, <2>3 DEF PoolInv
<1>10. \A j \in Insts : x \in all[j] => x \in Range(free'[j])
  BY <1>1, <1>7 DEF PoolInv
<1> QED
  BY <1>2, <1>3, <1>5, <1>7, <1>9, <1>10
-----------------------------------------------------------------------------
(* Steps that leave contexts, requests and coroutines alone.               *)
LEMMA FrameStep ==
  ASSUME IInv, TypeOK', running' => running,
         UNCHANGED <<ring, pool, coro, unwind>>
  PROVE  IInv'
<1>1. \A x : /\ Requested(x)' <=> Requested(x)
             /\ Stacked(x)' <=> Stacked(x)
             /\ Held(x)' <=> Held(x)
  BY DEF Requested, Stacked, Held, ring, coro
<1>2. PoolInv' /\ HeldInv' /\ StackOnce' /\ UsesInv'
  BY DEF IInv, PoolInv, HeldInv, StackOnce, UsesInv, pool, coro
<1>3. RingInv' /\ UniqueInv'
  BY <1>1 DEF IInv, RingInv, UniqueInv, Awaited, ring, pool, coro
<1>4. StackInv' /\ KeptInv' /\ WaitInv'
  BY <1>1 DEF IInv, StackInv, KeptInv, WaitInv, pool, coro
<1> QED
  BY <1>2, <1>3, <1>4 DEF IInv

\* A coroutine that is not suspended goes on, or is suspended for ever.
LEMMA MoveStep ==
  ASSUME IInv, TypeOK', NEW c \in Coros, pc[c] # "wait",
         \A d \in Coros \ {c} : pc'[d] = pc[d] /\ at'[d] = at[d],
         held[c] # Nobody => at'[c] = at[c],
         pc'[c] = "wait" => ~running,
         pc'[c] \notin {"user", "ended"} => at'[c] \in Uses[c],
         UNCHANGED <<running, ring, pool, held, unwind>>
  PROVE  IInv'
<1>1. \A x : /\ Requested(x)' <=> Requested(x)
             /\ Stacked(x)' <=> Stacked(x)
             /\ Held(x)' <=> Held(x)
  BY DEF Requested, Stacked, Held, ring
<1>2. PoolInv' /\ StackOnce' /\ UsesInv'
  BY DEF IInv, PoolInv, StackOnce, UsesInv, pool
<1>3. HeldInv'
  BY Reserved DEF IInv, HeldInv, pool
<1>4. RingInv' /\ UniqueInv'
  BY <1>1 DEF IInv, RingInv, UniqueInv, Awaited, ring, pool
<1>5. StackInv' /\ KeptInv' /\ WaitInv'
  BY <1>1 DEF IInv, StackInv, KeptInv, WaitInv, pool
<1> QED
  BY <1>2, <1>3, <1>4, <1>5 DEF IInv

LEMMA AwaitStep ==
  ASSUME IInv, NEW c \in Coros, NEW fd \in Uses[c], Await(c, fd)
  PROVE  IInv'
<1>1. fd \in Fds /\ held[c] = Nobody
  BY UringAssumption DEF IInv, TypeOK, Await
<1>2. TypeOK'
  BY <1>1 DEF IInv, TypeOK, Await, Goto, ring, pool
<1>3. /\ \A d \in Coros \ {c} : pc'[d] = pc[d] /\ at'[d] = at[d]
      /\ at'[c] = fd /\ pc[c] = "user" /\ (pc'[c] = "wait" => ~running)
      /\ UNCHANGED <<running, ring, pool, held, unwind>>
  BY DEF IInv, TypeOK, Await, Goto
<1> QED
  BY <1>1, <1>2, <1>3, MoveStep

LEMMA EndStep ==
  ASSUME IInv, NEW c \in Coros, End(c)
  PROVE  IInv'
<1>1. TypeOK'
  BY DEF IInv, TypeOK, End, Goto, ring, pool
<1>2. /\ \A d \in Coros \ {c} : pc'[d] = pc[d]
      /\ at' = at /\ pc[c] = "user" /\ pc'[c] = "ended"
      /\ UNCHANGED <<running, ring, pool, held, unwind>>
  BY DEF IInv, TypeOK, End, Goto
<1> QED
  BY <1>1, <1>2, MoveStep

LEMMA LockStep ==
  ASSUME IInv, NEW c \in Coros, Lock(c)
  PROVE  IInv'
<1>1. Inst(at[c]) \in Insts /\ at[c] \in Uses[c]
  BY InstType DEF IInv, TypeOK, UsesInv, Lock
<1>2. TypeOK'
  BY <1>1 DEF IInv, TypeOK, Lock, Goto, ring, pool
<1>3. \A d \in Coros \ {c} : pc'[d] = pc[d] /\ at'[d] = at[d]
  BY DEF IInv, TypeOK, Lock, Goto
<1> QED
  BY <1>1, <1>2, <1>3, MoveStep DEF IInv, TypeOK, Lock, Goto

LEMMA CloseStep ==
  ASSUME IInv, NEW c \in Coros, NEW fd \in Fds, Close(c, fd)
  PROVE  IInv'
<1>1. TypeOK'
  BY DEF IInv, TypeOK, Close, ring, pool, coro
<1> QED
  BY <1>1, FrameStep DEF Close, IInv, TypeOK
-----------------------------------------------------------------------------
(* async_io().                                                             *)
LEMMA AcquireStep ==
  ASSUME IInv, NEW c \in Coros, Acquire(c)
  PROVE  IInv'
<1> DEFINE i == Inst(at[c])
<1>a. i \in Insts /\ at[c] \in Fds /\ pc[c] = "acquire" /\ held[c] = Nobody
  BY InstType DEF IInv, TypeOK, Acquire
<1>b. PICK x \in Ctxs :
        /\ \/ /\ free[i] # <<>> /\ x = free[i][Len(free[i])]
              /\ free' = [free EXCEPT ![i] = SubSeq(@, 1, Len(@) - 1)]
              /\ all' = all
           \/ /\ x \notin UNION {all[j] : j \in Insts}
              /\ all' = [all EXCEPT ![i] = @ \cup {x}]
              /\ free' = free
        /\ ctx' = [ctx EXCEPT ![x] = [fd |-> at[c], co |-> c]]
        /\ held' = [held EXCEPT ![c] = x]
  BY DEF Acquire, Remaining
<1> HIDE DEF i
<1>c. /\ ctx'[x].co = c /\ ctx'[x].fd = at[c]
      /\ \A y \in Ctxs \ {x} : ctx'[y] = ctx[y]
  BY <1>b DEF IInv, TypeOK
\* What happens to the pool: x leaves the free list of i, or is new.
<1>d. /\ ctx[x].co \notin Coros
      /\ all' \in [Insts -> SUBSET Ctxs] /\ free' \in [Insts -> Seq(Ctxs)]
      /\ x \in all'[i]
      /\ \A j \in Insts : /\ all[j] \subseteq all'[j] /\ all'[j] \subseteq all[j] \cup {x}
                          /\ j # i => x \notin all[j] /\ all'[j] = all[j]
                          /\ Range(free'[j]) = Range(free[j]) \ {x}
                          /\ IsInjective(free'[j])
  <2>1. CASE /\ free[i] # <<>> /\ x = free[i][Len(free[i])]
             /\ free' = [free EXCEPT ![i] = SubSeq(@, 1, Len(@) - 1)]
             /\ all' = all
    <3>1. /\ SubSeq(free[i], 1, Len(free[i]) - 1) \in Seq(Ctxs)
          /\ IsInjective(SubSeq(free[i], 1, Len(free[i]) - 1))
          /\ Range(SubSeq(free[i], 1, Len(free[i]) - 1)) = Range(free[i]) \ {x}
          /\ x \in Range(free[i])
      BY <1>a, <2>1, Popped, PoppedRange DEF IInv, TypeOK, PoolInv
    <3>2. /\ free'[i] = SubSeq(free[i], 1, Len(free[i]) - 1)
          /\ \A j \in Insts : j # i => free'[j] = free[j]
          /\ free' \in [Insts -> Seq(Ctxs)]
      BY <1>a, <2>1, <3>1 DEF IInv, TypeOK
    <3>3. /\ x \in all[i] /\ ctx[x].co = Nobody
          /\ \A j \in Insts : j # i => x \notin all[j]
      BY <1>a, <3>1 DEF IInv, PoolInv
    <3>4. \A j \in Insts : j # i => x \notin Range(free[j])
      BY <3>3 DEF IInv, PoolInv
    <3> QED
      BY <1>a, <2>1, <3>1, <3>2, <3>3, <3>4, Reserved DEF IInv, TypeOK, PoolInv
  <2>2. CASE /\ x \notin UNION {all[j] : j \in Insts}
             /\ all' = [all EXCEPT ![i] = @ \cup {x}]
             /\ free' = free
    <3>1. /\ all' \in [Insts -> SUBSET Ctxs]
          /\ all'[i] = all[i] \cup {x}
          /\ \A j \in Insts : j # i => all'[j] = all[j]
          /\ \A j \in Insts : x \notin all[j]
      BY <1>a, <2>2 DEF IInv, TypeOK
    <3>2. ctx[x].co \notin Coros
      BY <3>1, InstType DEF IInv, TypeOK, PoolInv
    <3>3. \A j \in Insts : x \notin Range(free[j])
      BY <3>1 DEF IInv, PoolInv
    <3> QED
      BY <1>a, <2>2, <3>1, <3>2, <3>3 DEF IInv, TypeOK, PoolInv
  <2> QED
    BY <1>b, <2>1, <2>2
<1>e. ~Requested(x) /\ ~Stacked(x) /\ ~Held(x)
  BY <1>d, Reserved DEF IInv, TypeOK, RingInv, StackInv, Awaited, HeldInv, Held
<1>f. \A y : /\ Requested(y)' <=> Requested(y)
             /\ Stacked(y)' <=> Stacked(y)
  BY DEF Acquire, Requested, Stacked, ring
<1>g. \A y : Held(y)' <=> y = x \/ (Held(y) /\ y # Nobody) \/ (Held(y)' /\ y = Nobody)
  BY <1>a, <1>b DEF IInv, TypeOK, Held
<1>h. \A j \in Insts : Range(sq[j]) \subseteq Ctxs /\ Range(cq[j]) \subseteq Ctxs
                       /\ Range(free[j]) \subseteq Ctxs
  BY DEF IInv, TypeOK, Range
<1>1. TypeOK'
  <2>1. ctx' \in [Ctxs -> [fd : Fds, co : Coros \cup {Nobody}]]
    <3> DEFINE r == [fd |-> at[c], co |-> c]
    <3>1. r \in [fd : Fds, co : Coros \cup {Nobody}] /\ ctx' = [ctx EXCEPT ![x] = r]
      BY <1>a, <1>b
    <3> HIDE DEF r
    <3> QED
      BY <3>1 DEF IInv, TypeOK
  <2>2. /\ held' \in [Coros -> Ctxs \cup {Nobody}]
        /\ pc' \in [Coros -> {"user", "acquire", "lock", "sqe", "wait", "ended"}]
        /\ \A d \in Coros : held'[d] # Nobody <=> pc'[d] \in {"lock", "sqe"}
    BY <1>a, <1>b, Reserved DEF IInv, TypeOK, Acquire, Goto
  <2> QED
    BY <1>d, <2>1, <2>2 DEF IInv, TypeOK, Acquire, ring
<1>2. PoolInv'
  <2>1. ASSUME NEW y \in Ctxs, ctx'[y].co \in Coros PROVE y \in all'[Inst(ctx'[y].fd)]
    <3>1. CASE y = x
      BY <1>c, <1>d, <3>1 DEF i
    <3>2. CASE y # x
      BY <1>c, <1>d, <2>1, <3>2, InstType DEF IInv, TypeOK, PoolInv
    <3> QED
      BY <3>1, <3>2
  <2>2. \A j, k \in Insts : j # k => all'[j] \cap all'[k] = {}
    BY <1>a, <1>d DEF IInv, PoolInv
  <2>3. ASSUME NEW j \in Insts, NEW y \in Range(free'[j])
        PROVE  y \in all'[j] /\ ctx'[y].co = Nobody
    <3>1. y \in Range(free[j]) /\ y # x /\ y \in Ctxs
      BY <1>d, <1>h
    <3> QED
      BY <1>c, <1>d, <3>1 DEF IInv, PoolInv
  <2> QED
    BY <1>d, <2>1, <2>2, <2>3 DEF PoolInv
<1>3. HeldInv'
  BY <1>a, <1>b, <1>c, <1>e DEF IInv, TypeOK, HeldInv, Held, Acquire
<1>4. RingInv'
  <2>1. \A y \in Ctxs : Requested(y)' => Awaited(y)'
    BY <1>a, <1>c, <1>e, <1>f DEF IInv, TypeOK, RingInv, Awaited, Acquire, Goto
  <2>2. \A j \in Insts : \A y \in Range(sq[j]) \cup Range(cq[j]) : y \in Ctxs /\ y # x
    BY <1>e, <1>h, RequestedIs
  <2>3. sq' = sq /\ cq' = cq /\ flight' = flight
    BY DEF Acquire, ring
  <2>4. \A j \in Insts : \A y \in Range(sq[j]) \cup Range(cq[j]) :
          Inst(ctx'[y].fd) = j /\ y \notin flight
    BY <1>c, <2>2 DEF IInv, RingInv
  <2> QED
    BY <2>1, <2>3, <2>4 DEF IInv, RingInv
<1>5. UniqueInv'
  BY <1>c, <1>e, <1>f DEF IInv, UniqueInv
<1>6. StackInv'
  BY <1>c, <1>e, <1>f, <1>g, Reserved DEF IInv, StackInv
<1>7. StackOnce'
  BY DEF IInv, StackOnce, Acquire
<1>8. KeptInv'
  <2> SUFFICES ASSUME NEW j \in Insts, NEW y \in all'[j], y # x
               PROVE  y \in Range(free'[j]) \/ Held(y)' \/ Requested(y)' \/ Stacked(y)'
    BY <1>g DEF KeptInv
  <2>1. y \in all[j] /\ y \in Ctxs
    BY <1>d, <1>1 DEF TypeOK
  <2> QED
    BY <1>d, <1>f, <1>g, <2>1, Reserved DEF IInv, KeptInv
<1>9. WaitInv'
  <2> SUFFICES ASSUME running, NEW d \in Coros, pc'[d] = "wait"
               PROVE  \E y \in Ctxs : Requested(y)' /\ ctx'[y].co = d
    BY DEF WaitInv, Acquire
  <2>1. pc[d] = "wait"
    BY <1>a DEF IInv, TypeOK, Acquire, Goto
  <2> QED
    BY <1>c, <1>e, <1>f, <2>1 DEF IInv, WaitInv
<1>10. UsesInv'
  BY <1>a DEF IInv, TypeOK, UsesInv, Acquire, Goto
<1> QED
  BY <1>1, <1>2, <1>3, <1>4, <1>5, <1>6, <1>7, <1>8, <1>9, <1>10 DEF IInv

\* The context of a call in async_io() is in no other place.
LEMMA HeldAlone ==
  ASSUME IInv, NEW c \in Coros, pc[c] = "sqe"
  PROVE  /\ held[c] \in Ctxs /\ ctx[held[c]].co = c /\ ctx[held[c]].fd = at[c]
         /\ at[c] \in Fds /\ Inst(at[c]) \in Insts /\ host[c] \in Threads
         /\ \A d \in Coros : held[d] = held[c] => d = c
         /\ ~Requested(held[c]) /\ ~Stacked(held[c])
         /\ \A y \in Ctxs : Requested(y) => ctx[y].co # c
<1>1. held[c] \in Ctxs /\ ctx[held[c]].co = c /\ ctx[held[c]].fd = at[c]
  BY DEF IInv, TypeOK, HeldInv
<1>2. \A y \in Ctxs : Requested(y) => ctx[y].co # c
  BY DEF IInv, RingInv, Awaited
<1>3. ~Stacked(held[c])
  BY <1>1 DEF IInv, StackInv, Held
<1>4. \A d \in Coros : held[d] = held[c] => d = c
  BY <1>1 DEF IInv, HeldInv
<1> QED
  BY <1>1, <1>2, <1>3, <1>4, InstType DEF IInv, TypeOK

LEMMA SubmitStep ==
  ASSUME IInv, NEW c \in Coros, Submit(c)
  PROVE  IInv'
<1> DEFINE x == held[c]
           i == Inst(at[c])
<1>a. /\ pc[c] = "sqe" /\ x \in Ctxs /\ ctx[x].co = c /\ ctx[x].fd = at[c]
      /\ i \in Insts /\ host[c] \in Threads /\ Len(sq[i]) < Entries
      /\ \A d \in Coros : held[d] = x => d = c
      /\ ~Requested(x) /\ ~Stacked(x)
      /\ \A y \in Ctxs : Requested(y) => ctx[y].co # c
  BY HeldAlone DEF Submit
<1>b. /\ sq' = [sq EXCEPT ![i] = Append(@, x)]
      /\ held' = [held EXCEPT ![c] = Nobody]
      /\ pc' = [pc EXCEPT ![c] = "wait"]
      /\ Later(host[c], Nobody, {i})
      /\ UNCHANGED <<running, loop, flight, cq, pool, mutex, ready, at, host, spc>>
  BY DEF Submit, Publish, GiveUp, Goto
<1> HIDE DEF x, i
<1>c. /\ sq' \in [Insts -> Seq(Ctxs)] /\ \A j \in Insts : Len(sq'[j]) <= Entries
      /\ \A j \in Insts : j # i => sq'[j] = sq[j]
      /\ Range(sq'[i]) = Range(sq[i]) \cup {x}
      /\ x \notin Range(sq[i]) => IsInjective(sq'[i])
  <2>1. sq[i] \in Seq(Ctxs) /\ sq'[i] = Append(sq[i], x) /\ IsInjective(sq[i])
    BY <1>a, <1>b DEF IInv, TypeOK, RingInv
  <2>2. /\ Append(sq[i], x) \in Seq(Ctxs) /\ Len(Append(sq[i], x)) = Len(sq[i]) + 1
        /\ Len(sq[i]) \in Nat
        /\ Range(Append(sq[i], x)) = Range(sq[i]) \cup {x}
        /\ x \notin Range(sq[i]) => IsInjective(Append(sq[i], x))
    BY <1>a, <2>1, Pushed, PushedRange
  <2>3. Len(sq[i]) + 1 <= Entries
    BY <1>a, <2>2, UringAssumption
  <2> QED
    BY <1>a, <1>b, <2>1, <2>2, <2>3 DEF IInv, TypeOK
<1>d. \A y : Requested(y)' <=> Requested(y) \/ y = x
  <2>1. \A y : Requested(y)' <=>
          y \in flight' \/ \E j \in Insts : y \in Range(sq'[j]) \/ y \in Range(cq'[j])
    BY DEF Requested, Range
  <2> QED
    BY <1>a, <1>b, <1>c, <2>1, RequestedIs
<1>e. \A y \in Ctxs : Stacked(y)' <=> Stacked(y)
  BY <1>a, <1>b, PushStacked, Reserved DEF IInv
<1>f. \A y \in Ctxs : Held(y)' <=> Held(y) /\ y # x
  BY <1>a, <1>b, Reserved DEF IInv, TypeOK, Held, x
<1>g. /\ unwind' \in [Threads -> Seq([ctx : Ctxs \cup {Nobody}, unlock : SUBSET Insts])]
      /\ StackOnce'
  BY <1>a, <1>b, PushStacked, Reserved DEF IInv
<1>h. /\ \A j \in Insts : x \notin Range(sq[j]) /\ x \notin Range(cq[j])
      /\ x \notin flight
  BY <1>a, RequestedIs
<1>1. TypeOK'
  BY <1>a, <1>b, <1>c, <1>g DEF IInv, TypeOK, pool
<1>2. PoolInv'
  BY <1>b DEF IInv, PoolInv, pool
<1>3. HeldInv'
  BY <1>b, Reserved DEF IInv, TypeOK, HeldInv, pool
<1>4. RingInv'
  <2>1. \A y \in Ctxs : Requested(y)' => Awaited(y)'
    BY <1>a, <1>b, <1>d DEF IInv, TypeOK, RingInv, Awaited, pool
  <2>2. ASSUME NEW j \in Insts, NEW y \in Range(sq'[j]) \cup Range(cq'[j])
        PROVE  Inst(ctx'[y].fd) = j /\ y \notin flight'
    <3>1. CASE y = x
      BY <1>a, <1>b, <1>c, <1>h, <3>1 DEF pool, i
    <3>2. CASE y # x
      BY <1>b, <1>c, <3>2 DEF IInv, RingInv, pool
    <3> QED
      BY <3>1, <3>2
  <2>3. \A j \in Insts : Range(sq'[j]) \cap Range(cq'[j]) = {}
    BY <1>b, <1>c, <1>h DEF IInv, RingInv
  <2>4. \A j \in Insts : IsInjective(sq'[j]) /\ IsInjective(cq'[j])
    BY <1>b, <1>c, <1>h DEF IInv, RingInv
  <2> QED
    BY <2>1, <2>2, <2>3, <2>4 DEF RingInv
<1>5. UniqueInv'
  BY <1>a, <1>b, <1>d DEF IInv, UniqueInv, pool
<1>6. StackInv'
  BY <1>a, <1>b, <1>d, <1>e, <1>f DEF IInv, StackInv, pool
<1>7. KeptInv'
  BY <1>b, <1>d, <1>e, <1>f DEF IInv, TypeOK, KeptInv, pool
<1>8. WaitInv'
  BY <1>a, <1>b, <1>d DEF IInv, TypeOK, WaitInv, pool
<1>9. UsesInv'
  BY <1>a, <1>b DEF IInv, TypeOK, UsesInv
<1> QED
  BY <1>1, <1>2, <1>3, <1>4, <1>5, <1>6, <1>7, <1>8, <1>9, <1>g DEF IInv

LEMMA FullStep ==
  ASSUME IInv, NEW c \in Coros, Full(c)
  PROVE  IInv'
<1> DEFINE x == held[c]
           i == Inst(at[c])
<1>a. /\ pc[c] = "sqe" /\ x \in Ctxs /\ ctx[x].co = c
      /\ i \in Insts /\ host[c] \in Threads
      /\ \A d \in Coros : held[d] = x => d = c
      /\ ~Requested(x) /\ ~Stacked(x)
      /\ \A y \in Ctxs : Requested(y) => ctx[y].co # c
  BY HeldAlone DEF Full
<1>b. /\ held' = [held EXCEPT ![c] = Nobody]
      /\ pc' = [pc EXCEPT ![c] = "user"]
      /\ Later(host[c], x, {i})
      /\ host' = [host EXCEPT ![c] = host[c]]
      /\ UNCHANGED <<running, loop, ring, pool, mutex, ready, at, spc>>
  BY DEF Full, GiveUp, CleanUp, Resume, Goto
<1> HIDE DEF x, i
<1>c. \A y : Requested(y)' <=> Requested(y)
  BY <1>b DEF Requested, ring
<1>d. \A y \in Ctxs : Stacked(y)' <=> Stacked(y) \/ y = x
  BY <1>a, <1>b, PushStacked DEF IInv
<1>e. \A y \in Ctxs : Held(y)' <=> Held(y) /\ y # x
  BY <1>a, <1>b, Reserved DEF IInv, TypeOK, Held, x
<1>f. /\ unwind' \in [Threads -> Seq([ctx : Ctxs \cup {Nobody}, unlock : SUBSET Insts])]
      /\ StackOnce'
  BY <1>a, <1>b, PushStacked, Reserved DEF IInv
<1>1. TypeOK'
  BY <1>a, <1>b, <1>f DEF IInv, TypeOK, ring, pool
<1>2. PoolInv'
  BY <1>b DEF IInv, PoolInv, pool
<1>3. HeldInv'
  BY <1>b, Reserved DEF IInv, TypeOK, HeldInv, pool
<1>4. RingInv'
  BY <1>a, <1>b, <1>c DEF IInv, TypeOK, RingInv, Awaited, ring, pool
<1>5. UniqueInv'
  BY <1>b, <1>c DEF IInv, UniqueInv, pool
<1>6. StackInv'
  BY <1>a, <1>b, <1>c, <1>d, <1>e DEF IInv, StackInv, pool
<1>7. KeptInv'
  BY <1>b, <1>c, <1>d, <1>e DEF IInv, TypeOK, KeptInv, pool
<1>8. WaitInv'
  BY <1>b, <1>c DEF IInv, TypeOK, WaitInv, pool
<1>9. UsesInv'
  BY <1>b DEF IInv, TypeOK, UsesInv
<1> QED
  BY <1>1, <1>2, <1>3, <1>4, <1>5, <1>6, <1>7, <1>8, <1>9, <1>f DEF IInv

\* A callback or async_io() returns.
LEMMA ReturnStep ==
  ASSUME IInv, NEW t \in Threads, Return(t)
  PROVE  IInv'
<1> DEFINE n == Len(unwind[t])
           x == unwind[t][n].ctx
<1>a. /\ unwind[t] # <<>>
      /\ unwind' = [unwind EXCEPT ![t] = SubSeq(@, 1, Len(@) - 1)]
      /\ IF x = Nobody THEN UNCHANGED pool ELSE Release(x)
      /\ mutex' = [i \in Insts |-> IF i \in unwind[t][n].unlock THEN Nobody ELSE mutex[i]]
      /\ UNCHANGED <<running, loop, ring, ready, coro, spc>>
  BY DEF Return
<1>b. /\ unwind' \in [Threads -> Seq([ctx : Ctxs \cup {Nobody}, unlock : SUBSET Insts])]
      /\ n \in DOMAIN unwind[t]
      /\ unwind[t][n] \in [ctx : Ctxs \cup {Nobody}, unlock : SUBSET Insts]
      /\ \A y : Stacked(y)' => Stacked(y)
      /\ \A y : Stacked(y) => Stacked(y)' \/ y = x
      /\ \A y : y = x /\ y # Nobody => ~Stacked(y)'
      /\ StackOnce'
  BY <1>a, PopStack DEF IInv
<1>c. x \in Ctxs \cup {Nobody}
  BY <1>b
<1>d. Stacked(x)
  BY <1>b DEF Stacked
<1> HIDE DEF x, n
<1>e. \A y : (Requested(y)' <=> Requested(y)) /\ (Held(y)' <=> Held(y))
  BY <1>a DEF Requested, Held, ring, coro
<1>f. mutex' \in [Insts -> Threads \cup {Nobody}]
  BY <1>a DEF IInv, TypeOK
<1>1. CASE x = Nobody
  <2>1. UNCHANGED pool /\ \A y \in Ctxs : Stacked(y)' <=> Stacked(y)
    BY <1>1, <1>a, <1>b, Reserved
  <2>2. TypeOK'
    BY <1>a, <1>b, <1>f, <2>1 DEF IInv, TypeOK, ring, pool, coro
  <2>3. PoolInv' /\ HeldInv' /\ UsesInv'
    BY <1>a, <2>1 DEF IInv, PoolInv, HeldInv, UsesInv, pool, coro
  <2>4. RingInv' /\ UniqueInv'
    BY <1>a, <1>e, <2>1 DEF IInv, RingInv, UniqueInv, Awaited, ring, pool, coro
  <2>5. StackInv' /\ WaitInv'
    BY <1>a, <1>e, <2>1 DEF IInv, StackInv, WaitInv, pool, coro
  <2>6. KeptInv'
    BY <1>a, <1>e, <2>1 DEF IInv, TypeOK, KeptInv, pool, coro
  <2> QED
    BY <1>b, <2>2, <2>3, <2>4, <2>5, <2>6 DEF IInv
<1>2. CASE x \in Ctxs
  <2>1. ctx[x].co \in Coros /\ ~Requested(x) /\ ~Held(x) /\ Release(x)
    BY <1>2, <1>a, <1>d, Reserved DEF IInv, StackInv
  <2>2. /\ PoolInv' /\ all' = all
        /\ free' \in [Insts -> Seq(Ctxs)]
        /\ ctx' \in [Ctxs -> [fd : Fds, co : Coros \cup {Nobody}]]
        /\ \A y \in Ctxs \ {x} : ctx'[y] = ctx[y]
        /\ ctx'[x].co = Nobody
        /\ \A i \in Insts : \A y \in Range(free[i]) : y \in Range(free'[i])
        /\ \A i \in Insts : x \in all[i] => x \in Range(free'[i])
    BY <1>2, <2>1, ReleasePool DEF IInv
  <2>3. TypeOK'
    BY <1>a, <1>b, <1>f, <2>2 DEF IInv, TypeOK, ring, coro
  <2>4. HeldInv'
    BY <1>a, <2>1, <2>2 DEF IInv, TypeOK, HeldInv, Held, coro
  <2>5. RingInv'
    <3>1. \A y \in Ctxs : Requested(y)' => Awaited(y)'
      BY <1>a, <1>e, <2>1, <2>2 DEF IInv, RingInv, Awaited, coro
    <3>2. \A i \in Insts : \A y \in Range(sq[i]) \cup Range(cq[i]) : y \in Ctxs /\ y # x
      BY <2>1, RequestedIs DEF IInv, TypeOK, Range
    <3> QED
      BY <1>a, <2>2, <3>1, <3>2 DEF IInv, RingInv, ring
  <2>6. UniqueInv'
    BY <1>e, <2>1, <2>2 DEF IInv, UniqueInv
  <2>7. StackInv'
    BY <1>2, <1>b, <1>e, <2>2, Reserved DEF IInv, StackInv
  <2>8. KeptInv'
    BY <1>b, <1>e, <2>2 DEF IInv, TypeOK, KeptInv
  <2>9. WaitInv'
    BY <1>a, <1>e, <2>1, <2>2 DEF IInv, WaitInv, coro
  <2>10. UsesInv'
    BY <1>a DEF IInv, UsesInv, coro
  <2> QED
    BY <1>b, <2>2, <2>3, <2>4, <2>5, <2>6, <2>7, <2>8, <2>9, <2>10 DEF IInv
<1> QED
  BY <1>c, <1>1, <1>2
-----------------------------------------------------------------------------
(* The kernel.                                                             *)
LEMMA FetchStep ==
  ASSUME IInv, NEW i \in Insts, Fetch(i)
  PROVE  IInv'
<1> DEFINE x == Head(sq[i])
<1>a. /\ sq[i] \in Seq(Ctxs) /\ sq[i] # <<>> /\ IsInjective(sq[i])
      /\ Len(sq[i]) <= Entries /\ Len(sq[i]) \in Nat
  BY DEF IInv, TypeOK, RingInv, Fetch
<1>b. /\ Tail(sq[i]) \in Seq(Ctxs) /\ x \in Ctxs /\ Len(Tail(sq[i])) = Len(sq[i]) - 1
      /\ IsInjective(Tail(sq[i]))
      /\ Range(Tail(sq[i])) = Range(sq[i]) \ {x} /\ x \in Range(sq[i])
  BY <1>a, Taken
<1>c. /\ sq' = [sq EXCEPT ![i] = Tail(@)] /\ flight' = flight \cup {x}
      /\ UNCHANGED <<running, loop, cq, pool, mutex, ready, coro, unwind, spc>>
  BY DEF Fetch
<1> HIDE DEF x
<1>d. /\ sq' \in [Insts -> Seq(Ctxs)] /\ \A j \in Insts : Len(sq'[j]) <= Entries
      /\ \A j \in Insts : j # i => sq'[j] = sq[j]
      /\ Range(sq'[i]) = Range(sq[i]) \ {x}
      /\ IsInjective(sq'[i])
  BY <1>a, <1>b, <1>c, UringAssumption DEF IInv, TypeOK
<1>e. \A y : Requested(y)' <=> Requested(y)
  <2>1. \A y : Requested(y)' <=>
          y \in flight' \/ \E j \in Insts : y \in Range(sq'[j]) \/ y \in Range(cq'[j])
    BY DEF Requested, Range
  <2> QED
    BY <1>b, <1>c, <1>d, <2>1, RequestedIs
<1>f. \A y : (Stacked(y)' <=> Stacked(y)) /\ (Held(y)' <=> Held(y))
  BY <1>c DEF Stacked, Held, coro
<1>g. \A j \in Insts : /\ j # i => x \notin Range(sq[j]) /\ x \notin Range(cq[j])
                       /\ x \notin Range(cq[i])
  BY <1>b DEF IInv, RingInv
<1>1. TypeOK'
  BY <1>b, <1>c, <1>d DEF IInv, TypeOK, pool, coro
<1>2. PoolInv' /\ HeldInv' /\ StackOnce' /\ UsesInv'
  BY <1>c DEF IInv, PoolInv, HeldInv, StackOnce, UsesInv, pool, coro
<1>3. RingInv'
  <2>1. \A y \in Ctxs : Requested(y)' => Awaited(y)'
    BY <1>c, <1>e DEF IInv, RingInv, Awaited, pool, coro
  <2>2. ASSUME NEW j \in Insts, NEW y \in Range(sq'[j]) \cup Range(cq'[j])
        PROVE  Inst(ctx'[y].fd) = j /\ y \notin flight'
    BY <1>c, <1>d, <1>g DEF IInv, RingInv, pool
  <2>3. \A j \in Insts : /\ Range(sq'[j]) \cap Range(cq'[j]) = {}
                         /\ IsInjective(sq'[j]) /\ IsInjective(cq'[j])
    BY <1>c, <1>d DEF IInv, RingInv
  <2> QED
    BY <2>1, <2>2, <2>3 DEF RingInv
<1>4. UniqueInv' /\ StackInv' /\ KeptInv' /\ WaitInv'
  BY <1>c, <1>e, <1>f DEF IInv, UniqueInv, StackInv, KeptInv, WaitInv, pool, coro
<1> QED
  BY <1>1, <1>2, <1>3, <1>4 DEF IInv

LEMMA CompleteStep ==
  ASSUME IInv, NEW x \in Ctxs, Complete(x)
  PROVE  IInv'
<1> DEFINE i == Inst(ctx[x].fd)
<1>a. /\ x \in flight /\ i \in Insts /\ ctx[x].fd \in Fds
      /\ cq[i] \in Seq(Ctxs) /\ IsInjective(cq[i])
  BY InstType DEF IInv, TypeOK, RingInv, Complete
<1>b. /\ flight' = flight \ {x} /\ cq' = [cq EXCEPT ![i] = Append(@, x)]
      /\ ready' \in {ready, ready \ {ctx[x].fd}}
      /\ UNCHANGED <<running, loop, sq, pool, mutex, coro, unwind, spc>>
  BY DEF Complete
<1>g. \A j \in Insts : x \notin Range(sq[j]) /\ x \notin Range(cq[j])
  BY <1>a DEF IInv, RingInv
<1>h. i = Inst(ctx[x].fd)
  OBVIOUS
<1> HIDE DEF i
<1>d. /\ cq' \in [Insts -> Seq(Ctxs)]
      /\ \A j \in Insts : j # i => cq'[j] = cq[j]
      /\ Range(cq'[i]) = Range(cq[i]) \cup {x}
      /\ IsInjective(cq'[i])
  <2>1. /\ Append(cq[i], x) \in Seq(Ctxs)
        /\ Range(Append(cq[i], x)) = Range(cq[i]) \cup {x}
        /\ IsInjective(Append(cq[i], x))
    BY <1>a, <1>g, Pushed, PushedRange
  <2> QED
    BY <1>a, <1>b, <2>1 DEF IInv, TypeOK
<1>e. \A y : Requested(y)' <=> Requested(y)
  <2>1. \A y : Requested(y)' <=>
          y \in flight' \/ \E j \in Insts : y \in Range(sq'[j]) \/ y \in Range(cq'[j])
    BY DEF Requested, Range
  <2> QED
    BY <1>a, <1>b, <1>d, <2>1, RequestedIs
<1>f. \A y : (Stacked(y)' <=> Stacked(y)) /\ (Held(y)' <=> Held(y))
  BY <1>b DEF Stacked, Held, coro
<1>1. TypeOK'
  BY <1>b, <1>d DEF IInv, TypeOK, pool, coro
<1>2. PoolInv' /\ HeldInv' /\ StackOnce' /\ UsesInv'
  BY <1>b DEF IInv, PoolInv, HeldInv, StackOnce, UsesInv, pool, coro
<1>3. RingInv'
  <2>1. \A y \in Ctxs : Requested(y)' => Awaited(y)'
    BY <1>b, <1>e DEF IInv, RingInv, Awaited, pool, coro
  <2>2. ASSUME NEW j \in Insts, NEW y \in Range(sq'[j]) \cup Range(cq'[j])
        PROVE  Inst(ctx'[y].fd) = j /\ y \notin flight'
    BY <1>b, <1>d, <1>g, <1>h DEF IInv, RingInv, pool
  <2>3. \A j \in Insts : /\ Range(sq'[j]) \cap Range(cq'[j]) = {}
                         /\ IsInjective(sq'[j]) /\ IsInjective(cq'[j])
    BY <1>b, <1>d, <1>g DEF IInv, RingInv
  <2> QED
    BY <2>1, <2>2, <2>3 DEF RingInv
<1>4. UniqueInv' /\ StackInv' /\ KeptInv' /\ WaitInv'
  BY <1>b, <1>e, <1>f DEF IInv, UniqueInv, StackInv, KeptInv, WaitInv, pool, coro
<1> QED
  BY <1>1, <1>2, <1>3, <1>4 DEF IInv
-----------------------------------------------------------------------------
(* The event loop takes a completion out of the ring.                      *)

LEMMA RequestedLeft ==
  ASSUME IInv, NEW x \in Ctxs, Requested(x)
  PROVE  ~Held(x)
<1> SUFFICES ASSUME NEW c \in Coros, held[c] = x PROVE FALSE
  BY DEF Held
<1>1. ctx[x].co = c /\ pc[c] = "wait"
  BY DEF IInv, HeldInv, RingInv, Awaited
<1>2. held[c] # Nobody
  BY Reserved
<1> QED
  BY <1>1, <1>2 DEF IInv, TypeOK

LEMMA ReapFacts ==
  ASSUME IInv, NEW i \in Insts, cq[i] # <<>>,
         cq' = [cq EXCEPT ![i] = Tail(@)], UNCHANGED <<sq, flight>>
  PROVE  LET x == Head(cq[i]) IN
         /\ x \in Ctxs /\ x \in Range(cq[i]) /\ Requested(x) /\ Awaited(x)
         /\ ~Stacked(x) /\ ~Held(x) /\ Inst(ctx[x].fd) = i
         /\ cq' \in [Insts -> Seq(Ctxs)]
         /\ Range(cq'[i]) = Range(cq[i]) \ {x} /\ IsInjective(cq'[i])
         /\ \A j \in Insts : j # i => cq'[j] = cq[j]
         /\ \A y : Requested(y)' <=> Requested(y) /\ y # x
         /\ \A j \in Insts : \A y \in Range(sq'[j]) \cup Range(cq'[j]) :
              y # x /\ y \in Ctxs /\ Inst(ctx[y].fd) = j /\ y \notin flight'
         /\ \A j \in Insts : /\ Range(sq'[j]) \cap Range(cq'[j]) = {}
                             /\ IsInjective(sq'[j]) /\ IsInjective(cq'[j])
<1> DEFINE x == Head(cq[i])
<1>1. /\ cq[i] \in Seq(Ctxs) /\ IsInjective(cq[i])
  BY DEF IInv, TypeOK, RingInv
<1>2. /\ Tail(cq[i]) \in Seq(Ctxs) /\ x \in Ctxs
      /\ IsInjective(Tail(cq[i]))
      /\ Range(Tail(cq[i])) = Range(cq[i]) \ {x} /\ x \in Range(cq[i])
  BY <1>1, Taken
<1> HIDE DEF x
<1>3. /\ cq' \in [Insts -> Seq(Ctxs)]
      /\ \A j \in Insts : j # i => cq'[j] = cq[j]
      /\ Range(cq'[i]) = Range(cq[i]) \ {x} /\ IsInjective(cq'[i])
  BY <1>2 DEF IInv, TypeOK
<1>4. Requested(x) /\ Awaited(x) /\ ~Stacked(x) /\ ~Held(x)
  <2>1. Requested(x)
    BY <1>2, RequestedIs
  <2>2. Awaited(x)
    BY <1>2, <2>1 DEF IInv, RingInv
  <2>3. ~Held(x)
    BY <1>2, <2>1, RequestedLeft
  <2> QED
    BY <1>2, <2>1, <2>2, <2>3 DEF IInv, StackInv
<1>5. /\ Inst(ctx[x].fd) = i /\ x \notin flight
      /\ \A j \in Insts : x \notin Range(sq[j]) /\ (j # i => x \notin Range(cq[j]))
  BY <1>2 DEF IInv, RingInv
<1>6. \A y : Requested(y)' <=> Requested(y) /\ y # x
  <2>1. \A y : Requested(y)' <=>
          y \in flight' \/ \E j \in Insts : y \in Range(sq'[j]) \/ y \in Range(cq'[j])
    BY DEF Requested, Range
  <2> QED
    BY <1>3, <1>5, <2>1, RequestedIs
<1>7. ASSUME NEW j \in Insts, NEW y \in Range(sq'[j]) \cup Range(cq'[j])
      PROVE  y # x /\ y \in Ctxs /\ Inst(ctx[y].fd) = j /\ y \notin flight'
  <2>1. Range(sq[j]) \subseteq Ctxs /\ Range(cq[j]) \subseteq Ctxs
    BY DEF IInv, TypeOK, Range
  <2>2. y \in Range(sq[j]) \cup Range(cq[j]) /\ y # x
    BY <1>3, <1>5
  <2> QED
    BY <2>1, <2>2 DEF IInv, RingInv
<1>8. \A j \in Insts : /\ Range(sq'[j]) \cap Range(cq'[j]) = {}
                       /\ IsInjective(sq'[j]) /\ IsInjective(cq'[j])
  BY <1>3 DEF IInv, RingInv
<1> QED
  BY <1>2, <1>3, <1>4, <1>5, <1>6, <1>7, <1>8 DEF x

LEMMA DispatchStep ==
  ASSUME IInv, NEW i \in Insts, Dispatch(i)
  PROVE  IInv'
<1> DEFINE x == Head(cq[i])
           c == ctx[x].co
<1>a. /\ cq[i] # <<>> /\ running
      /\ cq' = [cq EXCEPT ![i] = Tail(@)]
      /\ Later(i, x, {})
      /\ pc' = [pc EXCEPT ![c] = "user"] /\ host' = [host EXCEPT ![c] = i]
      /\ UNCHANGED <<running, loop, sq, flight, pool, mutex, ready, at, held, spc>>
  BY DEF Dispatch, Dropping, Resume, Goto
<1>b. /\ x \in Ctxs /\ Requested(x) /\ Awaited(x) /\ ~Stacked(x) /\ ~Held(x)
      /\ cq' \in [Insts -> Seq(Ctxs)]
      /\ \A y : Requested(y)' <=> Requested(y) /\ y # x
      /\ \A j \in Insts : \A y \in Range(sq'[j]) \cup Range(cq'[j]) :
           y \in Ctxs /\ Inst(ctx[y].fd) = j /\ y \notin flight'
      /\ \A j \in Insts : /\ Range(sq'[j]) \cap Range(cq'[j]) = {}
                          /\ IsInjective(sq'[j]) /\ IsInjective(cq'[j])
  BY <1>a, ReapFacts
<1>c. c \in Coros /\ pc[c] = "wait" /\ held[c] = Nobody
  BY <1>b DEF IInv, TypeOK, Awaited
<1>d. \A y \in Ctxs : Requested(y) /\ ctx[y].co = c => y = x
  BY <1>b DEF IInv, UniqueInv
<1>e. i \in Threads /\ x \in Ctxs \cup {Nobody} /\ {} \in SUBSET Insts
  BY <1>b DEF Threads
<1>f. /\ \A y : Stacked(y)' <=> Stacked(y) \/ y = x
      /\ StackOnce'
      /\ unwind' \in [Threads -> Seq([ctx : Ctxs \cup {Nobody}, unlock : SUBSET Insts])]
  BY <1>a, <1>b, <1>e, PushStacked DEF IInv
<1>g. \A y : Held(y)' <=> Held(y)
  BY <1>a DEF Held
<1> HIDE DEF x, c
<1>1. TypeOK'
  BY <1>a, <1>b, <1>c, <1>e, <1>f DEF IInv, TypeOK, pool
<1>2. PoolInv' /\ HeldInv'
  BY <1>a DEF IInv, PoolInv, HeldInv, pool
<1>3. RingInv'
  <2>1. ASSUME NEW y \in Ctxs, Requested(y)' PROVE Awaited(y)'
    <3>1. Requested(y) /\ Awaited(y) /\ ctx[y].co # c
      BY <1>b, <1>d, <2>1 DEF IInv, RingInv
    <3> QED
      BY <1>a, <3>1 DEF IInv, TypeOK, Awaited, pool
  <2> QED
    BY <1>a, <1>b, <2>1 DEF RingInv, pool
<1>4. UniqueInv'
  BY <1>a, <1>b DEF IInv, UniqueInv, pool
<1>5. StackInv'
  BY <1>a, <1>b, <1>f, <1>g DEF IInv, StackInv, Awaited, pool
<1>6. KeptInv'
  BY <1>a, <1>b, <1>f, <1>g DEF IInv, KeptInv, pool
<1>7. WaitInv'
  <2> SUFFICES ASSUME running, NEW d \in Coros, pc'[d] = "wait"
               PROVE  \E y \in Ctxs : Requested(y)' /\ ctx'[y].co = d
    BY <1>a DEF WaitInv
  <2>1. pc[d] = "wait" /\ d # c
    BY <1>a, <1>c DEF IInv, TypeOK
  <2> QED
    BY <1>a, <1>b, <2>1 DEF IInv, WaitInv, pool, c
<1>8. UsesInv'
  BY <1>a, <1>c DEF IInv, TypeOK, UsesInv
<1> QED
  BY <1>1, <1>2, <1>3, <1>4, <1>5, <1>6, <1>7, <1>8, <1>f DEF IInv

LEMMA SkipStep ==
  ASSUME IInv, NEW i \in Insts, Skip(i)
  PROVE  IInv'
<1> DEFINE x == Head(cq[i])
<1>a. /\ cq[i] # <<>> /\ ~running /\ Release(x)
      /\ cq' = [cq EXCEPT ![i] = Tail(@)]
      /\ UNCHANGED <<running, loop, sq, flight, mutex, ready, coro, unwind, spc>>
  BY DEF Skip, Dropping
<1>b. /\ x \in Ctxs /\ Requested(x) /\ Awaited(x) /\ ~Stacked(x) /\ ~Held(x)
      /\ cq' \in [Insts -> Seq(Ctxs)]
      /\ \A y : Requested(y)' <=> Requested(y) /\ y # x
      /\ \A j \in Insts : \A y \in Range(sq'[j]) \cup Range(cq'[j]) :
           y # x /\ y \in Ctxs /\ Inst(ctx[y].fd) = j /\ y \notin flight'
      /\ \A j \in Insts : /\ Range(sq'[j]) \cap Range(cq'[j]) = {}
                          /\ IsInjective(sq'[j]) /\ IsInjective(cq'[j])
  BY <1>a, ReapFacts
<1> HIDE DEF x
<1>c. /\ PoolInv' /\ all' = all
      /\ free' \in [Insts -> Seq(Ctxs)]
      /\ ctx' \in [Ctxs -> [fd : Fds, co : Coros \cup {Nobody}]]
      /\ \A y \in Ctxs \ {x} : ctx'[y] = ctx[y]
      /\ ctx'[x].co = Nobody
      /\ \A j \in Insts : \A y \in Range(free[j]) : y \in Range(free'[j])
      /\ \A j \in Insts : x \in all[j] => x \in Range(free'[j])
  BY <1>a, <1>b, ReleasePool DEF IInv, Awaited
<1>d. \A y : (Stacked(y)' <=> Stacked(y)) /\ (Held(y)' <=> Held(y))
  BY <1>a DEF Stacked, Held, coro
<1>1. TypeOK'
  BY <1>a, <1>b, <1>c DEF IInv, TypeOK, coro
<1>2. HeldInv'
  BY <1>a, <1>b, <1>c DEF IInv, HeldInv, Held, coro
<1>3. RingInv'
  <2>1. ASSUME NEW y \in Ctxs, Requested(y)' PROVE Awaited(y)'
    <3>1. Requested(y) /\ Awaited(y) /\ ctx'[y] = ctx[y]
      BY <1>b, <1>c, <2>1 DEF IInv, RingInv
    <3> QED
      BY <1>a, <3>1 DEF Awaited, coro
  <2> QED
    BY <1>b, <1>c, <2>1 DEF RingInv
<1>4. UniqueInv'
  BY <1>b, <1>c DEF IInv, UniqueInv
<1>5. StackInv'
  BY <1>b, <1>c, <1>d DEF IInv, StackInv
<1>6. KeptInv'
  BY <1>b, <1>c, <1>d DEF IInv, TypeOK, KeptInv
<1>7. WaitInv' /\ UsesInv' /\ StackOnce'
  BY <1>a DEF IInv, WaitInv, UsesInv, StackOnce, coro
<1> QED
  BY <1>1, <1>2, <1>3, <1>4, <1>5, <1>6, <1>7, <1>c DEF IInv
-----------------------------------------------------------------------------
(* Every step.                                                             *)
LEMMA LoopStep ==
  ASSUME IInv, NEW i \in Insts, Loop(i)
  PROVE  IInv'
<1>1. CASE Enter(i) \/ WaitCqe(i) \/ Advance(i) \/ LoopExit(i)
  <2>1. TypeOK'
    BY <1>1 DEF IInv, TypeOK, Enter, WaitCqe, Advance, LoopExit, ring, pool, coro
  <2> QED
    BY <1>1, <2>1, FrameStep DEF Enter, WaitCqe, Advance, LoopExit
<1> QED
  BY <1>1, DispatchStep, SkipStep DEF Loop

LEMMA OtherSteps ==
  ASSUME IInv
  PROVE  /\ \A s \in Stoppers : StopCall(s) \/ StopReturn(s) => IInv'
         /\ \A fd \in Fds : Arrive(fd) => IInv'
         /\ UNCHANGED vars => IInv'
<1>1. ASSUME NEW s \in Stoppers, StopCall(s) \/ StopReturn(s) PROVE IInv'
  <2>1. TypeOK'
    BY <1>1 DEF IInv, TypeOK, StopCall, StopReturn, ring, pool, coro
  <2> QED
    BY <1>1, <2>1, FrameStep DEF StopCall, StopReturn
<1>2. ASSUME NEW fd \in Fds, Arrive(fd) PROVE IInv'
  <2>1. TypeOK'
    BY <1>2 DEF IInv, TypeOK, Arrive, ring, pool, coro
  <2> QED
    BY <1>2, <2>1, FrameStep DEF Arrive
<1>3. ASSUME UNCHANGED vars PROVE IInv'
  <2>1. TypeOK'
    BY <1>3 DEF IInv, TypeOK, vars, ring, pool, coro
  <2> QED
    BY <1>3, <2>1, FrameStep DEF vars
<1> QED
  BY <1>1, <1>2, <1>3

LEMMA NextIInv == IInv /\ [Next]_vars => IInv'
<1> SUFFICES ASSUME IInv, [Next]_vars PROVE IInv'
  OBVIOUS
<1>1. ASSUME NEW c \in Coros, AsyncIo(c) \/ User(c) PROVE IInv'
  <2>1. CASE AsyncIo(c)
    BY <2>1, AcquireStep, LockStep, SubmitStep, FullStep DEF AsyncIo
  <2>2. CASE User(c)
    <3>1. Uses[c] \subseteq Fds
      BY UringAssumption
    <3> QED
      BY <2>2, <3>1, AwaitStep, EndStep, CloseStep DEF User, Suspend
  <2> QED
    BY <1>1, <2>1, <2>2
<1>2. ASSUME NEW t \in Threads, Return(t) PROVE IInv'
  BY <1>2, ReturnStep
<1>3. ASSUME Kernel PROVE IInv'
  BY <1>3, FetchStep, CompleteStep DEF Kernel
<1>4. ASSUME NEW i \in Insts, Loop(i) PROVE IInv'
  BY <1>4, LoopStep
<1> QED
  BY <1>1, <1>2, <1>3, <1>4, OtherSteps DEF Next

THEOREM Invariance == Spec => []IInv
BY InitIInv, NextIInv, PTL DEF Spec

\* Every variable keeps its type, a submission queue never holds more than its
\* size, and a call holds a context exactly between acquire_ctx() and the
\* submission.
THEOREM TypeCorrect == Spec => []TypeOK
<1>1. IInv => TypeOK
  BY DEF IInv
<1> QED
  BY Invariance, <1>1, PTL
-----------------------------------------------------------------------------
(* The places of a context.                                                *)

SqAt(x, p) == \E i \in Insts : \E k \in DOMAIN sq[i] : p = <<"sq", i, k>> /\ sq[i][k] = x
CqAt(x, p) == \E i \in Insts : \E k \in DOMAIN cq[i] : p = <<"cq", i, k>> /\ cq[i][k] = x
FreeAt(x, p) ==
    \E i \in Insts : \E k \in DOMAIN free[i] : p = <<"free", i, k>> /\ free[i][k] = x
StackAt(x, p) ==
    \E t \in Threads : \E k \in DOMAIN unwind[t] :
        p = <<"stack", t, k>> /\ unwind[t][k].ctx = x
HeldAt(x, p) == \E c \in Coros : p = <<"held", c>> /\ held[c] = x
FlightAt(x, p) == x \in flight /\ p = <<"flight">>

LEMMA PlaceKinds ==
  ASSUME NEW x, NEW p
  PROVE  p \in Places(x) <=>
           \/ HeldAt(x, p) \/ FlightAt(x, p) \/ SqAt(x, p) \/ CqAt(x, p)
           \/ FreeAt(x, p) \/ StackAt(x, p)
BY DEF Places, HeldAt, FlightAt, SqAt, CqAt, FreeAt, StackAt

\* What each kind of place says about the context.
LEMMA PlaceFacts ==
  ASSUME IInv, NEW x \in Ctxs, NEW p
  PROVE  /\ HeldAt(x, p) => p = <<"held", ctx[x].co>> /\ ctx[x].co \in Coros /\ Held(x)
         /\ FlightAt(x, p) => Requested(x) /\ x \in flight
         /\ SqAt(x, p) => /\ Requested(x) /\ x \notin flight
                          /\ x \in Range(sq[Inst(ctx[x].fd)])
         /\ CqAt(x, p) => /\ Requested(x) /\ x \notin flight
                          /\ x \in Range(cq[Inst(ctx[x].fd)])
                          /\ x \notin Range(sq[Inst(ctx[x].fd)])
         /\ FreeAt(x, p) => ctx[x].co = Nobody
         /\ StackAt(x, p) => Stacked(x)
<1>1. HeldAt(x, p) => p = <<"held", ctx[x].co>> /\ ctx[x].co \in Coros /\ Held(x)
  BY DEF HeldAt, IInv, HeldInv, Held
<1>2. FlightAt(x, p) => Requested(x) /\ x \in flight
  BY RequestedIs DEF FlightAt
<1>3. SqAt(x, p) => /\ Requested(x) /\ x \notin flight
                    /\ x \in Range(sq[Inst(ctx[x].fd)])
  <2>1. SqAt(x, p) => \E i \in Insts : x \in Range(sq[i])
    BY DEF SqAt, Range
  <2> QED
    BY <2>1, RequestedIs DEF IInv, RingInv
<1>4. CqAt(x, p) => /\ Requested(x) /\ x \notin flight
                    /\ x \in Range(cq[Inst(ctx[x].fd)])
                    /\ x \notin Range(sq[Inst(ctx[x].fd)])
  <2>1. CqAt(x, p) => \E i \in Insts : x \in Range(cq[i])
    BY DEF CqAt, Range
  <2> QED
    BY <2>1, RequestedIs DEF IInv, RingInv
<1>5. FreeAt(x, p) => ctx[x].co = Nobody
  BY DEF FreeAt, IInv, PoolInv, Range
<1>6. StackAt(x, p) => Stacked(x)
  BY DEF StackAt, Stacked
<1> QED
  BY <1>1, <1>2, <1>3, <1>4, <1>5, <1>6

\* Two places of one kind are the same.
LEMMA PlaceOnce ==
  ASSUME IInv, NEW x \in Ctxs, NEW p, NEW q
  PROVE  /\ SqAt(x, p) /\ SqAt(x, q) => p = q
         /\ CqAt(x, p) /\ CqAt(x, q) => p = q
         /\ FreeAt(x, p) /\ FreeAt(x, q) => p = q
         /\ StackAt(x, p) /\ StackAt(x, q) => p = q
<1>1. ASSUME SqAt(x, p), SqAt(x, q) PROVE p = q
  <2>1. PICK i \in Insts : \E k \in DOMAIN sq[i] :
         p = <<"sq", i, k>> /\ sq[i][k] = x
    BY <1>1 DEF SqAt
  <2>2. PICK j \in Insts : \E l \in DOMAIN sq[j] :
         q = <<"sq", j, l>> /\ sq[j][l] = x
    BY <1>1 DEF SqAt
  <2>3. i = j
    BY <2>1, <2>2 DEF IInv, RingInv, Range
  <2> QED
    BY <2>1, <2>2, <2>3 DEF IInv, RingInv, IsInjective
<1>2. ASSUME CqAt(x, p), CqAt(x, q) PROVE p = q
  <2>1. PICK i \in Insts : \E k \in DOMAIN cq[i] :
         p = <<"cq", i, k>> /\ cq[i][k] = x
    BY <1>2 DEF CqAt
  <2>2. PICK j \in Insts : \E l \in DOMAIN cq[j] :
         q = <<"cq", j, l>> /\ cq[j][l] = x
    BY <1>2 DEF CqAt
  <2>3. i = j
    BY <2>1, <2>2 DEF IInv, RingInv, Range
  <2> QED
    BY <2>1, <2>2, <2>3 DEF IInv, RingInv, IsInjective
<1>3. ASSUME FreeAt(x, p), FreeAt(x, q) PROVE p = q
  <2>1. PICK i \in Insts : \E k \in DOMAIN free[i] :
         p = <<"free", i, k>> /\ free[i][k] = x
    BY <1>3 DEF FreeAt
  <2>2. PICK j \in Insts : \E l \in DOMAIN free[j] :
         q = <<"free", j, l>> /\ free[j][l] = x
    BY <1>3 DEF FreeAt
  <2>3. i = j
    BY <2>1, <2>2 DEF IInv, PoolInv, Range
  <2> QED
    BY <2>1, <2>2, <2>3 DEF IInv, PoolInv, IsInjective
<1>4. ASSUME StackAt(x, p), StackAt(x, q) PROVE p = q
  BY <1>4, Reserved DEF IInv, StackOnce, StackAt
<1> QED
  BY <1>1, <1>2, <1>3, <1>4

\* No context is ever in two hands, however deep the callbacks of a full queue
\* nest, and none goes back to a pool twice or to that of another instance.
THEOREM ContextsExclusive == Spec => []NoDoubleUse
<1>1. ASSUME IInv PROVE NoDoubleUse
  <2>1. ASSUME NEW x \in Ctxs, NEW p \in Places(x), NEW q \in Places(x)
        PROVE  p = q
    <3>1. ASSUME NEW r \in Places(x)
          PROVE  /\ Stacked(x) => StackAt(x, r)
                 /\ ctx[x].co = Nobody => FreeAt(x, r)
                 /\ Held(x) => HeldAt(x, r)
                 /\ x \in flight => FlightAt(x, r)
                 /\ Requested(x) /\ x \notin flight => SqAt(x, r) \/ CqAt(x, r)
                 /\ \/ Stacked(x) \/ ctx[x].co = Nobody \/ Held(x) \/ Requested(x)
      <4>1. Stacked(x) => ctx[x].co # Nobody /\ ~Requested(x) /\ ~Held(x)
        BY <1>1, Reserved DEF IInv, StackInv
      <4>2. Requested(x) => ctx[x].co # Nobody /\ ~Held(x)
        BY <1>1, RequestedLeft, Reserved DEF IInv, RingInv, Awaited
      <4>3. Held(x) => ctx[x].co # Nobody
        BY <1>1, Reserved DEF IInv, HeldInv, Held
      <4>4. x \in flight => Requested(x)
        BY RequestedIs
      <4> QED
        BY <1>1, <4>1, <4>2, <4>3, <4>4, PlaceKinds, PlaceFacts
    <3>2. Held(x) => p = q
      BY <1>1, <3>1, PlaceFacts
    <3>3. x \in flight => p = q
      BY <3>1 DEF FlightAt
    <3>4. Requested(x) /\ x \notin flight => p = q
      BY <1>1, <3>1, PlaceFacts, PlaceOnce
    <3> QED
      BY <1>1, <3>1, <3>2, <3>3, <3>4, PlaceOnce
  <2>2. \A i \in Insts : \A k \in DOMAIN free[i] : free[i][k] \in all[i]
    BY <1>1 DEF IInv, PoolInv, Range
  <2> QED
    BY <2>1, <2>2 DEF NoDoubleUse
<1> QED
  BY Invariance, <1>1, PTL

\* No context is lost, on the path of a full queue and during shutdown too.
THEOREM NothingLeaks == Spec => []NoLeak
<1>1. ASSUME IInv PROVE NoLeak
  <2> SUFFICES ASSUME NEW i \in Insts, NEW x \in all[i]
               PROVE  \E p : p \in Places(x)
    BY DEF NoLeak
  <2>1. x \in Range(free[i]) => \E p : FreeAt(x, p)
    BY DEF FreeAt, Range
  <2>2. Held(x) => \E p : HeldAt(x, p)
    BY DEF HeldAt, Held
  <2>3. Requested(x) => \E p : FlightAt(x, p) \/ SqAt(x, p) \/ CqAt(x, p)
    BY RequestedIs DEF FlightAt, SqAt, CqAt, Range
  <2>4. Stacked(x) => \E p : StackAt(x, p)
    BY DEF StackAt, Stacked
  <2> QED
    BY <1>1, <2>1, <2>2, <2>3, <2>4, PlaceKinds DEF IInv, KeptInv
<1> QED
  BY Invariance, <1>1, PTL

\* Whoever shares a descriptor, a suspended coroutine has one request under
\* way until stop(), about the operation it waits for, and a coroutine that is
\* not suspended has none.
THEOREM RequestedOnce == Spec => []OneRequest
<1>1. ASSUME IInv PROVE OneRequest
  BY <1>1 DEF IInv, RingInv, UniqueInv, WaitInv, Awaited, OneRequest
<1> QED
  BY Invariance, <1>1, PTL
-----------------------------------------------------------------------------
(* The mutexes of the submission queues.                                   *)

LEMMA MutexFrame ==
  ASSUME MutexInv, UNCHANGED <<mutex, unwind>>,
         \A c \in Coros : \A i \in Insts : Submits(c, i)' <=> Submits(c, i),
         \A c \in Coros : pc[c] = "sqe" => host'[c] = host[c]
  PROVE  MutexInv'
<1>1. \A t, k, i : Unlocks(t, k, i)' <=> Unlocks(t, k, i)
  BY DEF Unlocks
<1>2. \A c \in Coros : \A i \in Insts : Submits(c, i) => host'[c] = host[c]
  BY DEF Submits
<1> QED
  BY <1>1, <1>2 DEF MutexInv

LEMMA PushUnlocks ==
  ASSUME TypeOK, NEW t \in Threads, NEW x \in Ctxs \cup {Nobody},
         NEW locks \in SUBSET Insts, Later(t, x, locks)
  PROVE  \A u \in Threads : \A k, i :
           Unlocks(u, k, i)' <=>
             Unlocks(u, k, i) \/ (u = t /\ k = Len(unwind[t]) + 1 /\ i \in locks)
<1> DEFINE n == Len(unwind[t]) + 1
<1>1. /\ \A u \in Threads : \A k : k \in DOMAIN unwind'[u] <=>
           k \in DOMAIN unwind[u] \/ (u = t /\ k = n)
      /\ \A u \in Threads : \A k \in DOMAIN unwind[u] : unwind'[u][k] = unwind[u][k]
      /\ unwind'[t][n].unlock = locks
      /\ n \notin DOMAIN unwind[t]
  BY PushStack
<1> HIDE DEF n
<1>2. \A u \in Threads : \A k, i :
        Unlocks(u, k, i)' <=> Unlocks(u, k, i) \/ (u = t /\ k = n /\ i \in locks)
  BY <1>1 DEF Unlocks
<1> QED
  BY <1>2 DEF n

LEMMA LockMutex ==
  ASSUME IInv, MutexInv, NEW c \in Coros, Lock(c)
  PROVE  MutexInv'
<1> DEFINE i == Inst(at[c])
<1>1. /\ i \in Insts /\ pc[c] = "lock" /\ mutex[i] = Nobody
      /\ mutex' = [mutex EXCEPT ![i] = host[c]]
      /\ pc' = [pc EXCEPT ![c] = "sqe"]
      /\ UNCHANGED <<at, host, unwind>> /\ host[c] \in Threads
  BY InstType DEF IInv, TypeOK, Lock, Unlocked, Goto
<1>2. /\ \A d \in Coros : ~Submits(d, i)
      /\ \A t \in Threads : \A k \in DOMAIN unwind[t] : ~Unlocks(t, k, i)
  BY <1>1, Reserved DEF IInv, TypeOK, MutexInv
<1>3. \A d \in Coros : \A j \in Insts :
        Submits(d, j)' <=> Submits(d, j) \/ (d = c /\ j = i)
  BY <1>1 DEF IInv, TypeOK, Submits
<1>4. \A t, k, j : Unlocks(t, k, j)' <=> Unlocks(t, k, j)
  BY <1>1 DEF Unlocks
<1>5. mutex'[i] = host[c] /\ \A j \in Insts : j # i => mutex'[j] = mutex[j]
  BY <1>1 DEF IInv, TypeOK
<1> HIDE DEF i
<1> QED
  BY <1>1, <1>2, <1>3, <1>4, <1>5 DEF MutexInv

\* The call that submits leaves the queue to the frame that will unlock.
LEMMA SubmitMutex ==
  ASSUME IInv, MutexInv, NEW c \in Coros, Submit(c) \/ Full(c)
  PROVE  MutexInv'
<1> DEFINE i == Inst(at[c])
           t == host[c]
           n == Len(unwind[t]) + 1
<1>1. /\ i \in Insts /\ pc[c] = "sqe" /\ t \in Threads
      /\ pc' \in {[pc EXCEPT ![c] = "wait"], [pc EXCEPT ![c] = "user"]}
      /\ \E x \in Ctxs \cup {Nobody} : Later(t, x, {i})
      /\ host' = host /\ UNCHANGED <<at, mutex>>
  BY InstType DEF IInv, TypeOK, Submit, Full, CleanUp, Resume, Goto
<1>2. \A u \in Threads : \A k, j :
        Unlocks(u, k, j)' <=> Unlocks(u, k, j) \/ (u = t /\ k = n /\ j = i)
  <2>1. PICK x \in Ctxs \cup {Nobody} : Later(t, x, {i})
    BY <1>1
  <2>2. \A u \in Threads : \A k, j :
          Unlocks(u, k, j)' <=> Unlocks(u, k, j) \/ (u = t /\ k = n /\ j \in {i})
    BY <1>1, <2>1, PushUnlocks DEF IInv
  <2> QED
    BY <2>2
<1>3. \A d \in Coros : \A j \in Insts : Submits(d, j)' <=> Submits(d, j) /\ d # c
  BY <1>1 DEF IInv, TypeOK, Submits
<1>4. Submits(c, i) /\ \A j : Submits(c, j) => j = i
  BY <1>1 DEF Submits
<1>5. /\ mutex[i] = t
      /\ \A d \in Coros : Submits(d, i) => d = c
      /\ \A u \in Threads : \A k \in DOMAIN unwind[u] : ~Unlocks(u, k, i)
  BY <1>1, <1>4 DEF MutexInv
<1> HIDE DEF i, t, n
<1>6. \A u \in Threads : \A k : ~Unlocks(u, k, i)
  BY <1>5 DEF Unlocks
<1>8. \A u \in Threads : \A k, j : Unlocks(u, k, j) => k \in DOMAIN unwind[u]
  BY DEF Unlocks
<1>a. \A u \in Threads : \A k, j : Unlocks(u, k, j)' => k \in DOMAIN unwind'[u]
  BY DEF Unlocks
<1>7. n \in DOMAIN unwind'[t]
  BY <1>1, <1>2, <1>a
<1> SUFFICES ASSUME NEW j \in Insts
             PROVE
        /\ \A d \in Coros : Submits(d, j)' => mutex[j] = host[d]
        /\ \A u \in Threads : \A k \in DOMAIN unwind'[u] : Unlocks(u, k, j)' => mutex[j] = u
        /\ \A d, e \in Coros : Submits(d, j)' /\ Submits(e, j)' => d = e
        /\ \A d \in Coros : \A u \in Threads : \A k \in DOMAIN unwind'[u] :
            ~(Submits(d, j)' /\ Unlocks(u, k, j)')
        /\ \A u, v \in Threads : \A k \in DOMAIN unwind'[u], l \in DOMAIN unwind'[v] :
            Unlocks(u, k, j)' /\ Unlocks(v, l, j)' => u = v /\ k = l
        /\ mutex[j] # Nobody =>
            \/ \E d \in Coros : Submits(d, j)'
            \/ \E u \in Threads : \E k \in DOMAIN unwind'[u] : Unlocks(u, k, j)'
  BY <1>1 DEF MutexInv
<1>b. CASE j = i
  BY <1>1, <1>2, <1>3, <1>5, <1>6, <1>7, <1>b
<1>c. CASE j # i
  <2>1. \A d \in Coros : Submits(d, j)' <=> Submits(d, j)
    BY <1>3, <1>4, <1>c
  <2>2. \A u \in Threads : \A k : Unlocks(u, k, j)' <=> Unlocks(u, k, j)
    BY <1>2, <1>c
  <2> QED
    BY <2>1, <2>2, <1>8, <1>a DEF MutexInv
<1> QED
  BY <1>b, <1>c

LEMMA ReturnMutex ==
  ASSUME IInv, MutexInv, NEW t \in Threads, Return(t)
  PROVE  MutexInv'
<1> DEFINE n == Len(unwind[t])
           L == unwind[t][n].unlock
<1>1. /\ unwind[t] # <<>>
      /\ unwind' = [unwind EXCEPT ![t] = SubSeq(@, 1, Len(@) - 1)]
      /\ mutex' = [i \in Insts |-> IF i \in L THEN Nobody ELSE mutex[i]]
      /\ UNCHANGED coro
  BY DEF Return
<1>2. /\ n \in DOMAIN unwind[t]
      /\ \A u \in Threads : \A k : k \in DOMAIN unwind'[u] <=>
           k \in DOMAIN unwind[u] /\ ~(u = t /\ k = n)
      /\ \A u \in Threads : \A k \in DOMAIN unwind'[u] : unwind'[u][k] = unwind[u][k]
  BY <1>1, PopStack DEF IInv
<1>3. \A u \in Threads : \A k, i :
        Unlocks(u, k, i)' <=> Unlocks(u, k, i) /\ ~(u = t /\ k = n)
  BY <1>2 DEF Unlocks
<1>4. \A c, i : Submits(c, i)' <=> Submits(c, i)
  BY <1>1 DEF Submits, coro
<1>5. \A i \in L : Unlocks(t, n, i)
  BY <1>2 DEF Unlocks
<1>6. \A i : Unlocks(t, n, i) => i \in L
  BY DEF Unlocks
<1> HIDE DEF n, L
<1>7. \A u \in Threads : \A k, i : Unlocks(u, k, i) => k \in DOMAIN unwind[u]
  BY DEF Unlocks
<1> SUFFICES ASSUME NEW i \in Insts
             PROVE
        /\ \A c \in Coros : Submits(c, i) => mutex'[i] = host[c]
        /\ \A u \in Threads : \A k \in DOMAIN unwind'[u] : Unlocks(u, k, i)' => mutex'[i] = u
        /\ \A c, d \in Coros : Submits(c, i) /\ Submits(d, i) => c = d
        /\ \A c \in Coros : \A u \in Threads : \A k \in DOMAIN unwind'[u] :
            ~(Submits(c, i) /\ Unlocks(u, k, i)')
        /\ \A u, v \in Threads : \A k \in DOMAIN unwind'[u], l \in DOMAIN unwind'[v] :
            Unlocks(u, k, i)' /\ Unlocks(v, l, i)' => u = v /\ k = l
        /\ mutex'[i] # Nobody =>
            \/ \E c \in Coros : Submits(c, i)
            \/ \E u \in Threads : \E k \in DOMAIN unwind'[u] : Unlocks(u, k, i)'
  BY <1>1, <1>4 DEF MutexInv, coro
<1>8. CASE i \in L
  <2>1. /\ Unlocks(t, n, i) /\ mutex'[i] = Nobody
    BY <1>1, <1>5, <1>8
  <2>2. \A c \in Coros : ~Submits(c, i)
    BY <1>2, <2>1 DEF MutexInv
  <2>3. \A u \in Threads : \A k : Unlocks(u, k, i) => u = t /\ k = n
    BY <1>2, <1>7, <2>1 DEF MutexInv
  <2> QED
    BY <1>3, <2>1, <2>2, <2>3
<1>9. CASE i \notin L
  <2>1. mutex'[i] = mutex[i] /\ ~Unlocks(t, n, i)
    BY <1>1, <1>6, <1>9
  <2>2. \A u \in Threads : \A k : Unlocks(u, k, i)' <=> Unlocks(u, k, i)
    BY <1>3, <2>1
  <2>3. \A u \in Threads : \A k : Unlocks(u, k, i)' => k \in DOMAIN unwind'[u]
    BY DEF Unlocks
  <2> QED
    BY <1>7, <2>1, <2>2, <2>3 DEF MutexInv
<1> QED
  BY <1>8, <1>9

LEMMA DispatchMutex ==
  ASSUME IInv, MutexInv, NEW i \in Insts, Dispatch(i)
  PROVE  MutexInv'
<1> DEFINE x == Head(cq[i])
           c == ctx[x].co
<1>1. /\ cq[i] # <<>> /\ cq' = [cq EXCEPT ![i] = Tail(@)]
      /\ Later(i, x, {})
      /\ pc' = [pc EXCEPT ![c] = "user"] /\ host' = [host EXCEPT ![c] = i]
      /\ UNCHANGED <<sq, flight, mutex, at>>
  BY DEF Dispatch, Resume, Goto
<1>2. x \in Ctxs /\ Awaited(x)
  BY <1>1, ReapFacts
<1>3. c \in Coros /\ pc[c] = "wait" /\ i \in Threads
  BY <1>2 DEF Awaited, Threads
<1>4. \A u \in Threads : \A k, j : Unlocks(u, k, j)' <=> Unlocks(u, k, j)
  <2>1. x \in Ctxs \cup {Nobody} /\ {} \in SUBSET Insts
    BY <1>2
  <2> QED
    BY <1>1, <1>3, <2>1, PushUnlocks DEF IInv
<1> HIDE DEF c, x
<1>5. \A d \in Coros : \A j \in Insts : Submits(d, j)' <=> Submits(d, j)
  BY <1>1, <1>3 DEF IInv, TypeOK, Submits
<1>6. \A d \in Coros : \A j \in Insts : Submits(d, j) => host'[d] = host[d]
  BY <1>1, <1>3 DEF IInv, TypeOK, Submits
<1>7. /\ \A t \in Threads : \A k, j : Unlocks(t, k, j) => k \in DOMAIN unwind[t]
      /\ \A t \in Threads : \A k, j : Unlocks(t, k, j)' => k \in DOMAIN unwind'[t]
  BY DEF Unlocks
<1> QED
  BY <1>1, <1>4, <1>5, <1>6, <1>7 DEF MutexInv

LEMMA NextMutexInv == IInv /\ MutexInv /\ [Next]_vars => MutexInv'
<1> SUFFICES ASSUME IInv, MutexInv, [Next]_vars PROVE MutexInv'
  OBVIOUS
<1>1. ASSUME NEW c \in Coros, AsyncIo(c) \/ User(c) PROVE MutexInv'
  <2>1. CASE Acquire(c)
    BY <2>1, MutexFrame DEF IInv, TypeOK, Acquire, Goto, Submits
  <2>2. CASE End(c)
    BY <2>2, MutexFrame DEF IInv, TypeOK, End, Goto, Submits
  <2>3. ASSUME NEW fd \in Uses[c], Await(c, fd) PROVE MutexInv'
    BY <2>3, MutexFrame DEF IInv, TypeOK, Await, Goto, Submits
  <2>4. ASSUME NEW fd \in Uses[c], Close(c, fd) PROVE MutexInv'
    BY <2>4, MutexFrame DEF Close, Submits, coro
  <2> QED
    BY <1>1, <2>1, <2>2, <2>3, <2>4, LockMutex, SubmitMutex DEF AsyncIo, User, Suspend
<1>2. ASSUME NEW t \in Threads, Return(t) PROVE MutexInv'
  BY <1>2, ReturnMutex
<1>3. ASSUME Kernel PROVE MutexInv'
  BY <1>3, MutexFrame DEF Kernel, Fetch, Complete, Submits, coro
<1>4. ASSUME NEW i \in Insts, Loop(i) PROVE MutexInv'
  <2>1. CASE Enter(i) \/ WaitCqe(i) \/ Skip(i) \/ Advance(i) \/ LoopExit(i)
    BY <2>1, MutexFrame DEF Enter, WaitCqe, Skip, Advance, LoopExit, Submits, coro
  <2> QED
    BY <1>4, <2>1, DispatchMutex DEF Loop
<1>5. ASSUME NEW s \in Stoppers, StopCall(s) \/ StopReturn(s) PROVE MutexInv'
  BY <1>5, MutexFrame DEF StopCall, StopReturn, Submits, coro
<1>6. ASSUME NEW fd \in Fds, Arrive(fd) PROVE MutexInv'
  BY <1>6, MutexFrame DEF Arrive, Submits, coro
<1>7. CASE UNCHANGED vars
  BY <1>7, MutexFrame DEF vars, Submits, coro
<1> QED
  BY <1>1, <1>2, <1>3, <1>4, <1>5, <1>6, <1>7 DEF Next

\* Between io_uring_get_sqe() and the unlock there is one call per ring, also
\* after its coroutine went on elsewhere; the mutex is taken exactly as long.
THEOREM SubmissionExclusive == Spec => []SubmitsAlone
<1>1. ASSUME IInv, MutexInv PROVE SubmitsAlone
  <2> SUFFICES ASSUME NEW i \in Insts
               PROVE  /\ \A p, q \in Submitting(i) : p = q
                      /\ mutex[i] = Nobody <=> Submitting(i) = {}
    BY DEF SubmitsAlone
  <2>1. \A p : p \in Submitting(i) <=>
          \/ \E c \in Coros : p = <<"sqe", c>> /\ Submits(c, i)
          \/ \E t \in Threads : \E k \in DOMAIN unwind[t] :
               p = <<"stack", t, k>> /\ Unlocks(t, k, i)
    BY DEF Submitting, Submits, Unlocks
  <2>2. \A p, q \in Submitting(i) : p = q
    BY <1>1, <2>1 DEF MutexInv
  <2>3. mutex[i] = Nobody => \A p : p \notin Submitting(i)
    <3>1. mutex[i] = Nobody => \A c \in Coros : ~Submits(c, i)
      BY <1>1, Reserved DEF MutexInv, IInv, TypeOK
    <3>2. mutex[i] = Nobody =>
            \A t \in Threads : \A k \in DOMAIN unwind[t] : ~Unlocks(t, k, i)
      BY <1>1, Reserved DEF MutexInv
    <3> QED
      BY <2>1, <3>1, <3>2
  <2>4. mutex[i] # Nobody => \E p : p \in Submitting(i)
    BY <1>1, <2>1 DEF MutexInv
  <2> QED
    BY <2>2, <2>3, <2>4
<1> QED
  BY Invariance, InitIInv, NextMutexInv, <1>1, PTL DEF Spec
-----------------------------------------------------------------------------
(* stop(), when one thread calls it.                                       *)

LEMMA NextQuietInv ==
  ASSUME \A s, r \in Stoppers : s = r,
         IInv, QuietInv, [Next]_vars
  PROVE  QuietInv'
<1> USE DEF QuietInv, Occupied, Active
<1>1. ASSUME NEW c \in Coros, AsyncIo(c) PROVE QuietInv'
  BY <1>1 DEF AsyncIo, Acquire, Lock, Submit, Full, Resume, Goto, IInv, TypeOK
<1>2. ASSUME NEW c \in Coros, User(c) PROVE QuietInv'
  BY <1>2 DEF User, Suspend, End, Await, Close, Goto, IInv, TypeOK, coro
<1>3. ASSUME NEW t \in Threads, Return(t) PROVE QuietInv'
  BY <1>3 DEF Return, coro
<1>4. ASSUME NEW i \in Insts, Loop(i) PROVE QuietInv'
  <2>1. CASE Enter(i) \/ WaitCqe(i) \/ Skip(i) \/ Advance(i)
    BY <2>1 DEF Enter, WaitCqe, Skip, Advance, AtLoop, IInv, TypeOK, coro
  <2>2. CASE LoopExit(i)
    BY <2>2 DEF LoopExit, GivesUp, AtLoop, IInv, TypeOK, coro
  <2>3. CASE Dispatch(i)
    BY <2>3 DEF Dispatch, AtLoop, Resume, Goto, IInv, TypeOK
  <2> QED
    BY <1>4, <2>1, <2>2, <2>3 DEF Loop
<1>5. ASSUME NEW s \in Stoppers, StopCall(s) PROVE QuietInv'
  BY <1>5 DEF StopCall, IInv, TypeOK, coro
<1>6. ASSUME NEW s \in Stoppers, StopReturn(s) PROVE QuietInv'
  BY <1>6 DEF StopReturn, Joined, IInv, TypeOK, coro
<1>7. ASSUME NEW fd \in Fds, Arrive(fd) PROVE QuietInv'
  BY <1>7 DEF Arrive, coro
<1>8. ASSUME Kernel PROVE QuietInv'
  BY <1>8 DEF Kernel, Fetch, Complete, coro
<1>9. CASE UNCHANGED vars
  BY <1>9 DEF vars, coro
<1> QED
  BY <1>1, <1>2, <1>3, <1>4, <1>5, <1>6, <1>7, <1>8, <1>9 DEF Next

\* As long as only one thread ever calls stop(), no event loop thread is in a
\* coroutine once it has returned.  A second caller may return while the loops
\* still run.
THEOREM QuietAfterStop ==
  ASSUME \A s, r \in Stoppers : s = r
  PROVE  Spec => []StopQuiesces
<1>1. Init => QuietInv
  BY UringAssumption DEF Init, QuietInv, Occupied, Active
<1>2. IInv /\ QuietInv /\ [Next]_vars => QuietInv'
  BY NextQuietInv
<1>3. QuietInv => StopQuiesces
  BY DEF QuietInv, StopQuiesces, Occupied
<1> QED
  BY Invariance, <1>1, <1>2, <1>3, PTL DEF Spec
=============================================================================
