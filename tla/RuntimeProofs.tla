----------------------------- MODULE RuntimeProofs -----------------------------
(***************************************************************************)
(* What Runtime guarantees for every number of jobs and threads, whatever  *)
(* throws, fails or is interrupted.  The inductive invariant is IInv: it   *)
(* follows each job from its creation to the end of its frames.            *)
(***************************************************************************)
EXTENDS Runtime, QueueLemmas, FiniteSetTheorems, SequenceTheorems, TLAPS

\* Parts of actions, opened wherever their actions are.
USE DEF Live, Runs, Alive, Active, Idle, AtEnd, InServer, InHandler, MayGo,
        RegistryFree, Goto, Exiting

\* The variable conn is a connection wherever the accept loop uses it.
SrvOK == srv.at \in {"got", "add", "push", "next"} => srv.conn \in Conns

\* What a peer has sent and will send is bounded.
Socket == [up : {"none", "backlog", "accepted"}, left : Nat, data : Nat,
           full : BOOLEAN, eof : BOOLEAN]
SockOK ==
    /\ sock \in [Conns -> Socket]
    /\ \A c \in Conns : sock[c].left + sock[c].data <= Msgs[c]

SInv == SrvOK /\ SockOK

PlaceOK ==
    /\ queue \in Seq(Frames) /\ armed \subseteq Frames /\ registry \subseteq Conns
    /\ srv \in [at : {"accept", "got", "add", "push", "next", "end"}, conn : Conns \cup {Null}]
    /\ handler \in [Conns -> {"read", "write", "leave"}]

ProcessOK ==
    /\ promise \in {"empty", "value", "exception", "broken"}
    /\ mpc \in {"start", "construct", "call", "locked", "wait", "log", "logging", "left", "thrown"}
    /\ ethread \in Threads \cup {Null}
    /\ epc \in {"none", "log", "stop", "join", "lock", "destroying", "exit", "dying",
                "closing", "draining", "exited"}
    /\ stopping \in BOOLEAN /\ born \in Seq(Statics) /\ gone \subseteq Statics
    /\ parked \in Workers \cup {Null}

TInv == CoTypeOK /\ PlaceOK /\ ProcessOK /\ SInv
-----------------------------------------------------------------------------
LEMMA TypeParts == TInv => TypeOK
<1>1. SInv => \A c \in Conns :
         sock[c] \in [up : {"none", "backlog", "accepted"}, left : 0 .. Msgs[c],
                      data : 0 .. Msgs[c], full : BOOLEAN, eof : BOOLEAN]
  <2> SUFFICES ASSUME SInv, NEW c \in Conns
               PROVE  sock[c] \in [up : {"none", "backlog", "accepted"}, left : 0 .. Msgs[c],
                                   data : 0 .. Msgs[c], full : BOOLEAN, eof : BOOLEAN]
    OBVIOUS
  <2>1. /\ sock[c] \in [up : {"none", "backlog", "accepted"}, left : Nat,
                        data : Nat, full : BOOLEAN, eof : BOOLEAN]
        /\ sock[c].left + sock[c].data <= Msgs[c] /\ Msgs[c] \in Nat
    BY RuntimeAssumption DEF SInv, SockOK, Socket
  <2> QED
    BY <2>1
<1> QED
  BY <1>1 DEF TInv, PlaceOK, ProcessOK, TypeOK

LEMMA FrameFacts ==
  /\ \A j \in Jobs : /\ Wrapper(j) \in Frames /\ Inner(j) \in Frames
                     /\ Wrapper(j) # Null /\ Inner(j) # Null
                     /\ Wrapper(j)[2] = j /\ Inner(j)[2] = j
                     /\ Owned(Wrapper(j)) = {Wrapper(j), Inner(j)}
  /\ \A j, k \in Jobs : /\ Wrapper(j) # Inner(k)
                        /\ Wrapper(j) = Wrapper(k) => j = k
                        /\ Inner(j) = Inner(k) => j = k
  /\ \A f \in Frames : \E j \in Jobs : f \in {Wrapper(j), Inner(j)}
  /\ \A f \in Frames : f # Null /\ f[2] \in Jobs
BY RuntimeAssumption DEF Wrapper, Inner, Frames, Owned

LEMMA InitTInv == Init => TInv
<1> SUFFICES ASSUME Init PROVE TInv
  OBVIOUS
<1>1. CoTypeOK
  BY DEF Init, CoInit, CoTypeOK
<1>2. \A c \in Conns : Msgs[c] \in Nat /\ 0 \in 0 .. Msgs[c] /\ Msgs[c] \in 0 .. Msgs[c]
  BY RuntimeAssumption
<1>3. SInv
  BY <1>2 DEF Init, SInv, SrvOK, SockOK, Socket
<1>4. PlaceOK
  BY DEF Init, PlaceOK
<1>5. ProcessOK
  <2>1. promise = "empty" /\ mpc = "start" /\ epc = "none"
    BY DEF Init
  <2>2. ethread \in Threads \cup {Null}
    BY DEF Init
  <2>3. stopping \in BOOLEAN
    BY DEF Init
  <2>4. gone \subseteq Statics /\ parked \in Workers \cup {Null}
    BY DEF Init
  <2>5. born \in Seq(Statics)
    BY DEF Init
  <2> QED
    BY <2>1, <2>2, <2>3, <2>4, <2>5 DEF ProcessOK
<1> QED
  BY <1>1, <1>3, <1>4, <1>5 DEF TInv
-----------------------------------------------------------------------------
(* What the operations on coroutines do to the types.                      *)

LEMMA CreateTyped ==
  ASSUME CoTypeOK, NEW j, Create(j)
  PROVE  CoTypeOK'
BY DEF CoTypeOK, Create

LEMMA ResumeTyped ==
  ASSUME CoTypeOK, NEW t, NEW f \in Frames, Resume(t, f)
  PROVE  CoTypeOK'
BY DEF CoTypeOK, Resume

LEMMA SuspendTyped ==
  ASSUME CoTypeOK, NEW t, Suspend(t)
  PROVE  CoTypeOK'
BY DEF CoTypeOK, Suspend

LEMMA AwaitTyped ==
  ASSUME CoTypeOK, NEW t, NEW f \in Frames, NEW g \in Frames, AwaitTask(t, f, g)
  PROVE  CoTypeOK'
BY DEF CoTypeOK, AwaitTask

LEMMA FinishTyped ==
  ASSUME CoTypeOK, NEW t, NEW f \in Frames, NEW threw, Finish(t, f, threw)
  PROVE  CoTypeOK'
<1>1. cont[f] \in Frames \cup {Null} /\ thrown \cup {f} \subseteq Frames
  BY DEF CoTypeOK
<1> QED
  BY <1>1 DEF CoTypeOK, Finish

LEMMA DestroyTyped ==
  ASSUME CoTypeOK, NEW f, Destroy(f)
  PROVE  CoTypeOK'
BY DEF CoTypeOK, Destroy, Destroyed

LEMMA SelfDestroyTyped ==
  ASSUME CoTypeOK, NEW t, NEW f, SelfDestroy(t, f)
  PROVE  CoTypeOK'
BY DEF CoTypeOK, SelfDestroy, Destroyed

LEMMA TouchTyped ==
  ASSUME ProcessOK, NEW x \in Statics, Touch(x)
  PROVE  born' \in Seq(Statics)
BY DEF ProcessOK, Touch, Born

\* A connection whose record changes within its bounds.
LEMMA SockMoves ==
  ASSUME SockOK, NEW c \in Conns, NEW r \in Socket, sock' = [sock EXCEPT ![c] = r],
         r.left + r.data <= sock[c].left + sock[c].data
  PROVE  SockOK'
<1>1. Msgs[c] \in Nat /\ sock[c] \in Socket
  BY RuntimeAssumption DEF SockOK
<1>2. sock' \in [Conns -> Socket]
  BY DEF SockOK
<1>3. \A d \in Conns : sock'[d] = IF d = c THEN r ELSE sock[d]
  BY DEF SockOK
<1>4. sock[c].left + sock[c].data \in Nat /\ r.left + r.data \in Nat
  BY <1>1 DEF Socket
<1>5. r.left + r.data <= Msgs[c]
  BY <1>1, <1>4 DEF SockOK
<1> QED
  BY <1>2, <1>3, <1>5 DEF SockOK

LEMMA SockAccepted ==
  ASSUME SockOK, NEW c \in Conns, sock' = [sock EXCEPT ![c].up = "accepted"]
  PROVE  SockOK'
<1> DEFINE r == [sock[c] EXCEPT !.up = "accepted"]
<1>1. r \in Socket /\ r.left = sock[c].left /\ r.data = sock[c].data
  BY DEF SockOK, Socket
<1>2. sock' = [sock EXCEPT ![c] = r] /\ sock[c].left + sock[c].data \in Nat
  BY DEF SockOK, Socket
<1> HIDE DEF r
<1>3. r.left + r.data <= sock[c].left + sock[c].data
  BY <1>1, <1>2
<1> QED
  BY <1>1, <1>2, <1>3, SockMoves

LEMMA SockReads ==
  ASSUME SockOK, NEW c \in Conns, NEW n \in Nat, n <= sock[c].data,
         sock' = [sock EXCEPT ![c].data = n]
  PROVE  SockOK'
<1> DEFINE r == [sock[c] EXCEPT !.data = n]
<1>1. r \in Socket /\ r.left = sock[c].left /\ r.data = n
  BY DEF SockOK, Socket
<1>2. /\ sock' = [sock EXCEPT ![c] = r]
      /\ sock[c].left \in Nat /\ sock[c].data \in Nat
  BY DEF SockOK, Socket
<1> HIDE DEF r
<1>3. r.left + r.data <= sock[c].left + sock[c].data
  BY <1>1, <1>2
<1> QED
  BY <1>1, <1>2, <1>3, SockMoves

LEMMA SockFills ==
  ASSUME SockOK, NEW c \in Conns, NEW full \in BOOLEAN,
         sock' = [sock EXCEPT ![c].full = full]
  PROVE  SockOK' /\ \A d \in Conns : sock'[d].up = sock[d].up
<1> DEFINE r == [sock[c] EXCEPT !.full = full]
<1>1. r \in Socket /\ r.left = sock[c].left /\ r.data = sock[c].data /\ r.up = sock[c].up
  BY DEF SockOK, Socket
<1>2. sock' = [sock EXCEPT ![c] = r] /\ sock[c].left + sock[c].data \in Nat
      /\ sock \in [Conns -> Socket]
  BY DEF SockOK, Socket
<1> HIDE DEF r
<1>3. r.left + r.data <= sock[c].left + sock[c].data
  BY <1>1, <1>2
<1> QED
  BY <1>1, <1>2, <1>3, SockMoves

\* A system call of the handler.
LEMMA OperateTyped ==
  ASSUME SockOK, handler \in [Conns -> {"read", "write", "leave"}], NEW c \in Conns, Operate(c)
  PROVE  /\ SockOK' /\ handler' \in [Conns -> {"read", "write", "leave"}]
         /\ \A d \in Conns : sock'[d].up = sock[d].up
<1>1. sock[c].data \in Nat /\ sock[c].left \in Nat /\ sock \in [Conns -> Socket]
  BY DEF SockOK, Socket
<1>2. CASE sock[c].data > 0 /\ sock' = [sock EXCEPT ![c].data = @ - 1]
  <2>1. sock' = [sock EXCEPT ![c].data = sock[c].data - 1]
    BY <1>1, <1>2
  <2>2. sock[c].data - 1 \in Nat /\ sock[c].data - 1 <= sock[c].data
    BY <1>1, <1>2
  <2>3. SockOK'
    BY <2>1, <2>2, SockReads
  <2>4. \A d \in Conns : sock'[d].up = sock[d].up
    BY <1>1, <2>1 DEF Socket
  <2> QED
    BY <2>3, <2>4 DEF Operate
<1>3. ASSUME NEW full \in BOOLEAN, sock' = [sock EXCEPT ![c].full = full]
      PROVE  SockOK' /\ \A d \in Conns : sock'[d].up = sock[d].up
  BY <1>1, <1>3, SockFills
<1>4. CASE UNCHANGED sock
  BY <1>4 DEF Operate, SockOK
<1> QED
  BY <1>2, <1>3, <1>4 DEF Operate

\* The three values of PlaceOK and the two of SInv that steps share.
LEMMA PlaceFrame ==
  ASSUME TInv, UNCHANGED <<queue, registry, srv, handler, sock>>, armed' \subseteq Frames
  PROVE  PlaceOK' /\ SInv'
BY DEF TInv, PlaceOK, SInv, SrvOK, SockOK

LEMMA ProcessFrame ==
  ASSUME TInv, UNCHANGED <<promise, mpc, ethread, epc, stopping, gone, parked>>,
         born' \in Seq(Statics)
  PROVE  ProcessOK'
BY DEF TInv, ProcessOK
-----------------------------------------------------------------------------
(* The steps by which a coroutine goes on, and those that resume one.      *)

CoroutineOf(t, j) ==
    \/ StartInner(t, j) \/ WrapperEnds(t, j) \/ WrapperGone(t, j) \/ RegistryRemove(t, j)
    \/ HandlerInline(t, j) \/ HandlerBlocks(t, j) \/ HandlerReturns(t, j)
    \/ Throw(t, j)

LEMMA CoroutineOfTInv ==
  ASSUME TInv, NEW t \in Threads, NEW j \in Jobs, CoroutineOf(t, j)
  PROVE  TInv'
<1> USE FrameFacts DEF TInv, process
<1>1. CASE StartInner(t, j)
  <2>1. CoTypeOK'
    BY <1>1, AwaitTyped DEF StartInner
  <2> QED
    BY <1>1, <2>1, PlaceFrame, ProcessFrame DEF StartInner, PlaceOK, ProcessOK
<1>2. CASE WrapperEnds(t, j)
  <2>1. CoTypeOK'
    BY <1>2 DEF WrapperEnds, CoTypeOK
  <2>2. PlaceOK' /\ SInv'
    BY <1>2, PlaceFrame DEF WrapperEnds, PlaceOK
  <2>3. promise' \in {"empty", "value", "exception", "broken"}
    BY <1>2 DEF WrapperEnds, Outcome, ProcessOK
  <2>4. ProcessOK'
    BY <1>2, <2>3 DEF WrapperEnds, ProcessOK
  <2> QED
    BY <2>1, <2>2, <2>4
<1>3. CASE WrapperGone(t, j)
  <2>1. CoTypeOK'
    BY <1>3, SelfDestroyTyped DEF WrapperGone
  <2>2. PlaceOK' /\ SInv'
    BY <1>3, PlaceFrame DEF WrapperGone, PlaceOK
  <2>3. promise' \in {"empty", "value", "exception", "broken"}
    BY <1>3 DEF WrapperGone, PromiseGone, ProcessOK
  <2>4. ProcessOK'
    BY <1>3, <2>3 DEF WrapperGone, ProcessOK
  <2> QED
    BY <2>1, <2>2, <2>4
<1>4. CASE RegistryRemove(t, j)
  <2>1. CoTypeOK'
    BY <1>4 DEF RegistryRemove, CoTypeOK
  <2>2. PlaceOK' /\ SInv'
    BY <1>4 DEF RegistryRemove, PlaceOK, SInv, SrvOK, SockOK
  <2>3. ProcessOK'
    BY <1>4, TouchTyped, ProcessFrame DEF RegistryRemove, Statics
  <2> QED
    BY <2>1, <2>2, <2>3
<1>5. CASE HandlerInline(t, j)
  <2>1. CoTypeOK'
    BY <1>5 DEF HandlerInline, CoTypeOK, co
  <2>2. SockOK' /\ handler' \in [Conns -> {"read", "write", "leave"}]
    BY <1>5, OperateTyped DEF HandlerInline, SInv, PlaceOK
  <2>5. SInv' /\ PlaceOK'
    BY <1>5, <2>2 DEF HandlerInline, PlaceOK, SInv, SrvOK
  <2> QED
    BY <1>5, <2>1, <2>5, ProcessFrame DEF HandlerInline, ProcessOK
<1>6. CASE HandlerBlocks(t, j)
  <2>1. CoTypeOK'
    BY <1>6, SuspendTyped DEF HandlerBlocks
  <2>2. PlaceOK' /\ SInv'
    BY <1>6, PlaceFrame DEF HandlerBlocks, PlaceOK
  <2>3. ProcessOK'
    BY <1>6, TouchTyped, ProcessFrame DEF HandlerBlocks, Statics
  <2> QED
    BY <2>1, <2>2, <2>3
<1>7. CASE HandlerReturns(t, j)
  <2>1. CoTypeOK'
    BY <1>7, FinishTyped DEF HandlerReturns
  <2> QED
    BY <1>7, <2>1, PlaceFrame, ProcessFrame DEF HandlerReturns, PlaceOK, ProcessOK
<1>8. CASE Throw(t, j)
  <2>1. CoTypeOK'
    BY <1>8, FinishTyped DEF Throw
  <2> QED
    BY <1>8, <2>1, PlaceFrame, ProcessFrame DEF Throw, PlaceOK, ProcessOK
<1> QED
  BY <1>1, <1>2, <1>3, <1>4, <1>5, <1>6, <1>7, <1>8 DEF CoroutineOf

LEMMA AcceptingTInv ==
  ASSUME TInv, NEW t \in Threads, Accepting(t)
  PROVE  TInv'
<1> USE FrameFacts, RuntimeAssumption DEF TInv, process
<1>1. CASE AcceptInline(t)
  <2>1. CoTypeOK'
    BY <1>1 DEF AcceptInline, CoTypeOK, co
  <2>2. PICK c \in Backlog : Accepts(c)
    BY <1>1 DEF AcceptInline
  <2>3. c \in Conns /\ srv' = [at |-> "got", conn |-> c]
        /\ sock' = [sock EXCEPT ![c].up = "accepted"]
    BY <2>2 DEF Backlog, Accepts
  <2>4. PlaceOK' /\ SInv'
    BY <1>1, <2>3, SockAccepted DEF AcceptInline, PlaceOK, SInv, SrvOK
  <2> QED
    BY <1>1, <2>1, <2>4, ProcessFrame DEF AcceptInline, ProcessOK
<1>2. CASE AcceptBlocks(t)
  <2>1. CoTypeOK'
    BY <1>2, SuspendTyped DEF AcceptBlocks
  <2>2. PlaceOK' /\ SInv'
    BY <1>2, PlaceFrame DEF AcceptBlocks, PlaceOK
  <2>3. ProcessOK'
    BY <1>2, TouchTyped, ProcessFrame DEF AcceptBlocks, Statics
  <2> QED
    BY <2>1, <2>2, <2>3
<1>3. CASE DetachCreate(t)
  <2>1. CoTypeOK'
    BY <1>3, CreateTyped DEF DetachCreate
  <2>2. PlaceOK' /\ SInv'
    BY <1>3 DEF DetachCreate, PlaceOK, SInv, SrvOK, SockOK
  <2> QED
    BY <1>3, <2>1, <2>2, ProcessFrame DEF DetachCreate, ProcessOK
<1>4. CASE RegistryAdd(t)
  <2>1. CoTypeOK'
    BY <1>4 DEF RegistryAdd, CoTypeOK, co
  <2>2. PlaceOK' /\ SInv'
    BY <1>4 DEF RegistryAdd, PlaceOK, SInv, SrvOK, SockOK
  <2>3. ProcessOK'
    BY <1>4, TouchTyped, ProcessFrame DEF RegistryAdd, Statics
  <2> QED
    BY <2>1, <2>2, <2>3
<1>5. CASE DetachPush(t)
  <2>1. CoTypeOK'
    BY <1>5 DEF DetachPush, CoTypeOK, co
  <2>2. Wrapper(srv.conn) \in Frames
    BY <1>5 DEF DetachPush, SInv, SrvOK, Conns
  <2>3. PlaceOK' /\ SInv'
    BY <1>5, <2>2 DEF DetachPush, PlaceOK, SInv, SrvOK, SockOK
  <2>4. ProcessOK'
    BY <1>5 DEF DetachPush, ProcessOK
  <2> QED
    BY <2>1, <2>3, <2>4
<1>6. CASE NextTurn(t)
  <2>1. CoTypeOK'
    BY <1>6 DEF NextTurn, CoTypeOK, co
  <2>2. PlaceOK' /\ SInv'
    BY <1>6 DEF NextTurn, PlaceOK, SInv, SrvOK, SockOK
  <2> QED
    BY <1>6, <2>1, <2>2, ProcessFrame DEF NextTurn, ProcessOK
<1>7. CASE ServerEnds(t)
  <2>1. CoTypeOK'
    BY <1>7, FinishTyped DEF ServerEnds
  <2> QED
    BY <1>7, <2>1, PlaceFrame, ProcessFrame DEF ServerEnds, PlaceOK, ProcessOK
<1> QED
  BY <1>1, <1>2, <1>3, <1>4, <1>5, <1>6, <1>7 DEF Accepting

\* The backend or the pool resumes a coroutine; a dead static object is used.
LEMMA ResumersTInv ==
  ASSUME TInv, NEW t \in Threads,
         \/ AcceptCallback(t) \/ \E c \in Conns : HandlerCallback(t, c)
         \/ RunTask(t) \/ UseOfDeadStatic(t)
  PROVE  TInv'
<1> USE FrameFacts, RuntimeAssumption DEF TInv, process
<1>1. CASE AcceptCallback(t)
  <2>1. CoTypeOK'
    BY <1>1, ResumeTyped DEF AcceptCallback
  <2>2. PlaceOK' /\ SInv'
    <3>1. ASSUME NEW c \in Backlog, Accepts(c) PROVE PlaceOK' /\ SInv'
      <4>1. c \in Conns /\ srv' = [at |-> "got", conn |-> c]
            /\ sock' = [sock EXCEPT ![c].up = "accepted"]
        BY <3>1 DEF Backlog, Accepts
      <4> QED
        BY <1>1, <4>1, SockAccepted DEF AcceptCallback, PlaceOK, SInv, SrvOK
    <3>2. CASE AcceptFails /\ UNCHANGED sock
      BY <1>1, <3>2 DEF AcceptCallback, AcceptFails, PlaceOK, SInv, SrvOK, SockOK
    <3> QED
      BY <1>1, <3>1, <3>2 DEF AcceptCallback
  <2> QED
    BY <1>1, <2>1, <2>2, ProcessFrame DEF AcceptCallback, ProcessOK
<1>2. ASSUME NEW c \in Conns, HandlerCallback(t, c) PROVE TInv'
  <2>1. CoTypeOK'
    BY <1>2, ResumeTyped DEF HandlerCallback, Conns
  <2>2. SockOK' /\ handler' \in [Conns -> {"read", "write", "leave"}]
    BY <1>2, OperateTyped DEF HandlerCallback, SInv, PlaceOK
  <2>5. PlaceOK' /\ SInv'
    BY <1>2, <2>2 DEF HandlerCallback, PlaceOK, SInv, SrvOK
  <2> QED
    BY <1>2, <2>1, <2>5, ProcessFrame DEF HandlerCallback, ProcessOK
<1>3. CASE RunTask(t)
  <2>1. Head(queue) \in Frames /\ Tail(queue) \in Seq(Frames)
    BY <1>3 DEF RunTask, PlaceOK
  <2>2. CoTypeOK'
    BY <1>3, <2>1, ResumeTyped DEF RunTask
  <2>3. PlaceOK' /\ SInv'
    BY <1>3, <2>1 DEF RunTask, PlaceOK, SInv, SrvOK, SockOK
  <2> QED
    BY <1>3, <2>2, <2>3, ProcessFrame DEF RunTask, ProcessOK
<1>4. CASE UseOfDeadStatic(t)
  <2>1. CoTypeOK'
    BY <1>4 DEF UseOfDeadStatic, CoTypeOK
  <2> QED
    BY <1>4, <2>1, PlaceFrame, ProcessFrame DEF UseOfDeadStatic, PlaceOK, ProcessOK
<1> QED
  BY <1>1, <1>2, <1>3, <1>4

LEMMA MainTInv ==
  ASSUME TInv, MainRuns \/ \E t \in SigThreads : Signal(t)
  PROVE  TInv'
<1> USE FrameFacts, RuntimeAssumption DEF TInv
<1>1. CASE SyncWait
  <2>1. CoTypeOK'
    BY <1>1, CreateTyped DEF SyncWait
  <2>2. PlaceOK' /\ SInv'
    BY <1>1, PlaceFrame DEF SyncWait, PlaceOK
  <2>3. ProcessOK'
    BY <1>1 DEF SyncWait, ProcessOK
  <2> QED
    BY <2>1, <2>2, <2>3
<1>2. CASE FirstInstance
  <2>1. CoTypeOK'
    BY <1>2 DEF FirstInstance, CoTypeOK, co
  <2>2. PlaceOK' /\ SInv'
    BY <1>2, PlaceFrame DEF FirstInstance, PlaceOK
  <2>3. born' \in Seq(Statics)
    BY <1>2, TouchTyped DEF FirstInstance, Statics
  <2>4. ProcessOK'
    BY <1>2, <2>3 DEF FirstInstance, ProcessOK
  <2> QED
    BY <2>1, <2>2, <2>4
<1>3. CASE Execute
  <2>1. CoTypeOK'
    BY <1>3 DEF Execute, CoTypeOK, co
  <2>2. queue' \in Seq(Frames)
    <3>1. queue \in Seq(Frames) /\ Wrapper(Server) \in Frames
      BY DEF PlaceOK
    <3>2. queue' = queue \/ queue' = Append(queue, Wrapper(Server))
      BY <1>3 DEF Execute
    <3> QED
      BY <3>1, <3>2
  <2>3. PlaceOK' /\ SInv'
    BY <1>3, <2>2 DEF Execute, PlaceOK, SInv, SrvOK, SockOK
  <2>4. ProcessOK'
    BY <1>3 DEF Execute, ProcessOK
  <2> QED
    BY <2>1, <2>3, <2>4
<1>4. CASE MainStep \/ MainReturns \/ \E t \in SigThreads : Signal(t)
  <2>1. CoTypeOK'
    BY <1>4 DEF MainStep, MainReturns, Signal, CoTypeOK, co
  <2>2. PlaceOK' /\ SInv'
    BY <1>4, PlaceFrame DEF MainStep, MainReturns, Signal, PlaceOK
  <2>3. ProcessOK'
    BY <1>4 DEF MainStep, MainReturns, Signal, ProcessOK
  <2> QED
    BY <2>1, <2>2, <2>3
<1> QED
  BY <1>1, <1>2, <1>3, <1>4 DEF MainRuns

LEMMA PeerTInv ==
  ASSUME TInv, NEW c \in Conns, Peer(c)
  PROVE  TInv'
<1> USE DEF TInv, process
<1>1. CoTypeOK'
  BY DEF Peer, CoTypeOK, co
<1>2. PICK r \in Socket : /\ sock' = [sock EXCEPT ![c] = r]
                          /\ r.left + r.data <= sock[c].left + sock[c].data
  <2>1. sock[c] \in Socket
    BY DEF SInv, SockOK
  <2>2. CASE sock[c].up = "none" /\ sock' = [sock EXCEPT ![c].up = "backlog"]
    <3> DEFINE r == [sock[c] EXCEPT !.up = "backlog"]
    <3>1. r \in Socket /\ r.left + r.data <= sock[c].left + sock[c].data
          /\ sock' = [sock EXCEPT ![c] = r]
      BY <2>1, <2>2 DEF Socket
    <3> HIDE DEF r
    <3> QED
      BY <3>1
  <2>3. CASE /\ sock[c].left > 0
             /\ sock' = [sock EXCEPT ![c].left = @ - 1, ![c].data = @ + 1]
    <3> DEFINE r == [sock[c] EXCEPT !.left = @ - 1, !.data = @ + 1]
    <3>1. sock[c].left \in Nat \ {0} /\ sock[c].data \in Nat
      BY <2>1, <2>3 DEF Socket
    <3>2. r \in Socket
      <4>1. sock[c].left - 1 \in Nat /\ sock[c].data + 1 \in Nat
        BY <3>1
      <4>2. \A s \in Socket, m \in Nat, n \in Nat :
              [s EXCEPT !.left = m, !.data = n] \in Socket
        BY DEF Socket
      <4> QED
        BY <2>1, <4>1, <4>2
    <3>3. r.left = sock[c].left - 1 /\ r.data = sock[c].data + 1
      BY <2>1 DEF Socket
    <3>4. sock' = [sock EXCEPT ![c] = r]
      BY <2>1, <2>3 DEF Socket, SInv, SockOK
    <3> HIDE DEF r
    <3>5. r.left + r.data <= sock[c].left + sock[c].data
      BY <3>1, <3>3
    <3> QED
      BY <3>2, <3>4, <3>5
  <2>4. CASE sock' = [sock EXCEPT ![c].eof = TRUE]
    <3> DEFINE r == [sock[c] EXCEPT !.eof = TRUE]
    <3>1. sock[c].left \in Nat /\ sock[c].data \in Nat
      BY <2>1 DEF Socket
    <3>2. r \in Socket
      BY <2>1 DEF Socket
    <3>3. r.left = sock[c].left /\ r.data = sock[c].data
      BY <2>1 DEF Socket
    <3>4. sock' = [sock EXCEPT ![c] = r]
      BY <2>1, <2>4 DEF Socket, SInv, SockOK
    <3> HIDE DEF r
    <3>5. r.left + r.data <= sock[c].left + sock[c].data
      BY <3>1, <3>3
    <3> QED
      BY <3>2, <3>4, <3>5
  <2>5. CASE sock' = [sock EXCEPT ![c].full = FALSE]
    <3> DEFINE r == [sock[c] EXCEPT !.full = FALSE]
    <3>1. sock[c].left \in Nat /\ sock[c].data \in Nat
      BY <2>1 DEF Socket
    <3>2. r \in Socket
      BY <2>1 DEF Socket
    <3>3. r.left = sock[c].left /\ r.data = sock[c].data
      BY <2>1 DEF Socket
    <3>4. sock' = [sock EXCEPT ![c] = r]
      BY <2>1, <2>5 DEF Socket, SInv, SockOK
    <3> HIDE DEF r
    <3>5. r.left + r.data <= sock[c].left + sock[c].data
      BY <3>1, <3>3
    <3> QED
      BY <3>2, <3>4, <3>5
  <2> QED
    BY <2>2, <2>3, <2>4, <2>5 DEF Peer
<1>3. SockOK'
  BY <1>2, SockMoves DEF SInv
<1>4. PlaceOK' /\ SInv'
  BY <1>3 DEF Peer, PlaceOK, SInv, SrvOK
<1> QED
  BY <1>1, <1>4, ProcessFrame DEF Peer, ProcessOK

\* A destructor returns: one static object less is alive.
LEMMA DiesTyped ==
  ASSUME ProcessOK, NEW x \in Statics, Dies(x)
  PROVE  born' \in Seq(Statics) /\ gone' \subseteq Statics
<1>1. PICK i \in DOMAIN born :
        born' = SubSeq(born, 1, i - 1) \o SubSeq(born, i + 1, Len(born))
  BY DEF Dies
<1>2. born \in Seq(Statics) /\ i \in 1 .. Len(born) /\ Len(born) \in Nat
  BY <1>1 DEF ProcessOK
<1>3. SubSeq(born, 1, i - 1) \in Seq(Statics)
  BY <1>2, SubSeqProperties
<1>4. SubSeq(born, i + 1, Len(born)) \in Seq(Statics)
  BY <1>2, SubSeqProperties
<1>5. born' \in Seq(Statics)
  BY <1>1, <1>3, <1>4, ConcatProperties
<1> QED
  BY <1>5 DEF Dies, ProcessOK

ExitStep ==
    \/ HandlerLogs \/ StopBackend \/ JoinLoops \/ DestroyAllStarts \/ DestroyAllEnds
    \/ ExitBegins \/ RegistryDies \/ BackendDies \/ PoolDies \/ ProcessEnds

\* These steps leave coroutines, queue, backend and registry alone.
LEMMA ExitStepFrame ==
  ASSUME ExitStep
  PROVE  UNCHANGED <<co, queue, armed, registry, srv, handler, sock, promise, mpc>>
BY DEF ExitStep, HandlerLogs, StopBackend, JoinLoops, DestroyAllStarts,
   DestroyAllEnds, ExitBegins, RegistryDies, BackendDies, PoolDies, ProcessEnds

LEMMA ExitTInv ==
  ASSUME TInv, Exit
  PROVE  TInv'
<1> USE FrameFacts DEF TInv
<1>1. CASE ExitStep
  <2>1. CoTypeOK' /\ PlaceOK' /\ SInv'
    BY <1>1, ExitStepFrame, PlaceFrame DEF CoTypeOK, co, PlaceOK
  <2>2. UNCHANGED <<promise, mpc, ethread>>
    BY <1>1 DEF ExitStep, HandlerLogs, StopBackend, JoinLoops, DestroyAllStarts,
       DestroyAllEnds, ExitBegins, RegistryDies, BackendDies, PoolDies, ProcessEnds
  <2>3. stopping' \in BOOLEAN
    <3>1. stopping \in BOOLEAN
      BY DEF ProcessOK
    <3>2. CASE ExitBegins
      BY <3>2 DEF ExitBegins
    <3>3. CASE ~ExitBegins
      BY <1>1, <3>1, <3>3 DEF ExitStep, HandlerLogs, StopBackend, JoinLoops,
         DestroyAllStarts, DestroyAllEnds, RegistryDies, BackendDies, PoolDies,
         ProcessEnds
    <3> QED
      BY <3>2, <3>3
  <2>4. epc' \in {"none", "log", "stop", "join", "lock", "destroying", "exit", "dying",
                  "closing", "draining", "exited"}
    <3>1. CASE ExitBegins
      <4>1. Last \in Statics
        BY <3>1 DEF ExitBegins, Last, ProcessOK
      <4> QED
        BY <3>1, <4>1 DEF ExitBegins, Destructor, Statics
    <3>2. CASE ~ExitBegins
      BY <1>1, <3>2 DEF ExitStep, HandlerLogs, StopBackend, JoinLoops,
         DestroyAllStarts, DestroyAllEnds, RegistryDies, BackendDies, PoolDies,
         ProcessEnds
    <3> QED
      BY <3>1, <3>2
  <2>5. born' \in Seq(Statics) /\ gone' \subseteq Statics
    <3>1. CASE RegistryDies \/ BackendDies \/ PoolDies
      BY <3>1, DiesTyped DEF RegistryDies, BackendDies, PoolDies, Statics
    <3>2. CASE StopBackend \/ DestroyAllStarts
      BY <3>2, TouchTyped DEF StopBackend, DestroyAllStarts, Statics, ProcessOK
    <3>3. CASE HandlerLogs \/ JoinLoops \/ DestroyAllEnds \/ ExitBegins \/ ProcessEnds
      BY <3>3 DEF HandlerLogs, JoinLoops, DestroyAllEnds, ExitBegins, ProcessEnds,
         ProcessOK
    <3> QED
      BY <1>1, <3>1, <3>2, <3>3 DEF ExitStep
  <2>6. parked' \in Workers \cup {Null}
    <3>1. CASE ExitBegins
      BY <3>1 DEF ExitBegins, Parking
    <3>2. CASE ~ExitBegins
      BY <1>1, <3>2 DEF ExitStep, HandlerLogs, StopBackend, JoinLoops, DestroyAllStarts,
         DestroyAllEnds, RegistryDies, BackendDies, PoolDies, ProcessEnds, ProcessOK
    <3> QED
      BY <3>1, <3>2
  <2>7. ProcessOK'
    BY <2>2, <2>3, <2>4, <2>5, <2>6 DEF ProcessOK
  <2> QED
    BY <2>1, <2>7
<1>2. ASSUME NEW j \in Conns, DestroyOne(j) PROVE TInv'
  <2>1. CoTypeOK'
    BY <1>2, DestroyTyped DEF DestroyOne, CoTypeOK, co
  <2>2. PlaceOK' /\ SInv'
    BY <1>2 DEF DestroyOne, PlaceOK, SInv, SrvOK, SockOK
  <2>3. ProcessOK'
    BY <1>2, ProcessFrame DEF DestroyOne, process, ProcessOK
  <2> QED
    BY <2>1, <2>2, <2>3
<1> QED
  BY <1>1, <1>2 DEF Exit, ExitStep

\* The steps of Next, with the job of each coroutine.
LEMMA NextCases ==
  ASSUME TInv, Next
  PROVE  \/ MainRuns \/ Exit \/ \E c \in Conns : Peer(c)
         \/ \E t \in SigThreads : Signal(t)
         \/ \E t \in Threads :
              \/ Accepting(t) \/ \E j \in Jobs : CoroutineOf(t, j)
              \/ AcceptCallback(t) \/ \E c \in Conns : HandlerCallback(t, c)
              \/ RunTask(t) \/ UseOfDeadStatic(t)
<1>1. Workers \subseteq Threads /\ Loops \subseteq Threads
  BY RuntimeAssumption
<1>2. ASSUME NEW t \in Threads, Coroutine(t)
      PROVE  Accepting(t) \/ UseOfDeadStatic(t) \/ \E j \in Jobs : CoroutineOf(t, j)
  <2>1. on[t][2] \in Jobs
    BY <1>2, FrameFacts DEF Coroutine, TInv, CoTypeOK
  <2> QED
    BY <1>2, <2>1 DEF Coroutine, CoroutineOf
<1>3. ASSUME NEW t \in Workers \cup Loops, NEW j \in Jobs, Throw(t, j)
      PROVE  CoroutineOf(t, j) /\ t \in Threads
  BY <1>1, <1>3 DEF CoroutineOf
<1> QED
  BY <1>1, <1>2, <1>3 DEF Next, WorkerStep, LoopStep

LEMMA NextTInv == TInv /\ [Next]_vars => TInv'
<1> SUFFICES ASSUME TInv, [Next]_vars PROVE TInv'
  OBVIOUS
<1>1. CASE Next
  BY <1>1, NextCases, MainTInv, ExitTInv, PeerTInv, AcceptingTInv,
     CoroutineOfTInv, ResumersTInv
<1>2. CASE UNCHANGED vars
  <2>1. CoTypeOK'
    BY <1>2 DEF vars, co, TInv, CoTypeOK
  <2>2. PlaceOK' /\ SInv'
    BY <1>2, PlaceFrame DEF vars, TInv, PlaceOK
  <2>3. ProcessOK'
    BY <1>2, ProcessFrame DEF vars, process, TInv, ProcessOK
  <2> QED
    BY <2>1, <2>2, <2>3 DEF TInv
<1> QED
  BY <1>1, <1>2

\* Frames, places and the way out keep their types, whatever throws or fails.
THEOREM TypeCorrect == Spec => []TypeOK
BY InitTInv, NextTInv, TypeParts, PTL DEF Spec
-----------------------------------------------------------------------------
(* The life of a job, and what goes on with it at each stage.              *)

\* From here on destroy_all() may have destroyed frames, and nothing goes back.
Late == {"destroying", "exit", "dying", "closing", "draining", "exited"}

\* main() is in the call that puts the task of sync_wait() into the queue.
Calling == {"construct", "call", "locked"}

HeldBy(f)    == \E t \in Threads : on[t] = f
Queued(f)    == f \in Range(queue)

\* No thread executes the job, and neither the pool nor a call will start it.
Untouched(j) ==
    /\ ~HeldBy(Wrapper(j)) /\ ~HeldBy(Inner(j))
    /\ ~Queued(Wrapper(j)) /\ ~Starting(j)

Absent(j) ==
    /\ frame[Wrapper(j)] = "none" /\ frame[Inner(j)] = "none"
    /\ cont[Inner(j)] = Null /\ Inner(j) \notin armed
    /\ Untouched(j)

\* Created, and on its way into the queue or in it.
Fresh(j) ==
    /\ frame[Wrapper(j)] = "suspended" /\ frame[Inner(j)] = "suspended"
    /\ cont[Inner(j)] = Null /\ Inner(j) \notin armed
    /\ ~HeldBy(Wrapper(j)) /\ ~HeldBy(Inner(j))
    /\ Queued(Wrapper(j)) <=> ~Starting(j)

\* The wrapper was resumed and has not awaited its coroutine yet.
First(j) ==
    /\ frame[Wrapper(j)] = "running" /\ frame[Inner(j)] = "suspended"
    /\ cont[Inner(j)] = Null /\ Inner(j) \notin armed
    /\ HeldBy(Wrapper(j)) /\ ~HeldBy(Inner(j))
    /\ ~Queued(Wrapper(j)) /\ ~Starting(j)

Inside(j) ==
    /\ frame[Wrapper(j)] = "suspended" /\ frame[Inner(j)] = "running"
    /\ cont[Inner(j)] = Wrapper(j) /\ Inner(j) \notin armed
    /\ ~HeldBy(Wrapper(j)) /\ HeldBy(Inner(j))
    /\ ~Queued(Wrapper(j)) /\ ~Starting(j)

\* The coroutine waits in the backend.
Blocked(j) ==
    /\ frame[Wrapper(j)] = "suspended" /\ frame[Inner(j)] = "suspended"
    /\ cont[Inner(j)] = Wrapper(j) /\ Inner(j) \in armed
    /\ Untouched(j)

\* The coroutine has ended and its wrapper takes over.
Ending(j) ==
    /\ frame[Wrapper(j)] \in {"running", "final", "unhooked"}
    /\ frame[Inner(j)] = "final" /\ Inner(j) \notin armed
    /\ HeldBy(Wrapper(j)) /\ ~HeldBy(Inner(j))
    /\ ~Queued(Wrapper(j)) /\ ~Starting(j)

\* destroy_all() may have left the task in the queue, or its call under way.
Dead(j) ==
    /\ frame[Wrapper(j)] = "destroyed" /\ frame[Inner(j)] = "destroyed"
    /\ ~HeldBy(Wrapper(j)) /\ ~HeldBy(Inner(j))
    /\ ~(Queued(Wrapper(j)) /\ Starting(j))
    /\ epc \in Late \/ (~Queued(Wrapper(j)) /\ ~Starting(j) /\ Inner(j) \notin armed)

Staged(j) ==
    \/ Absent(j) \/ Fresh(j) \/ First(j) \/ Inside(j) \/ Blocked(j) \/ Ending(j) \/ Dead(j)

\* No two threads are in the same job.
AloneInv ==
    \A j \in Jobs, t, u \in Threads :
        {on[t], on[u]} \subseteq {Wrapper(j), Inner(j)} => t = u

\* The pool has wrappers to start, each of them once.
QueueInv ==
    /\ IsInjective(queue)
    /\ \A f \in Range(queue) : \E j \in Jobs : f = Wrapper(j)

\* A job is created once: main() calls sync_wait() once, and a connection is
\* accepted once.  Only an accept loop that waits can be resumed with one.
CreateInv ==
    /\ mpc = "start" => Absent(Server)
    /\ \A c \in Conns : sock[c].up # "accepted" => Absent(c) /\ srv.conn # c
    /\ srv.at \notin {"accept", "end"} => frame[Inner(Server)] = "running"
    /\ srv.at = "got" => Absent(srv.conn)
    /\ srv.at = "add" => Fresh(srv.conn)
    /\ Inner(Server) \in armed => srv.at = "accept"

\* The registry, up to the add() that detach() is about to make.
Adding(c) == srv.at = "add" /\ srv.conn = c
RegInv ==
    \A c \in Conns :
        /\ c \in registry => /\ frame[Wrapper(c)] \in {"suspended", "running", "final"}
                             /\ ~Adding(c)
        /\ frame[Wrapper(c)] \in {"suspended", "running"} => c \in registry \/ Adding(c)

JInv == (\A j \in Jobs : Staged(j)) /\ AloneInv /\ QueueInv /\ CreateInv /\ RegInv

\* Once a frame or a static object was used after its end nothing is promised.
IInv == TInv /\ (fault = "none" => JInv)
-----------------------------------------------------------------------------
(* A job that a step does not concern stays where it is.                   *)

Frozen(k) ==
    /\ frame'[Wrapper(k)] = frame[Wrapper(k)] /\ frame'[Inner(k)] = frame[Inner(k)]
    /\ cont'[Inner(k)] = cont[Inner(k)]
    /\ Inner(k) \in armed' <=> Inner(k) \in armed
    /\ HeldBy(Wrapper(k))' <=> HeldBy(Wrapper(k))
    /\ HeldBy(Inner(k))' <=> HeldBy(Inner(k))
    /\ Queued(Wrapper(k))' <=> Queued(Wrapper(k))
    /\ Starting(k)' <=> Starting(k)
    /\ epc \in Late => epc' \in Late

LEMMA FrozenStage ==
  ASSUME NEW k \in Jobs, Frozen(k)
  PROVE  /\ Absent(k) => Absent(k)'
         /\ Fresh(k) => Fresh(k)'
         /\ Staged(k) => Staged(k)'
<1>1. /\ Absent(k) => Absent(k)'
      /\ Fresh(k) => Fresh(k)'
  BY DEF Frozen, Absent, Fresh, Untouched
<1>2. First(k) => First(k)'
  BY DEF Frozen, First
<1>3. Inside(k) => Inside(k)'
  BY DEF Frozen, Inside
<1>4. Blocked(k) => Blocked(k)'
  BY DEF Frozen, Blocked, Untouched
<1>5. Ending(k) => Ending(k)'
  BY DEF Frozen, Ending
<1>6. Dead(k) => Dead(k)'
  BY DEF Frozen, Dead
<1> QED
  BY <1>1, <1>2, <1>3, <1>4, <1>5, <1>6 DEF Staged

\* Thread t begins, goes on with or leaves the job j.
LEMMA HandMoves ==
  ASSUME TInv, AloneInv, NEW t \in Threads, NEW j \in Jobs,
         NEW g \in {Null, Wrapper(j), Inner(j)}, on' = [on EXCEPT ![t] = g],
         \/ on[t] \in {Wrapper(j), Inner(j)}
         \/ on[t] = Null /\ ~HeldBy(Wrapper(j)) /\ ~HeldBy(Inner(j))
  PROVE  /\ AloneInv'
         /\ HeldBy(Wrapper(j))' <=> g = Wrapper(j)
         /\ HeldBy(Inner(j))' <=> g = Inner(j)
         /\ \A k \in Jobs \ {j} : /\ HeldBy(Wrapper(k))' <=> HeldBy(Wrapper(k))
                                  /\ HeldBy(Inner(k))' <=> HeldBy(Inner(k))
<1>1. /\ on'[t] = g
      /\ \A u \in Threads \ {t} : on'[u] = on[u]
  BY DEF TInv, CoTypeOK
<1>2. \A u \in Threads \ {t} : on'[u] \notin {Wrapper(j), Inner(j)}
  BY <1>1 DEF AloneInv, HeldBy
<1>3. \A k \in Jobs \ {j} : {on[t], g} \cap {Wrapper(k), Inner(k)} = {}
  BY FrameFacts
<1>4. AloneInv'
  <2> SUFFICES ASSUME NEW k \in Jobs, NEW u \in Threads, NEW v \in Threads,
                      {on'[u], on'[v]} \subseteq {Wrapper(k), Inner(k)}
               PROVE  u = v
    BY DEF AloneInv
  <2>1. CASE k = j
    BY <1>2, <2>1
  <2>2. CASE k # j
    <3>1. u # t /\ v # t
      BY <1>1, <1>3, <2>2
    <3> QED
      BY <1>1, <3>1 DEF AloneInv
  <2> QED
    BY <2>1, <2>2
<1>5. /\ HeldBy(Wrapper(j))' <=> g = Wrapper(j)
      /\ HeldBy(Inner(j))' <=> g = Inner(j)
  BY <1>1, <1>2 DEF HeldBy
<1>6. \A k \in Jobs \ {j} : /\ HeldBy(Wrapper(k))' <=> HeldBy(Wrapper(k))
                            /\ HeldBy(Inner(k))' <=> HeldBy(Inner(k))
  BY <1>1, <1>3 DEF HeldBy
<1> QED
  BY <1>4, <1>5, <1>6

LEMMA CreateKept ==
  ASSUME TInv, JInv, NEW j \in Jobs, \A k \in Jobs \ {j} : Frozen(k),
         ~Absent(j), ~Adding(j), UNCHANGED <<srv, mpc>>,
         \A c \in Conns : sock'[c].up = sock[c].up,
         j = Server => srv.at \in {"accept", "end"},
         j = Server /\ Inner(j) \in armed' => srv.at = "accept"
  PROVE  CreateInv'
<1>1. Server \in Jobs /\ Conns \subseteq Jobs
  BY RuntimeAssumption DEF Conns
<1>2. ASSUME NEW k \in Jobs PROVE Absent(k) => Absent(k)'
  BY <1>2, FrozenStage
<1>3. ASSUME NEW k \in Jobs, k # j PROVE Fresh(k) => Fresh(k)'
  BY <1>3, FrozenStage
<1>4. mpc' = "start" => Absent(Server)'
  BY <1>1, <1>2 DEF JInv, CreateInv
<1>5. \A c \in Conns : sock'[c].up # "accepted" => Absent(c)' /\ srv'.conn # c
  BY <1>1, <1>2 DEF JInv, CreateInv
<1>6. Inner(Server) \in armed' => srv'.at = "accept"
  BY <1>1 DEF JInv, CreateInv, Frozen
<1>7. srv.at \in {"got", "add"} => srv.conn \in Jobs
  BY <1>1 DEF TInv, SInv, SrvOK
<1>8. srv'.at \notin {"accept", "end"} => frame'[Inner(Server)] = "running"
  BY <1>1 DEF JInv, CreateInv, Frozen
<1> QED
  BY <1>2, <1>3, <1>4, <1>5, <1>6, <1>7, <1>8 DEF JInv, CreateInv, Adding

LEMMA RegKept ==
  ASSUME JInv, NEW j \in Jobs, UNCHANGED srv,
         \A k \in Jobs \ {j} : /\ frame'[Wrapper(k)] = frame[Wrapper(k)]
                               /\ k \in registry' <=> k \in registry,
         j \in registry' => /\ frame'[Wrapper(j)] \in {"suspended", "running", "final"}
                            /\ ~Adding(j),
         frame'[Wrapper(j)] \in {"suspended", "running"} /\ j # Server
             => j \in registry' \/ Adding(j)
  PROVE  RegInv'
<1>1. Conns \subseteq Jobs \ {Server}
  BY DEF Conns
<1> QED
  BY <1>1 DEF JInv, RegInv, Adding

\* The accept loop, which neither detaches a connection nor waits any more,
\* gets the next one or an empty one.
LEMMA CreateAccepts ==
  ASSUME TInv, JInv, \A c \in Conns : Frozen(c), ~Absent(Server), srv.at = "accept",
         UNCHANGED mpc, Inner(Server) \notin armed', frame'[Inner(Server)] = "running",
         \/ AcceptFails /\ UNCHANGED sock
         \/ \E c \in Backlog : Accepts(c)
  PROVE  CreateInv'
<1>1. Conns \subseteq Jobs
  BY DEF Conns
<1>2. ASSUME NEW c \in Conns PROVE Absent(c) => Absent(c)'
  BY <1>1, <1>2, FrozenStage
<1>3. mpc' # "start"
  BY DEF JInv, CreateInv
<1>4. CASE AcceptFails /\ UNCHANGED sock
  <2>1. srv'.at = "end" /\ srv'.conn = srv.conn
    BY <1>4 DEF AcceptFails, TInv, PlaceOK
  <2> QED
    BY <1>2, <1>3, <1>4, <2>1 DEF JInv, CreateInv
<1>5. ASSUME NEW c \in Backlog, Accepts(c) PROVE CreateInv'
  <2>1. /\ c \in Conns /\ sock[c].up = "backlog"
        /\ srv'.at = "got" /\ srv'.conn = c
        /\ \A d \in Conns \ {c} : sock'[d] = sock[d]
        /\ sock'[c].up = "accepted"
    BY <1>5 DEF Backlog, Accepts, TInv, SInv, SockOK, Socket
  <2> QED
    BY <1>2, <1>3, <2>1 DEF JInv, CreateInv
<1> QED
  BY <1>4, <1>5

\* The way out has no way back.
LEMMA LateStays ==
  ASSUME TInv, ExitStep, epc \in Late
  PROVE  epc' \in Late
<1>1. CASE ExitBegins
  <2>1. Last \in Statics
    BY <1>1 DEF ExitBegins, Last, TInv, ProcessOK
  <2> QED
    BY <1>1, <2>1 DEF ExitBegins, Destructor, Statics, Late
<1>2. CASE ~ExitBegins
  BY <1>2 DEF ExitStep, HandlerLogs, StopBackend, JoinLoops, DestroyAllStarts,
     DestroyAllEnds, RegistryDies, BackendDies, PoolDies, ProcessEnds, Late
<1> QED
  BY <1>1, <1>2

\* Steps that concern no job.
LEMMA JFrame ==
  ASSUME TInv, JInv, UNCHANGED <<co, queue, armed, registry, srv>>,
         \/ {mpc, mpc'} \subseteq Calling
         \/ {mpc, mpc'} \cap Calling = {} /\ (mpc' = "start" => mpc = "start"),
         epc \in Late => epc' \in Late,
         \A c \in Conns : sock'[c].up # "accepted" => sock[c].up # "accepted"
  PROVE  JInv'
<1>1. Server \in Jobs /\ Conns \subseteq Jobs
  BY RuntimeAssumption DEF Conns
<1>2. \A k \in Jobs : Frozen(k)
  <2>1. \A k \in Jobs : Starting(k)' <=> Starting(k)
    BY DEF Starting, Calling
  <2> QED
    BY <2>1 DEF Frozen, co, HeldBy, Queued
<1>3. ASSUME NEW k \in Jobs
      PROVE  (Absent(k) => Absent(k)') /\ (Fresh(k) => Fresh(k)') /\ (Staged(k) => Staged(k)')
  BY <1>2, <1>3, FrozenStage
<1>4. AloneInv' /\ QueueInv' /\ RegInv'
  BY DEF JInv, AloneInv, QueueInv, RegInv, Adding, co
<1>5. srv.at \in {"got", "add"} => srv.conn \in Jobs
  BY <1>1 DEF TInv, SInv, SrvOK
<1>6. mpc' = "start" => mpc = "start"
  BY DEF Calling
<1>7. CreateInv'
  BY <1>1, <1>3, <1>5, <1>6 DEF JInv, CreateInv, co
<1> QED
  BY <1>3, <1>4, <1>7 DEF JInv

\* What a step finds of a job tells its stage.
LEMMA StageOf ==
  ASSUME JInv, NEW j \in Jobs
  PROVE  /\ frame[Wrapper(j)] = "running" /\ frame[Inner(j)] = "suspended" => First(j)
         /\ frame[Inner(j)] = "running" => Inside(j)
         /\ frame[Inner(j)] = "final" => Ending(j)
         /\ frame[Wrapper(j)] \in {"final", "unhooked"} => Ending(j)
         /\ Inner(j) \in armed /\ frame[Inner(j)] = "suspended" => Blocked(j)
         /\ Queued(Wrapper(j)) /\ frame[Wrapper(j)] = "suspended" => Fresh(j)
         /\ frame[Inner(j)] # "unhooked"
<1>1. Staged(j)
  BY DEF JInv
<1> QED
  BY <1>1 DEF Staged, Absent, Untouched, Fresh, First, Inside, Blocked, Ending, Dead

\* The other jobs, when a step is about job j.
LEMMA OthersFrozen ==
  ASSUME NEW j \in Jobs, UNCHANGED epc,
         \A f \in Frames \ {Wrapper(j), Inner(j)} :
             /\ frame'[f] = frame[f] /\ cont'[f] = cont[f]
             /\ f \in armed' <=> f \in armed
             /\ Queued(f)' <=> Queued(f),
         \A k \in Jobs \ {j} : /\ HeldBy(Wrapper(k))' <=> HeldBy(Wrapper(k))
                               /\ HeldBy(Inner(k))' <=> HeldBy(Inner(k))
                               /\ Starting(k)' <=> Starting(k)
  PROVE  \A k \in Jobs \ {j} : Frozen(k)
BY FrameFacts DEF Frozen

LEMMA JobMoves ==
  ASSUME JInv, NEW j \in Jobs, \A k \in Jobs \ {j} : Frozen(k), Staged(j)',
         AloneInv', QueueInv', CreateInv', RegInv'
  PROVE  JInv'
BY FrozenStage DEF JInv

\* A step by which thread t begins, goes on with or leaves job j, and which
\* leaves the queue and the accept loop alone.
LEMMA ThreadMoves ==
  ASSUME TInv, JInv, NEW j \in Jobs, NEW t \in Threads,
         NEW g \in {Null, Wrapper(j), Inner(j)}, on' = [on EXCEPT ![t] = g],
         \/ on[t] \in {Wrapper(j), Inner(j)}
         \/ on[t] = Null /\ ~HeldBy(Wrapper(j)) /\ ~HeldBy(Inner(j)),
         \A f \in Frames \ {Wrapper(j), Inner(j)} :
             /\ frame'[f] = frame[f] /\ cont'[f] = cont[f]
             /\ f \in armed' <=> f \in armed,
         UNCHANGED <<queue, srv, mpc, epc>>,
         \A c \in Conns : sock'[c].up = sock[c].up,
         \A k \in Jobs \ {j} : k \in registry' <=> k \in registry,
         ~Absent(j), ~Adding(j), j = Server => srv.at \in {"accept", "end"},
         j = Server /\ Inner(j) \in armed' => srv.at = "accept",
         Staged(j)',
         j \in registry' => frame'[Wrapper(j)] \in {"suspended", "running", "final"},
         frame'[Wrapper(j)] \in {"suspended", "running"} /\ j # Server => j \in registry'
  PROVE  JInv'
<1>1. /\ AloneInv'
      /\ \A k \in Jobs \ {j} : /\ HeldBy(Wrapper(k))' <=> HeldBy(Wrapper(k))
                               /\ HeldBy(Inner(k))' <=> HeldBy(Inner(k))
  BY HandMoves DEF JInv
<1>2. \A k \in Jobs \ {j} : Frozen(k)
  BY <1>1, OthersFrozen DEF Queued, Starting
<1>3. QueueInv'
  BY DEF JInv, QueueInv
<1>4. CreateInv'
  BY <1>2, CreateKept
<1>5. RegInv'
  BY FrameFacts, RegKept
<1> QED
  BY <1>1, <1>2, <1>3, <1>4, <1>5, JobMoves

\* A job that detach() is done with is in the registry while its wrapper lives.
LEMMA RegOf ==
  ASSUME TInv, JInv, NEW j \in Jobs, ~Starting(j)
  PROVE  /\ ~Adding(j)
         /\ j \in registry => frame[Wrapper(j)] \in {"suspended", "running", "final"}
         /\ frame[Wrapper(j)] \in {"suspended", "running"} /\ j # Server => j \in registry
BY DEF Starting, Adding, JInv, RegInv, TInv, PlaceOK, Conns

\* While the accept loop is under way its coroutine runs.
LEMMA ServerRuns ==
  ASSUME JInv, NEW j \in Jobs, frame[Inner(j)] # "running"
  PROVE  j = Server => srv.at \in {"accept", "end"}
BY DEF JInv, CreateInv

LEMMA StartInnerJInv ==
  ASSUME TInv, JInv, NEW t \in Threads, NEW j \in Jobs, StartInner(t, j)
  PROVE  JInv'
<1> USE FrameFacts
<1>1. /\ on[t] = Wrapper(j) /\ frame[Wrapper(j)] = "running" /\ frame[Inner(j)] = "suspended"
      /\ cont' = [cont EXCEPT ![Inner(j)] = Wrapper(j)]
      /\ frame' = [frame EXCEPT ![Wrapper(j)] = "suspended", ![Inner(j)] = "running"]
      /\ on' = [on EXCEPT ![t] = Inner(j)]
      /\ UNCHANGED <<queue, armed, registry, srv, sock, mpc, epc>>
  BY DEF StartInner, AwaitTask, process
<1>2. First(j)
  BY <1>1, StageOf
<1>3. ~Starting(j) /\ Inner(j) \notin armed /\ ~Absent(j)
  BY <1>2 DEF First, Absent
<1>4. HeldBy(Inner(j))' /\ ~HeldBy(Wrapper(j))'
  BY <1>1, HandMoves DEF JInv
<1>5. Inside(j)'
  BY <1>1, <1>2, <1>3, <1>4 DEF First, Inside, Queued, Starting, TInv, CoTypeOK
<1>6. /\ frame'[Wrapper(j)] = "suspended"
      /\ \A f \in Frames \ {Wrapper(j), Inner(j)} :
            frame'[f] = frame[f] /\ cont'[f] = cont[f]
  BY <1>1 DEF TInv, CoTypeOK
<1>7. j = Server => srv.at \in {"accept", "end"}
  BY <1>1, ServerRuns
<1> QED
  BY <1>1, <1>3, <1>5, <1>6, <1>7, RegOf, ThreadMoves DEF Staged

LEMMA FinishJInv ==
  ASSUME TInv, JInv, NEW t \in Threads, NEW j \in Jobs, NEW threw \in BOOLEAN,
         Finish(t, Inner(j), threw), j = Server => srv.at \in {"accept", "end"},
         UNCHANGED <<queue, armed, registry, srv, sock, mpc, epc>>
  PROVE  JInv'
<1> USE FrameFacts
<1>1. on[t] = Inner(j) /\ Inside(j)
  BY StageOf DEF Finish
<1>2. cont[Inner(j)] = Wrapper(j)
  BY <1>1 DEF Inside
<1>3. /\ frame' = [frame EXCEPT ![Inner(j)] = "final", ![Wrapper(j)] = "running"]
      /\ on' = [on EXCEPT ![t] = Wrapper(j)] /\ UNCHANGED cont
  BY <1>2 DEF Finish
<1>4. HeldBy(Wrapper(j))' /\ ~HeldBy(Inner(j))'
  BY <1>1, <1>3, HandMoves DEF JInv
<1>5. Ending(j)'
  BY <1>1, <1>3, <1>4 DEF Inside, Ending, Queued, Starting, TInv, CoTypeOK
<1>6. ~Starting(j) /\ Inner(j) \notin armed /\ ~Absent(j) /\ frame[Wrapper(j)] = "suspended"
  BY <1>1 DEF Inside, Absent
<1>7. /\ frame'[Wrapper(j)] = "running"
      /\ \A f \in Frames \ {Wrapper(j), Inner(j)} :
            frame'[f] = frame[f] /\ cont'[f] = cont[f]
  BY <1>3 DEF TInv, CoTypeOK
<1> QED
  BY <1>1, <1>3, <1>5, <1>6, <1>7, RegOf, ThreadMoves DEF Staged

\* The coroutine of job j waits in the backend.
LEMMA SuspendJInv ==
  ASSUME TInv, JInv, NEW t \in Threads, NEW j \in Jobs, Runs(t, Inner(j)), Suspend(t),
         armed' = armed \cup {Inner(j)}, UNCHANGED <<queue, registry, srv, sock, mpc, epc>>,
         j = Server => srv.at = "accept"
  PROVE  JInv'
<1> USE FrameFacts
<1>1. on[t] = Inner(j) /\ Inside(j)
  BY StageOf
<1>2. /\ frame' = [frame EXCEPT ![Inner(j)] = "suspended"]
      /\ on' = [on EXCEPT ![t] = Null] /\ UNCHANGED cont
  BY <1>1 DEF Suspend
<1>3. ~HeldBy(Wrapper(j))' /\ ~HeldBy(Inner(j))'
  BY <1>1, <1>2, HandMoves DEF JInv
<1>4. Blocked(j)'
  BY <1>1, <1>2, <1>3 DEF Inside, Blocked, Untouched, Queued, Starting, TInv, CoTypeOK
<1>5. ~Starting(j) /\ ~Absent(j) /\ frame[Wrapper(j)] = "suspended"
  BY <1>1 DEF Inside, Absent
<1>6. /\ frame'[Wrapper(j)] = "suspended"
      /\ \A f \in Frames \ {Wrapper(j), Inner(j)} :
            /\ frame'[f] = frame[f] /\ cont'[f] = cont[f]
            /\ f \in armed' <=> f \in armed
  BY <1>2, <1>5 DEF TInv, CoTypeOK
<1> QED
  BY <1>1, <1>2, <1>4, <1>5, <1>6, RegOf, ThreadMoves DEF Staged

\* The wrapper of job j goes on to its own end.
LEMMA WrapperEndsJInv ==
  ASSUME TInv, JInv, NEW t \in Threads, NEW j \in Jobs, WrapperEnds(t, j)
  PROVE  JInv'
<1> USE FrameFacts
<1> DEFINE label == IF j = Server THEN "unhooked" ELSE "final"
<1>1. /\ on[t] = Wrapper(j) /\ frame[Wrapper(j)] = "running"
      /\ frame' = [frame EXCEPT ![Wrapper(j)] = label]
      /\ on' = [on EXCEPT ![t] = Wrapper(j)]
      /\ UNCHANGED <<cont, on, queue, armed, registry, srv, sock, mpc, epc>>
  BY DEF WrapperEnds, TInv, CoTypeOK
<1>2. label \in {"final", "unhooked"} /\ (label = "unhooked" => j = Server)
  OBVIOUS
<1> HIDE DEF label
<1>3. Ending(j)
  BY StageOf DEF WrapperEnds
<1>4. Ending(j)'
  BY <1>1, <1>2, <1>3 DEF Ending, HeldBy, Queued, Starting, TInv, CoTypeOK
<1>5. ~Starting(j) /\ Inner(j) \notin armed /\ ~Absent(j)
  BY <1>3 DEF Ending, Absent
<1>6. /\ frame'[Wrapper(j)] = label
      /\ \A f \in Frames \ {Wrapper(j), Inner(j)} :
            frame'[f] = frame[f] /\ cont'[f] = cont[f]
  BY <1>1 DEF TInv, CoTypeOK
<1>7. j \in registry => j # Server
  BY DEF TInv, PlaceOK, Conns
<1>8. /\ j \in registry' => frame'[Wrapper(j)] \in {"suspended", "running", "final"}
      /\ frame'[Wrapper(j)] \notin {"suspended", "running"}
  BY <1>1, <1>2, <1>6, <1>7
<1>9. Staged(j)' /\ ~Adding(j)
  BY <1>4, <1>5, RegOf DEF Staged
<1>10. j = Server => srv.at \in {"accept", "end"}
  BY <1>3, ServerRuns DEF Ending
<1> QED
  BY <1>1, <1>5, <1>6, <1>8, <1>9, <1>10, ThreadMoves

LEMMA RegistryRemoveJInv ==
  ASSUME TInv, JInv, NEW t \in Threads, NEW j \in Jobs, RegistryRemove(t, j)
  PROVE  JInv'
<1> USE FrameFacts
<1>1. /\ on[t] = Wrapper(j) /\ frame[Wrapper(j)] = "final"
      /\ frame' = [frame EXCEPT ![Wrapper(j)] = "unhooked"]
      /\ on' = [on EXCEPT ![t] = Wrapper(j)]
      /\ registry' = registry \ {j}
      /\ UNCHANGED <<cont, on, queue, armed, srv, sock, mpc, epc>>
  BY DEF RegistryRemove, TInv, CoTypeOK
<1>2. Ending(j)
  BY <1>1, StageOf
<1>3. Ending(j)'
  BY <1>1, <1>2 DEF Ending, HeldBy, Queued, Starting, TInv, CoTypeOK
<1>4. ~Starting(j) /\ Inner(j) \notin armed /\ ~Absent(j)
  BY <1>2 DEF Ending, Absent
<1>5. /\ frame'[Wrapper(j)] = "unhooked"
      /\ \A f \in Frames \ {Wrapper(j), Inner(j)} :
            frame'[f] = frame[f] /\ cont'[f] = cont[f]
  BY <1>1 DEF TInv, CoTypeOK
<1>6. j = Server => srv.at \in {"accept", "end"}
  BY <1>2, ServerRuns DEF Ending
<1> QED
  BY <1>1, <1>3, <1>4, <1>5, <1>6, RegOf, ThreadMoves DEF Staged

\* The wrapper destroys itself, which nothing else was about to resume.
LEMMA WrapperGoneJInv ==
  ASSUME TInv, JInv, NEW t \in Threads, NEW j \in Jobs, WrapperGone(t, j)
  PROVE  JInv'
<1> USE FrameFacts
<1>1. on[t] = Wrapper(j) /\ frame[Wrapper(j)] = "unhooked" /\ Ending(j)
  BY StageOf DEF WrapperGone, SelfDestroy
<1>2. CanDestroy(Wrapper(j))
  BY <1>1 DEF CanDestroy, Ending
<1>3. /\ frame' = Destroyed(Wrapper(j)) /\ on' = [on EXCEPT ![t] = Null]
      /\ UNCHANGED <<cont, queue, armed, registry, srv, sock, mpc, epc>>
  BY <1>2 DEF WrapperGone, SelfDestroy
<1>4. /\ frame'[Wrapper(j)] = "destroyed" /\ frame'[Inner(j)] = "destroyed"
      /\ \A f \in Frames \ {Wrapper(j), Inner(j)} : frame'[f] = frame[f]
  BY <1>3 DEF Destroyed
<1>5. ~HeldBy(Wrapper(j))' /\ ~HeldBy(Inner(j))'
  BY <1>1, <1>3, HandMoves DEF JInv
<1>6. ~Starting(j) /\ ~Queued(Wrapper(j)) /\ Inner(j) \notin armed /\ ~Absent(j)
  BY <1>1 DEF Ending, Absent
<1>7. Dead(j)'
  BY <1>3, <1>4, <1>5, <1>6 DEF Dead, Starting, Queued
<1>8. j = Server => srv.at \in {"accept", "end"}
  BY <1>1, ServerRuns DEF Ending
<1> QED
  BY <1>1, <1>3, <1>4, <1>6, <1>7, <1>8, RegOf, ThreadMoves DEF Staged

LEMMA CoroutineOfJInv ==
  ASSUME TInv, JInv, NEW t \in Threads, NEW j \in Jobs, CoroutineOf(t, j)
  PROVE  JInv'
<1>1. CASE HandlerInline(t, j)
  <2>1. \A c \in Conns : sock'[c].up = sock[c].up
    BY <1>1, OperateTyped DEF HandlerInline, TInv, SInv, PlaceOK
  <2> QED
    BY <1>1, <2>1, JFrame DEF HandlerInline, process, Calling
<1>2. CASE HandlerBlocks(t, j)
  BY <1>2, SuspendJInv DEF HandlerBlocks, Conns
<1>3. CASE HandlerReturns(t, j)
  BY <1>3, FinishJInv DEF HandlerReturns, process, Conns
<1>4. CASE Throw(t, j)
  BY <1>4, FinishJInv DEF Throw, process
<1> QED
  BY <1>1, <1>2, <1>3, <1>4, StartInnerJInv, WrapperEndsJInv, WrapperGoneJInv,
     RegistryRemoveJInv DEF CoroutineOf
-----------------------------------------------------------------------------
(* The backend and the pool resume coroutines.                             *)

\* A frame that can be resumed is that of a coroutine which waits there.
LEMMA Resumed ==
  ASSUME TInv, JInv, fault' = "none", NEW t \in Threads, on[t] = Null,
         NEW j \in Jobs, Inner(j) \in armed, Resume(t, Inner(j)),
         armed' = armed \ {Inner(j)}
  PROVE  /\ Blocked(j) /\ UNCHANGED cont
         /\ on' = [on EXCEPT ![t] = Inner(j)]
         /\ frame' = [frame EXCEPT ![Inner(j)] = "running"]
         /\ frame'[Wrapper(j)] = "suspended"
         /\ ~HeldBy(Wrapper(j)) /\ ~HeldBy(Inner(j)) /\ ~Starting(j) /\ ~Absent(j)
         /\ \A f \in Frames \ {Wrapper(j), Inner(j)} :
               /\ frame'[f] = frame[f] /\ cont'[f] = cont[f]
               /\ f \in armed' <=> f \in armed
         /\ HeldBy(Inner(j))' /\ ~HeldBy(Wrapper(j))'
<1> USE FrameFacts
<1>1. /\ frame[Inner(j)] = "suspended" /\ UNCHANGED cont
      /\ frame' = [frame EXCEPT ![Inner(j)] = "running"]
      /\ on' = [on EXCEPT ![t] = Inner(j)]
  BY DEF Resume
<1>2. Blocked(j)
  BY <1>1, StageOf
<1>3. ~HeldBy(Wrapper(j)) /\ ~HeldBy(Inner(j)) /\ ~Starting(j) /\ ~Absent(j)
  BY <1>2 DEF Blocked, Untouched, Absent
<1>4. HeldBy(Inner(j))' /\ ~HeldBy(Wrapper(j))'
  BY <1>1, <1>3, HandMoves DEF JInv
<1>5. /\ frame'[Wrapper(j)] = "suspended"
      /\ \A f \in Frames \ {Wrapper(j), Inner(j)} : frame'[f] = frame[f]
  BY <1>1, <1>2 DEF Blocked, TInv, CoTypeOK
<1> QED
  BY <1>1, <1>2, <1>3, <1>4, <1>5

LEMMA HandlerCallbackJInv ==
  ASSUME TInv, JInv, fault' = "none", NEW t \in Threads, NEW c \in Conns,
         HandlerCallback(t, c)
  PROVE  JInv'
<1> USE FrameFacts
<1>0. c \in Jobs /\ c # Server
  BY DEF Conns
<1>1. /\ on[t] = Null /\ Inner(c) \in armed /\ Resume(t, Inner(c))
      /\ armed' = armed \ {Inner(c)}
      /\ UNCHANGED <<queue, registry, srv, mpc, epc>>
  BY DEF HandlerCallback, process
<1>2. \A d \in Conns : sock'[d].up = sock[d].up
  BY OperateTyped DEF HandlerCallback, TInv, SInv, PlaceOK
<1>3. /\ Blocked(c) /\ UNCHANGED cont
      /\ on' = [on EXCEPT ![t] = Inner(c)]
      /\ frame' = [frame EXCEPT ![Inner(c)] = "running"]
      /\ frame'[Wrapper(c)] = "suspended"
      /\ ~HeldBy(Wrapper(c)) /\ ~HeldBy(Inner(c)) /\ ~Starting(c) /\ ~Absent(c)
      /\ \A f \in Frames \ {Wrapper(c), Inner(c)} :
            /\ frame'[f] = frame[f] /\ cont'[f] = cont[f]
            /\ f \in armed' <=> f \in armed
      /\ HeldBy(Inner(c))' /\ ~HeldBy(Wrapper(c))'
  BY <1>0, <1>1, Resumed
<1>4. Inside(c)'
  BY <1>0, <1>1, <1>3 DEF Blocked, Untouched, Inside, Queued, Starting, TInv, CoTypeOK
<1>5. /\ ~Adding(c) /\ c \in registry
  BY <1>0, <1>3, RegOf DEF Blocked
<1> QED
  BY <1>0, <1>1, <1>2, <1>3, <1>4, <1>5, ThreadMoves DEF Staged

LEMMA AcceptCallbackJInv ==
  ASSUME TInv, JInv, fault' = "none", NEW t \in Threads, AcceptCallback(t)
  PROVE  JInv'
<1> USE FrameFacts
<1>0. Server \in Jobs /\ Conns = Jobs \ {Server}
  BY RuntimeAssumption DEF Conns
<1>1. /\ on[t] = Null /\ Inner(Server) \in armed /\ Resume(t, Inner(Server))
      /\ armed' = armed \ {Inner(Server)}
      /\ UNCHANGED <<queue, registry, mpc, epc>>
      /\ \/ AcceptFails /\ UNCHANGED sock
         \/ \E c \in Backlog : Accepts(c)
  BY DEF AcceptCallback, process
<1>2. srv.at = "accept" /\ srv'.at \in {"got", "end"}
  BY <1>1 DEF JInv, CreateInv, AcceptFails, Accepts, TInv, PlaceOK
<1>3. /\ Blocked(Server) /\ UNCHANGED cont
      /\ on' = [on EXCEPT ![t] = Inner(Server)]
      /\ frame' = [frame EXCEPT ![Inner(Server)] = "running"]
      /\ frame'[Wrapper(Server)] = "suspended"
      /\ ~HeldBy(Wrapper(Server)) /\ ~HeldBy(Inner(Server))
      /\ ~Starting(Server) /\ ~Absent(Server)
      /\ \A f \in Frames \ {Wrapper(Server), Inner(Server)} :
            /\ frame'[f] = frame[f] /\ cont'[f] = cont[f]
            /\ f \in armed' <=> f \in armed
      /\ HeldBy(Inner(Server))' /\ ~HeldBy(Wrapper(Server))'
  BY <1>0, <1>1, Resumed
<1>4. Inside(Server)'
  BY <1>0, <1>1, <1>2, <1>3 DEF Blocked, Untouched, Inside, Queued, Starting, TInv, CoTypeOK
<1>5. /\ AloneInv'
      /\ \A k \in Jobs \ {Server} : /\ HeldBy(Wrapper(k))' <=> HeldBy(Wrapper(k))
                                    /\ HeldBy(Inner(k))' <=> HeldBy(Inner(k))
  BY <1>0, <1>1, <1>3, HandMoves DEF JInv
<1>6. \A k \in Jobs \ {Server} : Frozen(k)
  BY <1>0, <1>1, <1>2, <1>3, <1>5, OthersFrozen DEF Queued, Starting
<1>7. CreateInv'
  BY <1>0, <1>1, <1>2, <1>3, <1>6, CreateAccepts DEF TInv, CoTypeOK
<1>8. QueueInv'
  BY <1>1 DEF JInv, QueueInv
<1>9. RegInv'
  BY <1>0, <1>1, <1>2, <1>6 DEF JInv, RegInv, Adding, Frozen
<1> QED
  BY <1>0, <1>4, <1>5, <1>6, <1>7, <1>8, <1>9, JobMoves DEF Staged

LEMMA RunTaskJInv ==
  ASSUME TInv, JInv, fault' = "none", NEW t \in Threads, RunTask(t)
  PROVE  JInv'
<1> USE FrameFacts
<1>1. /\ on[t] = Null /\ queue # <<>> /\ queue \in Seq(Frames) /\ IsInjective(queue)
      /\ queue' = Tail(queue) /\ Resume(t, Head(queue))
      /\ UNCHANGED <<armed, registry, srv, sock, mpc, epc>>
  BY DEF RunTask, process, TInv, PlaceOK, JInv, QueueInv
<1>2. /\ IsInjective(queue') /\ Range(queue') = Range(queue) \ {Head(queue)}
      /\ Head(queue) \in Range(queue)
  BY <1>1, Shifted
<1>3. PICK j \in Jobs : Head(queue) = Wrapper(j)
  BY <1>2 DEF JInv, QueueInv
<1>4. /\ frame[Wrapper(j)] = "suspended" /\ UNCHANGED cont
      /\ frame' = [frame EXCEPT ![Wrapper(j)] = "running"]
      /\ on' = [on EXCEPT ![t] = Wrapper(j)]
  BY <1>1, <1>3 DEF Resume
<1>5. Queued(Wrapper(j)) /\ Fresh(j)
  BY <1>2, <1>3, <1>4, StageOf DEF Queued
<1>6. /\ ~HeldBy(Wrapper(j)) /\ ~HeldBy(Inner(j)) /\ ~Starting(j) /\ ~Absent(j)
      /\ Inner(j) \notin armed
  BY <1>4, <1>5 DEF Fresh, Absent
<1>7. /\ AloneInv' /\ HeldBy(Wrapper(j))' /\ ~HeldBy(Inner(j))'
      /\ \A k \in Jobs \ {j} : /\ HeldBy(Wrapper(k))' <=> HeldBy(Wrapper(k))
                               /\ HeldBy(Inner(k))' <=> HeldBy(Inner(k))
  BY <1>1, <1>4, <1>6, HandMoves DEF JInv
<1>8. /\ frame'[Wrapper(j)] = "running" /\ frame'[Inner(j)] = frame[Inner(j)]
      /\ \A f \in Frames \ {Wrapper(j), Inner(j)} :
            /\ frame'[f] = frame[f] /\ Queued(f)' <=> Queued(f)
  BY <1>2, <1>3, <1>4 DEF TInv, CoTypeOK, Queued
<1>9. First(j)'
  BY <1>1, <1>2, <1>3, <1>4, <1>5, <1>6, <1>7, <1>8 DEF Fresh, First, Queued, Starting
<1>10. \A k \in Jobs \ {j} : Frozen(k)
  BY <1>1, <1>4, <1>7, <1>8, OthersFrozen DEF Starting
<1>11. QueueInv'
  BY <1>2 DEF JInv, QueueInv
<1>12. ~Adding(j) /\ (j # Server => j \in registry)
  BY <1>4, <1>6, RegOf
<1>13. CreateInv'
  <2>1. j = Server => srv.at \in {"accept", "end"}
    BY <1>5, ServerRuns DEF Fresh
  <2> QED
    BY <1>1, <1>6, <1>10, <1>12, <2>1, CreateKept
<1>14. RegInv'
  BY <1>1, <1>8, <1>10, <1>12, RegKept DEF Frozen
<1> QED
  BY <1>7, <1>9, <1>10, <1>11, <1>13, <1>14, JobMoves DEF Staged
-----------------------------------------------------------------------------
(* The accept loop and detach().                                           *)

LEMMA AcceptInlineJInv ==
  ASSUME TInv, JInv, NEW t \in Threads, AcceptInline(t)
  PROVE  JInv'
<1>0. Server \in Jobs /\ Conns = Jobs \ {Server}
  BY RuntimeAssumption DEF Conns
<1>1. /\ srv.at = "accept" /\ frame[Inner(Server)] = "running"
      /\ \E c \in Backlog : Accepts(c)
      /\ UNCHANGED <<co, queue, armed, registry, mpc, epc>>
  BY DEF AcceptInline, process
<1>2. Inside(Server) /\ ~Absent(Server) /\ Inner(Server) \notin armed'
  BY <1>0, <1>1, StageOf DEF Inside, Absent
<1>3. srv'.at = "got"
  BY <1>1 DEF Accepts
<1>4. \A k \in Jobs : Frozen(k)
  BY <1>1, <1>3 DEF Frozen, HeldBy, Queued, Starting, co
<1>5. CreateInv'
  BY <1>0, <1>1, <1>2, <1>4, CreateAccepts DEF co
<1>6. AloneInv' /\ QueueInv' /\ RegInv'
  BY <1>1, <1>3 DEF JInv, AloneInv, QueueInv, RegInv, Adding, co
<1>7. Staged(Server)'
  BY <1>0, <1>4, FrozenStage DEF JInv
<1> QED
  BY <1>0, <1>4, <1>5, <1>6, <1>7, JobMoves

LEMMA DetachCreateJInv ==
  ASSUME TInv, JInv, NEW t \in Threads, DetachCreate(t)
  PROVE  JInv'
<1> USE FrameFacts
<1>c. PICK c \in Conns : srv.conn = c
  BY DEF DetachCreate, TInv, SInv, SrvOK
<1>0. Server \in Jobs /\ Conns = Jobs \ {Server}
  BY RuntimeAssumption DEF Conns
<1>1. /\ srv.at = "got" /\ srv.conn = c /\ frame[Inner(Server)] = "running"
      /\ srv'.at = "add" /\ srv'.conn = c
      /\ UNCHANGED <<cont, on, queue, armed, registry, sock, mpc, epc>>
  BY <1>c DEF DetachCreate, Create, process, TInv, PlaceOK
<1>2. /\ frame'[Wrapper(c)] = "suspended" /\ frame'[Inner(c)] = "suspended"
      /\ \A f \in Frames \ {Wrapper(c), Inner(c)} : frame'[f] = frame[f]
  BY <1>0, <1>1 DEF DetachCreate, Create
<1>3. Absent(c)
  BY <1>1 DEF JInv, CreateInv
<1>4. Fresh(c)'
  BY <1>1, <1>2, <1>3 DEF Absent, Untouched, Fresh, HeldBy, Queued, Starting
<1>5. \A k \in Jobs \ {c} : Frozen(k)
  <2>1. \A k \in Jobs \ {c} : Starting(k)' <=> Starting(k)
    BY <1>1 DEF Starting
  <2> QED
    BY <1>0, <1>1, <1>2, <2>1, OthersFrozen DEF HeldBy, Queued
<1>6. Inside(Server) /\ ~Absent(Server) /\ Inner(Server) \notin armed'
  BY <1>0, <1>1, StageOf DEF Inside, Absent
<1>7. CreateInv'
  <2>1. mpc' # "start"
    BY <1>1, <1>6 DEF JInv, CreateInv
  <2>2. ASSUME NEW d \in Conns, sock'[d].up # "accepted" PROVE Absent(d)' /\ srv'.conn # d
    <3>1. Absent(d) /\ d # c
      BY <1>1, <2>2 DEF JInv, CreateInv
    <3> QED
      BY <1>0, <1>1, <1>5, <3>1, FrozenStage
  <2>3. frame'[Inner(Server)] = "running"
    BY <1>0, <1>1, <1>2
  <2> QED
    BY <1>1, <1>4, <1>6, <2>1, <2>2, <2>3 DEF CreateInv
<1>8. AloneInv' /\ QueueInv'
  BY <1>1 DEF JInv, AloneInv, QueueInv
<1>9. RegInv'
  <2>1. c \notin registry
    BY <1>1, <1>3 DEF JInv, RegInv, Absent
  <2>2. \A d \in Conns : ~Adding(d) /\ (Adding(d)' <=> d = c)
    BY <1>1 DEF Adding
  <2>3. \A d \in Conns \ {c} : frame'[Wrapper(d)] = frame[Wrapper(d)]
    BY <1>0, <1>5 DEF Frozen
  <2> QED
    BY <1>1, <1>2, <2>1, <2>2, <2>3 DEF JInv, RegInv
<1> QED
  BY <1>0, <1>1, <1>4, <1>5, <1>7, <1>8, <1>9, JobMoves DEF Staged

LEMMA RegistryAddJInv ==
  ASSUME TInv, JInv, NEW t \in Threads, RegistryAdd(t)
  PROVE  JInv'
<1>c. PICK c \in Conns : srv.conn = c
  BY DEF RegistryAdd, TInv, SInv, SrvOK
<1>0. Server \in Jobs /\ Conns = Jobs \ {Server}
  BY RuntimeAssumption DEF Conns
<1>1. /\ srv.at = "add" /\ srv.conn = c
      /\ srv'.at = "push" /\ srv'.conn = c
      /\ registry' = registry \cup {c}
      /\ UNCHANGED <<co, queue, armed, sock, mpc, epc>>
  BY <1>c DEF RegistryAdd, TInv, PlaceOK
<1>2. frame[Wrapper(c)] = "suspended"
  BY <1>1 DEF JInv, CreateInv, Fresh
<1>3. \A k \in Jobs : Starting(k)' <=> Starting(k)
  BY <1>1 DEF Starting
<1>4. \A k \in Jobs : Frozen(k)
  BY <1>1, <1>3 DEF Frozen, HeldBy, Queued, co
<1>5. ASSUME NEW k \in Jobs
      PROVE  (Absent(k) => Absent(k)') /\ (Staged(k) => Staged(k)')
  BY <1>4, FrozenStage
<1>6. CreateInv'
  BY <1>0, <1>1, <1>5 DEF JInv, CreateInv, co
<1>7. AloneInv' /\ QueueInv'
  BY <1>1 DEF JInv, AloneInv, QueueInv, co
<1>8. RegInv'
  BY <1>1, <1>2 DEF JInv, RegInv, Adding, co
<1> QED
  BY <1>5, <1>6, <1>7, <1>8 DEF JInv

LEMMA DetachPushJInv ==
  ASSUME TInv, JInv, NEW t \in Threads, DetachPush(t)
  PROVE  JInv'
<1> USE FrameFacts
<1>c. PICK c \in Conns : srv.conn = c
  BY DEF DetachPush, TInv, SInv, SrvOK
<1>0. Server \in Jobs /\ Conns = Jobs \ {Server}
  BY RuntimeAssumption DEF Conns
<1>1. /\ srv.at = "push" /\ srv.conn = c /\ Starting(c)
      /\ srv'.at = "next" /\ srv'.conn = c
      /\ queue \in Seq(Frames) /\ queue' = Append(queue, Wrapper(c))
      /\ UNCHANGED <<frame, cont, on, armed, registry, sock, mpc, epc>>
  BY <1>c DEF DetachPush, process, co, Starting, TInv, PlaceOK
<1>2. Fresh(c) \/ Dead(c)
  BY <1>0, <1>1 DEF JInv, Staged, Absent, Untouched, First, Inside, Blocked, Ending
<1>3. Wrapper(c) \notin Range(queue)
  BY <1>1, <1>2 DEF Fresh, Dead, Queued
<1>4. Range(queue') = Range(queue) \cup {Wrapper(c)} /\ IsInjective(queue')
  BY <1>0, <1>1, <1>3, Appended DEF JInv, QueueInv
<1>5. ~Starting(c)' /\ \A k \in Jobs \ {c} : Starting(k)' <=> Starting(k)
  BY <1>0, <1>1 DEF Starting
<1>6. Staged(c)'
  <2>1. Queued(Wrapper(c))'
    BY <1>4 DEF Queued
  <2>2. Fresh(c) => Fresh(c)'
    BY <1>0, <1>1, <1>5, <2>1 DEF Fresh, HeldBy
  <2>3. Dead(c) => Dead(c)'
    BY <1>0, <1>1, <1>5, <2>1 DEF Dead, HeldBy
  <2> QED
    BY <1>2, <2>2, <2>3 DEF Staged
<1>7. \A k \in Jobs \ {c} : Frozen(k)
  <2>1. \A f \in Frames \ {Wrapper(c), Inner(c)} : Queued(f)' <=> Queued(f)
    BY <1>4 DEF Queued
  <2> QED
    BY <1>0, <1>1, <1>5, <2>1, OthersFrozen DEF HeldBy
<1>8. CreateInv'
  <2>1. ~Absent(c)
    BY <1>2 DEF Absent, Fresh, Dead
  <2>2. ASSUME NEW k \in Jobs PROVE Absent(k) => Absent(k)'
    BY <1>7, <2>1, FrozenStage
  <2>3. Inner(Server) \notin armed'
    BY <1>1 DEF JInv, CreateInv
  <2> QED
    BY <1>0, <1>1, <2>2, <2>3 DEF JInv, CreateInv
<1>9. AloneInv' /\ QueueInv'
  BY <1>0, <1>1, <1>4 DEF JInv, AloneInv, QueueInv
<1>10. RegInv'
  BY <1>1 DEF JInv, RegInv, Adding
<1> QED
  BY <1>0, <1>1, <1>6, <1>7, <1>8, <1>9, <1>10, JobMoves

LEMMA NextTurnJInv ==
  ASSUME TInv, JInv, NEW t \in Threads, NextTurn(t)
  PROVE  JInv'
<1>0. Server \in Jobs /\ Conns = Jobs \ {Server} /\ Null \notin Conns
  BY RuntimeAssumption DEF Conns
<1>1. /\ srv.at = "next" /\ srv'.at = "accept" /\ srv'.conn = Null
      /\ UNCHANGED <<co, queue, armed, registry, sock, mpc, epc>>
  BY DEF NextTurn, process
<1>2. \A k \in Jobs : Frozen(k)
  BY <1>1 DEF Frozen, HeldBy, Queued, Starting, co
<1>3. ASSUME NEW k \in Jobs
      PROVE  (Absent(k) => Absent(k)') /\ (Staged(k) => Staged(k)')
  BY <1>2, FrozenStage
<1>4. CreateInv'
  BY <1>0, <1>1, <1>3 DEF JInv, CreateInv
<1>5. AloneInv' /\ QueueInv' /\ RegInv'
  BY <1>1 DEF JInv, AloneInv, QueueInv, RegInv, Adding, co
<1> QED
  BY <1>3, <1>4, <1>5 DEF JInv

LEMMA AcceptingJInv ==
  ASSUME TInv, JInv, NEW t \in Threads, Accepting(t)
  PROVE  JInv'
<1>0. Server \in Jobs
  BY RuntimeAssumption
<1>1. CASE AcceptBlocks(t)
  BY <1>0, <1>1, SuspendJInv DEF AcceptBlocks
<1>2. CASE ServerEnds(t)
  BY <1>0, <1>2, FinishJInv DEF ServerEnds, process
<1> QED
  BY <1>1, <1>2, AcceptInlineJInv, DetachCreateJInv, RegistryAddJInv,
     DetachPushJInv, NextTurnJInv DEF Accepting
-----------------------------------------------------------------------------
(* sync_wait() and destroy_all().                                          *)

LEMMA SyncWaitJInv ==
  ASSUME TInv, JInv, SyncWait
  PROVE  JInv'
<1> USE FrameFacts
<1>0. Server \in Jobs /\ Conns = Jobs \ {Server}
  BY RuntimeAssumption DEF Conns
<1>1. /\ mpc = "start" /\ mpc' = "construct"
      /\ UNCHANGED <<cont, on, queue, armed, registry, srv, sock, epc>>
  BY DEF SyncWait, Create
<1>2. /\ frame'[Wrapper(Server)] = "suspended" /\ frame'[Inner(Server)] = "suspended"
      /\ \A f \in Frames \ {Wrapper(Server), Inner(Server)} : frame'[f] = frame[f]
  BY <1>0 DEF SyncWait, Create
<1>3. Absent(Server)
  BY <1>1 DEF JInv, CreateInv
<1>4. Fresh(Server)'
  BY <1>0, <1>1, <1>2, <1>3 DEF Absent, Untouched, Fresh, HeldBy, Queued, Starting
<1>5. \A k \in Jobs \ {Server} : Frozen(k)
  BY <1>0, <1>1, <1>2, OthersFrozen DEF HeldBy, Queued, Starting
<1>6. CreateInv'
  <2>1. ASSUME NEW c \in Conns PROVE (Absent(c) => Absent(c)') /\ (Fresh(c) => Fresh(c)')
    BY <1>0, <1>5, <2>1, FrozenStage
  <2>2. srv.at \in {"got", "add"} => srv.conn \in Conns
    BY DEF TInv, SInv, SrvOK
  <2>3. srv.at \in {"accept", "end"} /\ Inner(Server) \notin armed
    BY <1>0, <1>3, ServerRuns DEF Absent
  <2> QED
    BY <1>1, <2>1, <2>2, <2>3 DEF JInv, CreateInv
<1>7. AloneInv' /\ QueueInv'
  BY <1>1 DEF JInv, AloneInv, QueueInv
<1>8. RegInv'
  BY <1>0, <1>1, <1>5 DEF JInv, RegInv, Adding, Frozen
<1> QED
  BY <1>0, <1>4, <1>5, <1>6, <1>7, <1>8, JobMoves DEF Staged

\* execute() takes the mutex, and puts the wrapper into the queue.
LEMMA ExecuteJInv ==
  ASSUME TInv, JInv, Execute
  PROVE  JInv'
<1> USE FrameFacts
<1>0. Server \in Jobs /\ Conns = Jobs \ {Server}
  BY RuntimeAssumption DEF Conns
<1>1. CASE mpc = "call"
  BY <1>1, JFrame DEF Execute, Calling
<1>2. CASE mpc = "locked"
  <2>1. /\ Starting(Server) /\ ~Starting(Server)'
        /\ \A c \in Conns : Starting(c)' <=> Starting(c)
        /\ mpc' # "start"
        /\ queue \in Seq(Frames) /\ queue' = Append(queue, Wrapper(Server))
        /\ UNCHANGED <<frame, cont, on, armed, registry, srv, sock, epc>>
    BY <1>0, <1>2 DEF Execute, co, Starting, TInv, SInv, SrvOK, PlaceOK
  <2>2. Fresh(Server) \/ Dead(Server)
    BY <1>0, <2>1 DEF JInv, Staged, Absent, Untouched, First, Inside, Blocked, Ending
  <2>3. Wrapper(Server) \notin Range(queue)
    BY <2>1, <2>2 DEF Fresh, Dead, Queued
  <2>4. Range(queue') = Range(queue) \cup {Wrapper(Server)} /\ IsInjective(queue')
    BY <1>0, <2>1, <2>3, Appended DEF JInv, QueueInv
  <2>5. Staged(Server)'
    <3>1. Queued(Wrapper(Server))'
      BY <2>4 DEF Queued
    <3>2. Fresh(Server) => Fresh(Server)'
      BY <1>0, <2>1, <3>1 DEF Fresh, HeldBy
    <3>3. Dead(Server) => Dead(Server)'
      BY <1>0, <2>1, <3>1 DEF Dead, HeldBy
    <3> QED
      BY <2>2, <3>2, <3>3 DEF Staged
  <2>6. \A k \in Jobs \ {Server} : Frozen(k)
    <3>1. \A f \in Frames \ {Wrapper(Server), Inner(Server)} : Queued(f)' <=> Queued(f)
      BY <2>4 DEF Queued
    <3> QED
      BY <1>0, <2>1, <3>1, OthersFrozen DEF HeldBy
  <2>7. CreateInv'
    <3>1. ASSUME NEW c \in Conns PROVE (Absent(c) => Absent(c)') /\ (Fresh(c) => Fresh(c)')
      BY <1>0, <2>6, <3>1, FrozenStage
    <3>2. srv.at \in {"got", "add"} => srv.conn \in Conns
      BY DEF TInv, SInv, SrvOK
    <3> QED
      BY <2>1, <3>1, <3>2 DEF JInv, CreateInv
  <2>8. AloneInv' /\ QueueInv'
    BY <1>0, <2>1, <2>4 DEF JInv, AloneInv, QueueInv
  <2>9. RegInv'
    BY <2>1 DEF JInv, RegInv, Adding
  <2> QED
    BY <1>0, <2>5, <2>6, <2>7, <2>8, <2>9, JobMoves
<1> QED
  BY <1>1, <1>2 DEF Execute

LEMMA DestroyOneJInv ==
  ASSUME TInv, JInv, fault' = "none", NEW j \in Conns, DestroyOne(j)
  PROVE  JInv'
<1> USE FrameFacts
<1>0. j \in Jobs /\ j # Server
  BY DEF Conns
<1>1. /\ j \in registry /\ registry' = registry \ {j} /\ epc \in Late
      /\ UNCHANGED <<cont, thrown, on, queue, armed, srv, sock, mpc, epc>>
  BY DEF DestroyOne, process, Destroy, co, Late
<1>2. frame[Wrapper(j)] \in {"suspended", "running", "final"} /\ ~Adding(j)
  BY <1>1 DEF JInv, RegInv
<1>3. ~Absent(j)
  BY <1>2 DEF Absent
<1>4. /\ \A f \in Frames \ {Wrapper(j), Inner(j)} : frame'[f] = frame[f]
      /\ frame'[Wrapper(j)] \notin {"suspended", "running"}
      /\ Staged(j)'
  <2>1. CASE frame[Wrapper(j)] = "final"
    <3>1. UNCHANGED frame
      BY <2>1 DEF DestroyOne, co
    <3>2. Ending(j)'
      BY <1>0, <1>1, <2>1, <3>1, StageOf DEF Ending, HeldBy, Queued, Starting
    <3> QED
      BY <2>1, <3>1, <3>2 DEF Staged
  <2>2. CASE frame[Wrapper(j)] # "final"
    <3>1. CanDestroy(Wrapper(j)) /\ frame' = Destroyed(Wrapper(j))
      BY <1>2, <2>2 DEF DestroyOne, Destroy
    <3>2. frame[Wrapper(j)] # "running" /\ frame[Inner(j)] # "running"
      BY <1>0, <3>1 DEF CanDestroy
    <3>3. Fresh(j) \/ Blocked(j)
      BY <1>0, <1>2, <2>2, <3>2
         DEF JInv, Staged, Absent, First, Inside, Ending, Dead
    <3>4. /\ frame'[Wrapper(j)] = "destroyed" /\ frame'[Inner(j)] = "destroyed"
          /\ \A f \in Frames \ {Wrapper(j), Inner(j)} : frame'[f] = frame[f]
      BY <1>0, <3>1 DEF Destroyed
    <3>5. Dead(j)'
      BY <1>1, <3>3, <3>4 DEF Fresh, Blocked, Untouched, Dead, HeldBy, Queued, Starting
    <3> QED
      BY <3>4, <3>5 DEF Staged
  <2> QED
    BY <2>1, <2>2
<1>5. \A k \in Jobs \ {j} : Frozen(k)
  BY <1>0, <1>1, <1>4, OthersFrozen DEF HeldBy, Queued, Starting
<1>6. CreateInv'
  BY <1>0, <1>1, <1>2, <1>3, <1>5, CreateKept
<1>7. RegInv'
  BY <1>0, <1>1, <1>4, <1>5, RegKept DEF Frozen
<1>8. AloneInv' /\ QueueInv'
  BY <1>1 DEF JInv, AloneInv, QueueInv
<1> QED
  BY <1>0, <1>4, <1>5, <1>6, <1>7, <1>8, JobMoves
-----------------------------------------------------------------------------
LEMMA NextJInv ==
  ASSUME TInv, JInv, [Next]_vars, fault' = "none"
  PROVE  JInv'
<1>1. CASE MainRuns \/ \E t \in SigThreads : Signal(t)
  <2>1. CASE MainStep
    BY <2>1, JFrame DEF MainStep, Calling
  <2>2. CASE MainReturns \/ \E t \in SigThreads : Signal(t)
    BY <2>2, JFrame DEF MainReturns, Signal, Late, Calling
  <2>3. CASE FirstInstance
    BY <2>3, JFrame DEF FirstInstance, Calling
  <2> QED
    BY <1>1, <2>1, <2>2, <2>3, SyncWaitJInv, ExecuteJInv DEF MainRuns
<1>2. CASE Exit
  <2>1. CASE ExitStep
    BY <2>1, ExitStepFrame, LateStays, JFrame DEF Calling
  <2> QED
    BY <1>2, <2>1, DestroyOneJInv DEF Exit, ExitStep
<1>3. ASSUME NEW c \in Conns, Peer(c) PROVE JInv'
  <2>1. \A d \in Conns : sock'[d].up # "accepted" => sock[d].up # "accepted"
    BY <1>3 DEF Peer, TInv, SInv, SockOK, Socket
  <2> QED
    BY <1>3, <2>1, JFrame DEF Peer, process, Calling
<1>4. ASSUME NEW t \in Threads, UseOfDeadStatic(t) PROVE JInv'
  BY <1>4 DEF UseOfDeadStatic
<1>5. CASE UNCHANGED vars
  BY <1>5, JFrame DEF vars, process, Calling
<1> QED
  BY <1>1, <1>2, <1>3, <1>4, <1>5, NextCases, AcceptingJInv, CoroutineOfJInv,
     AcceptCallbackJInv, HandlerCallbackJInv, RunTaskJInv

LEMMA InitJInv == Init => JInv
<1> SUFFICES ASSUME Init PROVE JInv
  OBVIOUS
<1> USE FrameFacts
<1>1. Range(queue) = {} /\ IsInjective(queue)
  BY DEF Init, Range, IsInjective
<1>2. \A j \in Jobs : Absent(j)
  BY <1>1 DEF Init, CoInit, Absent, Untouched, HeldBy, Queued, Starting
<1>3. AloneInv /\ QueueInv
  BY <1>1 DEF Init, CoInit, AloneInv, QueueInv
<1>4. CreateInv
  BY <1>2, RuntimeAssumption DEF Init, CreateInv, Conns
<1>5. RegInv
  BY <1>2 DEF Init, RegInv, Absent, Conns
<1> QED
  BY <1>2, <1>3, <1>4, <1>5 DEF JInv, Staged

THEOREM Invariance == Spec => []IInv
<1>1. Init => IInv
  BY InitTInv, InitJInv DEF IInv
<1>2. IInv /\ [Next]_vars => IInv'
  <2>1. Next => fault = "none"
    BY DEF Next, MainRuns, SyncWait, FirstInstance, Execute, MainStep, MainReturns, Exit, HandlerLogs, StopBackend,
       JoinLoops, DestroyAllStarts, DestroyAllEnds, ExitBegins, RegistryDies, BackendDies,
       PoolDies, ProcessEnds, DestroyOne, WorkerStep, RunTask, LoopStep, AcceptCallback,
       HandlerCallback, Coroutine, Throw, Peer, Signal
  <2>2. UNCHANGED vars => fault' = fault
    BY DEF vars, co
  <2> QED
    BY <2>1, <2>2, NextTInv, NextJInv DEF IInv
<1> QED
  BY <1>1, <1>2, PTL DEF Spec
-----------------------------------------------------------------------------
(* What the invariant says of the properties.                              *)

\* The four parts of Resumptions(j), each of them nothing or one thing.
LEMMA Counted ==
  ASSUME JInv, NEW j \in Jobs
  PROVE  /\ Cardinality({i \in DOMAIN queue : queue[i] = Wrapper(j)})
              = IF Queued(Wrapper(j)) THEN 1 ELSE 0
         /\ Cardinality({Inner(j)} \cap armed) = IF Inner(j) \in armed THEN 1 ELSE 0
         /\ Cardinality({t \in Threads : on[t] \in {Wrapper(j), Inner(j)}})
              = IF HeldBy(Wrapper(j)) \/ HeldBy(Inner(j)) THEN 1 ELSE 0
<1>0. Cardinality({}) = 0 /\ \A x : Cardinality({x}) = 1
  BY FS_EmptySet, FS_Singleton
<1>1. Cardinality({i \in DOMAIN queue : queue[i] = Wrapper(j)})
        = IF Queued(Wrapper(j)) THEN 1 ELSE 0
  <2> DEFINE S == {i \in DOMAIN queue : queue[i] = Wrapper(j)}
  <2>1. CASE Queued(Wrapper(j))
    <3>1. PICK i \in DOMAIN queue : queue[i] = Wrapper(j)
      BY <2>1 DEF Queued, Range
    <3>2. S = {i}
      BY <3>1 DEF JInv, QueueInv, IsInjective
    <3> QED
      BY <1>0, <2>1, <3>2
  <2>2. CASE ~Queued(Wrapper(j))
    <3>1. S = {}
      BY <2>2 DEF Queued, Range
    <3> QED
      BY <1>0, <2>2, <3>1
  <2> QED
    BY <2>1, <2>2
<1>2. Cardinality({Inner(j)} \cap armed) = IF Inner(j) \in armed THEN 1 ELSE 0
  <2>1. CASE Inner(j) \in armed
    <3>1. {Inner(j)} \cap armed = {Inner(j)}
      BY <2>1
    <3> QED
      BY <1>0, <2>1, <3>1
  <2>2. CASE Inner(j) \notin armed
    <3>1. {Inner(j)} \cap armed = {}
      BY <2>2
    <3> QED
      BY <1>0, <2>2, <3>1
  <2> QED
    BY <2>1, <2>2
<1>3. Cardinality({t \in Threads : on[t] \in {Wrapper(j), Inner(j)}})
        = IF HeldBy(Wrapper(j)) \/ HeldBy(Inner(j)) THEN 1 ELSE 0
  <2> DEFINE S == {t \in Threads : on[t] \in {Wrapper(j), Inner(j)}}
  <2>1. CASE HeldBy(Wrapper(j)) \/ HeldBy(Inner(j))
    <3>1. PICK t \in Threads : on[t] \in {Wrapper(j), Inner(j)}
      BY <2>1 DEF HeldBy
    <3>2. S = {t}
      BY <3>1 DEF JInv, AloneInv
    <3> QED
      BY <1>0, <2>1, <3>2
  <2>2. CASE ~(HeldBy(Wrapper(j)) \/ HeldBy(Inner(j)))
    <3>1. S = {}
      BY <2>2 DEF HeldBy
    <3> QED
      BY <1>0, <2>2, <3>1
  <2> QED
    BY <2>1, <2>2
<1> QED
  BY <1>1, <1>2, <1>3

LEMMA OneThing ==
  ASSUME JInv, NEW j \in Jobs, Live(Wrapper(j))
  PROVE  Resumptions(j) = 1
<1> DEFINE Q == Cardinality({i \in DOMAIN queue : queue[i] = Wrapper(j)})
           A == Cardinality({Inner(j)} \cap armed)
           T == Cardinality({t \in Threads : on[t] \in {Wrapper(j), Inner(j)}})
           D == IF Starting(j) THEN 1 ELSE 0
<1>1. /\ Q = IF Queued(Wrapper(j)) THEN 1 ELSE 0
      /\ A = IF Inner(j) \in armed THEN 1 ELSE 0
      /\ T = IF HeldBy(Wrapper(j)) \/ HeldBy(Inner(j)) THEN 1 ELSE 0
  BY Counted
<1>2. Resumptions(j) = Q + A + T + D
  BY DEF Resumptions
<1> HIDE DEF Q, A, T
<1>3. Fresh(j) \/ First(j) \/ Inside(j) \/ Blocked(j) \/ Ending(j)
  BY DEF JInv, Staged, Absent, Dead
<1>4. Q + A + T + D = 1
  BY <1>1, <1>3 DEF Fresh, First, Inside, Blocked, Untouched, Ending
<1> QED
  BY <1>2, <1>4

\* Whichever way coroutines block, return or throw, on whichever thread, and
\* however far the process is on its way out: exactly one of the pool, the
\* backend, a thread and detach() will go on with each one that exists.
THEOREM ResumedOnce == Spec => []OneResumption
<1>1. IInv => OneResumption
  BY OneThing DEF IInv, OneResumption
<1> QED
  BY Invariance, <1>1, PTL

\* detached_registry holds no handle of a destroyed frame, and none is missing
\* of a coroutine that only destroy_all() could still reclaim.
THEOREM RegistryIsExact == Spec => []RegistryExact
<1>1. ASSUME TInv, JInv, NEW c \in Conns
      PROVE  /\ c \in registry => Live(Wrapper(c))
             /\ Inner(c) \in armed /\ Live(Inner(c)) => c \in registry
  <2>1. c \in registry => Live(Wrapper(c))
    BY <1>1 DEF JInv, RegInv
  <2>2. ASSUME Inner(c) \in armed, Live(Inner(c)) PROVE c \in registry
    <3>1. Blocked(c)
      BY <1>1, <2>2 DEF JInv, Conns, Staged, Absent, Fresh, First, Inside, Ending, Dead
    <3> QED
      BY <1>1, <3>1 DEF Blocked, Untouched, Starting, Adding, JInv, RegInv
  <2> QED
    BY <2>1, <2>2
<1>2. IInv => RegistryExact
  BY <1>1 DEF IInv, RegistryExact
<1> QED
  BY Invariance, <1>2, PTL
-----------------------------------------------------------------------------
(* The way out.  Unless shutdown() or main() leaves the pool or the backend *)
(* with coroutines, the process comes to its end and leaves none behind.    *)

\* What holds until the process is Unquiet.
WayOutInv ==
    /\ fault = "none"
    /\ on[Main] = Null
    /\ epc \in Late \cup {"lock"} => \A l \in Loops : on[l] = Null
    /\ epc \in {"none", "log", "stop"} => ~stopping
    /\ epc \in {"join", "lock", "destroying"} => stopping
    /\ gone # {} => epc \in Late
    /\ registry # {} => "registry" \in Range(born)
    /\ epc = "exited" => \A c \in Conns : ~Live(Wrapper(c))

\* While it is on its way out, no thread is in a coroutine and none gets into one.
LEMMA AllQuiet ==
  ASSUME WayOutInv, ~Unquiet, epc \in Late, epc # "exited"
  PROVE  /\ \A t \in Threads : on[t] = Null
         /\ queue = <<>> /\ (armed = {} \/ stopping)
<1>1. queue = <<>> /\ \A w \in Workers : on[w] = Null
  BY DEF Unquiet, Late
<1>2. \A t \in Threads : on[t] = Null
  BY <1>1, RuntimeAssumption DEF WayOutInv
<1>3. CASE epc = "destroying"
  BY <1>1, <1>2, <1>3 DEF WayOutInv
<1>4. CASE epc # "destroying"
  BY <1>1, <1>2, <1>4 DEF Unquiet, Late
<1> QED
  BY <1>3, <1>4

\* A thread that is in a coroutine does its step.
CoroutineStep(t) ==
    on[t] # Null /\ (Accepting(t) \/ UseOfDeadStatic(t) \/ \E j \in Jobs : CoroutineOf(t, j))

LEMMA ThreadCases ==
  ASSUME TInv, Next
  PROVE  \/ MainRuns \/ Exit \/ \E c \in Conns : Peer(c)
         \/ \E t \in SigThreads : Signal(t)
         \/ \E t \in Workers \cup Loops : CoroutineStep(t)
         \/ \E w \in Workers : RunTask(w)
         \/ \E l \in Loops : AcceptCallback(l) \/ \E c \in Conns : HandlerCallback(l, c)
<1>1. Workers \subseteq Threads /\ Loops \subseteq Threads
  BY RuntimeAssumption
<1>2. ASSUME NEW t \in Workers \cup Loops, Coroutine(t) PROVE CoroutineStep(t)
  <2>1. on[t] # Null /\ on[t][2] \in Jobs
    BY <1>1, <1>2, FrameFacts DEF Coroutine, TInv, CoTypeOK
  <2> QED
    BY <1>2, <2>1 DEF Coroutine, CoroutineOf, CoroutineStep
<1>3. ASSUME NEW t \in Workers \cup Loops, NEW j \in Jobs, Throw(t, j)
      PROVE  CoroutineStep(t)
  <2>1. on[t] # Null
    BY <1>3, FrameFacts DEF Throw, Finish
  <2> QED
    BY <1>3, <2>1 DEF CoroutineOf, CoroutineStep
<1> QED
  BY <1>1, <1>2, <1>3 DEF Next, WorkerStep, LoopStep

\* A static object that is used is alive from then on, as are the others.
LEMMA Touched ==
  ASSUME ProcessOK, NEW x \in Statics, Touch(x)
  PROVE  Range(born) \subseteq Range(born') /\ x \in Range(born')
<1>1. CASE \E i \in DOMAIN born : born[i] = x
  BY <1>1 DEF Touch, Born, Range
<1>2. CASE ~\E i \in DOMAIN born : born[i] = x
  BY <1>2, Appended DEF Touch, Born, ProcessOK
<1> QED
  BY <1>1, <1>2

\* What the steps of threads have in common: none is part of the way out.
LEMMA ThreadStepFrame ==
  ASSUME TInv, NEW t \in Threads,
         CoroutineStep(t) \/ RunTask(t) \/ AcceptCallback(t) \/ \E c \in Conns : HandlerCallback(t, c)
  PROVE  /\ UNCHANGED <<ethread, epc, stopping, gone>>
         /\ epc # "exited"
         /\ \A u \in Threads \ {t} : on'[u] = on[u]
         /\ registry' # {} => registry # {} \/ "registry" \in Range(born')
         /\ Range(born) \subseteq Range(born')
<1> USE FrameFacts DEF process
<1>0. born \in Seq(Statics) /\ Statics = {"registry", "backend", "instance"}
  BY DEF TInv, ProcessOK, Statics
<1>1. ASSUME NEW x \in Statics, Touch(x)
      PROVE  Range(born) \subseteq Range(born') /\ x \in Range(born')
  BY <1>1, Touched DEF TInv
<1>2. ASSUME NEW j \in Jobs, CoroutineOf(t, j)
      PROVE  /\ UNCHANGED <<ethread, epc, stopping, gone>> /\ epc # "exited"
             /\ \A u \in Threads \ {t} : on'[u] = on[u]
             /\ registry' \subseteq registry
             /\ Range(born) \subseteq Range(born')
  <2>1. CASE StartInner(t, j) \/ HandlerReturns(t, j) \/ Throw(t, j)
    BY <2>1 DEF StartInner, AwaitTask, HandlerReturns, Throw, Finish, TInv, CoTypeOK
  <2>2. CASE WrapperEnds(t, j) \/ HandlerInline(t, j)
    BY <2>2 DEF WrapperEnds, HandlerInline, co
  <2>3. CASE WrapperGone(t, j)
    BY <2>3 DEF WrapperGone, SelfDestroy, TInv, CoTypeOK
  <2>4. CASE RegistryRemove(t, j)
    BY <1>0, <1>1, <2>4 DEF RegistryRemove
  <2>5. CASE HandlerBlocks(t, j)
    BY <1>0, <1>1, <2>5 DEF HandlerBlocks, Suspend, TInv, CoTypeOK
  <2> QED
    BY <1>2, <2>1, <2>2, <2>3, <2>4, <2>5 DEF CoroutineOf
<1>3. CASE Accepting(t)
  <2>1. CASE AcceptInline(t) \/ NextTurn(t) \/ DetachPush(t)
    BY <2>1 DEF AcceptInline, NextTurn, DetachPush, co
  <2>2. CASE AcceptBlocks(t)
    BY <1>0, <1>1, <2>2 DEF AcceptBlocks, Suspend, TInv, CoTypeOK
  <2>3. CASE DetachCreate(t)
    BY <2>3 DEF DetachCreate, Create
  <2>4. CASE RegistryAdd(t)
    BY <1>0, <1>1, <2>4 DEF RegistryAdd, co
  <2>5. CASE ServerEnds(t)
    BY <2>5 DEF ServerEnds, Finish, TInv, CoTypeOK
  <2> QED
    BY <1>3, <2>1, <2>2, <2>3, <2>4, <2>5 DEF Accepting
<1>4. CASE UseOfDeadStatic(t)
  BY <1>4 DEF UseOfDeadStatic
<1>5. CASE RunTask(t) \/ AcceptCallback(t) \/ \E c \in Conns : HandlerCallback(t, c)
  BY <1>5 DEF RunTask, AcceptCallback, HandlerCallback, Resume, TInv, CoTypeOK
<1> QED
  BY <1>2, <1>3, <1>4, <1>5 DEF CoroutineStep

\* Before shutdown() destroys anything a frame that is to be resumed is there.
LEMMA ThreadStepSafe ==
  ASSUME TInv, JInv, WayOutInv, epc \notin Late, NEW t \in Threads,
         CoroutineStep(t) \/ RunTask(t) \/ AcceptCallback(t) \/ \E c \in Conns : HandlerCallback(t, c)
  PROVE  fault' = "none"
<1> USE FrameFacts DEF process
<1>0. fault = "none" /\ gone = {} /\ Server \in Jobs /\ Conns \subseteq Jobs
  BY RuntimeAssumption DEF WayOutInv, Conns
<1>1. ASSUME NEW j \in Jobs, Inner(j) \in armed PROVE frame[Inner(j)] = "suspended"
  BY <1>1 DEF JInv, Staged, Absent, Fresh, First, Inside, Blocked, Ending, Dead
<1>2. CASE RunTask(t)
  <2>1. Head(queue) \in Range(queue)
    BY <1>2, Shifted DEF RunTask, TInv, PlaceOK, JInv, QueueInv
  <2>2. PICK j \in Jobs : Head(queue) = Wrapper(j)
    BY <2>1 DEF JInv, QueueInv
  <2>3. Queued(Wrapper(j))
    BY <2>1, <2>2 DEF Queued
  <2>4. frame[Wrapper(j)] = "suspended"
    BY <2>3 DEF JInv, Staged, Absent, Untouched, Fresh, First, Inside, Blocked, Ending, Dead
  <2> QED
    BY <1>0, <1>2, <2>2, <2>4 DEF RunTask, Resume
<1>3. CASE AcceptCallback(t)
  BY <1>0, <1>1, <1>3 DEF AcceptCallback, Resume
<1>4. ASSUME NEW c \in Conns, HandlerCallback(t, c) PROVE fault' = "none"
  BY <1>0, <1>1, <1>4 DEF HandlerCallback, Resume
<1>5. CASE UseOfDeadStatic(t)
  BY <1>0, <1>5 DEF UseOfDeadStatic
<1>6. CASE Accepting(t)
  BY <1>0, <1>6 DEF Accepting, AcceptInline, AcceptBlocks, DetachCreate, Create, RegistryAdd,
     DetachPush, NextTurn, ServerEnds, Finish, Suspend, co
<1>7. ASSUME NEW j \in Jobs, CoroutineOf(t, j) PROVE fault' = "none"
  <2>1. CASE WrapperGone(t, j)
    <3>1. Ending(j) /\ frame[Wrapper(j)] = "unhooked"
      BY <2>1, StageOf DEF WrapperGone
    <3>2. CanDestroy(Wrapper(j))
      BY <3>1 DEF CanDestroy, Ending
    <3> QED
      BY <1>0, <2>1, <3>2 DEF WrapperGone, SelfDestroy
  <2>2. CASE ~WrapperGone(t, j)
    BY <1>0, <1>7, <2>2 DEF CoroutineOf, StartInner, AwaitTask, WrapperEnds, RegistryRemove,
       HandlerInline, HandlerBlocks, Suspend, HandlerReturns, Throw, Finish, co
  <2> QED
    BY <2>1, <2>2
<1> QED
  BY <1>2, <1>3, <1>4, <1>5, <1>6, <1>7 DEF CoroutineStep

LEMMA ThreadWayOut ==
  ASSUME TInv, JInv, WayOutInv, ~Unquiet,
         \/ \E t \in Workers \cup Loops : CoroutineStep(t)
         \/ \E w \in Workers : RunTask(w)
         \/ \E l \in Loops : AcceptCallback(l) \/ \E c \in Conns : HandlerCallback(l, c)
  PROVE  WayOutInv'
<1>1. PICK t \in Workers \cup Loops :
        \/ CoroutineStep(t)
        \/ t \in Workers /\ RunTask(t)
        \/ t \in Loops /\ (AcceptCallback(t) \/ \E c \in Conns : HandlerCallback(t, c))
  OBVIOUS
<1>2. t \in Threads /\ t # Main /\ Main \in Threads /\ Loops \subseteq Threads
      /\ Workers \cap Loops = {}
  BY RuntimeAssumption
<1>3. /\ UNCHANGED <<ethread, epc, stopping, gone>>
      /\ epc # "exited"
      /\ \A u \in Threads \ {t} : on'[u] = on[u]
      /\ registry' # {} => registry # {} \/ "registry" \in Range(born')
      /\ Range(born) \subseteq Range(born')
  BY <1>1, <1>2, ThreadStepFrame
<1>4. epc \notin Late
  <2> SUFFICES ASSUME epc \in Late PROVE FALSE
    OBVIOUS
  <2>1. on[t] = Null /\ queue = <<>> /\ (armed = {} \/ stopping)
    BY <1>2, <1>3, AllQuiet
  <2> QED
    BY <1>1, <2>1 DEF CoroutineStep, RunTask, AcceptCallback, HandlerCallback
<1>5. fault' = "none"
  BY <1>1, <1>2, <1>4, ThreadStepSafe
<1>6. epc = "lock" => t \notin Loops
  <2> SUFFICES ASSUME epc = "lock", t \in Loops PROVE FALSE
    OBVIOUS
  <2>1. on[t] = Null /\ stopping
    BY DEF WayOutInv
  <2>2. ~CoroutineStep(t)
    BY <2>1 DEF CoroutineStep
  <2>3. ~AcceptCallback(t) /\ ~\E c \in Conns : HandlerCallback(t, c)
    BY <2>1 DEF AcceptCallback, HandlerCallback
  <2> QED
    BY <1>1, <1>2, <2>2, <2>3
<1>7. epc' \in Late \cup {"lock"} => \A l \in Loops : on'[l] = Null
  BY <1>2, <1>3, <1>4, <1>6 DEF WayOutInv
<1>8. on'[Main] = Null
  BY <1>2, <1>3 DEF WayOutInv
<1>9. epc' \in {"none", "log", "stop"} => ~stopping'
  BY <1>3 DEF WayOutInv
<1>10. epc' \in {"join", "lock", "destroying"} => stopping'
  BY <1>3 DEF WayOutInv
<1> QED
  BY <1>3, <1>5, <1>7, <1>8, <1>9, <1>10 DEF WayOutInv

\* The destructor of one static object leaves the others alive.
LEMMA DiesKeeps ==
  ASSUME ProcessOK, NEW x \in Statics, Dies(x), NEW y \in Range(born), y # x
  PROVE  y \in Range(born')
<1>1. PICK i \in DOMAIN born :
        /\ born[i] = x
        /\ born' = SubSeq(born, 1, i - 1) \o SubSeq(born, i + 1, Len(born))
  BY DEF Dies
<1>2. PICK k \in DOMAIN born : born[k] = y
  BY DEF Range
<1> DEFINE a == SubSeq(born, 1, i - 1)
           b == SubSeq(born, i + 1, Len(born))
<1>3. born \in Seq(Statics) /\ Len(born) \in Nat /\ i \in 1 .. Len(born) /\ k \in 1 .. Len(born)
      /\ k # i
  BY <1>1, <1>2 DEF ProcessOK
<1>4. /\ a \in Seq(Statics) /\ Len(a) = i - 1
      /\ \A n \in 1 .. i - 1 : a[n] = born[n]
  BY <1>3, SubSeqProperties
<1>5. /\ b \in Seq(Statics) /\ Len(b) = Len(born) - i
      /\ \A n \in 1 .. Len(born) - i : b[n] = born[i + n]
  BY <1>3, SubSeqProperties
<1> HIDE DEF a, b
<1>6. /\ born' \in Seq(Statics) /\ Len(born') = Len(a) + Len(b)
      /\ \A n \in 1 .. Len(a) + Len(b) : born'[n] = IF n <= Len(a) THEN a[n] ELSE b[n - Len(a)]
  BY <1>1, <1>4, <1>5, ConcatProperties DEF a, b
<1>7. Len(a) \in Nat /\ Len(b) \in Nat /\ Len(a) + Len(b) = Len(born) - 1
  BY <1>3, <1>4, <1>5
<1>8. PICK n \in 1 .. Len(born') : born'[n] = y
  <2>1. CASE k < i
    <3>1. k \in 1 .. i - 1 /\ k <= Len(a)
      BY <1>3, <1>4, <2>1
    <3>2. k \in 1 .. Len(a) + Len(b)
      BY <1>3, <1>7, <3>1
    <3> QED
      BY <1>2, <1>4, <1>6, <3>1, <3>2
  <2>2. CASE k > i
    <3>1. k - i \in 1 .. Len(born) - i /\ i + (k - i) = k
      BY <1>3, <2>2
    <3>2. k - 1 \in 1 .. Len(a) + Len(b)
      BY <1>3, <1>7, <2>2
    <3>3. ~(k - 1 <= Len(a)) /\ (k - 1) - Len(a) = k - i
      BY <1>3, <1>4, <2>2
    <3>4. born'[k - 1] = b[k - i] /\ b[k - i] = born[i + (k - i)]
      BY <1>5, <1>6, <3>1, <3>2, <3>3
    <3> QED
      BY <1>2, <1>6, <3>1, <3>2, <3>4
  <2> QED
    BY <1>3, <2>1, <2>2
<1> QED
  BY <1>6, <1>8 DEF Range

\* With every thread at rest no detached coroutine is left outside the registry.
LEMMA Reclaimed ==
  ASSUME TInv, JInv, \A t \in Threads : on[t] = Null, queue = <<>>, registry = {},
         NEW c \in Conns
  PROVE  ~Live(Wrapper(c))
<1> USE FrameFacts
<1>0. c \in Jobs /\ Server \in Jobs /\ c # Server
  BY RuntimeAssumption DEF Conns
<1>1. \A j \in Jobs : ~HeldBy(Wrapper(j)) /\ ~HeldBy(Inner(j)) /\ ~Queued(Wrapper(j))
  BY DEF HeldBy, Queued, Range
<1>2. frame[Inner(Server)] # "running"
  BY <1>0, <1>1, StageOf DEF Inside
<1>3. ~Starting(c) /\ ~Adding(c)
  BY <1>0, <1>2 DEF JInv, CreateInv, Starting, Adding
<1>4. frame[Wrapper(c)] \notin {"suspended", "running"}
  BY <1>3 DEF JInv, RegInv
<1>5. Staged(c)
  BY <1>0 DEF JInv
<1> QED
  BY <1>0, <1>1, <1>4, <1>5
     DEF Staged, Absent, Fresh, First, Inside, Blocked, Ending, Dead

LEMMA ExitWayOut ==
  ASSUME TInv, JInv, WayOutInv, ~Unquiet, ExitStep
  PROVE  WayOutInv'
<1>1. UNCHANGED <<co, queue, armed, registry, srv, handler, sock, promise, mpc>> /\ epc # "exited"
  <2>1. epc # "exited"
    BY DEF ExitStep, HandlerLogs, StopBackend, JoinLoops, DestroyAllStarts,
       DestroyAllEnds, ExitBegins, RegistryDies, BackendDies, PoolDies, ProcessEnds
  <2> QED
    BY <2>1, ExitStepFrame
<1>2. fault' = "none" /\ on'[Main] = Null
  BY <1>1 DEF WayOutInv, co
<1>3. CASE ExitBegins
  <2>1. Last \in Statics
    BY <1>3 DEF ExitBegins, Last, TInv, ProcessOK
  <2>2. epc = "exit" /\ epc' \in {"dying", "closing", "draining"} /\ UNCHANGED <<born, gone>>
    BY <1>3, <2>1 DEF ExitBegins, Destructor, Statics
  <2> QED
    BY <1>1, <1>2, <2>2 DEF WayOutInv, Late, co
<1>4. CASE HandlerLogs \/ StopBackend \/ JoinLoops
  <2>1. /\ epc \notin Late /\ UNCHANGED gone
        /\ \/ epc' = "stop" /\ epc = "log" /\ stopping' = stopping
           \/ epc' = "join" /\ stopping' = TRUE
           \/ epc' = "lock" /\ epc = "join" /\ stopping' = stopping /\ LoopsEnded
    BY <1>4 DEF HandlerLogs, StopBackend, JoinLoops, Late
  <2>2. epc' \notin Late /\ epc' # "exited" /\ gone' = {}
    BY <2>1 DEF WayOutInv, Late
  <2>3. epc' = "lock" => \A l \in Loops : on'[l] = Null
    BY <1>1, <2>1 DEF LoopsEnded, co
  <2>4. (epc' = "stop" => ~stopping') /\ epc' \notin {"none", "log"}
    BY <2>1 DEF WayOutInv
  <2>5. (epc' \in {"join", "lock"} => stopping') /\ epc' # "destroying"
    BY <2>1 DEF WayOutInv
  <2>6. Range(born) \subseteq Range(born')
    BY <1>4, Touched DEF HandlerLogs, StopBackend, JoinLoops, Statics, TInv
  <2> QED
    BY <1>1, <1>2, <2>2, <2>3, <2>4, <2>5, <2>6 DEF WayOutInv
<1>5. CASE DestroyAllStarts
  <2>1. Range(born) \subseteq Range(born')
    BY <1>5, Touched DEF DestroyAllStarts, Statics, TInv
  <2>2. epc = "lock" /\ epc' = "destroying" /\ UNCHANGED <<stopping, gone>>
    BY <1>5 DEF DestroyAllStarts
  <2> QED
    BY <1>1, <1>2, <2>1, <2>2 DEF WayOutInv, Late, co
<1>6. CASE DestroyAllEnds
  BY <1>1, <1>2, <1>6 DEF DestroyAllEnds, WayOutInv, Late, co
<1>7. CASE RegistryDies \/ BackendDies \/ PoolDies
  <2>1. epc \in Late /\ epc' = "exit"
    BY <1>7 DEF RegistryDies, BackendDies, PoolDies, Late
  <2>2. registry' # {} => "registry" \in Range(born')
    BY <1>1, <1>7, DiesKeeps
       DEF RegistryDies, BackendDies, PoolDies, WayOutInv, TInv, Statics
  <2> QED
    BY <1>1, <1>2, <2>1, <2>2 DEF WayOutInv, Late, co
<1>8. CASE ProcessEnds
  <2>1. epc = "exit" /\ epc' = "exited" /\ born = <<>> /\ UNCHANGED <<born, gone>>
    BY <1>8 DEF ProcessEnds
  <2>2. registry = {}
    BY <2>1 DEF WayOutInv, Range
  <2>3. \A t \in Threads : on[t] = Null
    BY <2>1, AllQuiet DEF Late
  <2>4. queue = <<>>
    BY <2>1, AllQuiet DEF Late
  <2>5. \A c \in Conns : ~Live(Wrapper(c))
    BY <2>2, <2>3, <2>4, Reclaimed
  <2> QED
    BY <1>1, <1>2, <2>1, <2>2, <2>5 DEF WayOutInv, Late, co
<1> QED
  BY <1>3, <1>4, <1>5, <1>6, <1>7, <1>8 DEF ExitStep

\* destroy_all() finds each frame of the registry suspended.
LEMMA DestroyWayOut ==
  ASSUME TInv, JInv, WayOutInv, ~Unquiet, NEW j \in Conns, DestroyOne(j)
  PROVE  WayOutInv'
<1> USE FrameFacts
<1>1. /\ j \in Jobs /\ epc \in {"destroying", "dying"} /\ j \in registry
      /\ registry' = registry \ {j} /\ UNCHANGED <<on, epc, stopping, born, gone>>
  BY DEF DestroyOne, Conns, process, Destroy, co
<1>2. \A k \in Jobs : ~HeldBy(Wrapper(k)) /\ ~HeldBy(Inner(k))
  BY <1>1, AllQuiet DEF HeldBy, Late
<1>3. frame[Wrapper(j)] \in {"suspended", "running", "final"}
  BY <1>1 DEF JInv, RegInv
<1>4. Fresh(j) \/ Blocked(j)
  BY <1>1, <1>2, <1>3 DEF JInv, Staged, Absent, First, Inside, Ending, Dead
<1>5. CanDestroy(Wrapper(j))
  BY <1>1, <1>4 DEF CanDestroy, Fresh, Blocked
<1>6. fault' = "none"
  BY <1>5 DEF DestroyOne, Destroy, WayOutInv, co
<1> QED
  BY <1>1, <1>6 DEF WayOutInv

LEMMA MainWayOut ==
  ASSUME TInv, WayOutInv, ~Unquiet, ~Unquiet', MainRuns \/ \E t \in SigThreads : Signal(t)
  PROVE  WayOutInv'
<1>1. CASE FirstInstance
  <2>1. Range(born) \subseteq Range(born')
    BY <1>1, Touched DEF FirstInstance, Statics, TInv
  <2>2. UNCHANGED <<on, fault, epc, stopping, gone, registry>> /\ epc # "exited"
    BY <1>1 DEF FirstInstance, co
  <2> QED
    BY <2>1, <2>2 DEF WayOutInv
<1>2. CASE SyncWait \/ Execute \/ MainStep
  <2>1. UNCHANGED <<on, fault, epc, stopping, born, gone, registry>> /\ epc # "exited"
    BY <1>2 DEF SyncWait, Create, Execute, MainStep, co
  <2> QED
    BY <2>1 DEF WayOutInv
<1>3. CASE MainReturns
  <2>1. /\ epc = "none" /\ epc' = "exit"
        /\ UNCHANGED <<on, fault, stopping, born, gone, registry>>
    BY <1>3 DEF MainReturns, co
  <2>2. ~stopping
    BY <2>1 DEF WayOutInv
  <2>3. \A l \in Loops : on'[l] = Null
    BY <2>1, <2>2 DEF Unquiet
  <2> QED
    BY <2>1, <2>3 DEF WayOutInv, Late
<1>4. CASE \E t \in SigThreads : Signal(t)
  <2>1. /\ epc = "none" /\ epc' = "log"
        /\ UNCHANGED <<on, fault, stopping, born, gone, registry>>
    BY <1>4 DEF Signal, co
  <2> QED
    BY <2>1 DEF WayOutInv, Late
<1> QED
  BY <1>1, <1>2, <1>3, <1>4 DEF MainRuns

\* Unless the process becomes Unquiet, no frame and no static object is used
\* after its destruction, and when it has exited none of the coroutines that it
\* detached is left, whenever the signal comes and however main() ends.
THEOREM ShutdownIsClean == Spec => ShutdownClean
<1>1. Init => WayOutInv
  <2>1. Main \in Threads /\ Loops \subseteq Threads
    BY RuntimeAssumption
  <2> QED
    BY <2>1 DEF Init, CoInit, WayOutInv, Late
<1>2. IInv /\ WayOutInv /\ ~Unquiet /\ ~Unquiet' /\ [Next]_vars => WayOutInv'
  <2> SUFFICES ASSUME IInv, WayOutInv, ~Unquiet, ~Unquiet', [Next]_vars
               PROVE  WayOutInv'
    OBVIOUS
  <2>1. TInv /\ JInv
    BY DEF IInv, WayOutInv
  <2>2. CASE Exit
    BY <2>1, <2>2, ExitWayOut, DestroyWayOut DEF Exit, ExitStep
  <2>3. ASSUME NEW c \in Conns, Peer(c) PROVE WayOutInv'
    <3>1. UNCHANGED <<frame, on, fault, epc, stopping, born, gone, registry>>
      BY <2>3 DEF Peer, co, process
    <3> QED
      BY <3>1 DEF WayOutInv
  <2>4. CASE UNCHANGED vars
    <3>1. UNCHANGED <<frame, on, fault, epc, stopping, born, gone, registry>>
      BY <2>4 DEF vars, co, process
    <3> QED
      BY <3>1 DEF WayOutInv
  <2> QED
    BY <2>1, <2>2, <2>3, <2>4, ThreadCases, ThreadWayOut, MainWayOut
<1>3. WayOutInv => fault = "none" /\ (epc = "exited" => \A c \in Conns : ~Live(Wrapper(c)))
  BY DEF WayOutInv
<1> QED
  BY <1>1, <1>2, <1>3, Invariance, PTL DEF Spec, ShutdownClean
=============================================================================
