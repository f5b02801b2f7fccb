------------------------------ MODULE StreamIO ------------------------------
(***************************************************************************)
(* The awaitables of src/async.cc: co_connect and co_accept, which give a  *)
(* coroutine at each end a TCP connection, and co_read, co_read_until and  *)
(* co_write on it.  The coroutines use them in any order, or are the echo  *)
(* client and server of test/.                                             *)
(*                                                                         *)
(* An awaitable first tries the system call in await_ready() (phase        *)
(* "ready").  When that would block it hands a callback to the backend     *)
(* (phase "armed"), which performs the call once the socket allows and     *)
(* runs the callback; the callback resumes the coroutine (phase "done") or *)
(* asks the backend again.  Bytes are numbers, so that one that is lost,   *)
(* repeated or put in the wrong place is seen.                             *)
(***************************************************************************)
EXTENDS Integers, Sequences

CONSTANTS Cap,       \* what the buffers of one direction of the socket hold
          Sizes,     \* the sizes of the vectors passed to the operations
          Kinds,     \* the operations that each end uses
          Messages,  \* the sizes of the messages of the echo client
          Buffer,    \* the size of the vector of the echo server
          MaxBytes,  \* bounds what one end writes, for each program
          MayRefuse  \* the backend may refuse an operation, or call back with
                     \* EAGAIN because somebody else has drained the socket

Ends == {"client", "server"}
Peer(e) == IF e = "client" THEN "server" ELSE "client"

ASSUME StreamAssumption ==
    /\ Cap \in Nat \ {0} /\ Sizes \cup Messages \cup {Buffer} \subseteq Nat \ {0}
    /\ MaxBytes \in [{"any", "echo"} -> Nat]
    /\ Kinds \in [Ends -> SUBSET {"read", "until", "write"}]
    /\ MayRefuse \in BOOLEAN

VARIABLES program, \* what the coroutines run
          tcp,     \* the handshake, as the kernel of the client sees it
          conn,    \* the awaitable of connect or accept at each end
          wire,    \* the bytes on their way to each end, oldest first
          closed,  \* whether each end has closed its descriptor
          reset,   \* whether each end has received a RST
          op,      \* the awaitable of each end: buf is its vector, n is total
                   \* or written, res the value it is resumed with
          offered, \* history: how many bytes each end has passed to co_write
          seen     \* history: how many bytes the reads of each end reported

net  == <<wire, closed, reset>>
link == <<program, tcp, conn>>
vars == <<link, net, op, offered, seen>>

\* Results of a system call other than a count.
Err   == -1
Again == -2

Bytes == 0 .. MaxBytes[program]

TypeOK ==
    /\ program \in {"any", "echo"} /\ tcp \in {"none", "syn", "up", "refused"}
    /\ conn \in [Ends -> {"none", "called", "armed", "open", "failed"}]
    /\ wire \in [Ends -> Seq(Bytes)] /\ \A e \in Ends : Len(wire[e]) <= Cap
    /\ closed \in [Ends -> BOOLEAN] /\ reset \in [Ends -> BOOLEAN]
    /\ op \in [Ends -> [kind : {"none", "read", "until", "write"},
                       phase : {"idle", "ready", "armed", "done"},
                       buf : Seq(Bytes), n : Nat, res : {Err} \cup Nat]]
    /\ \A e \in Ends : op[e].n <= Len(op[e].buf) /\ op[e].res <= Len(op[e].buf)
    /\ offered \in [Ends -> Bytes] /\ seen \in [Ends -> Bytes]

Init ==
    /\ program \in {"any", "echo"} /\ tcp = "none" /\ conn = [e \in Ends |-> "none"]
    /\ wire = [e \in Ends |-> <<>>]
    /\ closed = [e \in Ends |-> FALSE] /\ reset = [e \in Ends |-> FALSE]
    /\ op = [e \in Ends |-> [kind |-> "none", phase |-> "idle", buf |-> <<>>,
                             n |-> 0, res |-> 0]]
    /\ offered = [e \in Ends |-> 0] /\ seen = [e \in Ends |-> 0]

(* Faulty variants of definitions below: a run with the variant in place   *)
(* of the definition violates the property it is listed with.              *)

\* The length of the whole vector is passed at any offset.
RestWhole(e) == Len(op[e].buf)
\* do_read() passes the start of the vector.
OffsetNone(e) == 0
\* What was sent is not counted, or any of it is taken for all.
GoesOnUncounted(e, buf, n) ==
    op' = [op EXCEPT ![e].buf = buf, ![e].phase = IF n = Len(buf) THEN "done" ELSE @,
                     ![e].res = IF n = Len(buf) THEN n ELSE @]
GoesOnOnce(e, buf, n) ==
    op' = [op EXCEPT ![e].buf = buf, ![e].n = n, ![e].phase = "done", ![e].res = n]
\* After EAGAIN the operation is not registered again.
RetriesNot(e) == op' = [op EXCEPT ![e].phase = "lost"]
\* A handshake that is over when the backend learns of the descriptor is missed.
RegisterLate(e) ==
    /\ conn[e] = "called"
    /\ conn' = [conn EXCEPT ![e] = IF tcp \in {"none", "syn"} THEN "armed" ELSE "missed"]
    /\ UNCHANGED <<program, tcp, net, op, offered, seen>>
\* The descriptor of a connection that failed is not closed.
GivesUpOpen(e) == UNCHANGED net
-----------------------------------------------------------------------------
UpTo(a, b) == 1 .. (IF a < b THEN a ELSE b)
At(e, kind, phase) == op[e].kind = kind /\ op[e].phase = phase
Rest(e) == Len(op[e].buf) - op[e].n
Offset(e) == op[e].n
-----------------------------------------------------------------------------
(* The socket.                                                             *)

\* What recv() of at most len bytes may return at end e.
Recv(e, len) ==
    IF wire[e] # <<>> THEN UpTo(len, Len(wire[e]))
    ELSE IF reset[e] THEN {Err} ELSE IF closed[Peer(e)] THEN {0} ELSE {Again}

\* What send() of len bytes may return: the kernel takes what it has room for.
Send(e, len) ==
    IF reset[e] THEN {Err}
    ELSE IF Len(wire[Peer(e)]) = Cap /\ ~closed[Peer(e)] THEN {Again}
    ELSE UpTo(len, Cap - Len(wire[Peer(e)]))

\* What the backend may pass to the callback of an operation whose system
\* call would return something in results.
Completion(results) == (results \ {Again}) \cup (IF MayRefuse THEN {Err, Again} ELSE {})

\* recv() has returned r: r bytes move into the vector, past the first n.
Took(e, n, r) ==
    [j \in DOMAIN op[e].buf |->
        IF j \in n + 1 .. n + r THEN wire[e][j - n] ELSE op[e].buf[j]]

Drain(e, r) ==
    /\ wire' = IF r > 0 THEN [wire EXCEPT ![e] = SubSeq(@, r + 1, Len(@))] ELSE wire
    /\ UNCHANGED <<closed, reset>>

\* send() has returned r: r bytes past the first n leave the vector.  When
\* nobody is there to take them they are lost, and answered with a RST, which
\* may come too late to matter.
Put(e, n, r) ==
    /\ IF r > 0 /\ ~closed[Peer(e)]
       THEN wire' = [wire EXCEPT ![Peer(e)] = @ \o SubSeq(op[e].buf, n + 1, n + r)]
       ELSE UNCHANGED wire
    /\ reset' \in {reset} \cup (IF r > 0 /\ closed[Peer(e)]
                               THEN {[reset EXCEPT ![e] = TRUE]} ELSE {})
    /\ UNCHANGED closed

\* The last copy of a descriptor goes away.  Closing with data unread sends a
\* RST, which overtakes what this end has sent.
GivesUp(e) ==
    /\ closed' = [closed EXCEPT ![e] = TRUE]
    /\ IF wire[e] = <<>>
       THEN UNCHANGED <<wire, reset>>
       ELSE /\ reset' = [reset EXCEPT ![Peer(e)] = TRUE]
            /\ \E k \in 0 .. Len(wire[Peer(e)]) :
                 wire' = [wire EXCEPT ![e] = <<>>, ![Peer(e)] = SubSeq(@, 1, k)]

Close(e) ==
    /\ conn[e] = "open" /\ op[e].phase = "idle" /\ ~closed[e]
    /\ GivesUp(e)
    /\ UNCHANGED <<link, op, offered, seen>>
-----------------------------------------------------------------------------
(* connect_awaitable and accept_awaitable: the attempt, the registration   *)
(* with the backend when that would block, and the callback.  The other    *)
(* end goes on between any two of them.                                    *)

\* What the callback makes of the connection.
Decided(ok) == IF ok THEN "open" ELSE "failed"

\* await_suspend(): connect() succeeds at once, and the coroutine does not
\* suspend, or goes on in the background, or socket() or connect() fails, which
\* destroys the descriptor.
Connect ==
    /\ conn["client"] = "none"
    /\ \/ /\ tcp' = "up" /\ conn' = [conn EXCEPT !["client"] = "open"]
          /\ UNCHANGED net
       \/ /\ tcp' = "syn" /\ conn' = [conn EXCEPT !["client"] = "called"]
          /\ UNCHANGED net
       \/ /\ MayRefuse /\ tcp' = "refused"
          /\ conn' = [conn EXCEPT !["client"] = "failed"]
          /\ GivesUp("client")
    /\ UNCHANGED <<program, op, offered, seen>>

Handshake ==
    /\ tcp = "syn"
    /\ tcp' \in {"up"} \cup (IF MayRefuse THEN {"refused"} ELSE {})
    /\ UNCHANGED <<program, conn, net, op, offered, seen>>

\* async_io(): whatever has become of the handshake by now, the backend reports.
Register(e) ==
    /\ conn[e] = "called"
    /\ conn' = [conn EXCEPT ![e] = "armed"]
    /\ UNCHANGED <<program, tcp, net, op, offered, seen>>

\* The error of the socket when it becomes writable (epoll), or of a second
\* connect() (io_uring), which can also find the first one still under way.
\* The awaitable that failed is destroyed with its descriptor, even when the
\* handshake is complete and the server has accepted.
ConnectCallback ==
    /\ conn["client"] = "armed"
    /\ \E ok \in BOOLEAN :
        /\ ok => tcp = "up"
        /\ ~ok => tcp = "refused" \/ MayRefuse
        /\ conn' = [conn EXCEPT !["client"] = Decided(ok)]
        /\ IF ok THEN UNCHANGED net ELSE GivesUp("client")
        /\ tcp' = IF ~ok /\ tcp = "syn" THEN "refused" ELSE tcp
    /\ UNCHANGED <<program, op, offered, seen>>

\* await_ready() of co_accept(): any error of accept4 means "later".
AcceptReady ==
    /\ conn["server"] = "none"
    /\ \/ tcp = "up" /\ conn' = [conn EXCEPT !["server"] = "open"]
       \/ (tcp # "up" \/ MayRefuse) /\ conn' = [conn EXCEPT !["server"] = "called"]
    /\ UNCHANGED <<program, tcp, net, op, offered, seen>>

\* An error of the callback ends the accept loop, and with it the process: the
\* client's connection is reset in the backlog.
AcceptCallback ==
    /\ conn["server"] = "armed" /\ tcp = "up"
    /\ \E ok \in {TRUE, ~MayRefuse} :
        /\ conn' = [conn EXCEPT !["server"] = Decided(ok)]
        /\ closed' = [closed EXCEPT !["server"] = ~ok]
        /\ reset' = [reset EXCEPT !["client"] = ~ok]
    /\ UNCHANGED <<program, tcp, wire, op, offered, seen>>
-----------------------------------------------------------------------------
(* Starting an operation, and taking its result.                           *)

\* The client sends a message and reads all of it back before the next one;
\* the server sends back what it has read.
EchoTurn(e, kind, size) ==
    \/ /\ e = "client" /\ seen[e] = offered[e]
       /\ kind = "write" /\ size \in Messages
    \/ /\ e = "client" /\ seen[e] < offered[e]
       /\ kind = "until" /\ size = offered[e] - seen[e]
    \/ /\ e = "server" /\ seen[e] = offered[e]
       /\ kind = "read" /\ size = Buffer
    \/ /\ e = "server" /\ seen[e] > offered[e]
       /\ kind = "write" /\ size = seen[e] - offered[e]

\* A coroutine gives its connection up after an error.
Start(e, kind, buf) ==
    /\ conn[e] = "open" /\ op[e].phase = "idle" /\ ~closed[e] /\ op[e].res # Err
    /\ IF program = "any" THEN kind \in Kinds[e] /\ Len(buf) \in Sizes
                          ELSE EchoTurn(e, kind, Len(buf))
    /\ op' = [op EXCEPT ![e] = [kind |-> kind, phase |-> "ready", buf |-> buf,
                                n |-> 0, res |-> 0]]

CoRead(e, size) ==
    /\ Start(e, "read", [j \in 1 .. size |-> 0])
    /\ UNCHANGED <<link, net, offered, seen>>

CoReadUntil(e, size) ==
    /\ Start(e, "until", [j \in 1 .. size |-> 0])
    /\ UNCHANGED <<link, net, offered, seen>>

\* Each end writes 1, 2, 3, ...
CoWrite(e, size) ==
    /\ offered[e] + size <= MaxBytes[program]
    /\ Start(e, "write", [j \in 1 .. size |-> offered[e] + j])
    /\ offered' = [offered EXCEPT ![e] = @ + size]
    /\ UNCHANGED <<link, net, seen>>

Reported(e) == IF op[e].kind = "write" \/ op[e].res = Err THEN 0 ELSE op[e].res

\* await_resume(): the awaitable goes away, and with it all but the fact that
\* it failed.
AwaitResume(e) ==
    /\ op[e].phase = "done"
    /\ seen' = [seen EXCEPT ![e] = @ + Reported(e)]
    /\ op' = [op EXCEPT ![e] = [kind |-> "none", phase |-> "idle", buf |-> <<>>,
                                n |-> 0, res |-> IF @.res = Err THEN Err ELSE 0]]
    /\ UNCHANGED <<link, net, offered>>

\* The awaitable asks the backend again.
Retries(e)     == UNCHANGED op
\* The awaitable goes on: blocked, with its result, or with n bytes done.
Blocks(e)      == op' = [op EXCEPT ![e].phase = "armed"]
Done(e, res)   == op' = [op EXCEPT ![e].phase = "done", ![e].res = res]
GoesOn(e, buf, n) ==
    op' = [op EXCEPT ![e].buf = buf, ![e].n = n,
                     ![e].phase = IF n = Len(buf) THEN "done" ELSE @,
                     ![e].res = IF n = Len(buf) THEN n ELSE @]
-----------------------------------------------------------------------------
(* read_awaitable.                                                         *)

ReadReady(e) ==
    /\ At(e, "read", "ready")
    /\ \E r \in Recv(e, Len(op[e].buf)) :
        /\ Drain(e, r)
        /\ IF r = Again THEN Blocks(e)
           ELSE op' = [op EXCEPT ![e].phase = "done", ![e].res = r,
                                 ![e].buf = Took(e, 0, r)]
    /\ UNCHANGED <<link, offered, seen>>

\* Any negative result ends the operation, EAGAIN too.
ReadCallback(e) ==
    /\ At(e, "read", "armed")
    /\ \E r \in Completion(Recv(e, Len(op[e].buf))) :
        /\ Drain(e, r)
        /\ op' = [op EXCEPT ![e].phase = "done", ![e].buf = Took(e, 0, r),
                            ![e].res = IF r < 0 THEN Err ELSE r]
    /\ UNCHANGED <<link, offered, seen>>
-----------------------------------------------------------------------------
(* read_until_awaitable.                                                   *)

UntilReady(e) ==
    /\ At(e, "until", "ready")
    /\ \E r \in Recv(e, Rest(e)) :
        /\ Drain(e, r)
        /\ \/ r > 0 /\ GoesOn(e, Took(e, Offset(e), r), op[e].n + r)
           \/ r = 0 /\ Done(e, op[e].n)
           \/ r = Again /\ Blocks(e)
           \/ r = Err /\ Done(e, Err)
    /\ UNCHANGED <<link, offered, seen>>

UntilCallback(e) ==
    /\ At(e, "until", "armed")
    /\ \E r \in Completion(Recv(e, Rest(e))) :
        /\ Drain(e, r)
        /\ \/ r > 0 /\ GoesOn(e, Took(e, Offset(e), r), op[e].n + r)
           \/ r = 0 /\ Done(e, 0)
           \/ r = Again /\ Retries(e)
           \/ r = Err /\ Done(e, Err)
    /\ UNCHANGED <<link, offered, seen>>
-----------------------------------------------------------------------------
(* write_awaitable.                                                        *)

WriteReady(e) ==
    /\ At(e, "write", "ready")
    /\ \E r \in Send(e, Rest(e)) :
        /\ Put(e, op[e].n, r)
        /\ \/ r > 0 /\ GoesOn(e, op[e].buf, op[e].n + r)
           \/ r = Again /\ Blocks(e)
           \/ r = Err /\ Done(e, Err)
    /\ UNCHANGED <<link, offered, seen>>

WriteCallback(e) ==
    /\ At(e, "write", "armed")
    /\ \E r \in Completion(Send(e, Rest(e))) :
        /\ Put(e, op[e].n, r)
        /\ \/ r > 0 /\ GoesOn(e, op[e].buf, op[e].n + r)
           \/ r = Again /\ Retries(e)
           \/ r = Err /\ Done(e, Err)
    /\ UNCHANGED <<link, offered, seen>>
-----------------------------------------------------------------------------
Await(e) ==
    \E size \in 1 .. MaxBytes[program] :
        CoRead(e, size) \/ CoReadUntil(e, size) \/ CoWrite(e, size)
Inline(e) == ReadReady(e) \/ UntilReady(e) \/ WriteReady(e)
Callback(e) == ReadCallback(e) \/ UntilCallback(e) \/ WriteCallback(e)

\* The socket would not block the operation.
Possible(e) == Again \notin IF op[e].kind = "write" THEN Send(e, 1) ELSE Recv(e, 1)
Proceeds(e) ==
    \/ Inline(e) \/ AwaitResume(e) \/ (Possible(e) /\ Callback(e))
    \/ program = "echo" /\ Await(e)
Links ==
    \/ Handshake \/ ConnectCallback \/ AcceptReady \/ AcceptCallback
    \/ \E e \in Ends : Register(e)

Next ==
    \/ Connect \/ Links
    \/ \E e \in Ends : Await(e) \/ Inline(e) \/ Callback(e) \/ AwaitResume(e) \/ Close(e)

Spec == Init /\ [][Next]_vars

\* The backend calls back when the socket is ready, as AsyncIO promises, and
\* the echo programs go on; a coroutine in general may stop using its
\* connection, and an operation that blocks need not be refused.
FairSpec == Spec /\ WF_vars(Links) /\ \A e \in Ends : WF_vars(Proceeds(e))
-----------------------------------------------------------------------------
(* Properties.                                                             *)

\* What a read reports is the next part of the stream: nothing is lost,
\* repeated or put in the wrong place of the vector, however recv() and send()
\* cut the stream and whichever path, inline or callback, does the work.
ReadExact ==
    \A e \in Ends :
        op[e].phase = "done" /\ op[e].kind # "write" =>
            \A j \in 1 .. op[e].res : op[e].buf[j] = seen[e] + j

\* The bytes of the vector of a read that await_resume() has yet to report.
Got(e) ==
    IF op[e].kind = "until" THEN op[e].n
    ELSE IF At(e, "read", "done") /\ op[e].res > 0 THEN op[e].res ELSE 0

\* While both ends are healthy every byte passed to co_write is in one place:
\* still to be sent, in the socket, in the vector of a read or reported by it.
\* A co_write that returns has nothing left to send.
Conserved ==
    \A e \in Ends :
        LET p == Peer(e) IN
        ~closed[e] /\ ~closed[p] /\ op[e].res # Err /\ op[p].res # Err =>
            seen[p] + Got(p) + Len(wire[p])
                + (IF op[e].kind = "write" /\ op[e].phase # "done" THEN Rest(e) ELSE 0)
            = offered[e]

\* co_write and co_read_until stop short only when nobody is left at the other
\* end.
ShortOnlyAtEof ==
    \A e \in Ends :
        op[e].phase = "done" /\ op[e].kind \in {"until", "write"} =>
            op[e].res \in {Err, Len(op[e].buf)}
            \/ (op[e].kind = "until" /\ closed[Peer(e)] /\ wire[e] = <<>>)

\* "the data read before the connection was closed is in buf, size() gives the
\* length": a read that ends with the stream reports what it has put in buf.
EofAccounted ==
    \A e \in Ends :
        op[e].phase = "done" /\ op[e].kind # "write" /\ op[e].res = 0 => Got(e) = 0

\* Once the handshake is complete, or has failed, both coroutines learn what
\* they can, also when that happens between the attempt and the registration.
ConnectEnds ==
    /\ (tcp \in {"up", "refused"} ~> conn["client"] \in {"open", "failed"})
    /\ (tcp = "up" ~> conn["server"] \in {"open", "failed"})

\* A coroutine is not left waiting for a peer whose connect or accept was told
\* that it had failed, although the handshake completed and the coroutine has
\* a connection: what it waits for ends.
AbandonedEnds ==
    \A e \in Ends :
        conn[e] = "failed" /\ op[Peer(e)].phase = "armed" ~> op[Peer(e)].phase # "armed"

Broken == \E e \in Ends : closed[e] \/ op[e].res = Err \/ reset[e]

\* The echo client gets its whole message back while neither end fails, if the
\* message is at most one byte longer than the buffers of the two directions
\* together.  With one byte more both ends can block in co_write.
EchoCompletes ==
    (program = "echo" /\ At("client", "write", "ready") /\ Len(op["client"].buf) <= 2 * Cap + 1)
        ~> (Broken \/ (op["client"].phase = "idle" /\ seen["client"] = offered["client"]))
=============================================================================
