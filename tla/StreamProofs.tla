---------------------------- MODULE StreamProofs ----------------------------
(***************************************************************************)
(* What StreamIO guarantees for every size of socket buffers, vectors and  *)
(* messages, whatever the kernel cuts short and the backend refuses.       *)
(*                                                                         *)
(* The inductive invariant IInv ties the three places a byte can be in to  *)
(* the positions of the stream: an end has seen the first seen[e] bytes,   *)
(* the vector of its read holds the next ones, and the socket those after  *)
(* them.  The actions are instances of five steps on that stream (Reads,   *)
(* Writes, Opens, AwaitResume, GivesUp) and of the handshake; each step    *)
(* preserves IInv by a lemma of its own, and the last part shows which     *)
(* action is which step.                                                   *)
(***************************************************************************)
EXTENDS StreamIO, SequenceTheorems, TLAPS

\* Only a completed handshake makes a connection, and a failed one is closed.
ConnectInv ==
    \A e \in Ends : /\ conn[e] = "open" => tcp = "up"
                    /\ conn[e] = "failed" => closed[e]

\* The client begins the handshake; an end has an awaitable only while it has a
\* connection.
LinkInv ==
    /\ conn["client"] = "none" => tcp = "none"
    /\ \A e \in Ends :
        /\ conn[e] \in {"none", "called", "armed"} => ~closed[e]
        /\ conn[e] # "open" \/ closed[e] => op[e].phase = "idle"

\* What is left of an awaitable in each of its phases.
OpInv ==
    \A e \in Ends :
        /\ op[e].phase = "idle" <=> op[e].kind = "none"
        /\ op[e].phase = "idle" => op[e].n = 0
        /\ op[e].phase \in {"ready", "armed"} => op[e].res = 0
        /\ op[e].kind = "read" => op[e].n = 0
        /\ op[e].kind = "until" => op[e].res <= op[e].n
        /\ op[e].kind = "write" /\ op[e].phase = "done" /\ op[e].res # Err =>
               op[e].n = Len(op[e].buf)

\* The vector of a co_write holds the last bytes offered; that of a read, and
\* after it the socket, the next ones that its end has not seen.
DataInv ==
    \A e \in Ends :
        /\ At(e, "write", "ready") \/ At(e, "write", "armed") =>
               \A j \in 1 .. Len(op[e].buf) : op[e].buf[j] = offered[e] - Len(op[e].buf) + j
        /\ \A j \in 1 .. Got(e) : op[e].buf[j] = seen[e] + j
        /\ op[e].res # Err =>
               \A j \in 1 .. Len(wire[e]) : wire[e][j] = seen[e] + Got(e) + j

Unsent(e) == IF op[e].kind = "write" /\ op[e].phase # "done" THEN Rest(e) ELSE 0

\* No end sees more than the other has sent.
FlowInv ==
    \A e \in Ends :
        seen[Peer(e)] + Got(Peer(e)) + Len(wire[Peer(e)]) + Unsent(e) <= offered[e]

IInv ==
    /\ TypeOK /\ ConnectInv /\ LinkInv /\ OpInv /\ DataInv /\ FlowInv
    /\ Conserved /\ ShortOnlyAtEof
-----------------------------------------------------------------------------
LEMMA TwoEnds ==
    \A e \in Ends : /\ Peer(e) \in Ends /\ Peer(e) # e /\ Peer(Peer(e)) = e
                    /\ \A f \in Ends : f = e \/ f = Peer(e)
BY DEF Ends, Peer

LEMMA VectorIsSeq ==
    ASSUME NEW S, NEW k \in Nat, NEW f \in [1 .. k -> S]
    PROVE  f \in Seq(S) /\ Len(f) = k
<1>1. f \in Seq(S)
  BY SeqDef
<1>2. Len(f) \in Nat /\ DOMAIN f = 1 .. Len(f)
  BY <1>1, LenProperties
<1>3. DOMAIN f = 1 .. k
  OBVIOUS
<1> QED
  BY <1>1, <1>2, <1>3

LEMMA SumBelow ==
    ASSUME NEW k \in Int, NEW i \in Int, NEW j \in Int, NEW u \in Int, NEW y \in Int,
           NEW z \in Int, i <= u, j <= y, k + u + y <= z
    PROVE  k + i + j <= z
OBVIOUS

LEMMA Shrinks ==
    ASSUME NEW v \in Nat, NEW g \in Nat, NEW k \in Nat, NEW l \in Nat, NEW u \in Nat,
           NEW z \in Nat, k <= l, v + g + l + u <= z
    PROVE  v + g + k + u <= z
OBVIOUS

LEMMA PartOfSeq ==
    ASSUME NEW S, NEW w \in Seq(S), NEW a \in Nat, NEW c \in Nat, a <= c, c <= Len(w)
    PROVE  /\ SubSeq(w, a + 1, c) \in Seq(S) /\ Len(SubSeq(w, a + 1, c)) = c - a
           /\ \A j \in 1 .. c - a : SubSeq(w, a + 1, c)[j] = w[a + j]
<1>1. Len(w) \in Nat /\ w \in [1 .. Len(w) -> S]
  BY LenProperties
<1>2. \A i \in a + 1 .. c : w[i] \in S
  BY <1>1
<1> DEFINE s == SubSeq(w, a + 1, c)
<1>3. /\ s \in Seq(S) /\ Len(s) = IF a + 1 <= c THEN c - (a + 1) + 1 ELSE 0
      /\ \A i \in 1 .. c - (a + 1) + 1 : s[i] = w[a + 1 + i - 1]
  BY <1>2, SubSeqProperties
<1> HIDE DEF s
<1>4. Len(s) = c - a
  <2>1. (IF a + 1 <= c THEN c - (a + 1) + 1 ELSE 0) = c - a
    OBVIOUS
  <2> QED
    BY <1>3, <2>1
<1>5. ASSUME NEW j \in 1 .. c - a
      PROVE  s[j] = w[a + j]
  <2>1. j \in 1 .. c - (a + 1) + 1
    OBVIOUS
  <2> DEFINE k == a + 1 + j - 1
  <2>2. s[j] = w[k]
    BY <1>3, <2>1, Zenon
  <2>3. k = a + j
    OBVIOUS
  <2> HIDE DEF k
  <2> QED
    BY <2>2, <2>3, Zenon
<1> QED
  BY <1>3, <1>4, <1>5 DEF s

LEMMA Prefix ==
    ASSUME NEW S, NEW w \in Seq(S), NEW k \in 0 .. Len(w)
    PROVE  /\ SubSeq(w, 1, k) \in Seq(S) /\ Len(SubSeq(w, 1, k)) = k
           /\ \A j \in 1 .. k : SubSeq(w, 1, k)[j] = w[j]
<1>1. Len(w) \in Nat /\ w \in [1 .. Len(w) -> S]
  BY LenProperties
<1>2. 0 \in Nat /\ k \in Nat /\ 0 <= k /\ k <= Len(w)
  BY <1>1
<1>3. /\ SubSeq(w, 0 + 1, k) \in Seq(S) /\ Len(SubSeq(w, 0 + 1, k)) = k - 0
      /\ \A j \in 1 .. k - 0 : SubSeq(w, 0 + 1, k)[j] = w[0 + j]
  BY <1>2, PartOfSeq, Zenon
<1>4. 0 + 1 = 1 /\ k - 0 = k /\ \A j \in 1 .. k : 0 + j = j
  BY <1>2
<1> QED
  BY <1>3, <1>4

\* recv() moves r bytes of the socket, w, into the vector, b, past the first n,
\* which becomes t: both go on where they were.
Taken(S, b, w, v, n, r, t) ==
    /\ t \in Seq(S) /\ Len(t) = Len(b)
    /\ \A j \in 1 .. n + r : t[j] = v + j
    /\ SubSeq(w, r + 1, Len(w)) \in Seq(S)
    /\ Len(SubSeq(w, r + 1, Len(w))) = Len(w) - r
    /\ \A j \in 1 .. Len(w) - r : SubSeq(w, r + 1, Len(w))[j] = v + n + r + j

LEMMA TakeBytes ==
    ASSUME NEW S, NEW b \in Seq(S), NEW w \in Seq(S), NEW v \in Int,
           NEW n \in Nat, NEW r \in 1 .. Len(w), n + r <= Len(b),
           \A j \in 1 .. n : b[j] = v + j,
           \A j \in 1 .. Len(w) : w[j] = v + n + j,
           NEW t, t = [j \in DOMAIN b |-> IF j \in n + 1 .. n + r THEN w[j - n] ELSE b[j]]
    PROVE  Taken(S, b, w, v, n, r, t)
<1>1. /\ Len(b) \in Nat /\ DOMAIN b = 1 .. Len(b) /\ b \in [1 .. Len(b) -> S]
      /\ Len(w) \in Nat /\ w \in [1 .. Len(w) -> S]
  BY LenProperties
<1>2. \A j \in n + 1 .. n + r : j - n \in 1 .. Len(w)
  BY <1>1
<1>3. t \in [1 .. Len(b) -> S]
  BY <1>1, <1>2
<1>4. t \in Seq(S) /\ Len(t) = Len(b)
  BY <1>1, <1>3, VectorIsSeq
<1>5. ASSUME NEW j \in 1 .. n + r
      PROVE  t[j] = v + j
  <2>1. j \in 1 .. Len(b)
    BY <1>1
  <2>2. CASE j <= n
    <3>1. j \notin n + 1 .. n + r /\ j \in 1 .. n
      BY <2>2
    <3> QED
      BY <1>1, <2>1, <3>1
  <2>3. CASE j > n
    <3>1. j \in n + 1 .. n + r
      BY <2>3
    <3>2. t[j] = w[j - n]
      BY <1>1, <2>1, <3>1
    <3> QED
      BY <1>2, <3>1, <3>2
  <2> QED
    BY <2>2, <2>3
<1>6. /\ SubSeq(w, r + 1, Len(w)) \in Seq(S)
      /\ Len(SubSeq(w, r + 1, Len(w))) = Len(w) - r
      /\ \A j \in 1 .. Len(w) - r : SubSeq(w, r + 1, Len(w))[j] = w[r + j]
  <2>1. r \in Nat /\ Len(w) \in Nat /\ r <= Len(w) /\ Len(w) <= Len(w)
    BY <1>1
  <2> QED
    BY <2>1, PartOfSeq
<1>7. ASSUME NEW j \in 1 .. Len(w) - r
      PROVE  w[r + j] = v + n + r + j
  <2>1. r + j \in 1 .. Len(w)
    BY <1>1
  <2> QED
    BY <1>1, <2>1
<1> QED
  BY <1>4, <1>5, <1>6, <1>7 DEF Taken

\* send() moves r bytes of the vector, b, past the first n, to the socket, w.
\* All that was offered is z.
Given(S, b, w, v, z, n, r) ==
    LET u == w \o SubSeq(b, n + 1, n + r)
    IN  /\ u \in Seq(S) /\ Len(u) = Len(w) + r
        /\ (\A j \in 1 .. Len(w) : w[j] = v + j) /\ v + Len(w) + (Len(b) - n) = z
              => \A j \in 1 .. Len(w) + r : u[j] = v + j

LEMMA PutBytes ==
    ASSUME NEW S, NEW b \in Seq(S), NEW w \in Seq(S), NEW v \in Int, NEW z \in Int,
           NEW n \in Nat, NEW r \in 1 .. Len(b) - n,
           \A j \in 1 .. Len(b) : b[j] = z - Len(b) + j
    PROVE  Given(S, b, w, v, z, n, r)
<1> DEFINE s == SubSeq(b, n + 1, n + r)
           u == w \o s
<1>1. /\ Len(b) \in Nat /\ b \in [1 .. Len(b) -> S]
      /\ Len(w) \in Nat /\ w \in [1 .. Len(w) -> S]
  BY LenProperties
<1>2. s \in Seq(S) /\ Len(s) = r /\ \A j \in 1 .. r : s[j] = b[n + j]
  <2>1. n + r \in Nat /\ n <= n + r /\ n + r <= Len(b) /\ (n + r) - n = r
    BY <1>1
  <2>2. s \in Seq(S) /\ Len(s) = (n + r) - n /\ \A j \in 1 .. (n + r) - n : s[j] = b[n + j]
    BY <2>1, PartOfSeq, Zenon
  <2> QED
    BY <2>1, <2>2, Zenon
<1> HIDE DEF s
<1>3. /\ u \in Seq(S) /\ Len(u) = Len(w) + r
      /\ \A j \in 1 .. Len(w) + r :
            u[j] = IF j <= Len(w) THEN w[j] ELSE s[j - Len(w)]
  BY <1>2, ConcatProperties
<1> HIDE DEF u
<1>4. ASSUME \A j \in 1 .. Len(w) : w[j] = v + j, v + Len(w) + (Len(b) - n) = z,
             NEW j \in 1 .. Len(w) + r
      PROVE  u[j] = v + j
  <2>1. CASE j <= Len(w)
    BY <1>1, <1>3, <1>4, <2>1
  <2>2. CASE j > Len(w)
    <3>1. j - Len(w) \in 1 .. r /\ n + (j - Len(w)) \in 1 .. Len(b)
      BY <1>1, <2>2
    <3>2. u[j] = b[n + (j - Len(w))]
      BY <1>1, <1>2, <1>3, <2>2, <3>1
    <3>3. b[n + (j - Len(w))] = z - Len(b) + (n + (j - Len(w)))
      BY <3>1
    <3> QED
      BY <1>1, <1>4, <3>2, <3>3, SMTT(30)
  <2> QED
    BY <1>1, <2>1, <2>2
<1> QED
  BY <1>3, <1>4 DEF u, s, Given
-----------------------------------------------------------------------------
LEMMA Measures ==
    ASSUME TypeOK, OpInv, NEW e \in Ends
    PROVE  /\ MaxBytes[program] \in Nat
           /\ wire[e] \in Seq(Bytes) /\ op[e].buf \in Seq(Bytes)
           /\ Len(wire[e]) \in Nat /\ Len(op[e].buf) \in Nat
           /\ DOMAIN op[e].buf = 1 .. Len(op[e].buf)
           /\ op[e].n \in Nat /\ op[e].n <= Len(op[e].buf)
           /\ op[e].res \in {Err} \cup Nat /\ op[e].res <= Len(op[e].buf)
           /\ seen[e] \in Nat /\ offered[e] \in Nat
           /\ seen[e] <= MaxBytes[program] /\ offered[e] <= MaxBytes[program]
           /\ Got(e) \in Nat /\ Unsent(e) \in Nat
<1>1. MaxBytes[program] \in Nat
  BY StreamAssumption DEF TypeOK
<1>2. wire[e] \in Seq(Bytes) /\ op[e].buf \in Seq(Bytes)
  BY DEF TypeOK
<1>3. /\ Len(wire[e]) \in Nat /\ Len(op[e].buf) \in Nat
      /\ DOMAIN op[e].buf = 1 .. Len(op[e].buf)
  BY <1>2, LenProperties
<1>4. /\ op[e].n \in Nat /\ op[e].n <= Len(op[e].buf)
      /\ op[e].res \in {Err} \cup Nat /\ op[e].res <= Len(op[e].buf)
  BY DEF TypeOK
<1>5. /\ seen[e] \in Nat /\ offered[e] \in Nat
      /\ seen[e] <= MaxBytes[program] /\ offered[e] <= MaxBytes[program]
  BY <1>1 DEF TypeOK, Bytes
<1>6. Got(e) \in Nat /\ Unsent(e) \in Nat
  BY <1>3, <1>4 DEF Got, Unsent, Rest, At, Err
<1> QED
  BY <1>1, <1>2, <1>3, <1>4, <1>5, <1>6

Shape(e, ph, b, m, x) ==
    [op EXCEPT ![e] = [kind |-> op[e].kind, phase |-> ph, buf |-> b, n |-> m, res |-> x]]

\* A read takes r bytes and goes on, or ends in one of its four ways.
Reads(e, r, t, m, ph, x) ==
    /\ op[e].kind \in {"read", "until"} /\ op[e].phase \in {"ready", "armed"}
    /\ op[e].kind = "read" => op[e].n = 0
    /\ UNCHANGED <<link, closed, reset, offered, seen>>
    /\ r <= Len(wire[e]) /\ op[e].n + r <= Len(op[e].buf)
    /\ wire' = IF r > 0 THEN [wire EXCEPT ![e] = SubSeq(@, r + 1, Len(@))] ELSE wire
    /\ op' = Shape(e, ph, t, m, x)
    /\ t = Took(e, op[e].n, r)
    /\ m = IF op[e].kind = "until" THEN op[e].n + r ELSE op[e].n
    /\ \/ ph \in {"ready", "armed"} /\ x = 0 /\ (op[e].kind = "read" => r = 0)
       \/ ph = "done" /\ x = Err /\ r = 0
       \/ ph = "done" /\ op[e].kind = "read" /\ x = r
       \/ ph = "done" /\ op[e].kind = "until" /\ x = m /\ x = Len(op[e].buf)
       \/ /\ ph = "done" /\ op[e].kind = "until" /\ r = 0 /\ x \in {0, m}
          /\ closed[Peer(e)] /\ wire[e] = <<>>

LEMMA Receives ==
    ASSUME IInv, NEW e \in Ends, NEW r \in Nat, NEW t, NEW m, NEW ph, NEW x,
           Reads(e, r, t, m, ph, x)
    PROVE  IInv'
<1> DEFINE b == op[e].buf
           n == op[e].n
           p == Peer(e)
<1>1. /\ p \in Ends /\ p # e /\ Peer(p) = e
      /\ \A f \in Ends : f = e \/ f = p
  BY TwoEnds
<1>2. /\ TypeOK /\ ConnectInv /\ LinkInv /\ OpInv /\ DataInv /\ FlowInv
      /\ Conserved /\ ShortOnlyAtEof
  BY DEF IInv
<1>3. n = Got(e) /\ op[e].res = 0
  BY <1>2 DEF OpInv, Got, At, Reads
<1>4. /\ t \in Seq(Bytes) /\ Len(t) = Len(b)
      /\ \A j \in 1 .. n + r : t[j] = seen[e] + j
      /\ wire'[e] \in Seq(Bytes) /\ Len(wire'[e]) = Len(wire[e]) - r
      /\ \A j \in 1 .. Len(wire'[e]) : wire'[e][j] = seen[e] + n + r + j
      /\ wire'[p] = wire[p] /\ wire' \in [Ends -> Seq(Bytes)]
  <2>1. /\ wire[e] \in Seq(Bytes) /\ b \in Seq(Bytes) /\ seen[e] \in Int /\ n \in Nat
        /\ Len(wire[e]) \in Nat /\ DOMAIN b = 1 .. Len(b) /\ wire \in [Ends -> Seq(Bytes)]
    BY <1>2, Measures DEF TypeOK
  <2>2. /\ \A j \in 1 .. n : b[j] = seen[e] + j
        /\ \A j \in 1 .. Len(wire[e]) : wire[e][j] = seen[e] + n + j
    BY <1>2, <1>3 DEF DataInv, Err
  <2>3. t = [j \in DOMAIN b |-> IF j \in n + 1 .. n + r THEN wire[e][j - n] ELSE b[j]]
    BY DEF Took, Reads
  <2>4. CASE r = 0
    <3>1. t = b
      <4>1. t = [j \in DOMAIN b |-> b[j]]
        BY <2>1, <2>3, <2>4
      <4>2. b \in [1 .. Len(b) -> Bytes]
        BY <2>1, LenProperties
      <4> QED
        BY <2>1, <4>1, <4>2
    <3> QED
      BY <1>1, <2>1, <2>2, <2>4, <3>1 DEF Reads
  <2>5. CASE r > 0
    <3> DEFINE w == SubSeq(wire[e], r + 1, Len(wire[e]))
    <3>1. r \in 1 .. Len(wire[e]) /\ n + r <= Len(b)
      BY <2>1, <2>5 DEF Reads
    <3>2. Taken(Bytes, b, wire[e], seen[e], n, r, t)
      BY <2>1, <2>2, <2>3, <3>1, TakeBytes, ZenonT(30)
    <3>3. wire' = [wire EXCEPT ![e] = w]
      BY <2>5 DEF Reads
    <3>4. wire'[e] = w /\ wire'[p] = wire[p]
      BY <1>1, <2>1, <3>3
    <3>5. w \in Seq(Bytes)
      BY <3>2 DEF Taken
    <3>6. wire' \in [Ends -> Seq(Bytes)]
      BY <2>1, <3>3, <3>5
    <3> QED
      BY <3>2, <3>4, <3>6 DEF Taken
  <2> QED
    BY <2>4, <2>5
<1>5. /\ op' \in [Ends -> [kind : {"none", "read", "until", "write"},
                           phase : {"idle", "ready", "armed", "done"},
                           buf : Seq(Bytes), n : Nat, res : {Err} \cup Nat]]
      /\ op'[e].kind = op[e].kind /\ op'[e].phase = ph /\ op'[e].buf = t
      /\ op'[e].n = m /\ op'[e].res = x /\ op'[p] = op[p]
      /\ m <= Len(b) /\ x <= Len(b) /\ ph # "idle" /\ Len(t) = Len(b)
  <2>1. m \in Nat /\ m <= Len(b) /\ x \in {Err} \cup Nat /\ x <= Len(b) /\ ph # "idle"
    BY <1>2, Measures, SMTT(30) DEF Err, Reads
  <2>2. ph \in {"idle", "ready", "armed", "done"} /\ op' = Shape(e, ph, t, m, x)
    BY DEF Reads
  <2>3. t \in Seq(Bytes) /\ op[e].kind \in {"none", "read", "until", "write"}
    BY <1>4 DEF Reads
  <2>4. op \in [Ends -> [kind : {"none", "read", "until", "write"},
                        phase : {"idle", "ready", "armed", "done"},
                        buf : Seq(Bytes), n : Nat, res : {Err} \cup Nat]]
    BY <1>2 DEF TypeOK
  <2>5. Len(t) = Len(b)
    BY <1>4
  <2> HIDE DEF p
  <2> QED
    BY <1>1, <2>1, <2>2, <2>3, <2>4, <2>5 DEF Shape
<1>6. /\ Got(e)' = n + r /\ Got(p)' = Got(p) /\ Unsent(e)' = 0 /\ Unsent(p)' = Unsent(p)
      /\ Unsent(e) = 0
  <2>1. Got(e)' = n + r
    <3>1. Got(e)' = IF op[e].kind = "until" THEN m
                    ELSE IF op[e].kind = "read" /\ ph = "done" /\ x > 0 THEN x ELSE 0
      BY <1>5 DEF Got, At
    <3>2. op[e].kind = "until" => m = n + r
      BY DEF Reads
    <3>3. op[e].kind = "read" =>
             /\ n = 0
             /\ (r = 0 /\ (ph = "done" => x \in {Err, r})) \/ (ph = "done" /\ x = r)
      BY DEF Reads
    <3>4. op[e].kind \in {"read", "until"}
      BY DEF Reads
    <3> HIDE DEF n
    <3> QED
      BY <3>1, <3>2, <3>3, <3>4 DEF Err
  <2>2. op[e].kind \in {"read", "until"}
    BY DEF Reads
  <2> HIDE DEF n, p
  <2>3. Got(p)' = Got(p) /\ Unsent(p)' = Unsent(p)
    BY <1>5 DEF Got, At, Unsent, Rest
  <2>4. Unsent(e)' = 0 /\ Unsent(e) = 0
    BY <1>5, <2>2 DEF Unsent
  <2> QED
    BY <2>1, <2>3, <2>4
<1>7. /\ Len(wire[e]) \in Nat /\ Len(wire[p]) \in Nat /\ n \in Nat /\ Len(b) \in Nat
      /\ seen[e] \in Nat /\ seen[p] \in Nat /\ offered[e] \in Nat /\ offered[p] \in Nat
      /\ Got(p) \in Nat /\ Unsent(p) \in Nat
      /\ program' = program /\ tcp' = tcp /\ conn' = conn /\ closed' = closed
      /\ reset' = reset /\ offered' = offered /\ seen' = seen /\ Bytes' = Bytes
  BY <1>1, <1>2, Measures DEF link, Bytes, Reads
<1>8. ASSUME NEW f \in Ends
      PROVE  f = e \/ f = p
  BY <1>1
<1>9. /\ Len(wire'[e]) = Len(wire[e]) - r /\ wire'[p] = wire[p]
      /\ wire' \in [Ends -> Seq(Bytes)]
  BY <1>4
<1> HIDE DEF b, n, p
<1>a. TypeOK'
  <2>1. program' \in {"any", "echo"} /\ tcp' \in {"none", "syn", "up", "refused"}
    BY <1>2, <1>7 DEF TypeOK
  <2>2. conn' \in [Ends -> {"none", "called", "armed", "open", "failed"}]
    BY <1>2, <1>7 DEF TypeOK
  <2>3. wire' \in [Ends -> Seq(Bytes)'] /\ \A f \in Ends : Len(wire'[f]) <= Cap
    <3>1. Len(wire[e]) <= Cap /\ Len(wire[p]) <= Cap /\ Cap \in Nat
      BY <1>1, <1>2, StreamAssumption DEF TypeOK
    <3>2. wire' \in [Ends -> Seq(Bytes)']
      BY <1>7, <1>9
    <3>3. Len(wire'[e]) <= Cap
      <4>1. Len(wire[e]) \in Nat
        BY <1>7
      <4>2. Len(wire'[e]) = Len(wire[e]) - r
        BY <1>9
      <4> QED
        BY <3>1, <4>1, <4>2
    <3>4. Len(wire'[p]) <= Cap
      BY <1>9, <3>1
    <3> QED
      BY <1>8, <3>2, <3>3, <3>4
  <2>4. closed' \in [Ends -> BOOLEAN] /\ reset' \in [Ends -> BOOLEAN]
    BY <1>2, <1>7 DEF TypeOK
  <2>5. \A f \in Ends : op'[f].n <= Len(op'[f].buf) /\ op'[f].res <= Len(op'[f].buf)
    <3>1. op[p].n <= Len(op[p].buf) /\ op[p].res <= Len(op[p].buf)
      BY <1>1, <1>2 DEF TypeOK
    <3> QED
      BY <1>5, <1>8, <3>1
  <2>6. offered' \in [Ends -> Bytes'] /\ seen' \in [Ends -> Bytes']
    BY <1>2, <1>7 DEF TypeOK
  <2> QED
    BY <1>5, <1>7, <2>1, <2>2, <2>3, <2>4, <2>5, <2>6 DEF TypeOK
<1>b. ConnectInv' /\ LinkInv'
  <2>1. ConnectInv'
    BY <1>2, <1>7 DEF ConnectInv
  <2>2. op[e].phase # "idle"
    BY DEF Reads
  <2>3. LinkInv'
    BY <1>2, <1>5, <1>7, <1>8, <2>2 DEF LinkInv
  <2> QED
    BY <2>1, <2>3
<1>c. OpInv'
  <2>1. /\ op[e].kind \in {"read", "until"} /\ ph \in {"ready", "armed", "done"}
        /\ ph \in {"ready", "armed"} => x = 0
        /\ op[e].kind = "read" => m = 0
        /\ op[e].kind = "until" => x <= m
    BY <1>5 DEF Reads, Err, n
  <2> SUFFICES ASSUME NEW f \in Ends
      PROVE  /\ op'[f].phase = "idle" <=> op'[f].kind = "none"
             /\ op'[f].phase = "idle" => op'[f].n = 0
             /\ op'[f].phase \in {"ready", "armed"} => op'[f].res = 0
             /\ op'[f].kind = "read" => op'[f].n = 0
             /\ op'[f].kind = "until" => op'[f].res <= op'[f].n
             /\ op'[f].kind = "write" /\ op'[f].phase = "done" /\ op'[f].res # Err =>
                    op'[f].n = Len(op'[f].buf)
    BY DEF OpInv
  <2>2. CASE f = e
    BY <1>5, <2>1, <2>2
  <2>3. CASE f = p
    BY <1>2, <1>5, <2>3 DEF OpInv
  <2> QED
    BY <1>8, <2>2, <2>3
<1>d. DataInv'
  <2> SUFFICES ASSUME NEW f \in Ends
      PROVE  /\ At(f, "write", "ready")' \/ At(f, "write", "armed")' =>
                    \A j \in 1 .. Len(op'[f].buf) :
                        op'[f].buf[j] = offered'[f] - Len(op'[f].buf) + j
             /\ \A j \in 1 .. Got(f)' : op'[f].buf[j] = seen'[f] + j
             /\ op'[f].res # Err =>
                    \A j \in 1 .. Len(wire'[f]) : wire'[f][j] = seen'[f] + Got(f)' + j
    BY DEF DataInv
  <2>1. CASE f = e
    <3>1. op[e].kind # "write"
      BY DEF Reads
    <3>2. /\ \A j \in 1 .. n + r : t[j] = seen[e] + j
          /\ \A j \in 1 .. Len(wire'[e]) : wire'[e][j] = seen[e] + (n + r) + j
      <4>1. /\ \A j \in 1 .. n + r : t[j] = seen[e] + j
            /\ \A j \in 1 .. Len(wire'[e]) : wire'[e][j] = seen[e] + n + r + j
        BY <1>4
      <4>2. seen[e] \in Nat /\ n \in Nat
        BY <1>7
      <4>3. \A j \in Int : seen[e] + n + r + j = seen[e] + (n + r) + j
        BY <4>2
      <4> QED
        BY <4>1, <4>3
    <3>3. ~At(e, "write", "ready")' /\ ~At(e, "write", "armed")'
      BY <1>5, <3>1 DEF At
    <3> QED
      BY <1>5, <1>6, <1>7, <2>1, <3>2, <3>3
  <2>2. CASE f = p
    <3>1. /\ At(p, "write", "ready") \/ At(p, "write", "armed") =>
                 \A j \in 1 .. Len(op[p].buf) : op[p].buf[j] = offered[p] - Len(op[p].buf) + j
          /\ \A j \in 1 .. Got(p) : op[p].buf[j] = seen[p] + j
          /\ op[p].res # Err =>
                 \A j \in 1 .. Len(wire[p]) : wire[p][j] = seen[p] + Got(p) + j
      BY <1>1, <1>2 DEF DataInv
    <3> QED
      BY <1>4, <1>5, <1>6, <1>7, <2>2, <3>1 DEF At
  <2> QED
    BY <1>8, <2>1, <2>2
<1>e. FlowInv'
  <2>1. /\ seen[p] + Got(p) + Len(wire[p]) + Unsent(e) <= offered[e]
        /\ seen[e] + Got(e) + Len(wire[e]) + Unsent(p) <= offered[p]
    BY <1>1, <1>2 DEF FlowInv, p
  <2>2. \A f \in Ends :
           seen'[Peer(f)] + Got(Peer(f))' + Len(wire'[Peer(f)]) + Unsent(f)' <= offered'[f]
    <3>1. Peer(e) = p /\ Peer(p) = e
      BY <1>1 DEF p
    <3>2. seen'[p] + Got(p)' + Len(wire'[p]) + Unsent(e)' <= offered'[e]
      BY <1>6, <1>7, <1>9, <2>1
    <3>3. seen'[e] + Got(e)' + Len(wire'[e]) + Unsent(p)' <= offered'[p]
      <4>1. seen[e] + n + Len(wire[e]) + Unsent(p) <= offered[p]
        BY <1>3, <2>1
      <4>2. /\ seen[e] \in Nat /\ n \in Nat /\ Len(wire[e]) \in Nat /\ Unsent(p) \in Nat
            /\ offered[p] \in Nat
        BY <1>7
      <4>3. seen[e] + (n + r) + (Len(wire[e]) - r) + Unsent(p) <= offered[p]
        BY <4>1, <4>2
      <4> QED
        BY <1>6, <1>7, <1>9, <4>3
    <3> QED
      BY <1>8, <3>1, <3>2, <3>3
  <2> QED
    BY <2>2 DEF FlowInv, Peer
<1>f. Conserved'
  <2>1. Peer(e) = p /\ Peer(p) = e
    BY <1>1 DEF p
  <2>2. ASSUME NEW f \in Ends, ~closed[f], ~closed[Peer(f)],
               op'[f].res # Err, op'[Peer(f)].res # Err
        PROVE  seen[Peer(f)] + Got(Peer(f))' + Len(wire'[Peer(f)]) + Unsent(f)' = offered[f]
    <3>1. op[f].res # Err /\ op[Peer(f)].res # Err
      <4>1. op[e].res # Err
        BY <1>3 DEF Err
      <4> QED
        BY <1>5, <1>8, <2>1, <2>2, <4>1
    <3>2. seen[Peer(f)] + Got(Peer(f)) + Len(wire[Peer(f)]) + Unsent(f) = offered[f]
      BY <1>2, <2>2, <3>1 DEF Conserved, Unsent
    <3>3. CASE f = e
      BY <1>3, <1>6, <1>7, <1>9, <2>1, <3>2, <3>3
    <3>4. CASE f = p
      BY <1>3, <1>6, <1>7, <1>9, <2>1, <3>2, <3>4
    <3> QED
      BY <1>8, <3>3, <3>4
  <2> QED
    BY <1>7, <2>2 DEF Conserved, Unsent, Peer
<1>g. ShortOnlyAtEof'
  <2>1. ASSUME NEW f \in Ends, op'[f].phase = "done", op'[f].kind \in {"until", "write"}
        PROVE  \/ op'[f].res \in {Err, Len(op'[f].buf)}
               \/ op'[f].kind = "until" /\ closed[Peer(f)] /\ wire'[f] = <<>>
    <3>1. CASE f = e
      <4>1. r = 0 => wire' = wire
        BY DEF Reads
      <4>2. \/ x = Err
            \/ op[e].kind = "until" /\ x = Len(b)
            \/ op[e].kind = "until" /\ r = 0 /\ closed[Peer(e)] /\ wire[e] = <<>>
        BY <1>5, <2>1, <3>1 DEF Reads, b
      <4> QED
        BY <1>5, <2>1, <3>1, <4>1, <4>2
    <3>2. CASE f = p
      BY <1>2, <1>5, <1>9, <2>1, <3>2 DEF ShortOnlyAtEof
    <3> QED
      BY <1>8, <3>1, <3>2
  <2> QED
    BY <1>7, <2>1 DEF ShortOnlyAtEof, Peer
<1> QED
  BY <1>a, <1>b, <1>c, <1>d, <1>e, <1>f, <1>g DEF IInv

\* A write gives r bytes and goes on, or ends in one of its two ways.
Writes(e, r, ph, x) ==
    /\ op[e].kind = "write" /\ op[e].phase \in {"ready", "armed"}
    /\ UNCHANGED <<link, closed, offered, seen>> /\ reset' \in [Ends -> BOOLEAN]
    /\ r <= Rest(e) /\ (r > 0 /\ ~closed[Peer(e)] => Len(wire[Peer(e)]) + r <= Cap)
    /\ wire' = IF r > 0 /\ ~closed[Peer(e)]
               THEN [wire EXCEPT ![Peer(e)] = @ \o SubSeq(op[e].buf, op[e].n + 1, op[e].n + r)]
               ELSE wire
    /\ op' = Shape(e, ph, op[e].buf, op[e].n + r, x)
    /\ \/ ph \in {"ready", "armed"} /\ x = 0
       \/ ph = "done" /\ x = Err
       \/ ph = "done" /\ x = op[e].n + r /\ x = Len(op[e].buf)

LEMMA Gives ==
    ASSUME IInv, NEW e \in Ends, NEW r \in Nat, NEW ph, NEW x, Writes(e, r, ph, x)
    PROVE  IInv'
<1> DEFINE b == op[e].buf
           n == op[e].n
           p == Peer(e)
<1>1. /\ p \in Ends /\ p # e /\ Peer(p) = e
      /\ \A f \in Ends : f = e \/ f = p
  BY TwoEnds
<1>2. /\ TypeOK /\ ConnectInv /\ LinkInv /\ OpInv /\ DataInv /\ FlowInv
      /\ Conserved /\ ShortOnlyAtEof
  BY DEF IInv
<1>3. op[e].res = 0 /\ ~closed[e] /\ Got(e) = 0
  BY <1>2 DEF OpInv, LinkInv, Got, At, Writes
<1>4. /\ wire[p] \in Seq(Bytes) /\ b \in Seq(Bytes) /\ n \in Nat /\ n <= Len(b)
      /\ Len(wire[p]) \in Nat /\ Len(wire[e]) \in Nat /\ Len(b) \in Nat
      /\ seen[e] \in Nat /\ seen[p] \in Nat /\ offered[e] \in Nat /\ offered[p] \in Nat
      /\ Got(p) \in Nat /\ Unsent(p) \in Nat /\ n + r <= Len(b)
  <2>1. r <= Len(b) - n
    BY DEF Writes, Rest
  <2> QED
    BY <1>1, <1>2, <2>1, Measures, SMTT(30)
<1>5. /\ program' = program /\ tcp' = tcp /\ conn' = conn /\ closed' = closed
      /\ offered' = offered /\ seen' = seen /\ Bytes' = Bytes
      /\ reset' \in [Ends -> BOOLEAN]
  BY DEF link, Bytes, Writes
<1>6. ASSUME NEW f \in Ends
      PROVE  f = e \/ f = p
  BY <1>1
<1>7. /\ op' \in [Ends -> [kind : {"none", "read", "until", "write"},
                           phase : {"idle", "ready", "armed", "done"},
                           buf : Seq(Bytes), n : Nat, res : {Err} \cup Nat]]
      /\ op'[e].kind = "write" /\ op'[e].phase = ph /\ op'[e].buf = b
      /\ op'[e].n = n + r /\ op'[e].res = x /\ op'[p] = op[p]
      /\ x <= Len(b) /\ ph # "idle"
  <2>1. x \in {Err} \cup Nat /\ x <= Len(b) /\ ph # "idle" /\ n + r \in Nat
    <3>1. \/ ph \in {"ready", "armed"} /\ x = 0
          \/ ph = "done" /\ x = Err
          \/ ph = "done" /\ x = n + r /\ x = Len(b)
      BY DEF Writes
    <3> HIDE DEF n, b
    <3> QED
      BY <1>4, <3>1, SMTT(30) DEF Err
  <2>2. /\ ph \in {"idle", "ready", "armed", "done"} /\ op' = Shape(e, ph, b, n + r, x)
        /\ op[e].kind = "write"
    BY DEF Writes
  <2>3. op \in [Ends -> [kind : {"none", "read", "until", "write"},
                        phase : {"idle", "ready", "armed", "done"},
                        buf : Seq(Bytes), n : Nat, res : {Err} \cup Nat]]
    BY <1>2 DEF TypeOK
  <2> HIDE DEF p
  <2> QED
    BY <1>1, <1>4, <2>1, <2>2, <2>3 DEF Shape
<1>8. /\ Got(e)' = 0 /\ Got(p)' = Got(p) /\ Unsent(p)' = Unsent(p)
      /\ Unsent(e) = Len(b) - n
      /\ Unsent(e)' <= Len(b) - (n + r) /\ Unsent(e)' >= 0
      /\ x # Err => Unsent(e)' = Len(b) - (n + r)
  <2>1. /\ Got(e)' = 0 /\ Got(p)' = Got(p) /\ Unsent(p)' = Unsent(p)
    BY <1>7 DEF Got, At, Unsent, Rest
  <2>2. Unsent(e) = Len(b) - n
    BY DEF Unsent, Rest, Writes
  <2>3. Unsent(e)' = IF ph # "done" THEN Len(b) - (n + r) ELSE 0
    BY <1>7 DEF Unsent, Rest
  <2>4. ph = "done" /\ x # Err => Len(b) - (n + r) = 0
    BY <1>4 DEF Writes
  <2>5. n \in Nat /\ Len(b) \in Nat /\ n + r <= Len(b)
    BY <1>4
  <2> HIDE DEF n, b
  <2>6. /\ Unsent(e)' <= Len(b) - (n + r) /\ Unsent(e)' >= 0
        /\ x # Err => Unsent(e)' = Len(b) - (n + r)
    BY <2>3, <2>4, <2>5
  <2> QED
    BY <2>1, <2>2, <2>6
<1>9. /\ wire' \in [Ends -> Seq(Bytes)] /\ wire'[e] = wire[e]
      /\ Len(wire'[p]) = IF closed[p] THEN Len(wire[p]) ELSE Len(wire[p]) + r
      /\ r = 0 \/ closed[p] => wire' = wire
      /\ ~closed[p] /\ op[p].res # Err =>
            \A j \in 1 .. Len(wire'[p]) : wire'[p][j] = seen[p] + Got(p) + j
  <2>1. wire \in [Ends -> Seq(Bytes)]
    BY <1>2 DEF TypeOK
  <2>2. CASE r = 0 \/ closed[p]
    <3>1. wire' = wire
      BY <2>2 DEF Writes
    <3>2. op[p].res # Err => \A j \in 1 .. Len(wire[p]) : wire[p][j] = seen[p] + Got(p) + j
      BY <1>1, <1>2 DEF DataInv
    <3> QED
      BY <1>4, <2>1, <2>2, <3>1, <3>2
  <2>3. CASE r > 0 /\ ~closed[p]
    <3> DEFINE w == wire[p] \o SubSeq(b, n + 1, n + r)
               v == seen[p] + Got(p)
    <3>1. wire' = [wire EXCEPT ![p] = w]
      BY <2>3 DEF Writes
    <3>2. Given(Bytes, b, wire[p], v, offered[e], n, r)
      <4>1. r \in 1 .. Len(b) - n
        BY <1>4, <2>3, SMTT(30)
      <4>3. v \in Int /\ offered[e] \in Int
        BY <1>4
      <4>2. \A j \in 1 .. Len(b) : b[j] = offered[e] - Len(b) + j
        BY <1>2 DEF DataInv, At, Writes
      <4> QED
        BY <1>4, <4>1, <4>2, <4>3, PutBytes, ZenonT(30)
    <3>3. /\ w \in Seq(Bytes) /\ Len(w) = Len(wire[p]) + r
          /\ (\A j \in 1 .. Len(wire[p]) : wire[p][j] = v + j)
               /\ v + Len(wire[p]) + (Len(b) - n) = offered[e]
                 => \A j \in 1 .. Len(wire[p]) + r : w[j] = v + j
      BY <3>2 DEF Given
    <3>4. op[p].res # Err =>
             /\ \A j \in 1 .. Len(wire[p]) : wire[p][j] = v + j
             /\ v + Len(wire[p]) + (Len(b) - n) = offered[e]
      <4>1. \A f \in Ends : f = e =>
               (~closed[f] /\ ~closed[p] /\ op[f].res # Err /\ op[p].res # Err =>
                  seen[p] + Got(p) + Len(wire[p]) + Unsent(f) = offered[f])
        BY <1>2 DEF Conserved, Unsent
      <4>2. op[p].res # Err => seen[p] + Got(p) + Len(wire[p]) + Unsent(e) = offered[e]
        BY <1>3, <2>3, <4>1 DEF Err
      <4>3. op[p].res # Err => \A j \in 1 .. Len(wire[p]) : wire[p][j] = seen[p] + Got(p) + j
        BY <1>1, <1>2 DEF DataInv
      <4>4. Unsent(e) = Len(b) - n
        BY <1>8
      <4> HIDE DEF p, b, n
      <4> QED
        BY <4>2, <4>3, <4>4, Zenon
    <3>5. wire'[p] = w /\ wire'[e] = wire[e] /\ wire' \in [Ends -> Seq(Bytes)]
      <4> HIDE DEF p, w
      <4> QED
        BY <1>1, <2>1, <3>1, <3>3
    <3> HIDE DEF w
    <3> QED
      BY <2>3, <3>3, <3>4, <3>5
  <2> QED
    BY <2>2, <2>3
<1> HIDE DEF b, n, p
<1>a. TypeOK'
  <2>1. program' \in {"any", "echo"} /\ tcp' \in {"none", "syn", "up", "refused"}
    BY <1>2, <1>5 DEF TypeOK
  <2>2. conn' \in [Ends -> {"none", "called", "armed", "open", "failed"}]
    BY <1>2, <1>5 DEF TypeOK
  <2>3. \A f \in Ends : Len(wire'[f]) <= Cap
    <3>1. Len(wire[e]) <= Cap /\ Len(wire[p]) <= Cap
      BY <1>1, <1>2 DEF TypeOK
    <3>2. Len(wire'[p]) <= Cap
      <4>1. r > 0 /\ ~closed[p] => Len(wire[p]) + r <= Cap
        BY DEF Writes, p
      <4> QED
        BY <1>4, <1>9, <3>1, <4>1
    <3> QED
      BY <1>6, <1>9, <3>1, <3>2
  <2>4. closed' \in [Ends -> BOOLEAN] /\ reset' \in [Ends -> BOOLEAN]
    BY <1>2, <1>5 DEF TypeOK
  <2>5. \A f \in Ends : op'[f].n <= Len(op'[f].buf) /\ op'[f].res <= Len(op'[f].buf)
    <3>1. op[p].n <= Len(op[p].buf) /\ op[p].res <= Len(op[p].buf)
      BY <1>1, <1>2 DEF TypeOK
    <3> QED
      BY <1>4, <1>6, <1>7, <3>1
  <2>6. offered' \in [Ends -> Bytes'] /\ seen' \in [Ends -> Bytes']
    BY <1>2, <1>5 DEF TypeOK
  <2> QED
    BY <1>5, <1>7, <1>9, <2>1, <2>2, <2>3, <2>4, <2>5, <2>6 DEF TypeOK
<1>b. ConnectInv' /\ LinkInv'
  <2>1. ConnectInv'
    BY <1>2, <1>5 DEF ConnectInv
  <2>2. op[e].phase # "idle"
    BY DEF Writes
  <2>3. LinkInv'
    BY <1>2, <1>5, <1>6, <1>7, <2>2 DEF LinkInv
  <2> QED
    BY <2>1, <2>3
<1>c. OpInv'
  <2>1. /\ ph \in {"ready", "armed", "done"}
        /\ ph \in {"ready", "armed"} => x = 0
        /\ ph = "done" /\ x # Err => n + r = Len(b)
    BY DEF Writes, n, b
  <2> SUFFICES ASSUME NEW f \in Ends
      PROVE  /\ op'[f].phase = "idle" <=> op'[f].kind = "none"
             /\ op'[f].phase = "idle" => op'[f].n = 0
             /\ op'[f].phase \in {"ready", "armed"} => op'[f].res = 0
             /\ op'[f].kind = "read" => op'[f].n = 0
             /\ op'[f].kind = "until" => op'[f].res <= op'[f].n
             /\ op'[f].kind = "write" /\ op'[f].phase = "done" /\ op'[f].res # Err =>
                    op'[f].n = Len(op'[f].buf)
    BY DEF OpInv
  <2>2. CASE f = e
    BY <1>7, <2>1, <2>2
  <2>3. CASE f = p
    BY <1>2, <1>7, <2>3 DEF OpInv
  <2> QED
    BY <1>6, <2>2, <2>3
<1>d. DataInv'
  <2> SUFFICES ASSUME NEW f \in Ends
      PROVE  /\ At(f, "write", "ready")' \/ At(f, "write", "armed")' =>
                    \A j \in 1 .. Len(op'[f].buf) :
                        op'[f].buf[j] = offered'[f] - Len(op'[f].buf) + j
             /\ \A j \in 1 .. Got(f)' : op'[f].buf[j] = seen'[f] + j
             /\ op'[f].res # Err =>
                    \A j \in 1 .. Len(wire'[f]) : wire'[f][j] = seen'[f] + Got(f)' + j
    BY DEF DataInv
  <2>1. CASE f = e
    <3>1. \A j \in 1 .. Len(b) : b[j] = offered[e] - Len(b) + j
      BY <1>2 DEF DataInv, At, Writes, b
    <3>2. \A j \in 1 .. Len(wire[e]) : wire[e][j] = seen[e] + 0 + j
      BY <1>2, <1>3 DEF DataInv, Err
    <3>3. \A j \in 1 .. 0 : b[j] = seen[e] + j
      OBVIOUS
    <3> QED
      BY <1>5, <1>7, <1>8, <1>9, <2>1, <3>1, <3>2, <3>3
  <2>2. CASE f = p
    <3>1. /\ At(p, "write", "ready") \/ At(p, "write", "armed") =>
                 \A j \in 1 .. Len(op[p].buf) : op[p].buf[j] = offered[p] - Len(op[p].buf) + j
          /\ \A j \in 1 .. Got(p) : op[p].buf[j] = seen[p] + j
          /\ op[p].res # Err =>
                 \A j \in 1 .. Len(wire[p]) : wire[p][j] = seen[p] + Got(p) + j
      BY <1>1, <1>2 DEF DataInv
    <3> QED
      BY <1>5, <1>7, <1>8, <1>9, <2>2, <3>1, SMTT(30) DEF At
  <2> QED
    BY <1>6, <2>1, <2>2
<1>e. FlowInv'
  <2>1. /\ seen[p] + Got(p) + Len(wire[p]) + Unsent(e) <= offered[e]
        /\ seen[e] + Got(e) + Len(wire[e]) + Unsent(p) <= offered[p]
    BY <1>1, <1>2 DEF FlowInv, p
  <2>2. \A f \in Ends :
           seen'[Peer(f)] + Got(Peer(f))' + Len(wire'[Peer(f)]) + Unsent(f)' <= offered'[f]
    <3>1. Peer(e) = p /\ Peer(p) = e
      BY <1>1 DEF p
    <3>2. seen[p] + Got(p) + Len(wire'[p]) + Unsent(e)' <= offered[e]
      <4>1. Len(wire'[p]) <= Len(wire[p]) + r /\ Len(wire'[p]) \in Nat
        BY <1>4, <1>9
      <4>2. Unsent(e)' \in Int
        BY <1>4, <1>7 DEF Unsent, Rest
      <4>3. /\ seen[p] \in Nat /\ Got(p) \in Nat /\ Len(wire[p]) \in Nat /\ Len(b) \in Nat
            /\ n \in Nat /\ offered[e] \in Nat
        BY <1>4
      <4>4. Unsent(e)' <= Len(b) - (n + r) /\ Unsent(e) = Len(b) - n
        BY <1>8
      <4>5. seen[p] + Got(p) + (Len(wire[p]) + r) + (Len(b) - (n + r)) <= offered[e]
        BY <2>1, <4>3, <4>4
      <4> HIDE DEF n, b, p
      <4>7. /\ seen[p] + Got(p) \in Int /\ Len(wire[p]) + r \in Int
            /\ Len(b) - (n + r) \in Int /\ offered[e] \in Int
            /\ Len(wire'[p]) \in Int /\ Unsent(e)' \in Int
        BY <4>1, <4>2, <4>3
      <4> QED
        BY <4>1, <4>3, <4>4, <4>5, <4>7, SumBelow, ZenonT(30)
    <3>3. seen[e] + Got(e)' + Len(wire'[e]) + Unsent(p)' <= offered[p]
      BY <1>3, <1>8, <1>9, <2>1
    <3> QED
      BY <1>5, <1>6, <1>8, <3>1, <3>2, <3>3
  <2> QED
    BY <2>2 DEF FlowInv, Peer
<1>f. Conserved'
  <2>1. Peer(e) = p /\ Peer(p) = e
    BY <1>1 DEF p
  <2>2. ASSUME NEW f \in Ends, ~closed[f], ~closed[Peer(f)],
               op'[f].res # Err, op'[Peer(f)].res # Err
        PROVE  seen[Peer(f)] + Got(Peer(f))' + Len(wire'[Peer(f)]) + Unsent(f)' = offered[f]
    <3>1. op[f].res # Err /\ op[Peer(f)].res # Err /\ x # Err
      <4>1. op[e].res # Err
        BY <1>3 DEF Err
      <4> QED
        BY <1>6, <1>7, <2>1, <2>2, <4>1
    <3>2. seen[Peer(f)] + Got(Peer(f)) + Len(wire[Peer(f)]) + Unsent(f) = offered[f]
      BY <1>2, <2>2, <3>1 DEF Conserved, Unsent
    <3>3. CASE f = e
      <4>1. Len(wire'[p]) = Len(wire[p]) + r
        BY <1>9, <2>1, <2>2, <3>3
      <4>2. Got(p)' = Got(p) /\ Unsent(e) = Len(b) - n /\ Unsent(e)' = Len(b) - (n + r)
        BY <1>8, <3>1
      <4>3. /\ seen[p] \in Nat /\ Got(p) \in Nat /\ Len(wire[p]) \in Nat /\ Len(b) \in Nat
            /\ n \in Nat
        BY <1>4
      <4>4. seen[p] + Got(p) + Len(wire[p]) + (Len(b) - n) = offered[e]
        BY <2>1, <3>2, <3>3, <4>2
      <4>5. seen[p] + Got(p) + (Len(wire[p]) + r) + (Len(b) - (n + r)) = offered[e]
        BY <4>3, <4>4
      <4> QED
        BY <2>1, <3>3, <4>1, <4>2, <4>5
    <3>4. CASE f = p
      BY <1>3, <1>8, <1>9, <2>1, <3>2, <3>4
    <3> QED
      BY <1>6, <3>3, <3>4
  <2> QED
    BY <1>5, <2>2 DEF Conserved, Unsent, Peer
<1>g. ShortOnlyAtEof'
  <2>1. ASSUME NEW f \in Ends, op'[f].phase = "done", op'[f].kind \in {"until", "write"}
        PROVE  \/ op'[f].res \in {Err, Len(op'[f].buf)}
               \/ op'[f].kind = "until" /\ closed[Peer(f)] /\ wire'[f] = <<>>
    <3>1. CASE f = e
      <4>1. x \in {Err, Len(b)}
        BY <1>7, <2>1, <3>1 DEF Writes, b
      <4> QED
        BY <1>7, <2>1, <3>1, <4>1
    <3>2. CASE f = p
      <4>1. ~closed[Peer(p)]
        BY <1>1, <1>3
      <4>2. op[p].res \in {Err, Len(op[p].buf)}
        BY <1>1, <1>2, <1>7, <2>1, <3>2, <4>1 DEF ShortOnlyAtEof
      <4> QED
        BY <1>7, <3>2, <4>2
    <3> QED
      BY <1>6, <3>1, <3>2
  <2> QED
    BY <1>5, <2>1 DEF ShortOnlyAtEof, Peer
<1> QED
  BY <1>a, <1>b, <1>c, <1>d, <1>e, <1>f, <1>g DEF IInv
-----------------------------------------------------------------------------
\* The handshake concerns neither bytes nor awaitables.
LEMMA Linked ==
    ASSUME IInv, UNCHANGED <<program, wire, op, offered, seen>>,
           tcp' \in {"none", "syn", "up", "refused"},
           conn' \in [Ends -> {"none", "called", "armed", "open", "failed"}],
           closed' \in [Ends -> BOOLEAN], reset' \in [Ends -> BOOLEAN],
           \A e \in Ends : closed[e] => closed'[e],
           ConnectInv', LinkInv'
    PROVE  IInv'
<1>1. /\ TypeOK /\ OpInv /\ DataInv /\ FlowInv /\ Conserved /\ ShortOnlyAtEof
  BY DEF IInv
<1>2. /\ \A e \in Ends : Peer(e)' = Peer(e) /\ Got(e)' = Got(e) /\ Unsent(e)' = Unsent(e)
      /\ Bytes' = Bytes
  BY DEF Got, At, Unsent, Rest, Bytes
<1>3. TypeOK'
  BY <1>1, <1>2 DEF TypeOK
<1>4. OpInv' /\ DataInv' /\ FlowInv'
  <2>1. OpInv' /\ DataInv'
    BY <1>1, <1>2 DEF OpInv, DataInv, At
  <2>2. ASSUME NEW e \in Ends
        PROVE  seen[Peer(e)] + Got(Peer(e))' + Len(wire[Peer(e)]) + Unsent(e)' <= offered[e]
    <3>1. Peer(e) \in Ends
      BY TwoEnds
    <3>2. Got(Peer(e))' = Got(Peer(e)) /\ Unsent(e)' = Unsent(e)
      BY <1>2, <3>1
    <3> QED
      BY <1>1, <3>2 DEF FlowInv
  <2>3. FlowInv'
    BY <2>2 DEF FlowInv, Peer
  <2> QED
    BY <2>1, <2>3
<1>5. Conserved' /\ ShortOnlyAtEof'
  <2>1. ASSUME NEW e \in Ends, ~closed'[e], ~closed'[Peer(e)],
               op[e].res # Err, op[Peer(e)].res # Err
        PROVE  seen[Peer(e)] + Got(Peer(e)) + Len(wire[Peer(e)]) + Unsent(e) = offered[e]
    BY <1>1, <2>1, TwoEnds DEF Conserved, Unsent
  <2>2. ASSUME NEW e \in Ends, op[e].phase = "done", op[e].kind \in {"until", "write"}
        PROVE  \/ op[e].res \in {Err, Len(op[e].buf)}
               \/ op[e].kind = "until" /\ closed'[Peer(e)] /\ wire[e] = <<>>
    BY <1>1, <2>2, TwoEnds DEF ShortOnlyAtEof
  <2>3. Conserved'
    <3> SUFFICES ASSUME NEW e \in Ends, ~closed'[e], ~closed'[Peer(e)],
                        op'[e].res # Err, op'[Peer(e)].res # Err
                 PROVE  seen'[Peer(e)] + Got(Peer(e))' + Len(wire'[Peer(e)]) + Unsent(e)'
                          = offered'[e]
      BY DEF Conserved, Unsent, Peer
    <3>1. Peer(e) \in Ends
      BY TwoEnds
    <3>2. Got(Peer(e))' = Got(Peer(e)) /\ Unsent(e)' = Unsent(e)
      BY <1>2, <3>1
    <3> QED
      BY <2>1, <3>2
  <2>4. ShortOnlyAtEof'
    BY <2>2 DEF ShortOnlyAtEof, Peer
  <2> QED
    BY <2>3, <2>4
<1> QED
  BY <1>3, <1>4, <1>5 DEF IInv

\* The last copy of a descriptor goes away: an end may only close between two
\* operations, and the kernel drops a suffix of what is on its way to the peer.
LEMMA Leaves ==
    ASSUME IInv, NEW e \in Ends, GivesUp(e), op[e].phase = "idle",
           UNCHANGED <<program, op, offered, seen>>,
           tcp' \in {"none", "syn", "up", "refused"},
           conn' \in [Ends -> {"none", "called", "armed", "open", "failed"}],
           ConnectInv', LinkInv'
    PROVE  IInv'
<1> DEFINE p == Peer(e)
<1>1. /\ p \in Ends /\ p # e /\ Peer(p) = e /\ Peer(e) = p
      /\ \A f \in Ends : f = e \/ f = p
  BY TwoEnds
<1>2. /\ TypeOK /\ ConnectInv /\ LinkInv /\ OpInv /\ DataInv /\ FlowInv
      /\ Conserved /\ ShortOnlyAtEof
  BY DEF IInv
<1>3. /\ wire[p] \in Seq(Bytes) /\ wire[e] \in Seq(Bytes) /\ wire \in [Ends -> Seq(Bytes)]
      /\ Len(wire[p]) \in Nat /\ Len(wire[e]) \in Nat /\ <<>> \in Seq(Bytes) /\ Len(<<>>) = 0
      /\ seen[e] \in Nat /\ seen[p] \in Nat /\ offered[e] \in Nat /\ offered[p] \in Nat
      /\ Got(e) \in Nat /\ Got(p) \in Nat /\ Unsent(e) \in Nat /\ Unsent(p) \in Nat
      /\ closed \in [Ends -> BOOLEAN] /\ reset \in [Ends -> BOOLEAN]
  BY <1>1, <1>2, Measures, EmptySeq DEF TypeOK
<1>4. /\ program' = program /\ op' = op
      /\ offered' = offered /\ seen' = seen /\ Bytes' = Bytes
      /\ op[e].phase = "idle"
      /\ closed' = [closed EXCEPT ![e] = TRUE]
  BY DEF GivesUp, Bytes
<1>5. PICK k \in 0 .. Len(wire[p]) :
         /\ wire' \in [Ends -> Seq(Bytes)] /\ wire'[e] = <<>> /\ Len(wire'[p]) = k
         /\ \A j \in 1 .. k : wire'[p][j] = wire[p][j]
         /\ reset' \in [Ends -> BOOLEAN]
  <2>1. CASE wire[e] = <<>>
    <3>1. wire' = wire /\ reset' = reset
      BY <2>1 DEF GivesUp
    <3>2. Len(wire[p]) \in 0 .. Len(wire[p])
      BY <1>3
    <3> QED
      BY <1>3, <2>1, <3>1, <3>2
  <2>2. CASE wire[e] # <<>>
    <3>1. PICK k \in 0 .. Len(wire[p]) :
             wire' = [wire EXCEPT ![e] = <<>>, ![p] = SubSeq(@, 1, k)]
      BY <2>2 DEF GivesUp
    <3>2. reset' = [reset EXCEPT ![p] = TRUE]
      BY <2>2 DEF GivesUp
    <3> DEFINE s == SubSeq(wire[p], 1, k)
    <3>3. s \in Seq(Bytes) /\ Len(s) = k /\ \A j \in 1 .. k : s[j] = wire[p][j]
      <4> HIDE DEF p
      <4> QED
        BY <1>3, Prefix
    <3> HIDE DEF s, p
    <3>5. wire' = [wire EXCEPT ![e] = <<>>, ![p] = s]
      BY <3>1 DEF s
    <3>6. wire'[e] = <<>> /\ wire'[p] = s /\ wire' \in [Ends -> Seq(Bytes)]
      <4> DEFINE w == [wire EXCEPT ![e] = <<>>]
      <4>1. w \in [Ends -> Seq(Bytes)] /\ w[e] = <<>>
        BY <1>3
      <4>2. wire' = [w EXCEPT ![p] = s]
        BY <3>5
      <4> HIDE DEF w
      <4> QED
        BY <1>1, <3>3, <4>1, <4>2
    <3>7. reset' \in [Ends -> BOOLEAN]
      BY <1>3, <3>2
    <3> QED
      BY <3>3, <3>6, <3>7
  <2> QED
    BY <2>1, <2>2
<1>6. ASSUME NEW f \in Ends
      PROVE  f = e \/ f = p
  BY <1>1
<1>7. /\ \A f \in Ends : Got(f)' = Got(f) /\ Unsent(f)' = Unsent(f)
      /\ \A f \in Ends : \A kd, ph : At(f, kd, ph)' <=> At(f, kd, ph)
      /\ closed'[e] /\ closed'[p] = closed[p] /\ closed' \in [Ends -> BOOLEAN]
  BY <1>1, <1>3, <1>4 DEF Got, Unsent, Rest, At
<1>8. Len(wire'[e]) = 0 /\ Len(wire'[p]) <= Len(wire[p]) /\ Len(wire'[p]) \in Nat
  BY <1>3, <1>5
<1> HIDE DEF p
<1>a. TypeOK'
  <2>1. /\ program' \in {"any", "echo"} /\ tcp' \in {"none", "syn", "up", "refused"}
        /\ conn' \in [Ends -> {"none", "called", "armed", "open", "failed"}]
        /\ offered' \in [Ends -> Bytes'] /\ seen' \in [Ends -> Bytes']
        /\ op' \in [Ends -> [kind : {"none", "read", "until", "write"},
                            phase : {"idle", "ready", "armed", "done"},
                            buf : Seq(Bytes'), n : Nat, res : {Err} \cup Nat]]
        /\ \A f \in Ends : op'[f].n <= Len(op'[f].buf) /\ op'[f].res <= Len(op'[f].buf)
    BY <1>2, <1>4 DEF TypeOK
  <2>2. wire' \in [Ends -> Seq(Bytes')] /\ \A f \in Ends : Len(wire'[f]) <= Cap
    <3>1. Len(wire[p]) <= Cap /\ Cap \in Nat
      BY <1>1, <1>2, StreamAssumption DEF TypeOK
    <3>2. Len(wire'[e]) <= Cap /\ Len(wire'[p]) <= Cap
      BY <1>3, <1>8, <3>1
    <3> QED
      BY <1>4, <1>5, <1>6, <3>2
  <2> QED
    BY <1>5, <1>7, <2>1, <2>2 DEF TypeOK
<1>c. OpInv'
  BY <1>2, <1>4 DEF OpInv
<1>d. DataInv'
  <2> SUFFICES ASSUME NEW f \in Ends
      PROVE  /\ At(f, "write", "ready")' \/ At(f, "write", "armed")' =>
                    \A j \in 1 .. Len(op'[f].buf) :
                        op'[f].buf[j] = offered'[f] - Len(op'[f].buf) + j
             /\ \A j \in 1 .. Got(f)' : op'[f].buf[j] = seen'[f] + j
             /\ op'[f].res # Err =>
                    \A j \in 1 .. Len(wire'[f]) : wire'[f][j] = seen'[f] + Got(f)' + j
    BY DEF DataInv
  <2>1. /\ At(f, "write", "ready") \/ At(f, "write", "armed") =>
               \A j \in 1 .. Len(op[f].buf) : op[f].buf[j] = offered[f] - Len(op[f].buf) + j
        /\ \A j \in 1 .. Got(f) : op[f].buf[j] = seen[f] + j
        /\ op[f].res # Err =>
               \A j \in 1 .. Len(wire[f]) : wire[f][j] = seen[f] + Got(f) + j
    BY <1>2 DEF DataInv
  <2>2. \A j \in 1 .. Len(wire'[f]) : j \in 1 .. Len(wire[f]) /\ wire'[f][j] = wire[f][j]
    <3>1. CASE f = e
      BY <1>8, <3>1
    <3>2. CASE f = p
      <4>1. \A j \in 1 .. k : j \in 1 .. Len(wire[p]) /\ wire'[p][j] = wire[p][j]
        BY <1>3, <1>5
      <4> QED
        BY <1>5, <3>2, <4>1, Zenon
    <3> QED
      BY <1>6, <3>1, <3>2
  <2> QED
    BY <1>4, <1>7, <2>1, <2>2
<1>e. FlowInv'
  <2>1. /\ seen[p] + Got(p) + Len(wire[p]) + Unsent(e) <= offered[e]
        /\ seen[e] + Got(e) + Len(wire[e]) + Unsent(p) <= offered[p]
    BY <1>1, <1>2 DEF FlowInv
  <2>2. seen[p] + Got(p) + Len(wire'[p]) + Unsent(e) <= offered[e]
    <3>1. /\ seen[p] \in Nat /\ Got(p) \in Nat /\ Len(wire[p]) \in Nat /\ Unsent(e) \in Nat
          /\ offered[e] \in Nat /\ Len(wire'[p]) \in Nat /\ Len(wire'[p]) <= Len(wire[p])
      BY <1>3, <1>8
    <3>2. seen[p] + Got(p) + Len(wire[p]) + Unsent(e) <= offered[e]
      BY <2>1
    <3> QED
      BY <3>1, <3>2, Shrinks
  <2>3. seen[e] + Got(e) + Len(wire'[e]) + Unsent(p) <= offered[p]
    <3>1. /\ seen[e] \in Nat /\ Got(e) \in Nat /\ Len(wire[e]) \in Nat /\ Unsent(p) \in Nat
          /\ offered[p] \in Nat /\ Len(wire'[e]) \in Nat /\ Len(wire'[e]) <= Len(wire[e])
      BY <1>3, <1>8
    <3>2. seen[e] + Got(e) + Len(wire[e]) + Unsent(p) <= offered[p]
      BY <2>1
    <3> QED
      BY <3>1, <3>2, Shrinks
  <2>4. \A f \in Ends :
           seen'[Peer(f)] + Got(Peer(f))' + Len(wire'[Peer(f)]) + Unsent(f)' <= offered'[f]
    BY <1>1, <1>4, <1>6, <1>7, <2>2, <2>3
  <2> QED
    BY <2>4 DEF FlowInv, Peer
<1>f. Conserved'
  <2>1. \A f \in Ends : closed'[f] \/ closed'[Peer(f)]
    BY <1>1, <1>6, <1>7
  <2> SUFFICES ASSUME NEW f \in Ends, ~closed'[f], ~closed'[Peer(f)]
               PROVE  FALSE
    BY DEF Conserved, Peer
  <2> QED
    BY <2>1
<1>g. ShortOnlyAtEof'
  <2>1. ASSUME NEW f \in Ends, op[f].phase = "done", op[f].kind \in {"until", "write"}
        PROVE  \/ op[f].res \in {Err, Len(op[f].buf)}
               \/ op[f].kind = "until" /\ closed'[Peer(f)] /\ wire'[f] = <<>>
    <3>1. f = p
      BY <1>4, <1>6, <2>1
    <3>2. wire[p] = <<>> => wire'[p] = <<>>
      <4>1. wire[p] = <<>> => Len(wire'[p]) = 0
        BY <1>3, <1>8
      <4>2. wire'[p] \in Seq(Bytes)
        BY <1>1, <1>5
      <4> QED
        BY <4>1, <4>2, EmptySeq
    <3>3. op[p].res \in {Err, Len(op[p].buf)} \/ (op[p].kind = "until" /\ wire[p] = <<>>)
      BY <1>1, <1>2, <2>1, <3>1 DEF ShortOnlyAtEof
    <3> QED
      BY <1>1, <1>7, <3>1, <3>2, <3>3
  <2> QED
    BY <1>4, <2>1 DEF ShortOnlyAtEof, Peer
<1> QED
  BY <1>a, <1>c, <1>d, <1>e, <1>f, <1>g DEF IInv

LEMMA LinkSteps ==
    ASSUME IInv, Connect \/ Links
    PROVE  IInv'
<1>1. /\ TypeOK /\ ConnectInv /\ LinkInv
  BY DEF IInv
<1>2. "client" \in Ends /\ "server" \in Ends /\ \A e \in Ends : e = "client" \/ e = "server"
  BY DEF Ends
<1>3. /\ conn \in [Ends -> {"none", "called", "armed", "open", "failed"}]
      /\ closed \in [Ends -> BOOLEAN] /\ reset \in [Ends -> BOOLEAN]
      /\ tcp \in {"none", "syn", "up", "refused"}
  BY <1>1 DEF TypeOK
<1>4. CASE Connect
  <2>1. /\ UNCHANGED <<program, op, offered, seen>> /\ conn["client"] = "none"
        /\ tcp = "none" /\ op["client"].phase = "idle" /\ ~closed["client"]
        /\ conn["server"] # "open"
    BY <1>1, <1>2, <1>4 DEF Connect, ConnectInv, LinkInv
  <2>2. ASSUME NEW c \in {"open", "called"}, UNCHANGED net,
               conn' = [conn EXCEPT !["client"] = c], tcp' \in {"syn", "up"},
               c = "open" => tcp' = "up"
        PROVE  IInv'
    <3>1. UNCHANGED <<wire, closed, reset>>
      BY <2>2 DEF net
    <3>2. ConnectInv' /\ LinkInv'
      BY <1>1, <1>2, <1>3, <2>1, <2>2, <3>1 DEF ConnectInv, LinkInv
    <3>3. conn' \in [Ends -> {"none", "called", "armed", "open", "failed"}]
      BY <1>3, <2>2
    <3> QED
      BY <1>3, <2>1, <2>2, <3>1, <3>2, <3>3, Linked
  <2>3. CASE /\ tcp' = "refused" /\ conn' = [conn EXCEPT !["client"] = "failed"]
             /\ GivesUp("client")
    <3>1. closed' = [closed EXCEPT !["client"] = TRUE]
      BY <2>3 DEF GivesUp
    <3>2. ConnectInv' /\ LinkInv'
      BY <1>1, <1>2, <1>3, <2>1, <2>3, <3>1 DEF ConnectInv, LinkInv
    <3>3. conn' \in [Ends -> {"none", "called", "armed", "open", "failed"}]
      BY <1>3, <2>3
    <3> QED
      BY <1>2, <2>1, <2>3, <3>2, <3>3, Leaves
  <2> QED
    BY <1>4, <2>2, <2>3 DEF Connect
<1>5. CASE Handshake
  <2>1. /\ UNCHANGED <<program, wire, op, offered, seen>> /\ UNCHANGED <<conn, closed, reset>>
        /\ tcp = "syn" /\ tcp' \in {"up", "refused"}
    BY <1>5 DEF Handshake, net
  <2>2. ConnectInv' /\ LinkInv'
    BY <1>1, <2>1 DEF ConnectInv, LinkInv
  <2> QED
    BY <1>3, <2>1, <2>2, Linked
<1>6. CASE ConnectCallback
  <2>1. PICK ok \in BOOLEAN :
           /\ ok => tcp = "up"
           /\ conn' = [conn EXCEPT !["client"] = Decided(ok)]
           /\ IF ok THEN UNCHANGED net ELSE GivesUp("client")
           /\ tcp' = IF ~ok /\ tcp = "syn" THEN "refused" ELSE tcp
    BY <1>6 DEF ConnectCallback
  <2>2. /\ UNCHANGED <<program, op, offered, seen>>
        /\ conn["client"] = "armed" /\ op["client"].phase = "idle"
    BY <1>1, <1>2, <1>6 DEF ConnectCallback, LinkInv
  <2>3. conn' \in [Ends -> {"none", "called", "armed", "open", "failed"}]
    BY <1>3, <2>1 DEF Decided
  <2>4. tcp' \in {"none", "syn", "up", "refused"}
    BY <1>3, <2>1
  <2>5. CASE ok
    <3>1. UNCHANGED <<wire, closed, reset>> /\ tcp' = tcp
      BY <2>1, <2>5 DEF net
    <3>2. ConnectInv' /\ LinkInv'
      BY <1>1, <1>2, <1>3, <2>1, <2>2, <2>5, <3>1 DEF ConnectInv, LinkInv, Decided
    <3> QED
      BY <1>3, <2>2, <2>3, <2>4, <3>1, <3>2, Linked
  <2>6. CASE ~ok
    <3>1. GivesUp("client") /\ closed' = [closed EXCEPT !["client"] = TRUE]
      BY <2>1, <2>6 DEF GivesUp
    <3>2. ConnectInv' /\ LinkInv'
      BY <1>1, <1>2, <1>3, <2>1, <2>2, <2>6, <3>1 DEF ConnectInv, LinkInv, Decided
    <3> QED
      BY <1>2, <2>2, <2>3, <2>4, <3>1, <3>2, Leaves
  <2> QED
    BY <2>5, <2>6
<1>7. CASE AcceptReady
  <2>1. /\ UNCHANGED <<program, wire, op, offered, seen>> /\ UNCHANGED <<tcp, closed, reset>>
        /\ conn["server"] = "none"
        /\ \/ tcp = "up" /\ conn' = [conn EXCEPT !["server"] = "open"]
           \/ conn' = [conn EXCEPT !["server"] = "called"]
    BY <1>7 DEF AcceptReady, net
  <2>2. ConnectInv' /\ LinkInv'
    BY <1>1, <1>2, <1>3, <2>1 DEF ConnectInv, LinkInv
  <2>3. conn' \in [Ends -> {"none", "called", "armed", "open", "failed"}]
    BY <1>3, <2>1
  <2> QED
    BY <1>3, <2>1, <2>2, <2>3, Linked
<1>8. CASE AcceptCallback
  <2>1. PICK ok \in {TRUE, ~MayRefuse} :
           /\ conn' = [conn EXCEPT !["server"] = Decided(ok)]
           /\ closed' = [closed EXCEPT !["server"] = ~ok]
           /\ reset' = [reset EXCEPT !["client"] = ~ok]
    BY <1>8 DEF AcceptCallback
  <2>2. /\ UNCHANGED <<program, wire, op, offered, seen>> /\ UNCHANGED tcp
        /\ conn["server"] = "armed" /\ tcp = "up" /\ ok \in BOOLEAN
    BY <1>8, StreamAssumption DEF AcceptCallback
  <2>3. ConnectInv' /\ LinkInv'
    BY <1>1, <1>2, <1>3, <2>1, <2>2 DEF ConnectInv, LinkInv, Decided
  <2>4. conn' \in [Ends -> {"none", "called", "armed", "open", "failed"}]
    BY <1>3, <2>1 DEF Decided
  <2>5. \A e \in Ends : closed[e] => closed'[e]
    BY <1>1, <1>2, <1>3, <2>1, <2>2 DEF LinkInv
  <2>6. closed' \in [Ends -> BOOLEAN] /\ reset' \in [Ends -> BOOLEAN]
    BY <1>3, <2>1, <2>2
  <2> QED
    BY <1>3, <2>2, <2>3, <2>4, <2>5, <2>6, Linked
<1>9. ASSUME NEW e \in Ends, Register(e)
      PROVE  IInv'
  <2>1. /\ UNCHANGED <<program, wire, op, offered, seen>> /\ UNCHANGED <<tcp, closed, reset>>
        /\ conn[e] = "called" /\ conn' = [conn EXCEPT ![e] = "armed"]
    BY <1>9 DEF Register, net
  <2>2. ConnectInv' /\ LinkInv'
    BY <1>1, <1>2, <1>3, <2>1 DEF ConnectInv, LinkInv
  <2>3. conn' \in [Ends -> {"none", "called", "armed", "open", "failed"}]
    BY <1>3, <2>1
  <2> QED
    BY <1>3, <2>1, <2>2, <2>3, Linked
<1> QED
  BY <1>4, <1>5, <1>6, <1>7, <1>8, <1>9 DEF Links
-----------------------------------------------------------------------------
\* An end that has a connection starts an operation on the vector b, which
\* offers z bytes.
Opens(e, kind, b, z) ==
    /\ op[e].phase = "idle" /\ conn[e] = "open" /\ ~closed[e] /\ op[e].res # Err
    /\ UNCHANGED <<link, net, seen>>
    /\ op' = [op EXCEPT ![e] = [kind |-> kind, phase |-> "ready", buf |-> b,
                               n |-> 0, res |-> 0]]
    /\ offered' = [offered EXCEPT ![e] = @ + z] /\ offered[e] + z <= MaxBytes[program]
    /\ \/ kind \in {"read", "until"} /\ z = 0
       \/ kind = "write" /\ z = Len(b) /\ \A j \in 1 .. z : b[j] = offered[e] + j

LEMMA Begins ==
    ASSUME IInv, NEW e \in Ends, NEW kind, NEW b \in Seq(Bytes), NEW z \in Nat,
           Opens(e, kind, b, z)
    PROVE  IInv'
<1> DEFINE p == Peer(e)
<1>1. /\ p \in Ends /\ p # e /\ Peer(p) = e /\ Peer(e) = p
      /\ \A f \in Ends : f = e \/ f = p
  BY TwoEnds
<1>2. /\ TypeOK /\ ConnectInv /\ LinkInv /\ OpInv /\ DataInv /\ FlowInv
      /\ Conserved /\ ShortOnlyAtEof
  BY DEF IInv
<1>3. /\ op[e].kind = "none" /\ Got(e) = 0 /\ Unsent(e) = 0
  BY <1>2 DEF OpInv, Opens, Got, At, Unsent
<1>4. /\ MaxBytes[program] \in Nat /\ Len(b) \in Nat /\ Len(wire[p]) \in Nat
      /\ seen[p] \in Nat /\ offered[e] \in Nat /\ Got(p) \in Nat
      /\ seen[e] \in Nat /\ offered[p] \in Nat
  BY <1>1, <1>2, Measures, LenProperties
<1>5. /\ program' = program /\ tcp' = tcp /\ conn' = conn /\ closed' = closed
      /\ reset' = reset /\ wire' = wire /\ seen' = seen /\ Bytes' = Bytes
      /\ conn[e] = "open" /\ ~closed[e]
  BY DEF Opens, link, net, Bytes
<1>6. ASSUME NEW f \in Ends
      PROVE  f = e \/ f = p
  BY <1>1
<1>7. /\ op' \in [Ends -> [kind : {"none", "read", "until", "write"},
                           phase : {"idle", "ready", "armed", "done"},
                           buf : Seq(Bytes), n : Nat, res : {Err} \cup Nat]]
      /\ op'[e].kind = kind /\ op'[e].phase = "ready" /\ op'[e].buf = b
      /\ op'[e].n = 0 /\ op'[e].res = 0 /\ op'[p] = op[p]
  <2>1. op \in [Ends -> [kind : {"none", "read", "until", "write"},
                        phase : {"idle", "ready", "armed", "done"},
                        buf : Seq(Bytes), n : Nat, res : {Err} \cup Nat]]
    BY <1>2 DEF TypeOK
  <2>2. kind \in {"none", "read", "until", "write"}
    BY DEF Opens
  <2>3. op' = [op EXCEPT ![e] = [kind |-> kind, phase |-> "ready", buf |-> b,
                                n |-> 0, res |-> 0]]
    BY DEF Opens
  <2> HIDE DEF p
  <2> QED
    BY <1>1, <2>1, <2>2, <2>3
<1>8. /\ offered' \in [Ends -> Bytes] /\ offered'[e] = offered[e] + z
      /\ offered'[p] = offered[p]
  <2>1. offered \in [Ends -> Bytes] /\ offered[e] + z \in Bytes
    <3>1. offered \in [Ends -> Bytes]
      BY <1>2 DEF TypeOK
    <3>2. offered[e] + z <= MaxBytes[program]
      BY DEF Opens
    <3> QED
      BY <1>4, <3>1, <3>2 DEF Bytes
  <2>2. offered' = [offered EXCEPT ![e] = @ + z]
    BY DEF Opens
  <2> HIDE DEF p
  <2> QED
    BY <1>1, <2>1, <2>2
<1>9. /\ Got(e)' = 0 /\ Got(p)' = Got(p) /\ Unsent(p)' = Unsent(p) /\ Unsent(e)' = z
  <2>1. Got(e)' = 0 /\ Got(p)' = Got(p) /\ Unsent(p)' = Unsent(p)
    BY <1>7 DEF Got, At, Unsent, Rest
  <2>2. Unsent(e)' = IF kind = "write" THEN Len(b) - 0 ELSE 0
    BY <1>7 DEF Unsent, Rest
  <2> QED
    BY <1>4, <2>1, <2>2 DEF Opens
<1> HIDE DEF p
<1>a. TypeOK'
  <2>1. /\ program' \in {"any", "echo"} /\ tcp' \in {"none", "syn", "up", "refused"}
        /\ conn' \in [Ends -> {"none", "called", "armed", "open", "failed"}]
        /\ wire' \in [Ends -> Seq(Bytes')] /\ \A f \in Ends : Len(wire'[f]) <= Cap
        /\ closed' \in [Ends -> BOOLEAN] /\ reset' \in [Ends -> BOOLEAN]
        /\ seen' \in [Ends -> Bytes']
    BY <1>2, <1>5 DEF TypeOK
  <2>2. \A f \in Ends : op'[f].n <= Len(op'[f].buf) /\ op'[f].res <= Len(op'[f].buf)
    <3>1. op[p].n <= Len(op[p].buf) /\ op[p].res <= Len(op[p].buf)
      BY <1>1, <1>2 DEF TypeOK
    <3>2. op'[e].n <= Len(op'[e].buf) /\ op'[e].res <= Len(op'[e].buf)
      BY <1>4, <1>7
    <3> QED
      BY <1>6, <1>7, <3>1, <3>2
  <2> QED
    BY <1>5, <1>7, <1>8, <2>1, <2>2 DEF TypeOK
<1>b. ConnectInv' /\ LinkInv'
  <2>1. ConnectInv'
    BY <1>2, <1>5 DEF ConnectInv
  <2>2. LinkInv'
    BY <1>2, <1>5, <1>6, <1>7 DEF LinkInv
  <2> QED
    BY <2>1, <2>2
<1>c. OpInv'
  <2>1. kind # "none"
    BY DEF Opens
  <2>2. OpInv /\ 0 <= 0
    BY <1>2
  <2> SUFFICES ASSUME NEW f \in Ends
      PROVE  /\ op'[f].phase = "idle" <=> op'[f].kind = "none"
             /\ op'[f].phase = "idle" => op'[f].n = 0
             /\ op'[f].phase \in {"ready", "armed"} => op'[f].res = 0
             /\ op'[f].kind = "read" => op'[f].n = 0
             /\ op'[f].kind = "until" => op'[f].res <= op'[f].n
             /\ op'[f].kind = "write" /\ op'[f].phase = "done" /\ op'[f].res # Err =>
                    op'[f].n = Len(op'[f].buf)
    BY DEF OpInv
  <2>3. CASE f = e
    BY <1>7, <2>1, <2>2, <2>3
  <2>4. CASE f = p
    BY <1>7, <2>2, <2>4 DEF OpInv
  <2> QED
    BY <1>6, <2>3, <2>4
<1>d. DataInv'
  <2> SUFFICES ASSUME NEW f \in Ends
      PROVE  /\ At(f, "write", "ready")' \/ At(f, "write", "armed")' =>
                    \A j \in 1 .. Len(op'[f].buf) :
                        op'[f].buf[j] = offered'[f] - Len(op'[f].buf) + j
             /\ \A j \in 1 .. Got(f)' : op'[f].buf[j] = seen'[f] + j
             /\ op'[f].res # Err =>
                    \A j \in 1 .. Len(wire'[f]) : wire'[f][j] = seen'[f] + Got(f)' + j
    BY DEF DataInv
  <2>1. CASE f = e
    <3>1. kind = "write" => \A j \in 1 .. Len(b) : b[j] = (offered[e] + z) - Len(b) + j
      BY <1>4 DEF Opens
    <3>2. \A j \in 1 .. Len(wire[e]) : wire[e][j] = seen[e] + 0 + j
      BY <1>2, <1>3 DEF DataInv, Opens
    <3>3. \A j \in 1 .. 0 : b[j] = seen[e] + j
      OBVIOUS
    <3>4. At(e, "write", "ready")' \/ At(e, "write", "armed")' => kind = "write"
      BY <1>7 DEF At
    <3> QED
      BY <1>5, <1>7, <1>8, <1>9, <2>1, <3>1, <3>2, <3>3, <3>4
  <2>2. CASE f = p
    <3>1. /\ At(p, "write", "ready") \/ At(p, "write", "armed") =>
                 \A j \in 1 .. Len(op[p].buf) : op[p].buf[j] = offered[p] - Len(op[p].buf) + j
          /\ \A j \in 1 .. Got(p) : op[p].buf[j] = seen[p] + j
          /\ op[p].res # Err =>
                 \A j \in 1 .. Len(wire[p]) : wire[p][j] = seen[p] + Got(p) + j
      BY <1>1, <1>2 DEF DataInv
    <3> QED
      BY <1>5, <1>7, <1>8, <1>9, <2>2, <3>1 DEF At
  <2> QED
    BY <1>6, <2>1, <2>2
<1>e. FlowInv'
  <2>1. /\ seen[p] + Got(p) + Len(wire[p]) + Unsent(e) <= offered[e]
        /\ seen[e] + Got(e) + Len(wire[e]) + Unsent(p) <= offered[p]
    BY <1>1, <1>2 DEF FlowInv
  <2>2. seen[p] + Got(p) + Len(wire[p]) + z <= offered[e] + z
    <3>1. seen[p] + Got(p) + Len(wire[p]) + 0 <= offered[e]
      BY <1>3, <2>1
    <3> QED
      BY <1>4, <3>1, SMTT(30)
  <2>3. \A f \in Ends :
           seen'[Peer(f)] + Got(Peer(f))' + Len(wire'[Peer(f)]) + Unsent(f)' <= offered'[f]
    BY <1>1, <1>3, <1>5, <1>6, <1>8, <1>9, <2>1, <2>2
  <2> QED
    BY <2>3 DEF FlowInv, Peer
<1>f. Conserved'
  <2>1. ASSUME NEW f \in Ends, ~closed[f], ~closed[Peer(f)],
               op'[f].res # Err, op'[Peer(f)].res # Err
        PROVE  seen[Peer(f)] + Got(Peer(f))' + Len(wire[Peer(f)]) + Unsent(f)' = offered'[f]
    <3>1. op[f].res # Err /\ op[Peer(f)].res # Err
      BY <1>1, <1>6, <1>7, <2>1 DEF Opens
    <3>2. seen[Peer(f)] + Got(Peer(f)) + Len(wire[Peer(f)]) + Unsent(f) = offered[f]
      BY <1>2, <2>1, <3>1 DEF Conserved, Unsent
    <3>3. CASE f = e
      <4>1. seen[p] + Got(p) + Len(wire[p]) + 0 = offered[e]
        BY <1>1, <1>3, <3>2, <3>3
      <4>2. seen[p] + Got(p) + Len(wire[p]) + z = offered[e] + z
        BY <1>4, <4>1
      <4> QED
        BY <1>1, <1>8, <1>9, <3>3, <4>2
    <3>4. CASE f = p
      BY <1>1, <1>3, <1>8, <1>9, <3>2, <3>4
    <3> QED
      BY <1>6, <3>3, <3>4
  <2> QED
    BY <1>5, <2>1 DEF Conserved, Unsent, Peer
<1>g. ShortOnlyAtEof'
  <2>1. ASSUME NEW f \in Ends, op'[f].phase = "done", op'[f].kind \in {"until", "write"}
        PROVE  \/ op'[f].res \in {Err, Len(op'[f].buf)}
               \/ op'[f].kind = "until" /\ closed[Peer(f)] /\ wire[f] = <<>>
    <3>1. f = p
      BY <1>6, <1>7, <2>1
    <3> QED
      BY <1>2, <1>7, <2>1, <3>1 DEF ShortOnlyAtEof
  <2> QED
    BY <1>5, <2>1 DEF ShortOnlyAtEof, Peer
<1> QED
  BY <1>a, <1>b, <1>c, <1>d, <1>e, <1>f, <1>g DEF IInv

\* await_resume().
LEMMA Resumes ==
    ASSUME IInv, NEW e \in Ends, AwaitResume(e)
    PROVE  IInv'
<1> DEFINE p == Peer(e)
           g == Reported(e)
<1>1. /\ p \in Ends /\ p # e /\ Peer(p) = e /\ Peer(e) = p
      /\ \A f \in Ends : f = e \/ f = p
  BY TwoEnds
<1>2. /\ TypeOK /\ ConnectInv /\ LinkInv /\ OpInv /\ DataInv /\ FlowInv
      /\ Conserved /\ ShortOnlyAtEof
  BY DEF IInv
<1>3. /\ MaxBytes[program] \in Nat /\ Len(wire[e]) \in Nat /\ Len(wire[p]) \in Nat
      /\ seen[p] \in Nat /\ offered[e] \in Nat /\ Got(p) \in Nat /\ Got(e) \in Nat
      /\ seen[e] \in Nat /\ offered[p] \in Nat /\ Unsent(p) \in Nat
      /\ offered[p] <= MaxBytes[program] /\ op[e].res \in {Err} \cup Nat
  BY <1>1, <1>2, Measures
<1>4. /\ program' = program /\ tcp' = tcp /\ conn' = conn /\ closed' = closed
      /\ reset' = reset /\ wire' = wire /\ offered' = offered /\ Bytes' = Bytes
      /\ op[e].phase = "done" /\ op[e].kind # "none" /\ conn[e] = "open" /\ ~closed[e]
  BY <1>2 DEF AwaitResume, link, net, Bytes, OpInv, LinkInv
<1>5. ASSUME NEW f \in Ends
      PROVE  f = e \/ f = p
  BY <1>1
<1>6. /\ g \in Nat /\ g <= Got(e)
      /\ op[e].res # Err /\ op[e].kind # "write" => g = op[e].res
      /\ op[e].res # Err /\ g # Got(e) => closed[p] /\ wire[e] = <<>>
  <2>1. op[e].kind = "read" => Got(e) = IF op[e].res > 0 THEN op[e].res ELSE 0
    BY <1>4 DEF Got, At
  <2>2. op[e].kind = "until" => Got(e) = op[e].n /\ op[e].res <= op[e].n
    BY <1>2 DEF Got, OpInv
  <2>3. op[e].kind = "write" => Got(e) = 0
    BY DEF Got, At
  <2>4. g = IF op[e].kind = "write" \/ op[e].res = Err THEN 0 ELSE op[e].res
    BY DEF Reported
  <2>5. op[e].kind \in {"read", "until", "write"}
    BY <1>2, <1>4 DEF TypeOK
  <2>6. op[e].kind = "until" =>
           op[e].res \in {Err, Len(op[e].buf)} \/ (closed[p] /\ wire[e] = <<>>)
    BY <1>2, <1>4 DEF ShortOnlyAtEof
  <2>7. op[e].n \in Nat /\ op[e].n <= Len(op[e].buf) /\ Len(op[e].buf) \in Nat
    BY <1>2, Measures
  <2> HIDE DEF g, p
  <2>8. CASE op[e].kind = "read"
    BY <1>3, <2>1, <2>4, <2>8 DEF Err
  <2>9. CASE op[e].kind = "until"
    BY <1>3, <2>2, <2>4, <2>6, <2>7, <2>9 DEF Err
  <2>a. CASE op[e].kind = "write"
    BY <2>3, <2>4, <2>a
  <2> QED
    BY <2>5, <2>8, <2>9, <2>a
<1>7. /\ op' \in [Ends -> [kind : {"none", "read", "until", "write"},
                           phase : {"idle", "ready", "armed", "done"},
                           buf : Seq(Bytes), n : Nat, res : {Err} \cup Nat]]
      /\ op'[e].kind = "none" /\ op'[e].phase = "idle" /\ op'[e].buf = <<>>
      /\ op'[e].n = 0 /\ op'[e].res = (IF op[e].res = Err THEN Err ELSE 0)
      /\ op'[p] = op[p]
  <2>1. op \in [Ends -> [kind : {"none", "read", "until", "write"},
                        phase : {"idle", "ready", "armed", "done"},
                        buf : Seq(Bytes), n : Nat, res : {Err} \cup Nat]]
    BY <1>2 DEF TypeOK
  <2>2. op' = [op EXCEPT ![e] = [kind |-> "none", phase |-> "idle", buf |-> <<>>, n |-> 0,
                                res |-> IF op[e].res = Err THEN Err ELSE 0]]
    BY DEF AwaitResume
  <2>3. <<>> \in Seq(Bytes)
    BY EmptySeq
  <2> HIDE DEF p
  <2> QED
    BY <1>1, <2>1, <2>2, <2>3
<1>8. /\ seen' \in [Ends -> Bytes] /\ seen'[e] = seen[e] + g /\ seen'[p] = seen[p]
  <2>1. seen' = [seen EXCEPT ![e] = @ + g] /\ seen \in [Ends -> Bytes]
    BY <1>2 DEF AwaitResume, TypeOK
  <2>2. seen[e] + Got(e) + Len(wire[e]) + Unsent(p) <= offered[p]
    BY <1>1, <1>2 DEF FlowInv
  <2> HIDE DEF p, g
  <2>3. seen[e] + g <= MaxBytes[program]
    <3>n. /\ seen[e] \in Nat /\ g \in Nat /\ Got(e) \in Nat /\ Len(wire[e]) \in Nat
          /\ Unsent(p) \in Nat /\ offered[p] \in Nat /\ g <= Got(e)
      BY <1>3, <1>6
    <3>1. seen[e] + g <= offered[p]
      BY <2>2, <3>n
    <3> QED
      BY <1>3, <1>6, <3>1
  <2>4. seen[e] + g \in Bytes
    BY <1>3, <1>6, <2>3 DEF Bytes
  <2> QED
    BY <1>1, <2>1, <2>4
<1>9. /\ Got(e)' = 0 /\ Got(p)' = Got(p) /\ Unsent(p)' = Unsent(p)
      /\ Unsent(e)' = 0 /\ Unsent(e) = 0
  BY <1>4, <1>7 DEF Got, At, Unsent, Rest
<1> HIDE DEF p, g
<1>a. TypeOK'
  <2>1. /\ program' \in {"any", "echo"} /\ tcp' \in {"none", "syn", "up", "refused"}
        /\ conn' \in [Ends -> {"none", "called", "armed", "open", "failed"}]
        /\ wire' \in [Ends -> Seq(Bytes')] /\ \A f \in Ends : Len(wire'[f]) <= Cap
        /\ closed' \in [Ends -> BOOLEAN] /\ reset' \in [Ends -> BOOLEAN]
        /\ offered' \in [Ends -> Bytes']
    BY <1>2, <1>4 DEF TypeOK
  <2>2. \A f \in Ends : op'[f].n <= Len(op'[f].buf) /\ op'[f].res <= Len(op'[f].buf)
    <3>1. op[p].n <= Len(op[p].buf) /\ op[p].res <= Len(op[p].buf)
      BY <1>1, <1>2 DEF TypeOK
    <3>2. op'[e].n <= Len(op'[e].buf) /\ op'[e].res <= Len(op'[e].buf)
      BY <1>7, EmptySeq DEF Err
    <3> QED
      BY <1>5, <1>7, <3>1, <3>2
  <2> QED
    BY <1>4, <1>7, <1>8, <2>1, <2>2 DEF TypeOK
<1>b. ConnectInv' /\ LinkInv'
  <2>1. ConnectInv'
    BY <1>2, <1>4 DEF ConnectInv
  <2>2. LinkInv'
    BY <1>2, <1>4, <1>5, <1>7 DEF LinkInv
  <2> QED
    BY <2>1, <2>2
<1>c. OpInv'
  <2> SUFFICES ASSUME NEW f \in Ends
      PROVE  /\ op'[f].phase = "idle" <=> op'[f].kind = "none"
             /\ op'[f].phase = "idle" => op'[f].n = 0
             /\ op'[f].phase \in {"ready", "armed"} => op'[f].res = 0
             /\ op'[f].kind = "read" => op'[f].n = 0
             /\ op'[f].kind = "until" => op'[f].res <= op'[f].n
             /\ op'[f].kind = "write" /\ op'[f].phase = "done" /\ op'[f].res # Err =>
                    op'[f].n = Len(op'[f].buf)
    BY DEF OpInv
  <2>1. CASE f = e
    BY <1>7, <2>1
  <2>2. CASE f = p
    BY <1>2, <1>7, <2>2 DEF OpInv
  <2> QED
    BY <1>5, <2>1, <2>2
<1>d. DataInv'
  <2> SUFFICES ASSUME NEW f \in Ends
      PROVE  /\ At(f, "write", "ready")' \/ At(f, "write", "armed")' =>
                    \A j \in 1 .. Len(op'[f].buf) :
                        op'[f].buf[j] = offered'[f] - Len(op'[f].buf) + j
             /\ \A j \in 1 .. Got(f)' : op'[f].buf[j] = seen'[f] + j
             /\ op'[f].res # Err =>
                    \A j \in 1 .. Len(wire'[f]) : wire'[f][j] = seen'[f] + Got(f)' + j
    BY DEF DataInv
  <2>1. CASE f = e
    <3>1. ~At(e, "write", "ready")' /\ ~At(e, "write", "armed")'
      BY <1>7 DEF At
    <3>2. \A j \in 1 .. Got(e)' : op'[e].buf[j] = seen'[e] + j
      BY <1>9
    <3>3. ASSUME op'[e].res # Err, NEW j \in 1 .. Len(wire[e])
          PROVE  wire[e][j] = seen'[e] + Got(e)' + j
      <4>1. op[e].res # Err
        BY <1>7, <3>3
      <4>2. wire[e] # <<>>
        BY <3>3, EmptySeq
      <4>3. g = Got(e)
        BY <1>6, <4>1, <4>2
      <4>4. wire[e][j] = seen[e] + Got(e) + j
        BY <1>2, <3>3, <4>1 DEF DataInv
      <4> QED
        BY <1>3, <1>8, <1>9, <4>3, <4>4
    <3> QED
      BY <1>4, <2>1, <3>1, <3>2, <3>3
  <2>2. CASE f = p
    <3>1. /\ At(p, "write", "ready") \/ At(p, "write", "armed") =>
                 \A j \in 1 .. Len(op[p].buf) : op[p].buf[j] = offered[p] - Len(op[p].buf) + j
          /\ \A j \in 1 .. Got(p) : op[p].buf[j] = seen[p] + j
          /\ op[p].res # Err =>
                 \A j \in 1 .. Len(wire[p]) : wire[p][j] = seen[p] + Got(p) + j
      BY <1>1, <1>2 DEF DataInv
    <3> QED
      BY <1>4, <1>7, <1>8, <1>9, <2>2, <3>1 DEF At
  <2> QED
    BY <1>5, <2>1, <2>2
<1>e. FlowInv'
  <2>1. /\ seen[p] + Got(p) + Len(wire[p]) + Unsent(e) <= offered[e]
        /\ seen[e] + Got(e) + Len(wire[e]) + Unsent(p) <= offered[p]
    BY <1>1, <1>2 DEF FlowInv
  <2>2. (seen[e] + g) + 0 + Len(wire[e]) + Unsent(p) <= offered[p]
    <3>1. /\ seen[e] \in Nat /\ g \in Nat /\ Got(e) \in Nat /\ Len(wire[e]) \in Nat
          /\ Unsent(p) \in Nat /\ offered[p] \in Nat /\ g <= Got(e)
      BY <1>3, <1>6
    <3>2. seen[e] + Got(e) + Len(wire[e]) + Unsent(p) <= offered[p]
      BY <2>1
    <3> QED
      BY <3>1, <3>2, SMTT(30)
  <2>3. \A f \in Ends :
           seen'[Peer(f)] + Got(Peer(f))' + Len(wire'[Peer(f)]) + Unsent(f)' <= offered'[f]
    BY <1>1, <1>4, <1>5, <1>8, <1>9, <2>1, <2>2
  <2> QED
    BY <2>3 DEF FlowInv, Peer
<1>f. Conserved'
  <2>1. ASSUME NEW f \in Ends, ~closed[f], ~closed[Peer(f)],
               op'[f].res # Err, op'[Peer(f)].res # Err
        PROVE  seen'[Peer(f)] + Got(Peer(f))' + Len(wire[Peer(f)]) + Unsent(f)' = offered[f]
    <3>1. op[f].res # Err /\ op[Peer(f)].res # Err
      <4>1. op[e].res # Err <=> op'[e].res # Err
        BY <1>7 DEF Err
      <4>2. op[p].res # Err <=> op'[p].res # Err
        BY <1>7
      <4>3. (f = e /\ Peer(f) = p) \/ (f = p /\ Peer(f) = e)
        BY <1>1
      <4> QED
        BY <2>1, <4>1, <4>2, <4>3
    <3>2. seen[Peer(f)] + Got(Peer(f)) + Len(wire[Peer(f)]) + Unsent(f) = offered[f]
      BY <1>2, <2>1, <3>1 DEF Conserved, Unsent
    <3>3. CASE f = e
      BY <1>1, <1>8, <1>9, <3>2, <3>3
    <3>4. CASE f = p
      <4>1. g = Got(e)
        BY <1>1, <1>6, <2>1, <3>1, <3>4
      <4>2. (seen[e] + g) + 0 + Len(wire[e]) + Unsent(p) = offered[p]
        BY <1>1, <1>3, <3>2, <3>4, <4>1
      <4> QED
        BY <1>1, <1>8, <1>9, <3>4, <4>2
    <3> QED
      BY <1>5, <3>3, <3>4
  <2> QED
    BY <1>4, <2>1 DEF Conserved, Unsent, Peer
<1>g. ShortOnlyAtEof'
  <2>1. ASSUME NEW f \in Ends, op'[f].phase = "done", op'[f].kind \in {"until", "write"}
        PROVE  \/ op'[f].res \in {Err, Len(op'[f].buf)}
               \/ op'[f].kind = "until" /\ closed[Peer(f)] /\ wire[f] = <<>>
    <3>1. f = p
      BY <1>5, <1>7, <2>1
    <3> QED
      BY <1>2, <1>7, <2>1, <3>1 DEF ShortOnlyAtEof
  <2> QED
    BY <1>4, <2>1 DEF ShortOnlyAtEof, Peer
<1> QED
  BY <1>a, <1>b, <1>c, <1>d, <1>e, <1>f, <1>g DEF IInv

LEMMA Closes ==
    ASSUME IInv, NEW e \in Ends, Close(e)
    PROVE  IInv'
<1>1. TypeOK /\ ConnectInv /\ LinkInv
  BY DEF IInv
<1>2. /\ UNCHANGED <<program, tcp, conn, op, offered, seen>> /\ GivesUp(e)
      /\ conn[e] = "open" /\ op[e].phase = "idle" /\ closed \in [Ends -> BOOLEAN]
      /\ closed' = [closed EXCEPT ![e] = TRUE]
  BY <1>1 DEF Close, GivesUp, link, TypeOK
<1>3. ConnectInv' /\ LinkInv'
  BY <1>1, <1>2 DEF ConnectInv, LinkInv
<1>4. /\ tcp' \in {"none", "syn", "up", "refused"}
      /\ conn' \in [Ends -> {"none", "called", "armed", "open", "failed"}]
  BY <1>1, <1>2 DEF TypeOK
<1> QED
  BY <1>2, <1>3, <1>4, Leaves
-----------------------------------------------------------------------------
(* The actions are such steps.                                             *)

\* How read_awaitable stores its result, in await_ready() and in the callback.
Reports(e, b, x)  == op' = [op EXCEPT ![e].phase = "done", ![e].res = x, ![e].buf = b]
CallsBack(e, b, x) == op' = [op EXCEPT ![e].phase = "done", ![e].buf = b, ![e].res = x]

LEMMA Forms ==
    ASSUME TypeOK, NEW e \in Ends, NEW b, NEW m, NEW x
    PROVE  /\ Retries(e) => op' = Shape(e, op[e].phase, op[e].buf, op[e].n, op[e].res)
           /\ Blocks(e) => op' = Shape(e, "armed", op[e].buf, op[e].n, op[e].res)
           /\ Done(e, x) => op' = Shape(e, "done", op[e].buf, op[e].n, x)
           /\ GoesOn(e, b, m) =>
                  op' = Shape(e, IF m = Len(b) THEN "done" ELSE op[e].phase, b, m,
                              IF m = Len(b) THEN m ELSE op[e].res)
           /\ Reports(e, b, x) \/ CallsBack(e, b, x) =>
                  op' = Shape(e, "done", b, op[e].n, x)
<1>1. op \in [Ends -> [kind : {"none", "read", "until", "write"},
                      phase : {"idle", "ready", "armed", "done"},
                      buf : Seq(Bytes), n : Nat, res : {Err} \cup Nat]]
  BY DEF TypeOK
<1> DEFINE o == op[e]
<1>2. o = [kind |-> o.kind, phase |-> o.phase, buf |-> o.buf, n |-> o.n, res |-> o.res]
  BY <1>1
<1>3. ASSUME Retries(e)
      PROVE  op' = Shape(e, op[e].phase, op[e].buf, op[e].n, op[e].res)
  BY <1>1, <1>2, <1>3 DEF Shape, Retries
<1> HIDE DEF o
<1>4. ASSUME Blocks(e)
      PROVE  op' = Shape(e, "armed", op[e].buf, op[e].n, op[e].res)
  <2> DEFINE o1 == [o EXCEPT !.phase = "armed"]
  <2>2. op' = [op EXCEPT ![e] = o1]
    BY <1>1, <1>4 DEF Blocks, o
  <2>1. o1 = [kind |-> o.kind, phase |-> "armed", buf |-> o.buf, n |-> o.n, res |-> o.res]
    BY <1>2
  <2> HIDE DEF o1
  <2> QED
    BY <2>1, <2>2 DEF Shape, o
<1>5. ASSUME Done(e, x)
      PROVE  op' = Shape(e, "done", op[e].buf, op[e].n, x)
  <2> DEFINE o1 == [o EXCEPT !.phase = "done"]
             o2 == [o1 EXCEPT !.res = x]
  <2>3. op' = [op EXCEPT ![e] = o2]
    BY <1>1, <1>5 DEF Done, o
  <2>1. o1 = [kind |-> o.kind, phase |-> "done", buf |-> o.buf, n |-> o.n, res |-> o.res]
    BY <1>2
  <2> HIDE DEF o1
  <2>2. o2 = [kind |-> o.kind, phase |-> "done", buf |-> o.buf, n |-> o.n, res |-> x]
    BY <2>1
  <2> HIDE DEF o2
  <2> QED
    BY <2>2, <2>3 DEF Shape, o
<1>6. ASSUME GoesOn(e, b, m)
      PROVE  op' = Shape(e, IF m = Len(b) THEN "done" ELSE op[e].phase, b, m,
                         IF m = Len(b) THEN m ELSE op[e].res)
  <2> DEFINE ph == IF m = Len(b) THEN "done" ELSE op[e].phase
             y == IF m = Len(b) THEN m ELSE op[e].res
  <2> DEFINE o1 == [o EXCEPT !.buf = b]
             o2 == [o1 EXCEPT !.n = m]
             o3 == [o2 EXCEPT !.phase = ph]
             o4 == [o3 EXCEPT !.res = y]
  <2>5. op' = [op EXCEPT ![e] = o4]
    BY <1>1, <1>6 DEF GoesOn, o
  <2> HIDE DEF ph, y
  <2>1. o1 = [kind |-> o.kind, phase |-> o.phase, buf |-> b, n |-> o.n, res |-> o.res]
    BY <1>2
  <2> HIDE DEF o1
  <2>2. o2 = [kind |-> o.kind, phase |-> o.phase, buf |-> b, n |-> m, res |-> o.res]
    BY <2>1
  <2> HIDE DEF o2
  <2>3. o3 = [kind |-> o.kind, phase |-> ph, buf |-> b, n |-> m, res |-> o.res]
    BY <2>2
  <2> HIDE DEF o3
  <2>4. o4 = [kind |-> o.kind, phase |-> ph, buf |-> b, n |-> m, res |-> y]
    BY <2>3
  <2> HIDE DEF o4
  <2> QED
    BY <2>4, <2>5 DEF Shape, o, ph, y
<1>7. ASSUME Reports(e, b, x)
      PROVE  op' = Shape(e, "done", b, op[e].n, x)
  <2> DEFINE o1 == [o EXCEPT !.phase = "done"]
             o2 == [o1 EXCEPT !.res = x]
             o3 == [o2 EXCEPT !.buf = b]
  <2>4. op' = [op EXCEPT ![e] = o3]
    BY <1>1, <1>7 DEF o, Reports
  <2>1. o1 = [kind |-> o.kind, phase |-> "done", buf |-> o.buf, n |-> o.n, res |-> o.res]
    BY <1>2
  <2> HIDE DEF o1
  <2>2. o2 = [kind |-> o.kind, phase |-> "done", buf |-> o.buf, n |-> o.n, res |-> x]
    BY <2>1
  <2> HIDE DEF o2
  <2>3. o3 = [kind |-> o.kind, phase |-> "done", buf |-> b, n |-> o.n, res |-> x]
    BY <2>2
  <2> HIDE DEF o3
  <2> QED
    BY <2>3, <2>4 DEF Shape, o
<1>8. ASSUME CallsBack(e, b, x)
      PROVE  op' = Shape(e, "done", b, op[e].n, x)
  <2> DEFINE o1 == [o EXCEPT !.phase = "done"]
             o2 == [o1 EXCEPT !.buf = b]
             o3 == [o2 EXCEPT !.res = x]
  <2>4. op' = [op EXCEPT ![e] = o3]
    BY <1>1, <1>8 DEF o, CallsBack
  <2>1. o1 = [kind |-> o.kind, phase |-> "done", buf |-> o.buf, n |-> o.n, res |-> o.res]
    BY <1>2
  <2> HIDE DEF o1
  <2>2. o2 = [kind |-> o.kind, phase |-> "done", buf |-> b, n |-> o.n, res |-> o.res]
    BY <2>1
  <2> HIDE DEF o2
  <2>3. o3 = [kind |-> o.kind, phase |-> "done", buf |-> b, n |-> o.n, res |-> x]
    BY <2>2
  <2> HIDE DEF o3
  <2> QED
    BY <2>3, <2>4 DEF Shape, o
<1> QED
  BY <1>3, <1>4, <1>5, <1>6, <1>7, <1>8

\* What the backend or the system call may answer to a read of len bytes.
LEMMA Received ==
    ASSUME TypeOK, NEW e \in Ends, NEW len \in Nat,
           NEW r \in Recv(e, len) \cup Completion(Recv(e, len))
    PROVE  \/ r \in Nat /\ r > 0 /\ r <= len /\ r <= Len(wire[e])
           \/ r = 0 /\ closed[Peer(e)] /\ wire[e] = <<>>
           \/ r = Err
           \/ r = Again
<1>1. Len(wire[e]) \in Nat
  BY LenProperties DEF TypeOK
<1>2. r \in Recv(e, len) \cup {Err, Again}
  BY DEF Completion
<1>3. CASE r \in Recv(e, len) /\ wire[e] # <<>>
  <2>1. r \in 1 .. (IF len < Len(wire[e]) THEN len ELSE Len(wire[e]))
    BY <1>3 DEF Recv, UpTo
  <2> QED
    BY <1>1, <2>1
<1>4. CASE r \in Recv(e, len) /\ wire[e] = <<>>
  BY <1>4 DEF Recv
<1> QED
  BY <1>2, <1>3, <1>4

LEMMA TookNone ==
    ASSUME TypeOK, NEW e \in Ends, NEW n \in Nat, NEW r \in {0, Err, Again}
    PROVE  Took(e, n, r) = op[e].buf /\ Took(e, n, 0) = op[e].buf
<1>1. op[e].buf \in Seq(Bytes)
  BY DEF TypeOK
<1>2. op[e].buf = [j \in DOMAIN op[e].buf |-> op[e].buf[j]]
  BY <1>1, LenProperties
<1>3. \A j : j \notin n + 1 .. n + r /\ j \notin n + 1 .. n + 0
  BY DEF Err, Again
<1> QED
  BY <1>2, <1>3 DEF Took

\* A read has the answer r, and goes on with phase ph and result x.
Answers(e, r, ph, x) ==
    /\ op[e].kind \in {"read", "until"} /\ op[e].phase \in {"ready", "armed"}
    /\ r \in Recv(e, Rest(e)) \cup Completion(Recv(e, Rest(e)))
    /\ Drain(e, r) /\ UNCHANGED <<link, offered, seen>>
    /\ op' = Shape(e, ph, Took(e, op[e].n, r),
                   IF op[e].kind = "until" /\ r > 0 THEN op[e].n + r ELSE op[e].n, x)
    /\ \/ r > 0 /\ op[e].kind = "read" /\ ph = "done" /\ x = r
       \/ /\ r > 0 /\ op[e].kind = "until"
          /\ ph = IF op[e].n + r = Len(op[e].buf) THEN "done" ELSE op[e].phase
          /\ x = IF op[e].n + r = Len(op[e].buf) THEN op[e].n + r ELSE op[e].res
       \/ r = 0 /\ ph = "done" /\ x \in {0, op[e].n}
       \/ r \in {Err, Again} /\ ph = "done" /\ x = Err
       \/ r \in {Err, Again} /\ ph \in {"ready", "armed"} /\ x = 0

LEMMA Answered ==
    ASSUME IInv, NEW e \in Ends, NEW r, NEW ph, NEW x, Answers(e, r, ph, x)
    PROVE  IInv'
<1> DEFINE q == IF r > 0 THEN r ELSE 0
           t == Took(e, op[e].n, r)
           m == IF op[e].kind = "until" /\ r > 0 THEN op[e].n + r ELSE op[e].n
<1>1. TypeOK /\ OpInv
  BY DEF IInv
<1>2. /\ op[e].n \in Nat /\ Len(op[e].buf) \in Nat /\ op[e].n <= Len(op[e].buf)
      /\ Len(wire[e]) \in Nat /\ op[e].res = 0
      /\ op[e].kind = "read" => op[e].n = 0
  BY <1>1, Measures DEF OpInv, Answers
<1>3. Rest(e) \in Nat /\ Rest(e) = Len(op[e].buf) - op[e].n
  BY <1>2 DEF Rest
<1>4. \/ r \in Nat /\ r > 0 /\ r <= Rest(e) /\ r <= Len(wire[e])
      \/ r = 0 /\ closed[Peer(e)] /\ wire[e] = <<>>
      \/ r = Err
      \/ r = Again
  BY <1>1, <1>3, Received DEF Answers
<1>5. q \in Nat /\ q <= Len(wire[e]) /\ op[e].n + q <= Len(op[e].buf)
  BY <1>2, <1>3, <1>4 DEF Err, Again
<1>6. t = Took(e, op[e].n, q)
  <2>1. CASE r > 0
    BY <2>1
  <2>2. CASE ~(r > 0)
    <3>1. r \in {0, Err, Again} /\ q = 0
      BY <1>4, <2>2
    <3> QED
      BY <1>1, <1>2, <3>1, TookNone
  <2> QED
    BY <2>1, <2>2
<1>7. m = IF op[e].kind = "until" THEN op[e].n + q ELSE op[e].n
  BY <1>2
<1>8. wire' = IF q > 0 THEN [wire EXCEPT ![e] = SubSeq(@, q + 1, Len(@))] ELSE wire
  <2>1. wire' = IF r > 0 THEN [wire EXCEPT ![e] = SubSeq(@, r + 1, Len(@))] ELSE wire
    BY DEF Answers, Drain
  <2>2. (r > 0 /\ q = r) \/ (~(r > 0) /\ q = 0)
    OBVIOUS
  <2> HIDE DEF q
  <2>3. CASE r > 0 /\ q = r
    BY <2>1, <2>3
  <2>4. CASE ~(r > 0) /\ q = 0
    <3>1. wire' = wire /\ ~(q > 0)
      BY <2>1, <2>4
    <3> QED
      BY <3>1
  <2> QED
    BY <2>2, <2>3, <2>4
<1>9. \/ ph \in {"ready", "armed"} /\ x = 0 /\ (op[e].kind = "read" => q = 0)
      \/ ph = "done" /\ x = Err /\ q = 0
      \/ ph = "done" /\ op[e].kind = "read" /\ x = q
      \/ ph = "done" /\ op[e].kind = "until" /\ x = m /\ x = Len(op[e].buf)
      \/ /\ ph = "done" /\ op[e].kind = "until" /\ q = 0 /\ x \in {0, m}
         /\ closed[Peer(e)] /\ wire[e] = <<>>
  <2>1. op[e].kind \in {"read", "until"} /\ op[e].phase \in {"ready", "armed"}
    BY DEF Answers
  <2>2. CASE r > 0 /\ op[e].kind = "read" /\ ph = "done" /\ x = r
    BY <2>2
  <2>3. CASE /\ r > 0 /\ op[e].kind = "until"
             /\ ph = IF op[e].n + r = Len(op[e].buf) THEN "done" ELSE op[e].phase
             /\ x = IF op[e].n + r = Len(op[e].buf) THEN op[e].n + r ELSE op[e].res
    BY <1>2, <2>1, <2>3
  <2>4. CASE r = 0 /\ ph = "done" /\ x \in {0, op[e].n}
    <3>1. closed[Peer(e)] /\ wire[e] = <<>>
      BY <1>4, <2>4 DEF Err, Again
    <3>2. q = 0 /\ m = op[e].n
      BY <2>4
    <3> HIDE DEF q, m
    <3> QED
      BY <1>2, <2>1, <2>4, <3>1, <3>2
  <2>5. CASE r \in {Err, Again} /\ ph = "done" /\ x = Err
    BY <2>5 DEF Err, Again
  <2>6. CASE r \in {Err, Again} /\ ph \in {"ready", "armed"} /\ x = 0
    BY <2>6 DEF Err, Again
  <2> QED
    BY <2>2, <2>3, <2>4, <2>5, <2>6 DEF Answers
<1>a. /\ op[e].kind \in {"read", "until"} /\ op[e].phase \in {"ready", "armed"}
      /\ op[e].kind = "read" => op[e].n = 0
      /\ UNCHANGED <<link, closed, reset, offered, seen>>
      /\ op' = Shape(e, ph, t, m, x)
  BY <1>2 DEF Answers, Drain
<1> HIDE DEF q, t, m
<1>b. Reads(e, q, t, m, ph, x)
  BY <1>5, <1>6, <1>7, <1>8, <1>9, <1>a DEF Reads
<1> QED
  BY <1>5, <1>b, Receives

LEMMA ReadSteps ==
    ASSUME IInv, NEW e \in Ends, ReadReady(e) \/ ReadCallback(e)
    PROVE  IInv'
<1>1. TypeOK /\ OpInv
  BY DEF IInv
<1>2. /\ op[e].kind = "read" /\ op[e].phase \in {"ready", "armed"} /\ op[e].n = 0
      /\ op[e].res = 0 /\ Rest(e) = Len(op[e].buf)
      /\ UNCHANGED <<link, offered, seen>>
  <2>1. op[e].kind = "read" /\ op[e].phase \in {"ready", "armed"}
    BY DEF ReadReady, ReadCallback, At
  <2>2. op[e].n = 0 /\ op[e].res = 0
    BY <1>1, <2>1 DEF OpInv
  <2>3. Rest(e) = Len(op[e].buf)
    BY <1>1, <2>2, Measures DEF Rest
  <2>4. UNCHANGED <<link, offered, seen>>
    BY DEF ReadReady, ReadCallback
  <2> QED
    BY <2>1, <2>2, <2>3, <2>4
<1>3. ASSUME NEW r, NEW ph, NEW x,
             r \in Recv(e, Rest(e)) \cup Completion(Recv(e, Rest(e))), Drain(e, r),
             op' = Shape(e, ph, Took(e, 0, r), 0, x),
             \/ ph = "done" /\ x = IF r \in {Err, Again} THEN Err ELSE r
             \/ ph = "armed" /\ r = Again /\ x = 0
      PROVE  IInv'
  <2>1. (r \in Nat /\ r > 0) \/ r = 0 \/ r \in {Err, Again}
    <3>1. Rest(e) \in Nat
      BY <1>1, <1>2, Measures
    <3> QED
      BY <1>1, <1>3, <3>1, Received
  <2>2. ~(0 = Err) /\ ~(0 = Again) /\ \A i \in Nat : ~(i = Err) /\ ~(i = Again)
    BY DEF Err, Again
  <2>3. \/ r > 0 /\ op[e].kind = "read" /\ ph = "done" /\ x = r
        \/ r = 0 /\ ph = "done" /\ x \in {0, op[e].n}
        \/ r \in {Err, Again} /\ ph = "done" /\ x = Err
        \/ r \in {Err, Again} /\ ph \in {"ready", "armed"} /\ x = 0
    BY <1>2, <1>3, <2>1, <2>2
  <2>4. op' = Shape(e, ph, Took(e, op[e].n, r),
                    IF op[e].kind = "until" /\ r > 0 THEN op[e].n + r ELSE op[e].n, x)
    BY <1>2, <1>3
  <2>5. Answers(e, r, ph, x)
    BY <1>2, <1>3, <2>3, <2>4 DEF Answers
  <2> QED
    BY <2>5, Answered
<1>4. ASSUME ReadReady(e)
      PROVE  IInv'
  <2>1. PICK r \in Recv(e, Rest(e)) :
           /\ Drain(e, r)
           /\ IF r = Again THEN Blocks(e)
              ELSE op' = [op EXCEPT ![e].phase = "done", ![e].res = r,
                                    ![e].buf = Took(e, 0, r)]
    BY <1>2, <1>4 DEF ReadReady
  <2>2. CASE r = Again
    <3>1. op' = Shape(e, "armed", op[e].buf, 0, 0)
      BY <1>1, <1>2, <2>1, <2>2, Forms
    <3>2. Took(e, 0, r) = op[e].buf
      BY <1>1, <2>2, TookNone
    <3> QED
      BY <1>3, <2>1, <2>2, <3>1, <3>2
  <2>3. CASE r # Again
    <3> DEFINE t == Took(e, 0, r)
    <3>1. Reports(e, t, r)
      BY <2>1, <2>3 DEF Reports
    <3> HIDE DEF t
    <3>2. op' = Shape(e, "done", t, 0, r)
      BY <1>1, <1>2, <3>1, Forms
    <3>3. r = IF r \in {Err, Again} THEN Err ELSE r
      BY <2>3
    <3> QED
      BY <1>3, <2>1, <3>2, <3>3 DEF t
  <2> QED
    BY <2>2, <2>3
<1>5. ASSUME ReadCallback(e)
      PROVE  IInv'
  <2>1. PICK r \in Completion(Recv(e, Rest(e))) :
           /\ Drain(e, r)
           /\ op' = [op EXCEPT ![e].phase = "done", ![e].buf = Took(e, 0, r),
                               ![e].res = IF r < 0 THEN Err ELSE r]
    BY <1>2, <1>5 DEF ReadCallback
  <2> DEFINE t == Took(e, 0, r)
             x == IF r < 0 THEN Err ELSE r
  <2>2. CallsBack(e, t, x)
    BY <2>1 DEF CallsBack
  <2>3. x = IF r \in {Err, Again} THEN Err ELSE r
    <3>1. Rest(e) \in Nat
      BY <1>1, <1>2, Measures
    <3>2. (r \in Nat /\ r > 0) \/ r = 0 \/ r = Err \/ r = Again
      BY <1>1, <2>1, <3>1, Received
    <3> QED
      BY <3>2 DEF Err, Again
  <2> HIDE DEF t, x
  <2>4. op' = Shape(e, "done", t, 0, x)
    BY <1>1, <1>2, <2>2, Forms
  <2> QED
    BY <1>3, <2>1, <2>3, <2>4 DEF t
<1> QED
  BY <1>4, <1>5

LEMMA TookLen ==
    ASSUME TypeOK, OpInv, NEW e \in Ends, NEW n \in Nat, NEW r \in 1 .. Len(wire[e])
    PROVE  Len(Took(e, n, r)) = Len(op[e].buf)
<1>1. /\ Len(op[e].buf) \in Nat /\ DOMAIN op[e].buf = 1 .. Len(op[e].buf)
      /\ Len(wire[e]) \in Nat /\ wire[e] \in [1 .. Len(wire[e]) -> Bytes]
      /\ op[e].buf \in [1 .. Len(op[e].buf) -> Bytes]
  BY Measures, LenProperties
<1>2. \A j \in n + 1 .. n + r : j - n \in 1 .. Len(wire[e])
  BY <1>1
<1>3. Took(e, n, r) \in [1 .. Len(op[e].buf) -> Bytes]
  BY <1>1, <1>2 DEF Took
<1> QED
  BY <1>1, <1>3, VectorIsSeq

LEMMA UntilSteps ==
    ASSUME IInv, NEW e \in Ends, UntilReady(e) \/ UntilCallback(e)
    PROVE  IInv'
<1>1. TypeOK /\ OpInv
  BY DEF IInv
<1>2. /\ op[e].kind = "until" /\ op[e].phase \in {"ready", "armed"}
      /\ UNCHANGED <<link, offered, seen>>
  BY DEF UntilReady, UntilCallback, At
<1>3. /\ op[e].n \in Nat /\ op[e].res = 0 /\ Rest(e) \in Nat /\ Len(wire[e]) \in Nat
      /\ Rest(e) = Len(op[e].buf) - op[e].n /\ Len(op[e].buf) \in Nat
  BY <1>1, <1>2, Measures DEF Rest, OpInv
<1>4. PICK r \in Recv(e, Rest(e)) \cup Completion(Recv(e, Rest(e))) :
         /\ Drain(e, r)
         /\ \/ r > 0 /\ GoesOn(e, Took(e, Offset(e), r), op[e].n + r)
            \/ r = 0 /\ (Done(e, op[e].n) \/ Done(e, 0))
            \/ r = Again /\ (Blocks(e) \/ Retries(e))
            \/ r = Err /\ Done(e, Err)
  BY DEF UntilReady, UntilCallback
<1>5. ASSUME NEW ph, NEW x, op' = Shape(e, ph, op[e].buf, op[e].n, x), r \in {0, Err, Again},
             \/ r = 0 /\ ph = "done" /\ x \in {0, op[e].n}
             \/ r \in {Err, Again} /\ ph = "done" /\ x = Err
             \/ r \in {Err, Again} /\ ph \in {"ready", "armed"} /\ x = 0
      PROVE  IInv'
  <2>1. Took(e, op[e].n, r) = op[e].buf
    BY <1>1, <1>3, <1>5, TookNone
  <2>2. ~(r > 0)
    BY <1>5 DEF Err, Again
  <2>3. op' = Shape(e, ph, Took(e, op[e].n, r),
                    IF op[e].kind = "until" /\ r > 0 THEN op[e].n + r ELSE op[e].n, x)
    BY <1>5, <2>1, <2>2
  <2>4. Answers(e, r, ph, x)
    BY <1>2, <1>4, <1>5, <2>3 DEF Answers
  <2> QED
    BY <2>4, Answered
<1>6. CASE r > 0 /\ GoesOn(e, Took(e, Offset(e), r), op[e].n + r)
  <2> DEFINE t == Took(e, op[e].n, r)
             m == op[e].n + r
             ph == IF m = Len(op[e].buf) THEN "done" ELSE op[e].phase
             x == IF m = Len(op[e].buf) THEN m ELSE op[e].res
  <2>1. r \in 1 .. Len(wire[e])
    <3>1. (r \in Nat /\ r > 0 /\ r <= Len(wire[e])) \/ r = 0 \/ r = Err \/ r = Again
      BY <1>1, <1>3, Received
    <3> QED
      BY <1>3, <1>6, <3>1 DEF Err, Again
  <2>2. Len(t) = Len(op[e].buf)
    BY <1>1, <1>3, <2>1, TookLen
  <2>3. GoesOn(e, t, m)
    BY <1>6 DEF Offset
  <2> HIDE DEF t, m
  <2>4. op' = Shape(e, IF m = Len(t) THEN "done" ELSE op[e].phase, t, m,
                    IF m = Len(t) THEN m ELSE op[e].res)
    BY <1>1, <2>3, Forms
  <2>5. op' = Shape(e, ph, t, m, x)
    BY <2>2, <2>4
  <2>6. op' = Shape(e, ph, Took(e, op[e].n, r),
                    IF op[e].kind = "until" /\ r > 0 THEN op[e].n + r ELSE op[e].n, x)
    <3> HIDE DEF ph, x
    <3> QED
      BY <1>2, <1>6, <2>5 DEF t, m
  <2>7. Answers(e, r, ph, x)
    BY <1>2, <1>4, <1>6, <2>6 DEF Answers, m
  <2> HIDE DEF ph, x
  <2> QED
    BY <2>7, Answered
<1>7. CASE r = 0 /\ (Done(e, op[e].n) \/ Done(e, 0))
  <2>1. \/ op' = Shape(e, "done", op[e].buf, op[e].n, op[e].n)
        \/ op' = Shape(e, "done", op[e].buf, op[e].n, 0)
    BY <1>1, <1>7, Forms
  <2> QED
    BY <1>5, <1>7, <2>1
<1>8. CASE r = Again /\ (Blocks(e) \/ Retries(e))
  <2>1. \/ op' = Shape(e, "armed", op[e].buf, op[e].n, op[e].res)
        \/ op' = Shape(e, op[e].phase, op[e].buf, op[e].n, op[e].res)
    BY <1>1, <1>8, Forms
  <2> QED
    BY <1>2, <1>3, <1>5, <1>8, <2>1
<1>9. CASE r = Err /\ Done(e, Err)
  <2>1. op' = Shape(e, "done", op[e].buf, op[e].n, Err)
    BY <1>1, <1>9, Forms
  <2> QED
    BY <1>5, <1>9, <2>1
<1> QED
  BY <1>4, <1>6, <1>7, <1>8, <1>9

\* What the backend or the system call may answer to a write of len bytes.
LEMMA Sent ==
    ASSUME TypeOK, NEW e \in Ends, NEW len \in Nat,
           NEW r \in Send(e, len) \cup Completion(Send(e, len))
    PROVE  \/ r \in Nat /\ r > 0 /\ r <= len /\ Len(wire[Peer(e)]) + r <= Cap
           \/ r = Err
           \/ r = Again
<1>1. Len(wire[Peer(e)]) \in Nat /\ Cap \in Nat
  BY TwoEnds, LenProperties, StreamAssumption DEF TypeOK
<1>2. r \in Send(e, len) \cup {Err, Again}
  BY DEF Completion
<1> DEFINE room == Cap - Len(wire[Peer(e)])
<1>3. CASE r \in UpTo(len, room)
  <2>1. r \in 1 .. (IF len < room THEN len ELSE room)
    BY <1>3 DEF UpTo
  <2> QED
    BY <1>1, <2>1
<1>4. r \in {Err, Again} \cup UpTo(len, room)
  BY <1>2 DEF Send
<1> QED
  BY <1>3, <1>4

LEMMA WriteSteps ==
    ASSUME IInv, NEW e \in Ends, WriteReady(e) \/ WriteCallback(e)
    PROVE  IInv'
<1>1. TypeOK /\ OpInv
  BY DEF IInv
<1>2. /\ op[e].kind = "write" /\ op[e].phase \in {"ready", "armed"}
      /\ UNCHANGED <<link, offered, seen>>
  BY DEF WriteReady, WriteCallback, At
<1>3. /\ op[e].n \in Nat /\ op[e].res = 0 /\ Rest(e) \in Nat
      /\ Rest(e) = Len(op[e].buf) - op[e].n /\ Len(op[e].buf) \in Nat
      /\ Len(wire[Peer(e)]) \in Nat /\ reset \in [Ends -> BOOLEAN]
  BY <1>1, <1>2, Measures, TwoEnds DEF Rest, OpInv, TypeOK
<1>4. PICK r \in Send(e, Rest(e)) \cup Completion(Send(e, Rest(e))) :
         /\ Put(e, op[e].n, r)
         /\ \/ r > 0 /\ GoesOn(e, op[e].buf, op[e].n + r)
            \/ r = Again /\ (Blocks(e) \/ Retries(e))
            \/ r = Err /\ Done(e, Err)
  BY DEF WriteReady, WriteCallback
<1>5. UNCHANGED closed /\ reset' \in [Ends -> BOOLEAN]
  <2>1. UNCHANGED closed /\ reset' \in {reset, [reset EXCEPT ![e] = TRUE]}
    BY <1>4 DEF Put
  <2> QED
    BY <1>3, <2>1
<1>6. CASE r > 0 /\ GoesOn(e, op[e].buf, op[e].n + r)
  <2> DEFINE b == op[e].buf
             m == op[e].n + r
             ph == IF m = Len(b) THEN "done" ELSE op[e].phase
             x == IF m = Len(b) THEN m ELSE op[e].res
  <2>1. r \in Nat /\ r <= Rest(e) /\ Len(wire[Peer(e)]) + r <= Cap
    BY <1>1, <1>3, <1>6, Sent DEF Err, Again
  <2>2. op' = Shape(e, ph, b, m, x)
    <3> HIDE DEF b, m
    <3> QED
      BY <1>1, <1>6, Forms DEF b, m
  <2>3. wire' = IF r > 0 /\ ~closed[Peer(e)]
                THEN [wire EXCEPT ![Peer(e)] = @ \o SubSeq(op[e].buf, op[e].n + 1, op[e].n + r)]
                ELSE wire
    BY <1>4 DEF Put
  <2>4. \/ ph \in {"ready", "armed"} /\ x = 0
        \/ ph = "done" /\ x = op[e].n + r /\ x = Len(op[e].buf)
    BY <1>2, <1>3
  <2> HIDE DEF ph, x
  <2>5. Writes(e, r, ph, x)
    BY <1>2, <1>5, <2>1, <2>2, <2>3, <2>4 DEF Writes
  <2> QED
    BY <2>1, <2>5, Gives
<1>7. ASSUME NEW ph, NEW x, op' = Shape(e, ph, op[e].buf, op[e].n, x), r \in {Err, Again},
             (ph \in {"ready", "armed"} /\ x = 0) \/ (ph = "done" /\ x = Err)
      PROVE  IInv'
  <2>1. ~(r > 0) /\ ~(0 > 0) /\ op[e].n + 0 = op[e].n /\ 0 <= Rest(e)
    BY <1>3, <1>7 DEF Err, Again
  <2>2. wire' = wire
    BY <1>4, <2>1 DEF Put
  <2>3. Writes(e, 0, ph, x)
    BY <1>2, <1>5, <1>7, <2>1, <2>2 DEF Writes
  <2> QED
    BY <2>3, Gives
<1>8. CASE r = Again /\ (Blocks(e) \/ Retries(e))
  <2>1. \/ op' = Shape(e, "armed", op[e].buf, op[e].n, op[e].res)
        \/ op' = Shape(e, op[e].phase, op[e].buf, op[e].n, op[e].res)
    BY <1>1, <1>8, Forms
  <2> QED
    BY <1>2, <1>3, <1>7, <1>8, <2>1
<1>9. CASE r = Err /\ Done(e, Err)
  <2>1. op' = Shape(e, "done", op[e].buf, op[e].n, Err)
    BY <1>1, <1>9, Forms
  <2> QED
    BY <1>7, <1>9, <2>1
<1> QED
  BY <1>4, <1>6, <1>8, <1>9

\* co_read(), co_read_until() and co_write().
LEMMA AwaitSteps ==
    ASSUME IInv, NEW e \in Ends, Await(e)
    PROVE  IInv'
<1>1. TypeOK /\ OpInv
  BY DEF IInv
<1>2. MaxBytes[program] \in Nat /\ offered[e] \in Nat /\ offered \in [Ends -> Bytes]
  BY <1>1, Measures DEF TypeOK
<1>3. PICK size \in 1 .. MaxBytes[program] :
         CoRead(e, size) \/ CoReadUntil(e, size) \/ CoWrite(e, size)
  BY DEF Await
<1>4. CASE CoRead(e, size) \/ CoReadUntil(e, size)
  <2> DEFINE b == [j \in 1 .. size |-> 0]
  <2>1. PICK kind \in {"read", "until"} : Start(e, kind, b)
    BY <1>4 DEF CoRead, CoReadUntil
  <2>2. UNCHANGED <<link, net, offered, seen>>
    BY <1>4 DEF CoRead, CoReadUntil
  <2>3. b \in Seq(Bytes)
    <3>1. b \in [1 .. size -> Bytes] /\ size \in Nat
      BY <1>2, <1>3 DEF Bytes
    <3> HIDE DEF b
    <3> QED
      BY <3>1, VectorIsSeq
  <2> HIDE DEF b
  <2>4. offered' = [offered EXCEPT ![e] = @ + 0] /\ offered[e] + 0 <= MaxBytes[program]
    <3>1. offered[e] \in Bytes /\ offered[e] + 0 = offered[e]
      BY <1>2
    <3>2. offered[e] <= MaxBytes[program]
      BY <1>2, <3>1 DEF Bytes
    <3> QED
      BY <1>2, <2>2, <3>1, <3>2
  <2>5. /\ op[e].phase = "idle" /\ conn[e] = "open" /\ ~closed[e] /\ op[e].res # Err
        /\ op' = [op EXCEPT ![e] = [kind |-> kind, phase |-> "ready", buf |-> b,
                                   n |-> 0, res |-> 0]]
    BY <2>1 DEF Start
  <2>6. Opens(e, kind, b, 0)
    BY <2>1, <2>2, <2>4, <2>5 DEF Opens
  <2> QED
    BY <2>3, <2>6, Begins
<1>5. CASE CoWrite(e, size)
  <2> DEFINE b == [j \in 1 .. size |-> offered[e] + j]
  <2>1. /\ offered[e] + size <= MaxBytes[program] /\ Start(e, "write", b)
        /\ offered' = [offered EXCEPT ![e] = @ + size]
        /\ UNCHANGED <<link, net, seen>>
    BY <1>5 DEF CoWrite
  <2>2. b \in Seq(Bytes) /\ Len(b) = size /\ \A j \in 1 .. size : b[j] = offered[e] + j
    <3>1. b \in [1 .. size -> Bytes] /\ size \in Nat
      BY <1>2, <1>3, <2>1 DEF Bytes
    <3>2. \A j \in 1 .. size : b[j] = offered[e] + j
      OBVIOUS
    <3> HIDE DEF b
    <3> QED
      BY <3>1, <3>2, VectorIsSeq
  <2> HIDE DEF b
  <2>3. /\ op[e].phase = "idle" /\ conn[e] = "open" /\ ~closed[e] /\ op[e].res # Err
        /\ op' = [op EXCEPT ![e] = [kind |-> "write", phase |-> "ready", buf |-> b,
                                   n |-> 0, res |-> 0]]
    BY <2>1 DEF Start
  <2>4. Opens(e, "write", b, size)
    BY <2>1, <2>2, <2>3 DEF Opens
  <2> QED
    BY <2>2, <2>4, Begins
<1> QED
  BY <1>3, <1>4, <1>5
-----------------------------------------------------------------------------
LEMMA InitIInv ==
    ASSUME Init
    PROVE  IInv
<1>1. MaxBytes[program] \in Nat /\ 0 \in Bytes /\ 0 \in Nat
  BY StreamAssumption DEF Init, Bytes
<1>2. \A e \in Ends : /\ wire[e] = <<>> /\ closed[e] = FALSE /\ conn[e] = "none"
                      /\ op[e] = [kind |-> "none", phase |-> "idle", buf |-> <<>>,
                                  n |-> 0, res |-> 0]
                      /\ offered[e] = 0 /\ seen[e] = 0
  BY DEF Init
<1>3. /\ \A e \in Ends : Peer(e) \in Ends
      /\ "client" \in Ends
  BY TwoEnds DEF Ends
<1>4. \A S : <<>> \in Seq(S) /\ Len(<<>>) = 0
  BY EmptySeq
<1>5. \A e \in Ends : Got(e) = 0 /\ Unsent(e) = 0
  BY <1>2 DEF Got, Unsent, At
<1>6. TypeOK
  <2>1. wire \in [Ends -> Seq(Bytes)] /\ \A e \in Ends : Len(wire[e]) <= Cap
    BY <1>2, <1>4, StreamAssumption DEF Init
  <2>2. op \in [Ends -> [kind : {"none", "read", "until", "write"},
                        phase : {"idle", "ready", "armed", "done"},
                        buf : Seq(Bytes), n : Nat, res : {Err} \cup Nat]]
    BY <1>4 DEF Init
  <2>3. \A e \in Ends : op[e].n <= Len(op[e].buf) /\ op[e].res <= Len(op[e].buf)
    BY <1>2, <1>4
  <2> QED
    BY <1>1, <2>1, <2>2, <2>3 DEF TypeOK, Init
<1>7. ConnectInv /\ LinkInv
  BY <1>2 DEF ConnectInv, LinkInv, Init
<1>8. OpInv
  BY <1>2 DEF OpInv
<1>9. DataInv
  BY <1>2, <1>4, <1>5 DEF DataInv, At
<1>a. FlowInv
  BY <1>2, <1>3, <1>4, <1>5 DEF FlowInv
<1>b. Conserved
  BY <1>2, <1>3, <1>4, <1>5 DEF Conserved, Unsent
<1>c. ShortOnlyAtEof
  BY <1>2 DEF ShortOnlyAtEof
<1> QED
  BY <1>6, <1>7, <1>8, <1>9, <1>a, <1>b, <1>c DEF IInv

LEMMA StutterIInv ==
    ASSUME IInv, UNCHANGED vars
    PROVE  IInv'
<1>1. /\ UNCHANGED <<program, wire, op, offered, seen>>
      /\ UNCHANGED <<tcp, conn, closed, reset>>
  BY DEF vars, link, net
<1>2. TypeOK /\ ConnectInv /\ LinkInv
  BY DEF IInv
<1>3. /\ tcp' \in {"none", "syn", "up", "refused"}
      /\ conn' \in [Ends -> {"none", "called", "armed", "open", "failed"}]
      /\ closed' \in [Ends -> BOOLEAN] /\ reset' \in [Ends -> BOOLEAN]
  BY <1>1, <1>2 DEF TypeOK
<1>4. ConnectInv' /\ LinkInv'
  BY <1>1, <1>2 DEF ConnectInv, LinkInv
<1>5. \A e \in Ends : closed[e] => closed'[e]
  BY <1>1
<1> QED
  BY <1>1, <1>3, <1>4, <1>5, Linked

LEMMA NextIInv ==
    ASSUME IInv, [Next]_vars
    PROVE  IInv'
<1>1. CASE Connect \/ Links
  BY <1>1, LinkSteps
<1>2. ASSUME NEW e \in Ends, Await(e)
      PROVE  IInv'
  BY <1>2, AwaitSteps
<1>3. ASSUME NEW e \in Ends, Inline(e) \/ Callback(e)
      PROVE  IInv'
  <2>1. \/ ReadReady(e) \/ ReadCallback(e)
        \/ UntilReady(e) \/ UntilCallback(e)
        \/ WriteReady(e) \/ WriteCallback(e)
    BY <1>3 DEF Inline, Callback
  <2> QED
    BY <2>1, ReadSteps, UntilSteps, WriteSteps
<1>4. ASSUME NEW e \in Ends, AwaitResume(e)
      PROVE  IInv'
  BY <1>4, Resumes
<1>5. ASSUME NEW e \in Ends, Close(e)
      PROVE  IInv'
  BY <1>5, Closes
<1>6. CASE UNCHANGED vars
  BY <1>6, StutterIInv
<1> QED
  BY <1>1, <1>2, <1>3, <1>4, <1>5, <1>6 DEF Next

\* The inductive invariant: it holds in every reachable state, whatever the
\* buffers hold, however the kernel cuts the stream, whatever the backend
\* refuses and whenever an end closes.
THEOREM Invariance == Spec => []IInv
<1>1. Init => IInv
  BY InitIInv
<1>2. IInv /\ [Next]_vars => IInv'
  BY NextIInv
<1> QED
  BY <1>1, <1>2, PTL DEF Spec

\* Type correctness: no more is in the socket than its buffers hold, and no
\* awaitable counts past the end of its vector.
THEOREM TypeCorrect == Spec => []TypeOK
<1>1. IInv => TypeOK
  BY DEF IInv
<1> QED
  BY <1>1, Invariance, PTL

\* co_read and co_read_until: what a read reports is the next part of the
\* stream, whichever of await_ready() and the callback has done the work.
THEOREM ReadsExact == Spec => []ReadExact
<1>1. ASSUME IInv
      PROVE  ReadExact
  <2>1. TypeOK /\ OpInv /\ DataInv
    BY <1>1 DEF IInv
  <2>2. ASSUME NEW e \in Ends, op[e].phase = "done", op[e].kind # "write",
               NEW j \in 1 .. op[e].res
        PROVE  op[e].buf[j] = seen[e] + j
    <3>1. op[e].kind \in {"read", "until"}
      BY <2>1, <2>2 DEF TypeOK, OpInv
    <3>2. op[e].res \in {Err} \cup Nat /\ op[e].n \in Nat
      BY <2>1, Measures
    <3>3. op[e].res \in Nat /\ op[e].res > 0 /\ j \in Nat /\ 1 <= j /\ j <= op[e].res
      BY <2>2, <3>2 DEF Err
    <3>4. Got(e) \in Nat /\ op[e].res <= Got(e)
      BY <2>1, <2>2, <3>1, <3>2, <3>3 DEF Got, At, OpInv
    <3>5. j \in 1 .. Got(e)
      BY <3>3, <3>4
    <3> QED
      BY <2>1, <3>5 DEF DataInv
  <2> QED
    BY <2>2 DEF ReadExact
<1> QED
  BY <1>1, Invariance, PTL

\* No byte is lost or made up: while both ends are healthy each byte passed to
\* co_write is still to be sent, in the socket, in the vector of a read, or
\* reported.
THEOREM BytesConserved == Spec => []Conserved
<1>1. IInv => Conserved
  BY DEF IInv
<1> QED
  BY <1>1, Invariance, PTL

\* co_write and co_read_until: neither stops short while there is somebody at
\* the other end.
THEOREM NeverShort == Spec => []ShortOnlyAtEof
<1>1. IInv => ShortOnlyAtEof
  BY DEF IInv
<1> QED
  BY <1>1, Invariance, PTL

\* No end ever has more in hand than the other has offered, even after
\* errors, resets and closes, when bytes may be lost.
THEOREM NothingMadeUp ==
    Spec => [](\A e \in Ends : seen[Peer(e)] + Got(Peer(e)) <= offered[e])
<1>1. ASSUME IInv
      PROVE  \A e \in Ends : seen[Peer(e)] + Got(Peer(e)) <= offered[e]
  <2>1. TypeOK /\ OpInv /\ FlowInv
    BY <1>1 DEF IInv
  <2>2. ASSUME NEW e \in Ends
        PROVE  seen[Peer(e)] + Got(Peer(e)) <= offered[e]
    <3>1. /\ seen[Peer(e)] \in Nat /\ Got(Peer(e)) \in Nat /\ Len(wire[Peer(e)]) \in Nat
          /\ Unsent(e) \in Nat /\ offered[e] \in Nat
      BY <2>1, TwoEnds, Measures
    <3>2. seen[Peer(e)] + Got(Peer(e)) + Len(wire[Peer(e)]) + Unsent(e) <= offered[e]
      BY <2>1 DEF FlowInv
    <3> QED
      BY <3>1, <3>2
  <2> QED
    BY <2>2
<1> QED
  BY <1>1, Invariance, PTL
=============================================================================
