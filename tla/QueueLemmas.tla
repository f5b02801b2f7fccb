----------------------------- MODULE QueueLemmas -----------------------------
(***************************************************************************)
(* What push, pop and the emptying of the front slot do to the elements of *)
(* a FIFO (task_queue_ of thrdpool) and to their being distinct.           *)
(***************************************************************************)
EXTENDS Naturals, Sequences, Functions, TLAPS

\* One element more, at the end.
LEMMA Appended ==
  ASSUME NEW S, NEW s \in Seq(S), NEW e \in S
  PROVE  /\ Range(Append(s, e)) = Range(s) \cup {e}
         /\ IsInjective(s) /\ e \notin Range(s) => IsInjective(Append(s, e))
         /\ s # <<>> => Head(Append(s, e)) = Head(s)
         /\ Append(s, e) # <<>>
<1> DEFINE z == Append(s, e)
<1>1. /\ DOMAIN z = DOMAIN s \cup {Len(s) + 1} /\ Len(s) + 1 \notin DOMAIN s
      /\ \A k \in DOMAIN s : z[k] = s[k]
      /\ z[Len(s) + 1] = e
  OBVIOUS
<1>2. (s # <<>> => Head(z) = Head(s)) /\ z # <<>>
  <2>1. z \in Seq(S) /\ Len(z) = Len(s) + 1 /\ Len(s) \in Nat
    OBVIOUS
  <2>2. s # <<>> => 1 \in DOMAIN s /\ Head(s) = s[1]
    OBVIOUS
  <2>3. z # <<>> /\ Head(z) = z[1]
    BY <2>1
  <2> QED
    BY <1>1, <2>2, <2>3
<1> HIDE DEF z
<1>3. Range(z) = Range(s) \cup {e}
  BY <1>1 DEF Range
<1>4. IsInjective(s) /\ e \notin Range(s) => IsInjective(z)
  BY <1>1 DEF Range, IsInjective
<1> QED
  BY <1>2, <1>3, <1>4 DEF z

\* The first element leaves.
LEMMA Shifted ==
  ASSUME NEW S, NEW s \in Seq(S), s # <<>>, IsInjective(s)
  PROVE  /\ Tail(s) \in Seq(S) /\ Head(s) \in S /\ IsInjective(Tail(s))
         /\ Range(Tail(s)) = Range(s) \ {Head(s)} /\ Head(s) \in Range(s)
<1> DEFINE z == Tail(s)
<1>1. /\ z \in Seq(S) /\ Head(s) \in S /\ Head(s) = s[1]
      /\ DOMAIN z = 1 .. Len(s) - 1 /\ DOMAIN s = 1 .. Len(s) /\ Len(s) \in Nat \ {0}
      /\ \A k \in 1 .. Len(s) - 1 : z[k] = s[k + 1]
  OBVIOUS
<1> HIDE DEF z
<1>2. ASSUME NEW k \in DOMAIN z PROVE k + 1 \in DOMAIN s \ {1} /\ z[k] = s[k + 1]
  BY <1>1
<1>3. ASSUME NEW k \in DOMAIN s, k # 1 PROVE k - 1 \in DOMAIN z /\ z[k - 1] = s[k]
  BY <1>1, <1>3
<1>4. IsInjective(z)
  <2> SUFFICES ASSUME NEW k \in DOMAIN z, NEW l \in DOMAIN z, z[k] = z[l] PROVE k = l
    BY DEF IsInjective
  <2>1. k + 1 = l + 1
    BY <1>2 DEF IsInjective
  <2> QED
    BY <1>1, <2>1
<1>5. Range(z) = Range(s) \ {s[1]} /\ s[1] \in Range(s)
  <2>1. 1 \in DOMAIN s
    BY <1>1
  <2>2. ASSUME NEW y \in Range(z) PROVE y \in Range(s) \ {s[1]}
    BY <1>2, <2>1 DEF Range, IsInjective
  <2>3. ASSUME NEW y \in Range(s), y # s[1] PROVE y \in Range(z)
    BY <1>3, <2>3 DEF Range
  <2> QED
    BY <2>1, <2>2, <2>3 DEF Range
<1> QED
  BY <1>1, <1>4, <1>5 DEF z

\* The slot at the front is emptied.
LEMMA Emptied ==
  ASSUME NEW S, NEW s \in Seq(S), s # <<>>, IsInjective(s), NEW e, e \notin Range(s)
  PROVE  /\ Range(<<e>> \o Tail(s)) = (Range(s) \ {Head(s)}) \cup {e}
         /\ IsInjective(<<e>> \o Tail(s))
         /\ <<e>> \o Tail(s) # <<>> /\ Head(<<e>> \o Tail(s)) = e
<1> DEFINE z == <<e>> \o Tail(s)
<1>1. /\ Head(s) = s[1] /\ DOMAIN s = 1 .. Len(s) /\ Len(s) \in Nat \ {0}
      /\ DOMAIN z = 1 .. Len(s) /\ z # <<>> /\ Head(z) = e
      /\ z[1] = e /\ \A k \in 1 .. Len(s) : k # 1 => z[k] = s[k]
  OBVIOUS
<1> HIDE DEF z
<1>2. Range(z) = (Range(s) \ {s[1]}) \cup {e}
  BY <1>1 DEF Range, IsInjective
<1>3. IsInjective(z)
  BY <1>1 DEF Range, IsInjective
<1> QED
  BY <1>1, <1>2, <1>3 DEF z
=============================================================================
