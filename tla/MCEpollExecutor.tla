-------------------------- MODULE MCEpollExecutor --------------------------
(* EpollExecutor for TLC.                                                  *)
EXTENDS EpollExecutor, TLC

CONSTANTS c1, c2, s1, s2, x1, x2, x3, x4

\* Two coroutines on descriptors of their own: c1 uses one of each instance.
OwnFds == (c1 :> {0, 1}) @@ (c2 :> {2})
\* Two descriptors of one instance.
TwoFds == (c1 :> {0}) @@ (c2 :> {1})

Symmetry == Permutations(Ctxs)
=============================================================================
