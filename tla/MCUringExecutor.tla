-------------------------- MODULE MCUringExecutor --------------------------
(* UringExecutor for TLC.                                                  *)
EXTENDS UringExecutor, TLC

CONSTANTS c1, c2, s1, s2, x1, x2, x3, x4

\* Two coroutines that use one connection at once; c2 has another one.
SharedFds == (c1 :> {0}) @@ (c2 :> {0, 1})
\* Two connections of one instance.
TwoFds    == (c1 :> {0}) @@ (c2 :> {1})

Symmetry == Permutations(Ctxs)
=============================================================================
