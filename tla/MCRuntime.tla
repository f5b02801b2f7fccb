----------------------------- MODULE MCRuntime -----------------------------
(* Runtime for TLC.                                                        *)
EXTENDS Runtime, TLC

CONSTANTS main, w1, w2, l1, l2, server, c1, c2

\* One peer sends, the other only connects and closes.
OneSends == (c1 :> 1) @@ (c2 :> 0)

=============================================================================
