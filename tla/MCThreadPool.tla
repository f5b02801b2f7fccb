---------------------------- MODULE MCThreadPool ----------------------------
(* ThreadPool for TLC: workers, clients and tasks are interchangeable.     *)
EXTENDS ThreadPool, TLC

Symmetry == Permutations(Workers) \cup Permutations(Clients)
            \cup Permutations(Tasks)
=============================================================================
