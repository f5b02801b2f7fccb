---------------------------- MODULE TaskExecutor ----------------------------
(***************************************************************************)
(* What a pool of worker threads promises the code that calls execute():   *)
(* a submitted task is started once, in submission order, runs on one of a *)
(* bounded number of threads, and ends.                                    *)
(***************************************************************************)
EXTENDS Naturals, Sequences, FiniteSets

CONSTANTS Tasks,    \* the callables that may be submitted
          Width     \* how many of them can run at the same time

VARIABLES backlog,  \* submitted and not started, oldest first
          active,   \* being run by some thread
          finished  \* returned

vars == <<backlog, active, finished>>

Submitted == {backlog[i] : i \in DOMAIN backlog} \cup active \cup finished

Init == backlog = <<>> /\ active = {} /\ finished = {}

Submit(t) ==
    /\ t \in Tasks \ Submitted
    /\ backlog' = Append(backlog, t)
    /\ UNCHANGED <<active, finished>>

Start ==
    /\ backlog # <<>>
    /\ Cardinality(active) < Width
    /\ active' = active \cup {Head(backlog)}
    /\ backlog' = Tail(backlog)
    /\ UNCHANGED finished

Finish(t) ==
    /\ t \in active
    /\ active' = active \ {t}
    /\ finished' = finished \cup {t}
    /\ UNCHANGED backlog

Next == Start \/ \E t \in Tasks : Submit(t) \/ Finish(t)

Spec == Init /\ [][Next]_vars

\* The pool keeps taking work, and a task that was started ends.
FairSpec == Spec /\ WF_vars(Start) /\ \A t \in Tasks : WF_vars(Finish(t))
=============================================================================
