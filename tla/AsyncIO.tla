------------------------------- MODULE AsyncIO -------------------------------
(***************************************************************************)
(* What an I/O backend promises a coroutine that suspends in async_io():   *)
(* it is resumed once per wait, only when the descriptor it waits for is   *)
(* or was ready, and it is resumed as long as the backend accepts work.  A *)
(* backend may perform the operation when it resumes, or ahead of that.    *)
(***************************************************************************)
CONSTANTS Coros,  \* the coroutines
          Fds,    \* the descriptors
          Uses,   \* the descriptors each coroutine may operate on
          Faulty  \* the descriptors on which an operation may be refused

VARIABLES state,  \* "running", "waiting" or "ended"
          wants,  \* the descriptor of a coroutine's last operation
          ready,  \* the descriptors on which an operation would not block
          served, \* the waiting coroutines whose operation was performed
          open    \* the backend has not been stopped

vars == <<state, wants, ready, served, open>>

Init ==
    /\ state = [c \in Coros |-> "running"]
    /\ wants \in [Coros -> Fds]
    /\ ready = {} /\ served = {}
    /\ open = TRUE

Await(c, fd) ==
    /\ state[c] = "running" /\ fd \in Uses[c]
    /\ state' = [state EXCEPT ![c] = "waiting"]
    /\ wants' = [wants EXCEPT ![c] = fd]
    /\ UNCHANGED <<ready, served, open>>

\* The operation may leave the descriptor ready, or drain it.
Perform(c) ==
    /\ state[c] = "waiting" /\ c \notin served /\ wants[c] \in ready
    /\ ready' \in {ready, ready \ {wants[c]}}

Serve(c) ==
    /\ Perform(c)
    /\ served' = served \cup {c}
    /\ UNCHANGED <<state, wants, open>>

Resume(c) ==
    /\ open
    /\ \/ Perform(c) /\ UNCHANGED served
       \/ c \in served /\ served' = served \ {c} /\ UNCHANGED ready
    /\ state' = [state EXCEPT ![c] = "running"]
    /\ UNCHANGED <<wants, open>>

\* A stopped backend drops what it has performed.
Drop(c) ==
    /\ ~open /\ c \in served
    /\ served' = served \ {c}
    /\ UNCHANGED <<state, wants, ready, open>>

End(c) ==
    /\ state[c] = "running"
    /\ state' = [state EXCEPT ![c] = "ended"]
    /\ UNCHANGED <<wants, ready, served, open>>

\* The backend refuses the operation: the callback gets an error.
Reject(c) ==
    /\ state[c] = "waiting" /\ wants[c] \in Faulty
    /\ state' = [state EXCEPT ![c] = "running"]
    /\ UNCHANGED <<wants, ready, served, open>>

Close(c, fd) ==
    /\ state[c] = "running" /\ fd \in Uses[c]
    /\ ready' = ready \ {fd}
    /\ UNCHANGED <<state, wants, served, open>>

Arrive(fd) ==
    /\ ready' = ready \cup {fd}
    /\ UNCHANGED <<state, wants, served, open>>

Stop == open /\ open' = FALSE /\ UNCHANGED <<state, wants, ready, served>>

Next ==
    \/ \E c \in Coros : \/ Serve(c) \/ Resume(c) \/ Drop(c) \/ Reject(c) \/ End(c)
                        \/ \E fd \in Uses[c] : Await(c, fd) \/ Close(c, fd)
    \/ \E fd \in Fds : Arrive(fd)
    \/ Stop

Spec == Init /\ [][Next]_vars
FairSpec == Spec /\ \A c \in Coros : WF_vars(Resume(c))
=============================================================================
