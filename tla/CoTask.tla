------------------------------- MODULE CoTask -------------------------------
(***************************************************************************)
(* task<T> (include/task.h): the frames of coroutines and the transfers of *)
(* control between them.  A job is what sync_wait() or detach() is given:  *)
(* the coroutine (its "inner" frame) and the wrapper that owns it and      *)
(* awaits it.  The wrapper was released from its task object and destroys  *)
(* itself at its final suspension; an inner frame goes with its wrapper.   *)
(*                                                                         *)
(* Resuming a coroutine that is not suspended, or destroying one that runs *)
(* or no longer exists, is undefined: the model stops there with a fault.  *)
(***************************************************************************)
EXTENDS Naturals, Sequences, FiniteSets

CONSTANTS Jobs, Threads, Null

VARIABLES frame,  \* the life of each frame
          cont,   \* continuation_ of each frame
          thrown, \* the frames whose exception_ is set
          on,     \* the frame that each thread is executing, or Null
          fault   \* the undefined behaviour that has happened

co == <<frame, cont, thrown, on, fault>>

Wrapper(j) == <<"wrapper", j>>
Inner(j)   == <<"inner", j>>
Frames     == {"wrapper", "inner"} \X Jobs
Owned(f)   == IF f[1] = "wrapper" THEN {f, Inner(f[2])} ELSE {f}

CoTypeOK ==
    /\ frame \in [Frames -> {"none", "suspended", "running", "final", "unhooked", "destroyed"}]
    /\ cont \in [Frames -> Frames \cup {Null}]
    /\ thrown \subseteq Frames
    /\ on \in [Threads -> Frames \cup {Null}]
    /\ fault \in {"none", "frame", "static"}

CoInit ==
    /\ frame = [f \in Frames |-> "none"]
    /\ cont = [f \in Frames |-> Null]
    /\ thrown = {}
    /\ on = [t \in Threads |-> Null]
    /\ fault = "none"

Live(f) == frame[f] \notin {"none", "destroyed"}
Runs(t, f) == on[t] = f /\ frame[f] = "running"
\* coroutine_handle::done()
AtEnd(f) == frame[f] \in {"final", "unhooked"}
-----------------------------------------------------------------------------
(* Faulty variants of the definitions below: a run with the variant in     *)
(* place of the definition violates the property it is listed with.        *)

\* await_suspend() returns false after it has registered the callback.
SuspendReturnsFalse(t) == UNCHANGED co
\* self_destroy_ is not set.
SelfDestroyOff(t, f) ==
    /\ on[t] = f
    /\ on' = [on EXCEPT ![t] = Null]
    /\ UNCHANGED <<frame, cont, thrown, fault>>
-----------------------------------------------------------------------------
\* The coroutine and its wrapper are called: both are suspended at once.
Create(j) ==
    /\ frame' = [f \in Frames |-> IF f \in Owned(Wrapper(j)) THEN "suspended" ELSE frame[f]]
    /\ UNCHANGED <<cont, thrown, on, fault>>

\* coroutine_handle::resume() on thread t.
Resume(t, f) ==
    /\ IF frame[f] = "suspended"
       THEN /\ frame' = [frame EXCEPT ![f] = "running"]
            /\ on' = [on EXCEPT ![t] = f]
            /\ UNCHANGED fault
       ELSE /\ fault' = "frame"
            /\ UNCHANGED <<frame, on>>
    /\ UNCHANGED <<cont, thrown>>

\* An awaitable of async.cc has blocked: resume() returns on thread t.
Suspend(t) ==
    /\ frame' = [frame EXCEPT ![on[t]] = "suspended"]
    /\ on' = [on EXCEPT ![t] = Null]
    /\ UNCHANGED <<cont, thrown, fault>>

\* co_await of a task: it learns who awaits it and runs in its place.
AwaitTask(t, f, g) ==
    /\ Runs(t, f) /\ frame[g] = "suspended"
    /\ cont' = [cont EXCEPT ![g] = f]
    /\ frame' = [frame EXCEPT ![f] = "suspended", ![g] = "running"]
    /\ on' = [on EXCEPT ![t] = g]
    /\ UNCHANGED <<thrown, fault>>

\* An inner frame reaches its final suspension, by co_return or by an
\* exception: control goes to its continuation on the same thread.
Finish(t, f, threw) ==
    /\ Runs(t, f)
    /\ thrown' = IF threw THEN thrown \cup {f} ELSE thrown
    /\ frame' = [frame EXCEPT ![f] = "final", ![cont[f]] = "running"]
    /\ on' = [on EXCEPT ![t] = cont[f]]
    /\ UNCHANGED <<cont, fault>>

\* coroutine_handle::destroy(), with the frames that the frame owns.
Destroyed(f) == [g \in Frames |-> IF g \in Owned(f) THEN "destroyed" ELSE frame[g]]
CanDestroy(f) == \A g \in Owned(f) : frame[g] \notin {"running", "destroyed"}
Destroy(f) ==
    /\ IF CanDestroy(f) THEN frame' = Destroyed(f) /\ UNCHANGED fault
                        ELSE fault' = "frame" /\ UNCHANGED frame
    /\ UNCHANGED <<cont, thrown, on>>

\* final_awaiter of a wrapper, after on_destroy_: it destroys itself.  Nobody
\* awaits a wrapper, so the thread gets its own control flow back.
SelfDestroy(t, f) ==
    /\ on[t] = f
    /\ IF CanDestroy(f)
       THEN /\ frame' = Destroyed(f)
            /\ on' = [on EXCEPT ![t] = Null]
            /\ UNCHANGED fault
       ELSE fault' = "frame" /\ UNCHANGED <<frame, on>>
    /\ UNCHANGED <<cont, thrown>>
=============================================================================
