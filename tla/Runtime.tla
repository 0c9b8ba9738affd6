------------------------------ MODULE Runtime ------------------------------
(***************************************************************************)
(* The async runtime as the sockets of src/net use it: a task that         *)
(* answered Pending is polled again once something has happened that it    *)
(* has registered its waker with.                                          *)
(***************************************************************************)
VARIABLES
    wake,           \* the runtime is to poll the task again
    interest        \* what a Pending poll has registered its waker with

taskVars == <<wake, interest>>

\* Something happens to sources: who waits for one of them is woken, once.
Notify(sources) ==
    /\ wake' = (wake \/ interest \cap sources # {})
    /\ interest' = interest \ sources
=============================================================================
