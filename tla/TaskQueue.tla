----------------------------- MODULE TaskQueue -----------------------------
(***************************************************************************)
(* What a user of ThreadPool may rely on, with no lock, no condition       *)
(* variable and no worker: an accepted task is started once, in the order  *)
(* of acceptance, and the pool is gone only when all of them have ended.   *)
(***************************************************************************)
EXTENDS Sequences

CONSTANT Task

VARIABLES
    accepted,   \* the tasks enqueue took
    queue,      \* those not started, oldest first
    running,    \* those started and not ended
    done,       \* those that ended
    gone        \* the destructor has returned

vars == <<accepted, queue, running, done, gone>>

Init ==
    /\ accepted = {}
    /\ queue = <<>>
    /\ running = {}
    /\ done = {}
    /\ gone = FALSE

Accept(t) ==
    /\ ~gone /\ t \notin accepted
    /\ accepted' = accepted \cup {t}
    /\ queue' = Append(queue, t)
    /\ UNCHANGED <<running, done, gone>>

Start ==
    /\ queue # <<>>
    /\ queue' = Tail(queue)
    /\ running' = running \cup {Head(queue)}
    /\ UNCHANGED <<accepted, done, gone>>

End(t) ==
    /\ t \in running
    /\ running' = running \ {t}
    /\ done' = done \cup {t}
    /\ UNCHANGED <<accepted, queue, gone>>

Close ==
    /\ ~gone /\ done = accepted /\ queue = <<>> /\ running = {}
    /\ gone' = TRUE
    /\ UNCHANGED <<accepted, queue, running, done>>

Next == Start \/ Close \/ \E t \in Task : Accept(t) \/ End(t)

Spec == Init /\ [][Next]_vars
=============================================================================
