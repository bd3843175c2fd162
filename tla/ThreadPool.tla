----------------------------- MODULE ThreadPool -----------------------------
(***************************************************************************)
(* include/ThreadPool.h: the workers that run the commands of all clients, *)
(* the queue they share, the condition variable they sleep on, and the     *)
(* destructor that runs when the program exits.                            *)
(*                                                                         *)
(* A section under queue_mutex is one step.  notify_one and notify_all are *)
(* called after the mutex is released, so they are steps of their own.  A  *)
(* wait may also end with no notification.                                 *)
(*                                                                         *)
(* The tasks themselves (EventLoop::handleClient) only end here; one that  *)
(* never does, or that throws, is outside this model.                      *)
(***************************************************************************)
EXTENDS Integers, Sequences, FiniteSets

CONSTANTS
    Worker,     \* the threads of the pool
    Caller,     \* the threads that call enqueue
    Task,       \* bound: each of these is enqueued once at most
    NoTask

ASSUME ThreadsAssumption ==
    IsFiniteSet(Worker) /\ Worker # {} /\ IsFiniteSet(Caller)
ASSUME NoTaskAssumption == NoTask \notin Task

VARIABLES
    tasks,      \* ThreadPool::tasks
    stop,       \* ThreadPool::stop
    at,         \* where each worker is
    task,       \* the task it runs
    notifies,   \* the callers of enqueue that have not called notify_one yet
    dtor        \* how far the destructor is

(* History: the tasks enqueue took, and those that have ended.             *)
VARIABLES accepted, done

poolVars == <<tasks, stop>>
workerVars == <<at, task>>
histVars == <<accepted, done>>
vars == <<poolVars, workerVars, notifies, dtor, histVars>>

(* "lock": about to take queue_mutex, at the top of the loop or out of a   *)
(* wait; "wait": asleep on the condition variable.                         *)
Places == {"lock", "wait", "run", "exited"}

At(place) == {w \in Worker : at[w] = place}

TypeOK ==
    /\ tasks \in Seq(Task)
    /\ stop \in BOOLEAN
    /\ at \in [Worker -> Places]
    /\ task \in [Worker -> Task \cup {NoTask}]
    /\ \A w \in Worker : at[w] = "run" <=> task[w] # NoTask
    /\ notifies \subseteq Caller
    /\ dtor \in {"none", "notify", "join", "returned"}
    /\ stop <=> dtor # "none"
    /\ accepted \subseteq Task
    /\ done \subseteq accepted

Init ==
    /\ tasks = <<>>
    /\ stop = FALSE
    /\ at = [w \in Worker |-> "lock"]
    /\ task = [w \in Worker |-> NoTask]
    /\ notifies = {}
    /\ dtor = "none"
    /\ accepted = {} /\ done = {}

-----------------------------------------------------------------------------
(* enqueue, up to the end of its locked block.  On a stopped pool it       *)
(* throws and changes nothing.                                             *)
Enqueue(c, t) ==
    /\ c \notin notifies
    /\ t \notin accepted
    /\ ~stop
    /\ tasks' = Append(tasks, t)
    /\ accepted' = accepted \cup {t}
    /\ notifies' = notifies \cup {c}
    /\ UNCHANGED <<stop, workerVars, dtor, done>>

(* Mutant of NotifyOne: only a pool with one task in the queue notifies.   *)
NotifyFirst(c) ==
    /\ c \in notifies
    /\ notifies' = notifies \ {c}
    /\ \/ /\ Len(tasks) = 1
          /\ \E w \in At("wait") : at' = [at EXCEPT ![w] = "lock"]
       \/ /\ At("wait") = {} \/ Len(tasks) # 1
          /\ UNCHANGED at
    /\ UNCHANGED <<poolVars, task, dtor, histVars>>

(* notify_one wakes one of the sleeping workers, any of them.              *)
NotifyOne(c) ==
    /\ c \in notifies
    /\ notifies' = notifies \ {c}
    /\ \/ \E w \in At("wait") : at' = [at EXCEPT ![w] = "lock"]
       \/ At("wait") = {} /\ UNCHANGED at
    /\ UNCHANGED <<poolVars, task, dtor, histVars>>

-----------------------------------------------------------------------------
(* A worker with the mutex: it takes the oldest task ...                   *)
Take(w) ==
    /\ at[w] = "lock"
    /\ tasks # <<>>
    /\ tasks' = Tail(tasks)
    /\ task' = [task EXCEPT ![w] = Head(tasks)]
    /\ at' = [at EXCEPT ![w] = "run"]
    /\ UNCHANGED <<stop, notifies, dtor, histVars>>

(* ... or sleeps ...                                                       *)
Sleep(w) ==
    /\ at[w] = "lock"
    /\ tasks = <<>> /\ ~stop
    /\ at' = [at EXCEPT ![w] = "wait"]
    /\ UNCHANGED <<poolVars, task, notifies, dtor, histVars>>

(* Mutant of Exit: a stopped pool leaves its tasks alone.                  *)
ExitEarly(w) ==
    /\ at[w] = "lock"
    /\ stop
    /\ at' = [at EXCEPT ![w] = "exited"]
    /\ UNCHANGED <<poolVars, task, notifies, dtor, histVars>>

(* ... or leaves its loop.                                                 *)
Exit(w) ==
    /\ at[w] = "lock"
    /\ tasks = <<>> /\ stop
    /\ at' = [at EXCEPT ![w] = "exited"]
    /\ UNCHANGED <<poolVars, task, notifies, dtor, histVars>>

(* The wait ends although nobody notified.                                 *)
WakeUp(w) ==
    /\ at[w] = "wait"
    /\ at' = [at EXCEPT ![w] = "lock"]
    /\ UNCHANGED <<poolVars, task, notifies, dtor, histVars>>

(* Mutant of EndTask: the worker keeps its task.                           *)
EndKeepsTask(w) ==
    /\ at[w] = "run"
    /\ done' = done \cup {task[w]}
    /\ at' = [at EXCEPT ![w] = "lock"]
    /\ UNCHANGED <<poolVars, task, notifies, dtor, accepted>>

(* task() returns, with no lock held.                                      *)
EndTask(w) ==
    /\ at[w] = "run"
    /\ done' = done \cup {task[w]}
    /\ task' = [task EXCEPT ![w] = NoTask]
    /\ at' = [at EXCEPT ![w] = "lock"]
    /\ UNCHANGED <<poolVars, notifies, dtor, accepted>>

-----------------------------------------------------------------------------
(* The destructor: stop, ...                                               *)
Stop ==
    /\ dtor = "none"
    /\ stop' = TRUE
    /\ dtor' = "notify"
    /\ UNCHANGED <<tasks, workerVars, notifies, histVars>>

(* Mutant of NotifyAll: one worker is woken.                               *)
NotifyAllOne ==
    /\ dtor = "notify"
    /\ dtor' = "join"
    /\ \/ \E w \in At("wait") : at' = [at EXCEPT ![w] = "lock"]
       \/ At("wait") = {} /\ UNCHANGED at
    /\ UNCHANGED <<poolVars, task, notifies, histVars>>

(* ... notify_all ...                                                      *)
NotifyAll ==
    /\ dtor = "notify"
    /\ dtor' = "join"
    /\ at' = [w \in Worker |-> IF at[w] = "wait" THEN "lock" ELSE at[w]]
    /\ UNCHANGED <<poolVars, task, notifies, histVars>>

(* ... and join each worker.                                               *)
Join ==
    /\ dtor = "join"
    /\ At("exited") = Worker
    /\ dtor' = "returned"
    /\ UNCHANGED <<poolVars, workerVars, notifies, histVars>>

-----------------------------------------------------------------------------
(* A worker that is awake gets on; the end of a sleep takes a notification.*)
RunWorker(w) == Take(w) \/ Sleep(w) \/ Exit(w) \/ EndTask(w)

Next ==
    \/ \E c \in Caller : NotifyOne(c) \/ \E t \in Task : Enqueue(c, t)
    \/ \E w \in Worker : RunWorker(w) \/ WakeUp(w)
    \/ Stop \/ NotifyAll \/ Join

Spec == Init /\ [][Next]_vars

(* Threads that can run do, and tasks end.                                 *)
FairSpec ==
    /\ Spec
    /\ \A c \in Caller : WF_vars(NotifyOne(c))
    /\ \A w \in Worker : WF_vars(RunWorker(w))
    /\ WF_vars(NotifyAll)
    /\ WF_vars(Join)

-----------------------------------------------------------------------------
(* No worker sleeps while there is work for it: with one asleep, every     *)
(* queued task has a worker of its own that is about to look, or a         *)
(* notification on its way ("Notify one worker that there is a new task"), *)
(* although notify_one is called with the mutex released and a worker that *)
(* was not asleep may take the task instead.                               *)
NoOversleep ==
    At("wait") # {} =>
        Len(tasks) <= Cardinality(At("lock")) + Cardinality(notifies)

(* enqueue, the workers and the destructor keep the promise of TaskQueue:  *)
(* tasks start in order and once, and the destructor returns after all of  *)
(* them ("Wait for each worker thread to finish").                         *)
Queue == INSTANCE TaskQueue WITH
            queue <- tasks,
            running <- {task[w] : w \in At("run")},
            gone <- (dtor = "returned")
ImplementsTaskQueue == Queue!Spec

(* An accepted task ends, also when the pool is destroyed meanwhile.       *)
TasksEnd == \A t \in Task : t \in accepted ~> t \in done

(* The destructor returns.                                                 *)
PoolStops == stop ~> dtor = "returned"
=============================================================================
