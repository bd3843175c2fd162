-------------------------- MODULE ThreadPoolProofs --------------------------
(***************************************************************************)
(* Proofs about ThreadPool, for any number of workers, callers and tasks.  *)
(***************************************************************************)
EXTENDS ThreadPool, FiniteSetTheorems, TLAPS

LEMMA InitTypeOK == Init => TypeOK
  <1> SUFFICES ASSUME Init PROVE TypeOK
    OBVIOUS
  <1>1. stop \in BOOLEAN /\ (stop <=> dtor # "none")
    BY Zenon DEF Init
  <1>2. /\ tasks \in Seq(Task) /\ notifies \subseteq Caller
        /\ dtor \in {"none", "notify", "join", "returned"}
        /\ accepted \subseteq Task /\ done \subseteq accepted
        /\ at \in [Worker -> Places]
        /\ task \in [Worker -> Task \cup {NoTask}]
        /\ \A w \in Worker : at[w] = "run" <=> task[w] # NoTask
    BY NoTaskAssumption DEF Init, Places
  <1> QED
    BY <1>1, <1>2 DEF TypeOK

LEMMA NextTypeOK == 
    ASSUME TypeOK, [Next]_vars,
           \A w \in Worker : at[w] = "run" => task[w] \in accepted
    PROVE  TypeOK'
  <1> USE NoTaskAssumption
      DEF TypeOK, Places, At, poolVars, workerVars, histVars
  <1>1. ASSUME NEW c \in Caller, NEW t \in Task, Enqueue(c, t) PROVE TypeOK'
    BY <1>1 DEF Enqueue
  <1>2. ASSUME NEW c \in Caller, NotifyOne(c) PROVE TypeOK'
    BY <1>2 DEF NotifyOne
  <1>3. ASSUME NEW w \in Worker, Take(w) PROVE TypeOK'
    <2>1. Head(tasks) \in Task /\ Tail(tasks) \in Seq(Task)
      BY <1>3 DEF Take
    <2> QED
      BY <1>3, <2>1 DEF Take
  <1>4. ASSUME NEW w \in Worker, Sleep(w) \/ Exit(w) \/ WakeUp(w) PROVE TypeOK'
    BY <1>4 DEF Sleep, Exit, WakeUp
  <1>5. ASSUME NEW w \in Worker, EndTask(w) PROVE TypeOK'
    BY <1>5 DEF EndTask
  <1>6. CASE Stop
    <2>1. stop' \in BOOLEAN /\ (stop' <=> dtor' # "none")
      BY <1>6, Zenon DEF Stop
    <2> QED
      BY <1>6, <2>1 DEF Stop
  <1>7. CASE NotifyAll \/ Join
    BY <1>7 DEF NotifyAll, Join
  <1>8. CASE UNCHANGED vars
    BY <1>8 DEF vars
  <1> QED
    BY <1>1, <1>2, <1>3, <1>4, <1>5, <1>6, <1>7, <1>8 DEF Next, RunWorker

-----------------------------------------------------------------------------
(* An accepted task is in one place: in the queue once, with one worker,   *)
(* or done; and a worker that left its loop left an empty queue.           *)
Queued(t) == \E i \in 1..Len(tasks) : tasks[i] = t
Held(t) == \E w \in Worker : at[w] = "run" /\ task[w] = t

QueueInv ==
    /\ \A i \in 1..Len(tasks) : tasks[i] \in accepted \ done
    /\ \A i, j \in 1..Len(tasks) : tasks[i] = tasks[j] => i = j
    /\ \A i \in 1..Len(tasks) : ~Held(tasks[i])

HeldInv ==
    /\ \A w \in Worker : at[w] = "run" => task[w] \in accepted \ done
    /\ \A v, w \in At("run") : task[v] = task[w] => v = w

Accounted == \A t \in accepted : t \in done \/ Queued(t) \/ Held(t)

ExitInv ==
    /\ \A w \in Worker : at[w] = "exited" => tasks = <<>> /\ stop
    /\ dtor = "returned" => At("exited") = Worker

PlaceInv == TypeOK /\ QueueInv /\ HeldInv /\ Accounted /\ ExitInv

LEMMA InitPlaceInv == Init => PlaceInv
  BY InitTypeOK
     DEF Init, PlaceInv, QueueInv, HeldInv, Accounted, ExitInv, At, Held

LEMMA NextPlaceInv == ASSUME PlaceInv, [Next]_vars PROVE PlaceInv'
  <1> USE DEF poolVars, workerVars, histVars, At, Queued, Held
  <1>0. TypeOK'
    BY NextTypeOK DEF PlaceInv, HeldInv
  <1>1. ASSUME NEW c \in Caller, NEW t \in Task, Enqueue(c, t) PROVE PlaceInv'
    <2>1. /\ tasks \in Seq(Task) /\ tasks' = Append(tasks, t)
          /\ t \notin accepted /\ ~stop /\ accepted' = accepted \cup {t}
          /\ UNCHANGED <<stop, at, task, dtor, done>>
          /\ done \subseteq accepted
      BY <1>1 DEF Enqueue, PlaceInv, TypeOK
    <2>2. /\ Len(tasks') = Len(tasks) + 1 /\ Len(tasks) \in Nat
          /\ tasks'[Len(tasks) + 1] = t
          /\ \A i \in 1..Len(tasks) : tasks'[i] = tasks[i]
      BY <2>1
    <2>3. QueueInv'
      BY <2>1, <2>2 DEF PlaceInv, QueueInv, HeldInv
    <2>4. HeldInv'
      BY <2>1 DEF PlaceInv, HeldInv
    <2>5. Accounted'
      BY <2>1, <2>2 DEF PlaceInv, Accounted
    <2>6. ExitInv'
      BY <2>1 DEF PlaceInv, ExitInv
    <2> QED
      BY <1>0, <2>3, <2>4, <2>5, <2>6 DEF PlaceInv
  <1>2. ASSUME NEW w \in Worker, Take(w) PROVE PlaceInv'
    <2>1. /\ tasks \in Seq(Task) /\ tasks # <<>> /\ tasks' = Tail(tasks)
          /\ at[w] = "lock" /\ at' = [at EXCEPT ![w] = "run"]
          /\ task' = [task EXCEPT ![w] = tasks[1]]
          /\ at \in [Worker -> Places] /\ task \in [Worker -> Task \cup {NoTask}]
          /\ UNCHANGED <<stop, dtor, accepted, done>>
      BY <1>2 DEF Take, PlaceInv, TypeOK
    <2>2. /\ Len(tasks) \in Nat \ {0} /\ Len(tasks') = Len(tasks) - 1
          /\ \A i \in 1..Len(tasks') : tasks'[i] = tasks[i + 1]
      BY <2>1
    <2>3. \A t : Held(t)' <=> Held(t) \/ t = tasks[1]
      BY <2>1
    <2>4. \A t : Queued(t) => Queued(t)' \/ t = tasks[1]
      <3> SUFFICES ASSUME NEW i \in 1..Len(tasks), i # 1
                   PROVE  \E j \in 1..Len(tasks') : tasks'[j] = tasks[i]
        BY DEF Queued
      <3>1. i - 1 \in 1..Len(tasks') /\ tasks'[i - 1] = tasks[i]
        BY <2>2
      <3> QED
        BY <3>1
    <2>5. QueueInv'
      BY <2>1, <2>2, <2>3 DEF PlaceInv, QueueInv
    <2>6. HeldInv'
      BY <2>1, <2>2 DEF PlaceInv, HeldInv, QueueInv
    <2>7. Accounted'
      BY <2>1, <2>3, <2>4 DEF PlaceInv, Accounted
    <2>8. ExitInv'
      BY <2>1 DEF PlaceInv, ExitInv
    <2> QED
      BY <1>0, <2>5, <2>6, <2>7, <2>8 DEF PlaceInv
  <1>3. ASSUME NEW w \in Worker, EndTask(w) PROVE PlaceInv'
    <2>1. /\ at[w] = "run" /\ at' = [at EXCEPT ![w] = "lock"]
          /\ task' = [task EXCEPT ![w] = NoTask]
          /\ at \in [Worker -> Places] /\ task \in [Worker -> Task \cup {NoTask}]
          /\ done' = done \cup {task[w]}
          /\ UNCHANGED <<tasks, stop, dtor, accepted>>
      BY <1>3 DEF EndTask, PlaceInv, TypeOK
    <2>2. \A t : Held(t) => Held(t)' \/ t = task[w]
      BY <2>1
    <2>3. \A t : Held(t)' => Held(t)
      BY <2>1
    <2>4. QueueInv'
      BY <2>1, <2>3 DEF PlaceInv, QueueInv
    <2>5. HeldInv'
      BY <2>1 DEF PlaceInv, HeldInv
    <2>6. Accounted'
      BY <2>1, <2>2 DEF PlaceInv, Accounted
    <2>7. ExitInv'
      BY <2>1 DEF PlaceInv, ExitInv
    <2> QED
      BY <1>0, <2>4, <2>5, <2>6, <2>7 DEF PlaceInv
  <1>4. ASSUME UNCHANGED <<tasks, task, accepted, done>>,
               \A w \in Worker : at[w] = "run" <=> at'[w] = "run",
               ExitInv'
        PROVE  PlaceInv'
    <2>1. QueueInv' /\ HeldInv' /\ Accounted'
      BY <1>4 DEF PlaceInv, QueueInv, HeldInv, Accounted
    <2> QED
      BY <1>0, <1>4, <2>1 DEF PlaceInv
  <1>5. ASSUME NEW w \in Worker, Sleep(w) \/ Exit(w) \/ WakeUp(w) PROVE PlaceInv'
    BY <1>4, <1>5 DEF Sleep, Exit, WakeUp, PlaceInv, TypeOK, ExitInv
  <1>6. ASSUME NEW c \in Caller, NotifyOne(c) PROVE PlaceInv'
    BY <1>4, <1>6 DEF NotifyOne, PlaceInv, TypeOK, ExitInv
  <1>7. CASE Stop \/ NotifyAll \/ Join
    BY <1>4, <1>7 DEF Stop, NotifyAll, Join, PlaceInv, TypeOK, ExitInv
  <1>8. CASE UNCHANGED vars
    BY <1>4, <1>8 DEF vars, PlaceInv, ExitInv
  <1> QED
    BY <1>1, <1>2, <1>3, <1>5, <1>6, <1>7, <1>8 DEF Next, RunWorker

(* Every variable keeps its type, among others: a worker has a task        *)
(* exactly while it runs one, and only an accepted task ends.              *)
THEOREM TypeCorrect == Spec => []TypeOK
  <1>1. PlaceInv => TypeOK
    BY DEF PlaceInv
  <1>2. PlaceInv /\ [Next]_vars => PlaceInv'
    BY NextPlaceInv
  <1> QED
    BY <1>1, <1>2, InitPlaceInv, PTL DEF Spec

-----------------------------------------------------------------------------
LEMMA FiniteParts ==
    ASSUME TypeOK
    PROVE  /\ \A p : IsFiniteSet(At(p)) /\ Cardinality(At(p)) \in Nat
           /\ IsFiniteSet(notifies) /\ Cardinality(notifies) \in Nat
           /\ Len(tasks) \in Nat
  <1>1. \A p : At(p) \subseteq Worker
    BY DEF At
  <1> QED
    BY <1>1, ThreadsAssumption, FS_Subset, FS_CardinalityType DEF TypeOK

(* One more worker is about to look at the queue.                          *)
LEMMA WakeCardinality ==
    ASSUME TypeOK, NEW w \in Worker, at[w] # "lock",
           at' = [at EXCEPT ![w] = "lock"]
    PROVE  /\ Cardinality(At("lock")') = Cardinality(At("lock")) + 1
           /\ At("wait")' \subseteq At("wait")
  <1>1. At("lock")' = At("lock") \cup {w} /\ w \notin At("lock")
    BY DEF At, TypeOK
  <1>2. At("wait")' \subseteq At("wait")
    BY DEF At, TypeOK
  <1> QED
    BY <1>1, <1>2, FiniteParts, FS_AddElement

LEMMA NextNoOversleep ==
    ASSUME TypeOK, TypeOK', NoOversleep, [Next]_vars PROVE NoOversleep'
  <1> USE FiniteParts DEF NoOversleep, poolVars, workerVars, histVars
  <1>1. ASSUME NEW c \in Caller, NEW t \in Task, Enqueue(c, t) PROVE NoOversleep'
    <2>1. Cardinality(notifies') = Cardinality(notifies) + 1
      BY <1>1, FS_AddElement DEF Enqueue
    <2>2. Len(tasks') = Len(tasks) + 1
      BY <1>1 DEF Enqueue, TypeOK
    <2>3. At("wait")' = At("wait") /\ At("lock")' = At("lock")
      BY <1>1 DEF Enqueue, At
    <2> QED
      BY <2>1, <2>2, <2>3
  <1>2. ASSUME NEW c \in Caller, NotifyOne(c) PROVE NoOversleep'
    <2>1. CASE At("wait") = {} /\ UNCHANGED at
      BY <2>1 DEF At
    <2>2. ASSUME NEW w \in At("wait"), at' = [at EXCEPT ![w] = "lock"]
          PROVE  NoOversleep'
      <3>1. Cardinality(notifies') = Cardinality(notifies) - 1
        BY <1>2, FS_RemoveElement DEF NotifyOne
      <3>2. w \in Worker /\ at[w] # "lock"
        BY <2>2 DEF At
      <3>3. tasks' = tasks /\ At("wait") # {}
        BY <1>2, <2>2 DEF NotifyOne
      <3>4. Cardinality(At("lock")') = Cardinality(At("lock")) + 1
        BY <2>2, <3>2, WakeCardinality
      <3> QED
        BY <3>1, <3>3, <3>4
    <2> QED
      BY <1>2, <2>1, <2>2 DEF NotifyOne
  <1>3. ASSUME NEW w \in Worker, Take(w) PROVE NoOversleep'
    <2>1. At("lock")' = At("lock") \ {w} /\ w \in At("lock")
      BY <1>3 DEF Take, At, TypeOK
    <2>2. Cardinality(At("lock")') = Cardinality(At("lock")) - 1
      BY <2>1, FS_RemoveElement
    <2>3. Len(tasks') = Len(tasks) - 1 /\ notifies' = notifies
      BY <1>3 DEF Take, TypeOK
    <2>4. At("wait")' \subseteq At("wait")
      BY <1>3 DEF Take, At, TypeOK
    <2> QED
      BY <2>2, <2>3, <2>4
  <1>4. ASSUME tasks' = <<>> PROVE NoOversleep'
    <2>1. Cardinality(At("lock")') \in Nat /\ Cardinality(notifies') \in Nat
      <3>1. At("lock")' \subseteq Worker /\ notifies' \subseteq Caller
        BY DEF At, TypeOK
      <3> QED
        BY <3>1, ThreadsAssumption, FS_Subset, FS_CardinalityType
    <2> QED
      BY <1>4, <2>1
  <1>5. ASSUME NEW w \in Worker, Sleep(w) \/ Exit(w) PROVE NoOversleep'
    BY <1>4, <1>5 DEF Sleep, Exit
  <1>6. ASSUME NEW w \in Worker, WakeUp(w) \/ EndTask(w) PROVE NoOversleep'
    <2>1. /\ at[w] # "lock" /\ at' = [at EXCEPT ![w] = "lock"]
          /\ UNCHANGED <<tasks, notifies>>
      BY <1>6 DEF WakeUp, EndTask
    <2>2. /\ Cardinality(At("lock")') = Cardinality(At("lock")) + 1
          /\ At("wait")' \subseteq At("wait")
      BY <2>1, WakeCardinality
    <2> QED
      BY <2>1, <2>2
  <1>7. CASE NotifyAll
    BY <1>7 DEF NotifyAll, At, TypeOK
  <1>8. CASE UNCHANGED <<tasks, at, notifies>>
    BY <1>8 DEF At
  <1>9. CASE Stop \/ Join \/ UNCHANGED vars
    BY <1>8, <1>9 DEF Stop, Join, vars
  <1> QED
    BY <1>1, <1>2, <1>3, <1>5, <1>6, <1>7, <1>9 DEF Next, RunWorker

(* No worker sleeps while there is work for it, for any number of workers, *)
(* callers and tasks.                                                      *)
THEOREM NoWorkerOversleeps == Spec => []NoOversleep
  <1>1. Init => NoOversleep
    BY DEF Init, NoOversleep, At
  <1>2. PlaceInv /\ NoOversleep /\ [Next]_vars => NoOversleep'
    <2> SUFFICES ASSUME PlaceInv, NoOversleep, [Next]_vars PROVE NoOversleep'
      OBVIOUS
    <2>1. TypeOK /\ TypeOK'
      BY NextPlaceInv DEF PlaceInv
    <2> QED
      BY <2>1, NextNoOversleep
  <1>3. PlaceInv /\ [Next]_vars => PlaceInv'
    BY NextPlaceInv
  <1> QED
    BY <1>1, <1>2, <1>3, InitPlaceInv, PTL DEF Spec

-----------------------------------------------------------------------------
(* Each step of the pool is one of the task queue, or changes nothing there. *)
LEMMA StepRefines == ASSUME PlaceInv, [Next]_vars PROVE [Queue!Next]_Queue!vars
  <1> USE DEF Queue!vars, poolVars, workerVars, histVars, At
  <1>1. ASSUME NEW c \in Caller, NEW t \in Task, Enqueue(c, t)
        PROVE  Queue!Accept(t)
    <2>1. dtor = "none"
      BY <1>1 DEF Enqueue, PlaceInv, TypeOK
    <2> QED
      BY <1>1, <2>1 DEF Enqueue, Queue!Accept
  <1>2. ASSUME NEW w \in Worker, Take(w) PROVE Queue!Start
    <2>1. {task[v] : v \in At("run")}' =
              {task[v] : v \in At("run")} \cup {Head(tasks)}
      BY <1>2 DEF Take, PlaceInv, TypeOK
    <2> QED
      BY <1>2, <2>1 DEF Take, Queue!Start
  <1>3. ASSUME NEW w \in Worker, NEW t \in Task, t = task[w], EndTask(w)
        PROVE  Queue!End(t)
    <2>1. {task[v] : v \in At("run")}' =
              {task[v] : v \in At("run")} \ {task[w]}
      BY <1>3 DEF EndTask, PlaceInv, TypeOK, HeldInv
    <2> QED
      BY <1>3, <2>1 DEF EndTask, Queue!End
  <1>4. ASSUME Join PROVE Queue!Close
    <2>1. \E w \in Worker : at[w] = "exited"
      BY <1>4, ThreadsAssumption DEF Join
    <2>2. tasks = <<>> /\ {task[v] : v \in At("run")} = {}
      BY <1>4, <2>1 DEF Join, PlaceInv, ExitInv
    <2>3. \A t : ~Queued(t) /\ ~Held(t)
      BY <1>4, <2>2 DEF Join, Queued, Held
    <2>4. done = accepted
      BY <2>3 DEF PlaceInv, TypeOK, Accounted
    <2>5. ~(dtor = "returned") /\ dtor' = "returned"
      BY <1>4 DEF Join
    <2>6. (dtor' = "returned") = TRUE
      BY <2>5, Zenon
    <2>7. UNCHANGED <<accepted, tasks, done>>
          /\ {task[v] : v \in At("run")}' = {task[v] : v \in At("run")}
      BY <1>4 DEF Join
    <2> QED
      BY <2>2, <2>4, <2>5, <2>6, <2>7, Zenon DEF Queue!Close
  <1>5. ASSUME UNCHANGED <<tasks, task, accepted, done>>,
               \A w \in Worker : at[w] = "run" <=> at'[w] = "run",
               dtor = "returned" <=> dtor' = "returned"
        PROVE  UNCHANGED Queue!vars
    BY <1>5
  <1>6. ASSUME NEW w \in Worker, Sleep(w) \/ Exit(w) \/ WakeUp(w)
        PROVE  UNCHANGED Queue!vars
    BY <1>5, <1>6 DEF Sleep, Exit, WakeUp, PlaceInv, TypeOK
  <1>7. ASSUME NEW c \in Caller, NotifyOne(c) PROVE UNCHANGED Queue!vars
    BY <1>5, <1>7 DEF NotifyOne, PlaceInv, TypeOK
  <1>8. ASSUME Stop \/ NotifyAll PROVE UNCHANGED Queue!vars
    BY <1>5, <1>8 DEF Stop, NotifyAll, PlaceInv, TypeOK
  <1>9. ASSUME UNCHANGED vars PROVE UNCHANGED Queue!vars
    BY <1>5, <1>9 DEF vars
  <1>10. ASSUME NEW w \in Worker, EndTask(w) PROVE task[w] \in Task
    BY <1>10 DEF EndTask, PlaceInv, TypeOK
  <1>11. ASSUME NEW c \in Caller, NEW t \in Task, Enqueue(c, t)
         PROVE  Queue!Next
    BY <1>1, <1>11, Zenon DEF Queue!Next
  <1>12. ASSUME NEW w \in Worker, Take(w) PROVE Queue!Next
    BY <1>2, <1>12, Zenon DEF Queue!Next
  <1>13. ASSUME NEW w \in Worker, EndTask(w) PROVE Queue!Next
    <2>1. PICK t \in Task : t = task[w]
      BY <1>10, <1>13, Zenon
    <2>2. Queue!End(t)
      BY <1>3, <1>13, <2>1, Zenon
    <2> QED
      BY <2>2, Zenon DEF Queue!Next
  <1>14. Join => Queue!Next
    BY <1>4, Zenon DEF Queue!Next
  <1> HIDE DEF Queue!vars
  <1> QED
    BY <1>6, <1>7, <1>8, <1>9, <1>11, <1>12, <1>13, <1>14, Zenon
       DEF Next, RunWorker

(* The pool implements TaskQueue: every accepted task starts once and in   *)
(* order, and the destructor returns after all of them.                    *)
THEOREM Refinement == Spec => ImplementsTaskQueue
  <1>1. Init => Queue!Init
    BY DEF Init, Queue!Init, At
  <1>2. PlaceInv /\ [Next]_vars => PlaceInv'
    BY NextPlaceInv
  <1>3. PlaceInv /\ [Next]_vars => [Queue!Next]_Queue!vars
    BY StepRefines
  <1> QED
    BY <1>1, <1>2, <1>3, InitPlaceInv, PTL
       DEF Spec, ImplementsTaskQueue, Queue!Spec
=============================================================================
