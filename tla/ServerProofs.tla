---------------------------- MODULE ServerProofs ----------------------------
(***************************************************************************)
(* Proofs about Server, for any clients, characters and bounds.            *)
(***************************************************************************)
EXTENDS Server, FiniteSetTheorems, TLAPS

LEMMA TaskParts ==
    \A t \in Task : t[1] \in Client /\ t[2] \in 1..MaxLines /\ t = <<t[1], t[2]>>
  BY DEF Task

(* A client's first n tasks are n.                                         *)
LEMMA RowSize ==
    ASSUME NEW x, NEW n \in Nat
    PROVE  IsFiniteSet({x} \X (1..n)) /\ Cardinality({x} \X (1..n)) = n
  <1>1. 1 \in Int /\ n \in Int
    OBVIOUS
  <1>2. IsFiniteSet(1..n)
    BY <1>1, FS_Interval
  <1>3. Cardinality(1..n) = IF 1 > n THEN 0 ELSE n - 1 + 1
    BY <1>1, FS_Interval, Zenon
  <1>4. (IF 1 > n THEN 0 ELSE n - 1 + 1) = n
    OBVIOUS
  <1>5. IsFiniteSet({x}) /\ Cardinality({x}) = 1
    BY FS_Singleton
  <1>6. IsFiniteSet({x} \X (1..n))
    BY <1>2, <1>5, FS_Product
  <1>7. Cardinality({x} \X (1..n)) = Cardinality({x}) * Cardinality(1..n)
    BY <1>2, <1>5, FS_Product, Zenon
  <1>8. 1 * n = n
    OBVIOUS
  <1> QED
    BY <1>3, <1>4, <1>5, <1>6, <1>7, <1>8, Zenon

(* The bound on all lines bounds the lines of each client.                 *)
LEMMA LinesBound ==
    ASSUME ClientTypes, PoolTypes, IsFiniteSet(accepted), NEW c \in Client,
           Cardinality(accepted) < MaxLines
    PROVE  lines[c] \in 0..(MaxLines - 1)
  <1> DEFINE Own == {c} \X (1..lines[c])
  <1>1. lines[c] \in 0..MaxLines /\ MaxLines \in Nat
    BY BoundAssumption DEF ClientTypes
  <1>2. lines[c] \in Nat
    BY <1>1
  <1>4. IsFiniteSet(Own) /\ Cardinality(Own) = lines[c]
    BY <1>2, RowSize
  <1>5. Own \subseteq accepted
    BY <1>1 DEF PoolTypes, Task
  <1>6. Cardinality(Own) <= Cardinality(accepted)
    BY <1>5, FS_Subset
  <1>7. Cardinality(accepted) \in Nat
    BY FS_CardinalityType
  <1> QED
    BY <1>1, <1>4, <1>6, <1>7

LEMMA InitTypeOK == Init => TypeOK /\ IsFiniteSet(accepted)
  <1> SUFFICES ASSUME Init PROVE TypeOK /\ IsFiniteSet(accepted)
    OBVIOUS
  <1>1. accepted = {} /\ busy = {} /\ done = {} /\ queue = <<>>
    BY DEF Init, Pool!Init
  <1>2. \A t \in Task : ~(t[2] <= lines[t[1]])
    BY TaskParts, BoundAssumption DEF Init
  <1>3. PoolTypes
    BY <1>1, <1>2 DEF Init, PoolTypes
  <1>4. ClientTypes /\ LoopTypes /\ TaskTypes
    BY NoneAssumption, BoundAssumption
       DEF Init, ClientTypes, LoopTypes, TaskTypes, Line
  <1> QED
    BY <1>1, <1>3, <1>4, FS_EmptySet DEF TypeOK

(* A key is read, except a newline.                                        *)
LEMMA ReadTypeOK ==
    ASSUME ClientTypes, LoopTypes, NEW c \in Client, round' = round \ {c},
           \/ Accept(c) \/ Disconnect(c) \/ Ignore(c) \/ Type(c)
           \/ Backspace(c) \/ ArrowUp(c) \/ ArrowDown(c) \/ LoneEscape(c)
    PROVE  ClientTypes' /\ LoopTypes'
  <1> USE NoneAssumption
      DEF clientVars, loopVars, Continue, SetBuffer, AppendToBuffer, Reads,
          Serves
  <1>1. ASSUME Type(c) PROVE buffer' \in [Client -> Line]
    BY <1>1 DEF Type, ClientTypes, Line
  <1>2. CASE Type(c)
    BY <1>1, <1>2 DEF Type, ClientTypes, LoopTypes
  <1>3. CASE Accept(c) \/ Disconnect(c) \/ Ignore(c)
    BY <1>3 DEF Accept, Disconnect, Ignore, Serves, ClientTypes, LoopTypes
  <1>4. CASE Backspace(c) \/ ArrowUp(c) \/ ArrowDown(c) \/ LoneEscape(c)
    BY <1>4 DEF Backspace, ArrowUp, ArrowDown, LoneEscape, ClientTypes,
                LoopTypes
  <1> QED
    BY <1>2, <1>3, <1>4

LEMMA HandleTypeOK ==
    ASSUME ClientTypes, LoopTypes, TaskTypes, HandleClient \/ Receive
    PROVE  ClientTypes' /\ LoopTypes' /\ TaskTypes'
  <1> USE NoneAssumption
      DEF clientVars, loopVars, taskVars, mainVars, Continue, Return,
          SetBuffer, AppendToBuffer
  <1>0. <<>> \in Line /\ \A s, u \in Line : s \o u \in Line
    BY DEF Line
  <1>r. UNCHANGED round
    BY DEF HandleClient, Receive, waitVars
  <1> USE <1>r
  <1>1. CASE BackRead
    <2>1. who \in Client /\ buffer[who] \in Line /\ buffer[who] # <<>>
      BY <1>1 DEF BackRead, ClientTypes, LoopTypes
    <2>2. text' \in Line
      BY <1>1, <2>1 DEF BackRead, Line
    <2> QED
      BY <1>1, <2>1, <2>2 DEF BackRead, ClientTypes, LoopTypes, TaskTypes
  <1>2. CASE BackReadEmpty \/ RecallOutside
    BY <1>2 DEF BackReadEmpty, RecallOutside, Crash, ClientTypes, LoopTypes,
                TaskTypes
  <1>3. CASE Down \/ Move \/ Receive \/ Echo
    BY <1>0, <1>3 DEF Down, Move, Receive, Echo, ClientTypes, LoopTypes, TaskTypes
  <1>4. CASE SetIndex
    BY <1>4 DEF SetIndex, Delta, ClientTypes, LoopTypes, TaskTypes
  <1>5. CASE Wipe
    BY <1>0, <1>5 DEF Wipe, ClientTypes, LoopTypes, TaskTypes
  <1>6. CASE Retype
    <2>1. buffer' \in [Client -> Line]
      BY <1>0, <1>6 DEF Retype, ClientTypes, LoopTypes
    <2> QED
      BY <1>0, <1>6, <2>1 DEF Retype, ClientTypes, LoopTypes, TaskTypes
  <1>7. CASE Recall
    <2>1. who \in Client /\ history[who] \in Seq(Line) /\ buffer[who] \in Line
      BY <1>7 DEF Recall, ClientTypes, LoopTypes
    <2>2. InHistory(who) => history[who][index[who] + 1] \in Line
      BY <2>1 DEF InHistory
    <2>3. buffer' \in [Client -> Line]
      BY <1>0, <1>7, <2>1, <2>2 DEF Recall, ClientTypes
    <2> QED
      BY <1>0, <1>7, <2>3 DEF Recall, ClientTypes, LoopTypes, TaskTypes
  <1> QED
    BY <1>1, <1>2, <1>3, <1>4, <1>5, <1>6, <1>7 DEF HandleClient

LEMMA EnterTypeOK ==
    ASSUME TypeOK, IsFiniteSet(accepted), NEW c \in Client, Enter(c),
           round' = round \ {c}, UNCHANGED hung
    PROVE  TypeOK' /\ IsFiniteSet(accepted)'
  <1> DEFINE t == <<c, lines[c] + 1>>
  <1>1. lines[c] \in 0..(MaxLines - 1)
    BY LinesBound DEF Enter, TypeOK
  <1>2. t \in Task
    BY <1>1, BoundAssumption DEF Task
  <1>3. /\ accepted' = accepted \cup {t} /\ queue' = Append(queue, t)
        /\ lines' = [lines EXCEPT ![c] = @ + 1]
        /\ UNCHANGED <<busy, done, at>>
    BY DEF Enter, Pool!Accept, taskVars
  <1>4. lines' \in [Client -> 0..MaxLines]
    BY <1>1, <1>3, BoundAssumption DEF TypeOK, ClientTypes
  <1>5. ASSUME NEW u \in Task PROVE u \in accepted' <=> u[2] <= lines'[u[1]]
    <2>1. u[1] \in Client /\ u[2] \in 1..MaxLines /\ u = <<u[1], u[2]>>
      BY TaskParts
    <2>2. u \in accepted <=> u[2] <= lines[u[1]]
      BY DEF TypeOK, PoolTypes
    <2>3. CASE u[1] = c
      <3>1. lines'[c] = lines[c] + 1
        BY <1>3 DEF TypeOK, ClientTypes
      <3>2. u = t <=> u[2] = lines[c] + 1
        BY <2>1, <2>3
      <3> QED
        BY <1>1, <1>3, <2>1, <2>2, <2>3, <3>1, <3>2, BoundAssumption
    <2>4. CASE u[1] # c
      BY <1>3, <2>1, <2>2, <2>4 DEF TypeOK, ClientTypes
    <2> QED
      BY <2>3, <2>4
  <1>6. queue' \in Seq(accepted')
    BY <1>3 DEF TypeOK, PoolTypes
  <1>7. PoolTypes'
    BY <1>2, <1>3, <1>5, <1>6 DEF TypeOK, PoolTypes
  <1>8. IsFiniteSet(accepted')
    BY <1>3, FS_AddElement
  <1>9. ClientTypes' /\ LoopTypes' /\ TaskTypes'
    BY <1>4 DEF Enter, TypeOK, ClientTypes, LoopTypes, TaskTypes, clientVars,
                loopVars, taskVars, mainVars
  <1> QED
    BY <1>7, <1>8, <1>9 DEF TypeOK

LEMMA TaskTypeOK ==
    ASSUME TypeOK, NEW t \in Task, RunTask(t)
    PROVE  TypeOK' /\ accepted' = accepted
  <1> USE DEF clientVars, loopVars, taskVars, mainVars, poolVars, SetBuffer,
              GotoTask
  <1>r. t \notin hung /\ UNCHANGED <<round, hung>>
    BY DEF RunTask, waitVars
  <1> USE <1>r
  <1>0. /\ t[1] \in Client
        /\ <<>> \in Line /\ \A s \in Seq(Line), u \in Line : Append(s, u) \in Seq(Line)
    BY TaskParts DEF Line
  <1>1. CASE ReadLine(t)
    BY <1>0, <1>1 DEF ReadLine, TypeOK, ClientTypes, LoopTypes, TaskTypes,
                      PoolTypes
  <1>2. CASE Process(t)
    <2>1. executed' \in [Client -> Seq(Line)]
      BY <1>0, <1>2 DEF Process, TypeOK, TaskTypes
    <2> QED
      BY <1>2, <2>1 DEF Process, TypeOK, ClientTypes, LoopTypes, TaskTypes,
                        PoolTypes
  <1>3. CASE ProcessCrashes(t)
    BY <1>0, <1>3 DEF ProcessCrashes, Crash, TypeOK, ClientTypes, LoopTypes,
                      TaskTypes, PoolTypes
  <1>4. CASE Remember(t)
    <2>1. history' \in [Client -> Seq(Line)] /\ index' \in [Client -> Int]
      BY <1>0, <1>4 DEF Remember, TypeOK, ClientTypes, TaskTypes
    <2> QED
      BY <1>4, <2>1 DEF Remember, TypeOK, ClientTypes, LoopTypes, TaskTypes,
                        PoolTypes
  <1>5. CASE ClearBuffer(t)
    BY <1>0, <1>5 DEF ClearBuffer, TypeOK, ClientTypes, LoopTypes, TaskTypes,
                      PoolTypes
  <1>6. CASE Prompt(t)
    BY <1>0, <1>6 DEF Prompt, Pool!End, TypeOK, ClientTypes, LoopTypes,
                      TaskTypes, PoolTypes
  <1> QED
    BY <1>1, <1>2, <1>3, <1>4, <1>5, <1>6 DEF RunTask

(* Start takes the head of the queue, which no other step removes.         *)
LEMMA StartFacts ==
    ASSUME TypeOK, Start
    PROVE  /\ queue # <<>> /\ queue' = Tail(queue)
           /\ queue[1] \in accepted /\ queue' \in Seq(accepted)
           /\ at' = [at EXCEPT ![queue[1]] = "read"]
           /\ busy' = busy \cup {queue[1]}
           /\ UNCHANGED <<accepted, done, gone, clientVars, loopVars, line,
                          executed, mainVars, waitVars>>
  <1>1. queue \in Seq(accepted) /\ queue # <<>> /\ queue' = Tail(queue)
    BY DEF Start, Pool!Start, TypeOK, PoolTypes
  <1>2. Head(queue) = queue[1] /\ queue[1] \in accepted
    BY <1>1
  <1>3. Tail(queue) \in Seq(accepted)
    BY <1>1
  <1> QED
    BY <1>1, <1>2, <1>3 DEF Start, Pool!Start, GotoTask

LEMMA NextTypeOK ==
    ASSUME TypeOK, IsFiniteSet(accepted), [Next]_vars
    PROVE  TypeOK' /\ IsFiniteSet(accepted)'
  <1> USE DEF clientVars, loopVars, taskVars, mainVars, waitVars, poolVars
  <1>1. CASE UNCHANGED vars
    BY <1>1 DEF vars, TypeOK, ClientTypes, LoopTypes, TaskTypes, PoolTypes
  <1>2. ASSUME NEW c \in Client, Input(c) PROVE TypeOK' /\ IsFiniteSet(accepted)'
    <2>r. round' = round \ {c} /\ UNCHANGED hung
      BY <1>2 DEF Input
    <2>1. CASE Enter(c)
      BY <2>r, <2>1, EnterTypeOK
    <2>2. CASE Accept(c) \/ Disconnect(c) \/ Ignore(c) \/ Type(c)
               \/ Backspace(c) \/ ArrowUp(c) \/ ArrowDown(c) \/ LoneEscape(c)
      <3>1. ClientTypes' /\ LoopTypes'
        BY <2>r, <2>2, ReadTypeOK DEF TypeOK
      <3>2. UNCHANGED <<taskVars, mainVars, hung, poolVars, lines>>
        BY <2>r, <2>2 DEF Accept, Disconnect, Ignore, Type, Backspace, ArrowUp, ArrowDown,
                    LoneEscape
      <3> QED
        BY <3>1, <3>2 DEF TypeOK, TaskTypes, PoolTypes
    <2> QED
      BY <1>2, <2>1, <2>2 DEF Input
  <1>3. CASE HandleClient \/ Receive
    <2>1. ClientTypes' /\ LoopTypes' /\ TaskTypes'
      BY <1>3, HandleTypeOK DEF TypeOK
    <2>2. UNCHANGED <<poolVars, hung, at, lines>>
      BY <1>3 DEF HandleClient, Receive, Echo, BackRead, BackReadEmpty, Retype, Down,
                  Move, SetIndex, Wipe, Recall, RecallOutside, Crash
    <2> QED
      BY <2>1, <2>2 DEF TypeOK, PoolTypes
  <1>4. CASE Start
    BY <1>4, StartFacts DEF TypeOK, ClientTypes, LoopTypes, TaskTypes, PoolTypes
  <1>5. ASSUME NEW t \in Task, RunTask(t) PROVE TypeOK' /\ IsFiniteSet(accepted)'
    BY <1>5, TaskTypeOK
  <1>6. CASE Signal \/ Shutdown
    BY <1>6 DEF Signal, Shutdown, StopLoop, DeleteDatabase, DestroyPool,
                Pool!Close, TypeOK, ClientTypes, LoopTypes, TaskTypes, PoolTypes
  <1>7. ASSUME NEW c \in Client, BrokenPipe(c)
        PROVE  TypeOK' /\ IsFiniteSet(accepted)'
    BY <1>7 DEF BrokenPipe, TypeOK, ClientTypes, LoopTypes, TaskTypes, PoolTypes
  <1>8. CASE SelectFails \/ DeleteHangs
    BY <1>8, NoneAssumption
       DEF SelectFails, DeleteHangs, TypeOK, ClientTypes, LoopTypes, TaskTypes,
           PoolTypes
  <1>9. ASSUME NEW c \in Client, LoopHangs(c)
        PROVE  TypeOK' /\ IsFiniteSet(accepted)'
    BY <1>9, NoneAssumption
       DEF LoopHangs, Continue, TypeOK, ClientTypes, LoopTypes, TaskTypes,
           PoolTypes
  <1>10. ASSUME NEW t \in Task, TaskHangs(t)
         PROVE  TypeOK' /\ IsFiniteSet(accepted)'
    BY <1>10 DEF TaskHangs, TypeOK, ClientTypes, LoopTypes, TaskTypes, PoolTypes
  <1> QED
    BY <1>1, <1>2, <1>3, <1>4, <1>5, <1>6, <1>7, <1>8, <1>9, <1>10
       DEF Next, Work, Hang

(* The types of the server: a task is busy exactly while it is between its *)
(* steps, and the accepted tasks are the lines each client has entered.    *)
THEOREM TypeCorrect == Spec => []TypeOK
  <1> DEFINE Inv == TypeOK /\ IsFiniteSet(accepted)
  <1>1. Inv /\ [Next]_vars => Inv'
    BY NextTypeOK
  <1> QED
    BY <1>1, InitTypeOK, PTL DEF Spec

-----------------------------------------------------------------------------
(* The patient clients.                                                    *)

(* The pool holds each task once: in its queue, busy, or done.             *)
TasksOnce ==
    /\ \A i, j \in DOMAIN queue : queue[i] = queue[j] => i = j
    /\ \A i \in DOMAIN queue : queue[i] \notin busy \cup done
    /\ busy \cap done = {}

(* A patient client has one task at a time, and none at its prompt.        *)
OneTask ==
    \A t \in Task : t[1] \in Patient /\ t \in accepted \ done =>
        t[2] = lines[t[1]] /\ t[1] \notin prompted

Arrivals ==
    \A c \in Patient : conn[c] = "new" => c \notin prompted /\ lines[c] = 0

(* What the task has read is still in the buffer when it is executed, and  *)
(* what was executed is in the history, but for the moment between.        *)
TaskCopies ==
    /\ \A t \in Task : t[1] \in Patient =>
          /\ at[t] = "process" => line[t] = buffer[t[1]] /\ line[t] # <<>>
          /\ at[t] = "remember" => executed[t[1]] = Append(history[t[1]], line[t])
          /\ at[t] = "prompt" => buffer[t[1]] = <<>>
    /\ \A c \in Patient :
          \/ executed[c] = history[c]
          \/ \E t \in Task : t[1] = c /\ at[t] = "remember"

IndexInRange ==
    \A c \in Patient : IF history[c] = <<>> THEN index[c] = -1
                                            ELSE index[c] \in 0..Len(history[c])

(* Where the arrow key about to move the index comes from, ...             *)
MayMove(c) ==
    \/ arrow = "up" /\ index[c] \in 1..Len(history[c])
    \/ arrow = "down" /\ index[c] \in 0..(Len(history[c]) - 2)
    \/ arrow = "end" /\ index[c] = Len(history[c]) - 1 /\ history[c] # <<>>

(* ... and where it has led.                                               *)
HasMoved(c) == IF arrow = "end" THEN loopAt = "wipe" ELSE InHistory(c)

(* While the loop serves a key of a patient client nobody else touches the *)
(* buffer, the history or the index of that client: what the loop has seen *)
(* of them is true when it uses it.                                        *)
LoopKnows ==
    who \in Patient =>
        /\ who \in prompted
        /\ loopAt \notin {"recv", "stuck"}
        /\ loopAt = "backRead" => buffer[who] # <<>>
        /\ loopAt = "backWipe" =>
              /\ buffer[who] # <<>>
              /\ text = SubSeq(buffer[who], 1, Len(buffer[who]) - 1)
        /\ loopAt \in {"retype", "recall"} => buffer[who] = <<>>
        /\ loopAt \in {"move", "set"} => MayMove(who)
        /\ loopAt = "set" => pos = index[who]
        /\ loopAt \in {"wipe", "recall"} => HasMoved(who)

(* The inductive invariant of the patient clients.                         *)
PatientInv ==
    /\ TasksOnce /\ OneTask /\ Arrivals /\ TaskCopies /\ IndexInRange
    /\ LoopKnows /\ PatientsAreSafe

(* A busy task of a patient client is its last one, and the client waits.  *)
LEMMA BusyTask ==
    ASSUME TypeOK, PatientInv, NEW t \in Task, at[t] # "idle", t[1] \in Patient
    PROVE  /\ t \in accepted /\ t \notin done /\ t[2] = lines[t[1]]
           /\ t[1] \notin prompted /\ who # t[1]
           /\ \A u \in Task : u[1] = t[1] /\ at[u] # "idle" => u = t
  <1>1. \A u \in Task : at[u] # "idle" => u \in accepted /\ u \notin done
    BY DEF TypeOK, PoolTypes, PatientInv, TasksOnce
  <1>2. \A u \in Task : u[1] \in Patient /\ at[u] # "idle" =>
            u[2] = lines[u[1]] /\ u[1] \notin prompted
    BY <1>1 DEF PatientInv, OneTask
  <1> QED
    BY <1>1, <1>2, TaskParts DEF PatientInv, LoopKnows

(* At its prompt no task of it is at work.                                 *)
LEMMA AtPrompt ==
    ASSUME TypeOK, PatientInv, NEW c \in Patient, c \in prompted
    PROVE  /\ \A t \in Task : t[1] = c => at[t] = "idle"
           /\ executed[c] = history[c]
  <1>1. \A t \in Task : t[1] = c => at[t] = "idle"
    BY BusyTask
  <1> QED
    BY <1>1 DEF PatientInv, TaskCopies

LEMMA InitPatientInv == Init => PatientInv
  BY NoneAssumption, PatientAssumption
     DEF Init, Pool!Init, PatientInv, TasksOnce, OneTask, Arrivals, TaskCopies,
         IndexInRange, LoopKnows, PatientsAreSafe

(* While the program runs it has not crashed.                              *)
LEMMA NotCrashed ==
    ASSUME crash' = None
    PROVE  PatientsAreSafe'
  BY NoneAssumption, PatientAssumption DEF PatientsAreSafe

(* The event loop between two clients, and connections.                    *)
LEMMA AcceptPatientInv ==
    ASSUME TypeOK, PatientInv, crash = None, NEW c \in Client,
           Accept(c) \/ Disconnect(c) \/ Ignore(c)
    PROVE  PatientInv'
  <1> USE DEF PatientInv, clientVars, loopVars, taskVars, mainVars, poolVars
  <1>1. /\ UNCHANGED <<buffer, history, index, lines, who, arrow, pos, text, at,
                       line, executed, main, crash, accepted, queue, busy, done>>
        /\ who = None
    BY DEF Accept, Disconnect, Ignore, Reads, Serves, TypeOK, LoopTypes
  <1>2. OneTask'
    <2>1. CASE Accept(c) /\ c \in Patient
      <3>1. \A t \in Task : t[1] = c => t \notin accepted
        BY <2>1, TaskParts, BoundAssumption
           DEF Accept, Arrivals, TypeOK, PoolTypes
      <3> QED
        BY <1>1, <2>1, <3>1 DEF Accept, OneTask
    <2>2. CASE Accept(c) /\ c \notin Patient
      BY <1>1, <2>2 DEF Accept, OneTask
    <2>3. CASE Disconnect(c) \/ Ignore(c)
      BY <2>3 DEF Disconnect, Ignore, OneTask
    <2> QED
      BY <2>1, <2>2, <2>3
  <1>3. Arrivals'
    BY <1>1, PatientAssumption
       DEF Accept, Disconnect, Ignore, Arrivals, TypeOK, ClientTypes
  <1>4. LoopKnows'
    BY <1>1, NoneAssumption, PatientAssumption DEF LoopKnows
  <1>5. TasksOnce' /\ TaskCopies' /\ IndexInRange' /\ PatientsAreSafe'
    BY <1>1, NotCrashed DEF TasksOnce, TaskCopies, IndexInRange
  <1> QED
    BY <1>2, <1>3, <1>4, <1>5

LEMMA TypePatientInv ==
    ASSUME TypeOK, PatientInv, crash = None, NEW c \in Client, Type(c)
    PROVE  PatientInv'
  <1> USE DEF PatientInv, clientVars, loopVars, taskVars, mainVars, poolVars
  <1>1. /\ UNCHANGED <<conn, prompted, history, index, lines, loopVars, at, line,
                       executed, main, crash, accepted, queue, busy, done>>
        /\ who = None
        /\ \A d \in Client \ {c} : buffer'[d] = buffer[d]
        /\ c \in Patient => c \in prompted
    BY DEF Type, Reads, Serves, AppendToBuffer, SetBuffer, TypeOK, ClientTypes,
           LoopTypes
  <1>2. \A t \in Task : t[1] \in Patient /\ t[1] = c => at[t] = "idle"
    BY <1>1, AtPrompt
  <1>3. TaskCopies'
    BY <1>1, <1>2, TaskParts DEF TaskCopies
  <1>4. LoopKnows'
    BY <1>1, NoneAssumption, PatientAssumption DEF LoopKnows
  <1>5. TasksOnce' /\ OneTask' /\ Arrivals' /\ IndexInRange' /\ PatientsAreSafe'
    BY <1>1, NotCrashed
       DEF TasksOnce, OneTask, Arrivals, IndexInRange
  <1> QED
    BY <1>3, <1>4, <1>5

LEMMA EnterPatientInv ==
    ASSUME TypeOK, PatientInv, crash = None, NEW c \in Client, Enter(c)
    PROVE  PatientInv'
  <1> USE DEF PatientInv, clientVars, loopVars, taskVars, mainVars, poolVars
  <1> DEFINE t == <<c, lines[c] + 1>>
  <1>1. /\ UNCHANGED <<conn, buffer, history, index, loopVars, at, line,
                       executed, main, crash, busy, done>>
        /\ who = None
        /\ c \in Patient => c \in prompted
        /\ conn[c] = "open"
        /\ accepted' = accepted \cup {t} /\ t \notin accepted
        /\ queue' = Append(queue, t)
        /\ prompted' = prompted \ {c}
    BY DEF Enter, Reads, Serves, Pool!Accept, TypeOK, LoopTypes
  <1>2. lines'[c] = lines[c] + 1 /\ \A d \in Client \ {c} : lines'[d] = lines[d]
    BY DEF Enter, TypeOK, ClientTypes
  <1>3. TasksOnce'
    <2>1. queue \in Seq(accepted) /\ busy \subseteq accepted /\ done \subseteq accepted
      BY DEF TypeOK, PoolTypes
    <2>2. /\ DOMAIN queue' = DOMAIN queue \cup {Len(queue) + 1}
          /\ \A i \in DOMAIN queue : queue'[i] = queue[i] /\ queue[i] \in accepted
          /\ queue'[Len(queue) + 1] = t
      BY <1>1, <2>1
    <2> QED
      BY <1>1, <2>1, <2>2 DEF TasksOnce
  <1>4. OneTask'
    <2> SUFFICES ASSUME NEW u \in Task, u[1] \in Patient,
                        u \in accepted' \ done'
                 PROVE  u[2] = lines'[u[1]] /\ u[1] \notin prompted'
      BY DEF OneTask
    <2>1. CASE u = t
      BY <1>1, <1>2, <2>1
    <2>2. CASE u # t
      <3>1. u \in accepted \ done
        BY <1>1, <2>2
      <3>2. u[2] = lines[u[1]] /\ u[1] \notin prompted
        BY <3>1 DEF OneTask
      <3>3. u[1] # c /\ u[1] \in Client
        BY <1>1, <3>2, TaskParts
      <3> QED
        BY <1>1, <1>2, <3>2, <3>3
    <2> QED
      BY <2>1, <2>2
  <1>5. Arrivals'
    BY <1>1, <1>2, PatientAssumption DEF Arrivals
  <1>6. LoopKnows'
    BY <1>1, NoneAssumption, PatientAssumption DEF LoopKnows
  <1>7. TaskCopies' /\ IndexInRange' /\ PatientsAreSafe'
    BY <1>1, NotCrashed DEF TaskCopies, IndexInRange
  <1> QED
    BY <1>3, <1>4, <1>5, <1>6, <1>7

(* Serving a key of client who, the loop changes nothing of another one,   *)
(* and nothing a task of client who could use.                             *)
LEMMA LoopFrame ==
    ASSUME TypeOK, PatientInv, crash = None, who \in Client,
           UNCHANGED <<conn, history, prompted, lines, taskVars, mainVars,
                       poolVars>>,
           \A d \in Client \ {who} : buffer'[d] = buffer[d] /\ index'[d] = index[d]
    PROVE  /\ TasksOnce' /\ OneTask' /\ Arrivals' /\ TaskCopies'
           /\ PatientsAreSafe'
           /\ index'[who] = index[who] => IndexInRange'
  <1> USE DEF PatientInv, taskVars, mainVars, poolVars
  <1>1. \A t \in Task : t[1] \in Patient /\ t[1] = who => at[t] = "idle"
    BY AtPrompt DEF LoopKnows
  <1>2. TaskCopies'
    BY <1>1, TaskParts DEF TaskCopies
  <1>3. TasksOnce' /\ OneTask' /\ Arrivals' /\ PatientsAreSafe'
    BY NotCrashed DEF TasksOnce, OneTask, Arrivals
  <1>4. index'[who] = index[who] => IndexInRange'
    BY PatientAssumption DEF IndexInRange
  <1> QED
    BY <1>2, <1>3, <1>4

(* A key that takes several steps is read.                                 *)
LEMMA KeyPatientInv ==
    ASSUME TypeOK, PatientInv, crash = None, NEW c \in Client,
           Backspace(c) \/ ArrowUp(c) \/ ArrowDown(c) \/ LoneEscape(c)
    PROVE  PatientInv'
  <1> USE DEF PatientInv, clientVars, loopVars, taskVars, mainVars, poolVars
  <1>1. /\ UNCHANGED <<clientVars, taskVars, mainVars, poolVars>>
        /\ who' = c
        /\ c \in Patient => c \in prompted
    BY DEF Backspace, ArrowUp, ArrowDown, LoneEscape, Reads, Serves, Continue
  <1>2. LoopKnows'
    <2> SUFFICES ASSUME c \in Patient PROVE LoopKnows'
      BY <1>1 DEF LoopKnows
    <2>1. /\ Len(history[c]) \in Nat /\ index[c] \in Int
          /\ history[c] # <<>> => index[c] \in 0..Len(history[c])
      BY PatientAssumption DEF TypeOK, ClientTypes, IndexInRange
    <2>2. CASE Backspace(c)
      BY <1>1, <2>2 DEF Backspace, Continue, LoopKnows
    <2>3. CASE ArrowUp(c)
      BY <1>1, <2>1, <2>3 DEF ArrowUp, Continue, LoopKnows, MayMove
    <2>4. CASE ArrowDown(c)
      BY <1>1, <2>1, <2>4 DEF ArrowDown, Continue, LoopKnows, MayMove
    <2>5. CASE LoneEscape(c)
      BY <2>5 DEF LoneEscape
    <2> QED
      BY <2>2, <2>3, <2>4, <2>5
  <1>3. /\ TasksOnce' /\ OneTask' /\ Arrivals' /\ TaskCopies' /\ IndexInRange'
        /\ PatientsAreSafe'
    BY <1>1, NotCrashed
       DEF TasksOnce, OneTask, Arrivals, TaskCopies, IndexInRange
  <1> QED
    BY <1>2, <1>3

(* The two steps that would end the program are not taken for a patient    *)
(* client.                                                                 *)
LEMMA LoopCrashes ==
    ASSUME TypeOK, PatientInv, crash = None, BackReadEmpty \/ RecallOutside
    PROVE  who \notin Patient /\ PatientInv'
  <1> USE DEF PatientInv, clientVars, loopVars, taskVars, mainVars, poolVars
  <1>1. who \notin Patient
    BY DEF BackReadEmpty, RecallOutside, LoopKnows, HasMoved
  <1>2. UNCHANGED <<clientVars, loopVars, taskVars, main, poolVars>> /\ crash' = who
    BY DEF BackReadEmpty, RecallOutside, Crash
  <1>3. LoopKnows'
    BY <1>2 DEF LoopKnows, MayMove, HasMoved, InHistory
  <1>4. /\ TasksOnce' /\ OneTask' /\ Arrivals' /\ TaskCopies' /\ IndexInRange'
        /\ PatientsAreSafe'
    BY <1>1, <1>2 DEF TasksOnce, OneTask, Arrivals, TaskCopies, IndexInRange,
                      PatientsAreSafe
  <1> QED
    BY <1>1, <1>3, <1>4

LEMMA LoopPatientInv ==
    ASSUME TypeOK, PatientInv, crash = None, HandleClient \/ Receive
    PROVE  PatientInv'
  <1> USE DEF PatientInv, clientVars, loopVars, taskVars, mainVars, poolVars,
              Continue, Return, SetBuffer, AppendToBuffer
  <1>1. CASE BackReadEmpty \/ RecallOutside
    BY <1>1, LoopCrashes
  <1> SUFFICES ASSUME \/ Receive \/ BackRead \/ Down \/ Move \/ SetIndex \/ Wipe
                      \/ Retype \/ Recall \/ Echo
               PROVE  PatientInv'
    BY <1>1 DEF HandleClient
  <1>2. /\ who \in Client
        /\ UNCHANGED <<conn, history, prompted, lines, taskVars, mainVars,
                       poolVars>>
        /\ \A d \in Client \ {who} : buffer'[d] = buffer[d] /\ index'[d] = index[d]
        /\ who' \in {who, None}
    BY DEF Receive, BackRead, Down, Move, SetIndex, Wipe, Retype, Recall, Echo,
           TypeOK, ClientTypes, LoopTypes
  <1>3. /\ TasksOnce' /\ OneTask' /\ Arrivals' /\ TaskCopies'
        /\ PatientsAreSafe'
        /\ index'[who] = index[who] => IndexInRange'
    BY <1>2, LoopFrame
  <1>4. /\ history[who] \in Seq(Line) /\ Len(history[who]) \in Nat
        /\ index[who] \in Int /\ buffer[who] \in Line
    BY <1>2 DEF TypeOK, ClientTypes
  <1>5. CASE Receive \/ Echo
    <2>1. UNCHANGED index /\ who' = None
      BY <1>5 DEF Receive, Echo
    <2> QED
      BY <1>3, <2>1, NoneAssumption, PatientAssumption DEF LoopKnows
  <1>11. CASE Retype \/ Recall
    <2>1. UNCHANGED <<index, prompted, who>> /\ loopAt' = "echo"
      BY <1>2, <1>11 DEF Retype, Recall
    <2> QED
      BY <1>3, <2>1 DEF PatientInv, LoopKnows
  <1>6. CASE BackRead
    <2>1. LoopKnows'
      BY <1>2, <1>6 DEF BackRead, LoopKnows
    <2> QED
      BY <1>3, <1>6, <2>1 DEF BackRead
  <1>7. CASE Down
    <2>1. LoopKnows'
      BY <1>2, <1>7, NoneAssumption, PatientAssumption
         DEF Down, LoopKnows, MayMove
    <2> QED
      BY <1>3, <1>7, <2>1 DEF Down
  <1>8. CASE Move
    <2>1. LoopKnows'
      BY <1>2, <1>8 DEF Move, LoopKnows, MayMove
    <2> QED
      BY <1>3, <1>8, <2>1 DEF Move
  <1>9. CASE SetIndex
    <2>1. /\ UNCHANGED <<history, prompted, who, arrow>> /\ loopAt' = "wipe"
          /\ index'[who] = pos + Delta
          /\ \A d \in Client \ {who} : index'[d] = index[d]
      BY <1>2, <1>9 DEF SetIndex, TypeOK, ClientTypes
    <2>2. ASSUME who \in Patient
          PROVE  /\ history[who] # <<>>
                 /\ index'[who] \in 0..Len(history[who])
                 /\ arrow # "end" => index'[who] \in 0..(Len(history[who]) - 1)
      BY <1>4, <1>9, <2>1, <2>2 DEF SetIndex, Delta, LoopKnows, MayMove
    <2>3. LoopKnows'
      BY <2>1, <2>2 DEF LoopKnows, HasMoved, InHistory
    <2>4. IndexInRange'
      BY <2>1, <2>2, PatientAssumption DEF IndexInRange
    <2> QED
      BY <1>3, <2>3, <2>4
  <1>10. CASE Wipe
    <2>1. buffer'[who] = <<>> /\ UNCHANGED <<history, index, prompted>>
      BY <1>2, <1>10 DEF Wipe, TypeOK, ClientTypes
    <2>2. LoopKnows'
      BY <1>2, <1>10, <2>1, NoneAssumption, PatientAssumption
         DEF Wipe, LoopKnows, HasMoved, InHistory
    <2> QED
      BY <1>3, <2>1, <2>2
  <1> QED
    BY <1>5, <1>6, <1>7, <1>8, <1>9, <1>10, <1>11

(* The pool takes the head of its queue.                                   *)
LEMMA StartPatientInv ==
    ASSUME TypeOK, PatientInv, crash = None, Start
    PROVE  PatientInv'
  <1> USE DEF PatientInv, clientVars, loopVars, taskVars, mainVars, poolVars
  <1> DEFINE h == queue[1]
  <1>1. /\ queue # <<>> /\ queue' = Tail(queue) /\ h \in accepted
        /\ at' = [at EXCEPT ![h] = "read"] /\ busy' = busy \cup {h}
        /\ UNCHANGED <<accepted, done, clientVars, loopVars, line, executed,
                       mainVars>>
    BY StartFacts
  <1>2. queue \in Seq(accepted) /\ 1 \in DOMAIN queue
    BY <1>1 DEF TypeOK, PoolTypes
  <1>3. h \notin busy \cup done /\ at[h] = "idle" /\ h \in Task
    BY <1>1, <1>2 DEF TasksOnce, TypeOK, PoolTypes
  <1>4. \A i \in DOMAIN queue' :
            i + 1 \in DOMAIN queue /\ i + 1 # 1 /\ queue'[i] = queue[i + 1]
    BY <1>1, <1>2
  <1>5. \A i, j \in DOMAIN queue' : queue'[i] = queue'[j] => i = j
    <2> TAKE i, j \in DOMAIN queue'
    <2>1. i \in Int /\ j \in Int
      BY <1>1, <1>2
    <2> QED
      BY <1>4, <2>1 DEF TasksOnce
  <1>6. TasksOnce'
    BY <1>1, <1>2, <1>3, <1>4, <1>5 DEF TasksOnce
  <1>7. \A t \in Task : at'[t] = IF t = h THEN "read" ELSE at[t]
    BY <1>1, <1>3 DEF TypeOK, TaskTypes
  <1>8. TaskCopies'
    BY <1>1, <1>3, <1>7 DEF TaskCopies
  <1>9. LoopKnows'
    BY <1>1 DEF LoopKnows, MayMove, HasMoved, InHistory
  <1>10. OneTask' /\ Arrivals' /\ IndexInRange' /\ PatientsAreSafe'
    BY <1>1, NotCrashed DEF OneTask, Arrivals, IndexInRange
  <1> QED
    BY <1>6, <1>8, <1>9, <1>10

(* A step of a task that does not end it changes only the client of the    *)
(* task.                                                                   *)
LEMMA TaskFrame ==
    ASSUME TypeOK, PatientInv, crash = None, NEW t \in Task, at[t] # "idle",
           UNCHANGED <<conn, prompted, lines, loopVars, mainVars, poolVars>>,
           \A c \in Client \ {t[1]} :
               /\ buffer'[c] = buffer[c] /\ history'[c] = history[c]
               /\ index'[c] = index[c]
    PROVE  /\ TasksOnce' /\ OneTask' /\ Arrivals' /\ LoopKnows'
           /\ PatientsAreSafe'
  <1> USE DEF PatientInv, loopVars, mainVars, poolVars
  <1>1. t[1] \in Patient => who # t[1]
    BY BusyTask
  <1>2. LoopKnows'
    <2> SUFFICES ASSUME who \in Patient PROVE LoopKnows'
      BY DEF LoopKnows
    <2>1. who \in Client \ {t[1]}
      BY <1>1, PatientAssumption
    <2>2. buffer'[who] = buffer[who] /\ history'[who] = history[who]
          /\ index'[who] = index[who]
      BY <2>1
    <2>3. (MayMove(who) => MayMove(who)') /\ (HasMoved(who) => HasMoved(who)')
      BY <2>2 DEF MayMove, HasMoved, InHistory
    <2> QED
      BY <2>2, <2>3 DEF LoopKnows
  <1> QED
    BY <1>2, NotCrashed DEF TasksOnce, OneTask, Arrivals

LEMMA TaskPatientInv ==
    ASSUME TypeOK, PatientInv, crash = None, NEW t \in Task,
           ReadLine(t) \/ Process(t) \/ Remember(t) \/ ClearBuffer(t)
    PROVE  PatientInv'
  <1> USE DEF clientVars, loopVars, taskVars, mainVars, poolVars, SetBuffer,
              GotoTask
  <1> DEFINE c == t[1]
  <1>1. c \in Client /\ at[t] # "idle"
    BY TaskParts DEF ReadLine, Process, Remember, ClearBuffer
  <1>2. /\ UNCHANGED <<conn, prompted, lines, loopVars, mainVars, poolVars>>
        /\ \A d \in Client \ {c} :
               /\ buffer'[d] = buffer[d] /\ history'[d] = history[d]
               /\ index'[d] = index[d] /\ executed'[d] = executed[d]
        /\ \A u \in Task \ {t} : at'[u] = at[u] /\ line'[u] = line[u]
    BY DEF ReadLine, Process, Remember, ClearBuffer, TypeOK, ClientTypes,
           TaskTypes
  <1>3. TasksOnce' /\ OneTask' /\ Arrivals' /\ LoopKnows' /\ PatientsAreSafe'
    BY <1>1, <1>2, TaskFrame
  <1>4. ASSUME c \in Patient
        PROVE  \A u \in Task \ {t} : u[1] = c => at[u] = "idle"
    BY <1>1, <1>4, BusyTask
  <1>5. IndexInRange'
    <2>1. CASE Remember(t)
      <3>1. /\ history'[c] = Append(history[c], line[t])
            /\ index'[c] = Len(history[c]) + 1
            /\ history[c] \in Seq(Line)
        BY <1>1, <2>1 DEF Remember, TypeOK, ClientTypes
      <3>2. history'[c] # <<>> /\ Len(history'[c]) = Len(history[c]) + 1
            /\ Len(history[c]) \in Nat
        BY <3>1
      <3> QED
        BY <1>2, <3>1, <3>2, PatientAssumption DEF IndexInRange, PatientInv
    <2>2. CASE ~Remember(t)
      BY <2>2 DEF ReadLine, Process, ClearBuffer, IndexInRange, PatientInv
    <2> QED
      BY <2>1, <2>2
  <1>6. ASSUME c \in Patient
        PROVE  /\ at'[t] = "process" => line'[t] = buffer'[c] /\ line'[t] # <<>>
               /\ at'[t] = "remember" => executed'[c] = Append(history'[c], line'[t])
               /\ at'[t] = "prompt" => buffer'[c] = <<>>
               /\ executed'[c] = history'[c] \/ at'[t] = "remember"
    <2>1. at[t] = "remember" \/ executed[c] = history[c]
      BY <1>4, <1>6 DEF PatientInv, TaskCopies
    <2>2. CASE ReadLine(t)
      BY <1>1, <2>1, <2>2 DEF ReadLine, TypeOK, TaskTypes
    <2>3. CASE Process(t)
      BY <1>1, <2>1, <2>3 DEF Process, TypeOK, TaskTypes
    <2>4. CASE Remember(t)
      <3>1. executed[c] = Append(history[c], line[t])
        BY <1>6, <2>4 DEF Remember, PatientInv, TaskCopies
      <3>2. at'[t] = "clear" /\ history'[c] = Append(history[c], line[t])
            /\ UNCHANGED executed
        BY <1>1, <2>4 DEF Remember, TypeOK, TaskTypes, ClientTypes
      <3> QED
        BY <3>1, <3>2
    <2>5. CASE ClearBuffer(t)
      BY <1>1, <2>1, <2>5 DEF ClearBuffer, TypeOK, TaskTypes, ClientTypes
    <2> QED
      BY <2>2, <2>3, <2>4, <2>5
  <1>7. ASSUME NEW u \in Task, u[1] \in Patient
        PROVE  /\ at'[u] = "process" =>
                     line'[u] = buffer'[u[1]] /\ line'[u] # <<>>
               /\ at'[u] = "remember" =>
                     executed'[u[1]] = Append(history'[u[1]], line'[u])
               /\ at'[u] = "prompt" => buffer'[u[1]] = <<>>
    <2>1. CASE u = t
      BY <1>6, <1>7, <2>1
    <2>2. CASE u # t /\ u[1] = c
      BY <1>2, <1>4, <1>7, <2>2
    <2>3. CASE u[1] # c
      <3>1. u[1] \in Client \ {c} /\ u \in Task \ {t}
        BY <2>3, TaskParts
      <3>2. /\ at'[u] = at[u] /\ line'[u] = line[u]
            /\ buffer'[u[1]] = buffer[u[1]] /\ history'[u[1]] = history[u[1]]
            /\ executed'[u[1]] = executed[u[1]]
        BY <1>2, <3>1
      <3>3. /\ at[u] = "process" => line[u] = buffer[u[1]] /\ line[u] # <<>>
            /\ at[u] = "remember" => executed[u[1]] = Append(history[u[1]], line[u])
            /\ at[u] = "prompt" => buffer[u[1]] = <<>>
        BY <1>7 DEF PatientInv, TaskCopies
      <3> QED
        BY <3>2, <3>3
    <2> QED
      BY <2>1, <2>2, <2>3
  <1>8. ASSUME NEW d \in Patient
        PROVE  \/ executed'[d] = history'[d]
               \/ \E u \in Task : u[1] = d /\ at'[u] = "remember"
    <2>1. CASE d = c
      BY <1>6, <2>1
    <2>2. CASE d # c
      <3>1. d \in Client \ {c}
        BY <2>2, PatientAssumption
      <3>2. \A u \in Task : u[1] = d => at'[u] = at[u]
        BY <1>2, <2>2
      <3> QED
        BY <1>2, <3>1, <3>2 DEF PatientInv, TaskCopies
    <2> QED
      BY <2>1, <2>2
  <1>9. TaskCopies'
    BY <1>7, <1>8 DEF TaskCopies
  <1> QED
    BY <1>3, <1>5, <1>9 DEF PatientInv

(* A task ends with a prompt.                                              *)
LEMMA PromptPatientInv ==
    ASSUME TypeOK, PatientInv, crash = None, NEW t \in Task, Prompt(t)
    PROVE  PatientInv'
  <1> USE DEF clientVars, loopVars, taskVars, mainVars, poolVars, GotoTask
  <1>1. /\ UNCHANGED <<conn, buffer, history, index, lines, loopVars, executed,
                       mainVars, accepted, queue>>
        /\ t \in busy
        /\ busy' = busy \ {t} /\ done' = done \cup {t}
        /\ prompted' = prompted \cup {t[1]}
        /\ at[t] = "prompt"
        /\ at' = [at EXCEPT ![t] = "idle"]
        /\ line' = [line EXCEPT ![t] = <<>>]
    BY DEF Prompt, Pool!End, TypeOK, PoolTypes
  <1>2. TasksOnce'
    BY <1>1 DEF TasksOnce, PatientInv
  <1>3. OneTask'
    <2> SUFFICES ASSUME NEW u \in Task, u[1] \in Patient, u \in accepted' \ done'
                 PROVE  u[2] = lines'[u[1]] /\ u[1] \notin prompted'
      BY DEF OneTask
    <2>1. u # t /\ u[2] = lines[u[1]] /\ u[1] \notin prompted
      BY <1>1 DEF OneTask, PatientInv
    <2>2. u[1] # t[1]
      BY <1>1, <2>1, BusyTask, TaskParts
    <2> QED
      BY <1>1, <2>1, <2>2
  <1>4. lines[t[1]] # 0
    BY <1>1, TaskParts, BoundAssumption DEF TypeOK, PoolTypes, ClientTypes
  <1>5. Arrivals'
    BY <1>1, <1>4 DEF Arrivals, PatientInv
  <1>6. TaskCopies'
    <2>1. \A u \in Task : at'[u] # "idle" => u # t /\ at'[u] = at[u] /\ line'[u] = line[u]
      BY <1>1 DEF TypeOK, TaskTypes
    <2>2. \A u \in Task : at[u] = "remember" => at'[u] = "remember"
      BY <1>1 DEF TypeOK, TaskTypes
    <2> QED
      BY <1>1, <2>1, <2>2 DEF TaskCopies, PatientInv
  <1>7. LoopKnows'
    BY <1>1 DEF LoopKnows, MayMove, HasMoved, InHistory, PatientInv
  <1>8. IndexInRange' /\ PatientsAreSafe'
    BY <1>1, NotCrashed DEF IndexInRange, PatientInv
  <1> QED
    BY <1>2, <1>3, <1>5, <1>6, <1>7, <1>8 DEF PatientInv

(* The program ends, by a broken pipe or by a command, is shut down, or    *)
(* some thread of it hangs.                                                *)
Ending ==
    \/ \E c \in Client : BrokenPipe(c) \/ LoopHangs(c)
    \/ \E t \in Task : ProcessCrashes(t) \/ TaskHangs(t)
    \/ Signal \/ Shutdown \/ SelectFails \/ DeleteHangs

LEMMA EndFrame ==
    ASSUME TypeOK, Ending
    PROVE  /\ UNCHANGED <<buffer, history, index, prompted, lines, arrow, pos,
                          text, taskVars, accepted, queue, busy, done>>
           /\ UNCHANGED <<who, loopAt>> \/ {who, who'} \cap Patient = {}
           /\ \A c \in Client : conn'[c] = "new" => conn[c] = "new"
  <1> USE DEF clientVars, loopVars, taskVars, mainVars, waitVars, poolVars
  <1>1. CASE \E c \in Client : BrokenPipe(c) \/ LoopHangs(c)
    BY <1>1, NoneAssumption, PatientAssumption
       DEF BrokenPipe, LoopHangs, Continue, Reads, Serves, TypeOK, ClientTypes,
           LoopTypes
  <1>2. CASE \E t \in Task : ProcessCrashes(t) \/ TaskHangs(t)
    BY <1>2 DEF ProcessCrashes, TaskHangs, Crash
  <1>3. CASE Signal \/ Shutdown \/ SelectFails \/ DeleteHangs
    BY <1>3, NoneAssumption, PatientAssumption
       DEF Signal, Shutdown, StopLoop, DeleteDatabase, DestroyPool,
           Pool!Close, SelectFails, DeleteHangs, TypeOK, LoopTypes
  <1> QED
    BY <1>1, <1>2, <1>3 DEF Ending

LEMMA EndPatientInv ==
    ASSUME TypeOK, PatientInv, crash = None, Ending
    PROVE  PatientInv'
  <1> USE DEF clientVars, loopVars, taskVars, mainVars, waitVars, poolVars
  <1>1. /\ UNCHANGED <<buffer, history, index, prompted, lines, arrow, pos, text,
                       taskVars, accepted, queue, busy, done>>
        /\ UNCHANGED <<who, loopAt>> \/ {who, who'} \cap Patient = {}
        /\ \A c \in Client : conn'[c] = "new" => conn[c] = "new"
    BY EndFrame
  <1>2. LoopKnows'
    <2>1. CASE UNCHANGED <<who, loopAt>>
      BY <1>1, <2>1 DEF LoopKnows, MayMove, HasMoved, InHistory, PatientInv
    <2>2. CASE {who, who'} \cap Patient = {}
      BY <2>2 DEF LoopKnows
    <2> QED
      BY <1>1, <2>1, <2>2
  <1>3. TasksOnce' /\ OneTask' /\ Arrivals' /\ TaskCopies' /\ IndexInRange'
    BY <1>1, PatientAssumption
       DEF TasksOnce, OneTask, Arrivals, TaskCopies, IndexInRange, PatientInv
  <1>4. PatientsAreSafe'
    <2>1. ASSUME NEW c \in Client, BrokenPipe(c) PROVE PatientsAreSafe'
      <3>1. crash' = c /\ conn' = [conn EXCEPT ![c] = "left"]
        BY <2>1 DEF BrokenPipe
      <3>2. conn'[crash'] = "left"
        BY <3>1 DEF TypeOK, ClientTypes
      <3> QED
        BY <3>2 DEF PatientsAreSafe
    <2>2. ASSUME NEW t \in Task, ProcessCrashes(t) PROVE PatientsAreSafe'
      BY <2>2 DEF ProcessCrashes, Crash, PatientsAreSafe
    <2>3. ASSUME \/ Signal \/ Shutdown \/ SelectFails \/ DeleteHangs
                 \/ \E c \in Client : LoopHangs(c)
                 \/ \E t \in Task : TaskHangs(t)
          PROVE  PatientsAreSafe'
      BY <2>3, NotCrashed
         DEF Signal, Shutdown, StopLoop, DeleteDatabase, DestroyPool,
             SelectFails, DeleteHangs, LoopHangs, TaskHangs
    <2> QED
      BY <2>1, <2>2, <2>3 DEF Ending
  <1> QED
    BY <1>2, <1>3, <1>4 DEF PatientInv

LEMMA NextPatientInv ==
    ASSUME TypeOK, PatientInv, [Next]_vars
    PROVE  PatientInv'
  <1>1. CASE UNCHANGED vars
    BY <1>1 DEF vars, clientVars, loopVars, taskVars, mainVars, poolVars,
                PatientInv, TasksOnce, OneTask, Arrivals, TaskCopies,
                IndexInRange, LoopKnows, MayMove, HasMoved, InHistory,
                PatientsAreSafe
  <1>2. CASE Next
    <2>1. crash = None
      BY <1>2 DEF Next
    <2>2. ASSUME NEW c \in Client, Input(c) PROVE PatientInv'
      BY <2>1, <2>2, AcceptPatientInv, TypePatientInv, EnterPatientInv,
         KeyPatientInv DEF Input
    <2>3. ASSUME NEW t \in Task, RunTask(t) PROVE PatientInv'
      BY <2>1, <2>3, TaskPatientInv, PromptPatientInv, EndPatientInv
         DEF RunTask, Ending
    <2>4. CASE HandleClient \/ Receive
      BY <2>1, <2>4, LoopPatientInv
    <2>5. CASE Start
      BY <2>1, <2>5, StartPatientInv
    <2>6. CASE Ending
      BY <2>1, <2>6, EndPatientInv
    <2> QED
      BY <1>2, <2>2, <2>3, <2>4, <2>5, <2>6 DEF Next, Work, Hang, Ending
  <1> QED
    BY <1>1, <1>2

(* What happens to the server, its types and what it knows of its patient  *)
(* clients.                                                                *)
LEMMA AllInv == Spec => [](TypeOK /\ PatientInv)
  <1> DEFINE Inv == TypeOK /\ IsFiniteSet(accepted) /\ PatientInv
  <1>1. Init => Inv
    BY InitTypeOK, InitPatientInv
  <1>2. Inv /\ [Next]_vars => Inv'
    BY NextTypeOK, NextPatientInv
  <1>3. Inv => TypeOK /\ PatientInv
    OBVIOUS
  <1> QED
    BY <1>1, <1>2, <1>3, PTL DEF Spec

(* A client that types only at a prompt never ends the program with a key: *)
(* no task touches its buffer, its history or its index between two steps  *)
(* of handleClient, so a backspace finds a character and an arrow key a    *)
(* line of the history.                                                    *)
THEOREM PatientsStaySafe == Spec => []PatientsAreSafe
  BY AllInv, PTL DEF PatientInv

-----------------------------------------------------------------------------
(* The server implements the terminal.                                     *)

(* A step changes nothing of what the terminal shows of client c.          *)
Same(c) ==
    /\ TerminalTurn(c)' = TerminalTurn(c)
    /\ TerminalLine(c)' = TerminalLine(c)
    /\ TerminalIndex(c)' = TerminalIndex(c)
    /\ executed'[c] = executed[c]

Others(c) == \A d \in Patient \ {c} : Same(d)

LEMMA Stutter ==
    ASSUME \A c \in Patient : Same(c)
    PROVE  UNCHANGED Abstract!vars
  <1>1. [c \in Patient |-> TerminalLine(c)]' = [c \in Patient |-> TerminalLine(c)]
    BY DEF Same
  <1>2. [c \in Patient |-> executed[c]]' = [c \in Patient |-> executed[c]]
    BY DEF Same
  <1>3. [c \in Patient |-> TerminalIndex(c)]' = [c \in Patient |-> TerminalIndex(c)]
    BY DEF Same
  <1>4. [c \in Patient |-> TerminalTurn(c)]' = [c \in Patient |-> TerminalTurn(c)]
    BY DEF Same
  <1> QED
    BY <1>1, <1>2, <1>3, <1>4 DEF Abstract!vars

(* One client changes: the four functions of the terminal.                 *)
LEMMA OneLine ==
    ASSUME NEW c \in Patient, Others(c), NEW x, TerminalLine(c)' = x
    PROVE  [d \in Patient |-> TerminalLine(d)]'
               = [[d \in Patient |-> TerminalLine(d)] EXCEPT ![c] = x]
  BY DEF Others, Same

LEMMA OneTurn ==
    ASSUME NEW c \in Patient, Others(c), NEW x, TerminalTurn(c)' = x
    PROVE  [d \in Patient |-> TerminalTurn(d)]'
               = [[d \in Patient |-> TerminalTurn(d)] EXCEPT ![c] = x]
  BY DEF Others, Same

LEMMA OneIndex ==
    ASSUME NEW c \in Patient, Others(c), NEW x, TerminalIndex(c)' = x
    PROVE  [d \in Patient |-> TerminalIndex(d)]'
               = [[d \in Patient |-> TerminalIndex(d)] EXCEPT ![c] = x]
  BY DEF Others, Same

LEMMA OneExecuted ==
    ASSUME NEW c \in Patient, Others(c), NEW x, executed'[c] = x
    PROVE  [d \in Patient |-> executed[d]]'
               = [[d \in Patient |-> executed[d]] EXCEPT ![c] = x]
  BY DEF Others, Same

LEMMA KeptTurn ==
    ASSUME NEW c \in Patient, Others(c), TerminalTurn(c)' = TerminalTurn(c)
    PROVE  [d \in Patient |-> TerminalTurn(d)]' = [d \in Patient |-> TerminalTurn(d)]
  BY DEF Others, Same

LEMMA KeptLine ==
    ASSUME NEW c \in Patient, Others(c), TerminalLine(c)' = TerminalLine(c)
    PROVE  [d \in Patient |-> TerminalLine(d)]' = [d \in Patient |-> TerminalLine(d)]
  BY DEF Others, Same

LEMMA KeptIndex ==
    ASSUME NEW c \in Patient, Others(c), TerminalIndex(c)' = TerminalIndex(c)
    PROVE  [d \in Patient |-> TerminalIndex(d)]' = [d \in Patient |-> TerminalIndex(d)]
  BY DEF Others, Same

LEMMA KeptExecuted ==
    ASSUME NEW c \in Patient, Others(c), executed'[c] = executed[c]
    PROVE  [d \in Patient |-> executed[d]]' = [d \in Patient |-> executed[d]]
  BY DEF Others, Same

(* A client edits its line.                                                *)
LEMMA Edits ==
    ASSUME NEW c \in Patient, Others(c), NEW x, TerminalLine(c)' = x,
           TerminalTurn(c) = "edit", TerminalTurn(c)' = "edit",
           executed'[c] = executed[c]
    PROVE  Abstract!Edit(c, x)
  <1>1. [d \in Patient |-> TerminalTurn(d)][c] = "edit"
    OBVIOUS
  <1>2. [d \in Patient |-> TerminalTurn(d)]' = [d \in Patient |-> TerminalTurn(d)]
    BY KeptTurn
  <1>3. [d \in Patient |-> executed[d]]' = [d \in Patient |-> executed[d]]
    BY KeptExecuted
  <1>4. [d \in Patient |-> TerminalLine(d)]'
            = [[d \in Patient |-> TerminalLine(d)] EXCEPT ![c] = x]
    BY OneLine
  <1> QED
    BY <1>1, <1>2, <1>3, <1>4 DEF Abstract!Edit

(* What the terminal shows of client d depends on d alone: on its own      *)
(* state, on the loop while it serves d, and on whether the last task of d *)
(* has executed its line, and remembered it.                               *)
LEMMA Frame ==
    ASSUME TypeOK, NEW d \in Patient,
           d \in prompted' <=> d \in prompted,
           lines'[d] = lines[d], buffer'[d] = buffer[d],
           history'[d] = history[d], index'[d] = index[d],
           executed'[d] = executed[d],
           \/ who # d /\ who' # d
           \/ UNCHANGED <<who, loopAt, arrow, text>>,
           <<d, lines[d]>> \in Task =>
               \/ at'[<<d, lines[d]>>] = at[<<d, lines[d]>>]
               \/ {at[<<d, lines[d]>>], at'[<<d, lines[d]>>]}
                      \subseteq {"idle", "read", "process"}
               \/ {at[<<d, lines[d]>>], at'[<<d, lines[d]>>]}
                      \subseteq {"clear", "prompt"}
    PROVE  Same(d)
  <1>1. lines[d] # 0 => <<d, lines[d]>> \in Task
    BY PatientAssumption, BoundAssumption DEF TypeOK, ClientTypes, Task
  <1>2. TerminalTurn(d)' = TerminalTurn(d)
    BY <1>1 DEF TerminalTurn, LastTask
  <1>3. TerminalTurn(d) = "answered" =>
            (LastTask(d)' = "remember" <=> LastTask(d) = "remember")
    BY <1>1 DEF TerminalTurn, LastTask
  <1>4. TerminalIndex(d)' = TerminalIndex(d)
    BY <1>2, <1>3 DEF TerminalIndex
  <1>5. TerminalLine(d)' = TerminalLine(d)
    BY <1>2 DEF TerminalLine
  <1> QED
    BY <1>2, <1>4, <1>5 DEF Same

(* A patient client between its prompt and its newline.                    *)
LEMMA ShowsEdit ==
    ASSUME TypeOK, PatientInv, NEW c \in Patient, c \in prompted
    PROVE  /\ TerminalTurn(c) = "edit" /\ TerminalIndex(c) = index[c]
           /\ who # c => TerminalLine(c) = buffer[c]
           /\ executed[c] = history[c]
  BY AtPrompt DEF TerminalTurn, TerminalIndex, TerminalLine

(* A patient client while its last task is at work.                        *)
LEMMA ShowsTask ==
    ASSUME TypeOK, PatientInv, NEW t \in Task, t[1] \in Patient, at[t] # "idle"
    PROVE  /\ t = <<t[1], lines[t[1]]>> /\ LastTask(t[1]) = at[t]
           /\ who # t[1] /\ t[1] \notin prompted
           /\ IF at[t] \in {"remember", "clear", "prompt"}
              THEN /\ TerminalTurn(t[1]) = "answered"
                   /\ TerminalLine(t[1]) = <<>>
              ELSE /\ TerminalTurn(t[1]) = "entered"
                   /\ TerminalLine(t[1]) = buffer[t[1]]
           /\ TerminalIndex(t[1]) =
                  IF at[t] = "remember" THEN Len(executed[t[1]]) ELSE index[t[1]]
  <1>1. t[2] = lines[t[1]] /\ t[1] \notin prompted /\ who # t[1]
    BY BusyTask
  <1>2. t = <<t[1], lines[t[1]]>> /\ lines[t[1]] # 0
    BY <1>1, TaskParts, BoundAssumption
  <1>3. LastTask(t[1]) = at[t]
    BY <1>2 DEF LastTask
  <1> QED
    BY <1>1, <1>2, <1>3 DEF TerminalTurn, TerminalLine, TerminalIndex

LEMMA AcceptShows ==
    ASSUME TypeOK, PatientInv, NEW c \in Client, Accept(c)
    PROVE  [Abstract!Next]_Abstract!vars
  <1> USE DEF clientVars, loopVars, taskVars, mainVars, poolVars
  <1>1. /\ UNCHANGED <<buffer, history, index, lines, who, taskVars>>
        /\ prompted' = prompted \cup {c} /\ conn[c] = "new"
        /\ who = None
    BY DEF Accept, TypeOK, LoopTypes
  <1>2. \A d \in Patient \ {c} : Same(d)
    BY <1>1, Frame, NoneAssumption, PatientAssumption
  <1>3. CASE c \in Patient
    <2>1. /\ TerminalTurn(c) = "away" /\ TerminalTurn(c)' = "edit"
      BY <1>1, <1>3 DEF TerminalTurn, PatientInv, Arrivals
    <2>2. TerminalLine(c)' = TerminalLine(c) /\ TerminalIndex(c)' = TerminalIndex(c)
      BY <1>1, <1>3, <2>1, NoneAssumption DEF TerminalLine, TerminalIndex
    <2>3. Others(c) /\ executed'[c] = executed[c]
      BY <1>1, <1>2 DEF Others
    <2>4. Abstract!Prompt(c)
      BY <1>3, <2>1, <2>2, <2>3, OneTurn, KeptLine, KeptIndex, KeptExecuted
         DEF Abstract!Prompt, Abstract!Pass
    <2> QED
      BY <1>3, <2>4 DEF Abstract!Next
  <1>4. CASE c \notin Patient
    BY <1>2, <1>4, Stutter
  <1> QED
    BY <1>3, <1>4

LEMMA TypeShows ==
    ASSUME TypeOK, PatientInv, NEW c \in Client, Type(c)
    PROVE  [Abstract!Next]_Abstract!vars
  <1> USE DEF clientVars, loopVars, taskVars, mainVars, poolVars
  <1>1. /\ UNCHANGED <<history, index, prompted, lines, loopVars, taskVars>>
        /\ who = None
        /\ c \in Patient => c \in prompted
    BY DEF Type, Reads, Serves, TypeOK, LoopTypes
  <1>2. PICK ch \in Char : buffer' = [buffer EXCEPT ![c] = buffer[c] \o <<ch>>]
    BY DEF Type, AppendToBuffer, SetBuffer
  <1>3. /\ \A d \in Client \ {c} : buffer'[d] = buffer[d]
        /\ buffer'[c] = buffer[c] \o <<ch>>
        /\ buffer[c] \in Seq(Char)
    BY <1>2 DEF TypeOK, ClientTypes, Line
  <1>4. \A d \in Patient \ {c} : Same(d)
    BY <1>1, <1>3, Frame, PatientAssumption
  <1>5. CASE c \in Patient
    <2>1. /\ TerminalTurn(c) = "edit" /\ TerminalTurn(c)' = TerminalTurn(c)
          /\ TerminalIndex(c)' = TerminalIndex(c)
          /\ TerminalLine(c) = buffer[c] /\ TerminalLine(c)' = buffer'[c]
      BY <1>1, <1>5, NoneAssumption
         DEF TerminalTurn, TerminalIndex, TerminalLine
    <2>2. Others(c) /\ executed'[c] = executed[c]
      BY <1>1, <1>4 DEF Others
    <2>3. TerminalLine(c)' = Append(TerminalLine(c), ch)
      BY <1>3, <2>1
    <2>4. Abstract!Type(c)
      BY <1>5, <2>1, <2>2, <2>3, OneLine, KeptTurn, KeptIndex, KeptExecuted
         DEF Abstract!Type, Abstract!Edit
    <2> QED
      BY <1>5, <2>4 DEF Abstract!Next
  <1>6. CASE c \notin Patient
    BY <1>4, <1>6, Stutter
  <1> QED
    BY <1>5, <1>6

LEMMA EnterShows ==
    ASSUME TypeOK, PatientInv, TypeOK', NEW c \in Client, Enter(c)
    PROVE  [Abstract!Next]_Abstract!vars
  <1> USE DEF clientVars, loopVars, taskVars, mainVars, poolVars
  <1> DEFINE t == <<c, lines[c] + 1>>
  <1>1. /\ UNCHANGED <<buffer, history, index, loopVars, taskVars>>
        /\ who = None /\ t \notin accepted
        /\ c \in Patient => c \in prompted
        /\ prompted' = prompted \ {c}
        /\ lines'[c] = lines[c] + 1
        /\ \A d \in Client \ {c} : lines'[d] = lines[d]
    BY DEF Enter, Reads, Serves, Pool!Accept, TypeOK, LoopTypes, ClientTypes
  <1>2. \A d \in Patient \ {c} : Same(d)
    BY <1>1, Frame, PatientAssumption
  <1>3. lines[c] \in 0..MaxLines /\ lines'[c] \in 0..MaxLines
    BY DEF TypeOK, ClientTypes
  <1>4. t \in Task
    BY <1>1, <1>3, BoundAssumption DEF Task
  <1>5. at[t] = "idle"
    BY <1>1, <1>4 DEF TypeOK, PoolTypes
  <1>6. CASE c \in Patient
    <2>1. LastTask(c)' = "idle" /\ lines'[c] # 0
      BY <1>1, <1>3, <1>5, BoundAssumption DEF LastTask
    <2>2. TerminalTurn(c) = "edit" /\ TerminalTurn(c)' = "entered"
      BY <1>1, <1>6, <2>1 DEF TerminalTurn
    <2>3. TerminalLine(c)' = TerminalLine(c) /\ TerminalIndex(c)' = TerminalIndex(c)
      BY <1>1, <1>6, <2>2, NoneAssumption DEF TerminalLine, TerminalIndex
    <2>4. Others(c) /\ executed'[c] = executed[c]
      BY <1>1, <1>2 DEF Others
    <2>5. Abstract!Enter(c)
      BY <1>6, <2>2, <2>3, <2>4, OneTurn, KeptLine, KeptIndex, KeptExecuted
         DEF Abstract!Enter, Abstract!Pass
    <2> QED
      BY <1>6, <2>5 DEF Abstract!Next
  <1>7. CASE c \notin Patient
    BY <1>2, <1>7, Stutter
  <1> QED
    BY <1>6, <1>7

(* A key that takes several steps shows nothing yet.                       *)
LEMMA KeyShows ==
    ASSUME TypeOK, PatientInv, NEW c \in Client,
           \/ Disconnect(c) \/ Ignore(c) \/ Backspace(c) \/ ArrowUp(c)
           \/ ArrowDown(c) \/ LoneEscape(c)
    PROVE  UNCHANGED Abstract!vars
  <1> USE DEF clientVars, loopVars, taskVars, mainVars, poolVars
  <1>1. /\ UNCHANGED <<buffer, history, index, prompted, lines, taskVars>>
        /\ who = None
        /\ \/ UNCHANGED loopVars
           \/ who' = c /\ loopAt' \in {"backRead", "move", "down", "recv"}
    BY DEF Disconnect, Ignore, Backspace, ArrowUp, ArrowDown, LoneEscape,
           Continue, Reads, Serves, TypeOK, LoopTypes
  <1>2. \A d \in Patient \ {c} : Same(d)
    BY <1>1, Frame, NoneAssumption, PatientAssumption
  <1>3. CASE UNCHANGED loopVars
    BY <1>1, <1>3, Frame, Stutter
  <1>4. CASE who' = c /\ loopAt' \in {"backRead", "move", "down", "recv"}
    <2>1. TerminalTurn(c)' = TerminalTurn(c)
      BY <1>1 DEF TerminalTurn, LastTask
    <2>2. TerminalIndex(c)' = TerminalIndex(c)
      BY <1>1, <2>1 DEF TerminalIndex, LastTask
    <2>3. TerminalLine(c)' = TerminalLine(c)
      BY <1>1, <1>4, <2>1, NoneAssumption DEF TerminalLine
    <2> QED
      BY <1>1, <1>2, <2>1, <2>2, <2>3, Stutter DEF Same
  <1> QED
    BY <1>1, <1>3, <1>4

(* A step of the loop for patient client c: the turn stays with c, and of  *)
(* the other clients nothing changes.                                      *)
LEMMA LoopOthers ==
    ASSUME TypeOK, PatientInv, crash = None, HandleClient \/ Receive,
           NEW c \in Client, who = c
    PROVE  /\ UNCHANGED <<prompted, lines, history, taskVars>>
           /\ who' \in {c, None}
           /\ \A d \in Patient \ {c} : Same(d)
           /\ c \in Patient =>
                 /\ executed[c] = history[c]
                 /\ TerminalTurn(c) = "edit" /\ TerminalTurn(c)' = "edit"
                 /\ TerminalIndex(c) = index[c] /\ TerminalIndex(c)' = index'[c]
  <1> USE DEF clientVars, loopVars, taskVars, mainVars, poolVars, Continue,
              Return, SetBuffer, AppendToBuffer
  <1>1. /\ UNCHANGED <<prompted, lines, history, taskVars>>
        /\ who' \in {c, None}
        /\ \A d \in Client \ {c} : buffer'[d] = buffer[d] /\ index'[d] = index[d]
    BY DEF HandleClient, Receive, BackRead, BackReadEmpty, Down, Move, SetIndex,
           Wipe, Retype, Recall, RecallOutside, Echo, Crash, TypeOK,
           ClientTypes, LoopTypes
  <1>2. ASSUME NEW d \in Patient \ {c} PROVE Same(d)
    BY <1>1, Frame, NoneAssumption, PatientAssumption
  <1>3. ASSUME c \in Patient
        PROVE  /\ c \in prompted /\ c \in prompted'
               /\ executed[c] = history[c]
    BY <1>1, <1>3, AtPrompt DEF PatientInv, LoopKnows
  <1>4. ASSUME c \in Patient
        PROVE  /\ TerminalTurn(c) = "edit" /\ TerminalTurn(c)' = "edit"
               /\ TerminalIndex(c) = index[c] /\ TerminalIndex(c)' = index'[c]
    BY <1>3, <1>4 DEF TerminalTurn, TerminalIndex
  <1> QED
    BY <1>1, <1>2, <1>3, <1>4

(* The steps of a key that the terminal does not show: all but the one     *)
(* that moves the index and the one that empties the buffer.               *)
LEMMA QuietLoop ==
    ASSUME TypeOK, PatientInv, crash = None, NEW c \in Patient, who = c,
           HandleClient \/ Receive,
           \/ Receive \/ BackRead \/ Down \/ Move \/ Retype \/ Recall \/ Echo
    PROVE  UNCHANGED Abstract!vars
  <1> USE DEF clientVars, loopVars, taskVars, mainVars, poolVars, Continue,
              Return, SetBuffer, AppendToBuffer
  <1>1. c \in Client /\ UNCHANGED <<index, taskVars>>
    BY PatientAssumption
       DEF Receive, BackRead, Down, Move, Retype, Recall, Echo
  <1>2. /\ UNCHANGED <<prompted, lines, history, taskVars>>
        /\ who' \in {c, None}
        /\ \A d \in Patient \ {c} : Same(d)
        /\ TerminalTurn(c) = "edit" /\ TerminalTurn(c)' = "edit"
        /\ TerminalIndex(c) = index[c] /\ TerminalIndex(c)' = index'[c]
    BY <1>1, LoopOthers
  <1>3. TerminalLine(c)' = TerminalLine(c)
    <2>1. CASE Receive \/ BackRead \/ Down \/ Move \/ Echo
      <3>1. /\ UNCHANGED buffer
            /\ loopAt \notin {"retype", "wipe", "recall"}
            /\ who' = c => loopAt' \notin {"retype", "wipe", "recall"}
        BY <2>1, NoneAssumption, PatientAssumption
           DEF Receive, BackRead, Down, Move, Echo
      <3> QED
        BY <1>2, <3>1 DEF TerminalLine
    <2>2. CASE Retype
      <3>1. /\ loopAt = "retype" /\ buffer[c] = <<>> /\ text \in Seq(Char)
            /\ buffer'[c] = buffer[c] \o text /\ loopAt' = "echo"
        BY <1>1, <2>2
           DEF Retype, PatientInv, LoopKnows, TypeOK, ClientTypes, LoopTypes, Line
      <3>2. buffer'[c] = text
        BY <3>1
      <3> QED
        BY <1>1, <1>2, <3>1, <3>2 DEF TerminalLine
    <2>3. CASE Recall
      <3>1. /\ loopAt = "recall" /\ buffer[c] = <<>> /\ arrow # "end"
            /\ InHistory(c)
            /\ buffer'[c] = buffer[c] \o history[c][index[c] + 1]
            /\ loopAt' = "echo"
        BY <1>1, <2>3
           DEF Recall, PatientInv, LoopKnows, HasMoved, TypeOK, ClientTypes
      <3>2. history[c][index[c] + 1] \in Seq(Char)
        BY <1>1, <3>1 DEF InHistory, TypeOK, ClientTypes, Line
      <3>3. buffer'[c] = history[c][index[c] + 1]
        BY <3>1, <3>2
      <3> QED
        BY <1>1, <1>2, <3>1, <3>3 DEF TerminalLine
    <2> QED
      BY <2>1, <2>2, <2>3
  <1> QED
    BY <1>1, <1>2, <1>3, Stutter DEF Same

LEMMA SetIndexShows ==
    ASSUME TypeOK, PatientInv, crash = None, NEW c \in Patient, who = c, SetIndex,
           HandleClient
    PROVE  [Abstract!Next]_Abstract!vars
  <1> USE DEF clientVars, loopVars, taskVars, mainVars, poolVars
  <1>1. /\ c \in Client
        /\ loopAt = "set" /\ pos = index[c] /\ MayMove(c)
        /\ index'[c] = pos + Delta
        /\ loopAt' = "wipe" /\ UNCHANGED <<who, arrow, buffer>>
    BY PatientAssumption
       DEF SetIndex, PatientInv, LoopKnows, TypeOK, ClientTypes
  <1>2. /\ UNCHANGED <<prompted, lines, history, taskVars>>
        /\ \A d \in Patient \ {c} : Same(d)
        /\ executed[c] = history[c]
        /\ TerminalTurn(c) = "edit" /\ TerminalTurn(c)' = "edit"
        /\ TerminalIndex(c) = index[c] /\ TerminalIndex(c)' = index'[c]
    BY <1>1, LoopOthers
  <1>3. Others(c)
    BY <1>2 DEF Others
  <1>4. executed'[c] = executed[c]
    BY <1>2
  <1>5. Len(history[c]) \in Nat /\ index[c] \in Int
    BY <1>1 DEF TypeOK, ClientTypes
  <1>6. CASE arrow = "end"
    <2>1. /\ history[c] # <<>> /\ index[c] = Len(history[c]) - 1
          /\ index'[c] = Len(history[c])
      BY <1>1, <1>5, <1>6 DEF MayMove, Delta
    <2>2. TerminalLine(c)' = <<>>
      BY <1>1, <1>2, <1>6 DEF TerminalLine
    <2>3. Abstract!Edit(c, <<>>)
      BY <1>2, <1>3, <1>4, <2>2, Edits
    <2>4. [d \in Patient |-> TerminalIndex(d)]'
              = [[d \in Patient |-> TerminalIndex(d)] EXCEPT
                     ![c] = Len(history[c])]
      BY <1>2, <1>3, <2>1, OneIndex
    <2>5. Abstract!LeaveHistory(c)
      BY <1>2, <2>1, <2>3, <2>4 DEF Abstract!LeaveHistory
    <2> QED
      BY <2>5 DEF Abstract!Next
  <1>7. CASE arrow # "end"
    <2>1. /\ index'[c] \in {index[c] - 1, index[c] + 1}
          /\ index'[c] \in 0..(Len(history[c]) - 1)
      BY <1>1, <1>5, <1>7 DEF MayMove, Delta
    <2>2. TerminalLine(c)' = history[c][index'[c] + 1]
      BY <1>1, <1>2, <1>7 DEF TerminalLine
    <2>3. Abstract!Edit(c, history[c][index'[c] + 1])
      BY <1>2, <1>3, <1>4, <2>2, Edits
    <2>4. [d \in Patient |-> TerminalIndex(d)]'
              = [[d \in Patient |-> TerminalIndex(d)] EXCEPT ![c] = index'[c]]
      BY <1>2, <1>3, OneIndex
    <2>5. Abstract!Recall(c)
      BY <1>2, <2>1, <2>3, <2>4 DEF Abstract!Recall
    <2> QED
      BY <2>5 DEF Abstract!Next
  <1> QED
    BY <1>6, <1>7

LEMMA WipeShows ==
    ASSUME TypeOK, PatientInv, crash = None, NEW c \in Patient, who = c, Wipe,
           HandleClient
    PROVE  [Abstract!Next]_Abstract!vars
  <1> USE DEF clientVars, loopVars, taskVars, mainVars, poolVars, Continue,
              Return, SetBuffer
  <1>1. /\ c \in Client
        /\ buffer'[c] = <<>> /\ UNCHANGED index
        /\ loopAt \in {"backWipe", "wipe"}
    BY PatientAssumption DEF Wipe, TypeOK, ClientTypes
  <1>2. /\ UNCHANGED <<prompted, lines, history, taskVars>>
        /\ \A d \in Patient \ {c} : Same(d)
        /\ executed[c] = history[c]
        /\ TerminalTurn(c) = "edit" /\ TerminalTurn(c)' = "edit"
        /\ TerminalIndex(c) = index[c] /\ TerminalIndex(c)' = index'[c]
    BY <1>1, LoopOthers
  <1>3. Others(c) /\ executed'[c] = executed[c]
    BY <1>2 DEF Others
  <1>4. CASE loopAt = "backWipe"
    <2>1. /\ buffer[c] # <<>>
          /\ text = SubSeq(buffer[c], 1, Len(buffer[c]) - 1)
          /\ loopAt' = "retype" /\ who' = c /\ text' = text
      BY <1>4 DEF Wipe, PatientInv, LoopKnows
    <2>2. TerminalLine(c) = buffer[c] /\ TerminalLine(c)' = text
      BY <1>2, <1>4, <2>1 DEF TerminalLine
    <2>3. Abstract!Edit(c, text)
      BY <1>2, <1>3, <2>2, Edits
    <2>4. [d \in Patient |-> TerminalIndex(d)]' = [d \in Patient |-> TerminalIndex(d)]
      BY <1>1, <1>2, <1>3, KeptIndex
    <2>5. Abstract!Erase(c)
      BY <2>1, <2>2, <2>3, <2>4 DEF Abstract!Erase
    <2> QED
      BY <2>5 DEF Abstract!Next
  <1>5. CASE loopAt = "wipe"
    <2>1. /\ loopAt' = IF arrow = "end" THEN "echo" ELSE "recall"
          /\ who' = c /\ arrow' = arrow
      BY <1>5 DEF Wipe
    <2>2. TerminalLine(c)' = TerminalLine(c)
      BY <1>1, <1>2, <1>5, <2>1 DEF TerminalLine
    <2> QED
      BY <1>1, <1>2, <1>3, <2>2, Stutter DEF Same
  <1> QED
    BY <1>1, <1>4, <1>5

LEMMA LoopShows ==
    ASSUME TypeOK, PatientInv, crash = None, HandleClient \/ Receive
    PROVE  [Abstract!Next]_Abstract!vars
  <1>1. who \in Client
    BY DEF HandleClient, Receive, BackRead, BackReadEmpty, Down, Move, SetIndex,
           Wipe, Retype, Recall, RecallOutside, Echo, TypeOK, LoopTypes
  <1>2. CASE who \notin Patient
    BY <1>1, <1>2, LoopOthers, Stutter
  <1>3. CASE who \in Patient
    BY <1>3, QuietLoop, SetIndexShows, WipeShows, LoopCrashes DEF HandleClient
  <1> QED
    BY <1>2, <1>3

LEMMA StartShows ==
    ASSUME TypeOK, PatientInv, Start
    PROVE  UNCHANGED Abstract!vars
  <1> USE DEF clientVars, loopVars, taskVars, mainVars, poolVars
  <1>1. /\ UNCHANGED <<clientVars, loopVars, executed>>
        /\ at' = [at EXCEPT ![queue[1]] = "read"]
        /\ queue \in Seq(accepted) /\ queue # <<>> /\ queue[1] \in accepted
    BY StartFacts DEF TypeOK, PoolTypes
  <1>2. at[queue[1]] = "idle"
    BY <1>1 DEF TypeOK, PoolTypes, PatientInv, TasksOnce
  <1>3. \A t \in Task :
            at'[t] = at[t] \/ {at[t], at'[t]} \subseteq {"idle", "read", "process"}
    BY <1>1, <1>2 DEF TypeOK, TaskTypes
  <1> QED
    BY <1>1, <1>3, Frame, Stutter

(* A step of a task shows nothing of the clients of other tasks.           *)
LEMMA TaskOthers ==
    ASSUME TypeOK, PatientInv, NEW t \in Task,
           ReadLine(t) \/ Process(t) \/ Remember(t) \/ ClearBuffer(t) \/ Prompt(t)
    PROVE  /\ UNCHANGED <<lines, loopVars>>
           /\ \A d \in Patient \ {t[1]} : Same(d)
           /\ t[1] \in Patient =>
                 /\ at[t] # "idle" /\ t = <<t[1], lines[t[1]]>>
                 /\ LastTask(t[1]) = at[t] /\ LastTask(t[1])' = at'[t]
                 /\ who # t[1] /\ t[1] \notin prompted /\ lines[t[1]] # 0
  <1> USE DEF clientVars, loopVars, taskVars, mainVars, poolVars, SetBuffer,
              GotoTask
  <1> DEFINE c == t[1]
  <1>1. c \in Client /\ at[t] # "idle"
    BY TaskParts DEF ReadLine, Process, Remember, ClearBuffer, Prompt
  <1>2. /\ UNCHANGED <<lines, loopVars>>
        /\ \A d \in Client \ {c} :
               /\ buffer'[d] = buffer[d] /\ history'[d] = history[d]
               /\ index'[d] = index[d] /\ executed'[d] = executed[d]
               /\ d \in prompted' <=> d \in prompted
        /\ \A u \in Task \ {t} : at'[u] = at[u]
    BY DEF ReadLine, Process, Remember, ClearBuffer, Prompt, TypeOK,
           ClientTypes, TaskTypes
  <1>3. ASSUME NEW d \in Patient \ {c} PROVE Same(d)
    <2>1. <<d, lines[d]>> \in Task => at'[<<d, lines[d]>>] = at[<<d, lines[d]>>]
      BY <1>2
    <2> QED
      BY <1>2, <2>1, Frame, PatientAssumption
  <1>4. ASSUME c \in Patient
        PROVE  /\ t = <<c, lines[c]>> /\ LastTask(c) = at[t]
               /\ LastTask(c)' = at'[t]
               /\ who # c /\ c \notin prompted /\ lines[c] # 0
    <2>1. t = <<c, lines[c]>> /\ LastTask(c) = at[t] /\ who # c /\ c \notin prompted
      BY <1>1, <1>4, ShowsTask
    <2>2. lines[c] # 0
      BY <2>1, TaskParts, BoundAssumption
    <2> QED
      BY <1>2, <2>1, <2>2 DEF LastTask
  <1> QED
    BY <1>1, <1>2, <1>3, <1>4

(* ReadLine takes an empty line for executed; the next steps of a task are *)
(* not shown.                                                              *)
LEMMA ReadLineShows ==
    ASSUME TypeOK, PatientInv, NEW t \in Task, t[1] \in Patient, ReadLine(t)
    PROVE  [Abstract!Next]_Abstract!vars
  <1> USE DEF clientVars, loopVars, taskVars, mainVars, poolVars, GotoTask
  <1> DEFINE c == t[1]
  <1>1. /\ at[t] = "read" /\ c \in Client
        /\ at'[t] = IF buffer[c] = <<>> THEN "clear" ELSE "process"
        /\ UNCHANGED <<clientVars, executed>>
    BY TaskParts DEF ReadLine, TypeOK, TaskTypes
  <1>2. /\ UNCHANGED <<lines, loopVars>>
        /\ \A d \in Patient \ {c} : Same(d)
        /\ LastTask(c)' = at'[t] /\ who # c /\ c \notin prompted /\ lines[c] # 0
    BY TaskOthers
  <1>3. /\ TerminalTurn(c) = "entered" /\ TerminalLine(c) = buffer[c]
        /\ TerminalIndex(c) = index[c]
    BY <1>1, ShowsTask
  <1>4. TerminalIndex(c)' = TerminalIndex(c)
    BY <1>1, <1>2, <1>3 DEF TerminalIndex
  <1>5. Others(c) /\ executed'[c] = executed[c]
    BY <1>1, <1>2 DEF Others
  <1>6. CASE buffer[c] = <<>>
    <2>1. TerminalTurn(c)' = "answered" /\ TerminalLine(c)' = <<>>
      BY <1>1, <1>2, <1>6 DEF TerminalTurn, TerminalLine
    <2>2. [d \in Patient |-> TerminalLine(d)]'
              = [[d \in Patient |-> TerminalLine(d)] EXCEPT ![c] = <<>>]
      BY <1>5, <2>1, OneLine
    <2>3. [d \in Patient |-> TerminalTurn(d)]'
              = [[d \in Patient |-> TerminalTurn(d)] EXCEPT ![c] = "answered"]
      BY <1>5, <2>1, OneTurn
    <2>4. /\ [d \in Patient |-> TerminalIndex(d)]' = [d \in Patient |-> TerminalIndex(d)]
          /\ [d \in Patient |-> executed[d]]' = [d \in Patient |-> executed[d]]
      BY <1>4, <1>5, KeptIndex, KeptExecuted
    <2>5. Abstract!Execute(c)
      BY <1>3, <1>6, <2>2, <2>3, <2>4 DEF Abstract!Execute, Abstract!Pass
    <2> QED
      BY <2>5 DEF Abstract!Next
  <1>7. CASE buffer[c] # <<>>
    <2>1. TerminalTurn(c)' = "entered"
      BY <1>1, <1>2, <1>7 DEF TerminalTurn
    <2>2. TerminalLine(c)' = buffer[c]
      BY <1>1, <1>2, <2>1 DEF TerminalLine
    <2> QED
      BY <1>2, <1>3, <1>4, <1>5, <2>1, <2>2, Stutter DEF Same
  <1> QED
    BY <1>6, <1>7

LEMMA ProcessShows ==
    ASSUME TypeOK, PatientInv, NEW t \in Task, t[1] \in Patient, Process(t)
    PROVE  [Abstract!Next]_Abstract!vars
  <1> USE DEF clientVars, loopVars, taskVars, mainVars, poolVars, GotoTask
  <1> DEFINE c == t[1]
  <1>1. /\ at[t] = "process" /\ at'[t] = "remember" /\ c \in Client
        /\ executed'[c] = Append(executed[c], line[t])
        /\ executed[c] \in Seq(Line)
        /\ UNCHANGED clientVars
    BY TaskParts DEF Process, TypeOK, TaskTypes
  <1>2. /\ UNCHANGED <<lines, loopVars>>
        /\ \A d \in Patient \ {c} : Same(d)
        /\ LastTask(c)' = at'[t] /\ who # c /\ c \notin prompted /\ lines[c] # 0
    BY TaskOthers
  <1>3. /\ TerminalTurn(c) = "entered" /\ TerminalLine(c) = buffer[c]
        /\ line[t] = buffer[c] /\ line[t] # <<>>
    BY <1>1, ShowsTask DEF PatientInv, TaskCopies
  <1>4. TerminalTurn(c)' = "answered" /\ TerminalLine(c)' = <<>>
    BY <1>1, <1>2 DEF TerminalTurn, TerminalLine
  <1>5. TerminalIndex(c)' = Len(executed[c]) + 1
    <2>1. TerminalIndex(c)' = Len(executed'[c])
      BY <1>1, <1>2, <1>4 DEF TerminalIndex
    <2>2. Len(executed'[c]) = Len(executed[c]) + 1
      BY <1>1
    <2> QED
      BY <2>1, <2>2
  <1>6. Others(c)
    BY <1>2 DEF Others
  <1>7. /\ [d \in Patient |-> TerminalLine(d)]'
               = [[d \in Patient |-> TerminalLine(d)] EXCEPT ![c] = <<>>]
        /\ [d \in Patient |-> TerminalTurn(d)]'
               = [[d \in Patient |-> TerminalTurn(d)] EXCEPT ![c] = "answered"]
    BY <1>4, <1>6, OneLine, OneTurn
  <1>8. [d \in Patient |-> TerminalIndex(d)]'
            = [[d \in Patient |-> TerminalIndex(d)] EXCEPT
                   ![c] = Len(executed[c]) + 1]
    BY <1>5, <1>6, OneIndex
  <1>9. [d \in Patient |-> executed[d]]'
            = [[d \in Patient |-> executed[d]] EXCEPT
                   ![c] = Append(executed[c], line[t])]
    BY <1>1, <1>6, OneExecuted
  <1>10. Abstract!Execute(c)
    BY <1>3, <1>7, <1>8, <1>9 DEF Abstract!Execute, Abstract!Pass
  <1> QED
    BY <1>10 DEF Abstract!Next

LEMMA AnsweredShows ==
    ASSUME TypeOK, PatientInv, NEW t \in Task, t[1] \in Patient,
           Remember(t) \/ ClearBuffer(t)
    PROVE  UNCHANGED Abstract!vars
  <1> USE DEF clientVars, loopVars, taskVars, mainVars, poolVars, GotoTask
  <1> DEFINE c == t[1]
  <1>1. /\ at[t] \in {"remember", "clear"} /\ at'[t] \in {"clear", "prompt"}
        /\ c \in Client /\ UNCHANGED <<executed, prompted>>
    BY TaskParts DEF Remember, ClearBuffer, TypeOK, TaskTypes
  <1>2. /\ UNCHANGED <<lines, loopVars>>
        /\ \A d \in Patient \ {c} : Same(d)
        /\ LastTask(c)' = at'[t] /\ who # c /\ c \notin prompted /\ lines[c] # 0
    BY TaskOthers
  <1>3. /\ TerminalTurn(c) = "answered" /\ TerminalLine(c) = <<>>
        /\ TerminalIndex(c) = IF at[t] = "remember" THEN Len(executed[c])
                                                    ELSE index[c]
    BY <1>1, ShowsTask
  <1>4. TerminalTurn(c)' = "answered"
    BY <1>1, <1>2 DEF TerminalTurn
  <1>5. TerminalLine(c)' = <<>>
    BY <1>4 DEF TerminalLine
  <1>6. TerminalIndex(c)' = index'[c]
    BY <1>1, <1>2 DEF TerminalIndex
  <1>7. index'[c] = TerminalIndex(c)
    <2>1. CASE Remember(t)
      <3>1. /\ at[t] = "remember" /\ index'[c] = Len(history[c]) + 1
            /\ history[c] \in Seq(Line)
        BY <1>1, <2>1 DEF Remember, TypeOK, ClientTypes
      <3>2. executed[c] = Append(history[c], line[t])
        BY <3>1 DEF PatientInv, TaskCopies
      <3>3. Len(executed[c]) = Len(history[c]) + 1
        BY <3>1, <3>2
      <3> QED
        BY <1>3, <3>1, <3>3
    <2>2. CASE ClearBuffer(t)
      BY <1>3, <2>2 DEF ClearBuffer
    <2> QED
      BY <2>1, <2>2
  <1> QED
    BY <1>1, <1>2, <1>3, <1>4, <1>5, <1>6, <1>7, Stutter DEF Same

LEMMA PromptShows ==
    ASSUME TypeOK, PatientInv, NEW t \in Task, t[1] \in Patient, Prompt(t)
    PROVE  [Abstract!Next]_Abstract!vars
  <1> USE DEF clientVars, loopVars, taskVars, mainVars, poolVars, GotoTask
  <1> DEFINE c == t[1]
  <1>1. /\ at[t] = "prompt" /\ c \in prompted'
        /\ UNCHANGED <<executed, buffer, index>>
    BY DEF Prompt
  <1>2. /\ UNCHANGED <<lines, loopVars>>
        /\ \A d \in Patient \ {c} : Same(d)
        /\ who # c
    BY TaskOthers, <1>1
  <1>3. /\ TerminalTurn(c) = "answered" /\ TerminalLine(c) = <<>>
        /\ TerminalIndex(c) = index[c] /\ buffer[c] = <<>>
    BY <1>1, ShowsTask DEF PatientInv, TaskCopies
  <1>4. /\ TerminalTurn(c)' = "edit" /\ TerminalLine(c)' = TerminalLine(c)
        /\ TerminalIndex(c)' = TerminalIndex(c)
    BY <1>1, <1>2, <1>3 DEF TerminalTurn, TerminalLine, TerminalIndex
  <1>5. Others(c) /\ executed'[c] = executed[c]
    BY <1>1, <1>2 DEF Others
  <1>6. Abstract!Prompt(c)
    BY <1>3, <1>4, <1>5, OneTurn, KeptLine, KeptIndex, KeptExecuted
       DEF Abstract!Prompt, Abstract!Pass
  <1> QED
    BY <1>6 DEF Abstract!Next

LEMMA TaskShows ==
    ASSUME TypeOK, PatientInv, NEW t \in Task,
           ReadLine(t) \/ Process(t) \/ Remember(t) \/ ClearBuffer(t) \/ Prompt(t)
    PROVE  [Abstract!Next]_Abstract!vars
  <1>1. CASE t[1] \notin Patient
    BY <1>1, TaskOthers, Stutter
  <1>2. CASE t[1] \in Patient
    BY <1>2, ReadLineShows, ProcessShows, AnsweredShows, PromptShows
  <1> QED
    BY <1>1, <1>2

(* The end of the program is not shown.                                    *)
LEMMA EndShows ==
    ASSUME TypeOK, Ending \/ UNCHANGED vars
    PROVE  UNCHANGED Abstract!vars
  <1> USE DEF clientVars, loopVars, taskVars, mainVars, waitVars, poolVars
  <1>1. /\ UNCHANGED <<buffer, history, index, prompted, lines, arrow, text,
                       taskVars>>
        /\ UNCHANGED <<who, loopAt>> \/ {who, who'} \cap Patient = {}
    <2>1. CASE Ending
      BY <2>1, EndFrame
    <2>2. CASE UNCHANGED vars
      BY <2>2 DEF vars
    <2> QED
      BY <2>1, <2>2
  <1> QED
    BY <1>1, Frame, Stutter

LEMMA NextShows ==
    ASSUME TypeOK, PatientInv, TypeOK', [Next]_vars
    PROVE  [Abstract!Next]_Abstract!vars
  <1>1. CASE UNCHANGED vars
    BY <1>1, EndShows
  <1>2. CASE Next
    <2>1. crash = None
      BY <1>2 DEF Next
    <2>2. ASSUME NEW c \in Client, Input(c) PROVE [Abstract!Next]_Abstract!vars
      BY <2>2, AcceptShows, TypeShows, EnterShows, KeyShows DEF Input
    <2>3. ASSUME NEW t \in Task, RunTask(t) PROVE [Abstract!Next]_Abstract!vars
      BY <2>3, TaskShows, EndShows DEF RunTask, Ending
    <2>4. CASE HandleClient \/ Receive
      BY <2>1, <2>4, LoopShows
    <2>5. CASE Start
      BY <2>5, StartShows
    <2>6. CASE Ending
      BY <2>6, EndShows
    <2> QED
      BY <1>2, <2>2, <2>3, <2>4, <2>5, <2>6 DEF Next, Work, Hang, Ending
  <1> QED
    BY <1>1, <1>2

LEMMA InitShows == Init => Abstract!Init
  <1> SUFFICES ASSUME Init PROVE Abstract!Init
    OBVIOUS
  <1>1. ASSUME NEW c \in Patient
        PROVE  /\ TerminalTurn(c) = "away" /\ TerminalLine(c) = <<>>
               /\ TerminalIndex(c) = -1 /\ executed[c] = <<>>
    BY NoneAssumption, PatientAssumption
       DEF Init, TerminalTurn, TerminalLine, TerminalIndex
  <1> QED
    BY <1>1 DEF Abstract!Init

(* Every behaviour of the server is one of the terminal for the clients    *)
(* that wait for their prompts, however the loop, the workers, the other   *)
(* clients and the shutdown are interleaved.                               *)
THEOREM ServerImplementsTerminal == Spec => ImplementsTerminal
  <1>1. TypeOK /\ PatientInv /\ TypeOK' /\ [Next]_vars
            => [Abstract!Next]_Abstract!vars
    BY NextShows
  <1> QED
    BY <1>1, InitShows, AllInv, PTL DEF Spec, ImplementsTerminal, Abstract!Spec
=============================================================================
