------------------------------- MODULE Server -------------------------------
(***************************************************************************)
(* The event loop (include/EventLoop.h), the clients with their line       *)
(* buffers and histories (Client.h, ClientManager.h), the task of an       *)
(* entered line, and the shutdown of the program (src/server.cpp).  The    *)
(* pool is TaskQueue, which ThreadPool implements.                         *)
(*                                                                         *)
(* Each access of a buffer, a history or an index takes a lock of its own  *)
(* and is a step; two reads in one condition are one step.  A key is       *)
(* chosen when it is read, so keys on their way are not state.             *)
(*                                                                         *)
(* What the server cannot count on is in the model: a command may end the  *)
(* program or never return, a client may not read what it is sent, and     *)
(* select may be interrupted.                                              *)
(*                                                                         *)
(* Left out: what is echoed, and what processCommand does with a line      *)
(* (Transactions).                                                         *)
(***************************************************************************)
EXTENDS Integers, Sequences, FiniteSets

CONSTANTS
    Client,
    Patient,    \* the clients that type only at a prompt, and no lone ESC,
                \* and read what they are sent
    Char,       \* the printable characters
    None,       \* no client
    Workers,    \* number of threads of the pool
    MaxLen,     \* bound: characters in the buffer of a patient client,
    MaxHasty,   \* bound: and of another one
    MaxLines    \* bound: lines the clients enter together

ASSUME PatientAssumption == Patient \subseteq Client
ASSUME NoneAssumption == None \notin Client
ASSUME WorkersAssumption == Workers \in Nat \ {0}
ASSUME BoundAssumption == MaxLen \in Nat /\ MaxHasty \in Nat /\ MaxLines \in Nat

Task == Client \X (1..MaxLines)

VARIABLES
    conn,       \* "open": in ClientManager::clients
    buffer, history, index,         \* of Client; index counts from 0
    prompted,   \* the clients that last saw a prompt
    lines,      \* number of lines it entered
    loopAt,     \* where the event loop is, and its locals:
    who, arrow, pos, text,
    round,      \* the clients left in a round that follows a failed select
    at, line,   \* where each task is, and its copy of the buffer
    hung,       \* the tasks that never go on
    main,       \* where main of server.cpp is; running is main = "serving"
    crash       \* the client whose input or task ended the program

VARIABLES accepted, queue, busy, done, gone

(* History: the lines processCommand was called with.                      *)
VARIABLE executed

clientVars == <<conn, buffer, history, index, prompted, lines>>
loopVars == <<loopAt, who, arrow, pos, text>>
taskVars == <<at, line, executed>>
mainVars == <<main, crash>>
waitVars == <<round, hung>>
poolVars == <<accepted, queue, busy, done, gone>>
vars == <<clientVars, loopVars, taskVars, mainVars, waitVars, poolVars>>

Pool == INSTANCE TaskQueue WITH running <- busy

Line == Seq(Char)

ClientTypes ==
    /\ conn \in [Client -> {"new", "open", "left", "closed"}]
    /\ buffer \in [Client -> Line]
    /\ history \in [Client -> Seq(Line)]
    /\ index \in [Client -> Int]
    /\ prompted \subseteq Client
    /\ lines \in [Client -> 0..MaxLines]

LoopTypes ==
    /\ loopAt \in {"select", "accept", "backRead", "backWipe", "retype",
                   "down", "move", "set", "wipe", "recall", "echo", "recv",
                   "stuck", "ended"}
    /\ who \in Client \cup {None}
    /\ who = None <=> loopAt \in {"select", "accept", "ended"}
    /\ round \subseteq Client
    /\ arrow \in {"none", "up", "down", "end"}
    /\ pos \in Int
    /\ text \in Line

TaskTypes ==
    /\ at \in [Task -> {"idle", "read", "process", "remember", "clear",
                        "prompt"}]
    /\ line \in [Task -> Line]
    /\ executed \in [Client -> Seq(Line)]
    /\ main \in {"serving", "stopping", "stuck", "deleted"}
    /\ crash \in Client \cup {None}

PoolTypes ==
    /\ accepted \subseteq Task
    /\ \A t \in Task : t \in accepted <=> t[2] <= lines[t[1]]
    /\ queue \in Seq(accepted)
    /\ done \subseteq accepted
    /\ busy \subseteq accepted
    /\ \A t \in Task : t \in busy <=> at[t] # "idle"
    /\ hung \subseteq busy

TypeOK == ClientTypes /\ LoopTypes /\ TaskTypes /\ PoolTypes

Init ==
    /\ conn = [c \in Client |-> "new"]
    /\ buffer = [c \in Client |-> <<>>]
    /\ history = [c \in Client |-> <<>>]
    /\ index = [c \in Client |-> -1]
    /\ prompted = {}
    /\ lines = [c \in Client |-> 0]
    /\ loopAt = "select" /\ who = None
    /\ arrow = "none" /\ pos = 0 /\ text = <<>>
    /\ at = [t \in Task |-> "idle"]
    /\ line = [t \in Task |-> <<>>]
    /\ executed = [c \in Client |-> <<>>]
    /\ main = "serving" /\ crash = None
    /\ round = {} /\ hung = {}
    /\ Pool!Init

-----------------------------------------------------------------------------
(* The event loop.                                                         *)

SetBuffer(c, s) == buffer' = [buffer EXCEPT ![c] = s]

(* appendToBuffer.                                                         *)
AppendToBuffer(c, s) == SetBuffer(c, buffer[c] \o s)

(* handleClient goes on with client c, or returns to the loop, where it    *)
(* has no locals.                                                          *)
Continue(c, label) == loopAt' = label /\ who' = c

Return ==
    /\ Continue(None, "select")
    /\ arrow' = "none" /\ pos' = 0 /\ text' = <<>>

Crash(c) ==
    /\ crash' = c
    /\ UNCHANGED <<clientVars, loopVars, taskVars, main, poolVars>>

(* The loop is about to call handleClient with c: select has reported it,  *)
(* or has failed and c is still to come in the round.                      *)
Serves(c) ==
    /\ loopAt = "select"
    /\ conn[c] = "open"
    /\ round = {} \/ c \in round

(* accept, addClient, and the welcome with a prompt.                       *)
Accept(c) ==
    /\ (loopAt = "select" /\ round = {}) \/ loopAt = "accept"
    /\ conn[c] = "new"
    /\ conn' = [conn EXCEPT ![c] = "open"]
    /\ prompted' = prompted \cup {c}
    /\ loopAt' = "select"
    /\ UNCHANGED <<buffer, history, index, lines, who, arrow, pos, text,
                   taskVars, mainVars, poolVars>>

(* A signal interrupts select, which leaves all the descriptors set: the   *)
(* loop calls accept, which waits for a client, and then handleClient with *)
(* every client it has, which waits for a key of each.                     *)
SelectFails ==
    /\ main # "serving"
    /\ loopAt = "select" /\ round = {}
    /\ loopAt' = "accept"
    /\ round' = {c \in Client : conn[c] = "open"}
    /\ UNCHANGED <<clientVars, who, arrow, pos, text, taskVars, mainVars, hung,
                   poolVars>>

(* readData fails, or reads ctrl-C: removeClient.                          *)
Disconnect(c) ==
    /\ Serves(c)
    /\ conn' = [conn EXCEPT ![c] = "closed"]
    /\ UNCHANGED <<buffer, history, index, prompted, lines, loopVars,
                   taskVars, mainVars, poolVars>>

(* handleClient may read a key from c.                                     *)
Reads(c) ==
    /\ Serves(c)
    /\ c \in Patient => c \in prompted

(* A key that does nothing: it is not printable, or there is nothing to    *)
(* erase or recall.                                                        *)
Ignore(c) ==
    /\ Reads(c)
    /\ UNCHANGED <<clientVars, loopVars, taskVars, mainVars, poolVars>>

(* Mutant of Type: a carriage return is taken for a character.             *)
TypeUnfiltered(c) ==
    /\ Reads(c)
    /\ Len(buffer[c]) < IF c \in Patient THEN MaxLen ELSE MaxHasty
    /\ \E ch \in Char \cup {"CR"} : AppendToBuffer(c, <<ch>>)
    /\ UNCHANGED <<conn, history, index, prompted, lines, loopVars, taskVars,
                   mainVars, poolVars>>

Type(c) ==
    /\ Reads(c)
    /\ Len(buffer[c]) < IF c \in Patient THEN MaxLen ELSE MaxHasty
    /\ \E ch \in Char : AppendToBuffer(c, <<ch>>)
    /\ UNCHANGED <<conn, history, index, prompted, lines, loopVars, taskVars,
                   mainVars, poolVars>>

(* A newline: the task of the line is enqueued.                            *)
Enter(c) ==
    /\ Reads(c)
    /\ Cardinality(accepted) < MaxLines
    /\ Pool!Accept(<<c, lines[c] + 1>>)
    /\ lines' = [lines EXCEPT ![c] = @ + 1]
    /\ prompted' = prompted \ {c}
    /\ UNCHANGED <<conn, buffer, history, index, loopVars, taskVars, mainVars>>

(* The keys that take several steps.  The loop looks whether there is      *)
(* something to do; an ESC makes it wait for two bytes more.               *)
Backspace(c) ==
    /\ Reads(c)
    /\ buffer[c] # <<>>
    /\ Continue(c, "backRead")
    /\ UNCHANGED <<clientVars, arrow, pos, text, taskVars, mainVars, poolVars>>

(* Mutant of ArrowUp: the first line of the history is not the last stop.  *)
ArrowUpPast(c) ==
    /\ Reads(c)
    /\ history[c] # <<>> /\ index[c] >= 0
    /\ Continue(c, "move")
    /\ arrow' = "up"
    /\ UNCHANGED <<clientVars, pos, text, taskVars, mainVars, poolVars>>

ArrowUp(c) ==
    /\ Reads(c)
    /\ history[c] # <<>> /\ index[c] > 0
    /\ Continue(c, "move")
    /\ arrow' = "up"
    /\ UNCHANGED <<clientVars, pos, text, taskVars, mainVars, poolVars>>

ArrowDown(c) ==
    /\ Reads(c)
    /\ IF history[c] # <<>> /\ index[c] < Len(history[c]) - 1
       THEN Continue(c, "move") /\ arrow' = "down"
       ELSE Continue(c, "down") /\ UNCHANGED arrow
    /\ UNCHANGED <<clientVars, pos, text, taskVars, mainVars, poolVars>>

LoneEscape(c) ==
    /\ Reads(c)
    /\ c \notin Patient
    /\ Continue(c, "recv")
    /\ UNCHANGED <<clientVars, arrow, pos, text, taskVars, mainVars, poolVars>>

(* Bytes arrive that end no escape sequence, or c hangs up.                *)
Receive ==
    /\ loopAt = "recv"
    /\ Return
    /\ UNCHANGED <<clientVars, taskVars, mainVars, waitVars, poolVars>>

(* Backspace reads the buffer again and drops a character, ...             *)
BackRead ==
    /\ loopAt = "backRead"
    /\ buffer[who] # <<>>
    /\ text' = SubSeq(buffer[who], 1, Len(buffer[who]) - 1)
    /\ loopAt' = "backWipe"
    /\ UNCHANGED <<clientVars, who, arrow, pos, taskVars, mainVars, poolVars>>

(* ... which a buffer cleared meanwhile does not have: pop_back leaves a   *)
(* string of no valid length, and appending it ends the program.           *)
BackReadEmpty ==
    /\ loopAt = "backRead"
    /\ buffer[who] = <<>>
    /\ Crash(who)

(* The second condition of the down arrow.                                 *)
Down ==
    /\ loopAt = "down"
    /\ IF history[who] # <<>> /\ index[who] = Len(history[who]) - 1
       THEN Continue(who, "move") /\ arrow' = "end" /\ UNCHANGED <<pos, text>>
       ELSE Return
    /\ UNCHANGED <<clientVars, taskVars, mainVars, poolVars>>

(* setCommandHistoryIndex(getCommandHistoryIndex() +- 1).                  *)
Move ==
    /\ loopAt = "move"
    /\ pos' = index[who]
    /\ loopAt' = "set"
    /\ UNCHANGED <<clientVars, who, arrow, text, taskVars, mainVars, poolVars>>

Delta == IF arrow = "up" THEN -1 ELSE 1

SetIndex ==
    /\ loopAt = "set"
    /\ index' = [index EXCEPT ![who] = pos + Delta]
    /\ loopAt' = "wipe"
    /\ pos' = 0
    /\ UNCHANGED <<conn, buffer, history, prompted, lines, who, arrow, text,
                   taskVars, mainVars, poolVars>>

(* clearBuffer, for a backspace and for an arrow.                          *)
Wipe ==
    /\ loopAt \in {"backWipe", "wipe"}
    /\ SetBuffer(who, <<>>)
    /\ loopAt' = IF loopAt = "backWipe" THEN "retype"
                 ELSE IF arrow = "end" THEN "echo" ELSE "recall"
    /\ UNCHANGED <<conn, history, index, prompted, lines, who, arrow, pos, text,
                   taskVars, mainVars, poolVars>>

Retype ==
    /\ loopAt = "retype"
    /\ AppendToBuffer(who, text)
    /\ loopAt' = "echo"
    /\ UNCHANGED <<conn, history, index, prompted, lines, who, arrow, pos, text,
                   taskVars, mainVars, poolVars>>

(* appendToBuffer(getCommandHistory()[getCommandHistoryIndex()]).  Memory  *)
(* past the end of the copy looks like an empty string or is no string.    *)
InHistory(c) == index[c] \in 0..(Len(history[c]) - 1)

Recall ==
    /\ loopAt = "recall"
    /\ AppendToBuffer(who, IF InHistory(who) THEN history[who][index[who] + 1]
                                             ELSE <<>>)
    /\ loopAt' = "echo"
    /\ UNCHANGED <<conn, history, index, prompted, lines, who, arrow, pos, text,
                   taskVars, mainVars, poolVars>>

RecallOutside ==
    /\ loopAt = "recall"
    /\ ~InHistory(who)
    /\ Crash(who)

(* The new line is written to the client.                                  *)
Echo ==
    /\ loopAt = "echo"
    /\ Return
    /\ UNCHANGED <<clientVars, taskVars, mainVars, poolVars>>

(* A write of the loop waits for ever, for a client that does not read; it *)
(* erases a line, shows the new one, or answers ctrl-C or a backspace that *)
(* finds nothing.  The welcome finds an empty socket.                      *)
LoopHangs(c) ==
    /\ c \notin Patient
    /\ Reads(c) \/ (who = c /\ loopAt \in {"wipe", "echo"})
    /\ Continue(c, "stuck")
    /\ UNCHANGED <<clientVars, arrow, pos, text, taskVars, mainVars, waitVars,
                   poolVars>>

-----------------------------------------------------------------------------
(* The task of a line, on a worker.                                        *)

GotoTask(t, label) == at' = [at EXCEPT ![t] = label]

Start ==
    /\ Cardinality(busy) < Workers
    /\ Pool!Start
    /\ GotoTask(Head(queue), "read")
    /\ UNCHANGED <<clientVars, loopVars, line, executed, mainVars, waitVars>>

(* Mutant of ReadLine: an empty line ends the task at once.                *)
ReadLineReturns(t) ==
    /\ at[t] = "read"
    /\ line' = [line EXCEPT ![t] = buffer[t[1]]]
    /\ IF buffer[t[1]] = <<>>
       THEN GotoTask(t, "idle") /\ Pool!End(t)
       ELSE GotoTask(t, "process") /\ UNCHANGED poolVars
    /\ UNCHANGED <<clientVars, loopVars, executed, mainVars>>

(* getBuffer; there is nothing to do for an empty line.                    *)
ReadLine(t) ==
    /\ at[t] = "read"
    /\ line' = [line EXCEPT ![t] = buffer[t[1]]]
    /\ GotoTask(t, IF buffer[t[1]] = <<>> THEN "clear" ELSE "process")
    /\ UNCHANGED <<clientVars, loopVars, executed, mainVars, poolVars>>

Process(t) ==
    /\ at[t] = "process"
    /\ executed' = [executed EXCEPT ![t[1]] = Append(@, line[t])]
    /\ GotoTask(t, "remember")
    /\ UNCHANGED <<clientVars, loopVars, line, mainVars, poolVars>>

(* The command ends the program: HMSET of a record that is no hash, or any *)
(* command on the database that main has deleted.                          *)
ProcessCrashes(t) ==
    /\ at[t] = "process"
    /\ Crash(t[1])

(* Mutant of Remember: the prompt comes with the response, before the      *)
(* buffer is cleared.                                                      *)
RememberPrompts(t) ==
    /\ at[t] = "remember"
    /\ LET c == t[1]
       IN  /\ history' = [history EXCEPT ![c] = Append(@, line[t])]
           /\ index' = [index EXCEPT ![c] = Len(history[c]) + 1]
           /\ prompted' = prompted \cup {c}
    /\ GotoTask(t, "clear")
    /\ UNCHANGED <<conn, buffer, lines, loopVars, line, executed, mainVars,
                   poolVars>>

(* addCommandToHistory.                                                    *)
Remember(t) ==
    /\ at[t] = "remember"
    /\ LET c == t[1]
       IN  /\ history' = [history EXCEPT ![c] = Append(@, line[t])]
           /\ index' = [index EXCEPT ![c] = Len(history[c]) + 1]
    /\ GotoTask(t, "clear")
    /\ UNCHANGED <<conn, buffer, prompted, lines, loopVars, line, executed,
                   mainVars, poolVars>>

ClearBuffer(t) ==
    /\ at[t] = "clear"
    /\ SetBuffer(t[1], <<>>)
    /\ GotoTask(t, "prompt")
    /\ UNCHANGED <<conn, history, index, prompted, lines, loopVars, line,
                   executed, mainVars, poolVars>>

(* The prompt is sent and the task ends.                                   *)
Prompt(t) ==
    /\ at[t] = "prompt"
    /\ Pool!End(t)
    /\ prompted' = prompted \cup {t[1]}
    /\ GotoTask(t, "idle")
    /\ line' = [line EXCEPT ![t] = <<>>]
    /\ UNCHANGED <<conn, buffer, history, index, lines, loopVars, executed,
                   mainVars>>

(* A task waits for ever: in a command, for a mutex of a deadlock (in      *)
(* Client.h or TTLDatabaseDecorator.h); or in a write of the newline, the  *)
(* response or the prompt, to a client that does not read.                 *)
TaskHangs(t) ==
    /\ \/ at[t] = "process"
       \/ at[t] \in {"read", "remember", "prompt"} /\ t[1] \notin Patient
    /\ hung' = hung \cup {t}
    /\ UNCHANGED <<clientVars, loopVars, round, taskVars, mainVars, poolVars>>

-----------------------------------------------------------------------------
(* A write to a client that has hung up may raise SIGPIPE, which ends the  *)
(* program: an echo of the loop, or the newline, the response or the       *)
(* prompt of a task.  That it has hung up may not have been read yet (conn *)
(* is still "open"), and shows in no other way before.                     *)
WritesTo(c) ==
    \/ Reads(c)
    \/ who = c /\ loopAt \in {"wipe", "echo"}
    \/ \E t \in Task : t[1] = c /\ at[t] \in {"read", "remember", "prompt"}

BrokenPipe(c) ==
    /\ WritesTo(c)
    /\ conn' = [conn EXCEPT ![c] = "left"]
    /\ crash' = c
    /\ UNCHANGED <<buffer, history, index, prompted, lines, loopVars,
                   taskVars, main, waitVars, poolVars>>

-----------------------------------------------------------------------------
(* The main thread: a signal, the end of the event loop, the deletion of   *)
(* the database, and the exit that destroys the pool.                      *)
Signal ==
    /\ main = "serving"
    /\ main' = "stopping"
    /\ UNCHANGED <<clientVars, loopVars, taskVars, crash, waitVars, poolVars>>

(* Mutant of StopLoop: the loop ends when its clients have left.           *)
StopLoopAlone ==
    /\ main # "serving"
    /\ loopAt = "select" /\ round = {}
    /\ \A c \in Client : conn[c] # "open"
    /\ loopAt' = "ended"
    /\ UNCHANGED <<clientVars, who, arrow, pos, text, taskVars, mainVars,
                   waitVars, poolVars>>

(* The loop looks at running between two rounds of handleClient.           *)
StopLoop ==
    /\ main # "serving"
    /\ loopAt = "select" /\ round = {}
    /\ loopAt' = "ended"
    /\ UNCHANGED <<clientVars, who, arrow, pos, text, taskVars, mainVars,
                   waitVars, poolVars>>

DeleteDatabase ==
    /\ loopAt = "ended" /\ main = "stopping"
    /\ main' = "deleted"
    /\ UNCHANGED <<clientVars, loopVars, taskVars, crash, waitVars, poolVars>>

(* The deletion joins the expiration thread, which waits for ever for a    *)
(* mutex of the deadlock a task is in.                                     *)
DeleteHangs ==
    /\ loopAt = "ended" /\ main = "stopping"
    /\ hung # {}
    /\ main' = "stuck"
    /\ UNCHANGED <<clientVars, loopVars, taskVars, crash, waitVars, poolVars>>

DestroyPool ==
    /\ main = "deleted"
    /\ Pool!Close
    /\ UNCHANGED <<clientVars, loopVars, taskVars, mainVars, waitVars>>

-----------------------------------------------------------------------------
Input(c) ==
    /\ \/ Accept(c) \/ Disconnect(c) \/ Ignore(c) \/ Type(c) \/ Enter(c)
       \/ Backspace(c) \/ ArrowUp(c) \/ ArrowDown(c) \/ LoneEscape(c)
    /\ round' = round \ {c}
    /\ UNCHANGED hung

HandleClient ==
    /\ \/ BackRead \/ BackReadEmpty \/ Retype \/ Echo
       \/ Down \/ Move \/ SetIndex \/ Wipe \/ Recall \/ RecallOutside
    /\ UNCHANGED waitVars

RunTask(t) ==
    /\ t \notin hung
    /\ \/ ReadLine(t) \/ Process(t) \/ ProcessCrashes(t)
       \/ Remember(t) \/ ClearBuffer(t) \/ Prompt(t)
    /\ UNCHANGED waitVars

Work == Start \/ \E t \in Task : RunTask(t)

Shutdown == StopLoop \/ DeleteDatabase \/ DestroyPool

Hang ==
    \/ SelectFails \/ DeleteHangs
    \/ \E c \in Client : LoopHangs(c)
    \/ \E t \in Task \ hung : TaskHangs(t)

Next ==
    /\ crash = None
    /\ \/ \E c \in Client : Input(c) \/ BrokenPipe(c)
       \/ Receive \/ HandleClient \/ Work \/ Signal \/ Shutdown \/ Hang

Spec == Init /\ [][Next]_vars

(* The loop, the main thread and a worker that is not at work go on, and   *)
(* so does a task, but for what may keep each of them for ever: LoopHangs, *)
(* DeleteHangs and TaskHangs take no part in the fairness, and none of     *)
(* their threads takes another step.  Nor do the waits for a client that   *)
(* Receive, and Accept and Input after SelectFails, end.  Else a round of  *)
(* the loop handles each client once at most, and it looks at running      *)
(* again and again.                                                        *)
FairSpec ==
    /\ Spec
    /\ WF_vars(crash = None /\ HandleClient)
    /\ WF_vars(crash = None /\ Work)
    /\ SF_vars(crash = None /\ Shutdown)

-----------------------------------------------------------------------------
(* The Terminal a patient client sees.  Its arrow key takes effect with    *)
(* SetIndex, its backspace with Wipe, its line with Process, or with       *)
(* ReadLine when it is empty.                                              *)
LastTask(c) == at[<<c, lines[c]>>]

TerminalTurn(c) ==
    IF c \in prompted THEN "edit"
    ELSE IF lines[c] = 0 THEN "away"
    ELSE IF LastTask(c) \in {"remember", "clear", "prompt"} THEN "answered"
    ELSE "entered"

TerminalLine(c) ==
    IF TerminalTurn(c) = "answered" THEN <<>>
    ELSE IF who # c THEN buffer[c]
    ELSE IF loopAt = "retype" THEN text
    ELSE IF loopAt \in {"wipe", "recall"}
    THEN IF arrow = "end" THEN <<>> ELSE history[c][index[c] + 1]
    ELSE buffer[c]

TerminalIndex(c) ==
    IF TerminalTurn(c) = "answered" /\ LastTask(c) = "remember"
    THEN Len(executed[c])
    ELSE index[c]

Abstract == INSTANCE Terminal WITH
    Client <- Patient,
    line <- [c \in Patient |-> TerminalLine(c)],
    history <- [c \in Patient |-> executed[c]],
    index <- [c \in Patient |-> TerminalIndex(c)],
    turn <- [c \in Patient |-> TerminalTurn(c)]

(* A client that waits for its prompts has a line editor to itself: what   *)
(* it edits is executed once, as it stood when it pressed return, in       *)
(* order, and answered, although the reactor and a worker share its buffer *)
(* and its history, other clients type ahead, and the server shuts down.   *)
ImplementsTerminal == Abstract!Spec

(* No key of such a client ends the program: none reads outside a string  *)
(* or a history.  The program ends on its account only when it hangs up or *)
(* in a command of it that the server does not survive.  (The commands of  *)
(* other clients may end it as well, for all.)                             *)
PatientsAreSafe ==
    crash \in Patient =>
        \/ conn[crash] = "left"
        \/ \E t \in Task : t[1] = crash /\ at[t] = "process"

(* A client that has entered a line sees a prompt again, unless the        *)
(* program ends before, a task of its own waits for ever, or one on every  *)
(* worker does: the tasks of other clients delay it, but one that hangs on *)
(* another worker does not.                                                *)
PromptsCome ==
    \A c \in Client : lines[c] > 0 ~>
        \/ c \in prompted \/ crash # None
        \/ \E t \in hung : t[1] = c
        \/ Cardinality(hung) = Workers

(* After a signal the program ends, unless a task hangs, or the event loop *)
(* does, or waits for a client: for the rest of an escape sequence, or     *)
(* because the signal has interrupted select.                              *)
ShutdownEnds ==
    main # "serving" ~>
        \/ gone \/ crash # None \/ hung # {}
        \/ loopAt \in {"recv", "accept", "stuck"} \/ round # {}
=============================================================================
