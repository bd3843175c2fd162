------------------------------ MODULE Terminal ------------------------------
(***************************************************************************)
(* What a client that waits for each prompt before it types may rely on:   *)
(* a line editor with a history, in which an entered line is executed      *)
(* once, as it was edited, and then answered with a prompt.  There are no  *)
(* threads, tasks or buffers here, and no other clients.                   *)
(***************************************************************************)
EXTENDS Integers, Sequences

CONSTANTS Client, Char

VARIABLES
    line,       \* what each client has edited so far
    history,    \* the lines executed for it, oldest first
    index,      \* where the arrow keys are in the history, from 0
    turn        \* whose turn it is: "edit" is the client's

vars == <<line, history, index, turn>>

Init ==
    /\ line = [c \in Client |-> <<>>]
    /\ history = [c \in Client |-> <<>>]
    /\ index = [c \in Client |-> -1]
    /\ turn = [c \in Client |-> "away"]

Pass(c, from, to) ==
    /\ turn[c] = from
    /\ turn' = [turn EXCEPT ![c] = to]

Edit(c, text) ==
    /\ turn[c] = "edit"
    /\ line' = [line EXCEPT ![c] = text]
    /\ UNCHANGED <<history, turn>>

Type(c) ==
    /\ \E ch \in Char : Edit(c, Append(line[c], ch))
    /\ UNCHANGED index

Erase(c) ==
    /\ line[c] # <<>>
    /\ Edit(c, SubSeq(line[c], 1, Len(line[c]) - 1))
    /\ UNCHANGED index

(* An arrow key recalls a neighbour of the current line of the history ... *)
Recall(c) ==
    \E i \in {index[c] - 1, index[c] + 1} :
        /\ i \in 0..(Len(history[c]) - 1)
        /\ Edit(c, history[c][i + 1])
        /\ index' = [index EXCEPT ![c] = i]

(* ... or goes past its end, to an empty line.                             *)
LeaveHistory(c) ==
    /\ history[c] # <<>> /\ index[c] = Len(history[c]) - 1
    /\ Edit(c, <<>>)
    /\ index' = [index EXCEPT ![c] = Len(history[c])]

Enter(c) == Pass(c, "edit", "entered") /\ UNCHANGED <<line, history, index>>

Execute(c) ==
    /\ Pass(c, "entered", "answered")
    /\ line' = [line EXCEPT ![c] = <<>>]
    /\ IF line[c] = <<>>
       THEN UNCHANGED <<history, index>>
       ELSE /\ history' = [history EXCEPT ![c] = Append(@, line[c])]
            /\ index' = [index EXCEPT ![c] = Len(history[c]) + 1]

Prompt(c) ==
    /\ Pass(c, "away", "edit") \/ Pass(c, "answered", "edit")
    /\ UNCHANGED <<line, history, index>>

Next ==
    \E c \in Client :
        \/ Type(c) \/ Erase(c) \/ Recall(c) \/ LeaveHistory(c)
        \/ Enter(c) \/ Execute(c) \/ Prompt(c)

Spec == Init /\ [][Next]_vars
=============================================================================
