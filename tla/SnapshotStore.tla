--------------------------- MODULE SnapshotStore ---------------------------
(***************************************************************************)
(* What snapshots promise, without files: the store in memory is copied    *)
(* now and then to one durable snapshot, in which every key has a value it *)
(* held while the copy was made (not all of them at one moment), or one    *)
(* that a write under way gave it after it was deleted meanwhile; a crash  *)
(* takes memory, and the snapshot only if it is just being replaced; a     *)
(* start brings the snapshot back.  A fault of the disk, counted, may      *)
(* damage or take the snapshot.  Persistence implements it.                *)
(***************************************************************************)
EXTENDS Naturals

CONSTANTS Key, Value, Garbage, None

VARIABLES
    memory,     \* what the running server holds
    running,    \* "down", or whether the server keeps snapshots
    disk,       \* the durable snapshot
    condition,  \* of the snapshot: "whole", or "cut" by a fault
    stage,      \* of a save: "idle", "reading", "read", "spoilt", "replacing"
    held,       \* what a save that reads may find, of each key
    faults      \* of the disk so far

vars == <<memory, running, disk, condition, stage, held, faults>>

Content == [Key -> Value \cup {Garbage, None}]
Nothing == [k \in Key |-> None]
Unread == [k \in Key |-> {}]

Init ==
    /\ memory = Nothing /\ running = "down"
    /\ disk = Nothing /\ condition = "whole"
    /\ stage = "idle" /\ held = Unread
    /\ faults = 0

Change(k, v) ==
    /\ running # "down"
    /\ memory' = [memory EXCEPT ![k] = v]
    /\ held' = IF stage = "reading" THEN [held EXCEPT ![k] = @ \cup {v}]
                                    ELSE held
    /\ UNCHANGED <<running, disk, condition, stage, faults>>

\* A key was deleted while a save reads, and a write to it that had begun
\* before comes too late for the store, but not for the save.
ChangeLate(k, v) ==
    /\ stage = "reading" /\ None \in held[k]
    /\ held' = [held EXCEPT ![k] = @ \cup {v}]
    /\ UNCHANGED <<memory, running, disk, condition, stage, faults>>

BeginSave ==
    /\ running = "keeps" /\ stage = "idle"
    /\ stage' = "reading"
    /\ held' = [k \in Key |-> {memory[k]}]
    /\ UNCHANGED <<memory, running, disk, condition, faults>>

EndRead ==
    /\ stage = "reading"
    /\ stage' = "read"
    /\ UNCHANGED <<memory, running, disk, condition, held, faults>>

\* The new snapshot takes the place of the old one.
Replace ==
    /\ stage = "read"
    /\ stage' = "replacing"
    /\ disk' \in Content
    /\ \A k \in Key : disk'[k] \in held[k]
    /\ condition' = "whole"
    /\ held' = Unread
    /\ UNCHANGED <<memory, running, faults>>

EndSave ==
    /\ stage = "replacing"
    /\ stage' = "idle"
    /\ UNCHANGED <<memory, running, disk, condition, held, faults>>

\* A fault ends a save early, spoils what it is about to put in place, or
\* takes the snapshot while it is being replaced.
Fault ==
    /\ faults' = faults + 1
    /\ \/ stage = "read" /\ stage' = "idle" /\ UNCHANGED <<disk, condition>>
       \/ stage = "read" /\ stage' = "spoilt" /\ UNCHANGED <<disk, condition>>
       \/ stage = "replacing" /\ stage' = "idle"
          /\ disk' = Nothing /\ condition' = "whole"
    /\ held' = Unread
    /\ UNCHANGED <<memory, running>>

ReplaceSpoilt ==
    /\ stage = "spoilt"
    /\ stage' = "replacing"
    /\ disk' \in Content /\ condition' = "cut"
    /\ UNCHANGED <<memory, running, held, faults>>

Crash ==
    /\ running # "down"
    /\ running' = "down" /\ memory' = Nothing
    /\ stage' = "idle" /\ held' = Unread
    /\ \/ UNCHANGED <<disk, condition>>
       \/ stage = "replacing" /\ disk' = Nothing /\ condition' = "whole"
    /\ UNCHANGED faults

Start ==
    /\ running = "down"
    /\ \/ running' = "keeps"
          /\ memory' \in Content
          /\ condition = "whole" => memory' = disk
       \/ running' = "forgets" /\ memory' = Nothing
    /\ UNCHANGED <<disk, condition, stage, held, faults>>

Next ==
    \/ \E k \in Key, v \in Value \cup {None} : Change(k, v)
    \/ \E k \in Key, v \in Value : ChangeLate(k, v)
    \/ BeginSave \/ EndRead \/ Replace \/ EndSave
    \/ Fault \/ ReplaceSpoilt \/ Crash \/ Start

Spec == Init /\ [][Next]_vars
=============================================================================
