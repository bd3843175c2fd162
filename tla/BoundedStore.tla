---------------------------- MODULE BoundedStore ----------------------------
(***************************************************************************)
(* What the database promises about memory, without saying how victims are *)
(* chosen: a record enters the store by an insert and leaves it by a       *)
(* delete or, only while the process uses more memory than the capacity,   *)
(* by an eviction; an insert is over only when memory is within the        *)
(* capacity or no record is left to evict.  MemoryManager implements it.   *)
(***************************************************************************)
EXTENDS Integers

CONSTANTS Key, CapacityBytes

VARIABLES
    records,    \* the stored keys
    usage,      \* bytes in use by the process
    making      \* TRUE while an insert makes room

vars == <<records, usage, making>>

Init ==
    /\ records = {}
    /\ usage \in Nat
    /\ making = FALSE

Memory ==
    /\ usage' \in Nat
    /\ UNCHANGED <<records, making>>

Insert(id) ==
    /\ ~making
    /\ id \notin records
    /\ records' = records \cup {id}
    /\ making' = TRUE
    /\ usage' \in Nat

Delete(id) ==
    /\ ~making
    /\ id \in records
    /\ records' = records \ {id}
    /\ usage' \in Nat
    /\ UNCHANGED making

Evict(id) ==
    /\ making
    /\ usage > CapacityBytes
    /\ id \in records
    /\ records' = records \ {id}
    /\ usage' \in Nat
    /\ UNCHANGED making

Finish ==
    /\ making
    /\ usage <= CapacityBytes \/ records = {}
    /\ making' = FALSE
    /\ UNCHANGED <<records, usage>>

Next ==
    \/ Memory
    \/ \E id \in Key : Insert(id) \/ Delete(id) \/ Evict(id)
    \/ Finish

Spec == Init /\ [][Next]_vars
=============================================================================
