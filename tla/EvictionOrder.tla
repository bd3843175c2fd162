--------------------------- MODULE EvictionOrder ---------------------------
(***************************************************************************)
(* MemoryManager with a history variable that orders the stored keys by    *)
(* their last access, to say in which order the keys of one frequency are  *)
(* evicted.                                                                *)
(***************************************************************************)
EXTENDS MemoryManager

VARIABLE older      \* stored key -> the stored keys accessed longer ago

histvars == <<vars, older>>

HistInit == Init /\ older = <<>>

(* A key is accessed by a step when it is inserted or its frequency grows. *)
Accessed == {id \in DOMAIN freq' :
                id \notin DOMAIN freq \/ freq'[id] # freq[id]}

(* Removed keys leave the order, an accessed key moves to its end (a step  *)
(* accesses one key at most).                                              *)
RecordAccess ==
    LET others == records' \ Accessed
    IN  older' = [id \in records' |->
                    IF id \in Accessed THEN others ELSE older[id] \cap others]

HistNext == Next /\ RecordAccess

HistSpec == HistInit /\ [][HistNext]_histvars

(* The thread inside evictIfNeeded keeps running.                          *)
FairHistSpec == HistSpec /\ WF_vars(EvictOne \/ EvictDone)

(* The keys of one frequency leave in the order of their last access       *)
(* (MemoryManager.cpp: "Evict the least recently used key from this        *)
(* frequency list"): each list holds its keys in that order.               *)
ListsAreInRecencyOrder ==
    \A n \in DOMAIN freqList : \A i, j \in DOMAIN freqList[n] :
        i < j <=> freqList[n][i] \in older[freqList[n][j]]
=============================================================================
