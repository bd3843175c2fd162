--------------------------- MODULE MemoryManager ---------------------------
(***************************************************************************)
(* The LFU cache bookkeeping of src/src/MemoryManager.cpp together with    *)
(* the part of src/include/Database/Database.h that drives it: which keys  *)
(* are stored (records), how often each one was accessed (freq), and the   *)
(* list of keys of every frequency (freqList), from which evictIfNeeded    *)
(* picks its victims while the process uses more memory than it may.       *)
(*                                                                         *)
(* The calls are serialised here (one worker at a time); what concurrent   *)
(* workers do to the database is the subject of Transactions.  Memory is   *)
(* the process-wide counter that the global operator new and delete of     *)
(* server.cpp maintain: any thread moves it at any time, also while the    *)
(* eviction loop runs, and erasing a record need not lower it, since a     *)
(* handler may still hold a shared_ptr to that record.                     *)
(***************************************************************************)
EXTENDS Integers, SequencesExt

CONSTANTS
    Key,            \* ids of records
    CapacityBytes,  \* MemoryManager::capacityBytes, in abstract units
    MaxUsage,       \* bound: largest value of the memory counter
    MaxFreq         \* bound: a key is touched until it has this frequency

ASSUME CapacityAssumption == CapacityBytes \in Nat /\ MaxUsage \in Nat
ASSUME MaxFreqAssumption == MaxFreq \in Nat /\ MaxFreq >= 1

VARIABLES
    records,    \* Database::records, its keys
    freq,       \* cacheNodes: key -> frequency (node.size is never read)
    freqList,   \* frequency -> keys with that frequency, oldest first
    minFreq,    \* the frequency whose list the next victim comes from
    usage,      \* currentUsageBytes
    pc          \* "idle", or "evicting" inside the loop of evictIfNeeded

vars == <<records, freq, freqList, minFreq, usage, pc>>

Freqs == 1..MaxFreq

TypeOK ==
    /\ records \subseteq Key
    /\ DOMAIN freq \subseteq Key /\ freq \in [DOMAIN freq -> Freqs]
    /\ DOMAIN freqList \subseteq Freqs
    /\ freqList \in [DOMAIN freqList -> Seq(Key)]
    /\ minFreq \in 0..MaxFreq
    /\ usage \in 0..MaxUsage
    /\ pc \in {"idle", "evicting"}

-----------------------------------------------------------------------------
(* The map f after f[x] = v.                                               *)
Put(f, x, v) == [y \in DOMAIN f \cup {x} |-> IF y = x THEN v ELSE f[y]]

(* freqList[n] of the C++ map: an absent list reads as an empty one.       *)
ListAt(lists, n) == IF n \in DOMAIN lists THEN lists[n] ELSE <<>>

(* Mutant of SetList: an emptied list stays in the map.                    *)
KeepEmptyList(lists, n, rest) == Put(lists, n, rest)

(* Mutant of PushBack: the newest key goes to the front.                   *)
PushFront(lists, n, id) == Put(lists, n, <<id>> \o ListAt(lists, n))

(* Mutant of PopFront: the victim is read from the list but not popped.    *)
PeekFront(lists, n) == lists

(* Mutant of AnyFreqOf: the assumption that frequency 1 is always there.    *)
FirstFreqOf(lists) == {1}

(* The map after list n became rest: an emptied list is erased.            *)
SetList(lists, n, rest) ==
    IF rest = <<>> THEN Restrict(lists, DOMAIN lists \ {n})
                   ELSE Put(lists, n, rest)

(* freqList[n].push_back(id).                                              *)
PushBack(lists, n, id) == Put(lists, n, Append(ListAt(lists, n), id))

(* The position keyIterators[id] points to.                                *)
Position(list, id) == CHOOSE i \in DOMAIN list : list[i] = id

(* freqList[n].erase(keyIterators[id]).                                    *)
EraseFrom(lists, n, id) ==
    SetList(lists, n, RemoveAt(lists[n], Position(lists[n], id)))

(* keysList.pop_front() on the list of n.                                  *)
PopFront(lists, n) == SetList(lists, n, Tail(lists[n]))

(* freqList.begin()->first, or 0 when there is no list.  The map is an      *)
(* unordered_map: begin() is any of its frequencies.                       *)
AnyFreqOf(lists) == IF DOMAIN lists = {} THEN {0} ELSE DOMAIN lists

-----------------------------------------------------------------------------
Init ==
    /\ records = {}
    /\ freq = <<>>
    /\ freqList = <<>>
    /\ minFreq = 0
    /\ usage \in 0..MaxUsage
    /\ pc = "idle"

(* Another thread, or a temporary of this one, allocates or frees memory.  *)
OtherMemory ==
    /\ usage' \in 0..MaxUsage
    /\ UNCHANGED <<records, freq, freqList, minFreq, pc>>

(* MemoryManager::insertKey.                                               *)
InsertKey(id) ==
    /\ freq' = Put(freq, id, 1)
    /\ freqList' = PushBack(freqList, 1, id)
    /\ minFreq' = 1

(* Database::insertRecord of a key that is not stored, up to the call of   *)
(* evictIfNeeded (a stored key is refused with an exception).              *)
InsertRecord(id) ==
    /\ pc = "idle"
    /\ id \notin records
    /\ InsertKey(id)
    /\ records' = records \cup {id}
    /\ usage' \in usage..MaxUsage
    /\ pc' = "evicting"

(* MemoryManager::touch, called by getRecord and updateRecord on a stored  *)
(* key (MaxFreq bounds the frequency).                                     *)
Touch(id) ==
    /\ pc = "idle"
    /\ id \in records /\ id \in DOMAIN freq
    /\ freq[id] < MaxFreq
    /\ LET oldFreq == freq[id]
           newFreq == oldFreq + 1
           erased  == EraseFrom(freqList, oldFreq, id)
       IN  /\ freq' = [freq EXCEPT ![id] = newFreq]
           /\ freqList' = PushBack(erased, newFreq, id)
           /\ minFreq' = IF oldFreq \notin DOMAIN erased /\ minFreq = oldFreq
                         THEN newFreq ELSE minFreq
    /\ UNCHANGED <<records, usage, pc>>

(* Database::deleteRecord of a stored key, with MemoryManager::removeKey.  *)
RemoveKey(id) ==
    /\ pc = "idle"
    /\ id \in records /\ id \in DOMAIN freq
    /\ freqList' = EraseFrom(freqList, freq[id], id)
    /\ freq' = Restrict(freq, DOMAIN freq \ {id})
    /\ records' = records \ {id}
    /\ IF minFreq = freq[id] /\ freq[id] \notin DOMAIN freqList'
       THEN minFreq' \in AnyFreqOf(freqList')
       ELSE UNCHANGED minFreq
    /\ usage' \in 0..usage
    /\ UNCHANGED pc

(* The condition of the loop of evictIfNeeded.                             *)
MustEvict == usage > CapacityBytes /\ DOMAIN freqList # {}

(* One turn of the loop: the oldest key of the list of minFreq goes.       *)
EvictOne ==
    /\ pc = "evicting"
    /\ MustEvict
    /\ ListAt(freqList, minFreq) # <<>>
    /\ LET victim == Head(freqList[minFreq])
       IN  /\ freq' = Restrict(freq, DOMAIN freq \ {victim})
           /\ records' = records \ {victim}
    /\ freqList' = PopFront(freqList, minFreq)
    /\ minFreq' \in AnyFreqOf(freqList')
    /\ usage' \in 0..usage
    /\ UNCHANGED pc

(* The loop ends: its condition is false, or the list of minFreq is empty  *)
(* and the "break" is taken, after freqList[minFreq] created that list.    *)
EvictDone ==
    /\ pc = "evicting"
    /\ MustEvict => ListAt(freqList, minFreq) = <<>>
    /\ freqList' = IF MustEvict
                  THEN Put(freqList, minFreq, <<>>)
                  ELSE freqList
    /\ pc' = "idle"
    /\ UNCHANGED <<records, freq, minFreq, usage>>

Next ==
    \/ OtherMemory
    \/ \E id \in Key : InsertRecord(id) \/ Touch(id) \/ RemoveKey(id)
    \/ EvictOne
    \/ EvictDone

Spec == Init /\ [][Next]_vars

(* The thread inside evictIfNeeded keeps running.                          *)
FairSpec == Spec /\ WF_vars(EvictOne \/ EvictDone)

-----------------------------------------------------------------------------
(* Every stored record has a cache node and the reverse: a record without  *)
(* one could never be evicted, a node without a record would be a victim   *)
(* that frees nothing.                                                     *)
NodesMatchRecords == DOMAIN freq = records

(* Each key of the list of frequency n has frequency n.                    *)
ListedHaveFreq ==
    \A n \in DOMAIN freqList : \A i \in DOMAIN freqList[n] :
        freqList[n][i] \in DOMAIN freq /\ freq[freqList[n][i]] = n

(* Each cached key is in the list of its frequency.                        *)
CachedAreListed ==
    \A id \in DOMAIN freq :
        freq[id] \in DOMAIN freqList /\ \E i \in DOMAIN freqList[freq[id]] :
            freqList[freq[id]][i] = id

(* No key is twice in a list.                                              *)
ListedOnce ==
    \A n \in DOMAIN freqList : IsInjective(freqList[n])

(* minFreq always names a list the map really has, and no list is empty,   *)
(* although minFreq is taken from the arbitrary begin() of the map.        *)
MinFreqIsListed ==
    /\ \A n \in DOMAIN freqList : freqList[n] # <<>>
    /\ minFreq \in AnyFreqOf(freqList)

(* The three structures of the LFU cache agree with each other and with    *)
(* the record map after every call and every turn of the eviction loop     *)
(* (MemoryManager.cpp keeps them by hand in insertKey, touch, removeKey    *)
(* and evictIfNeeded).                                                     *)
CacheConsistent ==
    /\ NodesMatchRecords
    /\ ListedHaveFreq
    /\ CachedAreListed
    /\ ListedOnce
    /\ MinFreqIsListed

(* evictIfNeeded returns only when memory is within the capacity or no     *)
(* record is left (MemoryManager.h: "Evict records until memory usage is   *)
(* within capacity."): the "break" for an empty list never gives up early, *)
(* and each victim is a stored record taken while memory is over capacity. *)
Store == INSTANCE BoundedStore WITH making <- (pc = "evicting")
ImplementsBoundedStore == Store!Spec

(* The eviction loop always ends, however the rest of the process moves    *)
(* the memory counter meanwhile.                                           *)
EvictionTerminates == pc = "evicting" ~> pc = "idle"
=============================================================================
