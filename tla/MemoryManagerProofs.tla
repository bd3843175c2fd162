------------------------ MODULE MemoryManagerProofs ------------------------
(***************************************************************************)
(* Proofs about MemoryManager and EvictionOrder, for every set of keys,    *)
(* capacity and bound.                                                     *)
(*                                                                         *)
(* CacheConsistent is inductive together with the type invariant: the      *)
(* proof goes through three lemmas on lists without repetition (Append,    *)
(* RemoveAt, Tail) and one lemma per action.  The refinement of            *)
(* BoundedStore follows from it: the "break" of the loop needs an empty    *)
(* list under minFreq, which the invariant excludes.                       *)
(***************************************************************************)
EXTENDS EvictionOrder, SequenceTheorems, TLAPS

(* The inductive invariant: types and consistency of the LFU structures.   *)
IInv == TypeOK /\ CacheConsistent

-----------------------------------------------------------------------------
(* Facts about the map and list helpers.                                   *)

(* Appending a new element to a list without repetition.                   *)
LEMMA AppendFact ==
    ASSUME NEW T, NEW s \in Seq(T), NEW e \in T
    PROVE  /\ Append(s, e) \in Seq(T)
           /\ Append(s, e) # <<>>
           /\ DOMAIN Append(s, e) = 1..(Len(s) + 1)
           /\ \A i \in DOMAIN s : Append(s, e)[i] = s[i]
           /\ Append(s, e)[Len(s) + 1] = e
           /\ DOMAIN s = 1..Len(s)
  OBVIOUS

(* Removing one position.                                                  *)
LEMMA RemoveAtFact ==
    ASSUME NEW T, NEW s \in Seq(T), NEW p \in DOMAIN s
    PROVE  /\ RemoveAt(s, p) \in Seq(T)
           /\ Len(RemoveAt(s, p)) = Len(s) - 1
           /\ \A i \in 1..(Len(s) - 1) :
                 RemoveAt(s, p)[i] = IF i < p THEN s[i] ELSE s[i + 1]
           /\ Len(s) \in Nat /\ Len(s) >= 1
           /\ DOMAIN s = 1..Len(s)
  <1> DEFINE a == SubSeq(s, 1, p - 1)
             b == SubSeq(s, p + 1, Len(s))
  <1>1. /\ DOMAIN s = 1..Len(s) /\ Len(s) \in Nat
        /\ p \in Nat /\ 1 <= p /\ p <= Len(s)
    OBVIOUS
  <1>2. /\ a \in Seq(T) /\ Len(a) = p - 1
        /\ \A i \in 1..(p - 1) : a[i] = s[i]
    BY <1>1
  <1>3. /\ b \in Seq(T) /\ Len(b) = Len(s) - p
        /\ \A i \in 1..(Len(s) - p) : b[i] = s[p + i]
    BY <1>1
  <1>4. RemoveAt(s, p) = a \o b
    BY DEF RemoveAt
  <1> HIDE DEF a, b
  <1>5. /\ a \o b \in Seq(T)
        /\ Len(a \o b) = Len(a) + Len(b)
        /\ \A i \in 1..(Len(a) + Len(b)) :
              (a \o b)[i] = IF i <= Len(a) THEN a[i] ELSE b[i - Len(a)]
    BY <1>2, <1>3, ConcatProperties
  <1>6. Len(a \o b) = Len(s) - 1
    BY <1>1, <1>2, <1>3, <1>5
  <1>7. \A i \in 1..(Len(s) - 1) :
            (a \o b)[i] = IF i < p THEN s[i] ELSE s[i + 1]
    <2> TAKE i \in 1..(Len(s) - 1)
    <2>1. i \in 1..(Len(a) + Len(b))
      BY <1>1, <1>2, <1>3
    <2>2. CASE i < p
      BY <1>1, <1>2, <1>5, <2>1, <2>2
    <2>3. CASE ~(i < p)
      <3>1. /\ (a \o b)[i] = b[i - (p - 1)]
            /\ i - (p - 1) \in 1..(Len(s) - p)
        BY <1>1, <1>2, <1>5, <2>1, <2>3
      <3>2. p + (i - (p - 1)) = i + 1
        BY <1>1
      <3> QED
        BY <1>3, <2>3, <3>1, <3>2
    <2> QED
      BY <2>2, <2>3
  <1>8. Len(s) >= 1
    BY <1>1
  <1> QED
    BY <1>1, <1>4, <1>5, <1>6, <1>7, <1>8, Zenon

(* The head and the tail of a non-empty list.                              *)
LEMMA TailFact ==
    ASSUME NEW T, NEW s \in Seq(T), s # <<>>
    PROVE  /\ Tail(s) = RemoveAt(s, 1)
           /\ 1 \in DOMAIN s /\ Head(s) = s[1] /\ Head(s) \in T
  BY DEF RemoveAt
-----------------------------------------------------------------------------
(* The part of IInv that speaks of the lists and the nodes alone, of any   *)
(* pair of maps: the actions below are combinations of adding one key to   *)
(* and removing one key from such a pair.                                  *)
Listed(lists, fr) ==
    \A n \in DOMAIN lists : \A i \in DOMAIN lists[n] :
        lists[n][i] \in DOMAIN fr /\ fr[lists[n][i]] = n

Cached(lists, fr) ==
    \A id \in DOMAIN fr : /\ fr[id] \in DOMAIN lists
                          /\ \E i \in DOMAIN lists[fr[id]] :
                                lists[fr[id]][i] = id

Once(lists) ==
    \A n \in DOMAIN lists : \A i, j \in DOMAIN lists[n] :
        lists[n][i] = lists[n][j] => i = j

Typed(lists, fr) ==
    /\ DOMAIN fr \subseteq Key /\ fr \in [DOMAIN fr -> Freqs]
    /\ DOMAIN lists \subseteq Freqs /\ lists \in [DOMAIN lists -> Seq(Key)]
    /\ \A n \in DOMAIN lists : lists[n] # <<>>

Agree(lists, fr) ==
    Typed(lists, fr) /\ Listed(lists, fr) /\ Cached(lists, fr) /\ Once(lists)

(* The inductive invariant in these terms.                                 *)
LEMMA IInvIsAgree ==
    IInv <=> /\ records \subseteq Key /\ usage \in 0..MaxUsage
             /\ pc \in {"idle", "evicting"} /\ minFreq \in 0..MaxFreq
             /\ Agree(freqList, freq)
             /\ NodesMatchRecords
             /\ minFreq \in AnyFreqOf(freqList)
  BY DEF IInv, TypeOK, CacheConsistent, ListedHaveFreq, CachedAreListed,
         ListedOnce, MinFreqIsListed, IsInjective, Agree, Typed, Listed,
         Cached, Once

(* Adding a new key at the end of a list.                                  *)
LEMMA AddKey ==
    ASSUME NEW lists, NEW fr, Agree(lists, fr),
           NEW id \in Key, id \notin DOMAIN fr, NEW n \in Freqs
    PROVE  /\ Agree(PushBack(lists, n, id), Put(fr, id, n))
           /\ DOMAIN PushBack(lists, n, id) = DOMAIN lists \cup {n}
  <1> DEFINE old == ListAt(lists, n)
             new == Append(old, id)
             ls  == PushBack(lists, n, id)
             fs  == Put(fr, id, n)
  <1>1. old \in Seq(Key)
    BY DEF Agree, Typed, ListAt
  <1>2. /\ new \in Seq(Key) /\ new # <<>>
        /\ DOMAIN new = 1..(Len(old) + 1) /\ new[Len(old) + 1] = id
        /\ \A i \in DOMAIN old : new[i] = old[i]
        /\ DOMAIN old = 1..Len(old) /\ Len(old) \in Nat
    BY <1>1, AppendFact
  <1>3. /\ DOMAIN ls = DOMAIN lists \cup {n}
        /\ ls[n] = new
        /\ \A m \in DOMAIN lists : m # n => ls[m] = lists[m]
    BY DEF PushBack, Put
  <1>4. /\ DOMAIN fs = DOMAIN fr \cup {id}
        /\ fs[id] = n
        /\ \A k \in DOMAIN fr : k # id => fs[k] = fr[k]
    BY DEF Put
  <1>5. /\ n \in DOMAIN lists => old = lists[n]
        /\ n \notin DOMAIN lists => old = <<>>
    BY DEF ListAt
  <1>6. \A i \in DOMAIN old : old[i] \in DOMAIN fr /\ fr[old[i]] = n
    BY <1>5 DEF Agree, Listed
  <1> HIDE DEF old, new
  <1>7. Typed(ls, fs)
    <2>1. fs \in [DOMAIN fs -> Freqs] /\ DOMAIN fs \subseteq Key
      BY DEF Put, Agree, Typed
    <2>2. ls \in [DOMAIN ls -> Seq(Key)] /\ DOMAIN ls \subseteq Freqs
      BY <1>2, <1>3 DEF PushBack, Put, Agree, Typed, new, old
    <2> HIDE DEF ls, fs
    <2> QED
      BY <1>2, <1>3, <2>1, <2>2 DEF Agree, Typed
  <1> HIDE DEF ls, fs
  <1>8. Listed(ls, fs)
    BY <1>2, <1>3, <1>4, <1>6 DEF Agree, Listed
  <1>9. Cached(ls, fs)
    <2> SUFFICES ASSUME NEW k \in DOMAIN fs
                 PROVE  fs[k] \in DOMAIN ls /\ \E i \in DOMAIN ls[fs[k]] :
                            ls[fs[k]][i] = k
      BY DEF Cached
    <2>1. CASE k = id
      BY <1>2, <1>3, <1>4, <2>1
    <2>2. CASE k # id
      <3>1. fs[k] = fr[k] /\ fr[k] \in DOMAIN lists
        BY <1>4, <2>2 DEF Agree, Cached
      <3>2. PICK i \in DOMAIN lists[fr[k]] : lists[fr[k]][i] = k
        BY <1>4, <2>2 DEF Agree, Cached
      <3> QED
        BY <1>2, <1>3, <1>5, <3>1, <3>2
    <2> QED
      BY <2>1, <2>2
  <1>10. Once(ls)
    BY <1>2, <1>3, <1>5, <1>6 DEF Agree, Once
  <1> QED
    BY <1>3, <1>7, <1>8, <1>9, <1>10 DEF Agree, ls, fs

(* Removing a cached key from its list and from the nodes.                 *)
LEMMA DropKey ==
    ASSUME NEW lists, NEW fr, Agree(lists, fr),
           NEW n \in DOMAIN lists, NEW p \in DOMAIN lists[n],
           NEW id, id = lists[n][p]
    PROVE  LET ls == SetList(lists, n, RemoveAt(lists[n], p))
           IN  /\ Agree(ls, Restrict(fr, DOMAIN fr \ {id}))
               /\ DOMAIN ls = DOMAIN lists \/ DOMAIN ls = DOMAIN lists \ {n}
  <1> DEFINE old  == lists[n]
             rest == RemoveAt(old, p)
             ls   == SetList(lists, n, rest)
             fs   == Restrict(fr, DOMAIN fr \ {id})
  <1>1. old \in Seq(Key) /\ n \in Freqs
    BY DEF Agree, Typed
  <1>2. /\ rest \in Seq(Key) /\ Len(rest) = Len(old) - 1
        /\ \A i \in 1..(Len(old) - 1) :
              rest[i] = IF i < p THEN old[i] ELSE old[i + 1]
        /\ Len(old) \in Nat /\ Len(old) >= 1 /\ DOMAIN old = 1..Len(old)
    BY <1>1, RemoveAtFact
  <1>3. DOMAIN rest = 1..(Len(old) - 1) /\ p \in 1..Len(old)
    BY <1>2
  <1>4. /\ rest # <<>> => /\ DOMAIN ls = DOMAIN lists /\ ls[n] = rest
                          /\ \A m \in DOMAIN lists : m # n => ls[m] = lists[m]
        /\ rest = <<>> => /\ DOMAIN ls = DOMAIN lists \ {n}
                          /\ \A m \in DOMAIN ls : ls[m] = lists[m]
    BY DEF SetList, Put, Restrict
  <1>5. /\ DOMAIN fs = DOMAIN fr \ {id}
        /\ \A k \in DOMAIN fs : fs[k] = fr[k]
    BY DEF Restrict
  <1>6. /\ \A i, j \in DOMAIN old : old[i] = old[j] => i = j
        /\ \A i \in DOMAIN old : old[i] \in DOMAIN fr /\ fr[old[i]] = n
        /\ id = old[p]
    BY DEF Agree, Once, Listed
  (* What is left in the list: everything but id.                          *)
  <1>7. /\ \A i \in DOMAIN rest :
              \E j \in DOMAIN old : j # p /\ rest[i] = old[j]
        /\ \A j \in DOMAIN old :
              j # p => \E i \in DOMAIN rest : rest[i] = old[j]
        /\ \A i, j \in DOMAIN rest : rest[i] = rest[j] => i = j
    <2> HIDE DEF old, rest
    <2>1. ASSUME NEW i \in DOMAIN rest
          PROVE  \E j \in DOMAIN old : j # p /\ rest[i] = old[j]
      <3>1. CASE i < p
        BY <1>2, <1>3, <3>1
      <3>2. CASE ~(i < p)
        <4>1. i + 1 \in DOMAIN old /\ i + 1 # p /\ rest[i] = old[i + 1]
          BY <1>2, <1>3, <3>2
        <4> QED
          BY <4>1
      <3> QED
        BY <3>1, <3>2
    <2>2. ASSUME NEW j \in DOMAIN old, j # p
          PROVE  \E i \in DOMAIN rest : rest[i] = old[j]
      <3>1. CASE j < p
        <4>1. j \in DOMAIN rest /\ rest[j] = old[j]
          BY <1>2, <1>3, <3>1
        <4> QED
          BY <4>1
      <3>2. CASE ~(j < p)
        <4>1. j - 1 \in DOMAIN rest /\ rest[j - 1] = old[(j - 1) + 1]
          BY <1>2, <1>3, <2>2, <3>2
        <4>2. (j - 1) + 1 = j
          BY <1>2
        <4> QED
          BY <4>1, <4>2
      <3> QED
        BY <3>1, <3>2
    <2>3. \A i, j \in DOMAIN rest : rest[i] = rest[j] => i = j
      <3> SUFFICES ASSUME NEW i \in DOMAIN rest, NEW j \in DOMAIN rest,
                          rest[i] = rest[j]
                   PROVE  i = j
        OBVIOUS
      <3> DEFINE up(x) == IF x < p THEN x ELSE x + 1
      <3>1. /\ up(i) \in DOMAIN old /\ rest[i] = old[up(i)]
            /\ up(j) \in DOMAIN old /\ rest[j] = old[up(j)]
        BY <1>2, <1>3
      <3>2. up(i) = up(j)
        BY <1>6, <3>1
      <3> QED
        BY <1>3, <1>2, <3>2
    <2> QED
      BY <2>1, <2>2, <2>3
  <1>8. Typed(ls, fs)
    <2>1. fs \in [DOMAIN fs -> Freqs] /\ DOMAIN fs \subseteq Key
      BY DEF Restrict, Agree, Typed
    <2>2. ls \in [DOMAIN ls -> Seq(Key)] /\ DOMAIN ls \subseteq Freqs
      BY <1>2, <1>4 DEF SetList, Put, Restrict, Agree, Typed
    <2> HIDE DEF ls, fs, rest, old
    <2>3. \A m \in DOMAIN ls : ls[m] # <<>>
      BY <1>4 DEF Agree, Typed
    <2> QED
      BY <2>1, <2>2, <2>3 DEF Typed
  <1> HIDE DEF ls, fs, rest
  <1>9. Listed(ls, fs)
    <2> SUFFICES ASSUME NEW m \in DOMAIN ls, NEW i \in DOMAIN ls[m]
                 PROVE  ls[m][i] \in DOMAIN fs /\ fs[ls[m][i]] = m
      BY DEF Listed
    <2>1. CASE m = n
      BY <1>4, <1>5, <1>6, <1>7, <2>1
    <2>2. CASE m # n
      <3>1. ls[m] = lists[m] /\ m \in DOMAIN lists
        BY <1>4, <2>2
      <3>2. ls[m][i] \in DOMAIN fr /\ fr[ls[m][i]] = m
        BY <3>1 DEF Agree, Listed
      <3> QED
        BY <1>5, <1>6, <2>2, <3>2
    <2> QED
      BY <2>1, <2>2
  <1>10. Cached(ls, fs)
    <2> SUFFICES ASSUME NEW k \in DOMAIN fs
                 PROVE  fs[k] \in DOMAIN ls /\ \E i \in DOMAIN ls[fs[k]] :
                            ls[fs[k]][i] = k
      BY DEF Cached
    <2>1. k # id /\ fs[k] = fr[k] /\ k \in DOMAIN fr /\ fr[k] \in DOMAIN lists
      BY <1>5 DEF Agree, Cached
    <2>2. PICK j \in DOMAIN lists[fr[k]] : lists[fr[k]][j] = k
      BY <2>1 DEF Agree, Cached
    <2>3. CASE fr[k] = n
      <3>1. PICK i \in DOMAIN rest : rest[i] = k
        BY <1>6, <1>7, <2>1, <2>2, <2>3
      <3>2. rest # <<>>
        BY <3>1
      <3> QED
        BY <1>4, <2>1, <2>3, <3>1, <3>2
    <2>4. CASE fr[k] # n
      BY <1>4, <2>1, <2>2, <2>4
    <2> QED
      BY <2>3, <2>4
  <1>11. Once(ls)
    BY <1>4, <1>7 DEF Agree, Once
  <1> QED
    BY <1>4, <1>8, <1>9, <1>10, <1>11 DEF Agree, ls, fs, rest

-----------------------------------------------------------------------------
(* The initial state.                                                      *)
LEMMA InitIInv == Init => IInv
  <1> SUFFICES ASSUME Init PROVE IInv
    OBVIOUS
  <1>1. /\ freq = <<>> /\ freqList = <<>>
        /\ DOMAIN freq = {} /\ DOMAIN freqList = {}
    BY DEF Init
  <1>2. Agree(freqList, freq)
    BY <1>1 DEF Agree, Typed, Listed, Cached, Once
  <1>3. NodesMatchRecords /\ minFreq \in AnyFreqOf(freqList)
    BY <1>1 DEF Init, NodesMatchRecords, AnyFreqOf
  <1> QED
    BY <1>2, <1>3, IInvIsAgree, MaxFreqAssumption DEF Init

(* IInvIsAgree for the state after a step.                                 *)
LEMMA IInvPrime ==
    ASSUME records' \subseteq Key, usage' \in 0..MaxUsage,
           pc' \in {"idle", "evicting"}, minFreq' \in 0..MaxFreq,
           Agree(freqList', freq'), DOMAIN freq' = records',
           minFreq' \in AnyFreqOf(freqList')
    PROVE  IInv'
  BY DEF IInv, TypeOK, CacheConsistent, ListedHaveFreq, CachedAreListed,
         ListedOnce, MinFreqIsListed, IsInjective, Agree, Typed, Listed,
         Cached, Once, NodesMatchRecords

(* What begin() may answer is a frequency of the map or 0.                 *)
LEMMA AnyFreqFact ==
    ASSUME NEW lists, DOMAIN lists \subseteq Freqs, NEW n \in AnyFreqOf(lists)
    PROVE  n \in 0..MaxFreq
  BY MaxFreqAssumption DEF AnyFreqOf, Freqs

(* insertRecord keeps the invariant: the new key starts a list of          *)
(* frequency 1, and minFreq = 1 names it.                                  *)
LEMMA InsertIInv ==
    ASSUME IInv, NEW id \in Key, InsertRecord(id) PROVE IInv'
  <1>1. /\ Agree(freqList, freq) /\ DOMAIN freq = records
        /\ records \subseteq Key /\ usage \in 0..MaxUsage
    BY IInvIsAgree DEF NodesMatchRecords
  <1>2. 1 \in Freqs /\ id \notin DOMAIN freq
    BY <1>1, MaxFreqAssumption DEF Freqs, InsertRecord
  <1>3. /\ freq' = Put(freq, id, 1) /\ freqList' = PushBack(freqList, 1, id)
        /\ minFreq' = 1 /\ records' = records \cup {id}
        /\ pc' = "evicting" /\ usage' \in usage..MaxUsage
    BY DEF InsertRecord, InsertKey
  <1>4. /\ Agree(freqList', freq')
        /\ DOMAIN freqList' = DOMAIN freqList \cup {1}
    BY <1>1, <1>2, <1>3, AddKey
  <1>5. DOMAIN freq' = records'
    BY <1>1, <1>3 DEF Put
  <1>6. minFreq' \in AnyFreqOf(freqList') /\ minFreq' \in 0..MaxFreq
    BY <1>3, <1>4, MaxFreqAssumption DEF AnyFreqOf
  <1>7. usage' \in 0..MaxUsage
    BY <1>1, <1>3, CapacityAssumption
  <1> QED
    BY <1>1, <1>3, <1>4, <1>5, <1>6, <1>7, IInvPrime

(* touch keeps it: the key leaves one list and enters the next, and        *)
(* minFreq follows it when it named the list that vanished.                *)
LEMMA TouchIInv ==
    ASSUME IInv, NEW id \in Key, Touch(id) PROVE IInv'
  <1> DEFINE oldFreq == freq[id]
             newFreq == oldFreq + 1
             p       == Position(freqList[oldFreq], id)
             erased  == EraseFrom(freqList, oldFreq, id)
             less    == Restrict(freq, DOMAIN freq \ {id})
  <1>1. /\ Agree(freqList, freq) /\ DOMAIN freq = records
        /\ records \subseteq Key /\ usage \in 0..MaxUsage
        /\ pc \in {"idle", "evicting"}
        /\ minFreq \in AnyFreqOf(freqList)
    BY IInvIsAgree DEF NodesMatchRecords
  <1>2. /\ id \in DOMAIN freq /\ freq[id] < MaxFreq
        /\ freq' = [freq EXCEPT ![id] = newFreq]
        /\ freqList' = PushBack(erased, newFreq, id)
        /\ minFreq' = IF oldFreq \notin DOMAIN erased /\ minFreq = oldFreq
                      THEN newFreq ELSE minFreq
        /\ UNCHANGED <<records, usage, pc>>
    BY DEF Touch
  <1>3. /\ oldFreq \in DOMAIN freqList /\ p \in DOMAIN freqList[oldFreq]
        /\ id = freqList[oldFreq][p]
    BY <1>1, <1>2 DEF Agree, Cached, Position
  <1>4. oldFreq \in Freqs /\ newFreq \in Freqs
    BY <1>1, <1>2, MaxFreqAssumption DEF Agree, Typed, Freqs
  <1>5. /\ Agree(erased, less)
        /\ \/ DOMAIN erased = DOMAIN freqList
           \/ DOMAIN erased = DOMAIN freqList \ {oldFreq}
    BY <1>1, <1>3, DropKey DEF EraseFrom
  <1>6. id \notin DOMAIN less /\ DOMAIN less = DOMAIN freq \ {id}
    BY DEF Restrict
  <1>7. freq' = Put(less, id, newFreq)
    <2>1. freq \in [DOMAIN freq -> Freqs]
      BY <1>1 DEF Agree, Typed
    <2> QED
      BY <1>2, <2>1 DEF Put, Restrict
  <1> HIDE DEF erased, less
  <1>8. /\ Agree(freqList', freq')
        /\ DOMAIN freqList' = DOMAIN erased \cup {newFreq}
    <2> HIDE DEF newFreq
    <2>1. /\ Agree(PushBack(erased, newFreq, id), Put(less, id, newFreq))
          /\ DOMAIN PushBack(erased, newFreq, id) = DOMAIN erased \cup {newFreq}
      BY <1>4, <1>5, <1>6, AddKey
    <2> QED
      BY <1>2, <1>7, <2>1
  <1>9. minFreq' \in AnyFreqOf(freqList')
    BY <1>1, <1>2, <1>3, <1>5, <1>8 DEF AnyFreqOf
  <1>10. minFreq' \in 0..MaxFreq
    BY <1>8, <1>9, AnyFreqFact DEF Agree, Typed
  <1>11. DOMAIN freq' = records'
    BY <1>1, <1>2
  <1> QED
    BY <1>1, <1>2, <1>8, <1>9, <1>10, <1>11, IInvPrime

(* deleteRecord keeps it.                                                  *)
LEMMA RemoveIInv ==
    ASSUME IInv, NEW id \in Key, RemoveKey(id) PROVE IInv'
  <1> DEFINE n == freq[id]
             p == Position(freqList[n], id)
  <1>1. /\ Agree(freqList, freq) /\ DOMAIN freq = records
        /\ records \subseteq Key /\ usage \in 0..MaxUsage
        /\ pc \in {"idle", "evicting"}
        /\ minFreq \in AnyFreqOf(freqList) /\ minFreq \in 0..MaxFreq
    BY IInvIsAgree DEF NodesMatchRecords
  <1>2. /\ id \in DOMAIN freq
        /\ freqList' = EraseFrom(freqList, n, id)
        /\ freq' = Restrict(freq, DOMAIN freq \ {id})
        /\ records' = records \ {id}
        /\ IF minFreq = n /\ n \notin DOMAIN freqList'
           THEN minFreq' \in AnyFreqOf(freqList') ELSE minFreq' = minFreq
        /\ usage' \in 0..usage /\ pc' = pc
    BY DEF RemoveKey
  <1>3. n \in DOMAIN freqList /\ p \in DOMAIN freqList[n]
        /\ id = freqList[n][p]
    BY <1>1, <1>2 DEF Agree, Cached, Position
  <1>4. /\ Agree(freqList', freq')
        /\ \/ DOMAIN freqList' = DOMAIN freqList
           \/ DOMAIN freqList' = DOMAIN freqList \ {n}
    BY <1>1, <1>2, <1>3, DropKey DEF EraseFrom
  <1>5. minFreq' \in AnyFreqOf(freqList')
    BY <1>1, <1>2, <1>3, <1>4 DEF AnyFreqOf
  <1>6. minFreq' \in 0..MaxFreq
    BY <1>4, <1>5, AnyFreqFact DEF Agree, Typed
  <1>7. DOMAIN freq' = records' /\ records' \subseteq Key
    BY <1>1, <1>2 DEF Restrict
  <1>8. usage' \in 0..MaxUsage
    BY <1>1, <1>2, CapacityAssumption
  <1> QED
    BY <1>1, <1>2, <1>4, <1>5, <1>6, <1>7, <1>8, IInvPrime

(* A turn of the eviction loop keeps it, and its victim is a stored key.   *)
LEMMA EvictOneIInv ==
    ASSUME IInv, EvictOne
    PROVE  IInv' /\ \E id \in records : id \in Key /\ records' = records \ {id}
  <1> DEFINE list   == freqList[minFreq]
             victim == Head(list)
  <1>1. /\ Agree(freqList, freq) /\ DOMAIN freq = records
        /\ records \subseteq Key /\ usage \in 0..MaxUsage
        /\ pc \in {"idle", "evicting"}
    BY IInvIsAgree DEF NodesMatchRecords
  <1>2. /\ minFreq \in DOMAIN freqList
        /\ freq' = Restrict(freq, DOMAIN freq \ {victim})
        /\ records' = records \ {victim}
        /\ freqList' = PopFront(freqList, minFreq)
        /\ minFreq' \in AnyFreqOf(freqList')
        /\ usage' \in 0..usage /\ pc' = pc
    BY DEF EvictOne, ListAt
  <1>3. list \in Seq(Key) /\ list # <<>>
    BY <1>1, <1>2 DEF Agree, Typed
  <1>4. Tail(list) = RemoveAt(list, 1) /\ 1 \in DOMAIN list /\ victim = list[1]
    BY <1>3, TailFact
  <1>5. freqList' = SetList(freqList, minFreq, RemoveAt(list, 1))
    BY <1>2, <1>4 DEF PopFront
  <1>6. Agree(freqList', freq')
    <2> HIDE DEF victim
    <2>1. Agree(SetList(freqList, minFreq, RemoveAt(list, 1)),
                Restrict(freq, DOMAIN freq \ {victim}))
      BY <1>1, <1>2, <1>4, DropKey, Zenon
    <2> QED
      BY <1>2, <1>5, <2>1
  <1>7. minFreq' \in 0..MaxFreq
    BY <1>2, <1>6, AnyFreqFact DEF Agree, Typed
  <1>8. DOMAIN freq' = records' /\ records' \subseteq Key
    BY <1>1, <1>2 DEF Restrict
  <1>9. usage' \in 0..MaxUsage
    BY <1>1, <1>2, CapacityAssumption
  <1>10. victim \in records /\ victim \in Key
    BY <1>1, <1>2, <1>4 DEF Agree, Listed
  <1>11. IInv'
    BY <1>1, <1>2, <1>6, <1>7, <1>8, <1>9, IInvPrime
  <1> QED
    BY <1>2, <1>10, <1>11

(* The end of the loop keeps it: the "break" is never the reason.          *)
LEMMA EvictDoneIInv ==
    ASSUME IInv, EvictDone
    PROVE  IInv' /\ ~MustEvict /\ (usage <= CapacityBytes \/ records = {})
  <1>1. /\ Agree(freqList, freq) /\ DOMAIN freq = records
        /\ records \subseteq Key /\ usage \in 0..MaxUsage
        /\ minFreq \in AnyFreqOf(freqList) /\ minFreq \in 0..MaxFreq
    BY IInvIsAgree DEF NodesMatchRecords
  <1>2. ~MustEvict
    BY <1>1 DEF EvictDone, MustEvict, ListAt, AnyFreqOf, Agree, Typed
  <1>3. /\ freqList' = freqList /\ pc' = "idle"
        /\ UNCHANGED <<records, freq, minFreq, usage>>
    BY <1>2 DEF EvictDone
  <1>4. IInv'
    BY <1>1, <1>3, IInvPrime
  <1>5. usage <= CapacityBytes \/ DOMAIN freqList = {}
    BY <1>1, <1>2, CapacityAssumption DEF MustEvict
  <1>6. DOMAIN freqList = {} => records = {}
    BY <1>1 DEF Agree, Cached
  <1> QED
    BY <1>2, <1>4, <1>5, <1>6

(* The memory counter alone, and stuttering.                               *)
LEMMA FrameIInv ==
    ASSUME IInv, OtherMemory \/ UNCHANGED vars PROVE IInv'
  <1>1. UNCHANGED <<records, freq, freqList, minFreq, pc>>
        /\ usage' \in 0..MaxUsage
    BY IInvIsAgree DEF OtherMemory, vars
  <1> QED
    BY <1>1, IInvIsAgree, IInvPrime DEF NodesMatchRecords

-----------------------------------------------------------------------------
(* The types and the consistency of the LFU structures hold in every       *)
(* reachable state of MemoryManager.                                       *)
THEOREM CacheConsistency == Spec => [](TypeOK /\ CacheConsistent)
  <1>1. IInv /\ [Next]_vars => IInv'
    BY InsertIInv, TouchIInv, RemoveIInv, EvictOneIInv, EvictDoneIInv,
       FrameIInv DEF Next
  <1> QED
    BY InitIInv, <1>1, PTL DEF Spec, IInv

(* Every variable has its type in every reachable state: frequencies stay  *)
(* between 1 and the bound, and minFreq is one of them or 0.               *)
THEOREM TypeCorrect == Spec => []TypeOK
  BY CacheConsistency, PTL

(* MemoryManager implements BoundedStore: a call of evictIfNeeded ends     *)
(* only within the capacity or with nothing left to evict.                 *)
THEOREM Refinement == Spec => ImplementsBoundedStore
  <1> USE DEF Store!vars
  <1>1. Init => Store!Init
    BY CapacityAssumption DEF Init, Store!Init
  <1>2. ASSUME IInv, [Next]_vars PROVE [Store!Next]_(Store!vars)
    <2>1. usage \in Nat /\ pc \in {"idle", "evicting"}
      BY <1>2, IInvIsAgree, CapacityAssumption
    <2>2. usage' \in Nat /\ records \subseteq Key /\ IInv'
      <3>1. IInv'
        BY <1>2, InsertIInv, TouchIInv, RemoveIInv, EvictOneIInv,
           EvictDoneIInv, FrameIInv DEF Next
      <3> QED
        BY <1>2, <3>1, IInvIsAgree, CapacityAssumption DEF IInv, TypeOK
    <2>3. CASE OtherMemory
      BY <2>2, <2>3 DEF OtherMemory, Store!Next, Store!Memory
    <2>4. ASSUME NEW id \in Key, InsertRecord(id) PROVE Store!Next
      BY <2>2, <2>4 DEF InsertRecord, Store!Next, Store!Insert
    <2>5. ASSUME NEW id \in Key, Touch(id) PROVE UNCHANGED Store!vars
      BY <2>5 DEF Touch
    <2>6. ASSUME NEW id \in Key, RemoveKey(id) PROVE Store!Next
      BY <2>2, <2>6 DEF RemoveKey, Store!Next, Store!Delete
    <2>7. CASE EvictOne
      <3>1. PICK id \in records : id \in Key /\ records' = records \ {id}
        BY <1>2, <2>7, EvictOneIInv
      <3>2. Store!Evict(id)
        BY <2>2, <2>7, <3>1 DEF EvictOne, MustEvict, Store!Evict
      <3> QED
        BY <3>1, <3>2 DEF Store!Next
    <2>8. CASE EvictDone
      BY <1>2, <2>8, EvictDoneIInv DEF EvictDone, Store!Next, Store!Finish
    <2>9. CASE UNCHANGED vars
      BY <2>9 DEF vars
    <2> QED
      BY <1>2, <2>3, <2>4, <2>5, <2>6, <2>7, <2>8, <2>9 DEF Next
  <1>3. Spec => []IInv
    BY CacheConsistency, PTL DEF IInv
  <1> QED
    BY <1>1, <1>2, <1>3, PTL DEF Spec, ImplementsBoundedStore, Store!Spec

-----------------------------------------------------------------------------
(* The order of eviction.  Each list holds its keys in the order ord; the  *)
(* converse follows when no two keys are each older than the other.        *)
Ordered(lists, ord) ==
    \A n \in DOMAIN lists : \A i, j \in DOMAIN lists[n] :
        i < j => lists[n][i] \in ord[lists[n][j]]

Asymmetric(ord) ==
    \A a, b \in DOMAIN ord : a \in ord[b] => b \notin ord[a]

(* The inductive invariant of the order.                                   *)
OrderInv ==
    /\ IInv
    /\ DOMAIN older = records
    /\ Ordered(freqList, older) /\ Asymmetric(older)

LEMMA OrderInvLists == OrderInv => ListsAreInRecencyOrder
  <1> SUFFICES ASSUME OrderInv, NEW n \in DOMAIN freqList,
                      NEW i \in DOMAIN freqList[n], NEW j \in DOMAIN freqList[n]
               PROVE  i < j <=> freqList[n][i] \in older[freqList[n][j]]
    BY DEF ListsAreInRecencyOrder
  <1>1. freqList[n] \in Seq(Key)
    BY DEF OrderInv, IInv, TypeOK
  <1>2. i \in Nat /\ j \in Nat
    BY <1>1
  <1>3. freqList[n][i] \in DOMAIN older /\ freqList[n][j] \in DOMAIN older
    BY DEF OrderInv, IInv, CacheConsistent, ListedHaveFreq, NodesMatchRecords
  <1>4. i < j => freqList[n][i] \in older[freqList[n][j]]
    BY DEF OrderInv, Ordered
  <1>5. j < i => freqList[n][j] \in older[freqList[n][i]]
    BY DEF OrderInv, Ordered
  <1>6. i < j \/ j < i \/ i = j
    BY <1>2
  <1> QED
    BY <1>3, <1>4, <1>5, <1>6 DEF OrderInv, Asymmetric

(* A new key at the end of a list is younger than all the others.          *)
LEMMA AddOrdered ==
    ASSUME NEW lists, NEW fr, Agree(lists, fr), NEW ord, Ordered(lists, ord),
           NEW id \in Key, NEW n \in Freqs, ord[id] = DOMAIN fr
    PROVE  Ordered(PushBack(lists, n, id), ord)
  <1> DEFINE old == ListAt(lists, n)
             ls  == PushBack(lists, n, id)
  <1>1. old \in Seq(Key)
    BY DEF Agree, Typed, ListAt
  <1>2. /\ DOMAIN ls = DOMAIN lists \cup {n} /\ ls[n] = Append(old, id)
        /\ \A m \in DOMAIN lists : m # n => ls[m] = lists[m]
    BY DEF PushBack, Put
  <1>3. /\ DOMAIN Append(old, id) = 1..(Len(old) + 1)
        /\ Append(old, id)[Len(old) + 1] = id
        /\ \A i \in DOMAIN old : Append(old, id)[i] = old[i]
        /\ DOMAIN old = 1..Len(old) /\ Len(old) \in Nat
    BY <1>1, AppendFact
  <1>4. old = <<>> \/ (n \in DOMAIN lists /\ old = lists[n])
    BY DEF ListAt
  <1> HIDE DEF ls, old
  <1> SUFFICES ASSUME NEW m \in DOMAIN ls,
                      NEW i \in DOMAIN ls[m], NEW j \in DOMAIN ls[m], i < j
               PROVE  ls[m][i] \in ord[ls[m][j]]
    BY DEF Ordered, ls
  <1>5. CASE m # n
    BY <1>2, <1>5 DEF Ordered
  <1>6. CASE m = n
    <2>1. i \in DOMAIN old /\ ls[m][i] = old[i]
      BY <1>2, <1>3, <1>6
    <2>2. n \in DOMAIN lists /\ old = lists[n]
      BY <1>4, <2>1
    <2>3. old[i] \in DOMAIN fr
      BY <2>1, <2>2 DEF Agree, Listed
    <2>4. CASE j = Len(old) + 1
      BY <1>2, <1>3, <1>6, <2>1, <2>3, <2>4
    <2>5. CASE j # Len(old) + 1
      <3>1. j \in DOMAIN old /\ ls[m][j] = old[j]
        BY <1>2, <1>3, <1>6, <2>5
      <3> QED
        BY <2>1, <2>2, <3>1 DEF Ordered
    <2> QED
      BY <2>4, <2>5
  <1> QED
    BY <1>5, <1>6

(* Removing a key leaves the order of the others.                          *)
LEMMA DropOrdered ==
    ASSUME NEW lists, NEW fr, Agree(lists, fr), NEW ord, Ordered(lists, ord),
           NEW n \in DOMAIN lists, NEW p \in DOMAIN lists[n]
    PROVE  Ordered(SetList(lists, n, RemoveAt(lists[n], p)), ord)
  <1> DEFINE old  == lists[n]
             rest == RemoveAt(old, p)
             ls   == SetList(lists, n, rest)
  <1>1. old \in Seq(Key)
    BY DEF Agree, Typed
  <1>2. /\ rest \in Seq(Key) /\ Len(rest) = Len(old) - 1
        /\ \A i \in 1..(Len(old) - 1) :
              rest[i] = IF i < p THEN old[i] ELSE old[i + 1]
        /\ Len(old) \in Nat /\ Len(old) >= 1 /\ DOMAIN old = 1..Len(old)
    BY <1>1, RemoveAtFact
  <1>3. DOMAIN rest = 1..(Len(old) - 1) /\ p \in 1..Len(old)
    BY <1>2
  <1>4. /\ rest # <<>> => /\ DOMAIN ls = DOMAIN lists /\ ls[n] = rest
                          /\ \A m \in DOMAIN lists : m # n => ls[m] = lists[m]
        /\ rest = <<>> => /\ DOMAIN ls = DOMAIN lists \ {n}
                          /\ \A m \in DOMAIN ls : ls[m] = lists[m]
    BY DEF SetList, Put, Restrict
  <1> HIDE DEF ls, rest
  <1> SUFFICES ASSUME NEW m \in DOMAIN ls,
                      NEW i \in DOMAIN ls[m], NEW j \in DOMAIN ls[m], i < j
               PROVE  ls[m][i] \in ord[ls[m][j]]
    BY DEF Ordered, ls, rest
  <1>5. CASE m # n
    BY <1>4, <1>5 DEF Ordered
  <1>6. CASE m = n
    <2>1. ls[m] = rest /\ i \in DOMAIN rest /\ j \in DOMAIN rest
      BY <1>4, <1>6
    <2> DEFINE up(x) == IF x < p THEN x ELSE x + 1
    <2>2. /\ up(i) \in DOMAIN old /\ rest[i] = old[up(i)]
          /\ up(j) \in DOMAIN old /\ rest[j] = old[up(j)]
          /\ up(i) < up(j)
      BY <1>2, <1>3, <2>1
    <2> HIDE DEF up
    <2> QED
      BY <2>1, <2>2 DEF Ordered
  <1> QED
    BY <1>5, <1>6

(* Only the order of the keys that are listed matters.                     *)
LEMMA RestrictOrdered ==
    ASSUME NEW lists, NEW fr, Agree(lists, fr), NEW ord, Ordered(lists, ord),
           NEW new, \A k \in DOMAIN fr : new[k] = ord[k] \cap DOMAIN fr
    PROVE  Ordered(lists, new)
  BY DEF Ordered, Agree, Listed

(* What a step does to the order.                                          *)
LEMMA AccessOrder ==
    ASSUME OrderInv, RecordAccess, records' \ Accessed \subseteq records
    PROVE  DOMAIN older' = records' /\ Asymmetric(older')
  BY DEF OrderInv, Asymmetric, RecordAccess

LEMMA InsertOrder ==
    ASSUME OrderInv, IInv', NEW id \in Key, InsertRecord(id), RecordAccess
    PROVE  Ordered(freqList', older')
  <1>1. /\ Agree(freqList, freq) /\ DOMAIN freq = records
    BY IInvIsAgree DEF OrderInv, NodesMatchRecords
  <1>2. 1 \in Freqs /\ id \notin DOMAIN freq
    BY <1>1, MaxFreqAssumption DEF Freqs, InsertRecord
  <1>3. /\ freq' = Put(freq, id, 1) /\ freqList' = PushBack(freqList, 1, id)
        /\ records' = records \cup {id}
    BY DEF InsertRecord, InsertKey
  <1>4. Accessed = {id} /\ records' \ {id} = records
    BY <1>1, <1>2, <1>3 DEF Accessed, Put
  <1>5. /\ \A k \in DOMAIN freq : older'[k] = older[k] \cap DOMAIN freq
        /\ older'[id] = DOMAIN freq
    BY <1>1, <1>2, <1>3, <1>4 DEF RecordAccess
  <1>6. Ordered(freqList, older')
    BY <1>1, <1>5, RestrictOrdered DEF OrderInv
  <1> QED
    BY <1>1, <1>2, <1>3, <1>5, <1>6, AddOrdered

LEMMA TouchOrder ==
    ASSUME OrderInv, IInv', NEW id \in Key, Touch(id), RecordAccess
    PROVE  Ordered(freqList', older')
  <1> DEFINE oldFreq == freq[id]
             newFreq == oldFreq + 1
             p       == Position(freqList[oldFreq], id)
             erased  == EraseFrom(freqList, oldFreq, id)
             less    == Restrict(freq, DOMAIN freq \ {id})
  <1>1. Agree(freqList, freq) /\ DOMAIN freq = records
    BY IInvIsAgree DEF OrderInv, NodesMatchRecords
  <1>2. /\ id \in DOMAIN freq /\ freq[id] < MaxFreq
        /\ freq' = [freq EXCEPT ![id] = newFreq]
        /\ freqList' = PushBack(erased, newFreq, id)
        /\ records' = records
    BY DEF Touch
  <1>3. /\ oldFreq \in DOMAIN freqList /\ p \in DOMAIN freqList[oldFreq]
        /\ id = freqList[oldFreq][p]
    BY <1>1, <1>2 DEF Agree, Cached, Position
  <1>4. oldFreq \in Freqs /\ newFreq \in Freqs
    BY <1>1, <1>2, MaxFreqAssumption DEF Agree, Typed, Freqs
  <1>5. Agree(erased, less) /\ Ordered(erased, older)
    BY <1>1, <1>3, DropKey, DropOrdered DEF EraseFrom, OrderInv
  <1>6. DOMAIN less = records \ {id}
    BY <1>1 DEF Restrict
  <1>7. Accessed = {id}
    <2>1. newFreq # oldFreq
      BY <1>4 DEF Freqs
    <2> QED
      BY <1>2, <2>1 DEF Accessed
  <1>8. /\ \A k \in DOMAIN less : older'[k] = older[k] \cap DOMAIN less
        /\ older'[id] = DOMAIN less /\ id \notin DOMAIN less
    BY <1>1, <1>2, <1>6, <1>7 DEF RecordAccess
  <1> HIDE DEF erased, less, newFreq
  <1>9. Ordered(erased, older')
    BY <1>5, <1>8, RestrictOrdered
  <1> QED
    BY <1>2, <1>4, <1>5, <1>8, <1>9, AddOrdered

LEMMA RemoveOrder ==
    ASSUME OrderInv, IInv', NEW id \in Key, RemoveKey(id), RecordAccess
    PROVE  Ordered(freqList', older')
  <1> DEFINE n == freq[id]
             p == Position(freqList[n], id)
  <1>1. Agree(freqList, freq) /\ DOMAIN freq = records
    BY IInvIsAgree DEF OrderInv, NodesMatchRecords
  <1>2. /\ id \in DOMAIN freq
        /\ freqList' = EraseFrom(freqList, n, id)
        /\ freq' = Restrict(freq, DOMAIN freq \ {id})
        /\ records' = records \ {id}
    BY DEF RemoveKey
  <1>3. n \in DOMAIN freqList /\ p \in DOMAIN freqList[n]
        /\ id = freqList[n][p]
    BY <1>1, <1>2 DEF Agree, Cached, Position
  <1>4. Agree(freqList', freq') /\ Ordered(freqList', older)
    BY <1>1, <1>2, <1>3, DropKey, DropOrdered DEF EraseFrom, OrderInv
  <1>5. Accessed = {} /\ DOMAIN freq' = records'
    BY <1>1, <1>2 DEF Accessed, Restrict
  <1>6. \A k \in DOMAIN freq' : older'[k] = older[k] \cap DOMAIN freq'
    BY <1>5 DEF RecordAccess
  <1> QED
    BY <1>4, <1>6, RestrictOrdered

LEMMA EvictOrder ==
    ASSUME OrderInv, IInv', EvictOne, RecordAccess
    PROVE  Ordered(freqList', older')
  <1> DEFINE list   == freqList[minFreq]
             victim == Head(list)
  <1>1. Agree(freqList, freq) /\ DOMAIN freq = records
    BY IInvIsAgree DEF OrderInv, NodesMatchRecords
  <1>2. /\ minFreq \in DOMAIN freqList
        /\ freq' = Restrict(freq, DOMAIN freq \ {victim})
        /\ records' = records \ {victim}
        /\ freqList' = PopFront(freqList, minFreq)
    BY DEF EvictOne, ListAt
  <1>3. list \in Seq(Key) /\ list # <<>>
    BY <1>1, <1>2 DEF Agree, Typed
  <1>4. Tail(list) = RemoveAt(list, 1) /\ 1 \in DOMAIN list /\ victim = list[1]
    BY <1>3, TailFact
  <1>5. freqList' = SetList(freqList, minFreq, RemoveAt(list, 1))
    BY <1>2, <1>4 DEF PopFront
  <1>6. Ordered(freqList', older)
    BY <1>1, <1>2, <1>4, <1>5, DropOrdered DEF OrderInv
  <1>7. Agree(freqList', freq')
    <2>1. IInv' => Agree(freqList, freq)'
      BY IInvIsAgree, PTL
    <2> QED
      BY <2>1 DEF Agree, Typed, Listed, Cached, Once
  <1>8. Accessed = {} /\ DOMAIN freq' = records'
    BY <1>1, <1>2 DEF Accessed, Restrict
  <1>9. \A k \in DOMAIN freq' : older'[k] = older[k] \cap DOMAIN freq'
    BY <1>8 DEF RecordAccess
  <1> QED
    BY <1>6, <1>7, <1>9, RestrictOrdered

LEMMA RestOrder ==
    ASSUME OrderInv, IInv', OtherMemory \/ EvictDone, RecordAccess
    PROVE  Ordered(freqList', older')
  <1>1. Agree(freqList, freq) /\ DOMAIN freq = records
    BY IInvIsAgree DEF OrderInv, NodesMatchRecords
  <1>2. UNCHANGED <<records, freq, freqList>>
    <2>1. CASE EvictDone
      BY <2>1, EvictDoneIInv DEF EvictDone, OrderInv
    <2> QED
      BY <2>1 DEF OtherMemory
  <1>3. \A k \in DOMAIN freq : older'[k] = older[k] \cap DOMAIN freq
    BY <1>1, <1>2 DEF Accessed, RecordAccess
  <1> QED
    BY <1>1, <1>2, <1>3, RestrictOrdered DEF OrderInv

(* The keys of one frequency are evicted in the order of their last        *)
(* access: whatever keys are touched, removed and evicted, every list is   *)
(* the order of access restricted to its keys.                             *)
THEOREM EvictionInRecencyOrder == HistSpec => []ListsAreInRecencyOrder
  <1>1. HistInit => OrderInv
    BY InitIInv
       DEF HistInit, Init, OrderInv, Ordered, Asymmetric
  <1>2. ASSUME OrderInv, [HistNext]_histvars PROVE OrderInv'
    <2>1. IInv'
      BY <1>2, InsertIInv, TouchIInv, RemoveIInv, EvictOneIInv, EvictDoneIInv,
         FrameIInv DEF HistNext, histvars, Next, OrderInv
    <2>2. CASE UNCHANGED histvars
      BY <1>2, <2>1, <2>2 DEF histvars, vars, OrderInv, Ordered, Asymmetric
    <2>3. CASE HistNext
      <3>1. records' \ Accessed \subseteq records
        <4>1. DOMAIN freq = records /\ DOMAIN freq' = records'
          BY <1>2, <2>1 DEF OrderInv, IInv, CacheConsistent, NodesMatchRecords
        <4> QED
          BY <4>1 DEF Accessed
      <3>2. DOMAIN older' = records' /\ Asymmetric(older')
        BY <1>2, <2>3, <3>1, AccessOrder DEF HistNext
      <3>3. Ordered(freqList', older')
        BY <1>2, <2>1, <2>3, InsertOrder, TouchOrder, RemoveOrder, EvictOrder,
           RestOrder DEF HistNext, Next
      <3> QED
        BY <2>1, <3>2, <3>3 DEF OrderInv, Ordered, Asymmetric
    <2> QED
      BY <1>2, <2>2, <2>3
  <1> QED
    BY <1>1, <1>2, OrderInvLists, PTL DEF HistSpec
=============================================================================
