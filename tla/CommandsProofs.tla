--------------------------- MODULE CommandsProofs ---------------------------
(***************************************************************************)
(* Proofs about module Commands: for any keys, words and widths, and for   *)
(* any sequence of commands, what a command may make of a record (Allowed, *)
(* one lemma per group of commands), and from it the types, the two action *)
(* properties and the registers of the HyperLogLogs; and that reading the  *)
(* file of a snapshot gives back the records it was made of.  What a       *)
(* function that recurses over a sequence computes is shown by lemma       *)
(* Induction, over the set of the numbers for which a statement holds.     *)
(***************************************************************************)
EXTENDS Commands, FiniteSetTheorems, WellFoundedInduction, TLAPS

(* Powers of two, as the numbers of subsets.                               *)
LEMMA PowerOfTwo ==
    ASSUME NEW n \in Nat
    PROVE  2^n \in Nat \ {0}
  <1>1. IsFiniteSet(1..n) /\ Cardinality(1..n) = n
    <2>1. 1 \in Int /\ n \in Int /\ (IF 1 > n THEN 0 ELSE n - 1 + 1) = n
      OBVIOUS
    <2> QED
      BY <2>1, FS_Interval
  <1>2. IsFiniteSet(SUBSET (1..n)) /\ Cardinality(SUBSET (1..n)) = 2^n
    BY <1>1, FS_SUBSET
  <1>3. Cardinality(SUBSET (1..n)) \in Nat /\ Cardinality(SUBSET (1..n)) # 0
    BY <1>2, FS_CardinalityType, FS_EmptySet
  <1> QED
    BY <1>2, <1>3

LEMMA SubsetsWithOneMore ==
    ASSUME NEW S, IsFiniteSet(S), NEW x, x \notin S
    PROVE  Cardinality(SUBSET (S \cup {x}))
               = Cardinality(SUBSET S) + Cardinality(SUBSET S)
  <1> DEFINE U == SUBSET S
             V == SUBSET (S \cup {x})
             T == {s \cup {x} : s \in U}
             f == [s \in U |-> s \cup {x}]
  <1>1. f \in [U -> T] /\ \A t \in T : \E s \in U : f[s] = t
    OBVIOUS
  <1>2. \A s, u \in U : s \cup {x} = u \cup {x} => s = u
    OBVIOUS
  <1>3. \A s, u \in U : f[s] = f[u] => s = u
    BY <1>2
  <1>4. f \in Bijection(U, T)
    BY <1>1, <1>3, Zenon DEF Bijection, Injection, Surjection, IsInjective
  <1>5. \A u \in U : u \in V
    OBVIOUS
  <1>6. \A u \in T : u \in V /\ x \in u
    OBVIOUS
  <1>7. \A u \in V : x \in u => u \in T
    <2> TAKE u \in V
    <2> HAVE x \in u
    <2>1. u \ {x} \in U /\ u = (u \ {x}) \cup {x}
      OBVIOUS
    <2> QED
      BY <2>1
  <1>8. \A u \in V : x \notin u => u \in U
    OBVIOUS
  <1>9. \A u \in U : x \notin u
    OBVIOUS
  <1>10. IsFiniteSet(U)
    BY FS_SUBSET
  <1> HIDE DEF U, V, T, f
  <1>11. V = U \cup T /\ U \cap T = {}
    BY <1>5, <1>6, <1>7, <1>8, <1>9
  <1>12. IsFiniteSet(T) /\ Cardinality(T) = Cardinality(U)
    BY <1>4, <1>10, FS_Bijection DEF ExistsBijection
  <1>13. Cardinality(U \cap T) = 0 /\ Cardinality(U) \in Nat
    BY <1>10, <1>11, FS_EmptySet, FS_CardinalityType
  <1>14. Cardinality(V) = Cardinality(U) + Cardinality(U)
    <2>1. Cardinality(U \cup T)
              = Cardinality(U) + Cardinality(T) - Cardinality(U \cap T)
      BY <1>10, <1>12, FS_Union, Zenon
    <2>2. \A m \in Nat : m + m - 0 = m + m
      OBVIOUS
    <2> QED
      BY <1>11, <1>12, <1>13, <2>1, <2>2, Zenon
  <1> QED
    BY <1>14 DEF U, V

LEMMA NextPower ==
    ASSUME NEW n \in Nat
    PROVE  2^(n + 1) = 2^n + 2^n
  <1>1. /\ IsFiniteSet(1..n) /\ Cardinality(1..n) = n
        /\ IsFiniteSet(1..(n + 1)) /\ Cardinality(1..(n + 1)) = n + 1
    <2>1. /\ 1 \in Int /\ n \in Int /\ (IF 1 > n THEN 0 ELSE n - 1 + 1) = n
          /\ n + 1 \in Int /\ (IF 1 > n + 1 THEN 0 ELSE n + 1 - 1 + 1) = n + 1
      OBVIOUS
    <2> QED
      BY <2>1, FS_Interval
  <1>2. Cardinality(SUBSET (1..n)) = 2^n
        /\ Cardinality(SUBSET (1..(n + 1))) = 2^(n + 1)
    BY <1>1, FS_SUBSET, Zenon
  <1>3. 1..(n + 1) = (1..n) \cup {n + 1} /\ n + 1 \notin 1..n
    OBVIOUS
  <1> QED
    BY <1>1, <1>2, <1>3, SubsetsWithOneMore, Zenon

(* The int that arithmetic gives.                                          *)
LEMMA WrapIsInt ==
    ASSUME NEW n \in Int
    PROVE  Wrap(n) \in MinInt..MaxInt
  <1> DEFINE half == 2^(IntBits - 1)
  <1>1. half \in Nat \ {0} /\ 2^IntBits = half + half
    <2>1. IntBits - 1 \in Nat /\ IntBits - 1 + 1 = IntBits
      BY WidthsAssumption
    <2> QED
      BY <2>1, PowerOfTwo, NextPower
  <1>2. MaxInt = half - 1 /\ MinInt = -half
    BY <1>1 DEF MaxInt, MinInt
  <1> HIDE DEF half
  <1>3. (n - MinInt) % 2^IntBits \in 0..(half + half - 1)
    BY <1>1, <1>2
  <1> QED
    BY <1>1, <1>2, <1>3 DEF Wrap

-----------------------------------------------------------------------------
(* What a command may make of a record.                                    *)

(* What becomes of a record that a command refuses: see the property.      *)
Refused(old, new) ==
    \/ new = old
    \/ /\ old.type = "hash" /\ new.type = "hash"
       /\ DOMAIN new.value \subseteq DOMAIN old.value
       /\ \A f \in DOMAIN new.value : new.value[f] = old.value[f]
    \/ old = NoRecord /\ new = [type |-> "stream", value |-> <<>>]

Possible(r, result) ==
    /\ IsRecord(result.record)
    /\ result.reply \in {"OK", "ERR", "value", "crash"}
    /\ result.reply = "ERR" => Refused(r, result.record)

(* And of one that is there, a command that is neither SET nor DEL.        *)
Allowed(r, result) ==
    /\ Possible(r, result)
    /\ result.record.type = r.type \/ r = NoRecord

(* A command other than PFADD makes no HyperLogLog, and changes none.      *)
LeavesRegisters(r, result) ==
    result.record.type = "hyperloglog" => result.record = r

LEMMA ImagesAreFinite ==
    ASSUME NEW S, IsFiniteSet(S), NEW s
    PROVE  IsFiniteSet({s[i] : i \in S})
  <1> DEFINE T == {s[i] : i \in S}
             f == [i \in S |-> s[i]]
  <1>1. f \in [S -> T] /\ \A t \in T : \E i \in S : f[i] = t
    OBVIOUS
  <1> HIDE DEF f, T
  <1>2. f \in Surjection(S, T)
    BY <1>1, Zenon DEF Surjection
  <1>3. IsFiniteSet(T)
    BY <1>2, FS_Surjection
  <1> QED
    BY <1>3 DEF T

LEMMA WordsAreSequences ==
    ASSUME NEW words \in Words
    PROVE  /\ words \in Seq(Word) /\ Len(words) \in Nat
           /\ DOMAIN words = 1..Len(words)
           /\ \A i \in 1..Len(words) : words[i] \in Word
           /\ ToSet(words) \subseteq Word /\ IsFiniteSet(ToSet(words))
  <1>1. PICK n \in 0..MaxWords : words \in [1..n -> Word]
    BY DEF Words
  <1>2. n \in Nat
    BY <1>1
  <1>3. words \in Seq(Word) /\ Len(words) = n
    BY <1>1, <1>2
  <1>4. IsFiniteSet(ToSet(words))
    <2>1. IsFiniteSet(1..n)
      BY <1>2, FS_Interval
    <2>2. IsFiniteSet({words[i] : i \in 1..n})
      BY <2>1, ImagesAreFinite
    <2> QED
      BY <1>1, <2>2 DEF ToSet
  <1> QED
    BY <1>1, <1>2, <1>3, <1>4 DEF ToSet

(* A record is left as it was.                                             *)
LEMMA Unchanged ==
    ASSUME NEW r, IsRecord(r), NEW result, result.record = r,
           result.reply \in {"OK", "ERR", "value", "crash"}
    PROVE  Allowed(r, result) /\ LeavesRegisters(r, result)
  BY DEF Possible, Allowed, Refused, LeavesRegisters

(* Another value of the type the record has.                               *)
LEMMA NewValue ==
    ASSUME NEW r, IsRecord(r), r.type # "none", NEW v,
           IsRecord([type |-> r.type, value |-> v]),
           NEW answer \in {"OK", "value"}
    PROVE  /\ [r EXCEPT !.value = v] = [type |-> r.type, value |-> v]
           /\ Allowed(r, [record |-> [r EXCEPT !.value = v], reply |-> answer])
  <1>1. r = [type |-> r.type, value |-> r.value]
    BY DEF IsRecord, NoRecord
  <1>2. [r EXCEPT !.value = v] = [type |-> r.type, value |-> v]
    BY <1>1
  <1> QED
    BY <1>2 DEF Possible, Allowed

LEMMA Queries ==
    ASSUME NEW r, IsRecord(r), NEW type, NEW granted
    PROVE  /\ Query(r, type, granted).record = r
           /\ Query(r, type, granted).reply \in {"ERR", "value"}
           /\ QueryAny(r, granted).record = r
           /\ QueryAny(r, granted).reply \in {"ERR", "value"}
           /\ Err(r).record = r /\ Err(r).reply = "ERR"
           /\ Gives(r).record = r /\ Gives(r).reply = "value"
           /\ Ok(r).record = r /\ Ok(r).reply = "OK"
  BY DEF Query, QueryAny, Err, Gives, Ok

(* The commands that change no record.                                     *)
Readings(r, words) ==
    {GET(r, words), LRANGE(r, words), LINDEX(r, words), LLEN(r, words),
     HGET(r, words), HEXISTS(r, words), HGETALL(r, words),
     SISMEMBER(r, words), SMEMBERS(r, words), SCARD(r, words),
     ZISMEMBER(r, words), ZMEMBERS(r, words), ZCARD(r, words),
     PFCOUNT(r, words), EXISTS(r, words), TYPE(r, words), EXPIRE(r, words),
     PERSIST(r, words), MEMORYUSAGE(r, words), PING(r), Invalid(r)}

LEMMA ReadingsChangeNothing ==
    ASSUME NEW r, IsRecord(r), NEW words, NEW result \in Readings(r, words)
    PROVE  Allowed(r, result) /\ LeavesRegisters(r, result)
  <1>1. \/ \E granted, type : result = Query(r, type, granted)
        \/ \E granted : result = QueryAny(r, granted)
        \/ result \in {Err(r), Gives(r), Ok(r)}
    BY Zenon DEF Readings, GET, LRANGE, LINDEX, LLEN, HGET, HEXISTS, HGETALL,
        SISMEMBER, SMEMBERS, SCARD, ZISMEMBER, ZMEMBERS, ZCARD, PFCOUNT,
        EXISTS, TYPE, EXPIRE, PERSIST, MEMORYUSAGE, PING, Invalid
  <1>2. result.record = r /\ result.reply \in {"ERR", "value", "OK"}
    BY <1>1, Queries
  <1> QED
    BY <1>2, Unchanged

(* SET, and arithmetic on a string.                                        *)
LEMMA SetAllowed ==
    ASSUME NEW r, IsRecord(r), NEW k, NEW words \in Words
    PROVE  Possible(r, SET(r, k, words)) /\ LeavesRegisters(r, SET(r, k, words))
  <1>1. CASE words = <<>>
    BY <1>1, Unchanged, Queries DEF SET, Allowed
  <1>2. CASE words # <<>>
    <2>1. words[1] \in Word
      BY <1>2, WordsAreSequences
    <2>2. PICK v : /\ SET(r, k, words) = Ok([type |-> "string", value |-> v])
                   /\ v.num = NaN \/ v.num = words[1].num
      BY <1>2 DEF SET, New
    <2>3. IsRecord([type |-> "string", value |-> v])
      BY <2>1, <2>2 DEF IsRecord, Types
    <2> QED
      BY <2>2, <2>3 DEF Possible, Allowed, LeavesRegisters, Ok
  <1> QED
    BY <1>1, <1>2

LEMMA AddIntAllowed ==
    ASSUME NEW r, IsRecord(r), NEW sign \in {-1, 1}, NEW amount
    PROVE  /\ Allowed(r, AddInt(r, sign, amount))
           /\ LeavesRegisters(r, AddInt(r, sign, amount))
  <1>1. CASE AddInt(r, sign, amount) = Err(r)
    BY <1>1, Unchanged, Queries
  <1>2. CASE AddInt(r, sign, amount) # Err(r)
    <2> DEFINE v == ToDigits(Wrap(r.value.num + sign * amount.num))
    <2>1. /\ r.type = "string" /\ IsInt(amount) /\ IsInt(r.value)
          /\ AddInt(r, sign, amount) = Ok([r EXCEPT !.value = v])
      BY <1>2 DEF AddInt
    <2>2. MinInt \in Int /\ MaxInt \in Int
      BY WidthsAssumption, PowerOfTwo DEF MinInt, MaxInt
    <2>3. amount.num \in Int /\ r.value.num \in Int
      BY <2>1, <2>2 DEF IsInt
    <2>4. r.value.num + sign * amount.num \in Int
      BY <2>3
    <2>5. IsInt(v)
      BY <2>4, WrapIsInt DEF IsInt, ToDigits
    <2>6. IsRecord([type |-> "string", value |-> v])
      BY <2>5 DEF IsRecord, Types
    <2> HIDE DEF v
    <2>7. /\ [r EXCEPT !.value = v] = [type |-> "string", value |-> v]
          /\ Allowed(r, [record |-> [r EXCEPT !.value = v], reply |-> "OK"])
      BY <2>1, <2>6, NewValue
    <2> QED
      BY <2>1, <2>7 DEF Ok, LeavesRegisters
  <1> QED
    BY <1>1, <1>2

(* A command that adds v to a record, or makes one with new.               *)
LEMMA ExtendAllowed ==
    ASSUME NEW r, IsRecord(r), NEW type \in Types \ {"none"}, NEW words,
           NEW v, r.type = type => IsRecord([type |-> type, value |-> v]),
           NEW new, r.type = "none" => IsRecord([type |-> type, value |-> new]),
           NEW result,
           result = IF words = <<>> \/ r.type \notin {type, "none"} THEN Err(r)
                    ELSE IF r.type = type THEN Ok([r EXCEPT !.value = v])
                    ELSE Ok(New(type, new))
    PROVE  /\ Allowed(r, result)
           /\ type # "hyperloglog" => LeavesRegisters(r, result)
  <1>1. CASE words = <<>> \/ r.type \notin {type, "none"}
    BY <1>1, Unchanged, Queries
  <1>2. CASE words # <<>> /\ r.type = type
    <2>1. /\ [r EXCEPT !.value = v] = [type |-> type, value |-> v]
          /\ Allowed(r, [record |-> [r EXCEPT !.value = v], reply |-> "OK"])
      BY <1>2, NewValue
    <2> QED
      BY <1>2, <2>1 DEF Ok, LeavesRegisters
  <1>3. CASE words # <<>> /\ r.type # type /\ r.type = "none"
    <2>1. result = Ok([type |-> type, value |-> new]) /\ r = NoRecord
      BY <1>3 DEF New, IsRecord
    <2> QED
      BY <1>3, <2>1 DEF Ok, Possible, Allowed, LeavesRegisters
  <1> QED
    BY <1>1, <1>2, <1>3

(* Lists and streams.                                                      *)
LEMMA ListsOfWords ==
    ASSUME NEW list \in Seq(Word), NEW words \in Words
    PROVE  Reverse(words) \o list \in Seq(Word) /\ list \o words \in Seq(Word)
  <1>1. words \in Seq(Word) /\ Len(words) \in Nat
    BY WordsAreSequences
  <1>2. Reverse(words) \in Seq(Word)
    <2>1. \A i \in 1..Len(words) : words[Len(words) - i + 1] \in Word
      BY <1>1
    <2> QED
      BY <1>1, <2>1 DEF Reverse
  <1> QED
    BY <1>1, <1>2

LEMMA PushAllowed ==
    ASSUME NEW r, IsRecord(r), NEW words \in Words,
           NEW result \in {LPUSH(r, words), RPUSH(r, words)}
    PROVE  Allowed(r, result) /\ LeavesRegisters(r, result)
  <1>1. \A list \in Seq(Word) : IsRecord([type |-> "list", value |-> list])
    BY DEF IsRecord, Types
  <1>2. <<>> \in Seq(Word)
    OBVIOUS
  <1>3. r.type = "list" => r.value \in Seq(Word)
    BY DEF IsRecord
  <1>4. Allowed(r, LPUSH(r, words)) /\ LeavesRegisters(r, LPUSH(r, words))
    <2> DEFINE v == Reverse(words) \o r.value
               new == Reverse(words) \o <<>>
    <2>1. /\ r.type = "list" => IsRecord([type |-> "list", value |-> v])
          /\ IsRecord([type |-> "list", value |-> new])
      BY <1>1, <1>2, <1>3, ListsOfWords
    <2>2. LPUSH(r, words) =
              IF words = <<>> \/ r.type \notin {"list", "none"} THEN Err(r)
              ELSE IF r.type = "list" THEN Ok([r EXCEPT !.value = v])
              ELSE Ok(New("list", new))
      BY Zenon DEF LPUSH, Extend
    <2>3. "list" \in Types \ {"none"} /\ "list" # "hyperloglog"
      BY DEF Types
    <2> HIDE DEF v, new
    <2> QED
      BY <2>1, <2>2, <2>3, ExtendAllowed, Zenon
  <1>5. Allowed(r, RPUSH(r, words)) /\ LeavesRegisters(r, RPUSH(r, words))
    <2> DEFINE v == r.value \o words
               new == <<>> \o words
    <2>1. /\ r.type = "list" => IsRecord([type |-> "list", value |-> v])
          /\ IsRecord([type |-> "list", value |-> new])
      BY <1>1, <1>2, <1>3, ListsOfWords
    <2>2. RPUSH(r, words) =
              IF words = <<>> \/ r.type \notin {"list", "none"} THEN Err(r)
              ELSE IF r.type = "list" THEN Ok([r EXCEPT !.value = v])
              ELSE Ok(New("list", new))
      BY Zenon DEF RPUSH, Extend
    <2>3. "list" \in Types \ {"none"} /\ "list" # "hyperloglog"
      BY DEF Types
    <2> HIDE DEF v, new
    <2> QED
      BY <2>1, <2>2, <2>3, ExtendAllowed
  <1> QED
    BY <1>4, <1>5

LEMMA PopAllowed ==
    ASSUME NEW r, IsRecord(r), NEW words,
           NEW result \in {LPOP(r, words), RPOP(r, words)}
    PROVE  Allowed(r, result) /\ LeavesRegisters(r, result)
  <1>1. PICK rest : /\ result = Pop(r, words, rest)
                    /\ rest = Tail(r.value) \/ rest = Front(r.value)
    BY DEF LPOP, RPOP
  <1>2. CASE result = Err(r)
    BY <1>2, Unchanged, Queries
  <1>3. CASE result # Err(r)
    <2>1. /\ r.type = "list" /\ r.value # <<>> /\ r.value \in Seq(Word)
          /\ result = [record |-> [r EXCEPT !.value = rest], reply |-> "value"]
      BY <1>1, <1>3 DEF Pop, IsRecord, Gives
    <2>2. Tail(r.value) \in Seq(Word) /\ Front(r.value) \in Seq(Word)
      BY <2>1 DEF Front
    <2>3. IsRecord([type |-> r.type, value |-> rest])
      BY <1>1, <2>1, <2>2 DEF IsRecord, Types
    <2>4. /\ [r EXCEPT !.value = rest] = [type |-> r.type, value |-> rest]
          /\ Allowed(r, [record |-> [r EXCEPT !.value = rest], reply |-> "value"])
      BY <2>1, <2>3, NewValue
    <2> QED
      BY <2>1, <2>4 DEF LeavesRegisters
  <1> QED
    BY <1>2, <1>3

LEMMA XAddAllowed ==
    ASSUME NEW r, IsRecord(r), NEW words
    PROVE  Allowed(r, XADD(r, words)) /\ LeavesRegisters(r, XADD(r, words))
  <1> DEFINE v == Append(r.value, Len(r.value) + 1)
             new == Append(<<>>, Len(<<>>) + 1)
  <1>1. \A s \in Seq(Nat) : IsRecord([type |-> "stream", value |-> s])
    BY DEF IsRecord, Types
  <1>2. r.type = "stream" => v \in Seq(Nat)
    BY DEF IsRecord
  <1>3. new \in Seq(Nat)
    OBVIOUS
  <1>4. XADD(r, words) = IF Len(words) % 2 # 0 THEN Err(r) ELSE
            IF words = <<>> \/ r.type \notin {"stream", "none"} THEN Err(r)
            ELSE IF r.type = "stream" THEN Ok([r EXCEPT !.value = v])
            ELSE Ok(New("stream", new))
    BY Zenon DEF XADD, Extend
  <1>5. "stream" \in Types \ {"none"} /\ "stream" # "hyperloglog"
    BY DEF Types
  <1>6. /\ r.type = "stream" => IsRecord([type |-> "stream", value |-> v])
        /\ IsRecord([type |-> "stream", value |-> new])
    BY <1>1, <1>2, <1>3
  <1> HIDE DEF v, new
  <1>7. CASE Len(words) % 2 # 0
    BY <1>4, <1>7, Unchanged, Queries
  <1>8. CASE Len(words) % 2 = 0
    <2>1. XADD(r, words) =
              IF words = <<>> \/ r.type \notin {"stream", "none"} THEN Err(r)
              ELSE IF r.type = "stream" THEN Ok([r EXCEPT !.value = v])
              ELSE Ok(New("stream", new))
      BY <1>4, <1>8
    <2> QED
      BY <1>5, <1>6, <2>1, ExtendAllowed, Zenon
  <1> QED
    BY <1>7, <1>8

LEMMA XGroupAllowed ==
    ASSUME NEW r, IsRecord(r), NEW words
    PROVE  Allowed(r, XGROUP(r, words)) /\ LeavesRegisters(r, XGROUP(r, words))
  <1> DEFINE made == IF r = NoRecord THEN New("stream", <<>>) ELSE r
  <1>1. XGROUP(r, words) \in {Err(r), Ok(made), Err(made)}
    BY DEF XGROUP
  <1>2. CASE r = NoRecord
    <2>1. made = [type |-> "stream", value |-> <<>>]
      BY <1>2 DEF New
    <2>2. IsRecord(made)
      <3>1. \A s \in Seq(Nat) : IsRecord([type |-> "stream", value |-> s])
        BY DEF IsRecord, Types
      <3>2. <<>> \in Seq(Nat)
        OBVIOUS
      <3> QED
        BY <2>1, <3>1, <3>2, Zenon
    <2> HIDE DEF made
    <2>3. CASE XGROUP(r, words) = Err(r)
      <3>1. XGROUP(r, words).record = r /\ XGROUP(r, words).reply = "ERR"
        BY <2>3 DEF Err
      <3> QED
        BY <3>1, Unchanged
    <2>4. CASE XGROUP(r, words) \in {Ok(made), Err(made)}
      <3>1. /\ XGROUP(r, words).record = made
            /\ XGROUP(r, words).reply \in {"OK", "ERR"}
        BY <2>4 DEF Ok, Err
      <3>2. made.type # "hyperloglog" /\ Refused(r, made)
        BY <1>2, <2>1 DEF Refused
      <3> QED
        BY <1>2, <2>2, <3>1, <3>2 DEF Possible, Allowed, LeavesRegisters
    <2> QED
      BY <1>1, <2>3, <2>4
  <1>3. CASE r # NoRecord
    BY <1>1, <1>3, Unchanged, Queries
  <1> QED
    BY <1>2, <1>3
-----------------------------------------------------------------------------
(* Numbers: the least and the greatest of a set, and induction.            *)

LEMMA LeastNumber ==
    ASSUME NEW T \in SUBSET Nat, T # {}
    PROVE  \E x \in T : \A y \in T : x <= y
  <1> DEFINE R == OpToRel(<, Nat)
  <1>1. IsWellFoundedOn(R, Nat)
    BY NatLessThanWellFounded
  <1> HIDE DEF R
  <1>2. PICK x \in T : \A y \in T : ~(<<y, x>> \in R)
    BY <1>1, WFMin
  <1>3. \A y \in Nat : y < x => <<y, x>> \in R
    BY DEF R, OpToRel
  <1>4. ASSUME NEW y \in T PROVE x <= y
    <2>1. x \in Nat /\ y \in Nat /\ ~(y < x)
      BY <1>2, <1>3
    <2> QED
      BY <2>1
  <1> QED
    BY <1>4

LEMMA GreatestNumber ==
    ASSUME NEW n \in Nat, NEW T \in SUBSET (0..n), T # {}
    PROVE  \E x \in T : \A y \in T : y <= x
  <1> DEFINE U == {m \in Nat : n - m \in T}
  <1>1. U \in SUBSET Nat /\ U # {}
    <2>1. PICK x : x \in T
      OBVIOUS
    <2>2. n - x \in Nat /\ n - (n - x) = x
      BY <2>1
    <2> QED
      BY <2>1, <2>2
  <1> HIDE DEF U
  <1>2. PICK m \in U : \A j \in U : m <= j
    BY <1>1, LeastNumber
  <1>3. m \in Nat /\ n - m \in T
    BY DEF U
  <1>4. ASSUME NEW y \in T PROVE y <= n - m
    <2>1. y \in 0..n /\ n - y \in Nat /\ n - (n - y) = y
      OBVIOUS
    <2>2. n - y \in U
      BY <2>1 DEF U
    <2>3. m <= n - y
      BY <1>2, <2>2
    <2> QED
      BY <1>3, <2>1, <2>3
  <1> QED
    BY <1>3, <1>4

LEMMA Induction ==
    ASSUME NEW S \in SUBSET Nat, 0 \in S, \A n \in S : n + 1 \in S
    PROVE  S = Nat
  <1> SUFFICES ASSUME Nat \ S # {} PROVE FALSE
    OBVIOUS
  <1>1. PICK x \in Nat \ S : \A y \in Nat \ S : x <= y
    <2>1. Nat \ S \in SUBSET Nat
      OBVIOUS
    <2> QED
      BY <2>1, LeastNumber
  <1>2. x - 1 \in Nat /\ x - 1 \in S
    BY <1>1
  <1> QED
    BY <1>1, <1>2

-----------------------------------------------------------------------------
(* Hashes                                                                  *)

IsHash(h) ==
    /\ h = [f \in DOMAIN h |-> h[f]]
    /\ DOMAIN h \subseteq Word /\ IsFiniteSet(DOMAIN h)
    /\ \A f \in DOMAIN h : h[f] \in Word

LEMMA HashesAreRecords ==
    ASSUME NEW h
    PROVE  IsHash(h) <=> IsRecord([type |-> "hash", value |-> h])
  BY DEF IsHash, IsRecord, Types

(* Every field of an even number of words is followed by its value.        *)
LEMMA BindingsAreHashes ==
    ASSUME NEW words \in Words, Len(words) % 2 = 0
    PROVE  IsHash(Bindings(words))
  <1> DEFINE fields == {i \in DOMAIN words : i % 2 = 1}
             LastOf(f) == CHOOSE i \in fields :
                 words[i] = f /\ \A j \in fields : words[j] = f => j <= i
  <1>1. Bindings(words) = [f \in {words[i] : i \in fields} |-> words[LastOf(f) + 1]]
    BY Zenon DEF Bindings
  <1>2. /\ Len(words) \in Nat /\ DOMAIN words = 1..Len(words)
        /\ \A i \in 1..Len(words) : words[i] \in Word
    BY WordsAreSequences
  <1>3. \A i \in fields : i \in 1..Len(words) /\ i + 1 \in 1..Len(words)
    BY <1>2
  <1>4. ASSUME NEW f \in {words[i] : i \in fields}
        PROVE  words[LastOf(f) + 1] \in Word
    <2> DEFINE T == {i \in fields : words[i] = f}
    <2>1. T \in SUBSET (0..Len(words)) /\ T # {}
      BY <1>2
    <2> HIDE DEF T
    <2>2. PICK x \in T : \A j \in T : j <= x
      BY <1>2, <2>1, GreatestNumber
    <2>3. x \in fields /\ words[x] = f /\ \A j \in fields : words[j] = f => j <= x
      BY <2>2 DEF T
    <2> HIDE DEF fields
    <2>4. LastOf(f) \in fields
      BY <2>3
    <2> QED
      BY <1>2, <1>3, <2>4
  <1>5. IsFiniteSet(fields)
    <2>1. IsFiniteSet(1..Len(words))
      <3>1. 1 \in Int /\ Len(words) \in Int
        BY <1>2
      <3> QED
        BY <3>1, FS_Interval
    <2>2. fields \in SUBSET (1..Len(words))
      BY <1>2
    <2> HIDE DEF fields
    <2> QED
      BY <2>1, <2>2, FS_Subset
  <1> HIDE DEF fields, LastOf
  <1>6. IsFiniteSet({words[i] : i \in fields})
    BY <1>5, ImagesAreFinite
  <1>7. \A f \in {words[i] : i \in fields} : f \in Word
    BY <1>2, <1>3
  <1> QED
    BY <1>1, <1>4, <1>6, <1>7 DEF IsHash

LEMMA SetFieldsGivesHashes ==
    ASSUME NEW hash, IsHash(hash),
           NEW words \in Words, Len(words) % 2 = 0
    PROVE  IsHash(SetFields(hash, words))
  <1> DEFINE set == Bindings(words)
  <1>1. IsHash(set)
    BY BindingsAreHashes
  <1>2. SetFields(hash, words) = [f \in DOMAIN set \cup DOMAIN hash |->
                                     IF f \in DOMAIN set THEN set[f] ELSE hash[f]]
    BY DEF SetFields
  <1> HIDE DEF set
  <1>3. IsFiniteSet(DOMAIN set \cup DOMAIN hash)
    BY <1>1, FS_Union DEF IsHash
  <1> QED
    BY <1>1, <1>2, <1>3 DEF IsHash

LEMMA HMSETAllowed ==
    ASSUME NEW r, IsRecord(r), NEW words \in Words
    PROVE  Allowed(r, HMSET(r, words)) /\ LeavesRegisters(r, HMSET(r, words))
  <1> DEFINE v == SetFields(r.value, words)
             new == SetFields(<<>>, words)
  <1>1. CASE /\ words # <<>> /\ Len(words) % 2 = 0
             /\ r.type \in {"hash", "none"}
    <2>1. IsHash(<<>>)
      BY FS_EmptySet DEF IsHash
    <2>2. r.type = "hash" => IsHash(r.value)
      BY DEF IsRecord, IsHash
    <2>3. /\ r.type = "hash" => IsRecord([type |-> "hash", value |-> v])
          /\ IsRecord([type |-> "hash", value |-> new])
      BY <1>1, <2>1, <2>2, SetFieldsGivesHashes, HashesAreRecords
    <2>4. HMSET(r, words) =
              IF words = <<>> \/ r.type \notin {"hash", "none"} THEN Err(r)
              ELSE IF r.type = "hash" THEN Ok([r EXCEPT !.value = v])
              ELSE Ok(New("hash", new))
      BY <1>1, Zenon DEF HMSET, Extend
    <2>5. "hash" \in Types \ {"none"} /\ "hash" # "hyperloglog"
      BY DEF Types
    <2> HIDE DEF v, new
    <2> QED
      BY <2>3, <2>4, <2>5, ExtendAllowed
  <1>2. CASE ~(/\ words # <<>> /\ Len(words) % 2 = 0
               /\ r.type \in {"hash", "none"})
    <2>1. HMSET(r, words) \in {Err(r), [record |-> r, reply |-> "crash"]}
      BY <1>2 DEF HMSET
    <2>2. /\ HMSET(r, words).record = r
          /\ HMSET(r, words).reply \in {"ERR", "crash"}
      BY <2>1 DEF Err
    <2> QED
      BY <2>2, Unchanged
  <1> QED
    BY <1>1, <1>2

LEMMA HDELAllowed ==
    ASSUME NEW r, IsRecord(r), NEW words
    PROVE  Allowed(r, HDEL(r, words)) /\ LeavesRegisters(r, HDEL(r, words))
  <1>1. CASE words = <<>> \/ r.type # "hash"
    <2>1. HDEL(r, words).record = r /\ HDEL(r, words).reply = "ERR"
      BY <1>1 DEF HDEL, Err
    <2> QED
      BY <2>1, Unchanged
  <1>2. CASE words # <<>> /\ r.type = "hash"
    <2>1. PICK fields \in SUBSET (DOMAIN r.value), answer \in {"OK", "ERR"} :
              HDEL(r, words) =
                  [record |-> [r EXCEPT !.value = [f \in fields |-> r.value[f]]],
                   reply |-> answer]
      <3> DEFINE found == FoundFields(r.value, words)
                 gone == ToSet(SubSeq(words, 1, found))
                 left == {f \in DOMAIN r.value : f \notin gone}
                 answer == IF found = Len(words) THEN "OK" ELSE "ERR"
      <3>1. HDEL(r, words) =
                [record |-> [r EXCEPT !.value = [f \in left |-> r.value[f]]],
                 reply |-> answer]
        BY <1>2, Zenon DEF HDEL, RestrictDomain, Restrict
      <3>2. left \in SUBSET (DOMAIN r.value) /\ answer \in {"OK", "ERR"}
        OBVIOUS
      <3> HIDE DEF left, answer
      <3> QED
        BY <3>1, <3>2
    <2> DEFINE v == [f \in fields |-> r.value[f]]
    <2>2. IsHash(v)
      <3>1. IsFiniteSet(fields)
        BY <1>2, FS_Subset DEF IsRecord
      <3> QED
        BY <1>2, <3>1 DEF IsRecord, IsHash
    <2>3. IsRecord([type |-> "hash", value |-> v])
      BY <2>2, HashesAreRecords
    <2>4. DOMAIN v \subseteq DOMAIN r.value /\ \A f \in DOMAIN v : v[f] = r.value[f]
      OBVIOUS
    <2> HIDE DEF v
    <2>5. [r EXCEPT !.value = v] = [type |-> "hash", value |-> v]
      BY <1>2, <2>3, NewValue
    <2>6. HDEL(r, words) = [record |-> [type |-> "hash", value |-> v], reply |-> answer]
      BY <2>1, <2>5 DEF v
    <2> QED
      BY <1>2, <2>3, <2>4, <2>6 DEF Possible, Allowed, Refused, LeavesRegisters
  <1> QED
    BY <1>1, <1>2

-----------------------------------------------------------------------------
(* Sets, numbers and keys                                                  *)

LEMMA MembersAllowed ==
    ASSUME NEW r, IsRecord(r), NEW words \in Words,
           NEW type \in {"set", "sorted_set"}
    PROVE  /\ Allowed(r, Extend(r, type, words, {}, Plus))
           /\ LeavesRegisters(r, Extend(r, type, words, {}, Plus))
           /\ Allowed(r, RemoveMembers(r, type, words))
           /\ LeavesRegisters(r, RemoveMembers(r, type, words))
  <1>1. \A set \in SUBSET Word :
            IsFiniteSet(set) => IsRecord([type |-> type, value |-> set])
    BY DEF IsRecord, Types
  <1>2. ToSet(words) \subseteq Word /\ IsFiniteSet(ToSet(words))
    BY WordsAreSequences
  <1>3. r.type = type => r.value \subseteq Word /\ IsFiniteSet(r.value)
    BY DEF IsRecord
  <1>4. type \in Types \ {"none"} /\ type # "hyperloglog"
    BY DEF Types
  <1>5. /\ Allowed(r, Extend(r, type, words, {}, Plus))
        /\ LeavesRegisters(r, Extend(r, type, words, {}, Plus))
    <2> DEFINE v == Plus(r.value, words)
               new == Plus({}, words)
    <2>1. /\ r.type = type => IsRecord([type |-> type, value |-> v])
          /\ IsRecord([type |-> type, value |-> new])
      <3>1. r.type = type => IsFiniteSet(r.value \cup ToSet(words))
        BY <1>2, <1>3, FS_Union
      <3>2. {} \cup ToSet(words) = ToSet(words)
        OBVIOUS
      <3> QED
        BY <1>1, <1>2, <1>3, <3>1, <3>2 DEF Plus
    <2>2. Extend(r, type, words, {}, Plus) =
              IF words = <<>> \/ r.type \notin {type, "none"} THEN Err(r)
              ELSE IF r.type = type THEN Ok([r EXCEPT !.value = v])
              ELSE Ok(New(type, new))
      BY Zenon DEF Extend
    <2> HIDE DEF v, new
    <2> QED
      BY <1>4, <2>1, <2>2, ExtendAllowed
  <1>6. CASE RemoveMembers(r, type, words) = Err(r)
    BY <1>5, <1>6, Unchanged, Queries
  <1>7. CASE RemoveMembers(r, type, words) # Err(r)
    <2> DEFINE v == r.value \ ToSet(words)
    <2>1. /\ r.type = type
          /\ RemoveMembers(r, type, words)
                 = [record |-> [r EXCEPT !.value = v], reply |-> "OK"]
      BY <1>7 DEF RemoveMembers, Ok
    <2>2. IsRecord([type |-> r.type, value |-> v])
      <3>1. IsFiniteSet(v)
        BY <1>3, <2>1, FS_Subset
      <3> QED
        BY <1>1, <1>3, <2>1, <3>1
    <2> HIDE DEF v
    <2>3. /\ [r EXCEPT !.value = v] = [type |-> r.type, value |-> v]
          /\ Allowed(r, [record |-> [r EXCEPT !.value = v], reply |-> "OK"])
      BY <1>4, <2>1, <2>2, NewValue
    <2> QED
      BY <1>4, <1>5, <2>1, <2>3 DEF LeavesRegisters
  <1> QED
    BY <1>6, <1>7

LEMMA SetsAllowed ==
    ASSUME NEW r, IsRecord(r), NEW words \in Words,
           NEW result \in {SADD(r, words), SREM(r, words),
                           ZADD(r, words), ZREM(r, words)}
    PROVE  Allowed(r, result) /\ LeavesRegisters(r, result)
  <1>1. "set" \in {"set", "sorted_set"} /\ "sorted_set" \in {"set", "sorted_set"}
    OBVIOUS
  <1>2. \E type \in {"set", "sorted_set"} :
            \/ result = Extend(r, type, words, {}, Plus)
            \/ result = RemoveMembers(r, type, words)
    BY <1>1, Zenon DEF SADD, SREM, ZADD, ZREM
  <1> QED
    BY <1>2, MembersAllowed, Zenon

LEMMA ArithmeticAllowed ==
    ASSUME NEW r, IsRecord(r), NEW words,
           NEW result \in {INCR(r, words), DECR(r, words),
                           INCRBY(r, words), DECRBY(r, words)}
    PROVE  Allowed(r, result) /\ LeavesRegisters(r, result)
  <1>1. \/ result = Err(r)
        \/ \E sign \in {-1, 1} : \E amount : result = AddInt(r, sign, amount)
    BY DEF INCR, DECR, INCRBY, DECRBY
  <1> QED
    BY <1>1, AddIntAllowed, Unchanged, Queries

LEMMA DELAllowed ==
    ASSUME NEW r, IsRecord(r), NEW words
    PROVE  Possible(r, DEL(r, words)) /\ LeavesRegisters(r, DEL(r, words))
  <1>1. CASE r = NoRecord
    <2>1. DEL(r, words).record = r /\ DEL(r, words).reply = "ERR"
      BY <1>1 DEF DEL, Err
    <2> QED
      BY <2>1, Unchanged DEF Allowed
  <1>2. CASE r # NoRecord
    <2>1. DEL(r, words) = [record |-> NoRecord, reply |-> "OK"]
      BY <1>2 DEF DEL, Ok
    <2>2. IsRecord(NoRecord) /\ NoRecord.type = "none"
      BY DEF IsRecord, NoRecord, Types
    <2> QED
      BY <2>1, <2>2 DEF Possible, Allowed, LeavesRegisters
  <1> QED
    BY <1>1, <1>2

-----------------------------------------------------------------------------
(* HyperLogLogs                                                            *)

Registered == [HLL!Index -> 0..(HashBits - B + 1)]

LEMMA Widths ==
    /\ HashBits \in Nat /\ B \in Nat /\ HashBits - B \in Nat
    /\ 2^B \in Nat \ {0} /\ 2^HashBits \in Nat \ {0} /\ 2^(B - 1) \in Nat
  <1>1. B - 1 \in Nat /\ HashBits - B \in Nat
    BY WidthsAssumption
  <1> QED
    BY <1>1, PowerOfTwo, WidthsAssumption

(* The count ends at the first bit that is set, or after all of them.      *)
LEMMA ZerosAreCounted ==
    ASSUME NEW x \in Nat, NEW bits \in Nat
    PROVE  HLL!CountLeadingZeros(x, bits) \in 0..bits
  <1> DEFINE T == {n \in 0..bits : n = bits \/ HLL!Bit(x, bits - 1 - n) = 1}
  <1>1. T \in SUBSET Nat /\ bits \in T
    OBVIOUS
  <1> HIDE DEF T
  <1>2. PICK n \in T : \A m \in T : n <= m
    BY <1>1, LeastNumber
  <1>3. n \in 0..bits /\ (n = bits \/ HLL!Bit(x, bits - 1 - n) = 1)
    BY DEF T
  <1>4. ASSUME NEW i \in 0..(n - 1)
        PROVE  HLL!Bit(x, bits - 1 - i) = 0
    <2>1. i \in 0..bits /\ i # bits /\ ~(n <= i) /\ bits - 1 - i \in Nat
      BY <1>3
    <2>2. i \notin T
      BY <1>2, <2>1
    <2>3. HLL!Bit(x, bits - 1 - i) # 1
      BY <2>1, <2>2 DEF T
    <2>4. 2^(bits - 1 - i) \in Nat \ {0}
      BY <2>1, PowerOfTwo
    <2>5. HLL!Bit(x, bits - 1 - i) \in {0, 1}
      <3> DEFINE p == 2^(bits - 1 - i)
      <3>1. p \in Nat \ {0}
        BY <2>4
      <3>2. HLL!Bit(x, bits - 1 - i) = (x \div p) % 2
        BY DEF HLL!Bit
      <3> HIDE DEF p
      <3>3. x \div p \in Int
        BY <3>1
      <3> QED
        BY <3>2, <3>3
    <2> QED
      BY <2>3, <2>5
  <1> QED
    BY <1>3, <1>4 DEF HLL!CountLeadingZeros

LEMMA ZerosFitInARegister ==
    ASSUME NEW hash \in HLL!Hashes
    PROVE  HLL!LeadingZeros(hash) \in 1..(HashBits - B + 1)
  <1>1. hash \in Nat
    BY Widths DEF HLL!Hashes
  <1>2. HLL!Remaining(hash) \in Nat
    <2> DEFINE p == 2^B  q == 2^HashBits  h == 2^(B - 1)
    <2>1. p \in Nat \ {0} /\ q \in Nat \ {0} /\ h \in Nat
      BY Widths
    <2>2. HLL!Remaining(hash) = ((hash * p) % q) + h
      BY DEF HLL!Remaining
    <2> HIDE DEF p, q, h
    <2>3. hash * p \in Int
      BY <1>1, <2>1
    <2>4. (hash * p) % q \in Nat
      BY <2>1, <2>3
    <2> QED
      BY <2>1, <2>2, <2>4
  <1>3. HLL!CountLeadingZeros(HLL!Remaining(hash), HashBits - B) \in 0..(HashBits - B)
    BY <1>2, Widths, ZerosAreCounted
  <1> QED
    BY <1>3, Widths DEF HLL!LeadingZeros

(* One more hash.                                                          *)
LEMMA AddKeepsTheSet ==
    ASSUME NEW registers \in Registered, NEW hash \in HLL!Hashes,
           NEW H \in SUBSET HLL!Hashes
    PROVE  /\ HLL!Add(registers, hash) \in Registered
           /\ HLL!AreOfTheSet(registers, H) =>
                HLL!AreOfTheSet(HLL!Add(registers, hash), H \cup {hash})
  <1> DEFINE z == HLL!LeadingZeros(hash)
             a == HLL!Add(registers, hash)
             x == HLL!IndexOf(hash)
  <1>1. z \in 1..(HashBits - B + 1) /\ HashBits - B \in Nat
    BY ZerosFitInARegister, Widths
  <1>2. a = [i \in HLL!Index |-> IF i = x /\ z > registers[i] THEN z
                                 ELSE registers[i]]
    BY DEF HLL!Add, Registered
  <1>3. a \in Registered
    BY <1>1, <1>2 DEF Registered
  <1>4. ASSUME HLL!AreOfTheSet(registers, H), NEW i \in HLL!Index
        PROVE  /\ \A h \in H \cup {hash} :
                      HLL!IndexOf(h) = i => HLL!LeadingZeros(h) <= a[i]
               /\ \/ a[i] = 0
                  \/ \E h \in H \cup {hash} :
                        HLL!IndexOf(h) = i /\ HLL!LeadingZeros(h) = a[i]
    <2>1. /\ \A h \in H : HLL!IndexOf(h) = i => HLL!LeadingZeros(h) <= registers[i]
          /\ \/ registers[i] = 0
             \/ \E h \in H : /\ HLL!IndexOf(h) = i
                             /\ HLL!LeadingZeros(h) = registers[i]
      BY <1>4 DEF HLL!AreOfTheSet
    <2>2. registers[i] \in 0..(HashBits - B + 1)
      BY DEF Registered
    <2>3. CASE i = x /\ z > registers[i]
      <3>1. a[i] = z
        BY <1>2, <2>3
      <3>2. ASSUME NEW h \in H, HLL!IndexOf(h) = i
            PROVE  HLL!LeadingZeros(h) <= z
        <4>1. HLL!LeadingZeros(h) <= registers[i]
          BY <2>1, <3>2
        <4>2. HLL!LeadingZeros(h) \in Int
          BY <1>1, ZerosFitInARegister
        <4> QED
          BY <1>1, <2>2, <2>3, <4>1, <4>2
      <3> QED
        BY <1>1, <2>3, <3>1, <3>2
    <2>4. CASE ~(i = x /\ z > registers[i])
      <3>1. a[i] = registers[i]
        BY <1>2, <2>4
      <3>2. x = i => z <= registers[i]
        BY <1>1, <2>2, <2>4
      <3> QED
        BY <2>1, <3>1, <3>2
    <2> QED
      BY <2>3, <2>4
  <1> HIDE DEF a
  <1>5. HLL!AreOfTheSet(registers, H) => HLL!AreOfTheSet(a, H \cup {hash})
    BY <1>4 DEF HLL!AreOfTheSet
  <1> QED
    BY <1>3, <1>5 DEF a

(* Any number of hashes, in whatever order: the function of AddAll, which  *)
(* is there by induction, keeps to the set of those it has been given.     *)
After(registers, hashes, N, after) ==
    after = [n \in 0..N |-> IF n = 0 THEN registers
                            ELSE HLL!Add(after[n - 1], hashes[n])]

LEMMA AfterExists ==
    ASSUME NEW registers, NEW hashes, NEW N \in Nat
    PROVE  \E after : After(registers, hashes, N, after)
  <1> DEFINE S == {m \in Nat : \E after : After(registers, hashes, m, after)}
  <1>1. 0 \in S
    <2> DEFINE after == [n \in 0..0 |-> registers]
    <2>1. After(registers, hashes, 0, after)
      BY DEF After
    <2> HIDE DEF after
    <2> QED
      BY <2>1
  <1>2. ASSUME NEW m \in S
        PROVE  m + 1 \in S
    <2>1. PICK before : After(registers, hashes, m, before)
      OBVIOUS
    <2>2. m \in Nat
      OBVIOUS
    <2> DEFINE after == [n \in 0..(m + 1) |->
                            IF n <= m THEN before[n]
                            ELSE HLL!Add(before[m], hashes[m + 1])]
    <2>3. \A n \in 0..(m + 1) :
              after[n] = IF n = 0 THEN registers
                         ELSE HLL!Add(after[n - 1], hashes[n])
      <3> TAKE n \in 0..(m + 1)
      <3>1. CASE n <= m
        <4>1. n \in 0..m /\ (n # 0 => n - 1 \in 0..m)
          BY <2>2, <3>1
        <4>2. before[n] = IF n = 0 THEN registers
                          ELSE HLL!Add(before[n - 1], hashes[n])
          BY <2>1, <4>1 DEF After
        <4> QED
          BY <2>2, <3>1, <4>1, <4>2
      <3>2. CASE n = m + 1
        BY <2>2, <3>2
      <3> QED
        BY <2>2, <3>1, <3>2
    <2>4. after = [n \in 0..(m + 1) |-> after[n]]
      OBVIOUS
    <2> HIDE DEF after
    <2>5. After(registers, hashes, m + 1, after)
      BY <2>3, <2>4 DEF After
    <2> QED
      BY <2>2, <2>5
  <1>3. S \in SUBSET Nat
    OBVIOUS
  <1> HIDE DEF S
  <1>4. S = Nat
    BY <1>1, <1>2, <1>3, Induction
  <1> QED
    BY <1>4 DEF S

LEMMA AddAllKeepsTheSet ==
    ASSUME NEW registers \in Registered, NEW hashes, Len(hashes) \in Nat,
           NEW H \in SUBSET HLL!Hashes, HLL!AreOfTheSet(registers, H),
           \A i \in 1..Len(hashes) : hashes[i] \in HLL!Hashes
    PROVE  /\ HLL!AddAll(registers, hashes) \in Registered
           /\ HLL!AreOfTheSet(HLL!AddAll(registers, hashes),
                              H \cup {hashes[i] : i \in 1..Len(hashes)})
  <1> DEFINE N == Len(hashes)
             after[n \in 0..N] == IF n = 0 THEN registers
                                  ELSE HLL!Add(after[n - 1], hashes[n])
             Given(n) == H \cup {hashes[i] : i \in 1..n}
  <1>1. HLL!AddAll(registers, hashes) = after[N]
    BY DEF HLL!AddAll
  <1>2. after = [n \in 0..N |-> IF n = 0 THEN registers
                                ELSE HLL!Add(after[n - 1], hashes[n])]
    <2>1. N \in Nat
      OBVIOUS
    <2>2. \E f : After(registers, hashes, N, f)
      BY <2>1, AfterExists
    <2>3. \E f : f = [n \in 0..N |-> IF n = 0 THEN registers
                                     ELSE HLL!Add(f[n - 1], hashes[n])]
      BY <2>2, Zenon DEF After
    <2> QED
      BY <2>3, Zenon
  <1> HIDE DEF after
  <1> DEFINE S == {n \in Nat : n <= N => /\ after[n] \in Registered
                                         /\ HLL!AreOfTheSet(after[n], Given(n))}
  <1>3. 0 \in S
    <2>1. after[0] = registers /\ Given(0) = H
      BY <1>2
    <2> QED
      BY <2>1
  <1>4. ASSUME NEW n \in S
        PROVE  n + 1 \in S
    <2> SUFFICES ASSUME n + 1 <= N
                 PROVE  /\ after[n + 1] \in Registered
                        /\ HLL!AreOfTheSet(after[n + 1], Given(n + 1))
      OBVIOUS
    <2>1. n \in Nat /\ n \in 0..N /\ n + 1 \in 1..N
      OBVIOUS
    <2>2. after[n] \in Registered /\ HLL!AreOfTheSet(after[n], Given(n))
      BY <2>1
    <2>3. after[n + 1] = HLL!Add(after[n], hashes[n + 1])
      BY <1>2, <2>1
    <2>4. hashes[n + 1] \in HLL!Hashes /\ Given(n) \in SUBSET HLL!Hashes
      BY <2>1
    <2>5. Given(n + 1) = Given(n) \cup {hashes[n + 1]}
      BY <2>1
    <2> HIDE DEF S, Given
    <2> QED
      BY <2>2, <2>3, <2>4, <2>5, AddKeepsTheSet
  <1>5. S \in SUBSET Nat
    OBVIOUS
  <1> HIDE DEF S
  <1>6. S = Nat
    BY <1>3, <1>4, <1>5, Induction
  <1>7. N \in S /\ N <= N
    BY <1>6
  <1>8. after[N] \in Registered /\ HLL!AreOfTheSet(after[N], Given(N))
    BY <1>7 DEF S
  <1> QED
    BY <1>1, <1>8

LEMMA NoElementsAreOfNoSet ==
    HLL!NoElements \in Registered /\ HLL!AreOfTheSet(HLL!NoElements, {})
  BY Widths DEF Registered, HLL!NoElements, HLL!AreOfTheSet

(* PFADD gives the hashes of its words to the registers it finds or makes. *)
LEMMA PFADDAllowed ==
    ASSUME NEW r, IsRecord(r), NEW words \in Words,
           NEW H \in SUBSET HLL!Hashes,
           r.type = "hyperloglog" => HLL!AreOfTheSet(r.value, H),
           r.type # "hyperloglog" => H = {}
    PROVE  LET after == PFADD(r, words) IN
           /\ Allowed(r, after)
           /\ after.reply = "OK" =>
                /\ after.record.type = "hyperloglog"
                /\ HLL!AreOfTheSet(after.record.value,
                                   H \cup {Hash(w) : w \in ToSet(words)})
           /\ after.reply # "OK" => after.record = r
  <1> DEFINE hashes == [i \in DOMAIN words |-> Hash(words[i])]
             v == HLL!AddAll(r.value, hashes)
             new == HLL!AddAll(HLL!NoElements, hashes)
             G == H \cup {Hash(w) : w \in ToSet(words)}
  <1>1. /\ Len(hashes) \in Nat
        /\ \A i \in 1..Len(hashes) : hashes[i] \in HLL!Hashes
        /\ {hashes[i] : i \in 1..Len(hashes)} = {Hash(w) : w \in ToSet(words)}
    <2>1. /\ Len(words) \in Nat /\ DOMAIN words = 1..Len(words)
          /\ \A i \in 1..Len(words) : words[i] \in Word
      BY WordsAreSequences
    <2>2. Len(hashes) = Len(words) /\ DOMAIN hashes = 1..Len(words)
      BY <2>1
    <2>3. \A i \in 1..Len(words) : hashes[i] = Hash(words[i])
      BY <2>1
    <2> HIDE DEF hashes
    <2>4. {hashes[i] : i \in 1..Len(words)} = {Hash(words[i]) : i \in 1..Len(words)}
      BY <2>3
    <2>5. {Hash(w) : w \in ToSet(words)} = {Hash(words[i]) : i \in 1..Len(words)}
      BY <2>1, Zenon DEF ToSet
    <2> QED
      BY <2>1, <2>2, <2>3, <2>4, <2>5, HashAssumption
  <1> HIDE DEF hashes
  <1>2. r.type = "hyperloglog" =>
            v \in Registered /\ HLL!AreOfTheSet(v, G)
    <2> HAVE r.type = "hyperloglog"
    <2>1. r.value \in Registered
      BY DEF IsRecord, Registered
    <2> QED
      BY <1>1, <2>1, AddAllKeepsTheSet
  <1>3. r.type # "hyperloglog" =>
            new \in Registered /\ HLL!AreOfTheSet(new, G)
    BY <1>1, NoElementsAreOfNoSet, AddAllKeepsTheSet
  <1>4. PFADD(r, words) =
            IF words = <<>> \/ r.type \notin {"hyperloglog", "none"} THEN Err(r)
            ELSE IF r.type = "hyperloglog" THEN Ok([r EXCEPT !.value = v])
            ELSE Ok(New("hyperloglog", new))
    BY Zenon DEF PFADD, Extend, hashes
  <1>5. "hyperloglog" \in Types \ {"none"}
    BY DEF Types
  <1>6. \A u \in Registered : IsRecord([type |-> "hyperloglog", value |-> u])
    BY DEF IsRecord, Types, Registered
  <1> HIDE DEF v, new, G
  <1>7. Allowed(r, PFADD(r, words))
    <2>1. /\ r.type = "hyperloglog" => IsRecord([type |-> "hyperloglog", value |-> v])
          /\ r.type = "none" => IsRecord([type |-> "hyperloglog", value |-> new])
      BY <1>2, <1>3, <1>6
    <2> QED
      BY <1>4, <1>5, <2>1, ExtendAllowed
  <1>8. PFADD(r, words).reply = "OK" =>
            /\ PFADD(r, words).record.type = "hyperloglog"
            /\ HLL!AreOfTheSet(PFADD(r, words).record.value, G)
    <2>1. CASE words = <<>> \/ r.type \notin {"hyperloglog", "none"}
      BY <1>4, <2>1 DEF Err
    <2>2. CASE words # <<>> /\ r.type = "hyperloglog"
      <3>1. r = [type |-> r.type, value |-> r.value]
        BY <2>2 DEF IsRecord, NoRecord
      <3>2. PFADD(r, words).record = [type |-> "hyperloglog", value |-> v]
        BY <1>4, <2>2, <3>1 DEF Ok
      <3> QED
        BY <1>2, <2>2, <3>2
    <2>3. CASE words # <<>> /\ r.type = "none"
      <3>1. PFADD(r, words).record = [type |-> "hyperloglog", value |-> new]
        BY <1>4, <2>3 DEF Ok, New
      <3> QED
        BY <1>3, <2>3, <3>1
    <2> QED
      BY <2>1, <2>2, <2>3
  <1>9. PFADD(r, words).reply # "OK" => PFADD(r, words).record = r
    BY <1>4 DEF Err, Ok
  <1> QED
    BY <1>7, <1>8, <1>9 DEF G

-----------------------------------------------------------------------------
(* Every command                                                           *)

LEMMA ExecuteCases ==
    ASSUME NEW name \in Names, NEW r, NEW k, NEW words
    PROVE  LET after == Execute(name, r, k, words) IN
           \/ after \in Readings(r, words)
           \/ name = "SET" /\ after = SET(r, k, words)
           \/ after \in {INCR(r, words), DECR(r, words),
                         INCRBY(r, words), DECRBY(r, words)}
           \/ after \in {LPUSH(r, words), RPUSH(r, words)}
           \/ after \in {LPOP(r, words), RPOP(r, words)}
           \/ after = HMSET(r, words) \/ after = HDEL(r, words)
           \/ after \in {SADD(r, words), SREM(r, words),
                         ZADD(r, words), ZREM(r, words)}
           \/ after = XADD(r, words) \/ after = XGROUP(r, words)
           \/ name = "DEL" /\ after = DEL(r, words)
           \/ name = "PFADD" /\ after = PFADD(r, words)
  <1>3. CASE name = "SET"
    BY <1>3, Zenon DEF Execute
  <1>4. CASE name = "DEL"
    BY <1>4, Zenon DEF Execute
  <1>5. CASE name = "PFADD"
    BY <1>5, Zenon DEF Execute
  <1>1. CASE name \in {"INCR", "DECR", "INCRBY", "DECRBY", "LPUSH", "RPUSH",
                       "LPOP", "RPOP", "HMSET", "HDEL", "SADD", "SREM",
                       "ZADD", "ZREM", "XADD", "XGROUP"}
    BY <1>1, Zenon DEF Execute
  <1>2. CASE name \in {"GET", "LRANGE", "LINDEX", "LLEN", "HGET", "HEXISTS",
                       "HGETALL", "SISMEMBER", "SMEMBERS", "SCARD",
                       "ZISMEMBER", "ZMEMBERS", "ZCARD", "PFCOUNT", "EXISTS",
                       "TYPE", "EXPIRE", "PERSIST", "MEMORY", "PING", "OTHER"}
    BY <1>2, Zenon DEF Execute, Readings
  <1> QED
    BY <1>1, <1>2, <1>3, <1>4, <1>5 DEF Names

LEMMA CommandsAllowed ==
    ASSUME NEW name \in Names, NEW r, IsRecord(r), NEW k, NEW words \in Words,
           NEW H \in SUBSET HLL!Hashes,
           r.type = "hyperloglog" => HLL!AreOfTheSet(r.value, H),
           r.type # "hyperloglog" => H = {}
    PROVE  LET after == Execute(name, r, k, words) IN
           /\ Possible(r, after)
           /\ name \notin {"SET", "DEL"} => Allowed(r, after)
           /\ \/ LeavesRegisters(r, after) /\ name # "PFADD"
              \/ name = "PFADD" /\ after = PFADD(r, words)
  <1> DEFINE after == Execute(name, r, k, words)
  <1>1. CASE name = "PFADD"
    <2>1. after = PFADD(r, words)
      BY <1>1, Zenon DEF Execute
    <2> QED
      <3>1. Allowed(r, PFADD(r, words))
        BY PFADDAllowed
      <3> QED
        BY <1>1, <2>1, <3>1, Zenon DEF Allowed
  <1>2. CASE name # "PFADD"
    <2> HIDE DEF after
    <2>1. \/ after \in Readings(r, words)
          \/ name = "SET" /\ after = SET(r, k, words)
          \/ after \in {INCR(r, words), DECR(r, words),
                        INCRBY(r, words), DECRBY(r, words)}
          \/ after \in {LPUSH(r, words), RPUSH(r, words)}
          \/ after \in {LPOP(r, words), RPOP(r, words)}
          \/ after = HMSET(r, words) \/ after = HDEL(r, words)
          \/ after \in {SADD(r, words), SREM(r, words),
                        ZADD(r, words), ZREM(r, words)}
          \/ after = XADD(r, words) \/ after = XGROUP(r, words)
          \/ name = "DEL" /\ after = DEL(r, words)
      BY <1>2, ExecuteCases, Zenon DEF after
    <2>2. /\ \/ name \in {"SET", "DEL"} /\ Possible(r, after)
             \/ Allowed(r, after)
          /\ LeavesRegisters(r, after)
      BY <2>1, ReadingsChangeNothing, SetAllowed, ArithmeticAllowed,
         PushAllowed, PopAllowed, HMSETAllowed, HDELAllowed, SetsAllowed,
         XAddAllowed, XGroupAllowed, DELAllowed, Zenon
    <2> QED
      BY <1>2, <2>2 DEF after, Allowed
  <1> QED
    BY <1>1, <1>2

-----------------------------------------------------------------------------
(* The specification: the types, and the registers of each HyperLogLog     *)
(* with the hashes it has been given; of other records none is remembered. *)
NothingElseAdded ==
    \A k \in Key : records[k].type # "hyperloglog" => added[k] = {}

Inv == TypeOK /\ RegistersAreOfTheSet /\ NothingElseAdded

LEMMA NoRecordIsRecord ==
    IsRecord(NoRecord) /\ NoRecord.type = "none"
  BY DEF IsRecord, NoRecord, Types

LEMMA HashesOfTypeOK ==
    HLL!Hashes = 0..(2^HashBits - 1)
  BY DEF HLL!Hashes

(* What one command does to the record of its key, and to its history.     *)
LEMMA ProcessSteps ==
    ASSUME Inv, NEW k \in Key, NEW name \in Names, NEW words \in Words,
           Process(k, name, words)
    PROVE  \E after, given :
             /\ Possible(records[k], after)
             /\ name \notin {"SET", "DEL"} => Allowed(records[k], after)
             /\ records' = [records EXCEPT ![k] = after.record]
             /\ reply' = after.reply
             /\ running' \in BOOLEAN
             /\ added' = [added EXCEPT ![k] = given]
             /\ given \in SUBSET HLL!Hashes
             /\ after.record.type = "hyperloglog" =>
                    HLL!AreOfTheSet(after.record.value, given)
             /\ after.record.type # "hyperloglog" => given = {}
  <1> DEFINE r == records[k]
             H == added[k]
             after == Execute(name, r, k, words)
             given == Added(k, name, after, words)
  <1>1. /\ IsRecord(r) /\ H \in SUBSET HLL!Hashes
        /\ r.type = "hyperloglog" => HLL!AreOfTheSet(r.value, H)
        /\ r.type # "hyperloglog" => H = {}
    BY HashesOfTypeOK
       DEF Inv, TypeOK, RegistersAreOfTheSet, NothingElseAdded
  <1>2. /\ Possible(r, after)
        /\ name \notin {"SET", "DEL"} => Allowed(r, after)
        /\ \/ LeavesRegisters(r, after) /\ name # "PFADD"
           \/ name = "PFADD" /\ after = PFADD(r, words)
    BY <1>1, CommandsAllowed
  <1>3. /\ records' = [records EXCEPT ![k] = after.record]
        /\ reply' = after.reply /\ running' = (after.reply # "crash")
        /\ added' = [added EXCEPT ![k] = given]
    BY Zenon DEF Process
  <1>4. given = IF after.record.type # "hyperloglog" THEN {}
                ELSE IF name = "PFADD" /\ after.reply = "OK"
                THEN H \cup {Hash(w) : w \in ToSet(words)} ELSE H
    BY Zenon DEF Added
  <1>5. {Hash(w) : w \in ToSet(words)} \in SUBSET HLL!Hashes
    BY WordsAreSequences, HashAssumption
  <1>6. name = "PFADD" =>
            /\ after.reply = "OK" =>
                 /\ after.record.type = "hyperloglog"
                 /\ HLL!AreOfTheSet(after.record.value,
                                    H \cup {Hash(w) : w \in ToSet(words)})
            /\ after.reply # "OK" => after.record = r
    <2> HIDE DEF r, H, after
    <2>1. name = "PFADD" => after = PFADD(r, words)
      BY <1>2
    <2>2. LET made == PFADD(r, words) IN
          /\ made.reply = "OK" =>
               /\ made.record.type = "hyperloglog"
               /\ HLL!AreOfTheSet(made.record.value,
                                  H \cup {Hash(w) : w \in ToSet(words)})
          /\ made.reply # "OK" => made.record = r
      BY <1>1, PFADDAllowed, Zenon
    <2> QED
      BY <2>1, <2>2, Zenon
  <1> HIDE DEF r, H, after, given
  <1>7. given \in SUBSET HLL!Hashes
    BY <1>1, <1>4, <1>5
  <1>8. after.record.type = "hyperloglog" =>
            HLL!AreOfTheSet(after.record.value, given)
    BY <1>1, <1>2, <1>4, <1>6 DEF LeavesRegisters
  <1>9. after.record.type # "hyperloglog" => given = {}
    BY <1>4
  <1>10. running' \in BOOLEAN
    BY <1>3
  <1> QED
    BY <1>2, <1>3, <1>7, <1>8, <1>9, <1>10, Zenon DEF r

(* One record and its history change, to others that keep to each other.   *)
LEMMA OneRecordChanges ==
    ASSUME Inv, NEW k \in Key, NEW new, IsRecord(new),
           NEW given \in SUBSET HLL!Hashes,
           new.type = "hyperloglog" => HLL!AreOfTheSet(new.value, given),
           new.type # "hyperloglog" => given = {},
           records' = [records EXCEPT ![k] = new],
           added' = [added EXCEPT ![k] = given],
           reply' \in {"none", "OK", "ERR", "value", "crash"},
           running' \in BOOLEAN
    PROVE  Inv'
  <1>1. /\ DOMAIN records = Key /\ DOMAIN added = Key
        /\ IsFiniteSet({j \in Key : records[j] # NoRecord})
        /\ \A j \in Key : IsRecord(records[j])
        /\ added \in [Key -> SUBSET HLL!Hashes]
    BY HashesOfTypeOK DEF Inv, TypeOK
  <1>2. /\ DOMAIN records' = Key
        /\ \A j \in Key : records'[j] = IF j = k THEN new ELSE records[j]
        /\ \A j \in Key : added'[j] = IF j = k THEN given ELSE added[j]
        /\ added' \in [Key -> SUBSET HLL!Hashes]
    BY <1>1
  <1>3. TypeOK'
    <2>1. IsFiniteSet({j \in Key : records'[j] # NoRecord})
      <3> DEFINE R == {j \in Key : records[j] # NoRecord}
                 N == {j \in Key : records'[j] # NoRecord}
      <3>1. N \in SUBSET (R \cup {k})
        BY <1>2
      <3>2. IsFiniteSet(R \cup {k})
        BY <1>1, FS_AddElement
      <3> HIDE DEF R, N
      <3>3. IsFiniteSet(N)
        BY <3>1, <3>2, FS_Subset
      <3> QED
        BY <3>3 DEF N
    <2>2. records' = [j \in Key |-> records'[j]]
      BY <1>1
    <2> QED
      BY <1>1, <1>2, <2>1, <2>2, HashesOfTypeOK DEF TypeOK, IsRecord, IsInt
  <1>4. RegistersAreOfTheSet'
    BY <1>2 DEF Inv, RegistersAreOfTheSet, HLL!AreOfTheSet
  <1>5. NothingElseAdded'
    BY <1>2 DEF Inv, NothingElseAdded
  <1> QED
    BY <1>3, <1>4, <1>5 DEF Inv

LEMMA InvInit == Init => Inv
  <1> SUFFICES ASSUME Init PROVE Inv
    OBVIOUS
  <1>1. \A k \in Key : records[k] = NoRecord /\ added[k] = {}
    BY DEF Init
  <1>2. /\ records = [k \in Key |-> records[k]]
        /\ {k \in Key : records[k] # NoRecord} = {}
        /\ added \in [Key -> SUBSET (0..(2^HashBits - 1))]
        /\ reply = "none" /\ running \in BOOLEAN
    BY DEF Init
  <1> QED
    BY <1>1, <1>2, NoRecordIsRecord, FS_EmptySet
       DEF Inv, TypeOK, RegistersAreOfTheSet, NothingElseAdded

LEMMA InvNext == Inv /\ [Next]_vars => Inv'
  <1> SUFFICES ASSUME Inv, [Next]_vars PROVE Inv'
    OBVIOUS
  <1>1. ASSUME NEW k \in Key, NEW name \in Names, NEW words \in Words,
               Process(k, name, words)
        PROVE  Inv'
    <2>1. PICK after, given :
             /\ Possible(records[k], after)
             /\ records' = [records EXCEPT ![k] = after.record]
             /\ reply' = after.reply
             /\ running' \in BOOLEAN
             /\ added' = [added EXCEPT ![k] = given]
             /\ given \in SUBSET HLL!Hashes
             /\ after.record.type = "hyperloglog" =>
                    HLL!AreOfTheSet(after.record.value, given)
             /\ after.record.type # "hyperloglog" => given = {}
      BY <1>1, ProcessSteps, Zenon
    <2>2. /\ IsRecord(after.record)
          /\ reply' \in {"none", "OK", "ERR", "value", "crash"}
      BY <2>1 DEF Possible
    <2> QED
      BY <2>1, <2>2, OneRecordChanges
  <1>2. ASSUME NEW k \in Key, Leave(k)
        PROVE  Inv'
    <2>1. /\ records' = [records EXCEPT ![k] = NoRecord]
          /\ added' = [added EXCEPT ![k] = {}]
          /\ reply' = "none" /\ running' \in BOOLEAN
      BY <1>2 DEF Leave, Inv, TypeOK
    <2>2. {} \in SUBSET HLL!Hashes
      OBVIOUS
    <2> QED
      BY <2>1, <2>2, NoRecordIsRecord, OneRecordChanges
  <1>3. CASE Restart
    <2>1. /\ \A k \in Key : records'[k] = NoRecord /\ added'[k] = {}
          /\ records' = [k \in Key |-> records'[k]]
          /\ {k \in Key : records'[k] # NoRecord} = {}
          /\ added' \in [Key -> SUBSET (0..(2^HashBits - 1))]
          /\ reply' = "none" /\ running' \in BOOLEAN
      BY <1>3 DEF Restart
    <2> QED
      BY <2>1, NoRecordIsRecord, FS_EmptySet
         DEF Inv, TypeOK, RegistersAreOfTheSet, NothingElseAdded, IsRecord
  <1>4. CASE UNCHANGED vars
    BY <1>4 DEF vars, Inv, TypeOK, RegistersAreOfTheSet, NothingElseAdded,
                IsRecord, IsInt, HLL!AreOfTheSet
  <1> QED
    BY <1>1, <1>2, <1>3, <1>4 DEF Next

LEMMA SpecInv == Spec => []Inv
  BY InvInit, InvNext, PTL DEF Spec

(* What is stored under a key is always a record of one of the eight       *)
(* types, with a value of that type over the words that clients sent: what *)
(* the casts in the execute methods take for granted.                      *)
THEOREM TypeCorrect == Spec => []TypeOK
  BY SpecInv, PTL DEF Inv

(* For any words and any sequence of commands, the registers of a          *)
(* HyperLogLog say of each index the highest count of the elements it has  *)
(* been given: neither their order nor their number matters.               *)
THEOREM RegistersTellTheSet == Spec => []RegistersAreOfTheSet
  BY SpecInv, PTL DEF Inv

-----------------------------------------------------------------------------
(* What a step may not do.                                                 *)

(* A command that answers with an error has changed nothing, but for HDEL  *)
(* and XGROUP CREATE.                                                      *)
THEOREM RefusalsAreClean == Spec => RefusalsChangeNothing
  <1> DEFINE Step == reply' = "ERR" =>
         \A k \in Key : records'[k] # records[k] =>
            \/ /\ records[k].type = "hash" /\ records'[k].type = "hash"
               /\ DOMAIN records'[k].value \subseteq DOMAIN records[k].value
               /\ \A f \in DOMAIN records'[k].value :
                     records'[k].value[f] = records[k].value[f]
            \/ /\ records[k] = NoRecord
               /\ records'[k] = [type |-> "stream", value |-> <<>>]
  <1>1. ASSUME Inv, [Next]_vars
        PROVE  [Step]_vars
    <2> SUFFICES ASSUME Next, reply' = "ERR", NEW j \in Key,
                        records'[j] # records[j]
                 PROVE  Refused(records[j], records'[j])
      BY <1>1 DEF Refused
    <2>1. PICK k \in Key, name \in Names, words \in Words : Process(k, name, words)
      BY DEF Next, Leave, Restart
    <2>2. PICK after : /\ Possible(records[k], after)
                       /\ records' = [records EXCEPT ![k] = after.record]
                       /\ reply' = after.reply
      BY <1>1, <2>1, ProcessSteps, Zenon
    <2>3. j = k /\ records'[k] = after.record
      BY <1>1, <2>2 DEF Inv, TypeOK
    <2> QED
      BY <2>2, <2>3 DEF Possible
  <1>2. Spec => [][Step]_vars
    BY <1>1, SpecInv, PTL DEF Spec
  <1> QED
    BY <1>2 DEF RefusalsChangeNothing

(* Whatever records the commands so far have left, no command but SET      *)
(* makes a record of one type into one of another, and none but DEL        *)
(* removes one.                                                            *)
THEOREM TypesLast == Spec => []OnlySETChangesType
  <1>1. ASSUME Inv
        PROVE  OnlySETChangesType
    <2> SUFFICES ASSUME NEW k \in Key, records[k] # NoRecord,
                        NEW name \in Names \ {"SET"}, NEW words \in Words
                 PROVE  LET after == Execute(name, records[k], k, words).record
                        IN  \/ after.type = records[k].type
                            \/ name = "DEL" /\ after = NoRecord
      BY DEF OnlySETChangesType
    <2> DEFINE r == records[k]
               H == added[k]
               after == Execute(name, r, k, words)
    <2>1. /\ IsRecord(r) /\ H \in SUBSET HLL!Hashes
          /\ r.type = "hyperloglog" => HLL!AreOfTheSet(r.value, H)
          /\ r.type # "hyperloglog" => H = {}
      BY <1>1, HashesOfTypeOK
         DEF Inv, TypeOK, RegistersAreOfTheSet, NothingElseAdded
    <2>2. name # "DEL" => Allowed(r, after)
      <3> HIDE DEF r, H, after
      <3>1. name \in Names /\ name # "SET"
        OBVIOUS
      <3>2. name # "DEL" => name \notin {"SET", "DEL"}
        OBVIOUS
      <3> QED
        BY <2>1, <3>1, <3>2, CommandsAllowed, Zenon DEF after
    <2>3. name = "DEL" => after.record = NoRecord
      <3>1. name = "DEL" => after = DEL(r, words)
        BY Zenon DEF Execute
      <3> QED
        BY <3>1 DEF DEL, Ok
    <2>4. name # "DEL" => after.record.type = r.type
      BY <2>2 DEF Allowed
    <2> QED
      BY <2>3, <2>4
  <1> QED
    BY <1>1, SpecInv, PTL

-----------------------------------------------------------------------------
(* The format of snapshots.                                                *)

(* The cells of a buffer after the first o are those of s.                 *)
Holds(b, o, s) ==
    o + Len(s) <= Len(b) /\ \A i \in 1..Len(s) : b[o + i] = s[i]

LEMMA SetsInSequence ==
    ASSUME NEW S, IsFiniteSet(S)
    PROVE  LET s == SetToSeq(S)
               n == Cardinality(S)
           IN  /\ n \in Nat /\ s \in [1..n -> S] /\ Len(s) = n
               /\ \A i, j \in 1..n : s[i] = s[j] => i = j
               /\ {s[i] : i \in 1..n} = S
  <1> DEFINE n == Cardinality(S)
             s == SetToSeq(S)
  <1>1. n \in Nat /\ ExistsBijection(1..n, S)
    BY FS_CardinalityType
  <1>2. PICK f : f \in Bijection(1..n, S)
    BY <1>1 DEF ExistsBijection
  <1>3. f \in [1..n -> S] /\ IsInjective(f)
    BY <1>2, Zenon DEF Bijection, Injection
  <1>4. s = CHOOSE g \in [1..n -> S] : IsInjective(g)
    BY DEF SetToSeq
  <1>5. s \in [1..n -> S] /\ IsInjective(s)
    BY <1>3, <1>4, Zenon
  <1>6. s \in Injection(1..n, S)
    BY <1>5, Zenon DEF Injection
  <1>7. Cardinality(1..n) = n /\ IsFiniteSet(1..n)
    BY <1>1, FS_Bijection, FS_Interval
  <1> HIDE DEF n, s
  <1>8. s \in Surjection(1..n, S)
    BY <1>6, <1>7, FS_Injection DEF n
  <1>9. \A x \in S : \E i \in 1..n : s[i] = x
    BY <1>8, Zenon DEF Surjection
  <1>10. \A i, j \in 1..n : s[i] = s[j] => i = j
    BY <1>5 DEF IsInjective
  <1>11. Len(s) = n
    BY <1>1, <1>5
  <1> QED
    BY <1>1, <1>5, <1>9, <1>10, <1>11 DEF n, s

(* A concatenation, and where in it each sequence begins.                  *)
Joined(U, n, seqs, f, off) ==
    /\ off \in [0..n -> Nat] /\ off[0] = 0
    /\ \A i \in 1..n : off[i] = off[i - 1] + Len(seqs[i])
    /\ f \in Seq(U) /\ Len(f) = off[n]
    /\ \A i \in 1..n : Holds(f, off[i - 1], seqs[i])

Flatten(seqs, n, f) ==
    f = [i \in 1..n |-> IF i = 1 THEN seqs[i] ELSE f[i - 1] \o seqs[i]]

LEMMA Concatenation ==
    ASSUME NEW U, NEW s \in Seq(U), NEW t \in Seq(U)
    PROVE  /\ s \o t \in Seq(U) /\ Len(s \o t) = Len(s) + Len(t)
           /\ Len(s) \in Nat /\ Len(t) \in Nat
           /\ \A i \in 1..Len(s) : (s \o t)[i] = s[i]
           /\ \A i \in 1..Len(t) : (s \o t)[Len(s) + i] = t[i]
  OBVIOUS

LEMMA HoldsMore ==
    ASSUME NEW U, NEW f \in Seq(U), NEW g \in Seq(U), NEW o \in Nat,
           NEW s \in Seq(U), Holds(f, o, s)
    PROVE  Holds(f \o g, o, s)
  BY DEF Holds

LEMMA HoldsParts ==
    ASSUME NEW U, NEW b \in Seq(U), NEW o \in Nat,
           NEW s \in Seq(U), NEW t \in Seq(U), Holds(b, o, s \o t)
    PROVE  /\ Holds(b, o, s) /\ Holds(b, o + Len(s), t)
           /\ Len(s \o t) = Len(s) + Len(t) /\ s \o t \in Seq(U)
  <1>1. /\ Len(s) \in Nat /\ Len(t) \in Nat /\ Len(b) \in Nat
        /\ Len(s \o t) = Len(s) + Len(t) /\ s \o t \in Seq(U)
        /\ \A i \in 1..Len(s) : (s \o t)[i] = s[i]
        /\ \A i \in 1..Len(t) : (s \o t)[Len(s) + i] = t[i]
    OBVIOUS
  <1>2. Holds(b, o, s)
    BY <1>1 DEF Holds
  <1>3. \A i \in 1..Len(t) : b[o + (Len(s) + i)] = t[i]
    <2>1. \A i \in 1..Len(t) : Len(s) + i \in 1..Len(s \o t)
      BY <1>1
    <2>2. \A i \in 1..Len(s \o t) : b[o + i] = (s \o t)[i]
      BY DEF Holds
    <2> QED
      BY <1>1, <2>1, <2>2
  <1>4. \A i \in 1..Len(t) : o + (Len(s) + i) = o + Len(s) + i
    BY <1>1
  <1>5. Holds(b, o + Len(s), t)
    BY <1>1, <1>3, <1>4 DEF Holds
  <1> QED
    BY <1>1, <1>2, <1>5

LEMMA FlattenExists ==
    ASSUME NEW seqs, NEW N \in Nat
    PROVE  \E f : Flatten(seqs, N, f)
  <1> DEFINE S == {m \in Nat : \E f : Flatten(seqs, m, f)}
  <1>1. 0 \in S
    <2> DEFINE f == [i \in 1..0 |-> 0]
    <2>1. Flatten(seqs, 0, f)
      BY DEF Flatten
    <2> HIDE DEF f
    <2> QED
      BY <2>1
  <1>2. ASSUME NEW m \in S
        PROVE  m + 1 \in S
    <2>1. PICK f : Flatten(seqs, m, f)
      OBVIOUS
    <2>2. m \in Nat
      OBVIOUS
    <2> DEFINE g == [i \in 1..(m + 1) |->
                        IF i <= m THEN f[i]
                        ELSE IF i = 1 THEN seqs[i] ELSE f[m] \o seqs[i]]
    <2>3. \A i \in 1..(m + 1) :
              g[i] = IF i = 1 THEN seqs[i] ELSE g[i - 1] \o seqs[i]
      <3> TAKE i \in 1..(m + 1)
      <3>1. CASE i <= m
        <4>1. i \in 1..m /\ (i # 1 => i - 1 \in 1..m)
          BY <2>2, <3>1
        <4>2. f[i] = IF i = 1 THEN seqs[i] ELSE f[i - 1] \o seqs[i]
          BY <2>1, <4>1 DEF Flatten
        <4>3. g[i] = f[i] /\ (i # 1 => g[i - 1] = f[i - 1])
          BY <2>2, <3>1, <4>1
        <4> HIDE DEF g
        <4> QED
          BY <4>2, <4>3
      <3>2. CASE i = m + 1
        <4>1. i # 1 => m \in 1..(m + 1) /\ i - 1 = m
          BY <2>2, <3>2
        <4>2. i # 1 => g[i - 1] = f[m]
          BY <2>2, <3>2, <4>1
        <4>3. g[i] = IF i = 1 THEN seqs[i] ELSE f[m] \o seqs[i]
          BY <2>2, <3>2
        <4> HIDE DEF g
        <4> QED
          BY <4>2, <4>3
      <3> QED
        BY <2>2, <3>1, <3>2
    <2>4. g = [i \in 1..(m + 1) |-> g[i]]
      OBVIOUS
    <2> HIDE DEF g
    <2>5. Flatten(seqs, m + 1, g)
      BY <2>3, <2>4 DEF Flatten
    <2> QED
      BY <2>2, <2>5
  <1>3. S \in SUBSET Nat
    OBVIOUS
  <1> HIDE DEF S
  <1>4. S = Nat
    BY <1>1, <1>2, <1>3, Induction
  <1> QED
    BY <1>4 DEF S

LEMMA Flattened ==
    ASSUME NEW U, NEW n \in Nat, NEW seqs \in Seq(Seq(U)), Len(seqs) = n
    PROVE  \E off : Joined(U, n, seqs, FlattenSeq(seqs), off)
  <1>1. CASE n = 0
    <2> DEFINE off == [i \in 0..0 |-> 0]
    <2>1. seqs = <<>> /\ FlattenSeq(seqs) = seqs
      BY <1>1 DEF FlattenSeq
    <2>2. off \in [0..0 -> Nat] /\ off[0] = 0
      OBVIOUS
    <2> HIDE DEF off
    <2>3. Joined(U, 0, seqs, <<>>, off)
      BY <2>2 DEF Joined
    <2> QED
      BY <1>1, <2>1, <2>3
  <1>2. CASE n # 0
    <2> DEFINE f[i \in 1..n] ==
                   IF i = 1 THEN seqs[i] ELSE f[i - 1] \o seqs[i]
    <2>1. FlattenSeq(seqs) = f[n]
      BY <1>2 DEF FlattenSeq
    <2>2. Flatten(seqs, n, f)
      <3>1. \E g : Flatten(seqs, n, g)
        BY FlattenExists
      <3>2. \E g : g = [i \in 1..n |-> IF i = 1 THEN seqs[i]
                                       ELSE g[i - 1] \o seqs[i]]
        BY <3>1, Zenon DEF Flatten
      <3>3. f = [i \in 1..n |-> IF i = 1 THEN seqs[i] ELSE f[i - 1] \o seqs[i]]
        BY <3>2, Zenon
      <3> QED
        BY <3>3, Zenon DEF Flatten
    <2> HIDE DEF f
    <2>3. \A i \in 1..n : f[i] = IF i = 1 THEN seqs[i] ELSE f[i - 1] \o seqs[i]
      BY <2>2 DEF Flatten
    <2> DEFINE S == {m \in Nat : m + 1 <= n =>
                        \E off : Joined(U, m + 1, seqs, f[m + 1], off)}
    <2>4. 0 \in S
      <3> DEFINE off == [i \in 0..1 |-> IF i = 0 THEN 0 ELSE Len(seqs[1])]
      <3>1. f[1] = seqs[1] /\ seqs[1] \in Seq(U) /\ Len(seqs[1]) \in Nat
        BY <1>2, <2>3
      <3>2. off \in [0..1 -> Nat] /\ off[0] = 0 /\ off[1] = Len(seqs[1])
        BY <3>1
      <3> HIDE DEF off
      <3>3. \A i \in 1..1 : i = 1 /\ i - 1 = 0
        OBVIOUS
      <3>4. Holds(seqs[1], 0, seqs[1])
        BY <3>1 DEF Holds
      <3>5. Joined(U, 1, seqs, f[1], off)
        BY <3>1, <3>2, <3>3, <3>4 DEF Joined
      <3> QED
        BY <3>5
    <2>5. ASSUME NEW m \in S
          PROVE  m + 1 \in S
      <3>0. m \in Nat /\ m + 1 \in Nat
        OBVIOUS
      <3> SUFFICES ASSUME m + 2 <= n
                   PROVE  \E off : Joined(U, m + 2, seqs, f[m + 2], off)
        BY <3>0
      <3>1. PICK off : Joined(U, m + 1, seqs, f[m + 1], off)
        BY <3>0
      <3> HIDE DEF S
      <3>2. /\ f[m + 2] = f[m + 1] \o seqs[m + 2]
            /\ \A i \in 1..(m + 2) : seqs[i] \in Seq(U)
            /\ f[m + 1] \in Seq(U) /\ Len(f[m + 1]) = off[m + 1]
            /\ off \in [0..(m + 1) -> Nat] /\ off[0] = 0
        <4>1. /\ m + 2 \in 1..n /\ m + 2 # 1 /\ (m + 2) - 1 = m + 1
              /\ 1..(m + 2) \subseteq 1..n
          BY <3>0
        <4>2. f[m + 2] = f[m + 1] \o seqs[m + 2]
          <5>1. \A i \in 1..n : i # 1 => f[i] = f[i - 1] \o seqs[i]
            BY <2>3, Zenon
          <5>2. \A i, j : i \in 1..n /\ i # 1 /\ i - 1 = j => f[i] = f[j] \o seqs[i]
            BY <5>1, Zenon
          <5> QED
            BY <4>1, <5>2, Zenon
        <4>3. \A i \in 1..n : seqs[i] \in Seq(U)
          OBVIOUS
        <4> QED
          BY <3>1, <4>1, <4>2, <4>3 DEF Joined
      <3> DEFINE g == [i \in 0..(m + 2) |->
                          IF i <= m + 1 THEN off[i]
                          ELSE off[m + 1] + Len(seqs[m + 2])]
                 h == f[m + 1] \o seqs[m + 2]
      <3>3. /\ h \in Seq(U)
            /\ Len(h) = off[m + 1] + Len(seqs[m + 2])
            /\ Len(seqs[m + 2]) \in Nat /\ seqs[m + 2] \in Seq(U)
        <4>1. m + 2 \in 1..(m + 2)
          BY <3>0
        <4>2. seqs[m + 2] \in Seq(U)
          BY <3>2, <4>1
        <4> DEFINE u == f[m + 1]
                   v == seqs[m + 2]
        <4>3. u \in Seq(U) /\ v \in Seq(U) /\ h = u \o v /\ Len(u) = off[m + 1]
          BY <3>2, <4>2
        <4> HIDE DEF u, v, h
        <4>4. h \in Seq(U) /\ Len(h) = Len(u) + Len(v) /\ Len(v) \in Nat
          BY <4>3, Concatenation
        <4> QED
          BY <4>2, <4>3, <4>4, Zenon DEF v
      <3>4. /\ g \in [0..(m + 2) -> Nat] /\ g[0] = 0
            /\ g[m + 2] = off[m + 1] + Len(seqs[m + 2])
            /\ \A i \in 0..(m + 1) : g[i] = off[i]
        BY <3>0, <3>2, <3>3
      <3> HIDE DEF g
      <3>5. \A i \in 1..(m + 2) : g[i] = g[i - 1] + Len(seqs[i])
        <4> TAKE i \in 1..(m + 2)
        <4>1. CASE i <= m + 1
          <5>1. i \in 1..(m + 1) /\ i \in 0..(m + 1) /\ i - 1 \in 0..(m + 1)
            BY <3>0, <4>1
          <5> QED
            BY <3>1, <3>4, <5>1 DEF Joined
        <4>2. CASE i = m + 2
          <5>1. i - 1 = m + 1 /\ m + 1 \in 0..(m + 1)
            BY <3>0, <4>2
          <5> QED
            BY <3>4, <4>2, <5>1
        <4> QED
          BY <3>0, <4>1, <4>2
      <3>6. \A i \in 1..(m + 2) : Holds(h, g[i - 1], seqs[i])
        <4> TAKE i \in 1..(m + 2)
        <4>1. CASE i <= m + 1
          <5>1. i \in 1..(m + 1) /\ i - 1 \in 0..(m + 1)
            BY <3>0, <4>1
          <5>2. Holds(f[m + 1], off[i - 1], seqs[i]) /\ off[i - 1] \in Nat
            BY <3>1, <3>2, <5>1 DEF Joined
          <5> QED
            BY <3>2, <3>3, <3>4, <5>1, <5>2, HoldsMore
        <4>2. CASE i = m + 2
          <5>1. i - 1 = m + 1 /\ m + 1 \in 0..(m + 1)
            BY <3>0, <4>2
          <5>2. Holds(h, off[m + 1], seqs[m + 2])
            <6> DEFINE u == f[m + 1]
                       v == seqs[m + 2]
            <6>1. u \in Seq(U) /\ v \in Seq(U) /\ h = u \o v
              BY <3>2, <3>3
            <6> HIDE DEF u, v, h
            <6>2. Holds(h, Len(u), v)
              BY <6>1 DEF Holds
            <6> QED
              BY <3>2, <6>2 DEF u, v
          <5> QED
            BY <3>4, <4>2, <5>1, <5>2
        <4> QED
          BY <3>0, <4>1, <4>2
      <3>7. Joined(U, m + 2, seqs, h, g)
        BY <3>3, <3>4, <3>5, <3>6 DEF Joined
      <3> QED
        BY <3>2, <3>7
    <2>6. S \in SUBSET Nat
      OBVIOUS
    <2> HIDE DEF S
    <2>7. S = Nat
      BY <2>4, <2>5, <2>6, Induction
    <2>8. n - 1 \in S /\ n - 1 + 1 = n /\ n <= n
      BY <1>2, <2>7
    <2>9. \E off : Joined(U, n, seqs, f[n], off)
      BY <2>8 DEF S
    <2> QED
      BY <2>1, <2>9
  <1> QED
    BY <1>1, <1>2

LEMMA AppendNext ==
    ASSUME NEW n \in Nat, NEW w
    PROVE  Append([j \in 1..n |-> w[j]], w[n + 1]) = [j \in 1..(n + 1) |-> w[j]]
  <1> DEFINE U == {w[j] : j \in 1..(n + 1)}
             s == [j \in 1..n |-> w[j]]
             t == [j \in 1..(n + 1) |-> w[j]]
  <1>1. s \in Seq(U) /\ t \in Seq(U) /\ Len(s) = n /\ Len(t) = n + 1
        /\ w[n + 1] \in U
    OBVIOUS
  <1>2. /\ \A j \in 1..n : s[j] = w[j]
        /\ \A j \in 1..(n + 1) : t[j] = w[j]
    OBVIOUS
  <1> HIDE DEF s, t, U
  <1>3. /\ Append(s, w[n + 1]) \in Seq(U) /\ Len(Append(s, w[n + 1])) = n + 1
        /\ \A j \in 1..(n + 1) : Append(s, w[n + 1])[j] = t[j]
    BY <1>1, <1>2
  <1> QED
    BY <1>1, <1>3 DEF s, t

(* Reading.                                                                *)
LEMMA NumberIsRead ==
    ASSUME NEW b, Len(b) \in Nat, NEW o \in Nat
    PROVE  /\ o + 1 <= Len(b) => ReadNumber(b, o) = Read(b[o + 1], o + 1)
           /\ o + 1 > Len(b) => ReadNumber(b, o) = Fails
  BY DEF ReadNumber

LEMMA StringIsRead ==
    ASSUME NEW b, Len(b) \in Nat, NEW o \in Nat,
           o + 1 <= Len(b) => b[o + 1] = 1
    PROVE  /\ o + 2 <= Len(b) => ReadString(b, o) = Read(b[o + 2], o + 2)
           /\ o + 2 > Len(b) => ReadString(b, o) = Fails
  <1>1. CASE o + 1 > Len(b)
    <2>1. ReadNumber(b, o) = Fails /\ ~Fails.ok
      BY <1>1, NumberIsRead DEF Fails
    <2> QED
      BY <1>1, <2>1 DEF ReadString
  <1>2. CASE o + 1 <= Len(b)
    <2>1. ReadNumber(b, o) = [ok |-> TRUE, val |-> 1, offset |-> o + 1]
      BY <1>2, NumberIsRead DEF Read
    <2>2. ReadString(b, o) = IF o + 1 + 1 > Len(b) THEN Fails
                             ELSE Read(b[o + 1 + 1], o + 1 + 1)
      BY <2>1 DEF ReadString
    <2>3. o + 1 + 1 = o + 2
      OBVIOUS
    <2> QED
      BY <2>2, <2>3
  <1> QED
    BY <1>1, <1>2

(* Items that are the elements of w, one after the other.                  *)
Leading(w, n) == [j \in 1..n |-> w[j]]
ReadStrings(b, o, n) == ReadItems(b, o, n, ReadString)
ReadNumbers(b, o, n) == ReadItems(b, o, n, ReadNumber)
ReadCountedStrings(b, d) == ReadCounted(b, d, ReadString)
ReadCountedNumbers(b, d) == ReadCounted(b, d, ReadNumber)

ReadSoFar(o, d, n, w) == [i \in 0..n |-> Read([j \in 1..i |-> w[j]], o + d * i)]

LEMMA ItemsAreRead ==
    ASSUME NEW n \in Nat, NEW o \in Nat, NEW d \in Nat, NEW w, NEW i \in 0..n
    PROVE  LET so == ReadSoFar(o, d, n, w) IN
           /\ so[i].ok /\ so[i].offset = o + d * i
           /\ i = 0 => so[i] = Read(<<>>, o)
           /\ i > 0 => so[i] = Read(Append(so[i - 1].val, w[i]), o + d * i)
  <1> DEFINE so == ReadSoFar(o, d, n, w)
  <1>1. so[i] = [ok |-> TRUE, val |-> [j \in 1..i |-> w[j]], offset |-> o + d * i]
    BY DEF ReadSoFar, Read
  <1>2. i = 0 => so[i] = Read(<<>>, o)
    <2> HAVE i = 0
    <2>1. [j \in 1..i |-> w[j]] = <<>> /\ o + d * i = o
      OBVIOUS
    <2> HIDE DEF so
    <2> QED
      BY <1>1, <2>1 DEF Read
  <1>3. i > 0 => so[i] = Read(Append(so[i - 1].val, w[i]), o + d * i)
    <2> HAVE i > 0
    <2>1. i - 1 \in Nat /\ i - 1 \in 0..n /\ i - 1 + 1 = i
      OBVIOUS
    <2>2. so[i - 1].val = [j \in 1..(i - 1) |-> w[j]]
      BY <2>1 DEF ReadSoFar, Read
    <2>3. Append([j \in 1..(i - 1) |-> w[j]], w[i]) = [j \in 1..i |-> w[j]]
      BY <2>1, AppendNext
    <2> HIDE DEF so
    <2> QED
      BY <1>1, <2>2, <2>3 DEF Read
  <1> HIDE DEF so
  <1>4. so[i].ok /\ so[i].offset = o + d * i
    BY <1>1
  <1> QED
    BY <1>2, <1>3, <1>4 DEF so

StringsAt(b, o, n, w) ==
    /\ Len(b) \in Nat /\ o + 2 * n <= Len(b)
    /\ \A i \in 1..n : b[o + 2 * i - 1] = 1 /\ b[o + 2 * i] = w[i]

NumbersAt(b, o, n, w) ==
    /\ Len(b) \in Nat /\ o + n <= Len(b)
    /\ \A i \in 1..n : b[o + i] = w[i]

LEMMA StringsAreRead ==
    ASSUME NEW b, NEW o \in Nat, NEW n \in Nat, NEW w, StringsAt(b, o, n, w)
    PROVE  ReadStrings(b, o, n) = Read(Leading(w, n), o + 2 * n)
  <1> DEFINE so == ReadSoFar(o, 2, n, w)
             read[i \in 0..n] ==
                IF i = 0 THEN Read(<<>>, o) ELSE
                LET before == read[i - 1]
                    item == ReadString(b, before.offset)
                IN  IF ~before.ok \/ ~item.ok THEN Fails
                    ELSE Read(Append(before.val, item.val), item.offset)
  <1>1. ReadStrings(b, o, n) = read[n]
    BY Zenon DEF ReadStrings, ReadItems
  <1>2. \A i \in 0..n : so[i].ok /\ so[i].offset = o + 2 * i
    BY ItemsAreRead
  <1>3. so[0] = Read(<<>>, o)
    BY ItemsAreRead
  <1>4. \A i \in 1..n : so[i] = Read(Append(so[i - 1].val, w[i]), o + 2 * i)
    BY ItemsAreRead
  <1>5. ASSUME NEW i \in 1..n
        PROVE  ReadString(b, o + 2 * (i - 1)) = Read(w[i], o + 2 * i)
    <2> DEFINE p == o + 2 * (i - 1)
    <2>1. p \in Nat /\ p + 1 = o + 2 * i - 1 /\ p + 2 = o + 2 * i
          /\ o + 2 * i <= Len(b) /\ Len(b) \in Nat
      BY DEF StringsAt
    <2> HIDE DEF p
    <2>2. b[p + 1] = 1 /\ b[p + 2] = w[i] /\ p + 2 <= Len(b)
      BY <2>1 DEF StringsAt
    <2>3. ReadString(b, p) = Read(b[p + 2], p + 2)
      BY <2>1, <2>2, StringIsRead
    <2> QED
      BY <2>1, <2>2, <2>3 DEF p
  <1>6. so = [i \in 0..n |-> so[i]]
    BY DEF ReadSoFar
  <1> HIDE DEF so
  <1>7. \A i \in 0..n :
            so[i] = IF i = 0 THEN Read(<<>>, o) ELSE
                    LET before == so[i - 1]
                        item == ReadString(b, before.offset)
                    IN  IF ~before.ok \/ ~item.ok THEN Fails
                        ELSE Read(Append(before.val, item.val), item.offset)
    <2> TAKE i \in 0..n
    <2>1. CASE i = 0
      BY <1>3, <2>1
    <2>2. CASE i # 0
      <3>1. i \in 1..n /\ i - 1 \in 0..n
        BY <2>2
      <3>2. so[i - 1].ok /\ so[i - 1].offset = o + 2 * (i - 1)
        BY <1>2, <3>1
      <3>3. ReadString(b, so[i - 1].offset)
                = [ok |-> TRUE, val |-> w[i], offset |-> o + 2 * i]
        BY <1>5, <3>1, <3>2 DEF Read
      <3>4. so[i] = Read(Append(so[i - 1].val, w[i]), o + 2 * i)
        BY <1>4, <3>1
      <3> QED
        BY <2>2, <3>2, <3>3, <3>4
    <2> QED
      BY <2>1, <2>2
  <1>8. so = [i \in 0..n |->
                IF i = 0 THEN Read(<<>>, o) ELSE
                LET before == so[i - 1]
                    item == ReadString(b, before.offset)
                IN  IF ~before.ok \/ ~item.ok THEN Fails
                    ELSE Read(Append(before.val, item.val), item.offset)]
    BY <1>6, <1>7
  <1>9. read = [i \in 0..n |->
                IF i = 0 THEN Read(<<>>, o) ELSE
                LET before == read[i - 1]
                    item == ReadString(b, before.offset)
                IN  IF ~before.ok \/ ~item.ok THEN Fails
                    ELSE Read(Append(before.val, item.val), item.offset)]
    BY <1>8, Zenon
  <1> HIDE DEF read
  <1> DEFINE S == {i \in Nat : i <= n => read[i] = so[i]}
  <1>10. 0 \in S
    BY <1>3, <1>9
  <1>11. ASSUME NEW i \in S
         PROVE  i + 1 \in S
    <2>1. CASE i + 1 <= n
      <3>1. i \in Nat /\ i + 1 \in 0..n /\ i + 1 # 0 /\ (i + 1) - 1 = i
            /\ read[i] = so[i]
        BY <2>1
      <3>2. read[i + 1] = LET item == ReadString(b, read[i].offset)
                          IN  IF ~read[i].ok \/ ~item.ok THEN Fails
                              ELSE Read(Append(read[i].val, item.val), item.offset)
        <4>1. \A j \in 0..n :
                read[j] = IF j = 0 THEN Read(<<>>, o) ELSE
                    LET before == read[j - 1]
                        item == ReadString(b, before.offset)
                    IN  IF ~before.ok \/ ~item.ok THEN Fails
                        ELSE Read(Append(before.val, item.val), item.offset)
          BY <1>9
        <4> QED
          BY <3>1, <4>1
      <3>3. so[i + 1] = LET item == ReadString(b, so[i].offset)
                        IN  IF ~so[i].ok \/ ~item.ok THEN Fails
                            ELSE Read(Append(so[i].val, item.val), item.offset)
        BY <1>7, <3>1
      <3> QED
        BY <3>1, <3>2, <3>3
    <2> QED
      BY <2>1
  <1>12. S \in SUBSET Nat
    OBVIOUS
  <1> HIDE DEF S
  <1>13. S = Nat
    BY <1>10, <1>11, <1>12, Induction
  <1>14. n \in S /\ n <= n
    BY <1>13
  <1>15. read[n] = so[n]
    BY <1>14 DEF S
  <1> QED
    BY <1>1, <1>15 DEF so, ReadSoFar, Leading

LEMMA NumbersAreRead ==
    ASSUME NEW b, NEW o \in Nat, NEW n \in Nat, NEW w, NumbersAt(b, o, n, w)
    PROVE  ReadNumbers(b, o, n) = Read(Leading(w, n), o + n)
  <1> DEFINE so == ReadSoFar(o, 1, n, w)
             read[i \in 0..n] ==
                IF i = 0 THEN Read(<<>>, o) ELSE
                LET before == read[i - 1]
                    item == ReadNumber(b, before.offset)
                IN  IF ~before.ok \/ ~item.ok THEN Fails
                    ELSE Read(Append(before.val, item.val), item.offset)
  <1>1. ReadNumbers(b, o, n) = read[n]
    BY Zenon DEF ReadNumbers, ReadItems
  <1>2. \A i \in 0..n : so[i].ok /\ so[i].offset = o + i
    <2>1. \A i \in 0..n : so[i].ok /\ so[i].offset = o + 1 * i
      BY ItemsAreRead
    <2> HIDE DEF so
    <2> QED
      BY <2>1
  <1>3. so[0] = Read(<<>>, o)
    BY ItemsAreRead
  <1>4. \A i \in 1..n : so[i] = Read(Append(so[i - 1].val, w[i]), o + i)
    <2>1. \A i \in 1..n : so[i] = Read(Append(so[i - 1].val, w[i]), o + 1 * i)
      BY ItemsAreRead
    <2> HIDE DEF so
    <2> QED
      BY <2>1
  <1>5. ASSUME NEW i \in 1..n
        PROVE  ReadNumber(b, o + (i - 1)) = Read(w[i], o + i)
    <2> DEFINE p == o + (i - 1)
    <2>1. /\ p \in Nat /\ p + 1 = o + i /\ o + i <= Len(b)
          /\ Len(b) \in Nat
      BY DEF NumbersAt
    <2> HIDE DEF p
    <2>2. b[p + 1] = w[i] /\ p + 1 <= Len(b)
      BY <2>1 DEF NumbersAt
    <2>3. ReadNumber(b, p) = Read(b[p + 1], p + 1)
      BY <2>1, <2>2, NumberIsRead
    <2> QED
      BY <2>1, <2>2, <2>3 DEF p
  <1>6. so = [i \in 0..n |-> so[i]]
    BY DEF ReadSoFar
  <1> HIDE DEF so
  <1>7. \A i \in 0..n :
            so[i] = IF i = 0 THEN Read(<<>>, o) ELSE
                    LET before == so[i - 1]
                        item == ReadNumber(b, before.offset)
                    IN  IF ~before.ok \/ ~item.ok THEN Fails
                        ELSE Read(Append(before.val, item.val), item.offset)
    <2> TAKE i \in 0..n
    <2>1. CASE i = 0
      BY <1>3, <2>1
    <2>2. CASE i # 0
      <3>1. i \in 1..n /\ i - 1 \in 0..n
        BY <2>2
      <3>2. so[i - 1].ok /\ so[i - 1].offset = o + (i - 1)
        BY <1>2, <3>1
      <3>3. ReadNumber(b, so[i - 1].offset)
                = [ok |-> TRUE, val |-> w[i], offset |-> o + i]
        BY <1>5, <3>1, <3>2 DEF Read
      <3>4. so[i] = Read(Append(so[i - 1].val, w[i]), o + i)
        BY <1>4, <3>1
      <3> QED
        BY <2>2, <3>2, <3>3, <3>4
    <2> QED
      BY <2>1, <2>2
  <1>8. so = [i \in 0..n |->
                IF i = 0 THEN Read(<<>>, o) ELSE
                LET before == so[i - 1]
                    item == ReadNumber(b, before.offset)
                IN  IF ~before.ok \/ ~item.ok THEN Fails
                    ELSE Read(Append(before.val, item.val), item.offset)]
    BY <1>6, <1>7
  <1>9. read = [i \in 0..n |->
                IF i = 0 THEN Read(<<>>, o) ELSE
                LET before == read[i - 1]
                    item == ReadNumber(b, before.offset)
                IN  IF ~before.ok \/ ~item.ok THEN Fails
                    ELSE Read(Append(before.val, item.val), item.offset)]
    BY <1>8, Zenon
  <1> HIDE DEF read
  <1> DEFINE S == {i \in Nat : i <= n => read[i] = so[i]}
  <1>10. 0 \in S
    BY <1>3, <1>9
  <1>11. ASSUME NEW i \in S
         PROVE  i + 1 \in S
    <2>1. CASE i + 1 <= n
      <3>1. i \in Nat /\ i + 1 \in 0..n /\ i + 1 # 0 /\ (i + 1) - 1 = i
            /\ read[i] = so[i]
        BY <2>1
      <3>2. read[i + 1] = LET item == ReadNumber(b, read[i].offset)
                          IN  IF ~read[i].ok \/ ~item.ok THEN Fails
                              ELSE Read(Append(read[i].val, item.val), item.offset)
        <4>1. \A j \in 0..n :
                read[j] = IF j = 0 THEN Read(<<>>, o) ELSE
                    LET before == read[j - 1]
                        item == ReadNumber(b, before.offset)
                    IN  IF ~before.ok \/ ~item.ok THEN Fails
                        ELSE Read(Append(before.val, item.val), item.offset)
          BY <1>9
        <4> QED
          BY <3>1, <4>1
      <3>3. so[i + 1] = LET item == ReadNumber(b, so[i].offset)
                        IN  IF ~so[i].ok \/ ~item.ok THEN Fails
                            ELSE Read(Append(so[i].val, item.val), item.offset)
        BY <1>7, <3>1
      <3> QED
        BY <3>1, <3>2, <3>3
    <2> QED
      BY <2>1
  <1>12. S \in SUBSET Nat
    OBVIOUS
  <1> HIDE DEF S
  <1>13. S = Nat
    BY <1>10, <1>11, <1>12, Induction
  <1>14. n \in S /\ n <= n
    BY <1>13
  <1>15. read[n] = so[n]
    BY <1>14 DEF S
  <1>16. so[n] = Read(Leading(w, n), o + n)
    <2>1. so[n] = Read(Leading(w, n), o + 1 * n)
      BY DEF so, ReadSoFar, Leading
    <2> QED
      BY <2>1
  <1> QED
    BY <1>1, <1>15, <1>16

-----------------------------------------------------------------------------
(* Strings in a row, in a buffer of their own after their number.          *)

StringsOf(b, n, w) ==
    /\ Len(b) = 1 + 2 * n
    /\ \A i \in 1..n : b[2 * i] = 1 /\ b[2 * i + 1] = w[i]

LEMMA CountedStrings ==
    ASSUME NEW b, NEW k \in Nat, NEW d \in Nat, b[1] = k, NEW w,
           StringsOf(b, d * k, w)
    PROVE  ReadCountedStrings(b, d)
               = Read(Leading(w, d * k), 1 + 2 * (d * k))
  <1> DEFINE n == d * k
  <1>1. n \in Nat
    OBVIOUS
  <1>2. Len(b) = 1 + 2 * n /\ \A i \in 1..n : b[2 * i] = 1 /\ b[2 * i + 1] = w[i]
    BY DEF StringsOf
  <1>3. ReadCountedStrings(b, d)
            = IF ReadNumber(b, 0).ok
              THEN ReadStrings(b, ReadNumber(b, 0).offset,
                               d * ReadNumber(b, 0).val)
              ELSE Fails
    BY Zenon DEF ReadCounted, ReadCountedStrings, ReadStrings
  <1>4. ReadNumber(b, 0) = [ok |-> TRUE, val |-> k, offset |-> 1]
    <2> HIDE DEF n
    <2>1. Len(b) \in Nat /\ 0 + 1 <= Len(b) /\ 0 + 1 = 1
      BY <1>1, <1>2
    <2>2. ReadNumber(b, 0) = Read(b[0 + 1], 0 + 1)
      BY <2>1, NumberIsRead
    <2> QED
      BY <2>1, <2>2 DEF Read
  <1>5. ReadStrings(b, 1, n) = Read(Leading(w, n), 1 + 2 * n)
    <2> HIDE DEF n
    <2>1. \A i \in 1..n : 1 + 2 * i - 1 = 2 * i /\ 1 + 2 * i = 2 * i + 1
      BY <1>1
    <2>2. \A i \in 1..n : b[1 + 2 * i - 1] = 1 /\ b[1 + 2 * i] = w[i]
      BY <1>2, <2>1
    <2>3. StringsAt(b, 1, n, w)
      BY <1>1, <1>2, <2>2 DEF StringsAt
    <2> QED
      BY <1>1, <2>3, StringsAreRead
  <1> QED
    BY <1>3, <1>4, <1>5

LEMMA CountedNumbers ==
    ASSUME NEW b, NEW n \in Nat, NEW w, Len(b) = 1 + n, b[1] = n,
           \A i \in 1..n : b[1 + i] = w[i]
    PROVE  ReadCountedNumbers(b, 1) = Read(Leading(w, n), 1 + n)
  <1>1. ReadCountedNumbers(b, 1)
            = IF ReadNumber(b, 0).ok
              THEN ReadNumbers(b, ReadNumber(b, 0).offset,
                               1 * ReadNumber(b, 0).val)
              ELSE Fails
    BY Zenon DEF ReadCounted, ReadCountedNumbers, ReadNumbers
  <1>2. ReadNumber(b, 0) = [ok |-> TRUE, val |-> n, offset |-> 1]
    <2>1. Len(b) \in Nat /\ 0 + 1 <= Len(b) /\ 0 + 1 = 1
      OBVIOUS
    <2>2. ReadNumber(b, 0) = Read(b[0 + 1], 0 + 1)
      BY <2>1, NumberIsRead
    <2> QED
      BY <2>1, <2>2 DEF Read
  <1>3. 1 * n = n
    OBVIOUS
  <1>4. ReadNumbers(b, 1, n) = Read(Leading(w, n), 1 + n)
    <2>1. NumbersAt(b, 1, n, w)
      BY DEF NumbersAt
    <2> QED
      BY <2>1, NumbersAreRead
  <1> QED
    BY <1>1, <1>2, <1>3, <1>4

(* Cells of n pairs in a row, or of n fours.                               *)
OfLength(seqs, n, c) == \A i \in 1..n : Len(seqs[i]) = c
Regular(off, n, c) == \A i \in 0..n : off[i] = c * i

LEMMA EqualParts ==
    ASSUME NEW U, NEW n \in Nat, NEW seqs, NEW f, NEW off,
           Joined(U, n, seqs, f, off), NEW c \in {2, 4}, OfLength(seqs, n, c)
    PROVE  Regular(off, n, c)
  <1> DEFINE p(i) == c * i
             S == {i \in Nat : i <= n => off[i] = p(i)}
  <1>1. p(0) = 0 /\ \A i \in Nat : p(i + 1) = p(i) + c
    OBVIOUS
  <1> HIDE DEF p
  <1>2. 0 \in S
    BY <1>1 DEF Joined
  <1>3. ASSUME NEW i \in S
        PROVE  i + 1 \in S
    <2>1. CASE i + 1 <= n
      <3>1. i \in Nat /\ i + 1 \in 1..n /\ (i + 1) - 1 = i /\ off[i] = p(i)
        BY <2>1
      <3>2. off[i + 1] = off[i] + c
        BY <3>1 DEF Joined, OfLength
      <3>3. p(i + 1) = p(i) + c
        BY <1>1, <3>1
      <3> QED
        BY <3>1, <3>2, <3>3
    <2> QED
      BY <2>1
  <1>4. S \in SUBSET Nat
    OBVIOUS
  <1> HIDE DEF S
  <1>5. S = Nat
    BY <1>2, <1>3, <1>4, Induction
  <1>6. \A i \in 0..n : off[i] = p(i)
    BY <1>5 DEF S
  <1> QED
    BY <1>6 DEF p, Regular

LEMMA ListCells ==
    ASSUME NEW U, Nat \subseteq U, NEW l \in Seq(U)
    PROVE  /\ AppendList(l) \in Seq(U) /\ AppendList(l)[1] = Len(l)
           /\ StringsOf(AppendList(l), Len(l), l)
  <1> DEFINE n == Len(l)
             seqs == [i \in DOMAIN l |-> AppendString(l[i])]
             f == FlattenSeq(seqs)
             b == AppendList(l)
  <1>1. n \in Nat /\ n \in U /\ DOMAIN l = 1..n /\ \A i \in 1..n : l[i] \in U
    OBVIOUS
  <1>2. \A i \in 1..n : /\ seqs[i] = <<1, l[i]>> /\ seqs[i] \in Seq(U)
                        /\ Len(seqs[i]) = 2
    BY <1>1 DEF AppendString
  <1>3. seqs \in Seq(Seq(U)) /\ Len(seqs) = n
    BY <1>1, <1>2
  <1>4. b = <<n>> \o f
    BY Zenon DEF AppendList
  <1> HIDE DEF n, seqs, f, b
  <1>5. PICK off : Joined(U, n, seqs, f, off)
    BY <1>1, <1>3, Flattened DEF f
  <1>6. \A i \in 0..n : off[i] = 2 * i
    <2>1. 2 \in {2, 4} /\ OfLength(seqs, n, 2)
      BY <1>2 DEF OfLength
    <2>2. Regular(off, n, 2)
      BY <1>1, <1>5, <2>1, EqualParts
    <2> QED
      BY <2>2 DEF Regular
  <1>7. f \in Seq(U) /\ Len(f) = 2 * n
    BY <1>1, <1>5, <1>6 DEF Joined
  <1>8. /\ b \in Seq(U) /\ Len(b) = 1 + 2 * n /\ b[1] = n
        /\ \A j \in 1..(2 * n) : b[1 + j] = f[j]
    <2>1. <<n>> \in Seq(U) /\ Len(<<n>>) = 1 /\ <<n>>[1] = n
      BY <1>1
    <2> QED
      BY <1>4, <1>7, <2>1, Concatenation
  <1>9. ASSUME NEW i \in 1..n
        PROVE  b[2 * i] = 1 /\ b[2 * i + 1] = l[i]
    <2>1. /\ i - 1 \in 0..n /\ 2 * (i - 1) + 1 = 2 * i - 1
          /\ 2 * (i - 1) + 2 = 2 * i
          /\ 2 * i - 1 \in 1..(2 * n) /\ 2 * i \in 1..(2 * n)
          /\ 1 + (2 * i - 1) = 2 * i /\ 1 + 2 * i = 2 * i + 1
      BY <1>1
    <2>2. Holds(f, 2 * (i - 1), seqs[i])
      BY <1>5, <1>6, <2>1 DEF Joined
    <2>3. f[2 * i - 1] = 1 /\ f[2 * i] = l[i]
      <3>1. Len(seqs[i]) = 2 /\ seqs[i][1] = 1 /\ seqs[i][2] = l[i]
        BY <1>2
      <3>2. /\ f[2 * (i - 1) + 1] = seqs[i][1]
            /\ f[2 * (i - 1) + 2] = seqs[i][2]
        BY <2>2, <3>1 DEF Holds
      <3> QED
        BY <2>1, <3>1, <3>2
    <2> QED
      BY <1>8, <2>1, <2>3
  <1>10. StringsOf(b, n, l)
    BY <1>8, <1>9 DEF StringsOf
  <1> QED
    BY <1>8, <1>10 DEF n, b

LEMMA ListIsReadBack ==
    ASSUME NEW U, Nat \subseteq U, NEW l \in Seq(U)
    PROVE  ReadCountedStrings(AppendList(l), 1).ok
           /\ ReadCountedStrings(AppendList(l), 1).val = l
  <1> DEFINE n == Len(l)
             b == AppendList(l)
  <1>1. n \in Nat /\ 1 * n = n /\ Leading(l, n) = l
    BY DEF Leading
  <1>2. b[1] = n /\ StringsOf(b, 1 * n, l)
    BY <1>1, ListCells
  <1> HIDE DEF n, b
  <1>3. ReadCountedStrings(b, 1) = Read(Leading(l, 1 * n), 1 + 2 * (1 * n))
    BY <1>1, <1>2, CountedStrings
  <1> QED
    BY <1>1, <1>3 DEF Read, b

(* The fields of a hash, each before its value.                            *)
Paired(w, fields, h, n) ==
    /\ w = [j \in 1..(2 * n) |-> w[j]]
    /\ \A i \in 1..n : w[2 * i - 1] = fields[i] /\ w[2 * i] = h[fields[i]]

FourCells(U, s, x, y) ==
    /\ s \in Seq(U) /\ Len(s) = 4
    /\ s[1] = 1 /\ s[2] = x /\ s[3] = 1 /\ s[4] = y

LEMMA PairsInARow ==
    ASSUME NEW U, NEW a \in Seq(U), NEW b \in Seq(U), Len(a) = 2, Len(b) = 2
    PROVE  FourCells(U, a \o b, a[2], b[2]) \/ a[1] # 1 \/ b[1] # 1
  <1> DEFINE c == a \o b
  <1>1. /\ c \in Seq(U) /\ Len(c) = 4 /\ c[1] = a[1] /\ c[2] = a[2]
        /\ c[3] = b[1] /\ c[4] = b[2]
    <2>1. /\ c \in Seq(U) /\ Len(c) = Len(a) + Len(b)
          /\ \A i \in 1..Len(a) : c[i] = a[i]
          /\ \A i \in 1..Len(b) : c[Len(a) + i] = b[i]
      BY Concatenation
    <2> HIDE DEF c
    <2>2. \A i \in 1..2 : c[i] = a[i] /\ c[2 + i] = b[i]
      BY <2>1
    <2>3. c[2 + 1] = b[1] /\ c[2 + 2] = b[2]
      BY <2>2
    <2> QED
      BY <2>1, <2>2, <2>3
  <1> HIDE DEF c
  <1>2. a[1] = 1 /\ b[1] = 1 => FourCells(U, c, a[2], b[2])
    BY <1>1 DEF FourCells
  <1> QED
    BY <1>2 DEF c

LEMMA TwoStrings ==
    ASSUME NEW U, 1 \in U, NEW x \in U, NEW y \in U,
           NEW s, s = AppendString(x) \o AppendString(y)
    PROVE  FourCells(U, s, x, y)
  <1> DEFINE a == <<1, x>>
             b == <<1, y>>
  <1>1. /\ a \in Seq(U) /\ Len(a) = 2 /\ a[1] = 1 /\ a[2] = x
        /\ b \in Seq(U) /\ Len(b) = 2 /\ b[1] = 1 /\ b[2] = y
    OBVIOUS
  <1>2. s = a \o b
    BY DEF AppendString
  <1> HIDE DEF a, b
  <1>3. FourCells(U, a \o b, x, y)
    BY <1>1, PairsInARow
  <1> QED
    BY <1>2, <1>3

LEMMA Halves ==
    ASSUME NEW n \in Nat, NEW j \in 1..(2 * n)
    PROVE  \E i \in 1..n : j = 2 * i - 1 \/ j = 2 * i
  <1>1. (j + 1) \div 2 \in 1..n
        /\ (j = 2 * ((j + 1) \div 2) - 1 \/ j = 2 * ((j + 1) \div 2))
    OBVIOUS
  <1> QED
    BY <1>1

LEMMA HashCells ==
    ASSUME NEW U, Nat \subseteq U, NEW D \in SUBSET U, IsFiniteSet(D),
           NEW h \in [D -> U]
    PROVE  LET n == Cardinality(D)
               b == AppendHash(h)
           IN  /\ n \in Nat /\ b \in Seq(U) /\ b[1] = n
               /\ \E w : Paired(w, SetToSeq(D), h, n) /\ StringsOf(b, 2 * n, w)
  <1> DEFINE n == Cardinality(D)
             fields == SetToSeq(D)
             seqs == [i \in DOMAIN fields |->
                         AppendString(fields[i]) \o AppendString(h[fields[i]])]
             f == FlattenSeq(seqs)
             b == AppendHash(h)
             w == [j \in 1..(2 * n) |->
                      IF j % 2 = 1 THEN fields[(j + 1) \div 2]
                      ELSE h[fields[j \div 2]]]
  <1>1. n \in Nat /\ n \in U /\ DOMAIN fields = 1..n /\ Len(fields) = n
        /\ \A i \in 1..n : fields[i] \in U /\ h[fields[i]] \in U
    <2>1. n \in Nat /\ fields \in [1..n -> D] /\ Len(fields) = n
      BY SetsInSequence
    <2> QED
      BY <2>1
  <1>2. b = <<n>> \o f
    <2>1. DOMAIN h = D
      OBVIOUS
    <2> QED
      BY <1>1, <2>1, Zenon DEF AppendHash
  <1>3. Paired(w, fields, h, n)
    <2>1. \A i \in 1..n : /\ 2 * i - 1 \in 1..(2 * n) /\ 2 * i \in 1..(2 * n)
                          /\ (2 * i - 1) % 2 = 1 /\ (2 * i) % 2 = 0
                          /\ (2 * i - 1 + 1) \div 2 = i /\ (2 * i) \div 2 = i
      BY <1>1
    <2>2. \A i \in 1..n : w[2 * i - 1] = fields[i] /\ w[2 * i] = h[fields[i]]
      BY <2>1
    <2>3. w = [j \in 1..(2 * n) |-> w[j]]
      OBVIOUS
    <2> HIDE DEF w
    <2> QED
      BY <2>2, <2>3 DEF Paired
  <1> HIDE DEF fields, n, w
  <1>4. \A i \in 1..n :
            /\ seqs[i] \in Seq(U) /\ Len(seqs[i]) = 4
            /\ seqs[i][1] = 1 /\ seqs[i][2] = w[2 * i - 1]
            /\ seqs[i][3] = 1 /\ seqs[i][4] = w[2 * i]
    <2> TAKE i \in 1..n
    <2>1. seqs[i] = AppendString(fields[i]) \o AppendString(h[fields[i]])
      BY <1>1
    <2> HIDE DEF seqs
    <2>2. w[2 * i - 1] = fields[i] /\ w[2 * i] = h[fields[i]]
      BY <1>3 DEF Paired
    <2>3. 1 \in U /\ fields[i] \in U /\ h[fields[i]] \in U
      BY <1>1
    <2>4. FourCells(U, seqs[i], fields[i], h[fields[i]])
      BY <2>1, <2>3, TwoStrings
    <2> QED
      BY <2>2, <2>4 DEF FourCells
  <1>5. seqs \in Seq(Seq(U)) /\ Len(seqs) = n
    BY <1>1, <1>4
  <1> HIDE DEF seqs, f, b
  <1>6. PICK off : Joined(U, n, seqs, f, off)
    BY <1>1, <1>5, Flattened DEF f
  <1>7. \A i \in 0..n : off[i] = 4 * i
    <2>1. 4 \in {2, 4} /\ OfLength(seqs, n, 4)
      BY <1>4 DEF OfLength
    <2>2. Regular(off, n, 4)
      BY <1>1, <1>6, <2>1, EqualParts
    <2> QED
      BY <2>2 DEF Regular
  <1>8. f \in Seq(U) /\ Len(f) = 4 * n
    BY <1>1, <1>6, <1>7 DEF Joined
  <1>9. /\ b \in Seq(U) /\ Len(b) = 1 + 4 * n /\ b[1] = n
        /\ \A j \in 1..(4 * n) : b[1 + j] = f[j]
    <2>1. <<n>> \in Seq(U) /\ Len(<<n>>) = 1 /\ <<n>>[1] = n
      BY <1>1
    <2> QED
      BY <1>2, <1>8, <2>1, Concatenation
  <1>10. ASSUME NEW i \in 1..n
         PROVE  /\ f[4 * i - 3] = 1 /\ f[4 * i - 2] = w[2 * i - 1]
                /\ f[4 * i - 1] = 1 /\ f[4 * i] = w[2 * i]
    <2>1. /\ i - 1 \in 0..n /\ 4 * (i - 1) + 1 = 4 * i - 3
          /\ 4 * (i - 1) + 2 = 4 * i - 2 /\ 4 * (i - 1) + 3 = 4 * i - 1
          /\ 4 * (i - 1) + 4 = 4 * i
      BY <1>1
    <2>2. Holds(f, 4 * (i - 1), seqs[i])
      BY <1>6, <1>7, <2>1 DEF Joined
    <2>3. Len(seqs[i]) = 4
      BY <1>4
    <2>4. /\ f[4 * (i - 1) + 1] = seqs[i][1] /\ f[4 * (i - 1) + 2] = seqs[i][2]
          /\ f[4 * (i - 1) + 3] = seqs[i][3] /\ f[4 * (i - 1) + 4] = seqs[i][4]
      BY <2>2, <2>3 DEF Holds
    <2> QED
      BY <1>4, <2>1, <2>4
  <1>11. ASSUME NEW j \in 1..(2 * n)
         PROVE  b[2 * j] = 1 /\ b[2 * j + 1] = w[j]
    <2>1. PICK i \in 1..n : j = 2 * i - 1 \/ j = 2 * i
      BY <1>1, Halves
    <2>2. CASE j = 2 * i - 1
      <3>1. /\ 4 * i - 3 \in 1..(4 * n) /\ 4 * i - 2 \in 1..(4 * n)
            /\ 1 + (4 * i - 3) = 2 * j /\ 1 + (4 * i - 2) = 2 * j + 1
        BY <1>1, <2>2
      <3> QED
        BY <1>9, <1>10, <2>2, <3>1
    <2>3. CASE j = 2 * i
      <3>1. /\ 4 * i - 1 \in 1..(4 * n) /\ 4 * i \in 1..(4 * n)
            /\ 1 + (4 * i - 1) = 2 * j /\ 1 + 4 * i = 2 * j + 1
        BY <1>1, <2>3
      <3> QED
        BY <1>9, <1>10, <2>3, <3>1
    <2> QED
      BY <2>1, <2>2, <2>3
  <1>12. StringsOf(b, 2 * n, w)
    <2>1. 1 + 2 * (2 * n) = 1 + 4 * n
      BY <1>1
    <2> QED
      BY <1>9, <1>11, <2>1 DEF StringsOf
  <1> QED
    BY <1>1, <1>3, <1>9, <1>12 DEF n, b, fields

LEMMA HashIsReadBack ==
    ASSUME NEW U, Nat \subseteq U, NEW D \in SUBSET U, IsFiniteSet(D),
           NEW h \in [D -> U]
    PROVE  LET read == ReadCountedStrings(AppendHash(h), 2)
           IN  read.ok /\ Bindings(read.val) = h
  <1> DEFINE n == Cardinality(D)
             fields == SetToSeq(D)
             b == AppendHash(h)
  <1>1. n \in Nat /\ b[1] = n
    BY HashCells
  <1>2. PICK w : Paired(w, fields, h, n) /\ StringsOf(b, 2 * n, w)
    BY HashCells
  <1>3. /\ fields \in [1..n -> D]
        /\ \A i, j \in 1..n : fields[i] = fields[j] => i = j
        /\ {fields[i] : i \in 1..n} = D
    BY SetsInSequence
  <1> HIDE DEF n, b, fields
  <1>4. ReadCountedStrings(b, 2) = Read(Leading(w, 2 * n), 1 + 2 * (2 * n))
    BY <1>1, <1>2, CountedStrings
  <1>5. Leading(w, 2 * n) = w
    BY <1>2 DEF Paired, Leading
  <1>6. Bindings(w) = h
    <2> DEFINE odd == {i \in DOMAIN w : i % 2 = 1}
               LastOf(x) == CHOOSE i \in odd :
                   w[i] = x /\ \A j \in odd : w[j] = x => j <= i
    <2>1. DOMAIN w = 1..(2 * n)
      BY <1>2 DEF Paired
    <2>2. \A i \in 1..n : /\ 2 * i - 1 \in odd
                          /\ w[2 * i - 1] = fields[i] /\ w[2 * i] = h[fields[i]]
      <3> TAKE i \in 1..n
      <3>1. 2 * i - 1 \in 1..(2 * n) /\ (2 * i - 1) % 2 = 1
        BY <1>1
      <3>2. 2 * i - 1 \in odd
        BY <2>1, <3>1
      <3> HIDE DEF odd
      <3> QED
        BY <1>2, <3>2 DEF Paired
    <2>3. \A j \in odd : \E i \in 1..n : j = 2 * i - 1
      <3> TAKE j \in odd
      <3>1. j \in 1..(2 * n) /\ j % 2 = 1
        BY <2>1
      <3>2. PICK i \in 1..n : j = 2 * i - 1 \/ j = 2 * i
        BY <1>1, <3>1, Halves
      <3>3. (2 * i) % 2 = 0
        OBVIOUS
      <3> QED
        BY <3>1, <3>2, <3>3
    <2> HIDE DEF odd
    <2>4. \A i \in 1..n : LastOf(fields[i]) = 2 * i - 1
      <3> TAKE i \in 1..n
      <3>1. \A j \in odd : w[j] = fields[i] => j = 2 * i - 1
        <4> TAKE j \in odd
        <4>1. PICK k \in 1..n : j = 2 * k - 1
          BY <2>3
        <4>2. w[j] = fields[k]
          BY <2>2, <4>1
        <4> QED
          BY <1>3, <4>1, <4>2
      <3>2. 2 * i - 1 \in odd /\ w[2 * i - 1] = fields[i] /\ 2 * i - 1 <= 2 * i - 1
        BY <1>1, <2>2
      <3>3. \A j \in odd : w[j] = fields[i] => j <= 2 * i - 1
        BY <3>1, <3>2, Zenon
      <3>4. LastOf(fields[i]) \in odd /\ w[LastOf(fields[i])] = fields[i]
        BY <3>2, <3>3, Zenon
      <3> HIDE DEF LastOf
      <3> QED
        BY <3>1, <3>4
    <2>5. {w[i] : i \in odd} = D
      <3>1. \A j \in odd : w[j] \in D
        BY <1>3, <2>2, <2>3
      <3>2. \A x \in D : \E j \in odd : w[j] = x
        <4> TAKE x \in D
        <4>1. PICK i \in 1..n : x = fields[i]
          BY <1>3
        <4> QED
          BY <2>2, <4>1
      <3> QED
        BY <3>1, <3>2
    <2>6. Bindings(w) = [x \in {w[i] : i \in odd} |-> w[LastOf(x) + 1]]
      BY Zenon DEF Bindings, odd
    <2> HIDE DEF LastOf
    <2>7. \A x \in D : w[LastOf(x) + 1] = h[x]
      <3> TAKE x \in D
      <3>1. PICK i \in 1..n : x = fields[i]
        BY <1>3
      <3>2. 2 * i - 1 + 1 = 2 * i /\ (2 * i - 1) + 1 = 2 * i
        OBVIOUS
      <3> QED
        BY <2>2, <2>4, <3>1, <3>2
    <2> QED
      BY <2>5, <2>6, <2>7
  <1> QED
    BY <1>4, <1>5, <1>6 DEF Read, b

LEMMA SetIsReadBack ==
    ASSUME NEW U, Nat \subseteq U, NEW S \in SUBSET U, IsFiniteSet(S)
    PROVE  LET read == ReadCountedStrings(AppendMembers(S), 1)
           IN  AppendMembers(S) \in Seq(U) /\ read.ok /\ ToSet(read.val) = S
  <1> DEFINE l == SetToSeq(S)
             n == Cardinality(S)
  <1>1. n \in Nat /\ l \in [1..n -> S] /\ Len(l) = n /\ {l[i] : i \in 1..n} = S
    BY SetsInSequence
  <1> HIDE DEF l, n
  <1>2. l \in Seq(U) /\ DOMAIN l = 1..n
    BY <1>1
  <1>3. AppendMembers(S) = AppendList(l)
    BY Zenon DEF AppendMembers, l
  <1>4. ToSet(l) = S
    BY <1>1, <1>2, Zenon DEF ToSet
  <1>5. /\ AppendList(l) \in Seq(U)
        /\ ReadCountedStrings(AppendList(l), 1).ok
        /\ ReadCountedStrings(AppendList(l), 1).val = l
    BY <1>2, ListCells, ListIsReadBack
  <1> QED
    BY <1>3, <1>4, <1>5, Zenon

FromZero(w) == [i \in 0..(Registers - 1) |-> w[i + 1]]

LEMMA RegistersAreReadBack ==
    ASSUME NEW U, Nat \subseteq U, Registers \in Nat,
           NEW r \in [0..(Registers - 1) -> U]
    PROVE  LET read == ReadCountedNumbers(AppendRegisters(r), 1)
           IN  /\ AppendRegisters(r) \in Seq(U) /\ read.ok
               /\ r = FromZero(read.val)
  <1> DEFINE n == Registers
             w == [i \in 1..n |-> r[i - 1]]
             b == AppendRegisters(r)
  <1>1. /\ n \in Nat /\ <<n>> \in Seq(U) /\ Len(<<n>>) = 1 /\ <<n>>[1] = n
        /\ w \in Seq(U) /\ Len(w) = n
    OBVIOUS
  <1>2. b = <<n>> \o w
    BY Zenon DEF AppendRegisters
  <1>3. Leading(w, n) = w /\ r = [i \in 0..(n - 1) |-> w[i + 1]]
    <2>1. \A i \in 0..(n - 1) : i + 1 \in 1..n /\ (i + 1) - 1 = i
      BY <1>1
    <2>2. \A i \in 0..(n - 1) : w[i + 1] = r[i]
      BY <2>1
    <2>3. w = [i \in 1..n |-> w[i]]
      OBVIOUS
    <2> HIDE DEF w
    <2> QED
      BY <2>2, <2>3 DEF Leading
  <1> HIDE DEF n, w, b
  <1>4. /\ b \in Seq(U) /\ Len(b) = 1 + n /\ b[1] = n
        /\ \A i \in 1..n : b[1 + i] = w[i]
    BY <1>1, <1>2, Concatenation
  <1>5. ReadCountedNumbers(b, 1) = Read(Leading(w, n), 1 + n)
    BY <1>1, <1>4, CountedNumbers
  <1>6. ReadCountedNumbers(b, 1).ok /\ ReadCountedNumbers(b, 1).val = w
    BY <1>3, <1>5 DEF Read
  <1> QED
    BY <1>3, <1>4, <1>6, Zenon DEF n, b, FromZero

(* A value of the class its type names.                                    *)
IsValue(U, v) ==
    /\ v = [type |-> v.type, value |-> v.value]
    /\ \/ v.type = "string" /\ v.value \in U
       \/ v.type = "hash" /\ \E D \in SUBSET U :
                                IsFiniteSet(D) /\ v.value \in [D -> U]
       \/ v.type \in {"list", "stream"} /\ v.value \in Seq(U)
       \/ /\ v.type \in {"set", "sorted_set"}
          /\ v.value \in SUBSET U /\ IsFiniteSet(v.value)
       \/ v.type = "hyperloglog" /\ v.value \in [0..(Registers - 1) -> U]

LEMMA ValueIsReadBack ==
    ASSUME NEW U, Nat \subseteq U, Registers \in Nat, NEW v, IsValue(U, v)
    PROVE  Serialize(v) \in Seq(U) /\ CreateValue(v.type, Serialize(v)) = v
  <1> DEFINE b == Serialize(v)
  <1> SUFFICES b \in Seq(U) /\ Deserialize(v.type, b) = [ok |-> TRUE, value |-> v.value]
    BY DEF CreateValue, IsValue
  <1>1. CASE v.type = "string"
    <2>1. b = <<1, v.value>>
      BY <1>1, Zenon DEF Serialize, AppendString
    <2>2. v.value \in U /\ 1 \in U
      BY <1>1 DEF IsValue
    <2>3. b \in Seq(U) /\ Len(b) = 2 /\ b[1] = 1 /\ b[2] = v.value
      BY <2>1, <2>2
    <2> HIDE DEF b
    <2>4. ReadString(b, 0) = Read(b[0 + 2], 0 + 2)
      <3>1. Len(b) \in Nat /\ 0 \in Nat /\ b[0 + 1] = 1 /\ 0 + 2 <= Len(b)
        BY <2>3
      <3> QED
        BY <3>1, StringIsRead
    <2>5. ReadString(b, 0).ok /\ ReadString(b, 0).val = v.value
      BY <2>3, <2>4 DEF Read
    <2>6. DeserializeString(b) = [ok |-> TRUE, value |-> v.value]
      BY <2>5, Zenon DEF DeserializeString, Build
    <2> QED
      BY <1>1, <2>3, <2>6, Zenon DEF Deserialize
  <1>2. CASE v.type = "hash"
    <2>1. PICK D \in SUBSET U : IsFiniteSet(D) /\ v.value \in [D -> U]
      BY <1>2 DEF IsValue
    <2>2. b = AppendHash(v.value)
      BY <1>2, Zenon DEF Serialize
    <2>3. /\ b \in Seq(U) /\ ReadCountedStrings(b, 2).ok
          /\ Bindings(ReadCountedStrings(b, 2).val) = v.value
      BY <2>1, <2>2, HashCells, HashIsReadBack
    <2> HIDE DEF b
    <2>4. DeserializeHash(b) = [ok |-> TRUE, value |-> v.value]
      BY <2>3, Zenon DEF DeserializeHash, Build, ReadCountedStrings
    <2> QED
      BY <1>2, <2>3, <2>4, Zenon DEF Deserialize
  <1>3. CASE v.type \in {"list", "stream"}
    <2>1. v.value \in Seq(U)
      BY <1>3 DEF IsValue
    <2>2. b = AppendList(v.value)
      BY <1>3, Zenon DEF Serialize
    <2>3. /\ b \in Seq(U) /\ ReadCountedStrings(b, 1).ok
          /\ ReadCountedStrings(b, 1).val = v.value
      BY <2>1, <2>2, ListCells, ListIsReadBack
    <2> HIDE DEF b
    <2>4. DeserializeList(b) = [ok |-> TRUE, value |-> v.value]
      BY <2>3, Zenon DEF DeserializeList, Build, ReadCountedStrings
    <2> QED
      BY <1>3, <2>3, <2>4, Zenon DEF Deserialize
  <1>4. CASE v.type \in {"set", "sorted_set"}
    <2>1. v.value \in SUBSET U /\ IsFiniteSet(v.value)
      BY <1>4 DEF IsValue
    <2>2. b = AppendMembers(v.value)
      BY <1>4, Zenon DEF Serialize
    <2>3. /\ b \in Seq(U) /\ ReadCountedStrings(b, 1).ok
          /\ ToSet(ReadCountedStrings(b, 1).val) = v.value
      BY <2>1, <2>2, SetIsReadBack
    <2> HIDE DEF b
    <2>4. DeserializeSet(b) = [ok |-> TRUE, value |-> v.value]
      BY <2>3, Zenon DEF DeserializeSet, Build, ReadCountedStrings
    <2> QED
      BY <1>4, <2>3, <2>4, Zenon DEF Deserialize
  <1>5. CASE v.type = "hyperloglog"
    <2>1. v.value \in [0..(Registers - 1) -> U]
      BY <1>5 DEF IsValue
    <2>2. b = AppendRegisters(v.value)
      BY <1>5, Zenon DEF Serialize
    <2>3. /\ b \in Seq(U) /\ ReadCountedNumbers(b, 1).ok
          /\ v.value = FromZero(ReadCountedNumbers(b, 1).val)
      BY <2>1, <2>2, RegistersAreReadBack
    <2> HIDE DEF b
    <2>4. DeserializeRegisters(b) = [ok |-> TRUE, value |-> v.value]
      BY <2>3, Zenon 
         DEF DeserializeRegisters, Build, ReadCountedNumbers, FromZero
    <2> QED
      BY <1>5, <2>3, <2>4, Zenon DEF Deserialize
  <1> QED
    BY <1>1, <1>2, <1>3, <1>4, <1>5 DEF IsValue

LEMMA CellsBetween ==
    ASSUME NEW U, NEW c \in Seq(U), NEW s \in Seq(U), NEW p \in Nat, Holds(c, p, s)
    PROVE  SubSeq(c, p + 1, p + Len(s)) = s
  <1> DEFINE m == Len(s)
             t == SubSeq(c, p + 1, p + m)
  <1>1. /\ m \in Nat /\ Len(c) \in Nat /\ p + m <= Len(c)
        /\ \A i \in 1..m : c[p + i] = s[i]
    BY DEF Holds
  <1>2. t = [i \in 1..m |-> c[p + i]]
    <2>1. \A i \in 1..m : c[i + (p + 1) - 1] = c[p + i]
      BY <1>1
    <2>2. (p + m) - (p + 1) + 1 = m
      BY <1>1
    <2> QED
      BY <1>1, <2>1, <2>2
  <1>3. s = [i \in 1..m |-> s[i]]
    OBVIOUS
  <1> HIDE DEF m, t
  <1>4. t = s
    BY <1>1, <1>2, <1>3
  <1> QED
    BY <1>4 DEF t, m

(* One sequence is two others in a row.                                    *)
InARow(U, s, t, r) ==
    /\ r \in Seq(U) /\ Len(r) = Len(s) + Len(t)
    /\ Len(s) \in Nat /\ Len(t) \in Nat
    /\ \A i \in 1..Len(s) : r[i] = s[i]
    /\ \A i \in 1..Len(t) : r[Len(s) + i] = t[i]

LEMMA Juxtaposition ==
    ASSUME NEW U, NEW s \in Seq(U), NEW t \in Seq(U), NEW r, r = s \o t
    PROVE  InARow(U, s, t, r)
  BY Concatenation DEF InARow

(* The cells of a record: its id, its type, a length and the value.        *)
Entry(id, v) == AppendString(id) \o AppendValue(v)

EntryIs(U, e, id, v) ==
    /\ e \in Seq(U) /\ Len(e) = 5 + Len(Serialize(v))
    /\ e[1] = 1 /\ e[2] = id /\ e[3] = 1 /\ e[4] = v.type
    /\ e[5] = Len(Serialize(v))
    /\ \A i \in 1..Len(Serialize(v)) : e[5 + i] = Serialize(v)[i]

LEMMA EntryCells ==
    ASSUME NEW U, Nat \subseteq U, Registers \in Nat, NEW id \in U,
           NEW v, IsValue(U, v), v.type \in U
    PROVE  EntryIs(U, Entry(id, v), id, v)
  <1> DEFINE s == Serialize(v)
             m == Len(s)
             a == <<1, id>>
             t == <<1, v.type>>
             l == <<m>>
             tl == t \o l
             tls == tl \o s
             e == a \o tls
  <1>1. s \in Seq(U) /\ m \in Nat
    BY ValueIsReadBack
  <1>2. Entry(id, v) = e
    BY Zenon DEF Entry, AppendValue, AppendString
  <1> HIDE DEF s, m
  <1>3. /\ a \in Seq(U) /\ Len(a) = 2 /\ a[1] = 1 /\ a[2] = id
        /\ t \in Seq(U) /\ Len(t) = 2 /\ t[1] = 1 /\ t[2] = v.type
        /\ l \in Seq(U) /\ Len(l) = 1 /\ l[1] = m
    BY <1>1
  <1> HIDE DEF a, t, l
  <1>4. /\ tl \in Seq(U) /\ Len(tl) = Len(t) + Len(l)
        /\ \A i \in 1..Len(t) : tl[i] = t[i]
        /\ \A i \in 1..Len(l) : tl[Len(t) + i] = l[i]
    <2>1. InARow(U, t, l, tl)
      BY <1>3, Juxtaposition
    <2> QED
      BY <2>1 DEF InARow
  <1> HIDE DEF tl
  <1>5. Len(tl) = 3 /\ tl[1] = 1 /\ tl[2] = v.type /\ tl[3] = m
    <2>1. \A i \in 1..2 : tl[i] = t[i]
      BY <1>3, <1>4
    <2>2. tl[2 + 1] = l[1]
      BY <1>3, <1>4
    <2> QED
      BY <1>3, <1>4, <2>1, <2>2
  <1>6. /\ tls \in Seq(U) /\ Len(tls) = Len(tl) + Len(s)
        /\ \A i \in 1..Len(tl) : tls[i] = tl[i]
        /\ \A i \in 1..Len(s) : tls[Len(tl) + i] = s[i]
    <2>1. InARow(U, tl, s, tls)
      BY <1>1, <1>4, Juxtaposition
    <2> QED
      BY <2>1 DEF InARow
  <1> HIDE DEF tls
  <1>7. /\ Len(tls) = 3 + m /\ tls[1] = 1 /\ tls[2] = v.type /\ tls[3] = m
        /\ \A i \in 1..m : tls[3 + i] = s[i]
    <2>1. Len(s) = m
      BY DEF m
    <2>2. \A i \in 1..3 : tls[i] = tl[i]
      BY <1>5, <1>6
    <2> QED
      BY <1>5, <1>6, <2>1, <2>2
  <1>8. /\ e \in Seq(U) /\ Len(e) = Len(a) + Len(tls)
        /\ \A i \in 1..Len(a) : e[i] = a[i]
        /\ \A i \in 1..Len(tls) : e[Len(a) + i] = tls[i]
    <2>1. InARow(U, a, tls, e)
      BY <1>3, <1>6, Juxtaposition
    <2> QED
      BY <2>1 DEF InARow
  <1> HIDE DEF e
  <1>9. \A i \in 1..(3 + m) : e[2 + i] = tls[i]
    BY <1>3, <1>7, <1>8
  <1>10. e[2 + 1] = tls[1] /\ e[2 + 2] = tls[2] /\ e[2 + 3] = tls[3]
    BY <1>1, <1>9
  <1>11. \A i \in 1..m : e[5 + i] = s[i]
    <2> TAKE i \in 1..m
    <2>1. 3 + i \in 1..(3 + m) /\ 2 + (3 + i) = 5 + i
      BY <1>1
    <2> QED
      BY <1>7, <1>9, <2>1
  <1>12. \A i \in 1..2 : e[i] = a[i]
    BY <1>3, <1>8
  <1>13. /\ e \in Seq(U) /\ Len(e) = 5 + m /\ e[1] = 1 /\ e[2] = id
         /\ e[3] = 1 /\ e[4] = v.type /\ e[5] = m
    BY <1>1, <1>3, <1>7, <1>8, <1>10, <1>12
  <1> QED
    BY <1>2, <1>11, <1>13 DEF EntryIs, m, s

(* The cells of c after the first o are those of e, as far as there are any. *)
PartOf(c, o, e) ==
    \A i \in 1..Len(e) : o + i <= Len(c) => c[o + i] = e[i]

LEMMA RecordIsRead ==
    ASSUME NEW U, Nat \subseteq U, Registers \in Nat, NEW id \in U,
           NEW v, IsValue(U, v), NEW e, EntryIs(U, e, id, v),
           NEW c \in Seq(U), NEW o \in Nat, PartOf(c, o, e)
    PROVE  /\ o + Len(e) <= Len(c) =>
                 ReadRecord(c, o) = Read(<<id, v>>, o + Len(e))
           /\ o + Len(e) > Len(c) =>
                 ReadRecord(c, o) \in {Fails, Read(<<id, Overrun>>, o + Len(e))}
  <1> DEFINE s == Serialize(v)
             m == Len(s)
             rid == ReadString(c, o)
             rtype == ReadString(c, rid.offset)
             rlen == ReadNumber(c, rtype.offset)
             end == rlen.offset + rlen.val
  <1>1. s \in Seq(U) /\ m \in Nat /\ CreateValue(v.type, s) = v
        /\ Len(c) \in Nat
    BY ValueIsReadBack
  <1>2. /\ Len(e) = 5 + m /\ o + Len(e) = o + 5 + m
        /\ o + 1 <= Len(c) => c[o + 1] = 1
        /\ o + 2 <= Len(c) => c[o + 2] = id
        /\ o + 3 <= Len(c) => c[o + 3] = 1
        /\ o + 4 <= Len(c) => c[o + 4] = v.type
        /\ o + 5 <= Len(c) => c[o + 5] = m
        /\ \A i \in 1..m : o + (5 + i) <= Len(c) => c[o + (5 + i)] = s[i]
    <2>1. /\ Len(e) = 5 + m
          /\ e[1] = 1 /\ e[2] = id /\ e[3] = 1 /\ e[4] = v.type /\ e[5] = m
          /\ \A i \in 1..m : e[5 + i] = s[i]
      BY DEF EntryIs
    <2> HIDE DEF m, s
    <2>2. \A i \in 1..(5 + m) : o + i <= Len(c) => c[o + i] = e[i]
      BY <2>1 DEF PartOf
    <2>3. /\ o + 1 <= Len(c) => c[o + 1] = e[1]
          /\ o + 2 <= Len(c) => c[o + 2] = e[2]
          /\ o + 3 <= Len(c) => c[o + 3] = e[3]
          /\ o + 4 <= Len(c) => c[o + 4] = e[4]
          /\ o + 5 <= Len(c) => c[o + 5] = e[5]
      BY <1>1, <2>2
    <2>4. \A i \in 1..m : o + (5 + i) <= Len(c) => c[o + (5 + i)] = s[i]
      <3> TAKE i \in 1..m
      <3>1. 5 + i \in 1..(5 + m)
        BY <1>1
      <3> QED
        BY <2>1, <2>2, <3>1
    <2>5. o + Len(e) = o + 5 + m
      BY <1>1, <2>1
    <2> QED
      BY <2>1, <2>3, <2>4, <2>5
  <1>3. ReadRecord(c, o) =
            IF ~rid.ok THEN Fails
            ELSE IF ~rtype.ok THEN Fails
            ELSE IF ~rlen.ok THEN Fails
            ELSE IF end > Len(c) THEN Read(<<rid.val, Overrun>>, end)
            ELSE Read(<<rid.val, CreateValue(rtype.val,
                           SubSeq(c, rlen.offset + 1, end))>>, end)
    BY DEF ReadRecord
  <1> HIDE DEF s, m
  <1>4. o + 2 \in Nat /\ o + 4 \in Nat /\ o + 5 \in Nat
        /\ o + 2 + 2 = o + 4 /\ o + 4 + 1 = o + 5 /\ o + 2 + 1 = o + 3
    OBVIOUS
  <1>5. CASE o + 2 > Len(c)
    <2>1. rid = Fails
      BY <1>1, <1>2, <1>5, StringIsRead
    <2> HIDE DEF rid, rtype, rlen, end
    <2> QED
      BY <1>1, <1>2, <1>3, <1>5, <2>1 DEF Fails
  <1>6. CASE o + 2 <= Len(c) /\ o + 4 > Len(c)
    <2>1. rid = Read(c[o + 2], o + 2)
      BY <1>1, <1>2, <1>6, StringIsRead
    <2>2. rid.ok /\ rid.offset = o + 2
      BY <2>1 DEF Read
    <2>3. rtype = Fails
      <3> HIDE DEF rid
      <3> QED
        BY <1>1, <1>2, <1>4, <1>6, <2>2, StringIsRead
    <2> HIDE DEF rid, rtype, rlen, end
    <2> QED
      BY <1>1, <1>2, <1>3, <1>6, <2>2, <2>3 DEF Fails
  <1>7. CASE o + 4 <= Len(c)
    <2>1. rid = Read(id, o + 2)
      <3>1. o + 2 <= Len(c) /\ o + 1 <= Len(c)
        BY <1>1, <1>7
      <3> QED
        BY <1>1, <1>2, <3>1, StringIsRead
    <2>2. rid.ok /\ rid.offset = o + 2 /\ rid.val = id
      BY <2>1 DEF Read
    <2> HIDE DEF rid
    <2>3. rtype = Read(v.type, o + 4)
      <3>1. o + 2 + 1 <= Len(c) /\ c[o + 2 + 1] = 1
        BY <1>1, <1>2, <1>4, <1>7
      <3>2. ReadString(c, o + 2) = Read(c[o + 2 + 2], o + 2 + 2)
        BY <1>1, <1>4, <1>7, <3>1, StringIsRead
      <3> QED
        BY <1>2, <1>4, <1>7, <2>2, <3>2
    <2>4. rtype.ok /\ rtype.offset = o + 4 /\ rtype.val = v.type
      BY <2>3 DEF Read
    <2> HIDE DEF rtype
    <2>5. CASE o + 5 > Len(c)
      <3>1. rlen = Fails
        BY <1>1, <1>4, <2>4, <2>5, NumberIsRead
      <3> HIDE DEF rlen, end
      <3> QED
        BY <1>1, <1>2, <1>3, <2>2, <2>4, <2>5, <3>1 DEF Fails
    <2>6. CASE o + 5 <= Len(c)
      <3>1. rlen = Read(m, o + 5)
        <4>1. ReadNumber(c, o + 4) = Read(c[o + 4 + 1], o + 4 + 1)
          BY <1>1, <1>4, <2>6, NumberIsRead
        <4> QED
          BY <1>2, <1>4, <2>4, <2>6, <4>1
      <3>2. rlen.ok /\ rlen.offset = o + 5 /\ rlen.val = m
        BY <3>1 DEF Read
      <3> HIDE DEF rlen
      <3>3. end = o + 5 + m
        BY <3>2
      <3> HIDE DEF end
      <3>4. CASE end > Len(c)
        BY <1>1, <1>2, <1>3, <2>2, <2>4, <3>2, <3>3, <3>4
      <3>5. CASE end <= Len(c)
        <4>1. Holds(c, o + 5, s)
          <5>1. \A i \in 1..m : o + (5 + i) <= Len(c) /\ o + (5 + i) = o + 5 + i
            BY <1>1, <3>3, <3>5
          <5>2. Len(s) = m
            BY DEF m
          <5> QED
            BY <1>2, <3>3, <3>5, <5>1, <5>2 DEF Holds
        <4>2. SubSeq(c, (o + 5) + 1, (o + 5) + Len(s)) = s
          BY <1>1, <1>4, <4>1, CellsBetween
        <4>3. SubSeq(c, rlen.offset + 1, end) = s
          BY <3>2, <3>3, <4>2 DEF m
        <4>4. ~(end > Len(c))
          BY <1>1, <3>3, <3>5
        <4>5. ReadRecord(c, o) = Read(<<id, v>>, end)
          BY <1>1, <1>3, <2>2, <2>4, <3>2, <4>3, <4>4
        <4> QED
          BY <1>2, <3>3, <4>4, <4>5
      <3> QED
        BY <1>1, <3>3, <3>4, <3>5
    <2> QED
      BY <1>1, <2>5, <2>6
  <1> QED
    BY <1>1, <1>5, <1>6, <1>7

Start(o) == [go |-> TRUE, offset |-> o, records |-> [k \in Key |-> NoRecord]]

LoadNext(c, before) ==
    LET read == ReadRecord(c, before.offset)
    IN  IF ~before.go THEN before
        ELSE IF ~read.ok THEN [before EXCEPT !.go = FALSE]
        ELSE [go |-> read.val[2] # Overrun, offset |-> read.offset,
              records |-> [before.records EXCEPT ![read.val[1]] = read.val[2]]]

Loads(c, o, n, load) ==
    load = [i \in 0..n |->
               IF i = 0 THEN Start(o) ELSE LoadNext(c, load[i - 1])]

LEMMA LoadExists ==
    ASSUME NEW c, NEW o, NEW N \in Nat
    PROVE  \E load : Loads(c, o, N, load)
  <1> DEFINE S == {m \in Nat : \E f : Loads(c, o, m, f)}
  <1>1. 0 \in S
    <2> DEFINE f == [i \in 0..0 |-> Start(o)]
    <2>1. Loads(c, o, 0, f)
      BY DEF Loads
    <2> HIDE DEF f
    <2> QED
      BY <2>1
  <1>2. ASSUME NEW m \in S
        PROVE  m + 1 \in S
    <2>1. PICK f : Loads(c, o, m, f)
      OBVIOUS
    <2>2. m \in Nat
      OBVIOUS
    <2> DEFINE g == [i \in 0..(m + 1) |->
                        IF i <= m THEN f[i] ELSE LoadNext(c, f[m])]
    <2>3. \A i \in 0..(m + 1) :
              g[i] = IF i = 0 THEN Start(o) ELSE LoadNext(c, g[i - 1])
      <3> TAKE i \in 0..(m + 1)
      <3>1. CASE i <= m
        <4>1. i \in 0..m /\ (i # 0 => i - 1 \in 0..m)
          BY <2>2, <3>1
        <4>2. f[i] = IF i = 0 THEN Start(o) ELSE LoadNext(c, f[i - 1])
          BY <2>1, <4>1 DEF Loads
        <4>3. g[i] = f[i] /\ (i # 0 => g[i - 1] = f[i - 1])
          BY <2>2, <3>1, <4>1
        <4> HIDE DEF g
        <4> QED
          BY <4>2, <4>3
      <3>2. CASE i = m + 1
        <4>1. m \in 0..(m + 1) /\ i - 1 = m /\ i # 0
          BY <2>2, <3>2
        <4>2. g[i - 1] = f[m] /\ g[i] = LoadNext(c, f[m])
          BY <2>2, <3>2, <4>1
        <4> HIDE DEF g
        <4> QED
          BY <4>1, <4>2
      <3> QED
        BY <2>2, <3>1, <3>2
    <2>4. g = [i \in 0..(m + 1) |-> g[i]]
      OBVIOUS
    <2> HIDE DEF g
    <2>5. Loads(c, o, m + 1, g)
      BY <2>3, <2>4 DEF Loads
    <2> QED
      BY <2>2, <2>5
  <1>3. S \in SUBSET Nat
    OBVIOUS
  <1> HIDE DEF S
  <1>4. S = Nat
    BY <1>1, <1>2, <1>3, Induction
  <1> QED
    BY <1>4 DEF S

LEMMA DatabaseIsLoaded ==
    ASSUME NEW c, NEW n \in Nat, ReadNumber(c, 0) = Read(n, 1)
    PROVE  \E load : Loads(c, 1, n, load) /\ DeserializeDatabase(c) = load[n].records
  <1> DEFINE num == ReadNumber(c, 0)
             load[i \in 0..num.val] ==
                 IF i = 0
                 THEN [go |-> TRUE, offset |-> num.offset,
                       records |-> [k \in Key |-> NoRecord]]
                 ELSE
                 LET before == load[i - 1]
                     read == ReadRecord(c, before.offset)
                 IN  IF ~before.go THEN before
                     ELSE IF ~read.ok THEN [before EXCEPT !.go = FALSE]
                     ELSE [go |-> read.val[2] # Overrun, offset |-> read.offset,
                           records |-> [before.records EXCEPT
                                            ![read.val[1]] = read.val[2]]]
  <1>1. num.ok /\ num.val = n /\ num.offset = 1
    BY DEF Read
  <1>2. DeserializeDatabase(c) = load[n].records
    BY <1>1, Zenon DEF DeserializeDatabase
  <1>3. Loads(c, num.offset, num.val, load)
    <2>1. \E f : Loads(c, num.offset, num.val, f)
      BY <1>1, LoadExists
    <2>2. \E f : f = [i \in 0..num.val |->
                 IF i = 0
                 THEN [go |-> TRUE, offset |-> num.offset,
                       records |-> [k \in Key |-> NoRecord]]
                 ELSE
                 LET before == f[i - 1]
                     read == ReadRecord(c, before.offset)
                 IN  IF ~before.go THEN before
                     ELSE IF ~read.ok THEN [before EXCEPT !.go = FALSE]
                     ELSE [go |-> read.val[2] # Overrun, offset |-> read.offset,
                           records |-> [before.records EXCEPT
                                            ![read.val[1]] = read.val[2]]]]
      BY <2>1, Zenon DEF Loads, Start, LoadNext
    <2> HIDE DEF num
    <2>3. load = [i \in 0..num.val |->
                 IF i = 0
                 THEN [go |-> TRUE, offset |-> num.offset,
                       records |-> [k \in Key |-> NoRecord]]
                 ELSE
                 LET before == load[i - 1]
                     read == ReadRecord(c, before.offset)
                 IN  IF ~before.go THEN before
                     ELSE IF ~read.ok THEN [before EXCEPT !.go = FALSE]
                     ELSE [go |-> read.val[2] # Overrun, offset |-> read.offset,
                           records |-> [before.records EXCEPT
                                            ![read.val[1]] = read.val[2]]]]
      BY <2>2, Zenon
    <2> HIDE DEF load
    <2> QED
      BY <2>3, Zenon DEF Loads, Start, LoadNext
  <1> HIDE DEF load
  <1> QED
    BY <1>1, <1>2, <1>3, Zenon

(* What is saved of recs, in b: n records, of the keys ids; that of ids[i]  *)
(* begins after 1 + off[i - 1] cells.                                       *)
Saved(U, recs, n, ids, off, b) ==
    /\ n \in Nat
    /\ \A i \in 1..n : /\ ids[i] \in Key /\ ids[i] \in U
                       /\ IsValue(U, recs[ids[i]]) /\ recs[ids[i]].type \in U
    /\ off \in [0..n -> Nat] /\ off[0] = 0
    /\ \A i \in 1..n : off[i] = off[i - 1] + Len(Entry(ids[i], recs[ids[i]]))
    /\ b \in Seq(U) /\ Len(b) = 1 + off[n] /\ b[1] = n
    /\ \A i \in 1..n : Holds(b, 1 + off[i - 1], Entry(ids[i], recs[ids[i]]))

(* A file that ends early.                                                 *)
Beginning(U, c, b) ==
    /\ c \in Seq(U) /\ Len(c) <= Len(b)
    /\ \A i \in 1..Len(c) : c[i] = b[i]

(* After i records.                                                        *)
LoadInv(recs, ids, off, c, so, i) ==
    /\ so.records = [k \in Key |-> so.records[k]]
    /\ \A k \in Key : so.records[k] \in {recs[k], NoRecord, Overrun}
    /\ so.go \in BOOLEAN
    /\ so.go => so.offset = 1 + off[i]
    /\ 1 + off[i] <= Len(c) =>
          /\ so.go
          /\ \A k \in Key : so.records[k] =
                IF k \in {ids[j] : j \in 1..i} THEN recs[k] ELSE NoRecord

LEMMA ValuesAreNotOverrun ==
    ASSUME NEW U, NEW v, IsValue(U, v)
    PROVE  v # Overrun
  BY DEF IsValue, Overrun

LEMMA OneRecordIsLoaded ==
    ASSUME NEW U, Nat \subseteq U, Registers \in Nat,
           NEW recs, NEW n, NEW ids, NEW off, NEW b, NEW c,
           Saved(U, recs, n, ids, off, b), Beginning(U, c, b),
           NEW i \in 0..(n - 1), NEW so, NEW next, next = LoadNext(c, so),
           LoadInv(recs, ids, off, c, so, i)
    PROVE  LoadInv(recs, ids, off, c, next, i + 1)
  <1> DEFINE id == ids[i + 1]
             v == recs[id]
             e == Entry(id, v)
             o == 1 + off[i]
             read == ReadRecord(c, o)
  <1>1. /\ n \in Nat /\ i \in Nat /\ i + 1 \in 1..n /\ (i + 1) - 1 = i
        /\ i \in 0..n /\ Len(c) \in Nat
    BY DEF Saved, Beginning
  <1>2. /\ id \in Key /\ id \in U /\ IsValue(U, v) /\ v.type \in U
        /\ off[i] \in Nat /\ off[i + 1] = off[i] + Len(e)
        /\ o \in Nat /\ Holds(b, o, e)
    BY <1>1 DEF Saved
  <1>3. EntryIs(U, e, id, v)
    BY <1>2, EntryCells
  <1>4. Len(e) \in Nat /\ v # Overrun
    BY <1>2, <1>3, ValuesAreNotOverrun DEF EntryIs
  <1> HIDE DEF v, e, o
  <1>5. PartOf(c, o, e)
    <2> SUFFICES ASSUME NEW j \in 1..Len(e), o + j <= Len(c)
                 PROVE  c[o + j] = e[j]
      BY DEF PartOf
    <2>1. b[o + j] = e[j]
      BY <1>2 DEF Holds
    <2>2. o + j \in 1..Len(c)
      BY <1>1, <1>2, <1>4
    <2> QED
      BY <2>1, <2>2 DEF Beginning
  <1>6. c \in Seq(U)
    BY DEF Beginning
  <1>7. /\ o + Len(e) <= Len(c) => read = Read(<<id, v>>, o + Len(e))
        /\ o + Len(e) > Len(c) =>
              read \in {Fails, Read(<<id, Overrun>>, o + Len(e))}
    BY <1>2, <1>3, <1>5, <1>6, RecordIsRead
  <1>8. o = 1 + off[i] /\ o + Len(e) = 1 + off[i + 1]
    BY <1>2, <1>4 DEF o
  <1>9. so.go => so.offset = o
    BY <1>8 DEF LoadInv
  <1> HIDE DEF read, id
  <1>10. /\ DOMAIN so.records = Key
         /\ \A k \in Key : so.records[k] \in {recs[k], NoRecord, Overrun}
    BY DEF LoadInv
  <1>11. CASE ~so.go
    <2>1. next = so
      BY <1>11 DEF LoadNext
    <2>2. ~(1 + off[i + 1] <= Len(c))
      <3>1. ~(1 + off[i] <= Len(c))
        BY <1>11 DEF LoadInv
      <3> QED
        BY <1>1, <1>2, <1>4, <3>1
    <2> QED
      BY <1>11, <2>1, <2>2 DEF LoadInv
  <1>12. CASE so.go /\ ~read.ok
    <2>1. next = [so EXCEPT !.go = FALSE]
      BY <1>9, <1>12 DEF LoadNext, read
    <2>2. ~(1 + off[i + 1] <= Len(c))
      BY <1>7, <1>8, <1>12 DEF Read
    <2> QED
      BY <2>1, <2>2 DEF LoadInv
  <1>13. CASE so.go /\ read.ok
    <2>1. PICK w \in {v, Overrun} :
             /\ read = Read(<<id, w>>, 1 + off[i + 1])
             /\ 1 + off[i + 1] <= Len(c) => w = v
      <3>1. read # Fails
        BY <1>13 DEF Fails
      <3> QED
        BY <1>1, <1>2, <1>4, <1>7, <1>8, <3>1
    <2>2. /\ read.val[1] = id /\ read.val[2] = w /\ read.offset = 1 + off[i + 1]
      BY <2>1 DEF Read
    <2>3. next = [go |-> w # Overrun, offset |-> 1 + off[i + 1],
                  records |-> [so.records EXCEPT ![id] = w]]
      BY <1>9, <1>13, <2>2 DEF LoadNext, read
    <2>4. /\ next.go = (w # Overrun) /\ next.offset = 1 + off[i + 1]
          /\ next.records = [so.records EXCEPT ![id] = w]
      BY <2>3
    <2>5. \A k \in Key : next.records[k] = IF k = id THEN w ELSE so.records[k]
      BY <1>2, <1>10, <2>4
    <2>6. next.records = [k \in Key |-> next.records[k]]
      BY <1>10, <2>4
    <2>7. \A k \in Key : next.records[k] \in {recs[k], NoRecord, Overrun}
      BY <1>10, <2>5 DEF v
    <2>8. ASSUME 1 + off[i + 1] <= Len(c)
          PROVE  /\ next.go
                 /\ \A k \in Key : next.records[k] =
                        IF k \in {ids[j] : j \in 1..(i + 1)} THEN recs[k]
                        ELSE NoRecord
      <3>1. w = v /\ next.go
        BY <1>4, <2>1, <2>4, <2>8
      <3>2. 1 + off[i] <= Len(c)
        BY <1>1, <1>2, <1>4, <2>8
      <3>3. \A k \in Key : so.records[k] =
                IF k \in {ids[j] : j \in 1..i} THEN recs[k] ELSE NoRecord
        BY <3>2 DEF LoadInv
      <3>4. \A k : k \in {ids[j] : j \in 1..(i + 1)}
                    <=> k \in {ids[j] : j \in 1..i} \/ k = id
        <4>1. \A j : j \in 1..(i + 1) <=> j \in 1..i \/ j = i + 1
          BY <1>1
        <4> QED
          BY <4>1, Zenon DEF id
      <3> QED
        BY <2>5, <3>1, <3>3, <3>4 DEF v
    <2>9. next.go \in BOOLEAN
      BY <2>4
    <2> QED
      BY <2>4, <2>6, <2>7, <2>8, <2>9 DEF LoadInv
  <1> QED
    BY <1>11, <1>12, <1>13

LEMMA AllRecordsAreLoaded ==
    ASSUME NEW U, Nat \subseteq U, Registers \in Nat,
           NEW recs, NEW n, NEW ids, NEW off, NEW b, NEW c,
           Saved(U, recs, n, ids, off, b), Beginning(U, c, b),
           NEW load, Loads(c, 1, n, load)
    PROVE  LoadInv(recs, ids, off, c, load[n], n)
  <1> DEFINE S == {i \in Nat : i <= n => LoadInv(recs, ids, off, c, load[i], i)}
  <1>1. n \in Nat /\ off[0] = 0
    BY DEF Saved
  <1>2. /\ load[0] = Start(1)
        /\ \A i \in 1..n : load[i] = LoadNext(c, load[i - 1])
    BY <1>1 DEF Loads
  <1>3. 0 \in S
    <2>1. LoadInv(recs, ids, off, c, load[0], 0)
      <3>1. 1..0 = {}
        OBVIOUS
      <3> QED
        BY <1>1, <1>2, <3>1 DEF LoadInv, Start
    <2> QED
      BY <2>1
  <1>4. ASSUME NEW i \in S
        PROVE  i + 1 \in S
    <2>1. CASE i + 1 <= n
      <3>1. /\ i \in Nat /\ i \in 0..(n - 1) /\ i + 1 \in 1..n
            /\ (i + 1) - 1 = i /\ i <= n
        BY <1>1, <2>1
      <3>2. LoadInv(recs, ids, off, c, load[i], i)
        BY <3>1
      <3>3. load[i + 1] = LoadNext(c, load[i])
        BY <1>2, <3>1
      <3>4. LoadInv(recs, ids, off, c, load[i + 1], i + 1)
        BY <3>1, <3>2, <3>3, OneRecordIsLoaded
      <3> QED
        BY <3>1, <3>4
    <2> QED
      BY <2>1
  <1>5. S \in SUBSET Nat
    OBVIOUS
  <1> HIDE DEF S
  <1>6. n \in S /\ n <= n
    BY <1>1, <1>3, <1>4, <1>5, Induction
  <1> QED
    BY <1>6 DEF S

(* Records that can be saved.                                              *)
CanBeSaved(U, recs) ==
    /\ Nat \subseteq U /\ Registers \in Nat
    /\ recs = [k \in Key |-> recs[k]]
    /\ IsFiniteSet({k \in Key : recs[k] # NoRecord})
    /\ \A k \in Key : recs[k] # NoRecord =>
          k \in U /\ IsValue(U, recs[k]) /\ recs[k].type \in U

LEMMA SnapshotIsSaved ==
    ASSUME NEW U, NEW recs, CanBeSaved(U, recs)
    PROVE  \E n, ids, off :
              /\ Saved(U, recs, n, ids, off, SerializeDatabase(recs))
              /\ {ids[i] : i \in 1..n} = {k \in Key : recs[k] # NoRecord}
  <1> DEFINE K == {k \in Key : recs[k] # NoRecord}
             ids == SetToSeq(K)
             n == Cardinality(K)
             seqs == [i \in DOMAIN ids |->
                         AppendString(ids[i]) \o AppendValue(recs[ids[i]])]
             f == FlattenSeq(seqs)
             b == SerializeDatabase(recs)
  <1>1. IsFiniteSet(K) /\ Nat \subseteq U /\ Registers \in Nat
    BY DEF CanBeSaved
  <1>2. \A k \in K : /\ k \in Key /\ k \in U /\ IsValue(U, recs[k])
                     /\ recs[k].type \in U
    BY DEF CanBeSaved
  <1>3. b = <<Len(ids)>> \o f
    BY Zenon DEF SerializeDatabase
  <1> HIDE DEF K, b
  <1>4. /\ n \in Nat /\ ids \in [1..n -> K] /\ Len(ids) = n
        /\ {ids[i] : i \in 1..n} = K
    BY <1>1, SetsInSequence
  <1> HIDE DEF n, ids
  <1>5. DOMAIN ids = 1..n
    BY <1>4
  <1>6. \A i \in 1..n : /\ ids[i] \in Key /\ ids[i] \in U
                        /\ IsValue(U, recs[ids[i]]) /\ recs[ids[i]].type \in U
    BY <1>2, <1>4
  <1>7. \A i \in 1..n : seqs[i] = Entry(ids[i], recs[ids[i]])
    BY <1>5 DEF Entry
  <1>8. \A i \in 1..n : Entry(ids[i], recs[ids[i]]) \in Seq(U)
    <2> TAKE i \in 1..n
    <2>1. EntryIs(U, Entry(ids[i], recs[ids[i]]), ids[i], recs[ids[i]])
      BY <1>1, <1>6, EntryCells
    <2> QED
      BY <2>1 DEF EntryIs
  <1>9. seqs = [i \in 1..n |-> seqs[i]]
    BY <1>5
  <1> HIDE DEF seqs, f
  <1>10. seqs \in Seq(Seq(U)) /\ Len(seqs) = n
    BY <1>4, <1>7, <1>8, <1>9
  <1>11. PICK off : Joined(U, n, seqs, f, off)
    BY <1>4, <1>10, Flattened DEF f
  <1>12. /\ off \in [0..n -> Nat] /\ off[0] = 0
         /\ \A i \in 1..n : off[i] = off[i - 1] + Len(Entry(ids[i], recs[ids[i]]))
         /\ f \in Seq(U) /\ Len(f) = off[n] /\ off[n] \in Nat
         /\ \A i \in 1..n : Holds(f, off[i - 1], Entry(ids[i], recs[ids[i]]))
    <2>1. /\ off \in [0..n -> Nat] /\ off[0] = 0
          /\ \A i \in 1..n : off[i] = off[i - 1] + Len(seqs[i])
          /\ f \in Seq(U) /\ Len(f) = off[n]
          /\ \A i \in 1..n : Holds(f, off[i - 1], seqs[i])
      BY <1>11 DEF Joined
    <2>2. off[n] \in Nat
      BY <1>4, <2>1
    <2>3. \A i \in 1..n : off[i] = off[i - 1] + Len(Entry(ids[i], recs[ids[i]]))
      BY <1>7, <2>1, Zenon
    <2>4. \A i \in 1..n : Holds(f, off[i - 1], Entry(ids[i], recs[ids[i]]))
      BY <1>7, <2>1, Zenon
    <2> QED
      BY <2>1, <2>2, <2>3, <2>4
  <1> DEFINE one == <<n>>
  <1>13. one \in Seq(U) /\ Len(one) = 1 /\ one[1] = n
    BY <1>1, <1>4
  <1>14. b = one \o f
    BY <1>3, <1>4
  <1> HIDE DEF one
  <1>15. InARow(U, one, f, b)
    BY <1>12, <1>13, <1>14, Juxtaposition
  <1>16. /\ b \in Seq(U) /\ Len(b) = 1 + off[n] /\ b[1] = n
         /\ \A j \in 1..Len(f) : b[1 + j] = f[j]
    <2>1. /\ b \in Seq(U) /\ Len(b) = Len(one) + Len(f)
          /\ \A i \in 1..Len(one) : b[i] = one[i]
          /\ \A i \in 1..Len(f) : b[Len(one) + i] = f[i]
      BY <1>15 DEF InARow
    <2>2. 1 \in 1..Len(one)
      BY <1>13
    <2>3. b[1] = n
      BY <1>13, <2>1, <2>2
    <2> QED
      BY <1>12, <1>13, <2>1, <2>3
  <1>17. \A i \in 1..n : Holds(b, 1 + off[i - 1], Entry(ids[i], recs[ids[i]]))
    <2> TAKE i \in 1..n
    <2> DEFINE e == Entry(ids[i], recs[ids[i]])
               o == off[i - 1]
    <2>1. Holds(f, o, e) /\ e \in Seq(U) /\ o \in Nat
      <3>1. i - 1 \in 0..n
        BY <1>4
      <3> QED
        BY <1>8, <1>12, <3>1
    <2> HIDE DEF e, o
    <2>2. \A j \in 1..Len(e) : b[1 + o + j] = e[j]
      <3> TAKE j \in 1..Len(e)
      <3>1. o + j \in 1..Len(f) /\ 1 + o + j = 1 + (o + j) /\ f[o + j] = e[j]
        BY <1>12, <2>1 DEF Holds
      <3> QED
        BY <1>16, <3>1
    <2>3. 1 + o + Len(e) <= Len(b)
      BY <1>12, <1>16, <2>1 DEF Holds
    <2>4. Holds(b, 1 + o, e)
      BY <2>2, <2>3 DEF Holds
    <2> QED
      BY <2>4 DEF e, o
  <1>18. Saved(U, recs, n, ids, off, b)
    BY <1>4, <1>6, <1>12, <1>16, <1>17 DEF Saved
  <1> QED
    BY <1>4, <1>18 DEF K, b

LEMMA BeginningIsLoaded ==
    ASSUME NEW U, NEW recs, CanBeSaved(U, recs), NEW c,
           Beginning(U, c, SerializeDatabase(recs))
    PROVE  /\ \A k \in Key : DeserializeDatabase(c)[k] \in {recs[k], NoRecord, Overrun}
           /\ Len(c) = Len(SerializeDatabase(recs)) => DeserializeDatabase(c) = recs
           /\ SerializeDatabase(recs) \in Seq(U)
           /\ Len(SerializeDatabase(recs)) > 0
  <1> DEFINE b == SerializeDatabase(recs)
             K == {k \in Key : recs[k] # NoRecord}
             loaded == DeserializeDatabase(c)
  <1>1. PICK n, ids, off : /\ Saved(U, recs, n, ids, off, b)
                           /\ {ids[i] : i \in 1..n} = K
    BY SnapshotIsSaved
  <1> HIDE DEF b
  <1>2. /\ n \in Nat /\ Len(b) = 1 + off[n] /\ b[1] = n /\ off[n] \in Nat
        /\ b \in Seq(U)
    BY <1>1 DEF Saved
  <1>3. /\ c \in Seq(U) /\ Len(c) \in Nat /\ Len(c) <= Len(b)
        /\ \A i \in 1..Len(c) : c[i] = b[i]
    BY DEF Beginning, b
  <1>4. CASE Len(c) = 0
    <2>1. ReadNumber(c, 0) = Fails
      BY <1>3, <1>4, NumberIsRead
    <2>2. ~ReadNumber(c, 0).ok
      BY <2>1 DEF Fails
    <2>3. loaded = [k \in Key |-> NoRecord]
      BY <2>2, Zenon DEF DeserializeDatabase
    <2>4. \A k \in Key : loaded[k] = NoRecord
      BY <2>3
    <2> HIDE DEF loaded
    <2>5. \A k \in Key : loaded[k] \in {recs[k], NoRecord, Overrun}
      BY <2>4
    <2> QED
      BY <1>2, <1>4, <2>5 DEF loaded, b
  <1>5. CASE Len(c) # 0
    <2>1. ReadNumber(c, 0) = Read(n, 1)
      <3>1. c[1] = n /\ 0 + 1 <= Len(c) /\ 0 + 1 = 1
        BY <1>2, <1>3, <1>5
      <3>2. ReadNumber(c, 0) = Read(c[0 + 1], 0 + 1)
        BY <1>3, <3>1, NumberIsRead
      <3> QED
        BY <3>1, <3>2
    <2>2. PICK load : Loads(c, 1, n, load) /\ loaded = load[n].records
      BY <1>2, <2>1, DatabaseIsLoaded
    <2>3. Nat \subseteq U /\ Registers \in Nat /\ recs = [k \in Key |-> recs[k]]
      BY DEF CanBeSaved
    <2>4. Beginning(U, c, b)
      BY DEF b
    <2>5. LoadInv(recs, ids, off, c, load[n], n)
      BY <1>1, <2>2, <2>3, <2>4, AllRecordsAreLoaded
    <2> HIDE DEF loaded
    <2>6. \A k \in Key : loaded[k] \in {recs[k], NoRecord, Overrun}
      BY <2>2, <2>5 DEF LoadInv
    <2>7. ASSUME Len(c) = Len(b)
          PROVE  loaded = recs
      <3>1. 1 + off[n] <= Len(c)
        BY <1>2, <2>7
      <3>2. /\ loaded = [k \in Key |-> loaded[k]]
            /\ \A k \in Key : loaded[k] = IF k \in K THEN recs[k] ELSE NoRecord
        BY <1>1, <2>2, <2>5, <3>1 DEF LoadInv
      <3>3. \A k \in Key : loaded[k] = recs[k]
        BY <3>2
      <3> QED
        BY <2>3, <3>2, <3>3
    <2> QED
      BY <1>2, <2>6, <2>7 DEF loaded, b
  <1> QED
    BY <1>4, <1>5

LEMMA Beginnings ==
    ASSUME NEW U, NEW b \in Seq(U), NEW m \in 0..Len(b)
    PROVE  Beginning(U, SubSeq(b, 1, m), b) /\ Len(SubSeq(b, 1, m)) = m
  <1>1. /\ SubSeq(b, 1, m) \in Seq(U) /\ Len(SubSeq(b, 1, m)) = m
        /\ \A i \in 1..m : SubSeq(b, 1, m)[i] = b[i]
    OBVIOUS
  <1> QED
    BY <1>1 DEF Beginning

LEMMA SnapshotsAreReadBack ==
    ASSUME NEW U, NEW recs, CanBeSaved(U, recs)
    PROVE  LET b == SerializeDatabase(recs) IN
           /\ DeserializeDatabase(b) = recs
           /\ \A m \in 0..(Len(b) - 1) : \A k \in Key :
                 DeserializeDatabase(SubSeq(b, 1, m))[k]
                     \in {recs[k], NoRecord, Overrun}
  <1> DEFINE b == SerializeDatabase(recs)
  <1>1. b \in Seq(U)
    <2>1. PICK n, ids, off : Saved(U, recs, n, ids, off, b)
      BY SnapshotIsSaved
    <2> HIDE DEF b
    <2> QED
      BY <2>1 DEF Saved
  <1>2. Beginning(U, b, b)
    <2> HIDE DEF b
    <2> QED
      BY <1>1 DEF Beginning
  <1>3. DeserializeDatabase(b) = recs
    BY <1>2, BeginningIsLoaded
  <1>4. ASSUME NEW m \in 0..(Len(b) - 1), NEW k \in Key
        PROVE  DeserializeDatabase(SubSeq(b, 1, m))[k]
                   \in {recs[k], NoRecord, Overrun}
    <2> DEFINE c == SubSeq(b, 1, m)
    <2>1. Beginning(U, c, b)
      <3> HIDE DEF b
      <3>1. m \in 0..Len(b)
        BY <1>1
      <3> QED
        BY <1>1, <3>1, Beginnings
    <2> HIDE DEF c
    <2>2. \A j \in Key : DeserializeDatabase(c)[j] \in {recs[j], NoRecord, Overrun}
      BY <2>1, BeginningIsLoaded
    <2> QED
      BY <2>2 DEF c
  <1> HIDE DEF b
  <1>5. \A m \in 0..(Len(b) - 1) : \A k \in Key :
            DeserializeDatabase(SubSeq(b, 1, m))[k] \in {recs[k], NoRecord, Overrun}
    BY <1>4
  <1> QED
    BY <1>3, <1>5 DEF b

LEMMA SequencesOfMore ==
    ASSUME NEW V, NEW U, V \subseteq U, NEW s \in Seq(V)
    PROVE  s \in Seq(U)
  <1>1. /\ Len(s) \in Nat /\ s = [i \in 1..Len(s) |-> s[i]]
        /\ \A i \in 1..Len(s) : s[i] \in U
    OBVIOUS
  <1> QED
    BY <1>1

LEMMA RecordsAreValues ==
    ASSUME NEW U, Nat \subseteq U, Word \subseteq U,
           NEW r, IsRecord(r), r # NoRecord, r.value \in U
    PROVE  IsValue(U, r) /\ r.type \in Types
  <1>1. r = [type |-> r.type, value |-> r.value] /\ r.type \in Types
        /\ r.type # "none"
    BY DEF IsRecord
  <1>2. CASE r.type = "hash"
    <2>1. DOMAIN r.value \in SUBSET U /\ IsFiniteSet(DOMAIN r.value)
      BY <1>2 DEF IsRecord
    <2>2. /\ r.value = [f \in DOMAIN r.value |-> r.value[f]]
          /\ \A f \in DOMAIN r.value : r.value[f] \in U
      BY <1>2 DEF IsRecord
    <2>3. r.value \in [DOMAIN r.value -> U]
      BY <2>2
    <2> QED
      BY <1>1, <1>2, <2>1, <2>3, Zenon DEF IsValue
  <1>3. CASE r.type \in {"list", "stream"}
    <2>1. r.value \in Seq(Word) \/ r.value \in Seq(Nat)
      BY <1>3 DEF IsRecord
    <2>2. r.value \in Seq(U)
      BY <2>1, SequencesOfMore
    <2> QED
      BY <1>1, <1>3, <2>2, Zenon DEF IsValue
  <1>4. CASE r.type \in {"set", "sorted_set"}
    <2>1. r.value \in SUBSET U /\ IsFiniteSet(r.value)
      BY <1>4 DEF IsRecord
    <2> QED
      BY <1>1, <1>4, <2>1, Zenon DEF IsValue
  <1>5. CASE r.type = "hyperloglog"
    <2> DEFINE I == 0..(Registers - 1)
               J == 0..(HashBits - B + 1)
    <2>1. HLL!Index = I
      BY WidthsAssumption DEF HLL!Index
    <2>2. \A i \in J : i \in Nat
      BY WidthsAssumption
    <2>3. r.value \in [I -> J]
      BY <1>5, <2>1 DEF IsRecord
    <2> HIDE DEF I, J
    <2>4. r.value \in [I -> U]
      BY <2>2, <2>3
    <2> QED
      BY <1>1, <1>5, <2>4, Zenon DEF IsValue, I
  <1>6. CASE r.type = "string"
    BY <1>1, <1>6, Zenon DEF IsValue
  <1> QED
    BY <1>1, <1>2, <1>3, <1>4, <1>5, <1>6 DEF Types

LEMMA RecordsCanBeSaved ==
    ASSUME TypeOK
    PROVE  \E U : CanBeSaved(U, records)
  <1> DEFINE V == {records[k].value : k \in Key}
             U == Nat \cup Key \cup Types \cup Word \cup V
  <1>1. Registers \in Nat
    BY WidthsAssumption, PowerOfTwo
  <1>2. /\ Nat \subseteq U /\ Key \subseteq U /\ Types \subseteq U
        /\ Word \subseteq U /\ \A k \in Key : records[k].value \in U
    OBVIOUS
  <1> HIDE DEF U
  <1>3. ASSUME NEW k \in Key, records[k] # NoRecord
        PROVE  IsValue(U, records[k]) /\ records[k].type \in U
    <2> DEFINE r == records[k]
    <2>1. IsRecord(r) /\ r # NoRecord
      BY <1>3 DEF TypeOK
    <2>2. r.value \in U
      BY <1>2
    <2> HIDE DEF r
    <2>3. IsValue(U, r) /\ r.type \in Types
      BY <1>2, <2>1, <2>2, RecordsAreValues
    <2> QED
      BY <1>2, <2>3 DEF r
  <1>4. CanBeSaved(U, records)
    BY <1>1, <1>2, <1>3 DEF CanBeSaved, TypeOK
  <1> QED
    BY <1>4

(* Whatever the clients have stored, reading a snapshot of it gives back   *)
(* every record, whatever the order in which the hash containers were      *)
(* walked; and a file that ends early, at whatever cell, gives each record *)
(* as it was, a read beyond its end, or no record, and never another value.*)
THEOREM SnapshotsGiveBack == Spec => []SavedIsLoaded
  <1>1. ASSUME TypeOK
        PROVE  SavedIsLoaded
    <2>1. PICK U : CanBeSaved(U, records)
      BY <1>1, RecordsCanBeSaved
    <2> QED
      BY <2>1, SnapshotsAreReadBack DEF SavedIsLoaded
  <1> QED
    BY <1>1, TypeCorrect, PTL
=============================================================================
