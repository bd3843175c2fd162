------------------------------ MODULE Commands ------------------------------
(***************************************************************************)
(* What each command does to a record and answers: the execute methods in  *)
(* Commands/ConcreteCommands, the values in ConcreteValues they work on,   *)
(* CommandRegistry.h and CommandProcessor.h.  One command at a time, as in *)
(* EXEC; how several clients interleave is in the modules Transactions,    *)
(* TTLDatabase and Stream.                                                 *)
(*                                                                         *)
(* A command is a function of the record of its key, or NoRecord, and of   *)
(* the words after the key: it gives the new record and the answer, "OK",  *)
(* "ERR", "value" (a reading) or "crash".  A string is the number that     *)
(* stoi makes of it, or NaN, and the rest of its text.                     *)
(*                                                                         *)
(* Left out: what the answers say, but whether they are errors; toString   *)
(* and sizes; deadlines, transactions, groups and the ids of streams,      *)
(* which have modules of their own.                                        *)
(***************************************************************************)
EXTENDS Integers, Codec

CONSTANTS
    InSET,      \* the keys whose name occurs in the word SET
    Word,       \* the words clients send, strings as above
    NaN,        \* of a string that stoi refuses
    IdWord,     \* the words StreamId::parse accepts
    MKSTREAM,
    Hash(_),    \* std::hash of a word, in HashBits bits
    HashBits, B, IndexBits,
    IntBits,    \* width of an int
    MaxWords,   \* bound: words after the key
    MaxSize     \* bound: elements of all records together

HLL == INSTANCE HyperLogLog

ASSUME WidthsAssumption ==
    /\ HashBits \in Nat /\ B \in Nat /\ IndexBits \in Nat
    /\ 0 < B /\ 2 * B <= HashBits
    /\ Registers = 2^B
    /\ IntBits \in Nat \ {0}

ASSUME HashAssumption == \A w \in Word : Hash(w) \in HLL!Hashes

VARIABLES
    records,    \* Key -> its record
    reply,      \* the answer of the last command
    running     \* the server has not crashed

(* History: the elements each HyperLogLog has been given.                  *)
VARIABLE added

vars == <<records, reply, running, added>>

MaxInt == 2^(IntBits - 1) - 1
MinInt == -MaxInt - 1
IsInt(s) == s.num \in MinInt..MaxInt

\* Mutant of Wrap: the int is as wide as one needs.
WrapNever(n) == n

\* What arithmetic on an int makes of a result that does not fit.
Wrap(n) == ((n - MinInt) % 2^IntBits) + MinInt
ToDigits(n) == [num |-> n, text |-> "digits"]

Ok(r) == [record |-> r, reply |-> "OK"]
Err(r) == [record |-> r, reply |-> "ERR"]
Gives(r) == [record |-> r, reply |-> "value"]

\* ValueFactory::createValue of a raw value
New(type, raw) == [type |-> type, value |-> raw]

\* A command that reads, of a record of its type or of any.
Query(r, type, granted) ==
    IF r.type = type /\ granted THEN Gives(r) ELSE Err(r)
QueryAny(r, granted) ==
    IF r # NoRecord /\ granted THEN Gives(r) ELSE Err(r)

\* A command that adds to a record and makes the record it does not find.
Extend(r, type, words, empty, Plus(_, _)) ==
    IF words = <<>> \/ r.type \notin {type, "none"} THEN Err(r)
    ELSE IF r.type = type THEN Ok([r EXCEPT !.value = Plus(@, words)])
    ELSE Ok(New(type, Plus(empty, words)))
-----------------------------------------------------------------------------
(* Strings                                                                 *)

\* SET stores what follows the first occurrence of the key in the line: for
\* some keys that is in the word SET, and the key is a part of the value.
SET(r, k, words) ==
    IF words = <<>> THEN Err(r)
    ELSE Ok(New("string",
             IF k \in InSET THEN [num |-> NaN, text |-> "line"]
             ELSE IF Len(words) = 1 THEN words[1]
             ELSE [num |-> words[1].num, text |-> "words"]))

GET(r, words) == QueryAny(r, words = <<>>)

\* Mutant of AddInt: a record that is not there counts as 0.
AddIntToZero(r, sign, amount) ==
    LET found == IF r = NoRecord
                 THEN [type |-> "string", value |-> ToDigits(0)] ELSE r
    IN  IF found.type # "string" THEN Err(r)
        ELSE IF IsInt(amount) /\ IsInt(found.value)
        THEN Ok([found EXCEPT !.value = ToDigits(Wrap(@.num + sign * amount.num))])
        ELSE Err(found)

\* Mutant of AddInt: the type is not tested, any record is counted on.
AddIntToAny(r, sign, amount) ==
    IF r = NoRecord THEN Err(r)
    ELSE LET n == IF r.type = "string" THEN r.value ELSE ToDigits(0)
         IN  IF IsInt(amount) /\ IsInt(n)
             THEN Ok(New("string", ToDigits(Wrap(n.num + sign * amount.num))))
             ELSE Err(r)

\* stoi of the amount, then of the value: either may throw.
AddInt(r, sign, amount) ==
    IF r.type # "string" THEN Err(r)
    ELSE IF IsInt(amount) /\ IsInt(r.value)
    THEN Ok([r EXCEPT !.value = ToDigits(Wrap(@.num + sign * amount.num))])
    ELSE Err(r)

INCR(r, words) == IF words = <<>> THEN AddInt(r, 1, ToDigits(1)) ELSE Err(r)
DECR(r, words) == IF words = <<>> THEN AddInt(r, -1, ToDigits(1)) ELSE Err(r)
INCRBY(r, words) == IF Len(words) = 1 THEN AddInt(r, 1, words[1]) ELSE Err(r)
DECRBY(r, words) == IF Len(words) = 1 THEN AddInt(r, -1, words[1]) ELSE Err(r)
-----------------------------------------------------------------------------
(* Lists                                                                   *)

LPUSH(r, words) ==
    Extend(r, "list", words, <<>>, LAMBDA list, w : Reverse(w) \o list)
RPUSH(r, words) == Extend(r, "list", words, <<>>, LAMBDA list, w : list \o w)

\* The last element goes, the list stays, empty.
Pop(r, words, rest) ==
    IF words = <<>> /\ r.type = "list" /\ r.value # <<>>
    THEN Gives([r EXCEPT !.value = rest]) ELSE Err(r)
LPOP(r, words) == Pop(r, words, Tail(r.value))
RPOP(r, words) == Pop(r, words, Front(r.value))

\* Negative indexes count from the end.  Where start is beyond stop + 1, the
\* vector of the range throws.
InRange(list, start, stop) ==
    LET From(i) == IF i < 0 THEN i + Len(list) ELSE i
    IN  /\ From(start) \in 0..(Len(list) - 1)
        /\ From(stop) \in 0..(Len(list) - 1)
        /\ From(start) <= From(stop) + 1
LRANGE(r, words) ==
    Query(r, "list", /\ Len(words) = 2
                     /\ IsInt(words[1]) /\ IsInt(words[2])
                     /\ InRange(r.value, words[1].num, words[2].num))
LINDEX(r, words) ==
    Query(r, "list", /\ Len(words) = 1
                     /\ words[1].num # NaN
                     /\ words[1].num \in 0..(Len(r.value) - 1))
LLEN(r, words) == Query(r, "list", words = <<>>)
-----------------------------------------------------------------------------
(* Hashes                                                                  *)

SetFields(hash, words) ==
    LET set == Bindings(words)
    IN  [f \in DOMAIN set \cup DOMAIN hash |->
            IF f \in DOMAIN set THEN set[f] ELSE hash[f]]

\* A record of another type is not tested for: the null pointer is used.
HMSET(r, words) ==
    IF words = <<>> \/ Len(words) % 2 # 0 THEN Err(r)
    ELSE IF r.type \in {"hash", "none"}
    THEN Extend(r, "hash", words, <<>>, SetFields)
    ELSE [record |-> r, reply |-> "crash"]

\* HDEL stops at the first field that is not there, or not any more; those
\* before it are gone.
FoundFields(hash, words) ==
    Max({n \in 0..Len(words) :
            \A i \in 1..n : /\ words[i] \in DOMAIN hash
                           /\ \A j \in 1..(i - 1) : words[j] # words[i]})
HDEL(r, words) ==
    IF words = <<>> \/ r.type # "hash" THEN Err(r)
    ELSE LET found == FoundFields(r.value, words)
             gone == ToSet(SubSeq(words, 1, found))
         IN  [record |-> [r EXCEPT !.value = RestrictDomain(@,
                              LAMBDA f : f \notin gone)],
              reply |-> IF found = Len(words) THEN "OK" ELSE "ERR"]

HGET(r, words) ==
    Query(r, "hash", Len(words) = 1 /\ words[1] \in DOMAIN r.value)
HEXISTS(r, words) == Query(r, "hash", Len(words) = 1)
HGETALL(r, words) == QueryAny(r, words = <<>>)
-----------------------------------------------------------------------------
(* Sets and sorted sets, which differ in the order of their members only   *)

Plus(set, words) == set \cup ToSet(words)
RemoveMembers(r, type, words) ==
    IF words # <<>> /\ r.type = type
    THEN Ok([r EXCEPT !.value = @ \ ToSet(words)]) ELSE Err(r)

SADD(r, words) == Extend(r, "set", words, {}, Plus)
SREM(r, words) == RemoveMembers(r, "set", words)
SISMEMBER(r, words) == Query(r, "set", Len(words) = 1)
SMEMBERS(r, words) == Query(r, "set", words = <<>>)
SCARD(r, words) == Query(r, "set", words = <<>>)

ZADD(r, words) == Extend(r, "sorted_set", words, {}, Plus)
ZREM(r, words) == RemoveMembers(r, "sorted_set", words)
ZISMEMBER(r, words) == Query(r, "sorted_set", Len(words) = 1)
ZMEMBERS(r, words) == Query(r, "sorted_set", words = <<>>)
ZCARD(r, words) == Query(r, "sorted_set", words = <<>>)
-----------------------------------------------------------------------------
(* HyperLogLogs and streams                                                *)

PFADD(r, words) ==
    Extend(r, "hyperloglog", words, HLL!NoElements,
           LAMBDA registers, w :
               HLL!AddAll(registers, [i \in DOMAIN w |-> Hash(w[i])]))
PFCOUNT(r, words) == Query(r, "hyperloglog", words = <<>>)

\* Of the messages only their number matters here.
XADD(r, words) ==
    IF Len(words) % 2 # 0 THEN Err(r)
    ELSE Extend(r, "stream", words, <<>>,
                LAMBDA stream, w : Append(stream, Len(stream) + 1))

\* The id is parsed last: a stream made for MKSTREAM stays without its group.
\* (A group that is there already, another error, is in ConsumerGroups.)
XGROUP(r, words) ==
    LET mkstream == Len(words) > 1 /\ words[2] = MKSTREAM
        made == IF r = NoRecord THEN New("stream", <<>>) ELSE r
    IN  IF words = <<>> \/ ~(r.type = "stream" \/ (r = NoRecord /\ mkstream))
        THEN Err(r)
        ELSE IF words[1] \in IdWord THEN Ok(made) ELSE Err(made)
-----------------------------------------------------------------------------
(* Keys                                                                    *)

\* Words after the key are not looked at.
DEL(r, words) == IF r = NoRecord THEN Err(r) ELSE Ok(NoRecord)
EXISTS(r, words) == IF words = <<>> THEN Gives(r) ELSE Err(r)
TYPE(r, words) == QueryAny(r, words = <<>>)
EXPIRE(r, words) ==
    IF words # <<>> /\ r # NoRecord
    THEN IF IsInt(words[1]) THEN Ok(r) ELSE Err(r)
    ELSE Err(r)
PERSIST(r, words) == IF words = <<>> /\ r # NoRecord THEN Ok(r) ELSE Err(r)
MEMORYUSAGE(r, words) == QueryAny(r, TRUE)
PING(r) == Gives(r)
Invalid(r) == Err(r)

Names == {"SET", "GET", "INCR", "DECR", "INCRBY", "DECRBY",
          "LPUSH", "RPUSH", "LPOP", "RPOP", "LRANGE", "LINDEX", "LLEN",
          "HMSET", "HDEL", "HGET", "HEXISTS", "HGETALL",
          "SADD", "SREM", "SISMEMBER", "SMEMBERS", "SCARD",
          "ZADD", "ZREM", "ZISMEMBER", "ZMEMBERS", "ZCARD",
          "PFADD", "PFCOUNT", "XADD", "XGROUP",
          "DEL", "EXISTS", "TYPE", "EXPIRE", "PERSIST", "MEMORY",
          "PING", "OTHER"}

\* getCommand: a name that is not registered is INVALID.
Execute(name, r, k, words) ==
    CASE name = "SET" -> SET(r, k, words)    [] name = "GET" -> GET(r, words)
      [] name = "INCR" -> INCR(r, words)     [] name = "DECR" -> DECR(r, words)
      [] name = "INCRBY" -> INCRBY(r, words)
      [] name = "DECRBY" -> DECRBY(r, words)
      [] name = "LPUSH" -> LPUSH(r, words)   [] name = "RPUSH" -> RPUSH(r, words)
      [] name = "LPOP" -> LPOP(r, words)     [] name = "RPOP" -> RPOP(r, words)
      [] name = "LRANGE" -> LRANGE(r, words)
      [] name = "LINDEX" -> LINDEX(r, words) [] name = "LLEN" -> LLEN(r, words)
      [] name = "HMSET" -> HMSET(r, words)   [] name = "HDEL" -> HDEL(r, words)
      [] name = "HGET" -> HGET(r, words)
      [] name = "HEXISTS" -> HEXISTS(r, words)
      [] name = "HGETALL" -> HGETALL(r, words)
      [] name = "SADD" -> SADD(r, words)     [] name = "SREM" -> SREM(r, words)
      [] name = "SISMEMBER" -> SISMEMBER(r, words)
      [] name = "SMEMBERS" -> SMEMBERS(r, words)
      [] name = "SCARD" -> SCARD(r, words)
      [] name = "ZADD" -> ZADD(r, words)     [] name = "ZREM" -> ZREM(r, words)
      [] name = "ZISMEMBER" -> ZISMEMBER(r, words)
      [] name = "ZMEMBERS" -> ZMEMBERS(r, words)
      [] name = "ZCARD" -> ZCARD(r, words)
      [] name = "PFADD" -> PFADD(r, words)
      [] name = "PFCOUNT" -> PFCOUNT(r, words)
      [] name = "XADD" -> XADD(r, words)     [] name = "XGROUP" -> XGROUP(r, words)
      [] name = "DEL" -> DEL(r, words)       [] name = "EXISTS" -> EXISTS(r, words)
      [] name = "TYPE" -> TYPE(r, words)     [] name = "EXPIRE" -> EXPIRE(r, words)
      [] name = "PERSIST" -> PERSIST(r, words)
      [] name = "MEMORY" -> MEMORYUSAGE(r, words)
      [] name = "PING" -> PING(r)
      [] OTHER -> Invalid(r)
-----------------------------------------------------------------------------
Types == {"none", "string", "list", "hash", "set", "sorted_set", "stream",
          "hyperloglog"}

Size(r) ==
    CASE r.type \in {"list", "stream"} -> Len(r.value)
      [] r.type = "hash" -> Cardinality(DOMAIN r.value)
      [] r.type \in {"set", "sorted_set"} -> Cardinality(r.value)
      [] r.type = "string" -> 1
      [] OTHER -> 0

IsRecord(r) ==
    /\ r.type \in Types
    /\ r = NoRecord \/ r = [type |-> r.type, value |-> r.value]
    /\ r.type = "none" => r = NoRecord
    /\ r.type = "string" =>
            \/ r.value.num = NaN \/ IsInt(r.value)
            \/ \E w \in Word : r.value.num = w.num
    /\ r.type = "list" => r.value \in Seq(Word)
    /\ r.type = "hash" =>
            /\ r.value = [f \in DOMAIN r.value |-> r.value[f]]
            /\ DOMAIN r.value \subseteq Word /\ IsFiniteSet(DOMAIN r.value)
            /\ \A f \in DOMAIN r.value : r.value[f] \in Word
    /\ r.type \in {"set", "sorted_set"} =>
            r.value \subseteq Word /\ IsFiniteSet(r.value)
    /\ r.type = "stream" => r.value \in Seq(Nat)
    /\ r.type = "hyperloglog" =>
            r.value \in [HLL!Index -> 0..(HashBits - B + 1)]

TypeOK ==
    /\ records = [k \in Key |-> records[k]]
    /\ IsFiniteSet({k \in Key : records[k] # NoRecord})
    /\ \A k \in Key : IsRecord(records[k])
    /\ reply \in {"none", "OK", "ERR", "value", "crash"}
    /\ running \in BOOLEAN
    /\ added \in [Key -> SUBSET (0..(2^HashBits - 1))]

Init ==
    /\ records = [k \in Key |-> NoRecord]
    /\ reply = "none"
    /\ running = TRUE
    /\ added = [k \in Key |-> {}]

\* The hashes a HyperLogLog has been given, while it is there.
Added(k, name, after, words) ==
    IF after.record.type # "hyperloglog" THEN {}
    ELSE IF name = "PFADD" /\ after.reply = "OK"
    THEN added[k] \cup {Hash(w) : w \in ToSet(words)} ELSE added[k]

\* processCommand, of one that is not queued
Process(k, name, words) ==
    LET after == Execute(name, records[k], k, words) IN
    /\ running
    /\ records' = [records EXCEPT ![k] = after.record]
    /\ MapThenSumSet(LAMBDA j : Size(records'[j]), Key) <= MaxSize
    /\ reply' = after.reply
    /\ running' = (after.reply # "crash")
    /\ added' = [added EXCEPT ![k] = Added(k, name, after, words)]

\* Eviction or expiry
Leave(k) ==
    /\ running
    /\ records[k] # NoRecord
    /\ records' = [records EXCEPT ![k] = NoRecord]
    /\ added' = [added EXCEPT ![k] = {}]
    /\ reply' = "none"
    /\ UNCHANGED running

\* The server starts again, without a snapshot.
Restart ==
    /\ ~running
    /\ running' = TRUE
    /\ records' = [k \in Key |-> NoRecord]
    /\ added' = [k \in Key |-> {}]
    /\ reply' = "none"

Words == UNION {[1..n -> Word] : n \in 0..MaxWords}

Next ==
    \/ \E k \in Key, name \in Names, words \in Words : Process(k, name, words)
    \/ \E k \in Key : Leave(k)
    \/ Restart

Spec == Init /\ [][Next]_vars
-----------------------------------------------------------------------------
(* Properties                                                              *)

\* A command that answers with an error has changed nothing, but for HDEL,
\* which keeps the fields it has removed before one that is not there, and
\* XGROUP CREATE, which keeps the stream it has made.  The order of tests and
\* changes in the execute methods.
RefusalsChangeNothing ==
    [][reply' = "ERR" =>
         \A k \in Key : records'[k] # records[k] =>
            \/ /\ records[k].type = "hash" /\ records'[k].type = "hash"
               /\ DOMAIN records'[k].value \subseteq DOMAIN records[k].value
               /\ \A f \in DOMAIN records'[k].value :
                     records'[k].value[f] = records[k].value[f]
            \/ /\ records[k] = NoRecord
               /\ records'[k] = [type |-> "stream", value |-> <<>>]]_vars

\* Whatever records the commands so far have left, no command but SET makes a
\* record of one type into one of another, and none but DEL removes one:
\* clients that know the type of a key can rely on it until somebody sets or
\* deletes the key, or it expires or is evicted.  The type tests in the execute
\* methods, those of INCR and its like before updateRecord puts a string in the
\* place of the value among them.
OnlySETChangesType ==
    \A k \in Key : records[k] # NoRecord =>
        \A name \in Names \ {"SET"}, words \in Words :
            LET after == Execute(name, records[k], k, words).record IN
            \/ after.type = records[k].type
            \/ name = "DEL" /\ after = NoRecord

\* A snapshot gives back the records it was made of; a part of it, that ends
\* at whatever place, gives some of them as they were, an error or a read
\* beyond its end, and never another value.  Serialization and ValueFactory.
SavedIsLoaded ==
    LET buffer == SerializeDatabase(records) IN
    /\ DeserializeDatabase(buffer) = records
    /\ \A n \in 0..(Len(buffer) - 1) :
         LET loaded == DeserializeDatabase(SubSeq(buffer, 1, n))
         IN  \A k \in Key : loaded[k] \in {records[k], NoRecord, Overrun}

\* The registers of a HyperLogLog say the highest count of the elements added
\* to each, in whatever order and however often they came, over the life of
\* the key.  PFADD, add and countLeadingZeros.
RegistersAreOfTheSet ==
    \A k \in Key : records[k].type = "hyperloglog" =>
        HLL!AreOfTheSet(records[k].value, added[k])
=============================================================================
