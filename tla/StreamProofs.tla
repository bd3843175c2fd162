---------------------------- MODULE StreamProofs ----------------------------
(***************************************************************************)
(* Proofs about modules Stream and ConsumerGroups: for any number of       *)
(* clients and groups, and for clocks and counters of any bound.           *)
(*                                                                         *)
(* The ids of messages.  What makes an id greater than those before it is  *)
(* the clock, which only goes up, and, within one millisecond, the         *)
(* counter.  A restart sets the counter back, but not before the clock has *)
(* gone on: no message has both the present time and a number the counter  *)
(* has still to give (NotAhead).                                           *)
(*                                                                         *)
(* The groups.  The invariant follows one message: while an XREADGROUP     *)
(* works through its messages, those it has done are pending, but for the  *)
(* ones some XACK has asked for (Delivered, Touched); and an XACK has      *)
(* still to do only what nobody counts on any more (Released).             *)
(***************************************************************************)
EXTENDS ConsumerGroups, FiniteSetTheorems, WellFoundedInduction, TLAPS

\* No message has the present time and a number still to come, ...
NotAhead ==
    \A m \in messages \cup snapshot.messages :
        m[1] <= clock /\ (m[1] = clock => m[2] < seq)

\* ... nor the time an XADD has read, ...
NotAheadOf(p) ==
    pc[p] # "idle" =>
        \A m \in messages : m[1] = ms[p] => m[2] < seq

\* ... and those it has found are not later than that time.
FoundBefore(p) ==
    pc[p] = "number" =>
        \A m \in began[p] : m[1] <= ms[p] /\ (m[1] = ms[p] => m[2] < seq)

\* The id of an XADD is the time it read and a number already given.
IdTaken(p) == pc[p] = "insert" => id[p][1] = ms[p] /\ id[p][2] < seq

IInv ==
    /\ TypeOK /\ NotAhead
    /\ \A p \in Producer : NotAheadOf(p) /\ FoundBefore(p) /\ IdTaken(p)
    /\ LaterIdsAreGreater

\* An id is a pair of numbers.
LEMMA IdsArePairs ==
    ASSUME NEW m \in Id
    PROVE  /\ m = <<m[1], m[2]>>
           /\ m[1] \in Nat /\ m[2] \in Nat
           /\ m[1] \in 0..MaxMs /\ m[2] \in 0..MaxSeq
  BY StreamBounds DEF Id

\* Nothing is in the stream, and no XADD under way, at the start.
LEMMA InitInv == Init => IInv
  <1> SUFFICES ASSUME Init PROVE IInv
    OBVIOUS
  <1>1. exists \in BOOLEAN /\ hung \in BOOLEAN /\ snapshot \in Stream
    BY Zenon DEF Init, Stream, NoStream
  <1>2. TypeOK
    BY <1>1, StreamBounds DEF Init, TypeOK, Id, Zero
  <1>3. NotAhead /\ LaterIdsAreGreater
    BY DEF Init, NotAhead, LaterIdsAreGreater, NoStream
  <1>4. \A p \in Producer : NotAheadOf(p) /\ FoundBefore(p) /\ IdTaken(p)
    BY DEF Init, NotAheadOf, FoundBefore, IdTaken
  <1> QED
    BY <1>2, <1>3, <1>4 DEF IInv

LEMMA NextTypeOK == ASSUME TypeOK, [Next]_vars PROVE TypeOK'
  <1> USE StreamBounds DEF timeVars, streamVars, addVars, followVars
  <1>1. CASE Tick
    BY <1>1 DEF TypeOK, Tick
  <1>2. ASSUME NEW p \in Producer, XAddBegin(p) PROVE TypeOK'
    BY <1>2 DEF TypeOK, XAddBegin
  <1>3. ASSUME NEW p \in Producer, XAddNumber(p) PROVE TypeOK'
    <2>1. ms[p] \in 0..MaxMs /\ seq \in 0..MaxSeq
      BY DEF TypeOK
    <2>2. <<ms[p], seq>> \in Id
      BY <2>1 DEF Id
    <2> QED
      BY <1>3, <2>2 DEF TypeOK, XAddNumber
  <1>4. ASSUME NEW p \in Producer, XAddInsert(p) \/ XAddLost(p) PROVE TypeOK'
    <2>1. Zero \in Id
      BY DEF Zero, Id
    <2>2. exists' \in BOOLEAN
      BY <1>4, Zenon DEF TypeOK, XAddInsert, XAddLost, streamVars
    <2>3. messages' \subseteq Id
      BY <1>4 DEF TypeOK, XAddInsert, XAddLost
    <2>4. XAddEnd(p)
      BY <1>4 DEF XAddInsert, XAddLost
    <2> QED
      BY <2>1, <2>2, <2>3, <2>4 DEF TypeOK, XAddEnd
  <1>5. CASE Following
    <2>1. last' \in Id /\ seen' \subseteq Id
      <3>1. PICK n \in 1..MaxCount : Follow(n)
        BY <1>5 DEF Following
      <3>2. \A m \in XRead(last, n) : m \in Id
        BY DEF XRead, TypeOK
      <3> QED
        BY <3>1, <3>2 DEF Follow, TypeOK
    <2> QED
      BY <1>5, <2>1 DEF Following, Follow, TypeOK
  <1>h. CASE FollowerHangs
    <2>1. hung' \in BOOLEAN
      BY <1>h, Zenon DEF FollowerHangs
    <2> QED
      BY <1>h, <2>1 DEF TypeOK, FollowerHangs
  <1>6. CASE MakeStream \/ Drop
    <2>1. exists' \in BOOLEAN
      BY <1>6, Zenon DEF MakeStream, Drop
    <2> QED
      BY <1>6, <2>1 DEF TypeOK, MakeStream, Drop
  <1>7. CASE Save
    <2>1. snapshot' \in Stream
      BY <1>7, Zenon DEF TypeOK, Save, Stream
    <2> QED
      BY <1>7, <2>1 DEF TypeOK, Save
  <1>8. CASE Restart
    <2>1. /\ exists' \in BOOLEAN /\ messages' \subseteq Id
          /\ hung' \in BOOLEAN
      BY <1>8, Zenon DEF TypeOK, Restart, Stream
    <2> QED
      BY <1>8, <2>1 DEF TypeOK, Restart, Zero, Id
  <1>9. CASE UNCHANGED vars
    BY <1>9 DEF TypeOK, vars
  <1> QED
    BY <1>1, <1>2, <1>3, <1>4, <1>5, <1>6, <1>7, <1>8, <1>9, <1>h DEF Next, Add

\* XADD reads the clock: what is in the stream now has an earlier time, or
\* the same and a smaller number.
LEMMA XAddBeginInv ==
    ASSUME IInv, TypeOK', NEW p \in Producer, XAddBegin(p)
    PROVE  IInv'
  <1>1. /\ pc' = [pc EXCEPT ![p] = "number"] /\ ms' = [ms EXCEPT ![p] = clock]
        /\ began' = [began EXCEPT ![p] = messages]
        /\ clock' = clock /\ seq' = seq /\ id' = id
        /\ messages' = messages /\ snapshot' = snapshot
    BY DEF XAddBegin, timeVars, streamVars
  <1>2. NotAhead'
    BY <1>1 DEF IInv, NotAhead
  <1>3. ASSUME NEW q \in Producer
        PROVE  NotAheadOf(q)' /\ FoundBefore(q)' /\ IdTaken(q)'
    <2>1. NotAhead /\ NotAheadOf(q) /\ FoundBefore(q) /\ IdTaken(q)
      BY DEF IInv
    <2>2. pc \in [Producer -> {"idle", "number", "insert"}]
          /\ ms \in [Producer -> 0..clock]
          /\ began \in [Producer -> SUBSET Id]
      BY DEF IInv, TypeOK
    <2> QED
      BY <1>1, <2>1, <2>2 DEF NotAhead, NotAheadOf, FoundBefore, IdTaken
  <1>4. LaterIdsAreGreater'
    BY <1>1 DEF IInv, TypeOK, LaterIdsAreGreater
  <1> QED
    BY <1>2, <1>3, <1>4 DEF IInv

\* XADD takes a number: nobody has it with the time the XADD has read.
LEMMA XAddNumberInv ==
    ASSUME IInv, TypeOK', NEW p \in Producer, XAddNumber(p)
    PROVE  IInv'
  <1>1. /\ pc[p] = "number" /\ pc' = [pc EXCEPT ![p] = "insert"]
        /\ id' = [id EXCEPT ![p] = <<ms[p], seq>>] /\ seq' = seq + 1
        /\ clock' = clock /\ messages' = messages /\ snapshot' = snapshot
        /\ ms' = ms /\ began' = began
    BY DEF XAddNumber, streamVars
  <1>2. /\ pc \in [Producer -> {"idle", "number", "insert"}]
        /\ ms \in [Producer -> 0..clock] /\ id \in [Producer -> Id]
        /\ seq \in Nat /\ clock \in Nat /\ messages \subseteq Id
        /\ snapshot.messages \subseteq Id
        /\ began \in [Producer -> SUBSET Id]
    BY StreamBounds DEF IInv, TypeOK, Stream
  <1>3. NotAhead'
    BY <1>1, <1>2, IdsArePairs DEF IInv, NotAhead
  <1>4. ASSUME NEW q \in Producer
        PROVE  NotAheadOf(q)' /\ FoundBefore(q)' /\ IdTaken(q)'
    <2>1. NotAheadOf(q) /\ FoundBefore(q) /\ IdTaken(q)
      BY DEF IInv
    <2>2. NotAheadOf(q)' /\ FoundBefore(q)'
      BY <1>1, <1>2, <2>1, IdsArePairs DEF NotAheadOf, FoundBefore
    <2>3. IdTaken(q)'
      BY <1>1, <1>2, <2>1, IdsArePairs DEF IdTaken
    <2> QED
      BY <2>2, <2>3
  <1>5. ASSUME NEW q \in Producer, pc'[q] = "insert"
        PROVE  /\ \A m \in began'[q] : Less(m, id'[q])
               /\ id'[q] \notin messages'
               /\ \A r \in Producer \ {q} : pc'[r] = "insert" => id'[q] # id'[r]
    <2>1. \A r \in Producer : NotAheadOf(r) /\ FoundBefore(r) /\ IdTaken(r)
      BY DEF IInv
    <2>2. \A r \in Producer \ {p} :
             pc[r] = "insert" => id[r][2] # seq /\ id[r] # <<ms[p], seq>>
      BY <1>2, <2>1, IdsArePairs DEF IdTaken
    <2>3. CASE q = p
      <3>1. id'[q] = <<ms[p], seq>>
        BY <1>1, <1>2, <2>3
      <3>2. \A m \in began'[q] : Less(m, id'[q])
        BY <1>1, <1>2, <2>1, <2>3, <3>1, IdsArePairs DEF FoundBefore, Less
      <3>3. id'[q] \notin messages'
        BY <1>1, <1>2, <2>1, <2>3, <3>1 DEF NotAheadOf
      <3>4. \A r \in Producer \ {q} : pc'[r] = "insert" => id'[q] # id'[r]
        BY <1>1, <1>2, <2>2, <2>3, <3>1
      <3> QED
        BY <3>2, <3>3, <3>4
    <2>4. CASE q # p
      <3>1. pc[q] = "insert" /\ id'[q] = id[q] /\ began'[q] = began[q]
        BY <1>1, <1>2, <1>5, <2>4
      <3>2. /\ \A m \in began[q] : Less(m, id[q])
            /\ id[q] \notin messages
            /\ \A r \in Producer \ {q} : pc[r] = "insert" => id[q] # id[r]
        BY <3>1 DEF IInv, LaterIdsAreGreater
      <3>3. id[q] # <<ms[p], seq>>
        BY <2>2, <2>4, <3>1
      <3>4. \A r \in Producer \ {q} : pc'[r] = "insert" => id'[q] # id'[r]
        BY <1>1, <1>2, <3>1, <3>2, <3>3
      <3> QED
        BY <1>1, <3>1, <3>2, <3>4
    <2> QED
      BY <2>3, <2>4
  <1>6. LaterIdsAreGreater'
    BY <1>5 DEF LaterIdsAreGreater
  <1> QED
    BY <1>3, <1>4, <1>6 DEF IInv

\* XADD ends: its id, if it comes into the stream, is none an other one has.
LEMMA XAddEndInv ==
    ASSUME IInv, TypeOK', NEW p \in Producer, XAddInsert(p) \/ XAddLost(p)
    PROVE  IInv'
  <1>1. /\ pc[p] = "insert" /\ pc' = [pc EXCEPT ![p] = "idle"]
        /\ id' = [id EXCEPT ![p] = Zero] /\ ms' = [ms EXCEPT ![p] = 0]
        /\ began' = [began EXCEPT ![p] = {}]
        /\ clock' = clock /\ seq' = seq /\ snapshot' = snapshot
        /\ messages' \subseteq messages \cup {id[p]}
    BY DEF XAddInsert, XAddLost, XAddEnd, timeVars, streamVars
  <1>2. /\ pc \in [Producer -> {"idle", "number", "insert"}]
        /\ ms \in [Producer -> 0..clock] /\ id \in [Producer -> Id]
        /\ clock \in Nat /\ seq \in Nat
        /\ began \in [Producer -> SUBSET Id]
    BY StreamBounds DEF IInv, TypeOK
  <1>3. \A q \in Producer : NotAheadOf(q) /\ FoundBefore(q) /\ IdTaken(q)
    BY DEF IInv
  <1>4. id[p][1] = ms[p] /\ id[p][1] <= clock /\ id[p][2] < seq
    BY <1>1, <1>2, <1>3 DEF IdTaken
  <1>5. NotAhead'
    BY <1>1, <1>4 DEF IInv, NotAhead
  <1>6. ASSUME NEW q \in Producer
        PROVE  NotAheadOf(q)' /\ FoundBefore(q)' /\ IdTaken(q)'
    <2>1. CASE q = p
      BY <1>1, <1>2, <2>1 DEF NotAheadOf, FoundBefore, IdTaken
    <2>2. CASE q # p
      BY <1>1, <1>2, <1>3, <1>4, <2>2 DEF NotAheadOf, FoundBefore, IdTaken
    <2> QED
      BY <2>1, <2>2
  <1>7. LaterIdsAreGreater'
    BY <1>1, <1>2 DEF IInv, LaterIdsAreGreater
  <1> QED
    BY <1>5, <1>6, <1>7 DEF IInv

\* The server starts again, a millisecond later: the counter at 0, no XADD.
LEMMA RestartInv == ASSUME IInv, TypeOK', Restart PROVE IInv'
  <1>1. clock \in Nat /\ snapshot.messages \subseteq Id
    BY DEF IInv, TypeOK, Stream
  <1>2. \A m \in messages' \cup snapshot'.messages : m[1] < clock'
    BY <1>1, IdsArePairs DEF Restart, IInv, NotAhead
  <1>3. NotAhead'
    BY <1>1, <1>2, IdsArePairs DEF Restart, NotAhead
  <1>4. \A q \in Producer : NotAheadOf(q)' /\ FoundBefore(q)' /\ IdTaken(q)'
    BY DEF Restart, NotAheadOf, FoundBefore, IdTaken
  <1>5. LaterIdsAreGreater'
    BY DEF Restart, LaterIdsAreGreater
  <1> QED
    BY <1>3, <1>4, <1>5 DEF IInv

\* The steps that leave every XADD alone, and put no message in the stream.
LEMMA OtherStepsInv ==
    ASSUME IInv, TypeOK',
           \/ Tick \/ Following \/ FollowerHangs \/ MakeStream \/ Drop \/ Save
           \/ UNCHANGED vars
    PROVE  IInv'
  <1>1. /\ pc' = pc /\ ms' = ms /\ id' = id /\ began' = began /\ seq' = seq
        /\ messages' \subseteq messages
        /\ snapshot'.messages \subseteq messages \cup snapshot.messages
        /\ clock' = clock \/ clock' = clock + 1
    BY DEF Tick, Following, Follow, FollowerHangs, MakeStream, Drop, Save,
           vars, timeVars, streamVars, addVars
  <1>2. clock \in Nat /\ messages \subseteq Id /\ snapshot.messages \subseteq Id
    BY DEF IInv, TypeOK, Stream
  <1>3. NotAhead'
    BY <1>1, <1>2, IdsArePairs DEF IInv, NotAhead
  <1>4. \A q \in Producer : NotAheadOf(q)' /\ FoundBefore(q)' /\ IdTaken(q)'
    BY <1>1 DEF IInv, NotAheadOf, FoundBefore, IdTaken
  <1>5. LaterIdsAreGreater'
    BY <1>1 DEF IInv, LaterIdsAreGreater
  <1> QED
    BY <1>3, <1>4, <1>5 DEF IInv

LEMMA NextInv == ASSUME IInv, [Next]_vars PROVE IInv'
  <1>1. TypeOK'
    BY NextTypeOK DEF IInv
  <1>2. ASSUME NEW p \in Producer, Add(p) PROVE IInv'
    BY <1>1, <1>2, XAddBeginInv, XAddNumberInv, XAddEndInv DEF Add
  <1> QED
    BY <1>1, <1>2, RestartInv, OtherStepsInv DEF Next

-----------------------------------------------------------------------------
\* The state of a stream, its snapshot and the XADDs under way are what they
\* are declared to be.
THEOREM StreamTypes == Spec => []TypeOK
  <1>1. Init => TypeOK
    BY InitInv DEF IInv
  <1>2. TypeOK /\ [Next]_vars => TypeOK'
    BY NextTypeOK
  <1> QED
    BY <1>1, <1>2, PTL DEF Spec

\* For any number of clients: an XADD gets a greater id than every message it
\* could have seen, across restarts too, and no two messages have one id.
THEOREM IdsGrow == Spec => []LaterIdsAreGreater
  <1>1. Init => IInv
    BY InitInv
  <1>2. IInv /\ [Next]_vars => IInv'
    BY NextInv
  <1>3. IInv => LaterIdsAreGreater
    BY DEF IInv
  <1> QED
    BY <1>1, <1>2, <1>3, PTL DEF Spec

\* A follower misses a message only if the XADD overlapped that of the last
\* message it had got by then.
THEOREM OnlyOverlapping == Spec => OnlyOverlappingAreMissed
  <1>1. ASSUME LaterIdsAreGreater, [Next]_vars
        PROVE  [\A p \in Producer :
                  pc[p] = "insert" /\ id[p] \in messages' \ messages =>
                      Less(last, id[p]) \/ last \notin began[p]]_vars
    BY <1>1 DEF LaterIdsAreGreater
  <1> QED
    BY <1>1, IdsGrow, PTL DEF Spec, OnlyOverlappingAreMissed

-----------------------------------------------------------------------------
\* Reads.  The ids are well ordered, so that a read that passes over a message
\* has one it passes over first.

\* A set of numbers has a least one.
LEMMA LeastNumber ==
    ASSUME NEW T \in SUBSET Nat, T # {}
    PROVE  \E x \in T : \A y \in T : x <= y
  <1> DEFINE R == OpToRel(<, Nat)
  <1>1. IsWellFoundedOn(R, Nat)
    BY NatLessThanWellFounded, Zenon
  <1>2. \A y, z \in Nat : y < z => <<y, z>> \in R
    BY DEF OpToRel
  <1> HIDE DEF R
  <1>3. PICK x \in T : \A y \in T : ~(<<y, x>> \in R)
    BY <1>1, WFMin
  <1>4. \A y \in T : ~(y < x) /\ x \in Nat /\ y \in Nat
    BY <1>2, <1>3
  <1> QED
    BY <1>4

\* Less is a strict total order of the ids.
LEMMA LessIsOrder ==
    /\ \A a, b \in Id : Less(a, b) \/ a = b \/ Less(b, a)
    /\ \A a, b \in Id : Less(a, b) => ~Less(b, a) /\ a # b
    /\ \A a, b, c \in Id : Less(a, b) /\ Less(b, c) => Less(a, c)
  BY IdsArePairs DEF Less

LEMMA LeastId ==
    ASSUME NEW T \in SUBSET Id, T # {}
    PROVE  \E m \in T : \A x \in T : x = m \/ Less(m, x)
  <1> DEFINE Times == {m[1] : m \in T}
  <1>1. Times \in SUBSET Nat /\ Times # {}
    BY IdsArePairs
  <1>2. PICK k \in Times : \A y \in Times : k <= y
    BY <1>1, LeastNumber
  <1> DEFINE Numbers == {m[2] : m \in {x \in T : x[1] = k}}
  <1>3. Numbers \in SUBSET Nat /\ Numbers # {}
    BY <1>2, IdsArePairs
  <1>4. PICK l \in Numbers : \A y \in Numbers : l <= y
    BY <1>3, LeastNumber
  <1>5. PICK m \in T : m[1] = k /\ m[2] = l
    BY <1>4
  <1>6. ASSUME NEW x \in T PROVE x = m \/ Less(m, x)
    <2>1. m[1] <= x[1] /\ (x[1] = m[1] => m[2] <= x[2])
      BY <1>2, <1>4, <1>5
    <2>2. x \in Id /\ m \in Id
      OBVIOUS
    <2> QED
      BY <2>1, <2>2, IdsArePairs DEF Less
  <1> QED
    BY <1>6

LEMMA GreatestId ==
    ASSUME NEW T \in SUBSET Id, T # {}
    PROVE  Greatest(T) \in T /\ \A x \in T : x = Greatest(T) \/ Less(x, Greatest(T))
  <1> DEFINE Times == {MaxMs - m[1] : m \in T}
  <1>0. \A m \in Id : MaxMs - m[1] \in Nat /\ MaxSeq - m[2] \in Nat
    BY IdsArePairs, StreamBounds
  <1>1. Times \in SUBSET Nat /\ Times # {}
    BY <1>0
  <1>2. PICK k \in T : \A y \in Times : MaxMs - k[1] <= y
    BY <1>1, LeastNumber
  <1>3. \A x \in T : x[1] <= k[1]
    BY <1>2, IdsArePairs, StreamBounds
  <1> DEFINE Numbers == {MaxSeq - m[2] : m \in {x \in T : x[1] = k[1]}}
  <1>4. Numbers \in SUBSET Nat /\ Numbers # {}
    BY <1>0
  <1>5. PICK m \in T : m[1] = k[1] /\ \A y \in Numbers : MaxSeq - m[2] <= y
    BY <1>4, LeastNumber
  <1>6. ASSUME NEW x \in T PROVE x = m \/ Less(x, m)
    <2>1. x[1] <= m[1] /\ (x[1] = m[1] => MaxSeq - m[2] <= MaxSeq - x[2])
      BY <1>3, <1>5
    <2>2. x \in Id /\ m \in Id
      OBVIOUS
    <2> QED
      BY <2>1, <2>2, IdsArePairs, StreamBounds DEF Less
  <1>7. \E g \in T : \A x \in T : x = g \/ Less(x, g)
    BY <1>6
  <1> QED
    BY <1>7 DEF Greatest

\* A set of ids is finite.
LEMMA IdsAreFinite ==
    ASSUME NEW T \in SUBSET Id
    PROVE  IsFiniteSet(T)
  <1>1. IsFiniteSet(0..MaxMs) /\ IsFiniteSet(0..MaxSeq)
    BY StreamBounds, FS_Interval
  <1>2. IsFiniteSet(Id)
    BY <1>1, FS_Product DEF Id
  <1> QED
    BY <1>2, FS_Subset

\* For a stream, a COUNT and an id of any kind: an XREAD passes over no
\* message, neither within what it returns nor by returning nothing.
THEOREM ReadsPassOverNothing == Spec => []ReadsHaveNoHoles
  <1>1. TypeOK => ReadsHaveNoHoles
    <2> SUFFICES ASSUME TypeOK, NEW from \in messages \cup {Zero},
                        NEW n \in 1..MaxCount
                 PROVE  LET read == XRead(from, n) IN
                          /\ read # {} => read = XRange(from, Greatest(read)) \ {from}
                          /\ read = {} => \A m \in messages : ~Less(from, m)
      BY DEF ReadsHaveNoHoles
    <2> DEFINE read == XRead(from, n)
               Between(m) == {x \in messages : Less(from, x) /\ Less(x, m)}
    <2>1. messages \subseteq Id /\ from \in Id /\ read \subseteq messages
      BY StreamBounds DEF TypeOK, Zero, Id, XRead
    <2>2. \A m \in messages : m \in read <=> Less(from, m) /\ Cardinality(Between(m)) < n
      BY DEF XRead
    <2>3. \A m \in messages : IsFiniteSet(Between(m)) /\ Cardinality(Between(m)) \in Nat
      BY <2>1, IdsAreFinite, FS_CardinalityType
    <2>4. ASSUME read # {} PROVE read = XRange(from, Greatest(read)) \ {from}
      <3> DEFINE g == Greatest(read)
      <3>1. g \in read /\ \A x \in read : x = g \/ Less(x, g)
        BY <2>1, <2>4, GreatestId
      <3>2. ASSUME NEW m \in read PROVE m \in XRange(from, g) \ {from}
        <4>1. Less(from, m) /\ (m = g \/ Less(m, g)) /\ m \in Id /\ g \in Id
          BY <2>1, <2>2, <3>1
        <4> QED
          BY <2>1, <4>1, LessIsOrder DEF XRange
      <3>3. ASSUME NEW m \in XRange(from, g) \ {from} PROVE m \in read
        <4>1. m \in messages /\ ~Less(m, from) /\ ~Less(g, m) /\ m # from
          BY DEF XRange
        <4>2. Less(from, m) /\ (m = g \/ Less(m, g))
          BY <2>1, <3>1, <4>1, LessIsOrder
        <4>3. Between(m) \subseteq Between(g)
          BY <2>1, <3>1, <4>1, <4>2, LessIsOrder
        <4>4. Cardinality(Between(m)) <= Cardinality(Between(g))
          BY <2>1, <2>3, <3>1, <4>3, FS_Subset
        <4>5. Cardinality(Between(g)) < n
          BY <2>1, <2>2, <3>1
        <4>6. Cardinality(Between(m)) < n
          BY <2>1, <2>3, <3>1, <4>1, <4>4, <4>5
        <4> QED
          BY <2>2, <4>1, <4>2, <4>6
      <3> QED
        BY <3>2, <3>3
    <2>5. ASSUME read = {} PROVE \A m \in messages : ~Less(from, m)
      <3> DEFINE After == {m \in messages : Less(from, m)}
      <3> SUFFICES ASSUME After # {} PROVE FALSE
        OBVIOUS
      <3>1. PICK m \in After : \A x \in After : x = m \/ Less(m, x)
        BY <2>1, LeastId
      <3>2. Between(m) = {}
        BY <2>1, <3>1, LessIsOrder
      <3>3. Cardinality(Between(m)) = 0
        BY <3>2, FS_EmptySet
      <3> QED
        BY <2>2, <2>5, <3>1, <3>3
    <2> QED
      BY <2>4, <2>5
  <1> QED
    BY <1>1, StreamTypes, PTL

-----------------------------------------------------------------------------
\* The groups.

GroupOf(s) == group[s] \in groups

\* An XREADGROUP: its messages are in the stream, and pending if done.
Delivered(s) ==
    op[s] = "read" =>
        /\ todo[s] \subseteq got[s] /\ got[s] \subseteq messages
        /\ \A m \in got[s] \ (touched[s] \cup todo[s]) :
              pending[group[s]][m] # None

\* What an XACK has still to do, no XREADGROUP of the group counts as
\* delivered, ...
Touched(s, t) ==
    op[s] = "read" /\ op[t] = "ack" /\ group[s] = group[t]
        => todo[t] \cap got[s] \subseteq touched[s]

\* ... nor is it among the unacknowledged messages.
Released(t) == op[t] = "ack" => todo[t] \cap unacked[group[t]] = {}

GroupsIInv ==
    /\ TypeOK /\ GroupsTypeOK /\ UnackedIsPending
    /\ \A s \in Session : op[s] # "idle" => GroupOf(s)
    /\ \A s \in Session : Delivered(s) /\ Released(s)
    /\ \A s, t \in Session : Touched(s, t)

\* Every step is one of the stream, or leaves it alone.
LEMMA StepsOfTheStream == GroupsNext => [Next]_vars
  BY DEF GroupsNext, StreamStep, XGroupCreate, Consume, XReadGroupBegin,
         AddPending, XReadGroupEnd, XAckBegin, Ack, XAckEnd, EndSession,
         DropGroups, RestartGroups, Next

LEMMA InitGroups == GroupsInit => GroupsIInv
  <1> SUFFICES ASSUME GroupsInit PROVE GroupsIInv
    OBVIOUS
  <1>1. TypeOK
    BY InitInv DEF GroupsInit, IInv
  <1>2. group \in [Session -> Group]
    BY SomeGroup DEF GroupsInit
  <1>3. GroupsTypeOK
    BY <1>2 DEF GroupsInit, GroupsTypeOK, NoPending, NoneUnacked
  <1>4. UnackedIsPending
    BY DEF GroupsInit, UnackedIsPending, XPending, NoPending, NoneUnacked
  <1> QED
    BY <1>1, <1>3, <1>4
       DEF GroupsInit, GroupsIInv, Delivered, Released, Touched

\* The messages of the stream only become more, while groups last.
LEMMA StreamStepMessages ==
    ASSUME StreamStep \/ (\E g \in Group, mk, ok \in BOOLEAN :
                             XGroupCreate(g, mk, ok))
    PROVE  messages \subseteq messages'
  BY DEF StreamStep, XGroupCreate, Tick, Save, Add, XAddBegin, XAddNumber,
         XAddInsert, XAddLost, MakeStream, streamVars, vars

LEMMA NextGroupsTypeOK ==
    ASSUME TypeOK, GroupsTypeOK, [GroupsNext]_allVars
    PROVE  GroupsTypeOK'
  <1> USE NoneIsNoSession DEF groupVars, sessionVars
  <1>i. NoPending \in [Group -> [Id -> Session \cup {None}]]
        /\ NoneUnacked \in [Group -> SUBSET Id]
    BY DEF NoPending, NoneUnacked
  <1>1. CASE StreamStep
    <2>1. UNCHANGED <<groupVars, sessionVars, unacked>>
      BY <1>1 DEF StreamStep
    <2>2. ~exists' => groups' = {}
      <3>1. exists = exists' \/ exists'
        BY <1>1 DEF StreamStep, Tick, Save, Add, XAddBegin, XAddNumber,
           XAddInsert, XAddLost, streamVars
      <3> QED
        BY <2>1, <3>1, Zenon DEF GroupsTypeOK
    <2> QED
      BY <2>1, <2>2 DEF GroupsTypeOK
  <1>2. ASSUME NEW g \in Group, NEW mk \in BOOLEAN, NEW ok \in BOOLEAN,
               XGroupCreate(g, mk, ok)
        PROVE  GroupsTypeOK'
    <2>1. exists'
      <3>1. ASSUME exists, UNCHANGED vars PROVE exists'
        <4>1. exists' = exists
          BY <3>1 DEF vars, streamVars
        <4> QED
          BY <3>1, <4>1, Zenon
      <3>2. ASSUME MakeStream PROVE exists'
        BY <3>2, Zenon DEF MakeStream
      <3> QED
        BY <1>2, <3>1, <3>2, Zenon DEF XGroupCreate
    <2>2. groups' \subseteq Group
      BY <1>2 DEF XGroupCreate, GroupsTypeOK
    <2> QED
      BY <1>2, <2>1, <2>2 DEF XGroupCreate, GroupsTypeOK
  <1>3. ASSUME NEW s \in Session, Consume(s) PROVE GroupsTypeOK'
    <2>1. groups' = groups /\ exists' = exists
      BY <1>3, Zenon DEF Consume, XReadGroupBegin, XAckBegin, AddPending, Ack,
         XReadGroupEnd, XAckEnd, EndSession, vars, streamVars
    <2>2. ~exists' => groups' = {}
      BY <2>1, Zenon DEF GroupsTypeOK
    <2>3. ASSUME NEW g \in Group, NEW from, NEW n, XReadGroupBegin(s, g, from, n)
          PROVE  GroupsTypeOK'
      <3>1. XRead(from, n) \subseteq Id
        BY DEF XRead, TypeOK
      <3> QED
        BY <2>2, <2>3, <3>1 DEF GroupsTypeOK, XReadGroupBegin
    <2>4. ASSUME NEW g \in Group, NEW ids \in SUBSET messages,
                 XAckBegin(s, g, ids)
          PROVE  GroupsTypeOK'
      <3>1. ids \subseteq Id
        BY DEF TypeOK
      <3> QED
        BY <2>2, <2>4, <3>1 DEF GroupsTypeOK, XAckBegin
    <2>5. ASSUME NEW m \in todo[s], AddPending(s, m) \/ Ack(s, m)
          PROVE  GroupsTypeOK'
      <3>1. pending' \in [Group -> [Id -> Session \cup {None}]]
        <4>1. /\ group[s] \in Group /\ m \in Id
              /\ pending[group[s]] \in [Id -> Session \cup {None}]
          BY <2>5 DEF GroupsTypeOK
        <4>2. PICK v \in Session \cup {None} :
                pending' = [pending EXCEPT ![group[s]] =
                              [pending[group[s]] EXCEPT ![m] = v]]
          BY <2>5 DEF AddPending, Ack
        <4> QED
          BY <4>1, <4>2 DEF GroupsTypeOK
      <3>2. todo' \in [Session -> SUBSET Id]
        BY <2>5 DEF GroupsTypeOK, AddPending, Ack
      <3> QED
        BY <2>2, <2>5, <3>1, <3>2 DEF GroupsTypeOK, AddPending, Ack
    <2>6. CASE XReadGroupEnd(s) \/ XAckEnd(s)
      <3>1. unacked' \in [Group -> SUBSET Id]
        BY <2>6 DEF GroupsTypeOK, XReadGroupEnd, XAckEnd
      <3> QED
        BY <2>2, <2>6, <3>1 DEF GroupsTypeOK, XReadGroupEnd, XAckEnd, EndSession
    <2> QED
      BY <1>3, <2>3, <2>4, <2>5, <2>6 DEF Consume
  <1>4. CASE DropGroups \/ RestartGroups
    BY <1>4, <1>i DEF GroupsTypeOK, DropGroups, RestartGroups, SessionsIdle
  <1>5. CASE UNCHANGED allVars
    <2>1. ~exists' => groups' = {}
      BY <1>5, Zenon DEF allVars, vars, streamVars, GroupsTypeOK
    <2> QED
      BY <1>5, <2>1 DEF allVars, GroupsTypeOK
  <1> QED
    BY <1>1, <1>2, <1>3, <1>4, <1>5 DEF GroupsNext

\* XREADGROUP takes its messages; an XACK at work may touch some of them.
LEMMA XReadGroupBeginInv ==
    ASSUME GroupsIInv, TypeOK', GroupsTypeOK', NEW s \in Session,
           NEW g \in Group, NEW from, NEW n, XReadGroupBegin(s, g, from, n)
    PROVE  GroupsIInv'
  <1>1. /\ op[s] = "idle" /\ g \in groups
        /\ op' = [op EXCEPT ![s] = "read"]
        /\ group' = [group EXCEPT ![s] = g]
        /\ todo' = [todo EXCEPT ![s] = XRead(from, n)]
        /\ got' = [got EXCEPT ![s] = XRead(from, n)]
        /\ touched' = [touched EXCEPT ![s] = XRead(from, n) \cap BeingAcked(g)]
        /\ messages' = messages /\ groups' = groups /\ pending' = pending
        /\ unacked' = unacked
    BY DEF XReadGroupBegin, vars, streamVars, groupVars
  <1>2. XRead(from, n) \subseteq messages
    BY DEF XRead
  <1>t. /\ op \in [Session -> {"idle", "read", "ack"}]
        /\ group \in [Session -> Group]
        /\ todo \in [Session -> SUBSET Id] /\ got \in [Session -> SUBSET Id]
        /\ touched \in [Session -> SUBSET Id]
    BY DEF GroupsIInv, GroupsTypeOK
  <1>3. UnackedIsPending'
    BY <1>1 DEF GroupsIInv, UnackedIsPending, XPending
  <1>4. ASSUME NEW t \in Session
        PROVE  /\ op'[t] # "idle" => GroupOf(t)'
               /\ Delivered(t)' /\ Released(t)'
    BY <1>1, <1>2, <1>t DEF GroupsIInv, GroupOf, Delivered, Released
  <1>5. ASSUME NEW t \in Session, NEW u \in Session PROVE Touched(t, u)'
    <2>1. CASE t = s
      <3>1. op'[u] = "ack" /\ group'[t] = group'[u]
               => todo'[u] \subseteq BeingAcked(g)
        BY <1>1, <1>t, <2>1 DEF BeingAcked
      <3> QED
        BY <1>1, <1>t, <2>1, <3>1 DEF Touched
    <2>2. CASE t # s
      BY <1>1, <1>t, <2>2 DEF GroupsIInv, Touched
    <2> QED
      BY <2>1, <2>2
  <1> QED
    BY <1>3, <1>4, <1>5 DEF GroupsIInv

\* XACK: nobody counts on its messages from now on.
LEMMA XAckBeginInv ==
    ASSUME GroupsIInv, TypeOK', GroupsTypeOK', NEW s \in Session,
           NEW g \in Group, NEW ids, XAckBegin(s, g, ids)
    PROVE  GroupsIInv'
  <1>1. /\ op[s] = "idle" /\ g \in groups
        /\ op' = [op EXCEPT ![s] = "ack"]
        /\ group' = [group EXCEPT ![s] = g]
        /\ todo' = [todo EXCEPT ![s] = ids]
        /\ touched' = [t \in Session |-> IF op[t] = "read" /\ group[t] = g
                                         THEN touched[t] \cup (got[t] \cap ids)
                                         ELSE touched[t]]
        /\ unacked' = [unacked EXCEPT ![g] = @ \ ids]
        /\ messages' = messages /\ groups' = groups /\ pending' = pending
        /\ got' = got
    BY DEF XAckBegin, vars, streamVars, groupVars
  <1>t. /\ op \in [Session -> {"idle", "read", "ack"}]
        /\ group \in [Session -> Group]
        /\ todo \in [Session -> SUBSET Id] /\ got \in [Session -> SUBSET Id]
        /\ touched \in [Session -> SUBSET Id]
        /\ unacked \in [Group -> SUBSET Id]
    BY DEF GroupsIInv, GroupsTypeOK
  <1>3. UnackedIsPending'
    BY <1>1, <1>t DEF GroupsIInv, UnackedIsPending, XPending
  <1>4. ASSUME NEW t \in Session
        PROVE  /\ op'[t] # "idle" => GroupOf(t)'
               /\ Delivered(t)' /\ Released(t)'
    <2>1. CASE t = s
      BY <1>1, <1>t, <2>1 DEF GroupOf, Delivered, Released
    <2>2. CASE t # s
      <3>1. /\ op[t] # "idle" => GroupOf(t)
            /\ Delivered(t) /\ Released(t)
        BY DEF GroupsIInv
      <3>2. /\ op'[t] = op[t] /\ group'[t] = group[t] /\ todo'[t] = todo[t]
            /\ touched[t] \subseteq touched'[t]
            /\ \A h \in Group : unacked'[h] \subseteq unacked[h]
        BY <1>1, <1>t, <2>2
      <3> QED
        BY <1>1, <1>t, <3>1, <3>2 DEF GroupOf, Delivered, Released
    <2> QED
      BY <2>1, <2>2
  <1>5. ASSUME NEW t \in Session, NEW u \in Session PROVE Touched(t, u)'
    BY <1>1, <1>t DEF GroupsIInv, Touched
  <1> QED
    BY <1>3, <1>4, <1>5 DEF GroupsIInv

\* One message of an XREADGROUP becomes pending.
LEMMA AddPendingInv ==
    ASSUME GroupsIInv, TypeOK', GroupsTypeOK', NEW s \in Session,
           NEW m \in todo[s], AddPending(s, m)
    PROVE  GroupsIInv'
  <1>1. /\ op[s] = "read" /\ op' = op /\ group' = group
        /\ pending' = [pending EXCEPT ![group[s]][m] = s]
        /\ todo' = [todo EXCEPT ![s] = @ \ {m}]
        /\ messages' = messages /\ groups' = groups /\ unacked' = unacked
        /\ got' = got /\ touched' = touched
    BY DEF AddPending, vars, streamVars
  <1>t. /\ op \in [Session -> {"idle", "read", "ack"}]
        /\ group \in [Session -> Group]
        /\ todo \in [Session -> SUBSET Id] /\ got \in [Session -> SUBSET Id]
        /\ touched \in [Session -> SUBSET Id]
        /\ pending \in [Group -> [Id -> Session \cup {None}]]
    BY DEF GroupsIInv, GroupsTypeOK
  <1>2. m \in messages /\ m \in Id /\ group[s] \in Group
    BY <1>1, <1>t DEF GroupsIInv, Delivered
  <1>3. \A h \in Group, x \in Id :
           /\ pending[h][x] # None => pending'[h][x] # None
           /\ pending'[h][x] # None => pending[h][x] # None \/ x = m
           /\ h = group[s] /\ x = m => pending'[h][x] # None
    BY <1>1, <1>t, <1>2, NoneIsNoSession
  <1>4. UnackedIsPending'
    BY <1>1, <1>2, <1>3 DEF GroupsIInv, UnackedIsPending, XPending
  <1>5. ASSUME NEW t \in Session
        PROVE  /\ op'[t] # "idle" => GroupOf(t)'
               /\ Delivered(t)' /\ Released(t)'
    <2>1. /\ op[t] # "idle" => GroupOf(t)
          /\ Delivered(t) /\ Released(t)
      BY DEF GroupsIInv
    <2>2. todo'[t] \subseteq todo[t] /\ (t # s => todo'[t] = todo[t])
          /\ (t = s => todo'[t] = todo[t] \ {m})
      BY <1>1, <1>t
    <2>3. Delivered(t)'
      BY <1>1, <1>t, <1>3, <2>1, <2>2 DEF Delivered
    <2> QED
      BY <1>1, <2>1, <2>2, <2>3 DEF GroupOf, Released
  <1>6. ASSUME NEW t \in Session, NEW u \in Session PROVE Touched(t, u)'
    BY <1>1, <1>t DEF GroupsIInv, Touched
  <1> QED
    BY <1>4, <1>5, <1>6 DEF GroupsIInv

\* One message of an XACK is no longer pending.
LEMMA AckInv ==
    ASSUME GroupsIInv, TypeOK', GroupsTypeOK', NEW s \in Session,
           NEW m \in todo[s], Ack(s, m)
    PROVE  GroupsIInv'
  <1>1. /\ op[s] = "ack" /\ op' = op /\ group' = group
        /\ pending' = [pending EXCEPT ![group[s]][m] = None]
        /\ todo' = [todo EXCEPT ![s] = @ \ {m}]
        /\ messages' = messages /\ groups' = groups /\ unacked' = unacked
        /\ got' = got /\ touched' = touched
    BY DEF Ack, vars, streamVars
  <1>t. /\ op \in [Session -> {"idle", "read", "ack"}]
        /\ group \in [Session -> Group]
        /\ todo \in [Session -> SUBSET Id] /\ got \in [Session -> SUBSET Id]
        /\ touched \in [Session -> SUBSET Id]
        /\ pending \in [Group -> [Id -> Session \cup {None}]]
        /\ unacked \in [Group -> SUBSET Id]
    BY DEF GroupsIInv, GroupsTypeOK
  <1>2. m \in Id /\ group[s] \in Group
    BY <1>t
  <1>3. \A h \in Group, x \in Id :
           /\ pending'[h][x] # None => pending[h][x] # None
           /\ ~(h = group[s] /\ x = m) => pending'[h][x] = pending[h][x]
    BY <1>1, <1>t, <1>2
  <1>4. m \notin unacked[group[s]]
    BY <1>1 DEF GroupsIInv, Released
  <1>5. UnackedIsPending'
    BY <1>1, <1>t, <1>3, <1>4 DEF GroupsIInv, UnackedIsPending, XPending
  <1>6. ASSUME NEW t \in Session
        PROVE  /\ op'[t] # "idle" => GroupOf(t)'
               /\ Delivered(t)' /\ Released(t)'
    <2>1. /\ op[t] # "idle" => GroupOf(t)
          /\ Delivered(t) /\ Released(t) /\ Touched(t, s)
      BY DEF GroupsIInv
    <2>2. todo'[t] \subseteq todo[t] /\ (op[t] = "read" => todo'[t] = todo[t])
      BY <1>1, <1>t
    <2>3. Delivered(t)'
      <3> SUFFICES ASSUME op[t] = "read"
                   PROVE  /\ todo'[t] \subseteq got[t] /\ got[t] \subseteq messages
                          /\ \A x \in got[t] \ (touched[t] \cup todo'[t]) :
                                pending'[group[t]][x] # None
        BY <1>1 DEF Delivered
      <3>1. \A x \in got[t] \ touched[t] : ~(group[t] = group[s] /\ x = m)
        BY <1>1, <2>1 DEF Touched
      <3> QED
        BY <1>1, <1>t, <1>3, <2>1, <2>2, <3>1 DEF Delivered
    <2> QED
      BY <1>1, <2>1, <2>2, <2>3 DEF GroupOf, Released
  <1>7. ASSUME NEW t \in Session, NEW u \in Session PROVE Touched(t, u)'
    BY <1>1, <1>t DEF GroupsIInv, Touched
  <1> QED
    BY <1>5, <1>6, <1>7 DEF GroupsIInv

\* The end of an XREADGROUP, whose messages now wait for an XACK, or of an
\* XACK.
LEMMA EndInv ==
    ASSUME GroupsIInv, TypeOK', GroupsTypeOK', NEW s \in Session,
           XReadGroupEnd(s) \/ XAckEnd(s)
    PROVE  GroupsIInv'
  <1>1. /\ op' = [op EXCEPT ![s] = "idle"] /\ group' = group
        /\ todo' = [todo EXCEPT ![s] = {}] /\ got' = [got EXCEPT ![s] = {}]
        /\ touched' = [touched EXCEPT ![s] = {}]
        /\ messages' = messages /\ groups' = groups /\ pending' = pending
        /\ \/ unacked' = unacked
           \/ /\ op[s] = "read" /\ todo[s] = {}
              /\ unacked' = [unacked EXCEPT ![group[s]] =
                                @ \cup (got[s] \ touched[s])]
    BY DEF XReadGroupEnd, XAckEnd, EndSession, vars, streamVars, groupVars
  <1>t. /\ op \in [Session -> {"idle", "read", "ack"}]
        /\ group \in [Session -> Group]
        /\ todo \in [Session -> SUBSET Id] /\ got \in [Session -> SUBSET Id]
        /\ touched \in [Session -> SUBSET Id]
        /\ unacked \in [Group -> SUBSET Id]
    BY DEF GroupsIInv, GroupsTypeOK
  <1>2. \A g \in Group : \A m \in unacked'[g] :
           \/ m \in unacked[g]
           \/ /\ op[s] = "read" /\ todo[s] = {} /\ g = group[s]
              /\ m \in got[s] \ touched[s]
    BY <1>1, <1>t
  <1>3. Delivered(s) /\ (op[s] # "idle" => GroupOf(s))
    BY DEF GroupsIInv
  <1>4. UnackedIsPending'
    BY <1>1, <1>t, <1>2, <1>3
       DEF GroupsIInv, UnackedIsPending, XPending, Delivered, GroupOf
  <1>5. ASSUME NEW t \in Session
        PROVE  /\ op'[t] # "idle" => GroupOf(t)'
               /\ Delivered(t)' /\ Released(t)'
    <2>1. /\ op[t] # "idle" => GroupOf(t)
          /\ Delivered(t) /\ Released(t) /\ Touched(s, t)
      BY DEF GroupsIInv
    <2>2. Released(t)'
      BY <1>1, <1>t, <1>2, <2>1 DEF Released, Touched
    <2> QED
      BY <1>1, <1>t, <2>1, <2>2 DEF GroupOf, Delivered
  <1>6. ASSUME NEW t \in Session, NEW u \in Session PROVE Touched(t, u)'
    BY <1>1, <1>t DEF GroupsIInv, Touched
  <1> QED
    BY <1>4, <1>5, <1>6 DEF GroupsIInv

\* Messages come in, groups are made: nothing else changes.
LEMMA StreamStepInv ==
    ASSUME GroupsIInv, TypeOK', GroupsTypeOK',
           StreamStep \/ (\E g \in Group, mk, ok \in BOOLEAN :
                             XGroupCreate(g, mk, ok))
    PROVE  GroupsIInv'
  <1>1. /\ UNCHANGED <<pending, op, group, todo, got, touched, unacked>>
        /\ groups \subseteq groups' /\ messages \subseteq messages'
    BY StreamStepMessages DEF StreamStep, XGroupCreate, groupVars, sessionVars
  <1> QED
    BY <1>1 DEF GroupsIInv, UnackedIsPending, XPending, GroupOf, Delivered,
                Released, Touched

\* The stream goes, or the server: so do its groups, and who works on them.
LEMMA LossInv ==
    ASSUME GroupsIInv, TypeOK', GroupsTypeOK', DropGroups \/ RestartGroups
    PROVE  GroupsIInv'
  <1>1. /\ pending' = NoPending /\ unacked' = NoneUnacked /\ SessionsIdle
    BY DEF DropGroups, RestartGroups
  <1>2. UnackedIsPending'
    BY <1>1 DEF UnackedIsPending, XPending, NoPending, NoneUnacked
  <1> QED
    BY <1>1, <1>2
       DEF GroupsIInv, SessionsIdle, GroupOf, Delivered, Released, Touched

LEMMA NextGroupsInv == ASSUME GroupsIInv, [GroupsNext]_allVars PROVE GroupsIInv'
  <1>1. TypeOK' /\ GroupsTypeOK'
    <2>1. [Next]_vars
      BY StepsOfTheStream DEF allVars
    <2> QED
      BY <2>1, NextTypeOK, NextGroupsTypeOK DEF GroupsIInv
  <1>2. ASSUME NEW s \in Session, Consume(s) PROVE GroupsIInv'
    BY <1>1, <1>2, XReadGroupBeginInv, XAckBeginInv, AddPendingInv, AckInv,
       EndInv DEF Consume
  <1>3. CASE UNCHANGED allVars
    BY <1>1, <1>3
       DEF allVars, vars, streamVars, groupVars, sessionVars, GroupsIInv,
           UnackedIsPending, XPending, GroupOf, Delivered, Released, Touched
  <1> QED
    BY <1>1, <1>2, <1>3, StreamStepInv, LossInv DEF GroupsNext

-----------------------------------------------------------------------------
\* A stream with its consumer groups is a stream as in module Stream: what is
\* proved of it, the order of its ids among it, holds here too.
THEOREM GroupsImplementStream == GroupsSpec => Spec
  <1>1. GroupsInit => Init
    BY DEF GroupsInit
  <1>2. [GroupsNext]_allVars => [Next]_vars
    BY StepsOfTheStream DEF allVars
  <1> QED
    BY <1>1, <1>2, PTL DEF GroupsSpec, Spec

\* Groups, their pending lists and the sessions at work are what they are
\* declared to be, and there are no groups without a stream.
THEOREM GroupsTypes == GroupsSpec => []GroupsTypeOK
  <1>1. GroupsInit => GroupsIInv
    BY InitGroups
  <1>2. GroupsIInv /\ [GroupsNext]_allVars => GroupsIInv'
    BY NextGroupsInv
  <1>3. GroupsIInv => GroupsTypeOK
    BY DEF GroupsIInv
  <1> QED
    BY <1>1, <1>2, <1>3, PTL DEF GroupsSpec

\* For any number of consumers: what was delivered in a group and nobody has
\* acknowledged since is pending there, and pending is nothing but messages.
THEOREM UnackedStaysPending == GroupsSpec => []UnackedIsPending
  <1>1. GroupsInit => GroupsIInv
    BY InitGroups
  <1>2. GroupsIInv /\ [GroupsNext]_allVars => GroupsIInv'
    BY NextGroupsInv
  <1>3. GroupsIInv => UnackedIsPending
    BY DEF GroupsIInv
  <1> QED
    BY <1>1, <1>2, <1>3, PTL DEF GroupsSpec
=============================================================================
