------------------------------- MODULE Stream -------------------------------
(***************************************************************************)
(* The messages of one stream: ConcreteValues/StreamValue.h and            *)
(* Stream/StreamMessage.h under the commands XADD, XREAD and XRANGE of     *)
(* Commands/ConcreteCommands/StreamCommands, run by several workers.       *)
(*                                                                         *)
(* XADD is three steps: it finds the stream (or makes one of its own) and  *)
(* reads the clock, takes a number from the counter all streams share, and *)
(* inserts the message.  A read is one step.  A client that follows the    *)
(* stream reads on from the last id it has got.                            *)
(*                                                                         *)
(* Left out: the fields of messages; commands on keys of other types,      *)
(* which answer an error; a SET of the key, which frees the stream under   *)
(* the commands that use it; what concurrent accesses do to the memory of  *)
(* the map of messages, which has no lock.                                 *)
(***************************************************************************)
EXTENDS Naturals, FiniteSets

CONSTANTS
    Producer,   \* the clients of XADD
    MaxMs,      \* bound: milliseconds of the clock
    MaxSeq,     \* bound: numbers taken in one run of the server
    MaxCount    \* bound: COUNT of the reads

ASSUME StreamBounds ==
    MaxMs \in Nat \ {0} /\ MaxSeq \in Nat /\ MaxCount \in Nat

VARIABLES
    clock,      \* steady_clock, in milliseconds since the machine booted
    seq,        \* the static counter of generateMessageId
    exists,     \* the key has a stream
    messages,   \* the ids of its messages
    snapshot,   \* what the last snapshot says of the key
    pc, ms, id, \* of each XADD: where it is, the time it read, its id
    on,         \* the stream it works on: "live", "gone" or "new"
    last,       \* the id the follower reads from
    hung        \* its XREAD waits for ever

(* History: the messages in the stream when an XADD read the clock; those  *)
(* in the stream that the follower's reads have returned.                  *)
VARIABLES began, seen

timeVars == <<clock, seq>>
streamVars == <<exists, messages>>
addVars == <<pc, ms, id, on, began>>
followVars == <<last, hung, seen>>
vars == <<timeVars, streamVars, snapshot, addVars, followVars>>

Id == (0..MaxMs) \X (0..MaxSeq)
Zero == <<0, 0>>
Issued == (1..MaxMs) \X (0..(MaxSeq - 1))

\* operator<, the order of the map of messages
Less(a, b) == a[1] < b[1] \/ (a[1] = b[1] /\ a[2] < b[2])

Stream == [exists : BOOLEAN, messages : SUBSET Id]
NoStream == [exists |-> FALSE, messages |-> {}]

TypeOK ==
    /\ clock \in 1..MaxMs /\ seq \in 0..MaxSeq
    /\ exists \in BOOLEAN /\ messages \subseteq Id
    /\ snapshot \in Stream
    /\ pc \in [Producer -> {"idle", "number", "insert"}]
    /\ ms \in [Producer -> 0..clock]
    /\ id \in [Producer -> Id]
    /\ on \in [Producer -> {"live", "gone", "new"}]
    /\ began \in [Producer -> SUBSET Id]
    /\ last \in Id /\ hung \in BOOLEAN /\ seen \subseteq Id

Init ==
    /\ clock = 1 /\ seq = 0
    /\ exists = FALSE /\ messages = {} /\ snapshot = NoStream
    /\ pc = [p \in Producer |-> "idle"]
    /\ ms = [p \in Producer |-> 0]
    /\ id = [p \in Producer |-> Zero]
    /\ on = [p \in Producer |-> "gone"]
    /\ began = [p \in Producer |-> {}]
    /\ last = Zero /\ hung = FALSE /\ seen = {}
-----------------------------------------------------------------------------
(* XADD                                                                    *)

\* Mutant of Tick: the wall clock, which may be set back.
TickOfTheWallClock ==
    /\ clock' \in {clock - 1, clock + 1} \cap 1..MaxMs
    /\ UNCHANGED <<seq, streamVars, snapshot, addVars, followVars>>

Tick ==
    /\ clock < MaxMs
    /\ clock' = clock + 1
    /\ UNCHANGED <<seq, streamVars, snapshot, addVars, followVars>>

XAddBegin(p) ==
    /\ pc[p] = "idle"
    /\ pc' = [pc EXCEPT ![p] = "number"]
    /\ on' = [on EXCEPT ![p] = IF exists THEN "live" ELSE "new"]
    /\ ms' = [ms EXCEPT ![p] = clock]
    /\ began' = [began EXCEPT ![p] = messages]
    /\ UNCHANGED <<timeVars, streamVars, snapshot, id, followVars>>

\* Mutant of XAddNumber: the counter is read and written in two steps, and
\* another XADD reads it in between.
XAddNumberNotAtomic(p) ==
    /\ pc[p] = "number"
    /\ seq < MaxSeq
    /\ pc' = [pc EXCEPT ![p] = "insert"]
    /\ id' = [id EXCEPT ![p] = <<ms[p], seq>>]
    /\ seq' \in {seq, seq + 1}
    /\ UNCHANGED <<clock, streamVars, snapshot, ms, on, began, followVars>>

XAddNumber(p) ==
    /\ pc[p] = "number"
    /\ seq < MaxSeq
    /\ pc' = [pc EXCEPT ![p] = "insert"]
    /\ id' = [id EXCEPT ![p] = <<ms[p], seq>>]
    /\ seq' = seq + 1
    /\ UNCHANGED <<clock, streamVars, snapshot, ms, on, began, followVars>>

XAddEnd(p) ==
    /\ pc[p] = "insert"
    /\ pc' = [pc EXCEPT ![p] = "idle"]
    /\ id' = [id EXCEPT ![p] = Zero] /\ ms' = [ms EXCEPT ![p] = 0]
    /\ on' = [on EXCEPT ![p] = "gone"]
    /\ began' = [began EXCEPT ![p] = {}]
    /\ UNCHANGED <<timeVars, snapshot, followVars>>

XAddInsert(p) ==
    /\ on[p] = "live" \/ (on[p] = "new" /\ ~exists)
    /\ XAddEnd(p)
    /\ exists' = TRUE
    /\ messages' = messages \cup {id[p]}

\* The stream is no longer in the map: the message goes with it.  Or another
\* XADD has made the stream meanwhile: insertRecord throws.
XAddLost(p) ==
    /\ on[p] = "gone" \/ (on[p] = "new" /\ exists)
    /\ XAddEnd(p)
    /\ UNCHANGED streamVars
-----------------------------------------------------------------------------
(* XREAD and XRANGE                                                        *)

\* Mutants of XRead: the newest messages; those of later milliseconds only.
XReadNewest(from, count) ==
    {m \in messages : /\ Less(from, m)
                      /\ Cardinality({x \in messages : Less(m, x)}) < count}

XReadLater(from, count) ==
    {m \in messages : /\ from[1] < m[1]
                      /\ Cardinality({x \in messages :
                                from[1] < x[1] /\ Less(x, m)}) < count}

XRead(from, count) ==
    {m \in messages : /\ Less(from, m)
                      /\ Cardinality({x \in messages :
                                Less(from, x) /\ Less(x, m)}) < count}

XRange(start, end) == {m \in messages : ~Less(m, start) /\ ~Less(end, m)}

Greatest(ids) == CHOOSE m \in ids : \A x \in ids : x = m \/ Less(x, m)

\* The follower's next XREAD COUNT count STREAMS key last.
Follow(count) ==
    /\ exists /\ ~hung
    /\ \E m \in XRead(last, count) :
          /\ \A x \in XRead(last, count) : ~Less(m, x)
          /\ last' = m
    /\ seen' = seen \cup XRead(last, count)
    /\ UNCHANGED <<timeVars, streamVars, snapshot, addVars, hung>>

\* getRecord takes ttlMutex and passes the gate of the database.  In the
\* deadlocks of modules TTLDatabase and Transactions it never gets them.
FollowerHangs ==
    /\ ~hung
    /\ hung' = TRUE
    /\ UNCHANGED <<timeVars, streamVars, snapshot, addVars, last, seen>>
-----------------------------------------------------------------------------
(* The record goes; the server saves, stops and starts.                    *)

\* XGROUP CREATE ... MKSTREAM makes an empty stream.
MakeStream ==
    /\ ~exists
    /\ exists' = TRUE
    /\ UNCHANGED <<timeVars, messages, snapshot, addVars, followVars>>

\* DEL, eviction or expiry.  An XADD under way keeps the Record alive.
Drop ==
    /\ exists
    /\ exists' = FALSE /\ messages' = {} /\ seen' = {}
    /\ on' = [p \in Producer |-> IF on[p] = "live" THEN "gone" ELSE on[p]]
    /\ UNCHANGED <<timeVars, snapshot, pc, ms, id, began, last, hung>>

Save ==
    /\ snapshot' = [exists |-> exists, messages |-> messages]
    /\ UNCHANGED <<timeVars, streamVars, addVars, followVars>>

\* The process ends and another one loads the snapshot.  That takes longer
\* than a millisecond; the machine stays up, so that the clock goes on.
Restart ==
    /\ clock < MaxMs
    /\ clock' = clock + 1 /\ seq' = 0
    /\ exists' = snapshot.exists /\ messages' = snapshot.messages
    /\ pc' = [p \in Producer |-> "idle"]
    /\ ms' = [p \in Producer |-> 0]
    /\ id' = [p \in Producer |-> Zero]
    /\ on' = [p \in Producer |-> "gone"]
    /\ began' = [p \in Producer |-> {}]
    /\ seen' = seen \cap messages' /\ hung' = FALSE
    /\ UNCHANGED <<snapshot, last>>
-----------------------------------------------------------------------------
Add(p) == XAddBegin(p) \/ XAddNumber(p) \/ XAddInsert(p) \/ XAddLost(p)

Following == \E n \in 1..MaxCount : Follow(n)

Next ==
    \/ Tick
    \/ \E p \in Producer : Add(p)
    \/ Following \/ FollowerHangs
    \/ MakeStream \/ Drop \/ Save \/ Restart

Spec == Init /\ [][Next]_vars

\* The follower asks again and again.  Its XREAD waits for ttlMutex and at
\* the gate, which are held for moments only, or else it hangs.
FairSpec == Spec /\ WF_vars(Following)
-----------------------------------------------------------------------------
(* Properties                                                              *)

\* An XADD whose clock is read when a message is in the stream gets a
\* greater id than that message, also after a restart; and no message takes
\* the place of another one.  generateMessageId and xadd, by many workers.
LaterIdsAreGreater ==
    \A p \in Producer : pc[p] = "insert" =>
        /\ \A m \in began[p] : Less(m, id[p])
        /\ id[p] \notin messages
        /\ \A q \in Producer \ {p} : pc[q] = "insert" => id[p] # id[q]

\* When a message comes into the stream behind the follower, which will then
\* never get it, the last message the follower has got was not in the stream
\* yet when the XADD read the clock.  xadd and xread, by many workers.
OnlyOverlappingAreMissed ==
    [][\A p \in Producer :
         pc[p] = "insert" /\ id[p] \in messages' \ messages =>
             Less(last, id[p]) \/ last \notin began[p]]_vars

\* One XREAD passes over no message: what it returns is all the messages
\* from the id it names to the last one it returns, the XRANGE of the two.
\* upper_bound in xread and lower_bound in xrange.
ReadsHaveNoHoles ==
    \A from \in messages \cup {Zero} : \A n \in 1..MaxCount :
        LET got == XRead(from, n) IN
            /\ got # {} => got = XRange(from, Greatest(got)) \ {from}
            /\ got = {} => \A m \in messages : ~Less(from, m)

\* A message that is in the stream after the id the follower reads from is
\* returned to it by one of its reads, unless the stream loses it first or
\* the follower's XREAD hangs: no message is passed over.  xread, and
\* XREADCommand, with messages that come in between two reads.
MessagesAreReached ==
    \A m \in Issued :
        m \in messages /\ Less(last, m) ~> m \in seen \/ m \notin messages \/ hung
=============================================================================
