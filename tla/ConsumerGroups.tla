--------------------------- MODULE ConsumerGroups ---------------------------
(***************************************************************************)
(* The consumer groups of a stream: the groups of StreamValue.h,           *)
(* Stream/StreamConsumerGroup.h and the commands XGROUP CREATE, XREADGROUP *)
(* and XACK, over the stream of module Stream.                             *)
(*                                                                         *)
(* XREADGROUP and XACK take the mutex of the group once for each message,  *)
(* so each message is a step, between which the other commands run.        *)
(*                                                                         *)
(* Left out: lastDeliveredId, the set of consumers, the delivery time and  *)
(* the delivery count of an entry, which no command reads back (the count  *)
(* is always 1); the follower, who is in module Stream.                    *)
(***************************************************************************)
EXTENDS Stream

CONSTANTS
    Session,    \* the clients of XREADGROUP and XACK; each is a consumer
    Group,
    None        \* no consumer: the message is not pending

ASSUME NoneIsNoSession == None \notin Session
ASSUME SomeGroup == Group # {}

VARIABLES
    groups,     \* the groups the stream has
    pending,    \* of each: the consumer of every pending message
    op, group,  \* of each session: what it does, in which group
    todo        \* and with which messages still

(* History: the messages of an XREADGROUP under way, and those of them that *)
(* some session was acknowledging meanwhile; per group, the messages       *)
(* delivered that nobody has acknowledged since.                           *)
VARIABLES got, touched, unacked

groupVars == <<groups, pending>>
sessionVars == <<op, group, todo, got, touched>>
allVars == <<vars, groupVars, sessionVars, unacked>>

NoPending == [g \in Group |-> [m \in Id |-> None]]
NoneUnacked == [g \in Group |-> {}]

GroupsTypeOK ==
    /\ groups \subseteq Group
    /\ pending \in [Group -> [Id -> Session \cup {None}]]
    /\ op \in [Session -> {"idle", "read", "ack"}]
    /\ group \in [Session -> Group]
    /\ todo \in [Session -> SUBSET Id]
    /\ got \in [Session -> SUBSET Id] /\ touched \in [Session -> SUBSET Id]
    /\ unacked \in [Group -> SUBSET Id]
    /\ ~exists => groups = {}

GroupsInit ==
    /\ Init
    /\ groups = {} /\ pending = NoPending
    /\ op = [s \in Session |-> "idle"]
    /\ group = [s \in Session |-> CHOOSE g \in Group : TRUE]
    /\ todo = [s \in Session |-> {}]
    /\ got = [s \in Session |-> {}] /\ touched = [s \in Session |-> {}]
    /\ unacked = NoneUnacked
-----------------------------------------------------------------------------
\* XGROUP CREATE key g id [MKSTREAM]; with MKSTREAM the stream is made first,
\* and stays when the id turns out to be malformed.
XGroupCreate(g, mkstream, wellformed) ==
    /\ \/ exists /\ UNCHANGED vars
       \/ mkstream /\ MakeStream
    /\ groups' = IF wellformed THEN groups \cup {g} ELSE groups
    /\ UNCHANGED <<pending, sessionVars, unacked>>

BeingAcked(g) ==
    UNION {todo[t] : t \in {x \in Session : op[x] = "ack" /\ group[x] = g}}

XReadGroupBegin(s, g, from, count) ==
    /\ op[s] = "idle"
    /\ g \in groups
    /\ XRead(from, count) # {}
    /\ op' = [op EXCEPT ![s] = "read"]
    /\ group' = [group EXCEPT ![s] = g]
    /\ todo' = [todo EXCEPT ![s] = XRead(from, count)]
    /\ got' = [got EXCEPT ![s] = XRead(from, count)]
    /\ touched' = [touched EXCEPT ![s] = XRead(from, count) \cap BeingAcked(g)]
    /\ UNCHANGED <<vars, groupVars, unacked>>

\* Mutant of AddPending: one entry for the whole of the answer.
AddPendingLast(s, m) ==
    /\ op[s] = "read"
    /\ m \in todo[s] /\ \A x \in todo[s] : x = m \/ Less(x, m)
    /\ pending' = [pending EXCEPT ![group[s]][m] = s]
    /\ todo' = [todo EXCEPT ![s] = {}]
    /\ UNCHANGED <<vars, groups, op, group, got, touched, unacked>>

\* addPending, in the order of the ids
AddPending(s, m) ==
    /\ op[s] = "read"
    /\ m \in todo[s] /\ \A x \in todo[s] : x = m \/ Less(m, x)
    /\ pending' = [pending EXCEPT ![group[s]][m] = s]
    /\ todo' = [todo EXCEPT ![s] = @ \ {m}]
    /\ UNCHANGED <<vars, groups, op, group, got, touched, unacked>>

EndSession(s) ==
    /\ op' = [op EXCEPT ![s] = "idle"]
    /\ todo' = [todo EXCEPT ![s] = {}]
    /\ got' = [got EXCEPT ![s] = {}] /\ touched' = [touched EXCEPT ![s] = {}]
    /\ UNCHANGED <<vars, groupVars, group>>

XReadGroupEnd(s) ==
    /\ op[s] = "read" /\ todo[s] = {}
    /\ EndSession(s)
    /\ unacked' = [unacked EXCEPT ![group[s]] = @ \cup (got[s] \ touched[s])]

\* XACK key g ids, in whatever order the client names them
XAckBegin(s, g, ids) ==
    /\ op[s] = "idle"
    /\ g \in groups
    /\ op' = [op EXCEPT ![s] = "ack"]
    /\ group' = [group EXCEPT ![s] = g]
    /\ todo' = [todo EXCEPT ![s] = ids]
    /\ touched' = [t \in Session |-> IF op[t] = "read" /\ group[t] = g
                                     THEN touched[t] \cup (got[t] \cap ids)
                                     ELSE touched[t]]
    /\ unacked' = [unacked EXCEPT ![g] = @ \ ids]
    /\ UNCHANGED <<vars, groupVars, got>>

Ack(s, m) ==
    /\ op[s] = "ack"
    /\ m \in todo[s]
    /\ pending' = [pending EXCEPT ![group[s]][m] = None]
    /\ todo' = [todo EXCEPT ![s] = @ \ {m}]
    /\ UNCHANGED <<vars, groups, op, group, got, touched, unacked>>

\* The end, or a malformed id: the ids before it stay acknowledged.
XAckEnd(s) ==
    /\ op[s] = "ack"
    /\ EndSession(s)
    /\ UNCHANGED unacked
-----------------------------------------------------------------------------
SessionsIdle ==
    /\ op' = [s \in Session |-> "idle"]
    /\ todo' = [s \in Session |-> {}]
    /\ got' = [s \in Session |-> {}] /\ touched' = [s \in Session |-> {}]
    /\ UNCHANGED group

\* Sessions at work keep the Record, and so its groups, alive, but what they
\* still do to them is seen by nobody.
DropGroups ==
    /\ Drop
    /\ groups' = {} /\ pending' = NoPending /\ unacked' = NoneUnacked
    /\ SessionsIdle

\* serialize writes no groups: they do not come back.
RestartGroups ==
    /\ Restart
    /\ groups' = {} /\ pending' = NoPending /\ unacked' = NoneUnacked
    /\ SessionsIdle

StreamStep ==
    /\ Tick \/ Save \/ \E p \in Producer : Add(p)
    /\ UNCHANGED <<groupVars, sessionVars, unacked>>

Consume(s) ==
    \/ \E g \in Group :
         \/ \E from \in messages \cup {Zero}, n \in 1..MaxCount :
              XReadGroupBegin(s, g, from, n)
         \/ \E ids \in SUBSET messages \ {{}} : XAckBegin(s, g, ids)
    \/ \E m \in todo[s] : AddPending(s, m) \/ Ack(s, m)
    \/ XReadGroupEnd(s) \/ XAckEnd(s)

GroupsNext ==
    \/ StreamStep
    \/ \E g \in Group, mk \in BOOLEAN, ok \in BOOLEAN : XGroupCreate(g, mk, ok)
    \/ \E s \in Session : Consume(s)
    \/ DropGroups \/ RestartGroups

\* XPENDING key g: it changes nothing.
XPending(g) == {m \in Id : pending[g][m] # None}

GroupsSpec == GroupsInit /\ [][GroupsNext]_allVars
-----------------------------------------------------------------------------
(* Properties                                                              *)

\* What a group delivered in an XREADGROUP that has answered, and nobody has
\* acknowledged since, is pending, and all that is pending is a message of
\* the stream.  XREADGROUP and XACK of several consumers at the same time.
UnackedIsPending ==
    \A g \in Group :
        /\ unacked[g] # {} => g \in groups
        /\ unacked[g] \subseteq XPending(g)
        /\ XPending(g) \subseteq messages
=============================================================================
