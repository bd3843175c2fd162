---------------------------- MODULE TTLDatabase ----------------------------
(***************************************************************************)
(* Expiry: include/Database/Decorators/TTLDatabaseDecorator.h, used by the *)
(* commands GET (and all others that read through getRecord), SET, DEL,    *)
(* EXPIRE and PERSIST, by the queue of EXEC and by the expiration thread.  *)
(*                                                                         *)
(* A call of the database below the decorator is several steps: its gate   *)
(* (the shared lock it takes and drops, not taken by the client whose EXEC *)
(* holds the exclusive lock), its access of the records and, after a write *)
(* or a deletion, the notification of the observers, under _obsMutex.  A   *)
(* section under ttlMutex is one step, except the one of getRecord that    *)
(* calls the database with the mutex held.                                 *)
(*                                                                         *)
(* Of transactions there is what those calls wait for: the observers that  *)
(* WATCH registers, the exclusive lock of EXEC, and clearTransaction,      *)
(* which unregisters the observers with the txMutex of its client held     *)
(* (at "unregister").  The two notifications of an insert are one.         *)
(*                                                                         *)
(* Time is abstract: a deadline is armed, then at some moment it passes.   *)
(* Left out: the values of the records and the TTL fields of Record, which *)
(* nothing reads.                                                          *)
(***************************************************************************)
EXTENDS Integers, FiniteSets

CONSTANTS
    Client,
    TxClient,   \* the clients that use WATCH and transactions
    Key,
    DelKey,     \* the keys clients use DEL on
    WatchedKey, \* the keys clients use WATCH on
    Thread,     \* the expiration thread, as an owner of a lock
    Nobody,     \* owner of a free lock
    MaxPending  \* bound: passed deadlines of a key not yet acted on

ASSUME SubsetsAssumption ==
    TxClient \subseteq Client /\ DelKey \subseteq Key /\ WatchedKey \subseteq Key
ASSUME NobodyAssumption == Nobody \notin Client \cup {Thread} /\ Thread \notin Client
ASSUME BoundAssumption == MaxPending \in Nat

VARIABLES
    records,    \* keys of the database below
    ttlMap,     \* key -> its deadline
    ttlMutex,   \* owner of ttlMutex, while it is held across steps
    dbMutex,    \* the client whose EXEC holds the lock of the database
    obsMutex,   \* owner of _obsMutex, while it notifies
    todo,       \* the observers it still has to reach
    observers,  \* Database::recordDependencies: key -> registered clients
    watched,    \* the watchedRecords of each client, with which it clears
    pc, cmd,    \* where each client's command is, and what it is
    sweep,      \* where the expiration thread is
    expired,    \* the keys it still has to delete
    swept       \* the key, if any, whose deletion it has to announce

(* History: how many deadlines of a key have passed and not removed a      *)
(* record, the keys whose record has outlived its deadline, and the        *)
(* clients whose GET is under way and began when its key was in that state.*)
VARIABLES credit, dead, late

lockVars == <<ttlMutex, dbMutex>>
obsVars == <<obsMutex, todo, observers, watched>>
clientVars == <<pc, cmd>>
sweepVars == <<sweep, expired, swept>>
histVars == <<credit, dead, late>>
vars == <<records, ttlMap, lockVars, obsVars, clientVars, sweepVars, histVars>>

Commands == [op : {"GET", "SET", "EXPIRE", "PERSIST"}, key : Key]
                \cup [op : {"DEL"}, key : DelKey]
NoCommand == [op |-> "none"]
CommandLabels == {"check", "lazyGate", "lazyDelete", "gate", "access",
                  "notify", "notifying", "deadline"}
Labels == CommandLabels \cup {"idle", "watch", "clear", "unregister"}

TypeOK ==
    /\ records \subseteq Key
    /\ ttlMap \in [Key -> {"none", "armed", "passed"}]
    /\ ttlMutex \in Client \cup {Nobody}
    /\ dbMutex \in TxClient \cup {Nobody}
    /\ obsMutex \in Client \cup {Thread, Nobody}
    /\ todo \subseteq TxClient
    /\ observers \in [Key -> SUBSET TxClient]
    /\ watched \in [TxClient -> SUBSET WatchedKey]
    /\ pc \in [Client -> Labels]
    /\ cmd \in [Client -> Commands \cup {NoCommand}]
    /\ \A c \in Client : pc[c] \in CommandLabels => cmd[c] \in Commands
    /\ sweep \in {"sleep", "gate", "delete", "notify", "notifying"}
    /\ expired \subseteq Key /\ swept \subseteq Key
    /\ credit \in [Key -> -1..MaxPending]
    /\ dead \subseteq records
    /\ late \subseteq Client

Init ==
    /\ records = {}
    /\ ttlMap = [k \in Key |-> "none"]
    /\ ttlMutex = Nobody /\ dbMutex = Nobody
    /\ obsMutex = Nobody /\ todo = {}
    /\ observers = [k \in Key |-> {}]
    /\ watched = [c \in TxClient |-> {}]
    /\ pc = [c \in Client |-> "idle"]
    /\ cmd = [c \in Client |-> NoCommand]
    /\ sweep = "sleep" /\ expired = {} /\ swept = {}
    /\ credit = [k \in Key |-> 0]
    /\ dead = {} /\ late = {}

-----------------------------------------------------------------------------
Goto(c, label) == pc' = [pc EXCEPT ![c] = label]

(* A call of the database below takes its gate, except in EXEC.            *)
Call(c, gate, access) == Goto(c, IF dbMutex = c THEN access ELSE gate)

(* The command returns, or an exception ends it: the client gets a reply.  *)
Reply(c) ==
    /\ Goto(c, "idle")
    /\ cmd' = [cmd EXCEPT ![c] = NoCommand]

(* History: the records of ks are gone, or have got a new lease of life.   *)
Revive(ks) ==
    /\ dead' = dead \ ks
    /\ late' = {c \in late : cmd[c] # NoCommand => cmd[c].key \notin ks}

(* History: expiry deletes the record of k, if there is one.               *)
ExpireRecord(k) ==
    /\ records' = records \ {k}
    /\ credit' = [credit EXCEPT ![k] = IF k \in records THEN @ - 1 ELSE @]
    /\ Revive({k})

Begin(c, command) ==
    /\ pc[c] = "idle"
    /\ cmd' = [cmd EXCEPT ![c] = command]
    /\ IF command.op = "GET" THEN Goto(c, "check")
                             ELSE Call(c, "gate", "access")
    /\ late' = IF command.op = "GET" /\ command.key \in dead
               THEN late \cup {c} ELSE late \ {c}
    /\ UNCHANGED <<records, ttlMap, lockVars, obsVars, sweepVars, credit, dead>>

(* Mutant of Check: the deadline is erased, and ttlMutex released, before  *)
(* the database is called, as it would be to rule out the deadlock.        *)
CheckErases(c) ==
    /\ pc[c] = "check"
    /\ ttlMutex = Nobody
    /\ IF ttlMap[cmd[c].key] = "passed"
       THEN /\ ttlMap' = [ttlMap EXCEPT ![cmd[c].key] = "none"]
            /\ Call(c, "lazyGate", "lazyDelete")
       ELSE /\ UNCHANGED ttlMap
            /\ Call(c, "gate", "access")
    /\ UNCHANGED <<records, lockVars, obsVars, cmd, sweepVars, histVars>>

(* Mutant of Check: ttlMutex is not kept for the deletion.                 *)
CheckUnlocked(c) ==
    /\ pc[c] = "check"
    /\ ttlMutex = Nobody
    /\ IF ttlMap[cmd[c].key] = "passed" THEN Call(c, "lazyGate", "lazyDelete")
                                        ELSE Call(c, "gate", "access")
    /\ UNCHANGED <<records, ttlMap, lockVars, obsVars, cmd, sweepVars, histVars>>

(* getRecord looks for a passed deadline; it keeps ttlMutex when it finds  *)
(* one, and calls deleteRecord of the database.                            *)
Check(c) ==
    /\ pc[c] = "check"
    /\ ttlMutex = Nobody
    /\ IF ttlMap[cmd[c].key] = "passed"
       THEN ttlMutex' = c /\ Call(c, "lazyGate", "lazyDelete")
       ELSE UNCHANGED ttlMutex /\ Call(c, "gate", "access")
    /\ UNCHANGED <<records, ttlMap, dbMutex, obsVars, cmd, sweepVars, histVars>>

(* The shared lock of the database, taken and dropped at once.             *)
PassGate(c) ==
    /\ dbMutex = Nobody
    /\ \/ pc[c] = "gate" /\ Goto(c, "access")
       \/ pc[c] = "lazyGate" /\ Goto(c, "lazyDelete")
    /\ UNCHANGED <<records, ttlMap, lockVars, obsVars, cmd, sweepVars, histVars>>

(* Mutant of LazyDelete: the deadline is erased, the record stays.         *)
LazyErase(c) ==
    /\ pc[c] = "lazyDelete"
    /\ ttlMap' = [ttlMap EXCEPT ![cmd[c].key] = "none"]
    /\ ttlMutex' = Nobody
    /\ Reply(c)
    /\ UNCHANGED <<records, dbMutex, obsVars, sweepVars, histVars>>

(* The record has expired: deleteRecord, with ttlMutex held throughout.    *)
(* When it is gone already (the database evicts records on its own),       *)
(* deleteRecord throws and the deadline stays.                             *)
LazyDelete(c) ==
    /\ pc[c] = "lazyDelete"
    /\ ExpireRecord(cmd[c].key)
    /\ IF cmd[c].key \in records
       THEN Goto(c, "notify") /\ UNCHANGED <<cmd, ttlMutex>>
       ELSE Reply(c) /\ ttlMutex' = Nobody
    /\ UNCHANGED <<ttlMap, dbMutex, obsVars, sweepVars>>

Get(c) ==
    /\ pc[c] = "access" /\ cmd[c].op = "GET"
    /\ Reply(c)
    /\ late' = late \ {c}
    /\ UNCHANGED <<records, ttlMap, lockVars, obsVars, sweepVars, credit, dead>>

(* updateRecord.  Inserting a record may evict others (one at a time here),*)
(* which the decorator does not learn of.                                  *)
Set(c) ==
    /\ pc[c] = "access" /\ cmd[c].op = "SET"
    /\ \E evicted \in SUBSET (records \cup {cmd[c].key}) :
          /\ Cardinality(evicted) <= IF cmd[c].key \in records THEN 0 ELSE 1
          /\ records' = (records \cup {cmd[c].key}) \ evicted
          /\ Revive(evicted)
    /\ Goto(c, "notify")
    /\ UNCHANGED <<ttlMap, lockVars, obsVars, cmd, sweepVars, credit>>

(* Mutant of Delete: the reply comes before the deadline is erased.        *)
DeleteReplies(c) ==
    /\ pc[c] = "access" /\ cmd[c].op = "DEL"
    /\ records' = records \ {cmd[c].key}
    /\ Revive({cmd[c].key})
    /\ Goto(c, "notify")
    /\ cmd' = [cmd EXCEPT ![c] = NoCommand]
    /\ UNCHANGED <<ttlMap, lockVars, obsVars, sweepVars, credit>>

(* deleteRecord throws for a missing record; it forgets the deadline after.*)
Delete(c) ==
    /\ pc[c] = "access" /\ cmd[c].op = "DEL"
    /\ \/ /\ cmd[c].key \in records
          /\ records' = records \ {cmd[c].key}
          /\ Revive({cmd[c].key})
          /\ Goto(c, "notify")
          /\ UNCHANGED cmd
       \/ /\ cmd[c].key \notin records
          /\ Reply(c)
          /\ UNCHANGED <<records, dead, late>>
    /\ UNCHANGED <<ttlMap, lockVars, obsVars, sweepVars, credit>>

(* setTTL and removeTTL ask the database below, not getRecord above: a     *)
(* record whose deadline has passed is found like any other.               *)
FindRecord(c) ==
    /\ pc[c] = "access" /\ cmd[c].op \in {"EXPIRE", "PERSIST"}
    /\ IF cmd[c].key \in records THEN Goto(c, "deadline") /\ UNCHANGED cmd
                                 ELSE Reply(c)
    /\ UNCHANGED <<records, ttlMap, lockVars, obsVars, sweepVars, histVars>>

(* The last part of setTTL, removeTTL and deleteRecord, under ttlMutex.    *)
(* The record may be another by now than the one found, or deleted, in the *)
(* first part: it is the one that gets the deadline, or loses its own.     *)
SetDeadline(c) ==
    /\ pc[c] = "deadline"
    /\ ttlMutex = Nobody
    /\ ttlMap' = [ttlMap EXCEPT ![cmd[c].key] =
                      IF cmd[c].op = "EXPIRE" THEN "armed" ELSE "none"]
    /\ Revive({cmd[c].key})
    /\ Reply(c)
    /\ UNCHANGED <<records, lockVars, obsVars, sweepVars, credit>>

-----------------------------------------------------------------------------
(* notifyRecordObservers: _obsMutex, then the observers of the key ...     *)
NotifyBegin(c) ==
    /\ pc[c] = "notify"
    /\ obsMutex = Nobody
    /\ obsMutex' = c
    /\ todo' = observers[cmd[c].key]
    /\ Goto(c, "notifying")
    /\ UNCHANGED <<records, ttlMap, lockVars, observers, watched, cmd,
                   sweepVars, histVars>>

(* ... in any order; onRecordModified needs the txMutex of the observer.   *)
Reach(o) ==
    /\ o \in todo
    /\ pc[o] # "unregister"
    /\ todo' = todo \ {o}
    /\ UNCHANGED <<records, ttlMap, lockVars, obsMutex, observers, watched,
                   clientVars, sweepVars, histVars>>

NotifyOne(c, o) == pc[c] = "notifying" /\ Reach(o)

(* It returns to SET, which replies, to DEL, which has the deadline to     *)
(* erase, or to getRecord, which erases it and throws.                     *)
NotifyEnd(c) ==
    /\ pc[c] = "notifying"
    /\ todo = {}
    /\ obsMutex' = Nobody
    /\ \/ /\ cmd[c].op = "SET"
          /\ Reply(c)
          /\ UNCHANGED <<ttlMap, ttlMutex>>
       \/ /\ cmd[c].op = "DEL"
          /\ Goto(c, "deadline")
          /\ UNCHANGED <<cmd, ttlMap, ttlMutex>>
       \/ /\ cmd[c].op = "GET"
          /\ ttlMap' = [ttlMap EXCEPT ![cmd[c].key] = "none"]
          /\ ttlMutex' = Nobody
          /\ Reply(c)
    /\ UNCHANGED <<records, dbMutex, todo, observers, watched, sweepVars,
                   histVars>>

-----------------------------------------------------------------------------
(* EXEC: lockDatabase, commands one after the other, and the release, at   *)
(* the end of the queue or by an exception, which skips clearTransaction.  *)
LockDatabase(c) ==
    /\ pc[c] = "idle"
    /\ dbMutex = Nobody
    /\ dbMutex' = c
    /\ UNCHANGED <<records, ttlMap, ttlMutex, obsVars, clientVars, sweepVars,
                   histVars>>

UnlockDatabase(c) ==
    /\ pc[c] = "idle"
    /\ dbMutex = c
    /\ dbMutex' = Nobody
    /\ \E label \in {"clear", "idle"} : Goto(c, label)
    /\ UNCHANGED <<records, ttlMap, ttlMutex, obsVars, cmd, sweepVars, histVars>>

(* DISCARD, or an EXEC that finds the transaction dirty.                   *)
Discard(c) ==
    /\ pc[c] = "idle"
    /\ dbMutex # c
    /\ Goto(c, "clear")
    /\ UNCHANGED <<records, ttlMap, lockVars, obsVars, cmd, sweepVars, histVars>>

(* clearTransaction takes the txMutex of its client ...                    *)
ClearBegin(c) ==
    /\ pc[c] = "clear"
    /\ Goto(c, "unregister")
    /\ UNCHANGED <<records, ttlMap, lockVars, obsVars, cmd, sweepVars, histVars>>

(* ... calls unregisterRecordObserver for each watched record ...          *)
Unregister(c, k) ==
    /\ pc[c] = "unregister"
    /\ k \in watched[c]
    /\ obsMutex = Nobody
    /\ observers' = [observers EXCEPT ![k] = @ \ {c}]
    /\ watched' = [watched EXCEPT ![c] = @ \ {k}]
    /\ UNCHANGED <<records, ttlMap, lockVars, obsMutex, todo, clientVars,
                   sweepVars, histVars>>

(* ... and releases txMutex.                                               *)
ClearEnd(c) ==
    /\ pc[c] = "unregister"
    /\ watched[c] = {}
    /\ Goto(c, "idle")
    /\ UNCHANGED <<records, ttlMap, lockVars, obsVars, cmd, sweepVars, histVars>>

(* WATCH clears the context, with the observers left registered ...        *)
WatchBegin(c) ==
    /\ pc[c] = "idle"
    /\ dbMutex # c
    /\ watched' = [watched EXCEPT ![c] = {}]
    /\ Goto(c, "watch")
    /\ UNCHANGED <<records, ttlMap, lockVars, obsMutex, todo, observers, cmd,
                   sweepVars, histVars>>

(* ... and registers its client for one key after the other; that throws   *)
(* for a missing record, already among those watched.                      *)
Register(c, k) ==
    /\ pc[c] = "watch"
    /\ obsMutex = Nobody
    /\ watched' = [watched EXCEPT ![c] = @ \cup {k}]
    /\ IF k \in records
       THEN /\ observers' = [observers EXCEPT ![k] = @ \cup {c}]
            /\ UNCHANGED pc
       ELSE /\ Goto(c, "idle")
            /\ UNCHANGED observers
    /\ UNCHANGED <<records, ttlMap, lockVars, obsMutex, todo, cmd, sweepVars,
                   histVars>>

WatchEnd(c) ==
    /\ pc[c] = "watch"
    /\ Goto(c, "idle")
    /\ UNCHANGED <<records, ttlMap, lockVars, obsVars, cmd, sweepVars, histVars>>

-----------------------------------------------------------------------------
Passed == {k \in Key : ttlMap[k] = "passed"}

(* removeExpiredKeys collects the passed deadlines and erases them ...     *)
Sweep ==
    /\ sweep = "sleep"
    /\ ttlMutex = Nobody
    /\ expired' = Passed
    /\ ttlMap' = [k \in Key |-> IF k \in Passed THEN "none" ELSE ttlMap[k]]
    /\ sweep' = IF Passed = {} THEN "sleep" ELSE "gate"
    /\ UNCHANGED <<records, lockVars, obsVars, clientVars, swept, histVars>>

(* ... then deletes the records, each with a call of the database.         *)
SweepGate ==
    /\ sweep = "gate"
    /\ dbMutex = Nobody
    /\ sweep' = "delete"
    /\ UNCHANGED <<records, ttlMap, lockVars, obsVars, clientVars, expired,
                   swept, histVars>>

(* Mutant of SweepDelete: the list of expired keys is not used up.         *)
SweepDeleteStuck(k) ==
    /\ sweep = "delete"
    /\ k \in expired
    /\ sweep' = "gate"
    /\ UNCHANGED <<records, ttlMap, lockVars, obsVars, clientVars, expired,
                   swept, histVars>>

(* A record that is gone already is passed over.                           *)
SweepDelete(k) ==
    /\ sweep = "delete"
    /\ k \in expired
    /\ ExpireRecord(k)
    /\ expired' = expired \ {k}
    /\ swept' = {k} \cap records
    /\ sweep' = IF k \in records THEN "notify"
                ELSE IF expired' = {} THEN "sleep" ELSE "gate"
    /\ UNCHANGED <<ttlMap, lockVars, obsVars, clientVars>>

(* The notification of a deletion by the thread.                           *)
SweepNotifyBegin ==
    /\ sweep = "notify"
    /\ obsMutex = Nobody
    /\ obsMutex' = Thread
    /\ todo' = UNION {observers[k] : k \in swept}
    /\ sweep' = "notifying"
    /\ UNCHANGED <<records, ttlMap, lockVars, observers, watched, clientVars,
                   expired, swept, histVars>>

SweepNotifyOne(o) == sweep = "notifying" /\ Reach(o)

SweepNotifyEnd ==
    /\ sweep = "notifying"
    /\ todo = {}
    /\ obsMutex' = Nobody
    /\ swept' = {}
    /\ sweep' = IF expired = {} THEN "sleep" ELSE "gate"
    /\ UNCHANGED <<records, ttlMap, lockVars, todo, observers, watched,
                   clientVars, expired, histVars>>

(* The clock reaches a deadline.                                           *)
Pass(k) ==
    /\ ttlMap[k] = "armed"
    /\ credit[k] < MaxPending
    /\ ttlMap' = [ttlMap EXCEPT ![k] = "passed"]
    /\ credit' = [credit EXCEPT ![k] = @ + 1]
    /\ dead' = dead \cup ({k} \cap records)
    /\ UNCHANGED <<records, lockVars, obsVars, clientVars, sweepVars, late>>

-----------------------------------------------------------------------------
RunCommand(c) ==
    \/ Check(c) \/ PassGate(c) \/ LazyDelete(c)
    \/ Get(c) \/ Set(c) \/ Delete(c) \/ FindRecord(c) \/ SetDeadline(c)
    \/ NotifyBegin(c) \/ NotifyEnd(c)
    \/ \E o \in TxClient : NotifyOne(c, o)

RunClear(c) ==
    ClearBegin(c) \/ ClearEnd(c) \/ \E k \in WatchedKey : Unregister(c, k)

Transact(c) ==
    \/ LockDatabase(c) \/ UnlockDatabase(c) \/ Discard(c)
    \/ WatchBegin(c) \/ WatchEnd(c)
    \/ \E k \in WatchedKey : Register(c, k)

RunSweep ==
    \/ SweepGate \/ SweepNotifyBegin \/ SweepNotifyEnd
    \/ \E k \in Key : SweepDelete(k)
    \/ \E o \in TxClient : SweepNotifyOne(o)

Next ==
    \/ \E c \in Client :
          RunCommand(c) \/ \E command \in Commands : Begin(c, command)
    \/ \E c \in TxClient : RunClear(c) \/ Transact(c)
    \/ Sweep \/ RunSweep
    \/ \E k \in Key : Pass(k)

Spec == Init /\ [][Next]_vars

(* As long as the program runs, a command under way goes on, and so do     *)
(* clearTransaction and a round of the expiration thread, and EXEC comes   *)
(* to the end of its queue.  All they ever wait for are the mutexes        *)
(* modelled here.  The fairness is strong because those are released and   *)
(* taken again.  Threads that wait for each other in a circle have no step *)
(* enabled, and fairness asks for none: the deadlocks are behaviours too.  *)
FairSpec ==
    /\ Spec
    /\ \A c \in Client : SF_vars(RunCommand(c))
    /\ \A c \in TxClient : SF_vars(RunClear(c)) /\ SF_vars(UnlockDatabase(c))
    /\ SF_vars(Sweep \/ RunSweep)

-----------------------------------------------------------------------------
(* Every passed deadline removes one record at most: getRecord and the     *)
(* expiration thread never both act on it, and none acts twice.            *)
ExpiryIsPaid == \A k \in Key : credit[k] >= 0

(* A record whose deadline has passed is known: to getRecord, by the       *)
(* deadline, or to the sweep under way ("Active expiration: remove expired *)
(* keys").  Nothing but EXPIRE, PERSIST and DEL takes a deadline away from *)
(* a record; DEL the one of the next record of that name, when it comes    *)
(* between the deletion and the erasure of the deadline.                   *)
DeadAreKnown ==
    \A k \in dead : ttlMap[k] = "passed" \/ k \in expired

(* A GET that begins after the deadline of its record does not return it   *)
(* ("Get a record by id, checking for lazy expiration"), except in the     *)
(* window of a sweep, between the erasure of the deadline and the deletion *)
(* of the record.                                                          *)
Returns(c) == Get(c) /\ cmd[c].key \in records

LateReadsOnlyInSweep ==
    [][\A c \in late : Returns(c) => cmd[c].key \in expired]_vars

(* What expiry removes has expired ("Delete expired keys from the          *)
(* underlying database").  Not so: deadlines belong to keys, and outlive   *)
(* the record they were given to.                                          *)
OnlyExpiredAreDeleted ==
    [][(RunSweep \/ \E c \in Client : LazyDelete(c))
          => records \ records' \subseteq dead]_vars

(* getRecord waits, with ttlMutex, for the EXEC that waits for ttlMutex    *)
(* (TTLDatabaseDecorator.h calls deleteRecord inside its lock_guard).      *)
Deadlocked ==
    \E c \in Client :
        /\ ttlMutex = c /\ pc[c] = "lazyGate"
        /\ dbMutex \notin {c, Nobody}
        /\ pc[dbMutex] \in {"check", "deadline"}

(* A notification waits, with _obsMutex, for the txMutex of an observer    *)
(* whose clearTransaction waits for _obsMutex (Database.h, Client.h).      *)
NotificationDeadlocked ==
    /\ obsMutex # Nobody
    /\ \E o \in todo : pc[o] = "unregister" /\ watched[o] # {}

(* A record whose deadline has passed is removed in the end, or a client   *)
(* gives it another deadline or none, as SetDeadline does.  The only ways to keep it for ever   *)
(* are two deadlocks: of a getRecord with an EXEC, and of a notification,  *)
(* which may be the one of the expiration thread itself, with a            *)
(* clearTransaction.                                                       *)
ExpiredAreRemoved ==
    \A k \in Key :
        k \in dead ~> (k \notin dead \/ Deadlocked \/ NotificationDeadlocked)
=============================================================================
