---------------------------- MODULE Transactions ----------------------------
(***************************************************************************)
(* The database and its transactions under concurrent clients:             *)
(* include/Database/Database.h, the MULTI, EXEC, DISCARD and WATCH         *)
(* commands, Client::onRecordModified and clearTransaction, and the parts  *)
(* of SET, INCR, DEL and LPUSH that touch the database.                    *)
(*                                                                         *)
(* A client has one command in progress at a time, run by a worker of the  *)
(* thread pool; commands of different clients interleave.  Every           *)
(* acquisition of a lock and every access to the record map is one step.   *)
(*                                                                         *)
(* A command outside a transaction takes the shared lock of _mutex and     *)
(* drops it before it looks at the records (Database.h, "if (!isClient     *)
(* InTransaction(client)) { shared_lock lock(_mutex); }"): it only waits   *)
(* until nobody holds the exclusive lock.  These are the "...Gate" steps.  *)
(*                                                                         *)
(* Left out here: expiry (TTLDatabase), eviction (MemoryManager), the      *)
(* values of strings and lists beyond a number, disconnects.               *)
(***************************************************************************)
EXTENDS Integers, Sequences

CONSTANTS
    Client,
    Key,
    DirectOps,  \* operations clients send outside a transaction
    QueuedOps,  \* operations clients send after MULTI
    Nobody,     \* owner of a free lock
    MaxQueue,   \* bound: queued commands of a transaction
    MaxN        \* bound: numbers and list lengths saturate here

Ops == {"SET", "INCR", "DEL", "LPUSH"}

ASSUME OpsAssumption == DirectOps \subseteq Ops /\ QueuedOps \subseteq Ops
ASSUME NobodyAssumption == Nobody \notin Client
ASSUME BoundsAssumption == MaxQueue \in Nat /\ MaxN \in Nat \ {0}

Absent == [type |-> "absent", n |-> 0]
Values == [type : {"string", "list"}, n : 0..MaxN]

Commands == [op : DirectOps \cup QueuedOps, key : Key]
NoCommand == [op |-> "none"]

VARIABLES
    store,      \* Database::records: key -> value, Absent when not there
    deps,       \* Database::recordDependencies: key -> registered clients
    dbMutex,    \* owner of the exclusive lock of Database::_mutex
    obsMutex,   \* owner of Database::_obsMutex
    txMutex,    \* clients whose Client::txMutex is held by clearTransaction
    inTx, dirty, queue, watched,    \* the TransactionContext of each client
    pc,         \* where the worker that serves the client is
    cmd,        \* the command it executes
    tmp,        \* the value it is about to store
    rounds,     \* notifications the command still has to send
    todo,       \* observers the current notification still has to reach
    keys        \* keys WATCH or clearTransaction still has to handle

(* History: the value each key would have if every INCR had read and       *)
(* written in one step, the keys each client has watched with success      *)
(* since it last gave up its watches, the clients a write under way must   *)
(* reach, and the clients that watch a key a replied command has written.  *)
VARIABLES serial, session, due, acked

dbVars == <<store, serial, deps>>
lockVars == <<dbMutex, obsMutex, txMutex>>
ctxVars == <<inTx, dirty, queue, watched>>
localVars == <<cmd, tmp, rounds, todo, keys>>
histVars == <<session, due, acked>>
vars == <<dbVars, lockVars, ctxVars, pc, localVars, histVars>>

Gates == {"updateGate", "insertGate", "getGate", "deleteGate"}
UpdateLabels == Gates \cup {"update", "insert", "get", "delete"}
NotifyLabels == {"notify", "notifying"}
CommandLabels == UpdateLabels \cup NotifyLabels
Labels == CommandLabels \cup
          {"idle", "lockDatabase", "body", "clear", "unregister",
           "watch", "register"}

TypeOK ==
    /\ store \in [Key -> Values \cup {Absent}]
    /\ serial \in [Key -> [type : {"string", "list", "absent"}, n : 0..MaxN]]
    /\ deps \in [Key -> SUBSET Client]
    /\ dbMutex \in Client \cup {Nobody}
    /\ obsMutex \in Client \cup {Nobody}
    /\ txMutex \subseteq Client
    /\ inTx \in [Client -> BOOLEAN]
    /\ dirty \in [Client -> BOOLEAN]
    /\ queue \in [Client -> Seq(Commands)]
    /\ watched \in [Client -> SUBSET Key]
    /\ pc \in [Client -> Labels]
    /\ cmd \in [Client -> Commands \cup [op : {"WATCH"}, key : Key]
                              \cup {NoCommand}]
    /\ tmp \in [Client -> Values \cup {Absent}]
    /\ rounds \in [Client -> 0..2]
    /\ todo \in [Client -> SUBSET Client]
    /\ keys \in [Client -> SUBSET Key]
    /\ session \in [Client -> SUBSET Key]
    /\ due \in [Client -> SUBSET Client]
    /\ acked \subseteq Client

Bump(v) == [v EXCEPT !.n = IF @ < MaxN THEN @ + 1 ELSE @]
Fresh(type) == [type |-> type, n |-> IF type = "list" THEN 1 ELSE 0]

Init ==
    /\ store = [k \in Key |-> Absent]
    /\ serial = store
    /\ deps = [k \in Key |-> {}]
    /\ dbMutex = Nobody /\ obsMutex = Nobody /\ txMutex = {}
    /\ inTx = [c \in Client |-> FALSE]
    /\ dirty = [c \in Client |-> FALSE]
    /\ queue = [c \in Client |-> <<>>]
    /\ watched = [c \in Client |-> {}]
    /\ pc = [c \in Client |-> "idle"]
    /\ cmd = [c \in Client |-> NoCommand]
    /\ tmp = [c \in Client |-> Absent]
    /\ rounds = [c \in Client |-> 0]
    /\ todo = [c \in Client |-> {}]
    /\ keys = [c \in Client |-> {}]
    /\ session = [c \in Client |-> {}]
    /\ due = [c \in Client |-> {}]
    /\ acked = {}

-----------------------------------------------------------------------------
(* How the operations of a command follow each other.                      *)
FirstGate(op) == CASE op = "SET" -> "updateGate"
                   [] op = "DEL" -> "deleteGate"
                   [] OTHER -> "getGate"

AfterGate(gate) == CASE gate = "updateGate" -> "update"
                     [] gate = "insertGate" -> "insert"
                     [] gate = "deleteGate" -> "delete"
                     [] OTHER -> "get"

Goto(c, label) == pc' = [pc EXCEPT ![c] = label]

(* Calls of the Database take its gate, except inside a transaction.       *)
Call(c, gate) == Goto(c, IF inTx[c] THEN AfterGate(gate) ELSE gate)

(* CommandProcessor::processCommand, or EXEC, calls execute of a command.  *)
Begin(c, command) ==
    /\ Call(c, FirstGate(command.op))
    /\ cmd' = [cmd EXCEPT ![c] = command]
    /\ tmp' = [tmp EXCEPT ![c] = IF command.op = "SET" THEN Fresh("string")
                                                       ELSE Absent]

(* The command returns its reply: to EXEC, which pops it, or to the client. *)
Reply(c) ==
    /\ Goto(c, IF inTx[c] THEN "body" ELSE "idle")
    /\ queue' = IF inTx[c] THEN [queue EXCEPT ![c] = Tail(@)] ELSE queue
    /\ cmd' = [cmd EXCEPT ![c] = NoCommand]
    /\ tmp' = [tmp EXCEPT ![c] = Absent]

(* Mutant of Throw: nothing releases the lock of EXEC.                     *)
ThrowKeepsLock(c) ==
    /\ Goto(c, "idle")
    /\ cmd' = [cmd EXCEPT ![c] = NoCommand]
    /\ tmp' = [tmp EXCEPT ![c] = Absent]
    /\ UNCHANGED dbMutex

(* An exception leaves the command.  processCommand answers "ERR ..."; in  *)
(* EXEC it leaves EXEC as well: the lock guard releases _mutex, but the    *)
(* command is not popped and clearTransaction is not called.               *)
Throw(c) ==
    /\ Goto(c, "idle")
    /\ dbMutex' = IF inTx[c] THEN Nobody ELSE dbMutex
    /\ cmd' = [cmd EXCEPT ![c] = NoCommand]
    /\ tmp' = [tmp EXCEPT ![c] = Absent]

(* The command writes v to its key; history: serial gets the effect the    *)
(* command has on its own, and the clients that watch the key must learn   *)
(* of the write.                                                           *)
Effect(op, v, new) == CASE op = "INCR" -> Bump(v)
                        [] op = "DEL" -> Absent
                        [] OTHER -> new

Watchers(k) == {o \in Client : k \in session[o]}

Write(c, v) ==
    LET k == cmd[c].key
    IN  /\ store' = [store EXCEPT ![k] = v]
        /\ serial' = [serial EXCEPT ![k] = Effect(cmd[c].op, @, v)]

(* The write done, notifyRecordObservers is called n times.                *)
Announce(c, n) ==
    /\ Goto(c, "notify")
    /\ rounds' = [rounds EXCEPT ![c] = n]
    /\ due' = [due EXCEPT ![c] = @ \cup Watchers(cmd[c].key)]

-----------------------------------------------------------------------------
(* A command outside a transaction.                                        *)
StartCommand(c, command) ==
    /\ pc[c] = "idle" /\ ~inTx[c]
    /\ command.op \in DirectOps
    /\ Begin(c, command)
    /\ UNCHANGED <<dbVars, lockVars, ctxVars, rounds, todo, keys, histVars>>

(* "{ shared_lock lock(_mutex); }": taken and dropped at once.             *)
PassGate(c) ==
    /\ pc[c] \in Gates
    /\ dbMutex = Nobody
    /\ Goto(c, AfterGate(pc[c]))
    /\ UNCHANGED <<dbVars, lockVars, ctxVars, localVars, histVars>>

(* getRecord for INCR; it throws for a missing record, outside the try.    *)
IncrGet(c) ==
    /\ pc[c] = "get" /\ cmd[c].op = "INCR"
    /\ LET v == store[cmd[c].key]
       IN  \/ /\ v = Absent
              /\ Throw(c)
              /\ UNCHANGED queue
           \/ /\ v.type = "list"
              /\ Reply(c)
              /\ UNCHANGED dbMutex
           \/ /\ v.type = "string"
              /\ Call(c, "updateGate")
              /\ tmp' = [tmp EXCEPT ![c] = Bump(v)]
              /\ UNCHANGED <<cmd, queue, dbMutex>>
    /\ UNCHANGED <<dbVars, obsMutex, txMutex, inTx, dirty, watched, rounds,
                   todo, keys, histVars>>

(* getRecord for LPUSH, and the push into the list found, in place: no     *)
(* observer is notified.                                                   *)
PushGet(c) ==
    /\ pc[c] = "get" /\ cmd[c].op = "LPUSH"
    /\ LET k == cmd[c].key
           v == store[k]
       IN  \/ /\ v = Absent
              /\ Call(c, "insertGate")
              /\ tmp' = [tmp EXCEPT ![c] = Fresh("list")]
              /\ UNCHANGED <<store, serial, cmd, queue, acked>>
           \/ /\ v.type = "string"
              /\ Reply(c)
              /\ UNCHANGED <<store, serial, acked>>
           \/ /\ v.type = "list"
              /\ store' = [store EXCEPT ![k] = Bump(v)]
              /\ serial' = [serial EXCEPT ![k] = Bump(@)]
              /\ acked' = acked \cup Watchers(k)
              /\ Reply(c)
    /\ UNCHANGED <<deps, lockVars, inTx, dirty, watched, rounds, todo, keys,
                   session, due>>

(* updateRecord finds the record and sets its value, or goes on to         *)
(* insertRecord.                                                           *)
UpdateRecord(c) ==
    /\ pc[c] = "update"
    /\ IF store[cmd[c].key] # Absent
       THEN Write(c, tmp[c]) /\ Announce(c, 1)
       ELSE Call(c, "insertGate") /\ UNCHANGED <<store, serial, rounds, due>>
    /\ UNCHANGED <<deps, lockVars, ctxVars, cmd, tmp, todo, keys, session,
                   acked>>

(* insertRecord throws when the key appeared meanwhile; INCR catches that. *)
(* Called from updateRecord, the insert is announced twice.                *)
InsertRecord(c) ==
    /\ pc[c] = "insert"
    /\ \/ /\ store[cmd[c].key] = Absent
          /\ Write(c, tmp[c])
          /\ Announce(c, IF cmd[c].op = "LPUSH" THEN 1 ELSE 2)
          /\ UNCHANGED <<cmd, tmp, queue, dbMutex>>
       \/ /\ store[cmd[c].key] # Absent
          /\ IF cmd[c].op = "INCR" THEN Reply(c) /\ UNCHANGED dbMutex
                                   ELSE Throw(c) /\ UNCHANGED queue
          /\ UNCHANGED <<store, serial, rounds, due>>
    /\ UNCHANGED <<deps, obsMutex, txMutex, inTx, dirty, watched, todo, keys,
                   session, acked>>

(* deleteRecord; DEL catches the exception for a missing record.           *)
DeleteRecord(c) ==
    /\ pc[c] = "delete"
    /\ \/ /\ store[cmd[c].key] # Absent
          /\ Write(c, Absent)
          /\ Announce(c, 1)
          /\ UNCHANGED <<cmd, tmp, queue>>
       \/ /\ store[cmd[c].key] = Absent
          /\ Reply(c)
          /\ UNCHANGED <<store, serial, rounds, due>>
    /\ UNCHANGED <<deps, lockVars, inTx, dirty, watched, todo, keys,
                   session, acked>>

-----------------------------------------------------------------------------
(* notifyRecordObservers takes _obsMutex and looks up the observers.       *)
NotifyBegin(c) ==
    /\ pc[c] = "notify"
    /\ obsMutex = Nobody
    /\ obsMutex' = c
    /\ todo' = [todo EXCEPT ![c] = deps[cmd[c].key]]
    /\ Goto(c, "notifying")
    /\ UNCHANGED <<dbVars, dbMutex, txMutex, ctxVars, cmd, tmp, rounds, keys,
                   histVars>>

(* Client::onRecordModified of one observer, which needs its txMutex.      *)
NotifyOne(c, o) ==
    /\ pc[c] = "notifying"
    /\ o \in todo[c]
    /\ o \notin txMutex
    /\ dirty' = [dirty EXCEPT ![o] = @ \/ cmd[c].key \in watched[o]]
    /\ todo' = [todo EXCEPT ![c] = @ \ {o}]
    /\ UNCHANGED <<dbVars, lockVars, inTx, queue, watched, pc, cmd, tmp,
                   rounds, keys, histVars>>

(* notifyRecordObservers returns.  After the last one the command replies. *)
NotifyEnd(c) ==
    /\ pc[c] = "notifying"
    /\ todo[c] = {}
    /\ obsMutex' = Nobody
    /\ rounds' = [rounds EXCEPT ![c] = @ - 1]
    /\ IF rounds[c] > 1
       THEN Goto(c, "notify") /\ UNCHANGED <<cmd, tmp, queue, histVars>>
       ELSE /\ Reply(c)
            /\ acked' = acked \cup due[c]
            /\ due' = [due EXCEPT ![c] = {}]
            /\ UNCHANGED session
    /\ UNCHANGED <<dbVars, dbMutex, txMutex, inTx, dirty, watched, todo, keys>>

-----------------------------------------------------------------------------
(* MULTI.                                                                  *)
Multi(c) ==
    /\ pc[c] = "idle" /\ ~inTx[c]
    /\ inTx' = [inTx EXCEPT ![c] = TRUE]
    /\ queue' = [queue EXCEPT ![c] = <<>>]
    /\ UNCHANGED <<dbVars, lockVars, dirty, watched, pc, localVars, histVars>>

(* Mutant of QueueCommand: shouldQueueCommand forgets WATCH, which it has  *)
(* to let through.                                                         *)
QueueWatch(c, command) ==
    /\ pc[c] = "idle" /\ inTx[c]
    /\ command.op \in QueuedOps
    /\ Len(queue[c]) < MaxQueue
    /\ \E op \in {command.op, "WATCH"} :
          queue' = [queue EXCEPT ![c] = Append(@, [command EXCEPT !.op = op])]
    /\ UNCHANGED <<dbVars, lockVars, inTx, dirty, watched, pc, localVars,
                   histVars>>

(* A command after MULTI is queued (shouldQueueCommand).                   *)
QueueCommand(c, command) ==
    /\ pc[c] = "idle" /\ inTx[c]
    /\ command.op \in QueuedOps
    /\ Len(queue[c]) < MaxQueue
    /\ queue' = [queue EXCEPT ![c] = Append(@, command)]
    /\ UNCHANGED <<dbVars, lockVars, inTx, dirty, watched, pc, localVars,
                   histVars>>

(* EXEC looks at the dirty flag, with no lock held.                        *)
Exec(c) ==
    /\ pc[c] = "idle" /\ inTx[c]
    /\ Goto(c, IF dirty[c] THEN "clear" ELSE "lockDatabase")
    /\ UNCHANGED <<dbVars, lockVars, ctxVars, localVars, histVars>>

(* Mutant of LockDatabase: a shared lock, dropped at once like the others. *)
LockDatabaseShared(c) ==
    /\ pc[c] = "lockDatabase"
    /\ dbMutex = Nobody
    /\ Goto(c, "body")
    /\ UNCHANGED <<dbVars, lockVars, ctxVars, localVars, histVars>>

(* Mutant of LockDatabase: it only tries to lock, and goes on without.     *)
TryLockDatabase(c) ==
    /\ pc[c] = "lockDatabase"
    /\ dbMutex' = IF dbMutex = Nobody THEN c ELSE dbMutex
    /\ Goto(c, "body")
    /\ UNCHANGED <<dbVars, obsMutex, txMutex, ctxVars, localVars, histVars>>

(* EXEC: lockDatabase().                                                   *)
LockDatabase(c) ==
    /\ pc[c] = "lockDatabase"
    /\ dbMutex = Nobody
    /\ dbMutex' = c
    /\ Goto(c, "body")
    /\ UNCHANGED <<dbVars, obsMutex, txMutex, ctxVars, localVars, histVars>>

(* EXEC: one turn of the loop over the queued commands.                    *)
ExecNext(c) ==
    /\ pc[c] = "body"
    /\ queue[c] # <<>>
    /\ Begin(c, Head(queue[c]))
    /\ UNCHANGED <<dbVars, lockVars, ctxVars, rounds, todo, keys, histVars>>

(* EXEC: the loop is over and the lock guard leaves its block.             *)
ExecUnlock(c) ==
    /\ pc[c] = "body"
    /\ queue[c] = <<>>
    /\ dbMutex' = Nobody
    /\ Goto(c, "clear")
    /\ UNCHANGED <<dbVars, obsMutex, txMutex, ctxVars, localVars, histVars>>

(* DISCARD.                                                                *)
Discard(c) ==
    /\ pc[c] = "idle" /\ inTx[c]
    /\ Goto(c, "clear")
    /\ UNCHANGED <<dbVars, lockVars, ctxVars, localVars, histVars>>

(* History: what c watched so far no longer matters.                       *)
Forget(c) ==
    /\ session' = [session EXCEPT ![c] = {}]
    /\ due' = [w \in Client |-> due[w] \ {c}]
    /\ acked' = acked \ {c}

(* Client::clearTransaction takes txMutex ...                              *)
ClearBegin(c) ==
    /\ pc[c] = "clear"
    /\ c \notin txMutex
    /\ txMutex' = txMutex \cup {c}
    /\ keys' = [keys EXCEPT ![c] = watched[c]]
    /\ Goto(c, "unregister")
    /\ Forget(c)
    /\ UNCHANGED <<dbVars, dbMutex, obsMutex, ctxVars, cmd, tmp, rounds, todo>>

(* Mutant of Unregister: the entry of the key is erased even though other  *)
(* observers are left in it.                                               *)
UnregisterAll(c, k) ==
    /\ pc[c] = "unregister"
    /\ k \in keys[c]
    /\ obsMutex = Nobody
    /\ deps' = [deps EXCEPT ![k] = {}]
    /\ keys' = [keys EXCEPT ![c] = @ \ {k}]
    /\ UNCHANGED <<store, serial, lockVars, ctxVars, pc, cmd, tmp, rounds,
                   todo, histVars>>

(* ... calls unregisterRecordObserver for each watched record ...          *)
Unregister(c, k) ==
    /\ pc[c] = "unregister"
    /\ k \in keys[c]
    /\ obsMutex = Nobody
    /\ deps' = [deps EXCEPT ![k] = @ \ {c}]
    /\ keys' = [keys EXCEPT ![c] = @ \ {k}]
    /\ UNCHANGED <<store, serial, lockVars, ctxVars, pc, cmd, tmp, rounds,
                   todo, histVars>>

(* TransactionContext::clear.                                              *)
ClearContext(c) ==
    /\ inTx' = [inTx EXCEPT ![c] = FALSE]
    /\ dirty' = [dirty EXCEPT ![c] = FALSE]
    /\ queue' = [queue EXCEPT ![c] = <<>>]
    /\ watched' = [watched EXCEPT ![c] = {}]

(* ... and clears the context.                                             *)
ClearEnd(c) ==
    /\ pc[c] = "unregister"
    /\ keys[c] = {}
    /\ ClearContext(c)
    /\ txMutex' = txMutex \ {c}
    /\ Goto(c, "idle")
    /\ UNCHANGED <<dbVars, dbMutex, obsMutex, localVars, histVars>>

-----------------------------------------------------------------------------
(* WATCH clears the context first, without txMutex and without             *)
(* unregistering what an earlier WATCH registered.                         *)
WatchBegin(c, ks) ==
    /\ pc[c] = "idle" /\ ~inTx[c]
    /\ ClearContext(c)
    /\ keys' = [keys EXCEPT ![c] = ks]
    /\ Goto(c, "watch")
    /\ Forget(c)
    /\ UNCHANGED <<dbVars, lockVars, cmd, tmp, rounds, todo>>

(* Mutant of WatchKey: the context is locked until the key is registered.   *)
WatchKeyLocked(c, k) ==
    /\ pc[c] = "watch"
    /\ k \in keys[c]
    /\ txMutex' = txMutex \cup {c}
    /\ watched' = [watched EXCEPT ![c] = @ \cup {k}]
    /\ cmd' = [cmd EXCEPT ![c] = [op |-> "WATCH", key |-> k]]
    /\ keys' = [keys EXCEPT ![c] = @ \ {k}]
    /\ Goto(c, "register")
    /\ UNCHANGED <<dbVars, dbMutex, obsMutex, inTx, dirty, queue, tmp, rounds,
                   todo, histVars>>

(* watchedRecords.insert(key).                                             *)
WatchKey(c, k) ==
    /\ pc[c] = "watch"
    /\ k \in keys[c]
    /\ watched' = [watched EXCEPT ![c] = @ \cup {k}]
    /\ cmd' = [cmd EXCEPT ![c] = [op |-> "WATCH", key |-> k]]
    /\ keys' = [keys EXCEPT ![c] = @ \ {k}]
    /\ Goto(c, "register")
    /\ UNCHANGED <<dbVars, lockVars, inTx, dirty, queue, tmp, rounds, todo,
                   histVars>>

(* registerRecordObserver; it throws when there is no such record, and the *)
(* keys after it are not watched.                                          *)
Register(c) ==
    /\ pc[c] = "register"
    /\ obsMutex = Nobody
    /\ cmd' = [cmd EXCEPT ![c] = NoCommand]
    /\ IF store[cmd[c].key] = Absent
       THEN /\ Goto(c, "idle")
            /\ keys' = [keys EXCEPT ![c] = {}]
            /\ UNCHANGED <<deps, session>>
       ELSE /\ Goto(c, "watch")
            /\ deps' = [deps EXCEPT ![cmd[c].key] = @ \cup {c}]
            /\ session' = [session EXCEPT ![c] = @ \cup {cmd[c].key}]
            /\ UNCHANGED keys
    /\ UNCHANGED <<store, serial, lockVars, ctxVars, tmp, rounds, todo, due,
                   acked>>

WatchEnd(c) ==
    /\ pc[c] = "watch"
    /\ keys[c] = {}
    /\ Goto(c, "idle")
    /\ UNCHANGED <<dbVars, lockVars, ctxVars, localVars, histVars>>

-----------------------------------------------------------------------------
RunCommand(c) ==
    \/ PassGate(c) \/ IncrGet(c) \/ PushGet(c)
    \/ UpdateRecord(c) \/ InsertRecord(c) \/ DeleteRecord(c)
    \/ NotifyBegin(c) \/ NotifyEnd(c)
    \/ \E o \in Client : NotifyOne(c, o)

RunExec(c) == LockDatabase(c) \/ ExecNext(c) \/ ExecUnlock(c)

RunClear(c) ==
    ClearBegin(c) \/ ClearEnd(c) \/ \E k \in Key : Unregister(c, k)

RunWatch(c) ==
    Register(c) \/ WatchEnd(c) \/ \E k \in Key : WatchKey(c, k)

Receive(c) ==
    \/ \E command \in Commands :
          StartCommand(c, command) \/ QueueCommand(c, command)
    \/ Multi(c) \/ Exec(c) \/ Discard(c)
    \/ \E ks \in SUBSET Key \ {{}} : WatchBegin(c, ks)

Next ==
    \E c \in Client :
        Receive(c) \/ RunCommand(c) \/ RunExec(c) \/ RunClear(c) \/ RunWatch(c)

Spec == Init /\ [][Next]_vars

-----------------------------------------------------------------------------
(* Each lock is held exactly in its scope, also after an exception: the    *)
(* exclusive lock by the client whose EXEC runs its queue, _obsMutex       *)
(* inside notifyRecordObservers, txMutex inside clearTransaction.          *)
LocksMatchScopes ==
    \A c \in Client :
        /\ dbMutex = c <=> inTx[c] /\ pc[c] \in CommandLabels \cup {"body"}
        /\ obsMutex = c <=> pc[c] = "notifying"
        /\ c \in txMutex <=> pc[c] = "unregister"

(* When a command that wrote a key has replied, every client that watches  *)
(* the key is marked dirty, so an EXEC sent now answers (nil): the         *)
(* registration, the notification and the clearing of a context, spread    *)
(* over three locks and two clients, never lose a write between them.  The *)
(* flag is right; EXEC looks at it before it locks the database, so it     *)
(* still runs its queue after a write announced in between.                *)
AcknowledgedWritesAreSeen == \A c \in acked : dirty[c]

(* No INCR loses the effect of a command that wrote between its read and   *)
(* its write.  EXEC guarantees it between transactions.                    *)
NoLostUpdate == store = serial

(* While a client holds the lock of the entire database, nobody else       *)
(* changes a record (Database.h: "Get entire db lock").                    *)
ExecIsolated ==
    [][\A c \in Client :
           dbMutex = c /\ store' # store => pc'[c] # pc[c]]_vars

(* The client whose lock c needs for its next step.                        *)
WaitsFor(c, w) ==
    \/ pc[c] \in {"lockDatabase"} \cup Gates /\ dbMutex = w
    \/ pc[c] \in {"notify", "register"} /\ obsMutex = w
    \/ pc[c] = "unregister" /\ keys[c] # {} /\ obsMutex = w
    \/ pc[c] = "notifying" /\ w \in todo[c] \cap txMutex

(* Nobody in S can go on before another of S has: a circle of waits, or    *)
(* more of them, with the clients that queue up behind it.                 *)
Deadlocked(S) == S # {} /\ \A c \in S : \E w \in S : WaitsFor(c, w)

(* Whenever clients, however many, wait for each other in a circle, two of *)
(* them are a notification, which holds _obsMutex and needs a txMutex, and *)
(* a clearTransaction, which holds that txMutex and needs _obsMutex: no    *)
(* other order of the three locks closes a circle, and nobody waits for a  *)
(* lock of its own.  That one can: the destructor of the pool then waits   *)
(* for ever ("for each worker thread to finish").                          *)
OnlyNotificationsDeadlock ==
    \A S \in SUBSET Client :
        Deadlocked(S) =>
            \E c, w \in S : /\ pc[c] = "notifying" /\ WaitsFor(c, w)
                            /\ pc[w] = "unregister" /\ WaitsFor(w, c)
=============================================================================
