# DStarDB in TLA+

DStarDB is an in-memory key-value server: clients connect over TCP and type
commands; a reactor thread reads their characters, a pool of workers executes
their lines against one shared database, and background threads expire and
save records. This directory models the server with TLA+, checks the models
with TLC on small instances, and proves the main results with TLAPS for every
instance. Paths below are relative to the root of the repository.

## 1. The system

| Component | Source | State | Operations | Talks to |
| --- | --- | --- | --- | --- |
| Database core | `include/Database/Database.h` | `records`, `recordDependencies`, `_mutex`, `_obsMutex` | insert, update, get, delete, lock, (un)register observers, notify | memory manager (calls), clients (callbacks) |
| Transactions | `TransactionContext.h`, `Client.h`, `CommandProcessor.h`, `TransactionCommands/` | per client: in a transaction, dirty, queue, watched keys, `txMutex` | MULTI, EXEC, DISCARD, WATCH, queueing, `onRecordModified`, `clearTransaction` | database |
| TTL decorator | `Decorators/TTLDatabaseDecorator.h` | `ttlMap`, `ttlMutex`, expiration thread | lazy and active expiry, EXPIRE, PERSIST, delete | database |
| Memory manager | `src/MemoryManager.cpp` | `cacheNodes`, `freqList`, `keyIterators`, `minFreq`, the counter of `operator new` | insert, touch, remove, evict | records |
| Thread pool | `ThreadPool.h`, `GlobalThreadPool.h` | `tasks`, `stop`, condition variable | enqueue, worker loop, destructor | event loop, commands |
| Event loop, clients | `EventLoop.h`, `ClientManager.h`, `Client.h` | per client: line buffer, history and its index | accept, read a character, enqueue a line, disconnect | pool, command processor |
| Server main | `src/server.cpp` | `running` | start, shutdown | everything |
| Snapshot, AOF | `Persistence/Implementations/`, `PersistenceFactory.h` | one file for both, a temporary file, the snapshot thread | save every minute, load at start; the log is opened and never written | database, serializer |
| Serializer | `Serializer/`, `ValueFactory.cpp`, `ValueSerializationHelper.cpp` | none | encode and decode records | values |
| Values | `ConcreteValues/` | strings, lists, sets, sorted sets, hashes, HyperLogLogs, streams with consumer groups | the operations of each | commands |
| Commands | `Commands/ConcreteCommands/` | none | argument checks, replies | decorator, values |

What is hard in it:

- Commands run on workers. Outside a transaction a command takes the shared
  lock of the database in a block of its own, `if (!isClientInTransaction
  (client)) { std::shared_lock ... }`, so the lock is gone before the records
  are touched: it is only a gate that an EXEC closes.
- A command that reads and writes (INCR) does so in two calls with no lock
  across them; a command on a collection changes the value in place.
- Three locks (`_mutex`, `_obsMutex`, `txMutex`) order registration,
  notification and clearing of a WATCH, taken in two different orders; a
  fourth (`ttlMutex`) is held across a call that waits for the first.
- Deadlines belong to names of records, live in a map of their own, and are
  acted on by readers and by a thread; eviction knows nothing of them.
- The eviction loop maintains three structures by hand and stops by a counter
  that every thread of the process moves.
- The pool notifies outside its mutex, and is destroyed at exit.
- The reactor and the worker of a client share its line buffer and history,
  and read and write them in several locked steps.
- The server exits while clients are connected and tasks are queued: the
  database goes before the pool, and a write to a client that hung up may end
  the program.
- A snapshot copies the map of records and then serialises records that go on
  changing; a crash may fall between any two steps of save, also between the
  removal of the old file and the renaming of the new one; nobody looks
  whether a file was written whole.
- An XADD reads the clock, takes a number and inserts its message in three
  steps, while others do the same and clients read on from the last id they
  have got; XREADGROUP and XACK lock their group once for each message.
- A command that fails in the middle leaves what it has done so far.

What makes each component correct:

- *Database, transactions*: locks are held exactly in their scopes, also after
  an exception; WATCH misses no acknowledged write (but EXEC looks at its flag
  before it locks the database, and runs in spite of a write in between);
  transactions lose no update; EXEC is isolated (it is not).
- *TTL*: a deadline acts once, none is lost, no late read outside the sweep,
  what has expired goes in the end, only what has expired goes (not so).
- *Memory manager*: the structures agree; it implements a bounded store; keys
  of one frequency leave in recency order; the loop ends; the victim has the
  lowest frequency (not so).
- *Thread pool*: no oversleeping worker; each accepted task once and in order;
  the destructor waits for all; everything ends.
- *Event loop, clients, main*: each line a client sends is executed once, as
  sent, in order, and answered (for clients that wait for the answer); no key
  reads outside a string; a signal ends the program. All this unless a command
  ends the program or never returns.
- *Persistence*: a snapshot makes nothing up, every crash but one leaves a
  whole one, a start brings it back, and records at rest get into the file.
- *Serializer*: what is written is read back; a part of a file gives some of
  its records and never another value.
- *Streams*: an id is taken once and grows with the time, also across starts;
  reads leave nothing out; a follower gets all that lies before it, and what
  comes in behind it overlaps; what a group
  has delivered and nobody acknowledged is pending.
- *Commands*: a refused command changes nothing (two do); only SET changes the
  type of a key, and only DEL removes one; a HyperLogLog depends on the set of
  its elements only.

The manifest `PROJECT.json` lists every hazard at its line, with the property
that covers it or the reason why none does.

## 2. The modules

| Module | Models | Lines of state |
| --- | --- | --- |
| `MemoryManager` | the LFU bookkeeping and the eviction loop, one turn a step | `records`, `freq` (cacheNodes), `freqList` (with keyIterators as positions), `minFreq`, `usage`, `pc` |
| `BoundedStore` | abstract: records leave by a delete or, while memory is short, by an eviction; the loop stops only within capacity or empty | |
| `EvictionOrder` | extends `MemoryManager` with a history of accesses and the fairness of the evicting thread | `older` |
| `MemoryManagerProofs` | types, consistency, recency order, refinement | |
| `Transactions` | database core, commands, MULTI/EXEC/DISCARD/WATCH, observers: one step per lock taken and per access of the record map | as named in the code; `pc`, `cmd`, `tmp`, `rounds`, `todo`, `keys` are the locals of the worker that serves a client |
| `MCTransactions` | symmetry | |
| `TransactionsProofs` | types, lock scopes, deadlocks, WATCH, EXEC, isolation, lost updates | |
| `TTLDatabase` | the decorator above a database reduced to its keys, its gate and the notification of observers, with EXEC, DISCARD and WATCH as far as they take its locks | `ttlMap`, `ttlMutex`, `dbMutex`, `obsMutex` with `todo`, `observers`, `watched`, `pc`, `cmd`; `sweep`, `expired`, `swept` are the locals of the expiration thread |
| `TTLDatabaseProofs` | types, expiry acts once, deadlines are not lost, late reads | |
| `ThreadPool` | enqueue, workers, condition variable, destructor | `tasks`, `stop`, `at`, `task`, `notifies`, `dtor` |
| `TaskQueue` | abstract: tasks start once and in order, all end before the pool is gone | |
| `ThreadPoolProofs` | types, no oversleeping, refinement | |
| `Server` | the event loop, the clients' buffers and histories, the task of a line, the main thread: one step per lock taken of a client | `buffer`, `history`, `index` (of `Client`); `loopAt`, `who`, `arrow`, `pos`, `text` are the locals of `handleClient`, `at`, `line` those of a task; `round`, what is left to do after a failed `select`; `hung`, the tasks that never go on; `main` |
| `Terminal` | abstract: the line editor of a client that waits for its prompts | |
| `ServerProofs` | types, patient clients, refinement | |
| `Persistence` | the server's starts and ends, the records, the snapshot thread with one step per record serialised and per call on a file, commands that change a record in place, also one that has been deleted meanwhile, failures of the disk | `records`; `at`, `copy`, `todo`, `buffer` are the locals of `snapshotWorker`, `save` and `serialize`; `temp`, `file` |
| `SnapshotStore` | abstract: one durable snapshot, replaced now and then by values the keys held meanwhile; crashes, starts, counted faults | |
| `PersistenceProofs` | types, saved values, refinement | |
| `Stream` | the messages of one stream: XADD in its three steps, XREAD, XRANGE, a follower whose XREAD may hang, drops, saves, restarts | `messages`; `ms`, `id`, `on` are the locals of an XADD; `seq` is the static counter |
| `StreamProofs` | types, ids, reads, what a follower may miss; refinement of `Stream` by `ConsumerGroups`, its types and pending entries | |
| `ConsumerGroups` | extends `Stream` with groups, XREADGROUP, XACK, XPENDING, one step per message | `groups`, `pending`; `op`, `group`, `todo` are the locals of a session |
| `MCConsumerGroups` | symmetry of the sessions | |
| `Codec` | the format of a snapshot as functions: append, read, serialize, deserialize, createValue | |
| `HyperLogLog` | the registers of a HyperLogLog as functions of hashes | |
| `Commands` | `execute` of 40 commands as functions of the record and the words of a line, and `processCommand` | `records`, `reply`, `running` |
| `MCCommands` | two keys, three words and their hashes | |
| `CommandsProofs` | types, what each command may make of a record, registers, refusals, snapshots are read back | |

How the models meet: `MemoryManager` calls are serialised (the unlocked record
map is not modelled as torn memory); their interleaving with commands is that
of `Transactions`. `TTLDatabase` takes from `Transactions` the gate of each
call and EXEC's exclusive lock, and from `MemoryManager` that an insert may
evict a record. `Server` takes the pool from `TaskQueue` (`INSTANCE`), which
`ThreadPool` implements, and leaves what a line does to the database to
`Transactions`. `Transactions` assumes one command of a client at a time:
`ImplementsTerminal` shows that for a client that waits for its prompt before
it types again; the code does not enforce it for one that types ahead.
`Persistence` takes from the commands only that records change, in place or
not, and leave; what a value is in the file is in `Codec`, which `Commands`
extends, so that every record a sequence of commands can make is written and
read. `Stream` has the same saves and restarts, reduced to its key.

Conventions. A label of `pc` names the next step. A section under a mutex
that calls nothing blocking is one step and needs no lock variable; a mutex
held across steps is a variable with its owner, or `Nobody`. An exception is a
disjunct that goes where the code catches it. History variables only record;
they are named as such where they are declared, and guard nothing. A
definition whose comment begins "Mutant of" is a plausible slip in the
definition after it; no specification uses it, it shows that the property
named with it in the manifest can fail.

## 3. The runs

| Run | Module, cfg | Shows |
| --- | --- | --- |
| `memory_manager` | `EvictionOrder`, `EvictionOrder.cfg` | `CacheConsistent`, `ListsAreInRecencyOrder`, `ImplementsBoundedStore`, `EvictionTerminates` |
| `transactions_exec` | `MCTransactions`, `Transactions_exec.cfg` | `TypeOK`, `LocksMatchScopes`, `NoLostUpdate`, `ExecIsolated`, with commands in transactions only |
| `transactions_watch` | `MCTransactions`, `Transactions_watch.cfg` | `AcknowledgedWritesAreSeen`, `OnlyNotificationsDeadlock`, with direct and queued writes |
| `exec_isolation` | `Transactions`, `Transactions_isolation.cfg` | violated: a command past its gate writes while EXEC holds the database |
| `ttl` | `TTLDatabase`, `TTLDatabase.cfg` | `TypeOK`, `ExpiryIsPaid`, `DeadAreKnown`, `LateReadsOnlyInSweep`, and under fairness `ExpiredAreRemoved`, with a client that watches the key |
| `ttl_stale` | `TTLDatabase`, `TTLDatabase_stale.cfg` | violated: a deadline deletes a later record of the same name |
| `thread_pool` | `ThreadPool`, `ThreadPool.cfg` | `TypeOK`, `NoOversleep`, `ImplementsTaskQueue`, `TasksEnd`, `PoolStops` |
| `server` | `Server`, `Server.cfg` | `TypeOK`, `PatientsAreSafe`, `ImplementsTerminal`, and under fairness `PromptsCome` and `ShutdownEnds`, with one client that waits for its prompts and one that types ahead |
| `persistence` | `Persistence`, `Persistence.cfg` | `TypeOK`, `SavedValuesWereHeld`, `ImplementsSnapshotStore`, and under fairness `SnapshotsCatchUp`, with starts in every mode and one fault |
| `stream` | `Stream`, `Stream.cfg` | `TypeOK`, `LaterIdsAreGreater`, `ReadsHaveNoHoles`, and under fairness `MessagesAreReached` |
| `consumer_groups` | `MCConsumerGroups`, `MCConsumerGroups.cfg` | `UnackedIsPending` |
| `commands` | `MCCommands`, `MCCommands.cfg` | `TypeOK`, `SavedIsLoaded`, `RegistersAreOfTheSet`, `OnlySETChangesType`, `RefusalsChangeNothing` |

Bounds, and why they suffice:

- `Key` of four for the memory manager (two keys of one frequency, others
  above and below, and one left after two evictions); `MaxFreq` 4 lets `touch`
  empty the list of `minFreq` from every position; memory is 0..3 against a
  capacity of 1, so the loop condition is true or false for several values.
- Two clients for transactions: each property relates a writer and a watcher,
  or two lock owners. `transactions_watch` has two keys (WATCH of several, one
  of them missing), `transactions_exec` two queued commands (an exception at
  the first leaves the second). `MaxN` saturates numbers and list lengths.
- Two clients, one key and the expiration thread for `ttl`; one client uses
  WATCH and EXEC. A record that is evicted, deleted or expires and is set again
  needs one key, as does the circle of a notification and a clearing: one
  observer, and one that notifies, a client or the expiration thread. That a
  sweep of several keys goes on when one of their records is gone is left to
  the proofs. `ttl_stale` has two keys, one of which evicts the other.
  `MaxPending` is how many passed deadlines of a key may wait for their
  deletion: 1 in the run, any number in the proofs.
- Three workers, two callers, four tasks for the pool: a worker runs, one
  wakes, one sleeps, with two notifications on their way. The program has one
  caller, the event loop; the class allows several, and so does the model.
- For the server, one client of each kind: the patient one (`Patient`) types
  only at a prompt and sends an escape sequence in one piece, the other one
  whenever it likes, and need not read. Two workers (`Workers`): one may hang
  for ever while the other goes on. Two lines together (`MaxLines`) are two
  tasks of one client at once or one of each, and a history of two lines has a
  neighbour for both arrows and an end to leave; a third line, to wait behind
  two tasks that hang, would only be one more exception of `PromptsCome`. Lines
  of one character (`MaxLen`), with one more typed ahead (`MaxHasty`), can be
  edited, erased and recalled, with the cursor at either end; one character in
  `Char` suffices for a line to differ from the empty one.
- Two keys with two values for the snapshots: one may change, go and come back
  while the other is serialised, and a snapshot that mixes two moments differs
  from both. One fault: two would need a save each, and the second meets what
  the first has left.
- Two producers and a follower for the stream: an id is compared with those in
  the stream and with the one under way. Two milliseconds leave room for a
  restart, which takes one, between two messages, and two numbers in a run for
  two messages of the same millisecond. The counts of a read are 1 and 2: less
  than there is, and all.
- Two sessions and one group: one session reads or acknowledges what the other
  is reading; of several groups each has its own mutex and map. With one
  producer and a number a run, messages come from several milliseconds.
- Two keys for the commands, one with a name that occurs in the word SET (its
  value is then another than was sent); three words, one a number, one an id
  that is too big for an int, one MKSTREAM; an int of 2 bits, so that one INCR
  overflows; two words after the key (the second a duplicate of the first or
  not) and two elements in all records, so that each container is empty, has
  one element or two. Hashes of 8 bits with an index of 3, cut to 2 like the
  14 to 8 of the code; two of the three fall into one register with different
  counts.

`CHECK_DEADLOCK FALSE` stands where the system really may stop: in the
transactions and TTL runs because of the deadlocks of the code
(`OnlyNotificationsDeadlock` says which; `Deadlocked` and
`NotificationDeadlocked` in `TTLDatabase`), in the pool and the
server because a destroyed pool, or a crash, is the end. The other runs check
deadlock.

What TLC also refutes, kept out of the runs: that the eviction loop takes a
key of the lowest frequency (`MemoryManager.cpp:104` sets `minFreq` to the
`begin()` of a hash map, where the comment at line 78 says 'evict keys with
the lowest frequency'), so the second victim may be any key; that nobody
deadlocks in the transactions (a notification holds `_obsMutex` and waits for
the `txMutex` of a client whose `clearTransaction` waits for `_obsMutex`,
`Client.h:137`); that a whole snapshot is in place at every moment (not
between `remove` and `rename`); that a refused command changes nothing, for
HDEL and XGROUP CREATE. `NoLostUpdate` as soon as clients
use INCR or SET outside a transaction; `AcknowledgedWritesAreSeen` with LPUSH,
which changes a list in place and notifies nobody; `DeadAreKnown` if the
deadline that a late DEL erases, in a step after the deletion and perhaps of
the next record of that name, did not count as taken away;
`ImplementsTerminal` and `PatientsAreSafe` with the client that types ahead
counted as patient, because its second line is read, merged or cleared by the
task of the first, and its backspace or arrow key meets a buffer or an index
that the task has just changed.
The passing runs and the theorems say exactly for whom the properties hold.

Fairness:

- `SnapshotsCatchUp`: weak fairness of the snapshot thread, which sleeps a
  minute at a time, holds no lock and waits for nothing. Faults, crashes and
  starts have none; the property speaks of a server that in the end stays up.
- `MessagesAreReached`: weak fairness of the follower, a client that asks
  again and again. Its XREAD waits for `ttlMutex` and at the gate of the
  database, both held for moments only but for the deadlocks of the code:
  `FollowerHangs` is that case, and the property ends with it.
- `EvictionTerminates`: weak fairness of the evicting thread, which holds no
  lock and waits for nothing in its loop.
- `ExpiredAreRemoved`: strong fairness of each client's command and clearing,
  of the end of EXEC (its queue is finite) and of the expiration thread. Strong
  because `ttlMutex`, the database lock and `_obsMutex` are taken by others
  meanwhile; each holder that is in no circle lets go and then waits for the
  network or for a deadline seconds away, so they are free over and over.
  Threads in a circle have no step enabled, and fairness asks none of them; the
  property names the two circles, and a record stays only if one of them is
  reached: a `getRecord` that deletes against an EXEC
  (`TTLDatabaseDecorator.h:139`), and a notification, the one of the expiration
  thread itself included (`Database.h:122`), against a clearing
  (`Client.h:137`).
- `TasksEnd`, `PoolStops`: weak fairness of every thread that can run. The
  mutex of the pool is held for a few instructions; a task is assumed to end.
  A wake-up without a notification has no fairness.
- `PromptsCome`, `ShutdownEnds`: weak fairness of the steps of `handleClient`
  and of the workers together, strong fairness of the shutdown: the loop
  returns to its condition after each round, and a round handles each client
  at most once, but clients may type for ever. What may keep a thread for ever
  is an action without fairness, after which that thread takes no step: a
  command in a deadlock of the code, or a blocking send to a client that does
  not read, of a task (`TaskHangs`) or of the echo of the loop (`LoopHangs`);
  the join of the expiration thread in the deletion of the database
  (`DeleteHangs`). Without fairness are also the waits of the loop for a
  client: the `recv` after an ESC (`Receive`), and the `accept` and the `recv`s
  of a round after a failed `select` (`SelectFails`), which the signal itself
  may cause. The properties name each of these as an exception, `PromptsCome`
  only the ones that concern the client: a task of its own that hangs, or one
  on every worker.

## 4. The proofs

All theorems hold for every value of the constants under the named ASSUMEs of
the modules (a free owner is no client, finite sets of threads, bounds that
are naturals), which TLC evaluates on each run.

- `MemoryManagerProofs`. `CacheConsistency`: `TypeOK` and `CacheConsistent`
  are inductive together. `NodesMatchRecords` alone is not: `evictIfNeeded`
  takes the victim from a list, so one needs that lists hold only cached keys,
  each once, under its frequency, that no list is empty and that `minFreq`
  names one. `Refinement`: with that invariant each step is one of
  `BoundedStore`; the break for an empty list is unreachable. `TypeCorrect`
  follows. `EvictionInRecencyOrder` is about `EvictionOrder`, which remembers
  for each key the keys accessed before it: a key enters a list at the end, as
  the youngest of all, and leaves the order of the others alone. The converse,
  that who is older comes first, needs that of two keys at most one is older.
- `TransactionsProofs`. `LocksAreScoped`: each label of `pc` determines the
  locks its client holds. `DeadlocksAreNotifications`: so the owner of the lock
  a client waits for is at a place that tells which lock it waits for itself,
  and a circle, however long, has a notification and the clearing of a context
  in it. `WatchIsSound`: while a client watches a key, it is registered, or the
  write that is under way has it in its notification, or it is dirty; the
  invariant follows a write from `Write` through each round of notification
  against registration and clearing. It assumes clients that use no operation
  that writes in place. That EXEC then runs only when nobody wrote is not so,
  and not claimed: its flag is looked at before the database is locked (hazard
  at `EXECCommand.h:22`). `TransactionsLoseNoUpdate` assumes that clients write
  in transactions only: the exclusive lock then covers read and write; and by
  `TransactionsAreIsolated` nobody else changes a record while a client runs
  its queue. `TypeCorrect`: a command that runs is in `cmd` and, inside EXEC,
  at the head of the queue, and a notification that runs is in `rounds`.
- `TTLDatabaseProofs`. `ExpiryActsOnce`: a passed deadline is worth one
  deletion, owned by the map or by the sweep's list; `credit` is never below
  that worth. It needs that `ttlMutex` is held exactly by the reader that acts
  on a passed deadline, also while it announces the deletion to the observers
  (`Lazy`), so that nobody else erases the deadline meanwhile.
  `DeadlinesAreNotLost` and `LateReadsAreSwept`: a late GET that got past the
  check has its key in the list of the sweep. `TypeCorrect`: the type
  invariant, with the bound on `credit`.
- `ThreadPoolProofs`. `NoWorkerOversleeps`: by cardinalities; the statement is
  inductive with the types. `Refinement`: an accepted task is in one place (in
  the queue once, with one worker, or done), and a worker that left its loop
  left an empty queue. `TypeCorrect` needs the same.
- `PersistenceProofs`. `PersistenceTypes`, with which only mode snapshot has a
  thread, and a file has a torn record only if it was cut by a fault.
  `SnapshotsMakeNothingUp`: an object that only the copy holds has a value the
  key held when or after the map was copied: it got there by a deletion, which
  leaves it as it was, and a command that still has the record may go on
  changing it (`ChangeDeleted`), and what it writes then is in `held` too.
  `DeletedInv`: there is a copy only while it is read, and a key whose record
  in the copy is a deleted one was missing at some moment of the reading, as
  the abstract store asks of a late write.
  `PersistenceImplementsSnapshotStore`: the abstract snapshot is the file, or
  the temporary one between `remove` and `rename`; with the first two theorems
  each step of the thread is one of `SnapshotStore` or none.
- `StreamProofs`. `StreamTypes`. `IdsGrow`: ids are pairs of a time and a
  number; no time in the stream or under way is ahead of the clock, and among
  those of the clock's own millisecond no number is ahead of the counter
  (a restart takes a millisecond). So an id in hand is greater than all that
  was there when its clock was read, and differs from all others under way.
  `OnlyOverlapping` follows from that and from what a follower can have got.
  `ReadsPassOverNothing` follows from the types: the messages between the id of
  an XREAD and one up to the last it returns are fewer than its COUNT, and the
  least message after an id has none between.
  `GroupsImplementStream`: each step of `ConsumerGroups` is one of `Stream` or
  leaves it alone, so the theorems about ids hold of it too; `GroupsTypes` are
  its types. `UnackedStaysPending`: while an XREADGROUP is under way, a message
  of it is still to be entered, or entered, or somebody has begun to
  acknowledge it meanwhile (`touched`); entries are only removed by an XACK
  that has taken them from `unacked` before.
- `ServerProofs`. `TypeCorrect`: the types, with which tasks are accepted (the
  lines each client has entered, numbered from 1) and busy (those between two
  of their steps). It needs that the accepted tasks are finitely many: the
  bound on all lines is one on their number, and bounds the lines of a client.
  `PatientsStaySafe`: the pool holds each task in one place (`TasksOnce`), and a
  patient client has one task that is not done, and none at its prompt
  (`OneTask`). So while the loop serves a key of that client no worker touches
  its buffer, history or index, and what the loop has read of them is still
  true when it uses it (`LoopKnows`); while a worker runs its line, the line
  is still in the buffer and what was executed is in the history
  (`TaskCopies`, `IndexInRange`). A task that hangs stays where it is, and so
  keeps its client without a prompt; the theorem says that no key of a patient
  client ends the program, and leaves open what its commands do.
  `ServerImplementsTerminal`: what the terminal
  shows of a client depends on its own state, on the loop while it serves the
  client, and on how far its last task is; so each step is a stutter or the
  one step of `Terminal` for the client it concerns. Clients that type ahead,
  the other workers and the shutdown are there in both theorems, without any
  assumption on them.
- `CommandsProofs`, for any keys, words and widths. One lemma for each group of
  commands says what `execute` may make of a record (`Possible`, and `Allowed`,
  with the type it has, for all but SET and DEL); `TypeCorrect`,
  `RefusalsAreClean` and `TypesLast` follow. `RegistersTellTheSet`: adding one
  element keeps every register the highest count of those added to it, and
  PFADD adds its words one after the other; that indices and counts stay in
  range uses powers of two, as numbers of subsets. `SnapshotsGiveBack`
  (`SavedIsLoaded`): for each type, the cells of a value, their place in the
  flattened buffer, and that `deserialize` gives the value back, for a hash or
  a set in whatever order it was walked; a record is then read where the
  lengths before it say it begins. A file that ends early agrees with the whole
  one as far as it goes, so the loop has loaded the records before the cut and
  stops at it (`LoadInv`). This needs a type invariant that says that hashes
  are functions with finite domains, that sets are finite and that finitely
  many records exist; TLC checks it in run `commands`.

What a function that recurses over a sequence computes (`FlattenSeq`, the
loops of `Codec` and `HyperLogLog`) is proved without the induction theorems
of the library, which take an operator: a lemma shows that such a function
exists, that is, that it is one with the equations of its definition, by
collecting the numbers up to which it can be built in a set, and lemma
`Induction` (a set of naturals with 0 and all successors is all of `Nat`, from
the least number of its complement) does the rest.

Only model-checked: the liveness properties and the two violations. Liveness
needs `ENABLED`, and a violation is shown by one behaviour.

## 5. Not modelled

- Formatting of replies and prompts, the words of XREAD, XREADGROUP, XRANGE,
  XPENDING and XACK (`XREADGROUPCommand.h:43` looks at the word after the last
  if the line ends with COUNT and a number), option parsing, sockets, the
  vendored `headers/cxxopts-master`.
- `sizeInBytes` and `toString` of the values. The database counts the size of
  a record when it is inserted; memory, in `MemoryManager`, is whatever the
  counter of `operator new` says.
- The values of records where no property needs them; torn reads of the
  unlocked containers (undefined behaviour: a crash is possible wherever two
  workers touch `records`, a list or the messages of a stream at once, or the
  snapshot thread copies the map meanwhile, and nothing more can be said).
- The overloads with a TTL and the observers of the whole database, which
  nothing calls: with them the writes of the log.
- HyperLogLog estimates, a floating-point function of the registers.
- Deadlines across a restart (they are not saved); power loss (nothing is
  synced); a reboot, which sets back `steady_clock` and so the ids of streams.
- The second deletion of the database, by its `unique_ptr` at exit, and the
  detached snapshot thread that may still use it: both come after the last
  step of `Server`.

## 6. Plan

1. The composition of `TTLDatabase` and `Persistence`: what a restart does to
   records that had a deadline.
2. An abstract consumer group (each message delivered, then acknowledged) and
   in which cases `ConsumerGroups` implements it.
3. `Transactions` as a refinement of a store with atomic commands, for clients
   that write in transactions only: from `TransactionsLoseNoUpdate` and
   `TransactionsAreIsolated` most of the mapping is there.
