------------------------- MODULE TransactionsProofs -------------------------
(***************************************************************************)
(* Proofs about Transactions, for every set of clients and keys and every  *)
(* bound.                                                                  *)
(***************************************************************************)
EXTENDS Transactions, SequenceTheorems, TLAPS

-----------------------------------------------------------------------------
(* The locks.                                                              *)

(* EXEC and DISCARD run in a transaction, WATCH and the gates outside.     *)
InTxMatchesPc ==
    \A c \in Client :
        /\ pc[c] \in {"lockDatabase", "body", "clear", "unregister"} => inTx[c]
        /\ pc[c] \in {"watch", "register"} \cup Gates => ~inTx[c]

LockTypes ==
    /\ pc \in [Client -> Labels]
    /\ inTx \in [Client -> BOOLEAN]
    /\ dbMutex \in Client \cup {Nobody}
    /\ obsMutex \in Client \cup {Nobody}
    /\ txMutex \subseteq Client

(* The inductive invariant of the locks.                                   *)
LockInv == LockTypes /\ InTxMatchesPc /\ LocksMatchScopes

LEMMA InitLockInv == Init => LockInv
  BY NobodyAssumption
     DEF Init, LockInv, LockTypes, InTxMatchesPc, LocksMatchScopes,
         Labels, CommandLabels, NotifyLabels, UpdateLabels, Gates

(* A step of client c that moves its pc and leaves the locks and inTx      *)
(* alone keeps the invariant when the new place needs the same locks.      *)
LEMMA MoveLockInv ==
    ASSUME LockInv, NEW c \in Client, NEW l \in Labels, Goto(c, l),
           UNCHANGED <<dbMutex, obsMutex, txMutex, inTx>>,
           inTx[c] => (pc[c] \in CommandLabels \cup {"body"}
                          <=> l \in CommandLabels \cup {"body"}),
           pc[c] = "notifying" <=> l = "notifying",
           pc[c] = "unregister" <=> l = "unregister",
           l \in {"lockDatabase", "body", "clear", "unregister"} => inTx[c],
           l \in {"watch", "register"} \cup Gates => ~inTx[c]
    PROVE  LockInv'
  <1> USE DEF Goto, LockInv
  <1>1. LockTypes'
    BY DEF LockTypes
  <1>2. InTxMatchesPc'
    BY DEF LockTypes, InTxMatchesPc
  <1>3. LocksMatchScopes'
    BY DEF LockTypes, LocksMatchScopes
  <1> QED
    BY <1>1, <1>2, <1>3

(* A command that calls the database, replies or throws.                   *)
LEMMA CallLockInv ==
    ASSUME LockInv, NEW c \in Client,
           pc[c] \in UpdateLabels \cup {"body"} \/ (pc[c] = "idle" /\ ~inTx[c]),
           NEW gate \in Gates, Call(c, gate),
           UNCHANGED <<dbMutex, obsMutex, txMutex, inTx>>
    PROVE  LockInv'
  <1> DEFINE l == IF inTx[c] THEN AfterGate(gate) ELSE gate
  <1>1. l \in UpdateLabels /\ Goto(c, l) /\ (l \in Gates => ~inTx[c])
    BY DEF Call, Gates, AfterGate, UpdateLabels
  <1> HIDE DEF l
  <1> QED
    BY <1>1, MoveLockInv
       DEF Labels, CommandLabels, UpdateLabels, NotifyLabels, Gates

LEMMA ReplyLockInv ==
    ASSUME LockInv, NEW c \in Client, pc[c] \in UpdateLabels, Reply(c),
           UNCHANGED <<dbMutex, obsMutex, txMutex, inTx>>
    PROVE  LockInv'
  <1> DEFINE l == IF inTx[c] THEN "body" ELSE "idle"
  <1>1. l \in Labels /\ Goto(c, l)
    BY DEF Reply, Labels
  <1> QED
    BY <1>1, MoveLockInv
       DEF CommandLabels, UpdateLabels, NotifyLabels, Gates

LEMMA ThrowLockInv ==
    ASSUME LockInv, NEW c \in Client, pc[c] \in UpdateLabels, Throw(c),
           UNCHANGED <<obsMutex, txMutex, inTx>>
    PROVE  LockInv'
  <1> USE DEF Goto, LockInv, Throw, CommandLabels, NotifyLabels, UpdateLabels,
              Gates
  <1>1. LockTypes'
    BY DEF LockTypes, Labels
  <1>2. InTxMatchesPc'
    BY DEF LockTypes, InTxMatchesPc
  <1>3. LocksMatchScopes'
    BY NobodyAssumption DEF LockTypes, LocksMatchScopes
  <1> QED
    BY <1>1, <1>2, <1>3

(* The commands.                                                           *)
LEMMA CommandLockInv ==
    ASSUME LockInv, NEW c \in Client, RunCommand(c)
    PROVE  LockInv'
  <1> USE DEF lockVars, ctxVars, dbVars, localVars, histVars
  <1>1. CASE PassGate(c)
    <2>1. /\ pc[c] \in Gates /\ AfterGate(pc[c]) \in Labels
          /\ AfterGate(pc[c]) \in UpdateLabels \ Gates
      BY <1>1 DEF PassGate, AfterGate, Gates, Labels, CommandLabels,
                  UpdateLabels
    <2> QED
      BY <1>1, <2>1, MoveLockInv
         DEF PassGate, CommandLabels, UpdateLabels, NotifyLabels, Gates
  <1>2. CASE IncrGet(c)
    <2>1. pc[c] \in UpdateLabels /\ "updateGate" \in Gates
      BY <1>2 DEF IncrGet, UpdateLabels, Gates
    <2>2. CASE Throw(c)
      BY <1>2, <2>1, <2>2, ThrowLockInv DEF IncrGet
    <2>3. CASE ~Throw(c)
      <3>1. /\ UNCHANGED <<dbMutex, obsMutex, txMutex, inTx>>
            /\ Reply(c) \/ Call(c, "updateGate")
        BY <1>2, <2>3 DEF IncrGet
      <3> QED
        BY <2>1, <3>1, ReplyLockInv, CallLockInv
    <2> QED
      BY <2>2, <2>3
  <1>3. CASE PushGet(c)
    <2>1. pc[c] \in UpdateLabels /\ "insertGate" \in Gates
      BY <1>3 DEF PushGet, UpdateLabels, Gates
    <2>2. /\ UNCHANGED <<dbMutex, obsMutex, txMutex, inTx>>
          /\ Reply(c) \/ Call(c, "insertGate")
      BY <1>3 DEF PushGet
    <2> QED
      BY <2>1, <2>2, ReplyLockInv, CallLockInv
  <1>4. CASE UpdateRecord(c)
    <2>1. pc[c] \in UpdateLabels /\ "insertGate" \in Gates
      BY <1>4 DEF UpdateRecord, UpdateLabels, Gates
    <2>2. /\ UNCHANGED <<dbMutex, obsMutex, txMutex, inTx>>
          /\ Goto(c, "notify") \/ Call(c, "insertGate")
      BY <1>4 DEF UpdateRecord, Announce
    <2> QED
      BY <2>1, <2>2, CallLockInv, MoveLockInv
         DEF Labels, CommandLabels, UpdateLabels, NotifyLabels, Gates
  <1>5. CASE InsertRecord(c)
    <2>1. pc[c] \in UpdateLabels
      BY <1>5 DEF InsertRecord, UpdateLabels
    <2>2. CASE Throw(c)
      BY <1>5, <2>1, <2>2, ThrowLockInv DEF InsertRecord
    <2>3. CASE ~Throw(c)
      <3>1. /\ UNCHANGED <<dbMutex, obsMutex, txMutex, inTx>>
            /\ Reply(c) \/ Goto(c, "notify")
        BY <1>5, <2>3 DEF InsertRecord, Announce
      <3> QED
        BY <2>1, <3>1, ReplyLockInv, MoveLockInv
           DEF Labels, CommandLabels, UpdateLabels, NotifyLabels, Gates
    <2> QED
      BY <2>2, <2>3
  <1>6. CASE DeleteRecord(c)
    <2>1. pc[c] \in UpdateLabels
      BY <1>6 DEF DeleteRecord, UpdateLabels
    <2>2. /\ UNCHANGED <<dbMutex, obsMutex, txMutex, inTx>>
          /\ Reply(c) \/ Goto(c, "notify")
      BY <1>6 DEF DeleteRecord, Announce
    <2> QED
      BY <2>1, <2>2, ReplyLockInv, MoveLockInv
         DEF Labels, CommandLabels, UpdateLabels, NotifyLabels, Gates
  <1>7. CASE NotifyBegin(c)
    <2> USE <1>7 DEF NotifyBegin, Goto, LockInv
    <2>1. LockTypes'
      BY DEF LockTypes, Labels, CommandLabels, NotifyLabels
    <2>2. InTxMatchesPc'
      BY DEF LockTypes, InTxMatchesPc, Gates
    <2>3. LocksMatchScopes'
      BY NobodyAssumption
         DEF LockTypes, LocksMatchScopes, CommandLabels, NotifyLabels
    <2> QED
      BY <2>1, <2>2, <2>3
  <1>8. CASE NotifyEnd(c)
    <2> USE <1>8 DEF NotifyEnd, Reply, Goto, LockInv
    <2>1. LockTypes'
      BY DEF LockTypes, Labels, CommandLabels, NotifyLabels
    <2>2. InTxMatchesPc'
      BY DEF LockTypes, InTxMatchesPc, Gates
    <2>3. LocksMatchScopes'
      BY NobodyAssumption
         DEF LockTypes, LocksMatchScopes, CommandLabels, NotifyLabels,
             UpdateLabels, Gates
    <2> QED
      BY <2>1, <2>2, <2>3
  <1>9. ASSUME NEW o \in Client, NotifyOne(c, o) PROVE LockInv'
    BY <1>9 DEF NotifyOne, LockInv, LockTypes, InTxMatchesPc, LocksMatchScopes
  <1> QED
    BY <1>1, <1>2, <1>3, <1>4, <1>5, <1>6, <1>7, <1>8, <1>9 DEF RunCommand

(* EXEC.                                                                   *)
LEMMA ExecLockInv ==
    ASSUME LockInv, NEW c \in Client, RunExec(c)
    PROVE  LockInv'
  <1> USE DEF lockVars, ctxVars, dbVars, localVars, histVars
  <1>1. CASE LockDatabase(c)
    <2> USE <1>1 DEF LockDatabase, Goto, LockInv
    <2>1. LockTypes' /\ InTxMatchesPc'
      BY DEF LockTypes, InTxMatchesPc, Labels, Gates
    <2>2. LocksMatchScopes'
      BY NobodyAssumption
         DEF LockTypes, InTxMatchesPc, LocksMatchScopes, CommandLabels,
             NotifyLabels, UpdateLabels, Gates
    <2> QED
      BY <2>1, <2>2
  <1>2. CASE ExecNext(c)
    <2>1. FirstGate(Head(queue[c]).op) \in Gates
      BY DEF FirstGate, Gates
    <2> QED
      BY <1>2, <2>1, CallLockInv DEF ExecNext, Begin
  <1>3. CASE ExecUnlock(c)
    <2> USE <1>3 DEF ExecUnlock, Goto, LockInv
    <2>1. LockTypes' /\ InTxMatchesPc'
      BY DEF LockTypes, InTxMatchesPc, Labels, Gates
    <2>2. LocksMatchScopes'
      BY NobodyAssumption
         DEF LockTypes, InTxMatchesPc, LocksMatchScopes, CommandLabels,
             NotifyLabels, UpdateLabels, Gates
    <2> QED
      BY <2>1, <2>2
  <1> QED
    BY <1>1, <1>2, <1>3 DEF RunExec

(* clearTransaction.                                                       *)
LEMMA ClearLockInv ==
    ASSUME LockInv, NEW c \in Client, RunClear(c)
    PROVE  LockInv'
  <1> USE DEF lockVars, ctxVars, dbVars, localVars, histVars, LockInv, Goto
  <1>1. CASE ClearBegin(c)
    <2>1. LockTypes' /\ InTxMatchesPc'
      BY <1>1 DEF ClearBegin, LockTypes, InTxMatchesPc, Labels, Gates
    <2>2. LocksMatchScopes'
      BY <1>1 DEF ClearBegin, LockTypes, LocksMatchScopes, CommandLabels,
                  NotifyLabels, UpdateLabels, Gates
    <2> QED
      BY <2>1, <2>2
  <1>2. ASSUME NEW k \in Key, Unregister(c, k) PROVE LockInv'
    BY <1>2 DEF Unregister, LockTypes, InTxMatchesPc, LocksMatchScopes
  <1>3. CASE ClearEnd(c)
    <2>1. LockTypes' /\ InTxMatchesPc'
      BY <1>3 DEF ClearEnd, ClearContext, LockTypes, InTxMatchesPc, Labels,
                  Gates
    <2>2. LocksMatchScopes'
      BY <1>3 DEF ClearEnd, ClearContext, LockTypes, LocksMatchScopes,
                  CommandLabels, NotifyLabels, UpdateLabels, Gates
    <2> QED
      BY <2>1, <2>2
  <1> QED
    BY <1>1, <1>2, <1>3 DEF RunClear

(* WATCH.                                                                  *)
LEMMA WatchLockInv ==
    ASSUME LockInv, NEW c \in Client, RunWatch(c)
    PROVE  LockInv'
  <1> USE DEF lockVars, ctxVars, dbVars, localVars, histVars
  <1>1. ~inTx[c]
    BY DEF RunWatch, Register, WatchEnd, WatchKey, LockInv, InTxMatchesPc
  <1>2. /\ UNCHANGED <<dbMutex, obsMutex, txMutex, inTx>>
        /\ pc[c] \in {"watch", "register"}
        /\ Goto(c, "idle") \/ Goto(c, "watch") \/ Goto(c, "register")
    BY DEF RunWatch, Register, WatchEnd, WatchKey
  <1> QED
    BY <1>1, <1>2, MoveLockInv DEF Labels

(* What a client sends.                                                    *)
LEMMA ReceiveLockInv ==
    ASSUME LockInv, NEW c \in Client, Receive(c)
    PROVE  LockInv'
  <1> USE DEF lockVars, ctxVars, dbVars, localVars, histVars
  <1>1. ASSUME NEW command \in Commands, StartCommand(c, command)
        PROVE  LockInv'
    <2>1. FirstGate(command.op) \in Gates
      BY DEF FirstGate, Gates
    <2> QED
      BY <1>1, <2>1, CallLockInv DEF StartCommand, Begin
  <1>2. ASSUME NEW command \in Commands, QueueCommand(c, command)
        PROVE  LockInv'
    BY <1>2 DEF QueueCommand, LockInv, LockTypes, InTxMatchesPc,
                LocksMatchScopes
  <1>3. CASE Multi(c)
    BY <1>3 DEF Multi, LockInv, LockTypes, InTxMatchesPc, LocksMatchScopes,
                CommandLabels, NotifyLabels, UpdateLabels, Gates
  <1>4. CASE Exec(c)
    <2>1. /\ pc[c] = "idle" /\ inTx[c]
          /\ UNCHANGED <<dbMutex, obsMutex, txMutex, inTx>>
          /\ Goto(c, "clear") \/ Goto(c, "lockDatabase")
      BY <1>4 DEF Exec
    <2> QED
      BY <2>1, MoveLockInv
         DEF Labels, CommandLabels, NotifyLabels, UpdateLabels, Gates
  <1>5. CASE Discard(c)
    BY <1>5, MoveLockInv
       DEF Discard, Labels, CommandLabels, NotifyLabels, UpdateLabels, Gates
  <1>6. ASSUME NEW ks \in SUBSET Key, WatchBegin(c, ks) PROVE LockInv'
    <2>1. UNCHANGED <<dbMutex, obsMutex, txMutex, inTx>>
      BY <1>6 DEF WatchBegin, ClearContext, LockInv, LockTypes
    <2>2. pc[c] = "idle" /\ ~inTx[c] /\ Goto(c, "watch")
      BY <1>6 DEF WatchBegin
    <2> QED
      BY <2>1, <2>2, MoveLockInv DEF Labels
  <1> QED
    BY <1>1, <1>2, <1>3, <1>4, <1>5, <1>6 DEF Receive

LEMMA NextLockInv == LockInv /\ [Next]_vars => LockInv'
  <1>1. ASSUME LockInv, UNCHANGED vars PROVE LockInv'
    BY <1>1 DEF vars, lockVars, ctxVars, LockInv, LockTypes, InTxMatchesPc,
                LocksMatchScopes
  <1> QED
    BY <1>1, CommandLockInv, ExecLockInv, ClearLockInv, WatchLockInv,
       ReceiveLockInv DEF Next

(* Each lock is held exactly in its scope, in every reachable state: an    *)
(* exception that leaves EXEC releases the lock of the database, and no    *)
(* two clients run their queues at the same time.                          *)
THEOREM LocksAreScoped == Spec => []LocksMatchScopes
  BY InitLockInv, NextLockInv, PTL DEF Spec, LockInv

(* The owner of the lock a client waits for waits nowhere for that lock    *)
(* and, if it is deadlocked itself, only as OnlyNotificationsDeadlock says. *)
LEMMA LockInvDeadlocks == LockInv => OnlyNotificationsDeadlock
<1>1. SUFFICES ASSUME LockInv, NEW S \in SUBSET Client, Deadlocked(S)
               PROVE  \E c, w \in S :
                          /\ pc[c] = "notifying" /\ WaitsFor(c, w)
                          /\ pc[w] = "unregister" /\ WaitsFor(w, c)
  BY DEF OnlyNotificationsDeadlock
<1>2. ASSUME NEW c \in S, pc[c] = "notifying"
      PROVE  \E w \in S : /\ WaitsFor(c, w)
                          /\ pc[w] = "unregister" /\ WaitsFor(w, c)
  <2>1. PICK w \in S : WaitsFor(c, w)
    BY <1>1 DEF Deadlocked
  <2>2. w \in todo[c] \cap txMutex
    BY <1>2, <2>1 DEF WaitsFor, Gates
  <2>3. pc[w] = "unregister"
    BY <1>1, <2>2 DEF LockInv, LocksMatchScopes
  <2>4. PICK v \in S : WaitsFor(w, v)
    BY <1>1 DEF Deadlocked
  <2>5. obsMutex = v
    BY <2>3, <2>4 DEF WaitsFor, Gates
  <2>6. obsMutex = c
    BY <1>1, <1>2 DEF LockInv, LocksMatchScopes
  <2> QED
    BY <2>1, <2>3, <2>4, <2>5, <2>6
<1>3. ASSUME NEW c \in S, pc[c] \in {"notify", "register", "unregister"}
      PROVE  \E w \in S : pc[w] = "notifying"
  <2>1. PICK w \in S : WaitsFor(c, w)
    BY <1>1 DEF Deadlocked
  <2>2. obsMutex = w
    BY <1>3, <2>1 DEF WaitsFor, Gates
  <2> QED
    BY <1>1, <2>2 DEF LockInv, LocksMatchScopes
<1>4. \E w \in S : pc[w] = "notifying"
  <2>1. PICK c \in S : \E w \in S : WaitsFor(c, w)
    BY <1>1 DEF Deadlocked
  <2>2. PICK w \in S : WaitsFor(c, w)
    BY <2>1
  <2>3. CASE pc[c] \in {"notifying", "notify", "register", "unregister"}
    BY <1>3, <2>3
  <2>4. CASE pc[c] \notin {"notifying", "notify", "register", "unregister"}
    <3>1. dbMutex = w
      BY <2>2, <2>4 DEF WaitsFor
    <3>2. inTx[w] /\ pc[w] \in CommandLabels \cup {"body"}
      BY <1>1, <3>1 DEF LockInv, LocksMatchScopes
    <3>3. pc[w] \notin Gates \cup {"lockDatabase"}
      BY <1>1, <3>2
         DEF LockInv, InTxMatchesPc, CommandLabels, UpdateLabels,
             NotifyLabels, Gates
    <3>4. PICK v \in S : WaitsFor(w, v)
      BY <1>1 DEF Deadlocked
    <3>5. pc[w] \in {"notifying", "notify", "register", "unregister"}
      BY <3>3, <3>4 DEF WaitsFor
    <3> QED
      BY <1>3, <3>5
  <2> QED
    BY <2>3, <2>4
<1> QED
  BY <1>2, <1>4

(* Clients that wait for each other in a circle are always a notification  *)
(* and a clearTransaction, whatever number of clients there is and however *)
(* long the circle; no client waits for a lock it holds itself.            *)
THEOREM DeadlocksAreNotifications == Spec => []OnlyNotificationsDeadlock
<1>1. Spec => []LockInv
  BY InitLockInv, NextLockInv, PTL DEF Spec
<1> QED
  BY <1>1, LockInvDeadlocks, PTL

-----------------------------------------------------------------------------
(* WATCH.  LPUSH writes in place and notifies nobody; the theorem is about *)
(* clients that do not use it.                                             *)
NoInPlaceOps == "LPUSH" \notin DirectOps \cup QueuedOps

WatchCommands == [op : {"WATCH"}, key : Key]

WatchTypes ==
    /\ deps \in [Key -> SUBSET Client]
    /\ dirty \in [Client -> BOOLEAN]
    /\ watched \in [Client -> SUBSET Key]
    /\ session \in [Client -> SUBSET Key]
    /\ due \in [Client -> SUBSET Client]
    /\ acked \subseteq Client
    /\ todo \in [Client -> SUBSET Client]
    /\ keys \in [Client -> SUBSET Key]

CommandTypes ==
    /\ cmd \in [Client -> Commands \cup WatchCommands \cup {NoCommand}]
    /\ queue \in [Client -> Seq(Commands)]
    /\ \A c \in Client :
          /\ pc[c] \in CommandLabels =>
                cmd[c] \in Commands /\ (inTx[c] => queue[c] # <<>>)
          /\ pc[c] = "register" => /\ cmd[c] \in WatchCommands
                                   /\ cmd[c].key \in watched[c]

(* A key watched with success is in the context and registered.            *)
SessionRegistered ==
    \A o \in Client : \A k \in session[o] : k \in watched[o] /\ o \in deps[k]

(* A client that unregisters is owed nothing any more.                     *)
ClearingForgotten ==
    \A o \in Client : pc[o] = "unregister" =>
        session[o] = {} /\ o \notin acked /\ \A w \in Client : o \notin due[w]

(* A write under way still reaches every client it is due to: it has       *)
(* marked the client, or it will find it registered, or it has found it.   *)
DueIsReached ==
    \A w \in Client : \A o \in due[w] :
        /\ pc[w] \in NotifyLabels
        /\ ~dirty[o] =>
              /\ cmd[w].key \in watched[o]
              /\ pc[w] = "notify" => o \in deps[cmd[w].key]
              /\ pc[w] = "notifying" => o \in todo[w]

(* The inductive invariant of WATCH.                                       *)
WatchInv ==
    /\ LockInv /\ WatchTypes /\ CommandTypes /\ SessionRegistered
    /\ ClearingForgotten /\ DueIsReached /\ AcknowledgedWritesAreSeen

LEMMA InitWatchInv == Init => WatchInv
  <1> SUFFICES ASSUME Init PROVE WatchInv
    OBVIOUS
  <1>1. WatchTypes
    BY DEF Init, WatchTypes
  <1>2. CommandTypes
    BY DEF Init, CommandTypes, CommandLabels, NotifyLabels, UpdateLabels, Gates
  <1>3. /\ SessionRegistered /\ ClearingForgotten /\ DueIsReached
        /\ AcknowledgedWritesAreSeen
    BY DEF Init, SessionRegistered, ClearingForgotten, DueIsReached,
           AcknowledgedWritesAreSeen
  <1> QED
    BY <1>1, <1>2, <1>3, InitLockInv DEF WatchInv

(* A step of c that concerns neither watches nor notifications.            *)
LEMMA MoveWatchInv ==
    ASSUME WatchInv, LockInv', NEW c \in Client,
           NEW l \in Labels \ {"unregister", "register"}, Goto(c, l),
           NEW m \in Commands \cup WatchCommands \cup {NoCommand},
           cmd' = [cmd EXCEPT ![c] = m], l \in CommandLabels => m \in Commands,
           NEW q \in Seq(Commands), queue' = [queue EXCEPT ![c] = q],
           l \in CommandLabels /\ inTx[c] => q # <<>>,
           keys' \in [Client -> SUBSET Key],
           pc[c] \notin NotifyLabels,
           UNCHANGED <<inTx, deps, dirty, watched, session, due, acked, todo>>
    PROVE  WatchInv'
  <1> USE DEF WatchInv, LockInv, LockTypes, Goto
  <1>1. WatchTypes'
    BY DEF WatchTypes
  <1>2. CommandTypes'
    BY DEF CommandTypes
  <1>3. SessionRegistered' /\ AcknowledgedWritesAreSeen'
    BY DEF SessionRegistered, AcknowledgedWritesAreSeen
  <1>4. ClearingForgotten'
    BY DEF ClearingForgotten
  <1>5. DueIsReached'
    <2> SUFFICES ASSUME NEW w \in Client, NEW o \in due[w]
                 PROVE  /\ pc'[w] \in NotifyLabels
                        /\ ~dirty[o] =>
                              /\ cmd'[w].key \in watched[o]
                              /\ pc'[w] = "notify" => o \in deps[cmd'[w].key]
                              /\ pc'[w] = "notifying" => o \in todo[w]
      BY DEF DueIsReached
    <2>1. w # c
      BY DEF DueIsReached
    <2>2. pc'[w] = pc[w] /\ cmd'[w] = cmd[w]
      BY <2>1 DEF CommandTypes
    <2> QED
      BY <2>2 DEF DueIsReached
  <1> QED
    BY <1>1, <1>2, <1>3, <1>4, <1>5

(* Calls, replies and exceptions of commands are such steps.               *)
LEMMA CallWatchInv ==
    ASSUME WatchInv, LockInv', NEW c \in Client,
           NEW gate \in Gates, Call(c, gate),
           NEW m \in Commands, cmd' = [cmd EXCEPT ![c] = m],
           inTx[c] => queue[c] # <<>>,
           pc[c] \notin NotifyLabels,
           UNCHANGED <<queue, keys, inTx, deps, dirty, watched, session, due,
                       acked, todo>>
    PROVE  WatchInv'
  <1> DEFINE l == IF inTx[c] THEN AfterGate(gate) ELSE gate
  <1>1. l \in UpdateLabels /\ Goto(c, l)
    BY DEF Call, Gates, AfterGate, UpdateLabels
  <1>2. l \in Labels \ {"unregister", "register"}
    BY <1>1 DEF Labels, CommandLabels, UpdateLabels, Gates
  <1>3. /\ queue[c] \in Seq(Commands)
        /\ queue' = [queue EXCEPT ![c] = queue[c]]
        /\ keys' \in [Client -> SUBSET Key]
    BY DEF WatchInv, CommandTypes, WatchTypes
  <1> HIDE DEF l
  <1> QED
    BY <1>1, <1>2, <1>3, MoveWatchInv

LEMMA ReplyWatchInv ==
    ASSUME WatchInv, LockInv', NEW c \in Client, pc[c] \in UpdateLabels, Reply(c),
           UNCHANGED <<keys, inTx, deps, dirty, watched, session, due, acked,
                       todo>>
    PROVE  WatchInv'
  <1> DEFINE l == IF inTx[c] THEN "body" ELSE "idle"
             q == IF inTx[c] THEN Tail(queue[c]) ELSE queue[c]
  <1>1. l \in Labels \ {"unregister", "register"} /\ l \notin CommandLabels
    BY DEF Labels, CommandLabels, UpdateLabels, NotifyLabels, Gates
  <1>2. q \in Seq(Commands)
    BY DEF WatchInv, CommandTypes, CommandLabels
  <1>3. queue' = [queue EXCEPT ![c] = q]
    BY DEF WatchInv, CommandTypes, Reply
  <1>4. /\ Goto(c, l) /\ cmd' = [cmd EXCEPT ![c] = NoCommand]
        /\ keys' \in [Client -> SUBSET Key]
        /\ pc[c] \notin NotifyLabels
    BY DEF WatchInv, WatchTypes, Reply, UpdateLabels, NotifyLabels, Gates
  <1> HIDE DEF l, q
  <1> QED
    BY <1>1, <1>2, <1>3, <1>4, MoveWatchInv

LEMMA ThrowWatchInv ==
    ASSUME WatchInv, LockInv', NEW c \in Client, pc[c] \in UpdateLabels, Throw(c),
           UNCHANGED <<queue, keys, inTx, deps, dirty, watched, session, due,
                       acked, todo>>
    PROVE  WatchInv'
  <1>1. /\ "idle" \in Labels \ {"unregister", "register"}
        /\ "idle" \notin CommandLabels
    BY DEF Labels, CommandLabels, UpdateLabels, NotifyLabels, Gates
  <1>2. /\ queue[c] \in Seq(Commands)
        /\ queue' = [queue EXCEPT ![c] = queue[c]]
        /\ keys' \in [Client -> SUBSET Key]
    BY DEF WatchInv, CommandTypes, WatchTypes
  <1>3. /\ Goto(c, "idle") /\ cmd' = [cmd EXCEPT ![c] = NoCommand]
        /\ pc[c] \notin NotifyLabels
    BY DEF Throw, UpdateLabels, NotifyLabels, Gates
  <1> QED
    BY <1>1, <1>2, <1>3, MoveWatchInv

(* A write is due to the clients that watch its key: each is registered.   *)
LEMMA AnnounceWatchInv ==
    ASSUME WatchInv, LockInv', NEW c \in Client, pc[c] \in UpdateLabels,
           NEW n, Announce(c, n),
           UNCHANGED <<inTx, queue, cmd, keys, deps, dirty, watched, session,
                       acked, todo>>
    PROVE  WatchInv'
  <1> USE DEF WatchInv, LockInv, LockTypes, Goto, Announce, Watchers
  <1>1. pc[c] \in CommandLabels /\ pc[c] \notin NotifyLabels
    BY DEF CommandLabels, UpdateLabels, NotifyLabels, Gates
  <1>2. WatchTypes'
    BY DEF WatchTypes
  <1>3. CommandTypes'
    BY <1>1 DEF CommandTypes, CommandLabels, NotifyLabels
  <1>4. SessionRegistered' /\ AcknowledgedWritesAreSeen'
    BY DEF SessionRegistered, AcknowledgedWritesAreSeen
  <1>5. ClearingForgotten'
    BY DEF ClearingForgotten, WatchTypes
  <1>6. DueIsReached'
    <2> SUFFICES ASSUME NEW w \in Client, NEW o \in due'[w]
                 PROVE  /\ pc'[w] \in NotifyLabels
                        /\ ~dirty[o] =>
                              /\ cmd[w].key \in watched[o]
                              /\ pc'[w] = "notify" => o \in deps[cmd[w].key]
                              /\ pc'[w] = "notifying" => o \in todo[w]
      BY DEF DueIsReached
    <2>1. CASE w = c
      BY <1>1, <2>1 DEF DueIsReached, WatchTypes, SessionRegistered,
                        NotifyLabels
    <2>2. CASE w # c
      BY <2>2 DEF DueIsReached, WatchTypes
    <2> QED
      BY <2>1, <2>2
  <1> QED
    BY <1>2, <1>3, <1>4, <1>5, <1>6

(* The notification has found the clients registered for the key.          *)
LEMMA NotifyBeginWatchInv ==
    ASSUME WatchInv, LockInv', NEW c \in Client, NotifyBegin(c)
    PROVE  WatchInv'
  <1> USE DEF WatchInv, LockInv, LockTypes, Goto, NotifyBegin, ctxVars, dbVars,
              histVars
  <1>1. pc[c] \in CommandLabels
    BY DEF CommandLabels, NotifyLabels
  <1>2. cmd[c].key \in Key
    BY <1>1 DEF CommandTypes, Commands
  <1>3. WatchTypes'
    BY <1>2 DEF WatchTypes
  <1>4. CommandTypes'
    BY <1>1 DEF CommandTypes
  <1>5. SessionRegistered' /\ AcknowledgedWritesAreSeen'
    BY DEF SessionRegistered, AcknowledgedWritesAreSeen
  <1>6. ClearingForgotten'
    BY DEF ClearingForgotten
  <1>7. DueIsReached'
    BY DEF DueIsReached, WatchTypes, NotifyLabels
  <1> QED
    BY <1>3, <1>4, <1>5, <1>6, <1>7

(* It marks them: each watches the key, unless it is dirty already.        *)
LEMMA NotifyOneWatchInv ==
    ASSUME WatchInv, LockInv', NEW c \in Client, NEW d \in Client, NotifyOne(c, d)
    PROVE  WatchInv'
  <1> USE DEF WatchInv, LockInv, LockTypes, NotifyOne, dbVars, histVars
  <1>1. /\ WatchTypes' /\ CommandTypes'
    BY DEF WatchTypes, CommandTypes
  <1>2. SessionRegistered' /\ ClearingForgotten'
    BY DEF SessionRegistered, ClearingForgotten
  <1>3. /\ dirty'[d] = (dirty[d] \/ cmd[c].key \in watched[d])
        /\ \A o \in Client \ {d} : dirty'[o] = dirty[o]
        /\ \A o \in Client : dirty[o] => dirty'[o]
    BY DEF WatchTypes
  <1>4. AcknowledgedWritesAreSeen'
    BY <1>3 DEF AcknowledgedWritesAreSeen, WatchTypes
  <1>5. DueIsReached'
    <2> SUFFICES ASSUME NEW w \in Client, NEW o \in due[w]
                 PROVE  /\ pc[w] \in NotifyLabels
                        /\ ~dirty'[o] =>
                              /\ cmd[w].key \in watched[o]
                              /\ pc[w] = "notify" => o \in deps[cmd[w].key]
                              /\ pc[w] = "notifying" => o \in todo'[w]
      BY DEF DueIsReached
    <2>1. o \in Client
      BY DEF WatchTypes
    <2>2. CASE w = c /\ o = d
      BY <1>3, <2>1, <2>2 DEF DueIsReached
    <2>3. CASE ~(w = c /\ o = d)
      <3>1. o \in todo[w] => o \in todo'[w]
        BY <2>1, <2>3 DEF WatchTypes
      <3> QED
        BY <1>3, <2>1, <3>1 DEF DueIsReached
    <2> QED
      BY <2>2, <2>3
  <1> QED
    BY <1>1, <1>2, <1>4, <1>5

(* When it has reached them all, all the clients it is due to are dirty.   *)
LEMMA NotifyEndWatchInv ==
    ASSUME WatchInv, LockInv', NEW c \in Client, NotifyEnd(c)
    PROVE  WatchInv'
  <1> USE DEF WatchInv, LockInv, LockTypes, Goto, NotifyEnd, dbVars, histVars
  <1>1. pc[c] \in CommandLabels /\ pc[c] \in NotifyLabels
    BY DEF CommandLabels, NotifyLabels
  <1>2. \A o \in due[c] : dirty[o]
    BY DEF DueIsReached
  <1>3. CASE rounds[c] > 1
    <2>1. /\ WatchTypes' /\ SessionRegistered' /\ ClearingForgotten'
          /\ AcknowledgedWritesAreSeen'
      BY <1>3 DEF WatchTypes, SessionRegistered, ClearingForgotten,
                  AcknowledgedWritesAreSeen
    <2>2. CommandTypes'
      BY <1>1, <1>3 DEF CommandTypes
    <2>3. DueIsReached'
      BY <1>2, <1>3 DEF DueIsReached, NotifyLabels
    <2> QED
      BY <2>1, <2>2, <2>3
  <1>4. CASE ~(rounds[c] > 1)
    <2> USE <1>4 DEF Reply
    <2>1. /\ due' = [due EXCEPT ![c] = {}]
          /\ acked' = acked \cup due[c]
          /\ UNCHANGED <<session, deps, dirty, watched, todo, keys>>
      OBVIOUS
    <2>2. WatchTypes'
      BY <2>1 DEF WatchTypes
    <2>3. CommandTypes'
      <3>1. inTx[c] => Tail(queue[c]) \in Seq(Commands)
        BY <1>1 DEF CommandTypes
      <3>2. /\ queue' \in [Client -> Seq(Commands)]
            /\ cmd' \in [Client -> Commands \cup WatchCommands \cup {NoCommand}]
        BY <3>1 DEF CommandTypes
      <3>3. pc'[c] \notin CommandLabels /\ pc'[c] # "register"
        BY DEF CommandLabels, NotifyLabels, UpdateLabels, Gates
      <3>4. \A w \in Client \ {c} :
               /\ pc'[w] = pc[w] /\ cmd'[w] = cmd[w] /\ inTx'[w] = inTx[w]
               /\ queue'[w] = queue[w] /\ watched'[w] = watched[w]
        BY DEF CommandTypes
      <3> QED
        BY <3>2, <3>3, <3>4 DEF CommandTypes
    <2>4. SessionRegistered' /\ AcknowledgedWritesAreSeen'
      BY <1>2, <2>1 DEF SessionRegistered, AcknowledgedWritesAreSeen
    <2>5. ClearingForgotten'
      BY <2>1 DEF ClearingForgotten, WatchTypes
    <2>6. DueIsReached'
      BY <2>1 DEF DueIsReached, CommandTypes, WatchTypes
    <2> QED
      BY <2>2, <2>3, <2>4, <2>5, <2>6
  <1> QED
    BY <1>3, <1>4

LEMMA CommandWatchInv ==
    ASSUME NoInPlaceOps, WatchInv, LockInv', NEW c \in Client, RunCommand(c)
    PROVE  WatchInv'
  <1> USE DEF lockVars, ctxVars, dbVars, localVars, histVars
  <1>a. pc[c] \in CommandLabels => /\ cmd[c] \in Commands
                                   /\ inTx[c] => queue[c] # <<>>
                                   /\ cmd = [cmd EXCEPT ![c] = cmd[c]]
    BY DEF WatchInv, CommandTypes
  <1>b. UpdateLabels \subseteq CommandLabels /\ UpdateLabels \cap NotifyLabels = {}
    BY DEF CommandLabels, UpdateLabels, NotifyLabels, Gates
  <1>1. CASE PassGate(c)
    <2>1. /\ AfterGate(pc[c]) \in UpdateLabels /\ pc[c] \in UpdateLabels
          /\ Goto(c, AfterGate(pc[c]))
      BY <1>1 DEF PassGate, AfterGate, Gates, UpdateLabels
    <2>2. AfterGate(pc[c]) \in Labels \ {"unregister", "register"}
      BY <2>1 DEF Labels, CommandLabels, UpdateLabels, Gates
    <2>3. /\ queue[c] \in Seq(Commands)
          /\ queue' = [queue EXCEPT ![c] = queue[c]]
          /\ keys' \in [Client -> SUBSET Key]
          /\ cmd' = [cmd EXCEPT ![c] = cmd[c]]
          /\ UNCHANGED <<inTx, deps, dirty, watched, session, due, acked, todo>>
      BY <1>1 DEF PassGate, WatchInv, CommandTypes, WatchTypes
    <2> QED
      BY <1>a, <1>b, <2>1, <2>2, <2>3, MoveWatchInv
  <1>2. CASE IncrGet(c)
    <2>1. /\ pc[c] \in UpdateLabels /\ "updateGate" \in Gates
          /\ UNCHANGED <<keys, inTx, deps, dirty, watched, session, due, acked,
                         todo>>
      BY <1>2 DEF IncrGet, UpdateLabels, Gates
    <2>2. \/ Throw(c) /\ UNCHANGED queue
          \/ Reply(c)
          \/ Call(c, "updateGate") /\ UNCHANGED <<cmd, queue>>
      BY <1>2 DEF IncrGet
    <2> QED
      BY <1>a, <1>b, <2>1, <2>2, ThrowWatchInv, ReplyWatchInv, CallWatchInv
  <1>3. CASE PushGet(c)
    BY <1>3, <1>a DEF PushGet, NoInPlaceOps, Commands, CommandLabels,
                      UpdateLabels
  <1>4. CASE UpdateRecord(c)
    <2>1. /\ pc[c] \in UpdateLabels /\ "insertGate" \in Gates
          /\ UNCHANGED <<queue, cmd, keys, inTx, deps, dirty, watched, session,
                         acked, todo>>
          /\ \/ Announce(c, 1)
             \/ Call(c, "insertGate") /\ UNCHANGED due
      BY <1>4 DEF UpdateRecord, UpdateLabels, Gates
    <2> QED
      BY <1>a, <1>b, <2>1, AnnounceWatchInv, CallWatchInv
  <1>5. CASE InsertRecord(c)
    <2>1. /\ pc[c] \in UpdateLabels
          /\ UNCHANGED <<keys, inTx, deps, dirty, watched, session, acked, todo>>
      BY <1>5 DEF InsertRecord, UpdateLabels
    <2>2. \/ /\ Announce(c, IF cmd[c].op = "LPUSH" THEN 1 ELSE 2)
             /\ UNCHANGED <<cmd, queue>>
          \/ Reply(c) /\ UNCHANGED due
          \/ Throw(c) /\ UNCHANGED <<queue, due>>
      BY <1>5 DEF InsertRecord
    <2> QED
      BY <2>1, <2>2, ThrowWatchInv, ReplyWatchInv, AnnounceWatchInv
  <1>6. CASE DeleteRecord(c)
    <2>1. /\ pc[c] \in UpdateLabels
          /\ UNCHANGED <<keys, inTx, deps, dirty, watched, session, acked, todo>>
          /\ \/ Announce(c, 1) /\ UNCHANGED <<cmd, queue>>
             \/ Reply(c) /\ UNCHANGED due
      BY <1>6 DEF DeleteRecord, UpdateLabels
    <2> QED
      BY <2>1, ReplyWatchInv, AnnounceWatchInv
  <1> QED
    BY <1>1, <1>2, <1>3, <1>4, <1>5, <1>6, NotifyBeginWatchInv,
       NotifyOneWatchInv, NotifyEndWatchInv DEF RunCommand

(* EXEC.                                                                   *)
LEMMA ExecWatchInv ==
    ASSUME WatchInv, LockInv', NEW c \in Client, RunExec(c)
    PROVE  WatchInv'
  <1> USE DEF lockVars, ctxVars, dbVars, localVars, histVars
  <1>1. CASE ExecNext(c)
    <2>1. /\ Head(queue[c]) \in Commands
          /\ pc[c] \notin NotifyLabels
          /\ queue[c] # <<>>
          /\ FirstGate(Head(queue[c]).op) \in Gates
      BY <1>1 DEF ExecNext, WatchInv, CommandTypes, NotifyLabels, FirstGate,
                  Gates
    <2>2. /\ Call(c, FirstGate(Head(queue[c]).op))
          /\ cmd' = [cmd EXCEPT ![c] = Head(queue[c])]
          /\ UNCHANGED <<queue, keys, inTx, deps, dirty, watched, session, due,
                         acked, todo>>
      BY <1>1 DEF ExecNext, Begin
    <2> QED
      BY <2>1, <2>2, CallWatchInv
  <1>2. CASE LockDatabase(c) \/ ExecUnlock(c)
    <2>1. /\ Goto(c, "body") \/ Goto(c, "clear")
          /\ pc[c] \notin NotifyLabels /\ pc[c] \notin CommandLabels
          /\ pc[c] # "register"
          /\ UNCHANGED <<queue, cmd, keys, inTx, deps, dirty, watched, session,
                         due, acked, todo>>
      BY <1>2 DEF LockDatabase, ExecUnlock, NotifyLabels, CommandLabels,
                  UpdateLabels, Gates
    <2>2. {"body", "clear"} \subseteq
             Labels \ ({"unregister", "register"} \cup CommandLabels)
      BY DEF Labels, CommandLabels, UpdateLabels, NotifyLabels, Gates
    <2>3. /\ queue[c] \in Seq(Commands)
          /\ queue' = [queue EXCEPT ![c] = queue[c]]
          /\ keys' \in [Client -> SUBSET Key]
          /\ cmd' = [cmd EXCEPT ![c] = cmd[c]]
          /\ cmd[c] \in Commands \cup WatchCommands \cup {NoCommand}
      BY <2>1 DEF WatchInv, CommandTypes, WatchTypes
    <2> QED
      BY <2>1, <2>2, <2>3, MoveWatchInv
  <1> QED
    BY <1>1, <1>2 DEF RunExec

(* clearTransaction: the client gives up its watches before it drops its   *)
(* registrations, and those before its context.                            *)
LEMMA ClearWatchInv ==
    ASSUME WatchInv, LockInv', NEW c \in Client, RunClear(c)
    PROVE  WatchInv'
  <1> USE DEF dbVars, ctxVars, lockVars, localVars, histVars, Goto, LockInv,
              LockTypes, WatchInv
  <1>0. "idle" \notin CommandLabels /\ "unregister" \notin CommandLabels
    BY DEF CommandLabels, UpdateLabels, NotifyLabels, Gates
  <1>1. CASE ClearBegin(c)
    <2>1. /\ \A o \in Client : session'[o] = IF o = c THEN {} ELSE session[o]
          /\ \A w \in Client : due'[w] = due[w] \ {c}
          /\ acked' = acked \ {c}
          /\ session' \in [Client -> SUBSET Key]
          /\ due' \in [Client -> SUBSET Client]
          /\ keys' \in [Client -> SUBSET Key]
          /\ UNCHANGED <<deps, dirty, watched, todo, cmd, queue, inTx>>
          /\ pc[c] = "clear" /\ pc' = [pc EXCEPT ![c] = "unregister"]
      BY <1>1 DEF ClearBegin, Forget, WatchTypes
    <2>2. WatchTypes'
      BY <2>1 DEF WatchTypes
    <2>3. CommandTypes'
      BY <1>0, <2>1 DEF CommandTypes
    <2>4. SessionRegistered' /\ AcknowledgedWritesAreSeen'
      BY <2>1 DEF SessionRegistered, AcknowledgedWritesAreSeen
    <2>5. ClearingForgotten'
      BY <2>1 DEF ClearingForgotten
    <2>6. DueIsReached'
      BY <2>1 DEF DueIsReached, NotifyLabels
    <2> QED
      BY <2>2, <2>3, <2>4, <2>5, <2>6
  <1>2. ASSUME NEW k \in Key, Unregister(c, k) PROVE WatchInv'
    <2>1. /\ pc[c] = "unregister"
          /\ deps' = [deps EXCEPT ![k] = @ \ {c}]
          /\ keys' = [keys EXCEPT ![c] = @ \ {k}]
          /\ UNCHANGED <<session, due, acked, dirty, watched, todo, cmd, queue,
                         inTx, pc>>
      BY <1>2 DEF Unregister
    <2>2. session[c] = {} /\ c \notin acked /\ \A w \in Client : c \notin due[w]
      BY <2>1 DEF ClearingForgotten
    <2>3. \A o \in Client \ {c} : \A j \in Key : o \in deps[j] => o \in deps'[j]
      BY <2>1 DEF WatchTypes
    <2>4. WatchTypes'
      BY <2>1 DEF WatchTypes
    <2>5. /\ CommandTypes' /\ ClearingForgotten' /\ AcknowledgedWritesAreSeen'
      BY <2>1 DEF CommandTypes, ClearingForgotten, AcknowledgedWritesAreSeen
    <2>6. SessionRegistered'
      BY <2>1, <2>2, <2>3 DEF SessionRegistered, WatchTypes
    <2>7. DueIsReached'
      <3> SUFFICES ASSUME NEW w \in Client, NEW o \in due[w],
                          pc[w] = "notify", o \in deps[cmd[w].key]
                   PROVE  o \in deps'[cmd[w].key]
        BY <2>1 DEF DueIsReached
      <3>1. cmd[w].key \in Key /\ o \in Client /\ o # c
        BY <2>2 DEF CommandTypes, Commands, CommandLabels, NotifyLabels,
                    WatchTypes
      <3> QED
        BY <2>3, <3>1
    <2> QED
      BY <2>1, <2>4, <2>5, <2>6, <2>7
  <1>3. CASE ClearEnd(c)
    <2>1. /\ pc[c] = "unregister"
          /\ pc' = [pc EXCEPT ![c] = "idle"]
          /\ dirty' = [dirty EXCEPT ![c] = FALSE]
          /\ watched' = [watched EXCEPT ![c] = {}]
          /\ queue' = [queue EXCEPT ![c] = <<>>]
          /\ inTx' = [inTx EXCEPT ![c] = FALSE]
          /\ UNCHANGED <<session, due, acked, deps, todo, cmd, keys>>
      BY <1>3 DEF ClearEnd, ClearContext
    <2>2. session[c] = {} /\ c \notin acked /\ \A w \in Client : c \notin due[w]
      BY <2>1 DEF ClearingForgotten
    <2>3. WatchTypes'
      BY <2>1 DEF WatchTypes
    <2>4. CommandTypes'
      BY <1>0, <2>1 DEF CommandTypes
    <2>5. SessionRegistered' /\ AcknowledgedWritesAreSeen' /\ ClearingForgotten'
      BY <2>1, <2>2 DEF SessionRegistered, AcknowledgedWritesAreSeen,
                        ClearingForgotten, WatchTypes
    <2>6. DueIsReached'
      BY <2>1, <2>2 DEF DueIsReached, WatchTypes, NotifyLabels
    <2> QED
      BY <2>3, <2>4, <2>5, <2>6
  <1> QED
    BY <1>1, <1>2, <1>3 DEF RunClear

(* WATCH.                                                                  *)
LEMMA WatchBeginWatchInv ==
    ASSUME WatchInv, LockInv', NEW c \in Client, NEW ks \in SUBSET Key,
           WatchBegin(c, ks)
    PROVE  WatchInv'
  <1> USE DEF dbVars, lockVars, Goto, LockInv, LockTypes, WatchInv
  <1>0. "watch" \notin CommandLabels
    BY DEF CommandLabels, UpdateLabels, NotifyLabels, Gates
  <1>1. /\ \A o \in Client : session'[o] = IF o = c THEN {} ELSE session[o]
        /\ \A w \in Client : due'[w] = due[w] \ {c}
        /\ acked' = acked \ {c}
        /\ session' \in [Client -> SUBSET Key]
        /\ due' \in [Client -> SUBSET Client]
        /\ keys' \in [Client -> SUBSET Key]
        /\ dirty' = [dirty EXCEPT ![c] = FALSE]
        /\ watched' = [watched EXCEPT ![c] = {}]
        /\ queue' = [queue EXCEPT ![c] = <<>>]
        /\ inTx' = [inTx EXCEPT ![c] = FALSE]
        /\ UNCHANGED <<deps, todo, cmd>>
        /\ pc[c] = "idle" /\ pc' = [pc EXCEPT ![c] = "watch"]
    BY DEF WatchBegin, ClearContext, Forget, WatchTypes
  <1>2. WatchTypes'
    BY <1>1 DEF WatchTypes
  <1>3. CommandTypes'
    BY <1>0, <1>1 DEF CommandTypes
  <1>4. SessionRegistered' /\ AcknowledgedWritesAreSeen'
    BY <1>1 DEF SessionRegistered, AcknowledgedWritesAreSeen, WatchTypes
  <1>5. ClearingForgotten'
    BY <1>1 DEF ClearingForgotten
  <1>6. DueIsReached'
    BY <1>1 DEF DueIsReached, NotifyLabels, WatchTypes
  <1> QED
    BY <1>2, <1>3, <1>4, <1>5, <1>6

LEMMA WatchWatchInv ==
    ASSUME WatchInv, LockInv', NEW c \in Client, RunWatch(c)
    PROVE  WatchInv'
  <1> USE DEF dbVars, ctxVars, lockVars, localVars, histVars, Goto, LockInv,
              LockTypes, WatchInv
  <1>0. {"idle", "watch", "register"} \cap CommandLabels = {}
    BY DEF CommandLabels, UpdateLabels, NotifyLabels, Gates
  <1>1. ASSUME NEW k \in Key, WatchKey(c, k) PROVE WatchInv'
    <2>1. /\ pc[c] = "watch" /\ pc' = [pc EXCEPT ![c] = "register"]
          /\ watched' = [watched EXCEPT ![c] = @ \cup {k}]
          /\ keys' = [keys EXCEPT ![c] = @ \ {k}]
          /\ UNCHANGED <<session, due, acked, dirty, deps, todo, queue, inTx>>
          /\ cmd' = [cmd EXCEPT ![c] = [op |-> "WATCH", key |-> k]]
      BY <1>1 DEF WatchKey
    <2>2. WatchTypes'
      BY <2>1 DEF WatchTypes
    <2>3. CommandTypes'
      BY <1>0, <2>1 DEF CommandTypes, WatchCommands, WatchTypes
    <2>4. SessionRegistered' /\ AcknowledgedWritesAreSeen' /\ ClearingForgotten'
      BY <2>1 DEF SessionRegistered, AcknowledgedWritesAreSeen,
                  ClearingForgotten, WatchTypes
    <2>5. DueIsReached'
      BY <2>1 DEF DueIsReached, NotifyLabels, WatchTypes, CommandTypes
    <2> QED
      BY <2>2, <2>3, <2>4, <2>5
  <1>2. CASE Register(c)
    <2>1. /\ pc[c] = "register"
          /\ cmd' = [cmd EXCEPT ![c] = NoCommand]
          /\ \/ /\ pc' = [pc EXCEPT ![c] = "idle"]
                /\ keys' = [keys EXCEPT ![c] = {}]
                /\ UNCHANGED <<deps, session>>
             \/ /\ pc' = [pc EXCEPT ![c] = "watch"]
                /\ deps' = [deps EXCEPT ![cmd[c].key] = @ \cup {c}]
                /\ session' = [session EXCEPT ![c] = @ \cup {cmd[c].key}]
                /\ UNCHANGED keys
          /\ UNCHANGED <<due, acked, dirty, watched, todo, queue, inTx>>
      BY <1>2 DEF Register
    <2>2. cmd[c].key \in watched[c] /\ cmd[c].key \in Key
      BY <2>1 DEF CommandTypes, WatchCommands
    <2>3. WatchTypes'
      BY <2>1, <2>2 DEF WatchTypes
    <2>4. CommandTypes'
      BY <1>0, <2>1 DEF CommandTypes
    <2>5. SessionRegistered'
      BY <2>1, <2>2 DEF SessionRegistered, WatchTypes
    <2>6. AcknowledgedWritesAreSeen' /\ ClearingForgotten'
      BY <2>1 DEF AcknowledgedWritesAreSeen, ClearingForgotten, WatchTypes
    <2>7. DueIsReached'
      <3>1. \A o \in Client : \A j \in Key : o \in deps[j] => o \in deps'[j]
        BY <2>1 DEF WatchTypes
      <3>2. \A w \in Client : pc[w] \in NotifyLabels =>
               /\ cmd[w].key \in Key /\ w # c
               /\ pc'[w] = pc[w] /\ cmd'[w] = cmd[w]
        BY <2>1 DEF CommandTypes, Commands, CommandLabels, NotifyLabels
      <3> QED
        BY <2>1, <3>1, <3>2 DEF DueIsReached, WatchTypes
    <2> QED
      BY <2>3, <2>4, <2>5, <2>6, <2>7
  <1>3. CASE WatchEnd(c)
    <2>1. /\ "idle" \in Labels \ {"unregister", "register"}
          /\ pc[c] \notin NotifyLabels
          /\ pc' = [pc EXCEPT ![c] = "idle"]
          /\ UNCHANGED <<queue, cmd, keys, inTx, deps, dirty, watched, session,
                         due, acked, todo>>
      BY <1>3 DEF WatchEnd, NotifyLabels, Labels
    <2>2. /\ queue[c] \in Seq(Commands)
          /\ queue' = [queue EXCEPT ![c] = queue[c]]
          /\ keys' \in [Client -> SUBSET Key]
          /\ cmd' = [cmd EXCEPT ![c] = cmd[c]]
          /\ cmd[c] \in Commands \cup WatchCommands \cup {NoCommand}
      BY <2>1 DEF CommandTypes, WatchTypes
    <2> QED
      BY <1>0, <2>1, <2>2, MoveWatchInv
  <1> QED
    BY <1>1, <1>2, <1>3 DEF RunWatch

(* What a client sends.                                                    *)
LEMMA ReceiveWatchInv ==
    ASSUME WatchInv, LockInv', NEW c \in Client, Receive(c)
    PROVE  WatchInv'
  <1> USE DEF dbVars, ctxVars, lockVars, localVars, histVars
  <1>0. {"idle", "clear", "lockDatabase"}
           \subseteq Labels \ ({"unregister", "register"} \cup CommandLabels)
    BY DEF Labels, CommandLabels, UpdateLabels, NotifyLabels, Gates
  <1>1. ASSUME NEW command \in Commands, StartCommand(c, command)
        PROVE  WatchInv'
    <2>1. /\ FirstGate(command.op) \in Gates
          /\ pc[c] \notin NotifyLabels /\ ~inTx[c]
          /\ Call(c, FirstGate(command.op))
          /\ cmd' = [cmd EXCEPT ![c] = command]
          /\ UNCHANGED <<queue, keys, inTx, deps, dirty, watched, session, due,
                         acked, todo>>
      BY <1>1 DEF StartCommand, Begin, FirstGate, Gates, NotifyLabels
    <2> QED
      BY <2>1, CallWatchInv
  <1>2. ASSUME \/ Multi(c)
               \/ \E command \in Commands : QueueCommand(c, command)
        PROVE  WatchInv'
    <2>1. /\ pc[c] = "idle"
          /\ inTx' \in [Client -> BOOLEAN] /\ queue' \in [Client -> Seq(Commands)]
          /\ \A w \in Client \ {c} : inTx'[w] = inTx[w] /\ queue'[w] = queue[w]
          /\ UNCHANGED <<pc, cmd, keys, deps, dirty, watched, session, due,
                         acked, todo>>
      <3> USE DEF WatchInv, LockInv, LockTypes, CommandTypes
      <3>1. CASE Multi(c)
        BY <3>1 DEF Multi
      <3>2. ASSUME NEW command \in Commands, QueueCommand(c, command)
            PROVE  queue' = [queue EXCEPT ![c] = Append(@, command)]
                      /\ queue' \in [Client -> Seq(Commands)]
        <4>1. Append(queue[c], command) \in Seq(Commands)
          OBVIOUS
        <4> QED
          BY <3>2, <4>1 DEF QueueCommand
      <3> QED
        BY <1>2, <3>1, <3>2 DEF QueueCommand
    <2>2. CommandTypes'
      BY <1>0, <2>1 DEF CommandTypes, WatchInv
    <2>3. WatchTypes' /\ SessionRegistered' /\ ClearingForgotten'
      BY <2>1 DEF WatchInv, WatchTypes, SessionRegistered, ClearingForgotten
    <2>4. DueIsReached' /\ AcknowledgedWritesAreSeen'
      BY <2>1 DEF WatchInv, DueIsReached, AcknowledgedWritesAreSeen
    <2> QED
      BY <2>2, <2>3, <2>4 DEF WatchInv
  <1>3. CASE Exec(c) \/ Discard(c)
    <2>1. /\ Goto(c, "clear") \/ Goto(c, "lockDatabase")
          /\ pc[c] \notin NotifyLabels
          /\ UNCHANGED <<queue, cmd, keys, inTx, deps, dirty, watched, session,
                         due, acked, todo>>
      BY <1>3 DEF Exec, Discard, NotifyLabels
    <2>2. /\ queue[c] \in Seq(Commands)
          /\ queue' = [queue EXCEPT ![c] = queue[c]]
          /\ keys' \in [Client -> SUBSET Key]
          /\ cmd' = [cmd EXCEPT ![c] = cmd[c]]
          /\ cmd[c] \in Commands \cup WatchCommands \cup {NoCommand}
      BY <2>1 DEF WatchInv, CommandTypes, WatchTypes
    <2> QED
      BY <1>0, <2>1, <2>2, MoveWatchInv
  <1>4. ASSUME NEW ks \in SUBSET Key, WatchBegin(c, ks) PROVE WatchInv'
    BY <1>4, WatchBeginWatchInv
  <1> QED
    BY <1>1, <1>2, <1>3, <1>4 DEF Receive

LEMMA NextWatchInv ==
    ASSUME NoInPlaceOps, WatchInv, [Next]_vars PROVE WatchInv'
  <1>1. LockInv'
    BY NextLockInv DEF WatchInv
  <1>2. CASE UNCHANGED vars
    <2> USE <1>2 DEF vars, dbVars, ctxVars, lockVars, localVars, histVars
    <2>1. WatchTypes' /\ CommandTypes' /\ SessionRegistered'
      BY DEF WatchInv, WatchTypes, CommandTypes, SessionRegistered
    <2>2. ClearingForgotten' /\ DueIsReached' /\ AcknowledgedWritesAreSeen'
      BY DEF WatchInv, ClearingForgotten, DueIsReached,
             AcknowledgedWritesAreSeen
    <2> QED
      BY <1>1, <2>1, <2>2 DEF WatchInv
  <1> QED
    BY <1>1, <1>2, CommandWatchInv, ExecWatchInv, ClearWatchInv,
       WatchWatchInv, ReceiveWatchInv DEF Next

(* Without commands that write in place, a client whose watched key was    *)
(* written by a command that has replied is marked dirty, in every         *)
(* reachable state: the registration, the notification and the clearing of *)
(* a context lose no write between their three locks.                      *)
THEOREM WatchIsSound ==
    ASSUME NoInPlaceOps PROVE Spec => []AcknowledgedWritesAreSeen
  <1>1. Init => WatchInv
    BY InitWatchInv
  <1>2. WatchInv /\ [Next]_vars => WatchInv'
    BY NextWatchInv
  <1> QED
    BY <1>1, <1>2, PTL DEF Spec, WatchInv

-----------------------------------------------------------------------------
(* EXEC serialises read-modify-write commands.                             *)

Locals == /\ cmd = [c \in Client |-> cmd[c]]
          /\ tmp = [c \in Client |-> tmp[c]]

(* Commands run inside EXEC only, and what INCR has read is what it finds. *)
ReadIsCurrent ==
    \A c \in Client :
        /\ pc[c] \in CommandLabels => inTx[c]
        /\ pc[c] \notin Gates
        /\ pc[c] = "update" /\ cmd[c].op = "INCR" =>
              /\ store[cmd[c].key] # Absent
              /\ tmp[c] = Bump(store[cmd[c].key])
        /\ pc[c] = "update" => cmd[c].op # "DEL"
        /\ pc[c] = "insert" => cmd[c].op \notin {"DEL", "INCR"}
        /\ pc[c] = "delete" => cmd[c].op # "INCR"

UpdateInv == LockInv /\ Locals /\ ReadIsCurrent /\ NoLostUpdate

(* No other client is between its commands' steps while one is.            *)
LEMMA OneCommandAtATime ==
    ASSUME LockInv, ReadIsCurrent, NEW c \in Client, NEW d \in Client,
           pc[c] \in CommandLabels, pc[d] \in CommandLabels
    PROVE  c = d
  BY NobodyAssumption DEF LockInv, LocksMatchScopes, ReadIsCurrent

(* A step of c that leaves the records alone and does not end at a place   *)
(* ReadIsCurrent speaks of.                                                *)
LEMMA MoveUpdateInv ==
    ASSUME UpdateInv, LockInv', NEW c \in Client, NEW l, pc' = [pc EXCEPT ![c] = l],
           l \notin Gates \cup {"update", "insert", "delete"},
           l \in CommandLabels => inTx'[c],
           \A d \in Client \ {c} : inTx'[d] = inTx[d],
           NEW m, cmd' = [cmd EXCEPT ![c] = m],
           NEW t, tmp' = [tmp EXCEPT ![c] = t],
           UNCHANGED <<store, serial>>
    PROVE  UpdateInv'
  <1> USE DEF UpdateInv, LockInv, LockTypes, Locals
  <1>1. Locals' /\ NoLostUpdate'
    BY DEF NoLostUpdate
  <1>2. ReadIsCurrent'
    BY DEF ReadIsCurrent
  <1> QED
    BY <1>1, <1>2

(* The single writer writes what the command does on its own.              *)
LEMMA WriteUpdateInv ==
    ASSUME UpdateInv, LockInv', NEW c \in Client, NEW v, Write(c, v),
           pc[c] \in CommandLabels, pc' = [pc EXCEPT ![c] = "notify"],
           v = Effect(cmd[c].op, store[cmd[c].key], v),
           UNCHANGED <<inTx, cmd, tmp>>
    PROVE  UpdateInv'
  <1> USE DEF UpdateInv, LockInv, LockTypes
  <1>1. Locals'
    BY DEF Locals
  <1>2. NoLostUpdate'
    BY Zenon DEF NoLostUpdate, Write
  <1>3. \A d \in Client \ {c} : pc[d] \notin CommandLabels /\ pc'[d] = pc[d]
    BY OneCommandAtATime
  <1>4. ReadIsCurrent'
    BY <1>3 DEF ReadIsCurrent, Gates, CommandLabels, UpdateLabels
  <1> QED
    BY <1>1, <1>2, <1>4

LEMMA CommandUpdateInv ==
    ASSUME UpdateInv, LockInv', NEW c \in Client, RunCommand(c)
    PROVE  UpdateInv'
  <1> USE DEF lockVars, ctxVars, dbVars, localVars, histVars
  <1>a. pc[c] \in CommandLabels => inTx[c]
    BY DEF UpdateInv, ReadIsCurrent
  <1>b. /\ "notifying" \notin Gates \cup {"update", "insert", "delete"}
        /\ "notify" \notin Gates \cup {"update", "insert", "delete"}
        /\ "body" \notin Gates \cup {"update", "insert", "delete"}
        /\ "idle" \notin Gates \cup {"update", "insert", "delete"}
        /\ "idle" \notin CommandLabels
        /\ AfterGate("updateGate") = "update"
        /\ AfterGate("insertGate") = "insert"
    BY DEF Gates, CommandLabels, UpdateLabels, NotifyLabels, AfterGate
  <1>c. /\ cmd' = cmd => cmd' = [cmd EXCEPT ![c] = cmd[c]]
        /\ tmp' = tmp => tmp' = [tmp EXCEPT ![c] = tmp[c]]
    BY DEF UpdateInv, Locals
  <1>d. UpdateLabels \cup NotifyLabels \subseteq CommandLabels
    BY DEF CommandLabels
  (* A reply or an exception. *)
  <1>e. ASSUME Reply(c) \/ Throw(c), pc[c] \in CommandLabels,
               UNCHANGED <<store, serial, inTx>>
        PROVE  UpdateInv'
    <2>1. /\ cmd' = [cmd EXCEPT ![c] = NoCommand]
          /\ tmp' = [tmp EXCEPT ![c] = Absent]
          /\ \/ pc' = [pc EXCEPT ![c] = "idle"]
             \/ pc' = [pc EXCEPT ![c] = "body"]
      BY <1>e DEF Reply, Throw, Goto
    <2> QED
      BY <1>a, <1>b, <1>e, <2>1, MoveUpdateInv
  <1>1. CASE PassGate(c)
    BY <1>1 DEF PassGate, UpdateInv, ReadIsCurrent
  <1>2. CASE IncrGet(c)
    <2>1. pc[c] = "get" /\ pc[c] \in CommandLabels /\ inTx[c]
      BY <1>2, <1>a DEF IncrGet, CommandLabels, UpdateLabels
    <2>2. CASE Reply(c) \/ Throw(c)
      BY <1>2, <1>e, <2>1, <2>2 DEF IncrGet
    <2>3. CASE ~(Reply(c) \/ Throw(c))
      <3>1. /\ store[cmd[c].key].type = "string"
            /\ pc' = [pc EXCEPT ![c] = "update"]
            /\ tmp' = [tmp EXCEPT ![c] = Bump(store[cmd[c].key])]
            /\ UNCHANGED <<store, serial, cmd, inTx>>
            /\ cmd[c].op = "INCR"
        BY <1>2, <1>b, <2>1, <2>3 DEF IncrGet, Call, Goto
      <3>2. Locals' /\ NoLostUpdate'
        BY <3>1 DEF UpdateInv, Locals, NoLostUpdate
      <3>3. ReadIsCurrent'
        <4>1. store[cmd[c].key] # Absent
          BY <3>1 DEF Absent
        <4>2. tmp'[c] = Bump(store[cmd[c].key])
          BY <3>1 DEF UpdateInv, Locals
        <4>3. pc'[c] = "update" /\ "update" \notin Gates
          BY <3>1 DEF UpdateInv, LockInv, LockTypes, Gates
        <4>4. \A d \in Client \ {c} : pc'[d] = pc[d] /\ tmp'[d] = tmp[d]
          BY <3>1 DEF UpdateInv, LockInv, LockTypes, Locals
        <4> QED
          BY <2>1, <3>1, <4>1, <4>2, <4>3, <4>4 DEF UpdateInv, ReadIsCurrent, Bump
      <3> QED
        BY <3>2, <3>3 DEF UpdateInv
    <2> QED
      BY <2>2, <2>3
  <1>3. CASE PushGet(c)
    <2>1. pc[c] = "get" /\ pc[c] \in CommandLabels /\ inTx[c]
      BY <1>3, <1>a DEF PushGet, CommandLabels, UpdateLabels
    <2>2. CASE Reply(c) /\ UNCHANGED <<store, serial>>
      BY <1>3, <1>e, <2>1, <2>2 DEF PushGet
    <2>3. CASE /\ pc' = [pc EXCEPT ![c] = "insert"]
               /\ tmp' = [tmp EXCEPT ![c] = Fresh("list")]
               /\ UNCHANGED <<store, serial, cmd, inTx>>
      <3>1. Locals' /\ NoLostUpdate'
        BY <2>3 DEF UpdateInv, Locals, NoLostUpdate
      <3>2. cmd[c].op = "LPUSH" /\ "insert" \notin Gates
        BY <1>3 DEF PushGet, Gates
      <3>3. ReadIsCurrent'
        BY <2>1, <2>3, <3>2
           DEF UpdateInv, LockInv, LockTypes, Locals, ReadIsCurrent, Bump
      <3> QED
        BY <3>1, <3>3 DEF UpdateInv
    <2>4. CASE /\ Reply(c) /\ inTx' = inTx
               /\ LET k == cmd[c].key
                  IN  /\ store' = [store EXCEPT ![k] = Bump(store[k])]
                      /\ serial' = [serial EXCEPT ![k] = Bump(serial[k])]
      <3>1. /\ cmd' = [cmd EXCEPT ![c] = NoCommand]
            /\ tmp' = [tmp EXCEPT ![c] = Absent]
            /\ pc' = [pc EXCEPT ![c] = "body"]
        BY <2>1, <2>4 DEF Reply, Goto
      <3>2. Locals'
        BY <3>1 DEF UpdateInv, Locals
      <3>3. NoLostUpdate'
        BY <2>4, Zenon DEF UpdateInv, NoLostUpdate
      <3>4. \A d \in Client \ {c} : pc[d] \notin CommandLabels /\ pc'[d] = pc[d]
        BY <2>1, <3>1, OneCommandAtATime DEF UpdateInv, LockInv, LockTypes
      <3>5. pc'[c] = "body" /\ "body" \notin CommandLabels
        BY <3>1 DEF UpdateInv, LockInv, LockTypes, CommandLabels, UpdateLabels,
                    NotifyLabels, Gates
      <3>6. ReadIsCurrent'
        BY <3>4, <3>5 DEF ReadIsCurrent, Gates, CommandLabels, UpdateLabels
      <3> QED
        BY <3>2, <3>3, <3>6 DEF UpdateInv
    <2> QED
      BY <1>3, <1>b, <2>1, <2>2, <2>3, <2>4 DEF PushGet, Call, Goto
  <1>4. CASE UpdateRecord(c)
    <2>1. pc[c] = "update" /\ pc[c] \in CommandLabels /\ inTx[c]
      BY <1>4, <1>a DEF UpdateRecord, CommandLabels, UpdateLabels
    <2>2. CASE store[cmd[c].key] # Absent
      <3>1. tmp[c] = Effect(cmd[c].op, store[cmd[c].key], tmp[c])
        BY <2>1 DEF Effect, UpdateInv, ReadIsCurrent
      <3>2. /\ Write(c, tmp[c]) /\ pc' = [pc EXCEPT ![c] = "notify"]
            /\ UNCHANGED <<inTx, cmd, tmp>>
        BY <1>4, <2>2 DEF UpdateRecord, Announce, Goto
      <3> QED
        BY <2>1, <3>1, <3>2, WriteUpdateInv
    <2>3. CASE store[cmd[c].key] = Absent
      <3>1. /\ pc' = [pc EXCEPT ![c] = "insert"]
            /\ UNCHANGED <<store, serial, cmd, tmp, inTx>>
            /\ cmd[c].op \notin {"DEL", "INCR"}
            /\ "insert" \notin Gates
        BY <1>4, <1>b, <2>1, <2>3
           DEF UpdateRecord, Call, Goto, UpdateInv, ReadIsCurrent, Gates
      <3>2. Locals' /\ NoLostUpdate'
        BY <3>1 DEF UpdateInv, Locals, NoLostUpdate
      <3>3. ReadIsCurrent'
        BY <2>1, <3>1
           DEF UpdateInv, LockInv, LockTypes, ReadIsCurrent, Bump
      <3> QED
        BY <3>2, <3>3 DEF UpdateInv
    <2> QED
      BY <2>2, <2>3
  <1>5. CASE InsertRecord(c)
    <2>1. pc[c] = "insert" /\ pc[c] \in CommandLabels /\ inTx[c]
      BY <1>5, <1>a DEF InsertRecord, CommandLabels, UpdateLabels
    <2>2. CASE Reply(c) \/ Throw(c)
      <3>1. CASE UNCHANGED <<store, serial>>
        BY <1>5, <1>e, <2>1, <2>2, <3>1 DEF InsertRecord
      <3>2. CASE ~UNCHANGED <<store, serial>>
        <4>1. /\ Write(c, tmp[c]) /\ pc' = [pc EXCEPT ![c] = "notify"]
              /\ UNCHANGED <<inTx, cmd, tmp>>
          BY <1>5, <3>2 DEF InsertRecord, Announce, Goto
        <4>2. tmp[c] = Effect(cmd[c].op, store[cmd[c].key], tmp[c])
          BY <2>1 DEF Effect, UpdateInv, ReadIsCurrent
        <4> QED
          BY <2>1, <4>1, <4>2, WriteUpdateInv
      <3> QED
        BY <3>1, <3>2
    <2>3. CASE ~(Reply(c) \/ Throw(c))
      <3>1. /\ Write(c, tmp[c]) /\ pc' = [pc EXCEPT ![c] = "notify"]
            /\ UNCHANGED <<inTx, cmd, tmp>>
        BY <1>5, <2>3 DEF InsertRecord, Announce, Goto
      <3>2. tmp[c] = Effect(cmd[c].op, store[cmd[c].key], tmp[c])
        BY <2>1 DEF Effect, UpdateInv, ReadIsCurrent
      <3> QED
        BY <2>1, <3>1, <3>2, WriteUpdateInv
    <2> QED
      BY <2>2, <2>3
  <1>6. CASE DeleteRecord(c)
    <2>1. pc[c] = "delete" /\ pc[c] \in CommandLabels
      BY <1>6 DEF DeleteRecord, CommandLabels, UpdateLabels
    <2>2. CASE Write(c, Absent) /\ Announce(c, 1) /\ UNCHANGED <<cmd, tmp>>
      <3>1. /\ pc' = [pc EXCEPT ![c] = "notify"] /\ inTx' = inTx
            /\ Absent = Effect(cmd[c].op, store[cmd[c].key], Absent)
        BY <1>6, <2>1, <2>2
           DEF DeleteRecord, Announce, Goto, Effect, UpdateInv, ReadIsCurrent
      <3> QED
        BY <2>1, <2>2, <3>1, WriteUpdateInv
    <2>3. CASE Reply(c) /\ UNCHANGED <<store, serial>>
      BY <1>6, <1>e, <2>1, <2>3 DEF DeleteRecord
    <2> QED
      BY <1>6, <2>2, <2>3 DEF DeleteRecord
  <1>7. CASE NotifyBegin(c)
    <2>1. /\ pc[c] \in CommandLabels
          /\ pc' = [pc EXCEPT ![c] = "notifying"]
          /\ UNCHANGED <<store, serial, cmd, tmp, inTx>>
      BY <1>7 DEF NotifyBegin, Goto, CommandLabels, NotifyLabels
    <2> QED
      BY <1>a, <1>b, <1>c, <2>1, MoveUpdateInv
  <1>8. CASE NotifyEnd(c)
    <2>1. /\ pc[c] \in CommandLabels
          /\ UNCHANGED <<store, serial, inTx>>
          /\ \/ Reply(c)
             \/ /\ pc' = [pc EXCEPT ![c] = "notify"]
                /\ UNCHANGED <<cmd, tmp>>
      BY <1>8 DEF NotifyEnd, Goto, CommandLabels, NotifyLabels
    <2> QED
      BY <1>a, <1>b, <1>c, <1>e, <2>1, MoveUpdateInv
  <1>9. ASSUME NEW o \in Client, NotifyOne(c, o) PROVE UpdateInv'
    BY <1>9 DEF NotifyOne, UpdateInv, Locals, ReadIsCurrent, NoLostUpdate, Bump
  <1> QED
    BY <1>1, <1>2, <1>3, <1>4, <1>5, <1>6, <1>7, <1>8, <1>9 DEF RunCommand

(* EXEC begins a command with nothing read yet.                            *)
LEMMA ExecUpdateInv ==
    ASSUME UpdateInv, LockInv', NEW c \in Client, RunExec(c)
    PROVE  UpdateInv'
  <1> USE DEF lockVars, ctxVars, dbVars, localVars, histVars
  <1>1. CASE ExecNext(c)
    <2> DEFINE m == Head(queue[c])
               l == AfterGate(FirstGate(m.op))
    <2>1. pc[c] = "body" /\ inTx[c]
      BY <1>1 DEF ExecNext, UpdateInv, LockInv, InTxMatchesPc
    <2>2. /\ l \in {"update", "delete", "get"}
          /\ l = "update" => m.op = "SET"
          /\ l = "delete" => m.op = "DEL"
      <3>1. CASE m.op = "SET"
        BY <3>1 DEF FirstGate, AfterGate
      <3>2. CASE m.op = "DEL"
        BY <3>2 DEF FirstGate, AfterGate
      <3>3. CASE m.op # "SET" /\ m.op # "DEL"
        BY <3>3 DEF FirstGate, AfterGate
      <3> QED
        BY <3>1, <3>2, <3>3
    <2>3. /\ pc' = [pc EXCEPT ![c] = l]
          /\ cmd' = [cmd EXCEPT ![c] = m]
          /\ \E t : tmp' = [tmp EXCEPT ![c] = t]
          /\ UNCHANGED <<store, serial, inTx>>
      BY <1>1, <2>1 DEF ExecNext, Begin, Call, Goto
    <2> HIDE DEF m, l
    <2>4. Locals' /\ NoLostUpdate'
      BY <2>3 DEF UpdateInv, Locals, NoLostUpdate
    <2>5. l \notin Gates /\ l # "insert"
      BY <2>2 DEF Gates
    <2>6. ReadIsCurrent'
      BY <2>1, <2>2, <2>3, <2>5
         DEF UpdateInv, LockInv, LockTypes, Locals, ReadIsCurrent, Bump
    <2> QED
      BY <2>4, <2>6 DEF UpdateInv
  <1>2. CASE LockDatabase(c) \/ ExecUnlock(c)
    <2>1. /\ \/ pc' = [pc EXCEPT ![c] = "body"]
             \/ pc' = [pc EXCEPT ![c] = "clear"]
          /\ UNCHANGED <<store, serial, cmd, tmp, inTx>>
      BY <1>2 DEF LockDatabase, ExecUnlock, Goto
    <2>2. /\ cmd' = [cmd EXCEPT ![c] = cmd[c]]
          /\ tmp' = [tmp EXCEPT ![c] = tmp[c]]
      BY <2>1 DEF UpdateInv, Locals
    <2>3. {"body", "clear"} \cap (CommandLabels \cup Gates) = {}
      BY DEF CommandLabels, UpdateLabels, NotifyLabels, Gates
    <2> QED
      BY <2>1, <2>2, <2>3, MoveUpdateInv
  <1> QED
    BY <1>1, <1>2 DEF RunExec

LEMMA OtherUpdateInv ==
    ASSUME DirectOps = {}, UpdateInv, LockInv', NEW c \in Client,
           Receive(c) \/ RunClear(c) \/ RunWatch(c)
    PROVE  UpdateInv'
  <1> USE DEF dbVars, ctxVars, lockVars, localVars, histVars
  <1> DEFINE Outside == {"idle", "lockDatabase", "clear", "unregister", "watch",
                         "register"}
  <1>1. Outside \cap (CommandLabels \cup Gates) = {}
    BY DEF CommandLabels, UpdateLabels, NotifyLabels, Gates
  <1>2. /\ UNCHANGED <<store, serial, tmp>>
        /\ \E l \in Outside : pc' = [pc EXCEPT ![c] = l]
        /\ cmd' = cmd \/ \E m : cmd' = [cmd EXCEPT ![c] = m]
        /\ \A d \in Client \ {c} : inTx'[d] = inTx[d]
    <2> USE DEF UpdateInv, LockInv, LockTypes, Goto
    <2>1. CASE Receive(c)
      <3>1. \A command \in Commands : ~StartCommand(c, command)
        BY DEF StartCommand
      <3>2. ASSUME NEW command \in Commands, QueueCommand(c, command)
            PROVE  pc' = [pc EXCEPT ![c] = "idle"] /\ UNCHANGED <<store, serial,
                       tmp, cmd, inTx>>
        BY <3>2 DEF QueueCommand
      <3>3. CASE Multi(c)
        <4>1. /\ pc' = [pc EXCEPT ![c] = "idle"]
              /\ UNCHANGED <<store, serial, tmp, cmd>>
              /\ inTx' = [inTx EXCEPT ![c] = TRUE]
          BY <3>3 DEF Multi
        <4> QED
          BY <4>1
      <3>4. CASE Exec(c) \/ Discard(c)
        BY <3>4 DEF Exec, Discard
      <3>5. ASSUME NEW ks \in SUBSET Key, WatchBegin(c, ks)
            PROVE  /\ pc' = [pc EXCEPT ![c] = "watch"]
                   /\ UNCHANGED <<store, serial, tmp, cmd>>
                   /\ inTx' = [inTx EXCEPT ![c] = FALSE]
        BY <3>5 DEF WatchBegin, ClearContext
      <3> QED
        BY <2>1, <3>1, <3>2, <3>3, <3>4, <3>5 DEF Receive
    <2>2. CASE RunClear(c)
      <3>1. CASE ClearBegin(c)
        BY <3>1 DEF ClearBegin
      <3>2. ASSUME NEW k \in Key, Unregister(c, k)
            PROVE  pc' = [pc EXCEPT ![c] = "unregister"] /\ UNCHANGED <<store,
                       serial, tmp, cmd, inTx>>
        BY <3>2 DEF Unregister
      <3>3. CASE ClearEnd(c)
        BY <3>3 DEF ClearEnd, ClearContext
      <3> QED
        BY <2>2, <3>1, <3>2, <3>3 DEF RunClear
    <2>3. CASE RunWatch(c)
      <3>1. CASE Register(c)
        <4>1. /\ UNCHANGED <<store, serial, tmp, inTx>>
              /\ \/ pc' = [pc EXCEPT ![c] = "idle"]
                 \/ pc' = [pc EXCEPT ![c] = "watch"]
              /\ cmd' = [cmd EXCEPT ![c] = NoCommand]
          BY <3>1 DEF Register
        <4> QED
          BY <4>1
      <3>2. CASE WatchEnd(c)
        BY <3>2 DEF WatchEnd
      <3>3. ASSUME NEW k \in Key, WatchKey(c, k)
            PROVE  /\ pc' = [pc EXCEPT ![c] = "register"]
                   /\ UNCHANGED <<store, serial, tmp, inTx>>
                   /\ \E m : cmd' = [cmd EXCEPT ![c] = m]
        BY <3>3 DEF WatchKey
      <3> QED
        BY <2>3, <3>1, <3>2, <3>3 DEF RunWatch
    <2> QED
      BY <2>1, <2>2, <2>3
  <1>3. /\ \E m : cmd' = [cmd EXCEPT ![c] = m]
        /\ tmp' = [tmp EXCEPT ![c] = tmp[c]]
    <2>1. /\ cmd = [cmd EXCEPT ![c] = cmd[c]]
          /\ tmp = [tmp EXCEPT ![c] = tmp[c]]
      BY DEF UpdateInv, Locals
    <2>2. (\E m : cmd' = [cmd EXCEPT ![c] = m]) \/ cmd' = [cmd EXCEPT ![c] = cmd[c]]
      BY <1>2, <2>1
    <2>3. \E m : cmd' = [cmd EXCEPT ![c] = m]
      BY <2>2, Zenon
    <2> QED
      BY <1>2, <2>1, <2>3
  <1>4. {"update", "insert", "delete"} \subseteq CommandLabels
    BY DEF CommandLabels, UpdateLabels
  <1> HIDE DEF Outside
  <1> QED
    BY <1>1, <1>2, <1>3, <1>4, MoveUpdateInv

LEMMA NextUpdateInv ==
    ASSUME DirectOps = {} PROVE UpdateInv /\ [Next]_vars => UpdateInv'
  <1> SUFFICES ASSUME UpdateInv, [Next]_vars PROVE UpdateInv'
    OBVIOUS
  <1>1. LockInv'
    BY NextLockInv DEF UpdateInv
  <1>2. CASE UNCHANGED vars
    BY <1>1, <1>2 DEF vars, dbVars, ctxVars, lockVars, localVars, UpdateInv,
                      Locals, ReadIsCurrent, NoLostUpdate, Bump
  <1> QED
    BY <1>1, <1>2, CommandUpdateInv, ExecUpdateInv, OtherUpdateInv DEF Next

LEMMA InitUpdateInv == Init => UpdateInv
  <1> SUFFICES ASSUME Init PROVE UpdateInv
    OBVIOUS
  <1>1. ReadIsCurrent
    BY DEF Init, ReadIsCurrent, CommandLabels, NotifyLabels, UpdateLabels, Gates
  <1> QED
    BY <1>1, InitLockInv DEF Init, UpdateInv, Locals, NoLostUpdate

(* When clients write in transactions only, every record is what it would  *)
(* be had each INCR read and written in one step: no update is lost.       *)
THEOREM TransactionsLoseNoUpdate ==
    ASSUME DirectOps = {} PROVE Spec => []NoLostUpdate
  <1>1. Init => UpdateInv
    BY InitUpdateInv
  <1>2. UpdateInv /\ [Next]_vars => UpdateInv'
    BY NextUpdateInv
  <1> QED
    BY <1>1, <1>2, PTL DEF Spec, UpdateInv

(* A step that changes a record is a step of the client that holds the     *)
(* lock of the entire database.                                            *)
LEMMA WriterHoldsLock ==
    ASSUME UpdateInv, NEW c \in Client, store' # store,
           Receive(c) \/ RunCommand(c) \/ RunExec(c) \/ RunClear(c) \/ RunWatch(c)
    PROVE  dbMutex = c /\ pc'[c] # pc[c]
  <1> USE DEF dbVars, UpdateInv, LockInv, LockTypes
  <1>1. UpdateRecord(c) \/ InsertRecord(c) \/ DeleteRecord(c) \/ PushGet(c)
    BY DEF Receive, StartCommand, QueueCommand, Multi, Exec, Discard, WatchBegin,
           RunCommand, PassGate, IncrGet, NotifyBegin, NotifyOne, NotifyEnd,
           RunExec, LockDatabase, ExecNext, ExecUnlock,
           RunClear, ClearBegin, Unregister, ClearEnd,
           RunWatch, Register, WatchKey, WatchEnd
  <1>2. pc[c] \in {"update", "insert", "delete", "get"}
    BY <1>1 DEF UpdateRecord, InsertRecord, DeleteRecord, PushGet
  <1>3. inTx[c] /\ dbMutex = c
    BY <1>2 DEF ReadIsCurrent, LocksMatchScopes, CommandLabels, UpdateLabels
  <1>4. pc'[c] \in {"notify", "body"}
    BY <1>1, <1>3
       DEF UpdateRecord, InsertRecord, DeleteRecord, PushGet, Announce, Reply,
           Goto
  <1> QED
    BY <1>2, <1>3, <1>4

(* When clients write in transactions only, nobody else changes a record   *)
(* while EXEC holds the lock of the entire database.                       *)
THEOREM TransactionsAreIsolated ==
    ASSUME DirectOps = {} PROVE Spec => ExecIsolated
  <1>1. Init => UpdateInv
    BY InitUpdateInv
  <1>2. UpdateInv /\ [Next]_vars => UpdateInv'
    BY NextUpdateInv
  <1>3. ASSUME UpdateInv, [Next]_vars, NEW c \in Client,
               dbMutex = c, store' # store
        PROVE  pc'[c] # pc[c]
    <2>1. store' # store => ~ UNCHANGED vars
      BY DEF vars, dbVars
    <2>2. PICK d \in Client : \/ Receive(d) \/ RunCommand(d) \/ RunExec(d)
                              \/ RunClear(d) \/ RunWatch(d)
      BY <1>3, <2>1 DEF Next
    <2> QED
      BY <1>3, <2>2, WriterHoldsLock
  <1>4. UpdateInv /\ [Next]_vars =>
            [\A c \in Client : dbMutex = c /\ store' # store => pc'[c] # pc[c]]_vars
    BY <1>3
  <1> QED
    BY <1>1, <1>2, <1>4, PTL DEF Spec, ExecIsolated

-----------------------------------------------------------------------------
(* The types.                                                              *)

StoreTypes ==
    /\ store \in [Key -> Values \cup {Absent}]
    /\ serial \in [Key -> [type : {"string", "list", "absent"}, n : 0..MaxN]]
    /\ tmp \in [Client -> Values \cup {Absent}]
    /\ rounds \in [Client -> 0..2]
    /\ \A c \in Client : pc[c] \in NotifyLabels => rounds[c] > 0

(* The inductive invariant of the types.  A command that runs is in cmd,   *)
(* inside EXEC also at the head of the queue; a notification that runs is  *)
(* in rounds.                                                              *)
TypeInv == LockInv /\ WatchTypes /\ CommandTypes /\ StoreTypes

LEMMA ValueTypes ==
    /\ \A v \in Values \cup {Absent} : v.type # "absent" => Bump(v) \in Values
    /\ \A v \in [type : {"string", "list", "absent"}, n : 0..MaxN] :
          Bump(v) \in [type : {"string", "list", "absent"}, n : 0..MaxN]
    /\ Values \cup {Absent} \subseteq
          [type : {"string", "list", "absent"}, n : 0..MaxN]
    /\ \A type \in {"string", "list"} : Fresh(type) \in Values
  BY BoundsAssumption DEF Values, Absent, Bump, Fresh

LEMMA InitTypeInv == Init => TypeInv
  <1> SUFFICES ASSUME Init PROVE TypeInv
    OBVIOUS
  <1>1. WatchTypes
    BY DEF Init, WatchTypes
  <1>2. CommandTypes
    BY DEF Init, CommandTypes, CommandLabels, NotifyLabels, UpdateLabels, Gates
  <1>3. StoreTypes
    BY ValueTypes DEF Init, StoreTypes, NotifyLabels
  <1> QED
    BY <1>1, <1>2, <1>3, InitLockInv DEF TypeInv

(* A step of c, told by what it leaves in the variables of c.              *)
LEMMA StepTypeInv ==
    ASSUME TypeInv, LockInv', NEW c \in Client, NEW l \in Labels, Goto(c, l),
           NEW m \in Commands \cup WatchCommands \cup {NoCommand},
           cmd' = [cmd EXCEPT ![c] = m],
           l \in CommandLabels => m \in Commands, l # "register",
           NEW q \in Seq(Commands), queue' = [queue EXCEPT ![c] = q],
           l \in CommandLabels /\ inTx[c] => q # <<>>,
           NEW t \in Values \cup {Absent}, tmp' = [tmp EXCEPT ![c] = t],
           NEW n \in 0..2, rounds' = [rounds EXCEPT ![c] = n],
           l \in NotifyLabels => n > 0,
           UNCHANGED <<inTx, watched>>, WatchTypes',
           store' \in [Key -> Values \cup {Absent}],
           serial' \in [Key -> [type : {"string", "list", "absent"}, n : 0..MaxN]]
    PROVE  TypeInv'
  <1> USE DEF TypeInv, LockInv, LockTypes, Goto
  <1>1. CommandTypes'
    BY DEF CommandTypes
  <1>2. StoreTypes'
    BY DEF StoreTypes
  <1> QED
    BY <1>1, <1>2

(* What is left alone keeps its type.                                      *)
LEMMA SameTypes ==
    ASSUME TypeInv, NEW c \in Client
    PROVE  /\ cmd[c] \in Commands \cup WatchCommands \cup {NoCommand}
           /\ cmd = [cmd EXCEPT ![c] = cmd[c]]
           /\ queue[c] \in Seq(Commands) /\ queue = [queue EXCEPT ![c] = queue[c]]
           /\ tmp[c] \in Values \cup {Absent} /\ tmp = [tmp EXCEPT ![c] = tmp[c]]
           /\ rounds[c] \in 0..2 /\ rounds = [rounds EXCEPT ![c] = rounds[c]]
           /\ store \in [Key -> Values \cup {Absent}]
           /\ serial \in [Key -> [type : {"string", "list", "absent"}, n : 0..MaxN]]
           /\ pc[c] \in CommandLabels =>
                 cmd[c] \in Commands /\ (inTx[c] => queue[c] # <<>>)
  BY DEF TypeInv, CommandTypes, StoreTypes

(* Calls, replies and exceptions.                                          *)
LEMMA CallTypeInv ==
    ASSUME TypeInv, LockInv', NEW c \in Client,
           NEW gate \in Gates, Call(c, gate),
           NEW m \in Commands, cmd' = [cmd EXCEPT ![c] = m],
           NEW t \in Values \cup {Absent}, tmp' = [tmp EXCEPT ![c] = t],
           inTx[c] => queue[c] # <<>>,
           UNCHANGED <<inTx, queue, watched, rounds, store, serial>>, WatchTypes'
    PROVE  TypeInv'
  <1> DEFINE l == IF inTx[c] THEN AfterGate(gate) ELSE gate
  <1>1. /\ l \in Labels /\ l \notin NotifyLabels /\ l # "register"
        /\ Goto(c, l)
    BY DEF Call, Gates, AfterGate, Labels, CommandLabels, UpdateLabels,
           NotifyLabels
  <1> HIDE DEF l
  <1> QED
    BY <1>1, SameTypes, StepTypeInv

LEMMA ReplyTypeInv ==
    ASSUME TypeInv, LockInv', NEW c \in Client, pc[c] \in CommandLabels, Reply(c),
           NEW n \in 0..2, rounds' = [rounds EXCEPT ![c] = n],
           UNCHANGED <<inTx, watched>>, WatchTypes',
           store' \in [Key -> Values \cup {Absent}],
           serial' \in [Key -> [type : {"string", "list", "absent"}, n : 0..MaxN]]
    PROVE  TypeInv'
  <1> DEFINE l == IF inTx[c] THEN "body" ELSE "idle"
             q == IF inTx[c] THEN Tail(queue[c]) ELSE queue[c]
  <1>1. l \in Labels /\ l \notin CommandLabels \cup NotifyLabels \cup {"register"}
    BY DEF Labels, CommandLabels, UpdateLabels, NotifyLabels, Gates
  <1>2. q \in Seq(Commands)
    BY SameTypes
  <1>3. queue' = [queue EXCEPT ![c] = q]
    BY SameTypes DEF Reply
  <1>4. /\ Goto(c, l) /\ cmd' = [cmd EXCEPT ![c] = NoCommand]
        /\ tmp' = [tmp EXCEPT ![c] = Absent]
    BY DEF Reply
  <1> HIDE DEF l, q
  <1> QED
    BY <1>1, <1>2, <1>3, <1>4, StepTypeInv

LEMMA ThrowTypeInv ==
    ASSUME TypeInv, LockInv', NEW c \in Client, Throw(c),
           UNCHANGED <<inTx, queue, watched, rounds, store, serial>>, WatchTypes'
    PROVE  TypeInv'
  <1>1. "idle" \in Labels /\ "idle" \notin CommandLabels \cup NotifyLabels
    BY DEF Labels, CommandLabels, UpdateLabels, NotifyLabels, Gates
  <1> QED
    BY <1>1, SameTypes, StepTypeInv DEF Throw

(* A write.                                                                *)
LEMMA WriteTypes ==
    ASSUME TypeInv, NEW c \in Client, cmd[c] \in Commands,
           NEW v \in Values \cup {Absent}, Write(c, v)
    PROVE  /\ store' \in [Key -> Values \cup {Absent}]
           /\ serial' \in [Key -> [type : {"string", "list", "absent"},
                                   n : 0..MaxN]]
  <1>1. cmd[c].key \in Key
    BY DEF Commands
  <1>2. Absent \in [type : {"string", "list", "absent"}, n : 0..MaxN]
    BY BoundsAssumption DEF Absent
  <1>3. Effect(cmd[c].op, serial[cmd[c].key], v)
            \in [type : {"string", "list", "absent"}, n : 0..MaxN]
    BY <1>1, <1>2, SameTypes, ValueTypes DEF Effect
  <1> QED
    BY <1>1, <1>3, SameTypes DEF Write

(* A notification is next, one of n.                                       *)
LEMMA NotifyTypeInv ==
    ASSUME TypeInv, LockInv', NEW c \in Client, pc[c] \in CommandLabels,
           Goto(c, "notify"), NEW n \in 1..2, rounds' = [rounds EXCEPT ![c] = n],
           UNCHANGED <<inTx, watched, cmd, queue, tmp>>, WatchTypes',
           store' \in [Key -> Values \cup {Absent}],
           serial' \in [Key -> [type : {"string", "list", "absent"}, n : 0..MaxN]]
    PROVE  TypeInv'
  <1> USE DEF TypeInv, LockInv, LockTypes, Goto
  <1>1. CommandTypes'
    BY DEF CommandTypes
  <1>2. StoreTypes'
    BY DEF StoreTypes
  <1> QED
    BY <1>1, <1>2

LEMMA AnnounceTypeInv ==
    ASSUME TypeInv, LockInv', NEW c \in Client, pc[c] \in UpdateLabels,
           NEW v \in Values \cup {Absent}, Write(c, v),
           NEW n \in 1..2, Announce(c, n),
           UNCHANGED <<inTx, queue, cmd, tmp, keys, deps, dirty, watched, session,
                       acked, todo>>
    PROVE  TypeInv'
  <1>1. pc[c] \in CommandLabels
    BY DEF CommandLabels
  <1>2. WatchTypes'
    BY DEF TypeInv, WatchTypes, Announce, Watchers
  <1>3. /\ store' \in [Key -> Values \cup {Absent}]
        /\ serial' \in [Key -> [type : {"string", "list", "absent"}, n : 0..MaxN]]
    BY <1>1, SameTypes, WriteTypes
  <1> QED
    BY <1>1, <1>2, <1>3, NotifyTypeInv DEF Announce

LEMMA CommandTypeInv ==
    ASSUME TypeInv, LockInv', NEW c \in Client, RunCommand(c)
    PROVE  TypeInv'
  <1> USE DEF lockVars, ctxVars, dbVars, localVars, histVars
  <1>0. pc[c] \in CommandLabels /\ cmd[c] \in Commands /\ cmd[c].key \in Key
    <2>1. pc[c] \in CommandLabels
      BY DEF RunCommand, PassGate, IncrGet, PushGet, UpdateRecord, InsertRecord,
             DeleteRecord, NotifyBegin, NotifyOne, NotifyEnd, CommandLabels,
             UpdateLabels, NotifyLabels
    <2> QED
      BY <2>1, SameTypes DEF Commands
  <1>1. CASE PassGate(c)
    <2>1. /\ AfterGate(pc[c]) \in Labels \ {"register"}
          /\ AfterGate(pc[c]) \notin NotifyLabels
          /\ Goto(c, AfterGate(pc[c]))
      BY <1>1 DEF PassGate, AfterGate, Gates, Labels, CommandLabels,
                  UpdateLabels, NotifyLabels
    <2>2. WatchTypes'
      BY <1>1 DEF PassGate, TypeInv, WatchTypes
    <2>3. UNCHANGED <<inTx, watched, cmd, queue, tmp, rounds, store, serial>>
      BY <1>1 DEF PassGate
    <2>4. /\ cmd' = [cmd EXCEPT ![c] = cmd[c]] /\ queue[c] \in Seq(Commands)
          /\ queue' = [queue EXCEPT ![c] = queue[c]]
          /\ inTx[c] => queue[c] # <<>>
          /\ tmp[c] \in Values \cup {Absent} /\ tmp' = [tmp EXCEPT ![c] = tmp[c]]
          /\ rounds[c] \in 0..2 /\ rounds' = [rounds EXCEPT ![c] = rounds[c]]
          /\ store' \in [Key -> Values \cup {Absent}]
          /\ serial' \in [Key -> [type : {"string", "list", "absent"},
                                  n : 0..MaxN]]
      BY <1>0, <2>3, SameTypes
    <2> QED
      BY <1>0, <2>1, <2>2, <2>3, <2>4, StepTypeInv
  <1>2. CASE IncrGet(c)
    <2>1. WatchTypes' /\ UNCHANGED <<inTx, watched, rounds, store, serial>>
      BY <1>2 DEF IncrGet, TypeInv, WatchTypes
    <2>2. CASE Throw(c) /\ UNCHANGED queue
      BY <2>1, <2>2, ThrowTypeInv
    <2>3. CASE Reply(c)
      BY <1>0, <2>1, <2>3, SameTypes, ReplyTypeInv
    <2>4. CASE /\ store[cmd[c].key].type = "string" /\ Call(c, "updateGate")
               /\ tmp' = [tmp EXCEPT ![c] = Bump(store[cmd[c].key])]
               /\ UNCHANGED <<cmd, queue>>
      <3>1. Bump(store[cmd[c].key]) \in Values /\ "updateGate" \in Gates
        BY <1>0, <2>4, ValueTypes, SameTypes DEF Gates
      <3>2. cmd' = [cmd EXCEPT ![c] = cmd[c]] /\ (inTx[c] => queue[c] # <<>>)
        BY <1>0, <2>4, SameTypes
      <3> QED
        BY <1>0, <2>1, <2>4, <3>1, <3>2, CallTypeInv
    <2> QED
      BY <1>2, <2>2, <2>3, <2>4 DEF IncrGet
  <1>3. CASE PushGet(c)
    <2>1. WatchTypes' /\ UNCHANGED <<inTx, watched, rounds>>
      BY <1>3 DEF PushGet, TypeInv, WatchTypes, Watchers
    <2>2. CASE /\ Call(c, "insertGate")
               /\ tmp' = [tmp EXCEPT ![c] = Fresh("list")]
               /\ UNCHANGED <<store, serial, cmd, queue>>
      <3>1. Fresh("list") \in Values /\ "insertGate" \in Gates
        BY ValueTypes DEF Gates
      <3>2. cmd' = [cmd EXCEPT ![c] = cmd[c]] /\ (inTx[c] => queue[c] # <<>>)
        BY <1>0, <2>2, SameTypes
      <3> QED
        BY <1>0, <2>1, <2>2, <3>1, <3>2, CallTypeInv
    <2>3. CASE Reply(c) /\ UNCHANGED <<store, serial>>
      BY <1>0, <2>1, <2>3, SameTypes, ReplyTypeInv
    <2>4. CASE /\ store[cmd[c].key].type = "list" /\ Reply(c)
               /\ store' = [store EXCEPT ![cmd[c].key] = Bump(store[cmd[c].key])]
               /\ serial' = [serial EXCEPT ![cmd[c].key] = Bump(@)]
      <3>1. /\ store' \in [Key -> Values \cup {Absent}]
            /\ serial' \in [Key -> [type : {"string", "list", "absent"},
                                    n : 0..MaxN]]
        BY <1>0, <2>4, ValueTypes, SameTypes
      <3> QED
        BY <1>0, <2>1, <2>4, <3>1, SameTypes, ReplyTypeInv
    <2> QED
      BY <1>3, <2>2, <2>3, <2>4 DEF PushGet
  <1>4. CASE UpdateRecord(c)
    <2>1. pc[c] \in UpdateLabels
      BY <1>4 DEF UpdateRecord, UpdateLabels
    <2>2. CASE store[cmd[c].key] # Absent
      BY <1>4, <2>1, <2>2, SameTypes, AnnounceTypeInv DEF UpdateRecord
    <2>3. CASE store[cmd[c].key] = Absent
      <3>1. WatchTypes'
        BY <1>4, <2>3 DEF UpdateRecord, TypeInv, WatchTypes
      <3>2. /\ Call(c, "insertGate") /\ "insertGate" \in Gates
            /\ UNCHANGED <<inTx, queue, watched, rounds, store, serial>>
        BY <1>4, <2>3 DEF UpdateRecord, Gates
      <3>3. /\ cmd' = [cmd EXCEPT ![c] = cmd[c]] /\ (inTx[c] => queue[c] # <<>>)
            /\ tmp[c] \in Values \cup {Absent}
            /\ tmp' = [tmp EXCEPT ![c] = tmp[c]]
        BY <1>0, <1>4, SameTypes DEF UpdateRecord
      <3> QED
        BY <1>0, <3>1, <3>2, <3>3, CallTypeInv
    <2> QED
      BY <2>2, <2>3
  <1>5. CASE InsertRecord(c)
    <2>1. pc[c] \in UpdateLabels
      BY <1>5 DEF InsertRecord, UpdateLabels
    <2>2. CASE store[cmd[c].key] = Absent
      <3> DEFINE n == IF cmd[c].op = "LPUSH" THEN 1 ELSE 2
      <3>1. n \in 1..2 /\ Announce(c, n) /\ Write(c, tmp[c])
        BY <1>5, <2>2 DEF InsertRecord
      <3>2. UNCHANGED <<inTx, queue, cmd, tmp, keys, deps, dirty, watched,
                        session, acked, todo>>
        BY <1>5, <2>2 DEF InsertRecord
      <3> HIDE DEF n
      <3> QED
        BY <2>1, <3>1, <3>2, SameTypes, AnnounceTypeInv
    <2>3. CASE store[cmd[c].key] # Absent
      <3>1. /\ WatchTypes'
            /\ UNCHANGED <<inTx, watched, rounds, store, serial>>
            /\ Reply(c) \/ (Throw(c) /\ UNCHANGED queue)
        BY <1>5, <2>3 DEF InsertRecord, TypeInv, WatchTypes
      <3> QED
        BY <1>0, <3>1, SameTypes, ReplyTypeInv, ThrowTypeInv
    <2> QED
      BY <2>2, <2>3
  <1>6. CASE DeleteRecord(c)
    <2>1. pc[c] \in UpdateLabels
      BY <1>6 DEF DeleteRecord, UpdateLabels
    <2>2. CASE store[cmd[c].key] # Absent
      BY <1>6, <2>1, <2>2, AnnounceTypeInv DEF DeleteRecord
    <2>3. CASE store[cmd[c].key] = Absent
      <3>1. /\ WatchTypes' /\ Reply(c)
            /\ UNCHANGED <<inTx, watched, rounds, store, serial>>
        BY <1>6, <2>3 DEF DeleteRecord, TypeInv, WatchTypes
      <3> QED
        BY <1>0, <3>1, SameTypes, ReplyTypeInv
    <2> QED
      BY <2>2, <2>3
  <1>7. CASE NotifyBegin(c)
    BY <1>0, <1>7
       DEF NotifyBegin, Goto, TypeInv, LockInv, LockTypes, WatchTypes,
           CommandTypes, StoreTypes, CommandLabels, NotifyLabels
  <1>8. ASSUME NEW o \in Client, NotifyOne(c, o) PROVE TypeInv'
    BY <1>8 DEF NotifyOne, TypeInv, WatchTypes, CommandTypes, StoreTypes
  <1>9. CASE NotifyEnd(c)
    <2>1. WatchTypes' /\ UNCHANGED <<inTx, watched, store, serial>>
      BY <1>9 DEF NotifyEnd, TypeInv, WatchTypes
    <2>2. rounds[c] \in 1..2 /\ rounds' = [rounds EXCEPT ![c] = rounds[c] - 1]
      BY <1>9, SameTypes DEF NotifyEnd, TypeInv, StoreTypes, NotifyLabels
    <2>3. CASE rounds[c] > 1
      <3>1. Goto(c, "notify") /\ UNCHANGED <<cmd, tmp, queue>>
        BY <1>9, <2>3 DEF NotifyEnd
      <3>2. rounds[c] - 1 \in 1..2
        BY <2>2, <2>3
      <3> QED
        BY <1>0, <2>1, <2>2, <3>1, <3>2, SameTypes, NotifyTypeInv
    <2>4. CASE ~(rounds[c] > 1)
      <3>1. Reply(c) /\ rounds[c] - 1 \in 0..2
        BY <1>9, <2>2, <2>4 DEF NotifyEnd
      <3> QED
        BY <1>0, <2>1, <2>2, <3>1, SameTypes, ReplyTypeInv
    <2> QED
      BY <2>3, <2>4
  <1> QED
    BY <1>1, <1>2, <1>3, <1>4, <1>5, <1>6, <1>7, <1>8, <1>9 DEF RunCommand

(* EXEC, and a command a client sends, begin a command.                    *)
LEMMA BeginTypeInv ==
    ASSUME TypeInv, LockInv', NEW c \in Client, NEW command \in Commands,
           Begin(c, command), inTx[c] => queue[c] # <<>>,
           UNCHANGED <<inTx, queue, watched, rounds, store, serial>>, WatchTypes'
    PROVE  TypeInv'
  <1> DEFINE t == IF command.op = "SET" THEN Fresh("string") ELSE Absent
  <1>1. FirstGate(command.op) \in Gates
    BY DEF FirstGate, Gates
  <1>2. t \in Values \cup {Absent}
    BY ValueTypes
  <1>3. /\ Call(c, FirstGate(command.op)) /\ cmd' = [cmd EXCEPT ![c] = command]
        /\ tmp' = [tmp EXCEPT ![c] = t]
    BY DEF Begin
  <1> HIDE DEF t
  <1> QED
    BY <1>1, <1>2, <1>3, CallTypeInv

LEMMA ExecTypeInv ==
    ASSUME TypeInv, LockInv', NEW c \in Client, RunExec(c)
    PROVE  TypeInv'
  <1> USE DEF lockVars, ctxVars, dbVars, localVars, histVars
  <1>1. CASE LockDatabase(c) \/ ExecUnlock(c)
    BY <1>1
       DEF LockDatabase, ExecUnlock, Goto, TypeInv, LockInv, LockTypes, WatchTypes,
           CommandTypes, StoreTypes, CommandLabels, UpdateLabels, NotifyLabels,
           Gates
  <1>2. CASE ExecNext(c)
    <2>1. Head(queue[c]) \in Commands /\ queue[c] # <<>>
      BY <1>2, SameTypes DEF ExecNext
    <2>2. WatchTypes'
      BY <1>2 DEF ExecNext, TypeInv, WatchTypes
    <2> QED
      BY <1>2, <2>1, <2>2, BeginTypeInv DEF ExecNext
  <1> QED
    BY <1>1, <1>2 DEF RunExec

LEMMA ClearTypeInv ==
    ASSUME TypeInv, LockInv', NEW c \in Client, RunClear(c)
    PROVE  TypeInv'
  <1> USE DEF lockVars, ctxVars, dbVars, localVars, histVars, TypeInv, LockInv,
              LockTypes, Goto
  <1>1. CASE ClearBegin(c)
    BY <1>1 DEF ClearBegin, Forget, WatchTypes, CommandTypes, StoreTypes,
                CommandLabels, UpdateLabels, NotifyLabels, Gates
  <1>2. ASSUME NEW k \in Key, Unregister(c, k) PROVE TypeInv'
    BY <1>2 DEF Unregister, WatchTypes, CommandTypes, StoreTypes
  <1>3. CASE ClearEnd(c)
    <2>1. WatchTypes' /\ StoreTypes'
      BY <1>3 DEF ClearEnd, ClearContext, WatchTypes, StoreTypes, NotifyLabels
    <2>2. CommandTypes'
      BY <1>3 DEF ClearEnd, ClearContext, WatchTypes, CommandTypes,
                  CommandLabels, UpdateLabels, NotifyLabels, Gates
    <2> QED
      BY <2>1, <2>2
  <1> QED
    BY <1>1, <1>2, <1>3 DEF RunClear

LEMMA WatchTypeInv ==
    ASSUME TypeInv, LockInv', NEW c \in Client, RunWatch(c)
    PROVE  TypeInv'
  <1> USE DEF lockVars, ctxVars, dbVars, localVars, histVars, TypeInv, LockInv,
              LockTypes, Goto, CommandLabels, UpdateLabels, NotifyLabels, Gates
  <1>1. CASE Register(c)
    <2>1. cmd[c].key \in Key
      BY <1>1 DEF Register, CommandTypes, WatchCommands
    <2>2. WatchTypes'
      <3>1. CASE store[cmd[c].key] = Absent
        BY <1>1, <3>1 DEF Register, WatchTypes
      <3>2. CASE store[cmd[c].key] # Absent
        BY <1>1, <2>1, <3>2 DEF Register, WatchTypes
      <3> QED
        BY <3>1, <3>2
    <2>3. StoreTypes'
      BY <1>1 DEF Register, StoreTypes
    <2>4. CommandTypes'
      BY <1>1 DEF Register, CommandTypes
    <2> QED
      BY <2>2, <2>3, <2>4
  <1>2. CASE WatchEnd(c)
    BY <1>2 DEF WatchEnd, WatchTypes, CommandTypes, StoreTypes
  <1>3. ASSUME NEW k \in Key, WatchKey(c, k) PROVE TypeInv'
    <2>1. WatchTypes' /\ StoreTypes'
      BY <1>3 DEF WatchKey, WatchTypes, StoreTypes
    <2>2. [op |-> "WATCH", key |-> k] \in WatchCommands
      BY DEF WatchCommands
    <2>3. CommandTypes'
      BY <1>3, <2>2 DEF WatchKey, WatchTypes, CommandTypes
    <2> QED
      BY <2>1, <2>3
  <1> QED
    BY <1>1, <1>2, <1>3 DEF RunWatch

LEMMA ReceiveTypeInv ==
    ASSUME TypeInv, LockInv', NEW c \in Client, Receive(c)
    PROVE  TypeInv'
  <1> USE DEF lockVars, ctxVars, dbVars, localVars, histVars
  <1>1. ASSUME NEW command \in Commands, StartCommand(c, command)
        PROVE  TypeInv'
    <2>1. WatchTypes'
      BY <1>1 DEF StartCommand, TypeInv, WatchTypes
    <2> QED
      BY <1>1, <2>1, BeginTypeInv DEF StartCommand
  <1> USE DEF TypeInv, LockInv, LockTypes, Goto, CommandLabels, UpdateLabels,
              NotifyLabels, Gates
  <1>2. ASSUME NEW command \in Commands, QueueCommand(c, command)
        PROVE  TypeInv'
    <2>1. WatchTypes' /\ StoreTypes'
      BY <1>2 DEF QueueCommand, WatchTypes, StoreTypes
    <2>2. CommandTypes'
      BY <1>2 DEF QueueCommand, CommandTypes
    <2> QED
      BY <2>1, <2>2
  <1>3. CASE Multi(c)
    BY <1>3 DEF Multi, WatchTypes, CommandTypes, StoreTypes
  <1>4. CASE Exec(c) \/ Discard(c)
    BY <1>4 DEF Exec, Discard, WatchTypes, CommandTypes, StoreTypes
  <1>5. ASSUME NEW ks \in SUBSET Key, WatchBegin(c, ks) PROVE TypeInv'
    <2>1. WatchTypes' /\ StoreTypes'
      BY <1>5 DEF WatchBegin, ClearContext, Forget, WatchTypes, StoreTypes
    <2>2. CommandTypes'
      BY <1>5 DEF WatchBegin, ClearContext, WatchTypes, CommandTypes
    <2> QED
      BY <2>1, <2>2
  <1> QED
    BY <1>1, <1>2, <1>3, <1>4, <1>5 DEF Receive

(* Every variable has its type: no reply pops an empty queue, the counter  *)
(* of notifications does not run below zero, and a command, its key and    *)
(* the value it stores are always set when a step uses them.               *)
THEOREM TypeCorrect == Spec => []TypeOK
  <1>1. TypeInv /\ [Next]_vars => TypeInv'
    <2> SUFFICES ASSUME TypeInv, [Next]_vars PROVE TypeInv'
      OBVIOUS
    <2>1. LockInv'
      BY NextLockInv DEF TypeInv
    <2>2. CASE UNCHANGED vars
      BY <2>1, <2>2 DEF vars, dbVars, ctxVars, lockVars, localVars, histVars,
                        TypeInv, WatchTypes, CommandTypes, StoreTypes
    <2> QED
      BY <2>1, <2>2, CommandTypeInv, ExecTypeInv, ClearTypeInv, WatchTypeInv,
         ReceiveTypeInv DEF Next
  <1>2. TypeInv => TypeOK
    BY DEF TypeInv, LockInv, LockTypes, WatchTypes, CommandTypes, StoreTypes,
           TypeOK, WatchCommands
  <1> QED
    BY InitTypeInv, <1>1, <1>2, PTL DEF Spec

=============================================================================
