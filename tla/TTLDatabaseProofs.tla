------------------------- MODULE TTLDatabaseProofs -------------------------
(***************************************************************************)
(* Proofs about TTLDatabase, for every set of clients and keys and every   *)
(* bound.                                                                  *)
(***************************************************************************)
EXTENDS TTLDatabase, TLAPS

LazyLabels == {"lazyGate", "lazyDelete"}
NotifyLabels == {"notify", "notifying"}

(* The client whose getRecord acts on a passed deadline.                   *)
Lazy(c) ==
    \/ pc[c] \in LazyLabels
    \/ pc[c] \in NotifyLabels /\ cmd[c].op = "GET"

(* ttlMutex is kept exactly by a getRecord that acts on a passed deadline, *)
(* which stays passed; the expiration thread sleeps with nothing to do.    *)
LockInv ==
    /\ pc \in [Client -> Labels]
    /\ cmd \in [Client -> Commands \cup {NoCommand}]
    /\ \A c \in Client : pc[c] \in CommandLabels <=> cmd[c] \in Commands
    /\ \A c \in Client : pc[c] \in LazyLabels \cup {"check"} => cmd[c].op = "GET"
    /\ ttlMap \in [Key -> {"none", "armed", "passed"}]
    /\ expired \subseteq Key
    /\ ttlMutex \in Client \cup {Nobody}
    /\ \A c \in Client : ttlMutex = c <=> Lazy(c)
    /\ \A c \in Client : Lazy(c) => ttlMap[cmd[c].key] = "passed"
    /\ sweep = "sleep" => expired = {}

LEMMA NoCommandType == NoCommand \notin Commands
  BY DEF NoCommand, Commands

LEMMA InitLockInv == Init => LockInv
  BY NobodyAssumption, NoCommandType
     DEF Init, LockInv, Labels, CommandLabels, Lazy, LazyLabels, NotifyLabels

(* A step of c that keeps the mutex and the deadlines.                     *)
LEMMA MoveLockInv ==
    ASSUME LockInv, NEW c \in Client, NEW l \in Labels, pc' = [pc EXCEPT ![c] = l],
           NEW m \in Commands \cup {NoCommand}, cmd' = [cmd EXCEPT ![c] = m],
           l \in CommandLabels <=> m \in Commands,
           l \in LazyLabels \cup {"check"} => m.op = "GET",
           Lazy(c)' <=> Lazy(c), Lazy(c) => m = cmd[c],
           UNCHANGED <<ttlMap, ttlMutex, sweep, expired>>
    PROVE  LockInv'
  <1> USE DEF LockInv
  <1>1. \A d \in Client \ {c} : pc'[d] = pc[d] /\ cmd'[d] = cmd[d]
    OBVIOUS
  <1>2. \A d \in Client : Lazy(d)' <=> Lazy(d)
    BY <1>1 DEF Lazy
  <1>3. \A d \in Client : Lazy(d)' => ttlMap'[cmd'[d].key] = "passed"
    BY <1>1, <1>2
  <1> QED
    BY <1>1, <1>2, <1>3

(* A reply, and a move within a command, with the mutex as it is.          *)
LEMMA ReplyLockInv ==
    ASSUME LockInv, NEW c \in Client, Reply(c), ~Lazy(c),
           UNCHANGED <<ttlMap, ttlMutex, sweep, expired>>
    PROVE  LockInv'
  <1>1. ~Lazy(c)' /\ pc' = [pc EXCEPT ![c] = "idle"]
    BY DEF Reply, Goto, LockInv, Lazy, LazyLabels, NotifyLabels
  <1>2. "idle" \in Labels \ (CommandLabels \cup LazyLabels \cup {"check"})
    BY DEF Labels, CommandLabels, LazyLabels
  <1> QED
    BY <1>1, <1>2, MoveLockInv, NoCommandType DEF Reply

LEMMA GotoLockInv ==
    ASSUME LockInv, NEW c \in Client, NEW l \in Labels, Goto(c, l),
           pc[c] \in CommandLabels <=> l \in CommandLabels,
           l \in LazyLabels \cup {"check"} => cmd[c].op = "GET",
           Lazy(c)' <=> Lazy(c),
           UNCHANGED <<ttlMap, ttlMutex, cmd, sweep, expired>>
    PROVE  LockInv'
  <1>1. /\ cmd[c] \in Commands \cup {NoCommand}
        /\ cmd' = [cmd EXCEPT ![c] = cmd[c]]
        /\ l \in CommandLabels <=> cmd[c] \in Commands
    BY DEF LockInv
  <1> QED
    BY <1>1, MoveLockInv DEF Goto

(* The getRecord that keeps the mutex returns and releases it.             *)
LEMMA ReleaseLockInv ==
    ASSUME LockInv, NEW c \in Client, Lazy(c), ttlMutex' = Nobody,
           pc' = [pc EXCEPT ![c] = "idle"], cmd' = [cmd EXCEPT ![c] = NoCommand],
           ttlMap' \in [Key -> {"none", "armed", "passed"}],
           UNCHANGED <<sweep, expired>>
    PROVE  LockInv'
  <1>1. \A d \in Client \ {c} : ~Lazy(d)
    BY DEF LockInv
  <1>2. \A d \in Client : ~Lazy(d)'
    BY <1>1 DEF LockInv, Lazy, LazyLabels, NotifyLabels
  <1>3. "idle" \in Labels \ (CommandLabels \cup LazyLabels \cup {"check"})
    BY DEF Labels, CommandLabels, LazyLabels
  <1> QED
    BY <1>2, <1>3, NobodyAssumption, NoCommandType DEF LockInv

(* Steps of a client outside its commands.                                 *)
LEMMA OutsideLockInv ==
    ASSUME LockInv, NEW c \in Client, RunClear(c) \/ (c \in TxClient /\ Transact(c))
    PROVE  LockInv'
  <1> USE DEF sweepVars, clientVars, histVars, lockVars
  <1>1. /\ UNCHANGED <<ttlMap, ttlMutex, cmd, sweep, expired>>
        /\ \/ UNCHANGED pc
           \/ /\ pc[c] \in {"idle", "watch", "clear", "unregister"}
              /\ \E l \in {"idle", "watch", "clear", "unregister"} : Goto(c, l)
    BY DEF RunClear, Transact, LockDatabase, UnlockDatabase, Discard,
           WatchBegin, WatchEnd, Register, ClearBegin, ClearEnd, Unregister
  <1>2. CASE UNCHANGED pc
    BY <1>1, <1>2 DEF LockInv, Lazy
  <1>3. ASSUME pc[c] \in {"idle", "watch", "clear", "unregister"},
               NEW l \in {"idle", "watch", "clear", "unregister"}, Goto(c, l)
        PROVE  LockInv'
    <2>1. l \in Labels \ (CommandLabels \cup LazyLabels \cup {"check"})
      BY DEF Labels, CommandLabels, LazyLabels
    <2>2. pc[c] \notin CommandLabels
      BY <1>3 DEF CommandLabels
    <2>3. ~Lazy(c) /\ ~Lazy(c)'
      BY <1>3 DEF Goto, LockInv, Lazy, LazyLabels, NotifyLabels
    <2> QED
      BY <1>1, <1>3, <2>1, <2>2, <2>3, GotoLockInv
  <1> QED
    BY <1>1, <1>2, <1>3

LEMMA NextLockInv ==
    ASSUME LockInv, [Next]_vars PROVE LockInv'
  <1> USE DEF lockVars, clientVars, sweepVars, histVars
  <1> DEFINE Plain == {"gate", "access", "deadline"}
  <1>p. Plain \subseteq CommandLabels \ (LazyLabels \cup NotifyLabels \cup {"check"})
        /\ CommandLabels \subseteq Labels
        /\ LazyLabels \cup NotifyLabels \cup {"check"} \subseteq CommandLabels
    BY DEF CommandLabels, Labels, LazyLabels, NotifyLabels
  <1>1. ASSUME NEW c \in Client, NEW command \in Commands, Begin(c, command)
        PROVE  LockInv'
    <2>2. PICK l \in {"check", "gate", "access"} :
             Goto(c, l) /\ (l = "check" => command.op = "GET")
      BY <1>1 DEF Begin, Call
    <2>3. ~Lazy(c) /\ ~Lazy(c)'
      BY <1>1, <2>2 DEF Begin, Goto, LockInv, Lazy, LazyLabels, NotifyLabels
    <2>4. l \in CommandLabels /\ l \in Labels /\ l \notin LazyLabels
      BY DEF Labels, CommandLabels, LazyLabels
    <2> QED
      BY <1>1, <2>2, <2>3, <2>4, MoveLockInv DEF Begin, Goto
  <1>2. ASSUME NEW c \in Client, Check(c) PROVE LockInv'
    <2>0. cmd[c].op = "GET" /\ ~Lazy(c) /\ pc[c] \in CommandLabels
      BY <1>2 DEF Check, LockInv, Lazy, LazyLabels, NotifyLabels, CommandLabels
    <2>1. CASE ttlMap[cmd[c].key] = "passed"
      <3>1. \E l \in LazyLabels : pc' = [pc EXCEPT ![c] = l]
        BY <1>2, <2>1 DEF Check, Call, Goto, LazyLabels
      <3>2. \A d \in Client : Lazy(d)' <=> d = c
        BY <1>2, <3>1, NobodyAssumption DEF Check, LockInv, Lazy
      <3> QED
        BY <1>2, <2>0, <2>1, <3>1, <3>2, <1>p, NobodyAssumption
           DEF Check, LockInv
    <2>2. CASE ttlMap[cmd[c].key] # "passed"
      <3>1. PICK l \in {"gate", "access"} : Goto(c, l)
        BY <1>2, <2>2 DEF Check, Call
      <3>2. ~Lazy(c)'
        BY <1>2, <3>1 DEF Goto, LockInv, Lazy, LazyLabels, NotifyLabels
      <3> QED
        BY <1>2, <2>0, <2>2, <3>1, <3>2, <1>p, GotoLockInv DEF Check
    <2> QED
      BY <2>1, <2>2
  <1>3. ASSUME NEW c \in Client, PassGate(c) PROVE LockInv'
    <2>1. CASE pc[c] = "gate"
      <3>1. Goto(c, "access") /\ ~Lazy(c) /\ ~Lazy(c)'
        BY <1>3, <2>1
           DEF PassGate, Goto, LockInv, Lazy, LazyLabels, NotifyLabels
      <3> QED
        BY <1>3, <2>1, <3>1, <1>p, GotoLockInv DEF PassGate
    <2>2. CASE pc[c] = "lazyGate"
      <3>1. Goto(c, "lazyDelete") /\ Lazy(c) /\ Lazy(c)'
        BY <1>3, <2>2
           DEF PassGate, Goto, LockInv, Lazy, LazyLabels, NotifyLabels
      <3>2. cmd[c].op = "GET" /\ "lazyDelete" \in LazyLabels /\ pc[c] \in LazyLabels
        BY <2>2 DEF LockInv, LazyLabels
      <3> QED
        BY <1>3, <3>1, <3>2, <1>p, GotoLockInv DEF PassGate
    <2> QED
      BY <1>3, <2>1, <2>2 DEF PassGate
  <1>4. ASSUME NEW c \in Client, LazyDelete(c) PROVE LockInv'
    <2>0. Lazy(c) /\ cmd[c].op = "GET" /\ pc[c] \in CommandLabels
      BY <1>4 DEF LazyDelete, LockInv, Lazy, LazyLabels, CommandLabels
    <2>1. CASE cmd[c].key \in records
      <3>1. Goto(c, "notify") /\ Lazy(c)'
        BY <1>4, <2>0, <2>1
           DEF LazyDelete, Goto, LockInv, Lazy, NotifyLabels
      <3>2. "notify" \in NotifyLabels /\ "notify" \notin LazyLabels \cup {"check"}
        BY DEF NotifyLabels, LazyLabels
      <3> QED
        BY <1>4, <2>0, <2>1, <3>1, <3>2, <1>p, GotoLockInv DEF LazyDelete
    <2>2. CASE cmd[c].key \notin records
      <3>1. /\ ttlMutex' = Nobody
            /\ pc' = [pc EXCEPT ![c] = "idle"]
            /\ cmd' = [cmd EXCEPT ![c] = NoCommand]
            /\ UNCHANGED <<ttlMap, sweep, expired>>
        BY <1>4, <2>2 DEF LazyDelete, Reply, Goto
      <3>2. ttlMap' \in [Key -> {"none", "armed", "passed"}]
        BY <3>1 DEF LockInv
      <3> QED
        BY <2>0, <3>1, <3>2, ReleaseLockInv
    <2> QED
      BY <2>1, <2>2
  <1>5. ASSUME NEW c \in Client, Get(c) PROVE LockInv'
    BY <1>5, ReplyLockInv DEF Get, Lazy, LazyLabels, NotifyLabels
  <1>6. ASSUME NEW c \in Client, Set(c) \/ Delete(c) \/ FindRecord(c)
        PROVE  LockInv'
    <2>1. ~Lazy(c) /\ pc[c] \in CommandLabels
      BY <1>6 DEF Set, Delete, FindRecord, Lazy, LazyLabels, NotifyLabels,
                  CommandLabels
    <2>2. /\ UNCHANGED <<ttlMap, ttlMutex, sweep, expired>>
          /\ \/ Reply(c)
             \/ /\ UNCHANGED cmd /\ cmd[c].op # "GET"
                /\ \E l \in {"notify", "deadline"} : Goto(c, l)
      BY <1>6 DEF Set, Delete, FindRecord
    <2>3. ASSUME UNCHANGED cmd, cmd[c].op # "GET",
                 NEW l \in {"notify", "deadline"}, Goto(c, l)
          PROVE  LockInv'
      <3>1. l \in CommandLabels /\ l \notin LazyLabels \cup {"check"}
        BY DEF CommandLabels, LazyLabels
      <3>2. ~Lazy(c)'
        BY <2>3, <3>1 DEF Goto, LockInv, Lazy
      <3> QED
        BY <2>1, <2>2, <2>3, <3>1, <3>2, <1>p, GotoLockInv
    <2> QED
      BY <2>1, <2>2, <2>3, ReplyLockInv
  <1>7. ASSUME NEW c \in Client, NotifyBegin(c) PROVE LockInv'
    <2>1. Goto(c, "notifying") /\ (Lazy(c)' <=> Lazy(c))
      BY <1>7 DEF NotifyBegin, Goto, LockInv, Lazy, LazyLabels, NotifyLabels
    <2>2. /\ "notifying" \in CommandLabels
          /\ "notifying" \notin LazyLabels \cup {"check"}
          /\ pc[c] \in CommandLabels
      BY <1>7 DEF NotifyBegin, CommandLabels, LazyLabels
    <2> QED
      BY <1>7, <2>1, <2>2, <1>p, GotoLockInv DEF NotifyBegin
  <1>8. ASSUME NEW c \in Client, NotifyEnd(c) PROVE LockInv'
    <2>0. pc[c] = "notifying" /\ pc[c] \in CommandLabels /\ pc[c] \in NotifyLabels
      BY <1>8 DEF NotifyEnd, CommandLabels, NotifyLabels
    <2>1. CASE cmd[c].op = "SET"
      BY <1>8, <2>0, <2>1, ReplyLockInv DEF NotifyEnd, Lazy, LazyLabels
    <2>2. CASE cmd[c].op = "DEL"
      <3>1. Goto(c, "deadline") /\ UNCHANGED cmd /\ ~Lazy(c) /\ ~Lazy(c)'
        BY <1>8, <2>0, <2>2
           DEF NotifyEnd, Goto, LockInv, Lazy, LazyLabels, NotifyLabels
      <3> QED
        BY <1>8, <2>0, <2>2, <3>1, <1>p, GotoLockInv DEF NotifyEnd
    <2>3. CASE cmd[c].op = "GET"
      <3>1. /\ Lazy(c) /\ ttlMutex' = Nobody
            /\ pc' = [pc EXCEPT ![c] = "idle"]
            /\ cmd' = [cmd EXCEPT ![c] = NoCommand]
            /\ UNCHANGED <<sweep, expired>>
            /\ ttlMap' = [ttlMap EXCEPT ![cmd[c].key] = "none"]
        BY <1>8, <2>0, <2>3 DEF NotifyEnd, Reply, Goto, Lazy
      <3>2. ttlMap' \in [Key -> {"none", "armed", "passed"}]
        BY <3>1 DEF LockInv
      <3> QED
        BY <3>1, <3>2, ReleaseLockInv
    <2> QED
      BY <1>8, <2>1, <2>2, <2>3 DEF NotifyEnd
  <1>9. ASSUME NEW c \in Client, SetDeadline(c) PROVE LockInv'
    <2>1. \A d \in Client : ~Lazy(d)
      BY <1>9, NobodyAssumption DEF SetDeadline, LockInv
    <2>2. /\ pc' = [pc EXCEPT ![c] = "idle"]
          /\ cmd' = [cmd EXCEPT ![c] = NoCommand]
          /\ UNCHANGED <<ttlMutex, sweep, expired>>
          /\ ttlMap' \in [Key -> {"none", "armed", "passed"}]
      BY <1>9 DEF SetDeadline, Reply, Goto, LockInv
    <2>3. \A d \in Client : ~Lazy(d)'
      BY <2>1, <2>2 DEF LockInv, Lazy, LazyLabels, NotifyLabels
    <2>4. ttlMutex = Nobody
      BY <1>9 DEF SetDeadline
    <2> QED
      BY <2>2, <2>3, <2>4, <1>p, NobodyAssumption, NoCommandType
         DEF LockInv, Labels, CommandLabels, LazyLabels
  <1>10. CASE Sweep
    <2>1. \A d \in Client : ~Lazy(d)
      BY <1>10, NobodyAssumption DEF Sweep, LockInv
    <2> QED
      BY <1>10, <2>1 DEF Sweep, Passed, LockInv, Lazy
  <1>11. CASE RunSweep
    BY <1>11 DEF RunSweep, SweepGate, SweepDelete, SweepNotifyBegin,
                 SweepNotifyEnd, SweepNotifyOne, Reach, LockInv, Lazy
  <1>12. ASSUME NEW k \in Key, Pass(k) PROVE LockInv'
    BY <1>12 DEF Pass, LockInv, Lazy
  <1>13. ASSUME NEW c \in Client, NEW o \in TxClient, NotifyOne(c, o)
         PROVE  LockInv'
    BY <1>13 DEF NotifyOne, Reach, LockInv, Lazy
  <1>14. CASE UNCHANGED vars
    BY <1>14 DEF vars, LockInv, Lazy
  <1>15. ASSUME NEW c \in TxClient, RunClear(c) \/ Transact(c) PROVE LockInv'
    BY <1>15, OutsideLockInv, SubsetsAssumption
  <1> QED
    BY <1>1, <1>2, <1>3, <1>4, <1>5, <1>6, <1>7, <1>8, <1>9, <1>10, <1>11,
       <1>12, <1>13, <1>14, <1>15 DEF Next, RunCommand

-----------------------------------------------------------------------------
(* A passed deadline is worth one deletion to whoever finds it, until the  *)
(* getRecord that found it has deleted its record.                         *)
Erased(k) == \E c \in Client : /\ pc[c] \in NotifyLabels
                              /\ cmd[c].op = "GET" /\ cmd[c].key = k

Worth(k) == IF ttlMap[k] = "passed" /\ ~Erased(k)
            THEN IF k \in expired THEN 2 ELSE 1
            ELSE IF k \in expired THEN 1 ELSE 0

CreditInv ==
    /\ LockInv
    /\ credit \in [Key -> Int]
    /\ \A k \in Key : credit[k] >= Worth(k)

(* A step that leaves the deletions alone leaves what they are worth.      *)
LEMMA MoveErased ==
    ASSUME LockInv, NEW c \in Client,
           \A d \in Client \ {c} : pc'[d] = pc[d] /\ cmd'[d] = cmd[d],
           \/ ~(pc[c] \in NotifyLabels /\ cmd[c].op = "GET")
           \/ pc'[c] \in NotifyLabels /\ cmd'[c] = cmd[c],
           NEW k, Erased(k)
    PROVE  Erased(k)'
  BY DEF Erased

LEMMA NextErased ==
    ASSUME LockInv, [Next]_vars,
           \A c \in Client : ~NotifyEnd(c)
    PROVE  \A k : Erased(k) => Erased(k)'
  <1> USE DEF lockVars, clientVars, sweepVars, histVars, LockInv
  <1> SUFFICES ASSUME NEW k, Erased(k) PROVE Erased(k)'
    OBVIOUS
  <1>1. ASSUME UNCHANGED <<pc, cmd>> PROVE Erased(k)'
    BY <1>1 DEF Erased
  <1>2. ASSUME NEW c \in Client, RunCommand(c) PROVE Erased(k)'
    <2>1. CASE NotifyBegin(c)
      BY <2>1, MoveErased DEF NotifyBegin, Goto, NotifyLabels
    <2>2. CASE \E o \in TxClient : NotifyOne(c, o)
      BY <1>1, <2>2 DEF NotifyOne, Reach
    <2>3. CASE \/ Check(c) \/ PassGate(c) \/ LazyDelete(c) \/ Get(c) \/ Set(c)
               \/ Delete(c) \/ FindRecord(c) \/ SetDeadline(c)
      <3>1. /\ pc[c] \notin NotifyLabels
            /\ \E l : pc' = [pc EXCEPT ![c] = l]
            /\ cmd' = cmd \/ \E m : cmd' = [cmd EXCEPT ![c] = m]
        BY <2>3 DEF Check, PassGate, LazyDelete, Get, Set, Delete, FindRecord,
                    SetDeadline, Call, Reply, Goto, NotifyLabels
      <3> QED
        BY <3>1, MoveErased
    <2> QED
      BY <1>2, <2>1, <2>2, <2>3 DEF RunCommand
  <1>3. ASSUME NEW c \in Client, NEW command \in Commands, Begin(c, command)
        PROVE  Erased(k)'
    <2>1. /\ pc[c] \notin NotifyLabels
          /\ \E l : pc' = [pc EXCEPT ![c] = l]
          /\ cmd' = [cmd EXCEPT ![c] = command]
      BY <1>3 DEF Begin, Call, Goto, NotifyLabels
    <2> QED
      BY <2>1, MoveErased
  <1>4. ASSUME NEW c \in TxClient, RunClear(c) \/ Transact(c) PROVE Erased(k)'
    <2>1. /\ UNCHANGED cmd
          /\ \/ UNCHANGED pc
             \/ pc[c] \notin NotifyLabels /\ \E l : pc' = [pc EXCEPT ![c] = l]
      BY <1>4 DEF RunClear, Transact, LockDatabase, UnlockDatabase, Discard,
                  WatchBegin, WatchEnd, Register, ClearBegin, ClearEnd,
                  Unregister, Goto, NotifyLabels
    <2> QED
      BY <1>1, <2>1, MoveErased, SubsetsAssumption
  <1>5. CASE Sweep \/ RunSweep \/ (\E i \in Key : Pass(i)) \/ UNCHANGED vars
    BY <1>1, <1>5 DEF Sweep, RunSweep, SweepGate, SweepDelete, Pass, vars,
                      SweepNotifyBegin, SweepNotifyOne, SweepNotifyEnd, Reach
  <1> QED
    BY <1>2, <1>3, <1>4, <1>5 DEF Next

LEMMA NextCreditInv ==
    ASSUME CreditInv, [Next]_vars PROVE CreditInv'
  <1> USE DEF lockVars, clientVars, sweepVars, histVars, CreditInv
  <1>0. LockInv'
    BY NextLockInv
  <1>e. ASSUME \A c \in Client : ~NotifyEnd(c)
        PROVE  \A k : Erased(k) => Erased(k)'
    BY <1>e, NextErased
  <1>1. ASSUME UNCHANGED <<ttlMap, expired, credit>>,
               \A k : Erased(k) => Erased(k)'
        PROVE  CreditInv'
    BY <1>0, <1>1 DEF Worth
  <1>2. ASSUME NEW c \in Client, LazyDelete(c) PROVE CreditInv'
    <2>1. /\ cmd[c].key \in Key /\ ttlMap[cmd[c].key] = "passed"
          /\ cmd[c].op = "GET" /\ Lazy(c) /\ pc[c] \notin NotifyLabels
      BY <1>2, SubsetsAssumption
         DEF LazyDelete, LockInv, Lazy, LazyLabels, NotifyLabels, CommandLabels,
             Commands
    <2>2. \A d \in Client : Lazy(d) => d = c
      BY <2>1 DEF LockInv
    <2>k. PICK k \in Key : k = cmd[c].key
      BY <2>1
    <2>3. ~Erased(k)
      BY <2>1, <2>2, <2>k DEF Erased, Lazy
    <2>4. \A d \in Client \ {c} : pc'[d] = pc[d] /\ cmd'[d] = cmd[d]
      BY <1>2 DEF LazyDelete, Reply, Goto, LockInv
    <2>5. \A i : Erased(i) => Erased(i)'
      BY <2>1, <2>4, MoveErased
    <2>6. CASE cmd[c].key \in records
      <3>1. Erased(k)'
        BY <1>2, <2>1, <2>6, <2>k
           DEF LazyDelete, Goto, LockInv, Erased, NotifyLabels
      <3>2. /\ credit' = [credit EXCEPT ![k] = @ - 1]
            /\ UNCHANGED <<ttlMap, expired>>
        BY <1>2, <2>6, <2>k DEF LazyDelete, ExpireRecord
      <3> QED
        <4>1. Worth(k)' = Worth(k) - 1
          BY <2>1, <2>k, <2>3, <3>1, <3>2 DEF Worth
        <4>2. Worth(k) \in Int
          BY DEF Worth
        <4>3. \A i \in Key : Worth(i) \in Int /\ Worth(i)' \in Int
                            /\ Worth(i)' <= Worth(i)
          BY <2>5, <3>2 DEF Worth
        <4>4. credit' \in [Key -> Int]
          BY <3>2
        <4>5. \A i \in Key : credit'[i] >= Worth(i)'
          BY <2>k, <3>2, <4>1, <4>2, <4>3
        <4> QED
          BY <1>0, <4>4, <4>5
    <2>7. CASE cmd[c].key \notin records
      <3>1. UNCHANGED <<ttlMap, expired, credit>>
        BY <1>2, <2>7 DEF LazyDelete, ExpireRecord
      <3> QED
        BY <2>5, <3>1, <1>1
    <2> QED
      BY <2>6, <2>7
  <1>3. ASSUME NEW c \in Client, SetDeadline(c) PROVE CreditInv'
    <2>1. \A k : Erased(k) => Erased(k)'
      <3>1. /\ pc[c] \notin NotifyLabels
            /\ \A d \in Client \ {c} : pc'[d] = pc[d] /\ cmd'[d] = cmd[d]
        BY <1>3 DEF SetDeadline, Reply, Goto, NotifyLabels, LockInv
      <3> QED
        BY <3>1, MoveErased
    <2> QED
      BY <1>0, <1>3, <2>1 DEF SetDeadline, Worth, LockInv
  <1>4. CASE Sweep
    <2>1. \A k : ~Erased(k)
      BY <1>4, NobodyAssumption DEF Sweep, Erased, LockInv, Lazy
    <2> QED
      BY <1>0, <1>4, <2>1 DEF Sweep, Passed, Worth, LockInv
  <1>5. ASSUME NEW k \in Key, SweepDelete(k) PROVE CreditInv'
    <2>1. \A i : Erased(i) <=> Erased(i)'
      BY <1>5 DEF SweepDelete, Erased
    <2> QED
      BY <1>0, <1>5, <2>1 DEF SweepDelete, ExpireRecord, Worth, LockInv
  <1>6. ASSUME NEW k \in Key, Pass(k) PROVE CreditInv'
    <2>1. \A i : Erased(i) <=> Erased(i)'
      BY <1>6 DEF Pass, Erased
    <2> QED
      BY <1>0, <1>6, <2>1 DEF Pass, Worth, LockInv
  <1>7. ASSUME NEW c \in Client, NotifyEnd(c) PROVE CreditInv'
    <2>1. \A d \in Client \ {c} : pc'[d] = pc[d] /\ cmd'[d] = cmd[d]
      BY <1>7 DEF NotifyEnd, Reply, Goto, LockInv
    <2>2. \A k : Erased(k) /\ (cmd[c].op = "GET" => cmd[c].key # k) => Erased(k)'
      BY <2>1 DEF Erased
    <2>3. /\ UNCHANGED <<expired, credit>>
          /\ \/ cmd[c].op # "GET" /\ UNCHANGED ttlMap
             \/ ttlMap' = [ttlMap EXCEPT ![cmd[c].key] = "none"]
      BY <1>7 DEF NotifyEnd
    <2> QED
      BY <1>0, <2>2, <2>3 DEF Worth, LockInv
  <1>8. ASSUME NEW c \in Client,
               \/ Check(c) \/ PassGate(c) \/ Get(c) \/ Set(c) \/ Delete(c)
               \/ FindRecord(c) \/ NotifyBegin(c)
               \/ (\E o \in TxClient : NotifyOne(c, o))
               \/ \E command \in Commands : Begin(c, command)
        PROVE  UNCHANGED <<ttlMap, expired, credit>>
    BY <1>8 DEF Check, PassGate, Get, Set, Delete, FindRecord, Begin,
                NotifyBegin, NotifyOne, Reach
  <1>9. ASSUME NEW c \in TxClient, RunClear(c) \/ Transact(c)
        PROVE  UNCHANGED <<ttlMap, expired, credit>>
    BY <1>9 DEF RunClear, Transact, LockDatabase, UnlockDatabase, Discard,
                WatchBegin, WatchEnd, Register, ClearBegin, ClearEnd, Unregister
  <1>10. CASE \/ UNCHANGED vars \/ SweepGate \/ SweepNotifyBegin
              \/ SweepNotifyEnd \/ \E o \in TxClient : SweepNotifyOne(o)
    <2>1. UNCHANGED <<ttlMap, expired, credit, pc, cmd>>
      BY <1>10 DEF vars, SweepGate, SweepNotifyBegin, SweepNotifyEnd,
                   SweepNotifyOne, Reach
    <2> QED
      BY <1>1, <2>1 DEF Erased
  <1>11. CASE \E c \in Client : NotifyEnd(c)
    BY <1>7, <1>11
  <1>12. CASE \A c \in Client : ~NotifyEnd(c)
    <2>1. \A k : Erased(k) => Erased(k)'
      BY <1>e, <1>12
    <2> QED
      BY <1>1, <1>2, <1>3, <1>4, <1>5, <1>6, <1>8, <1>9, <1>10, <1>12, <2>1
         DEF Next, RunCommand, RunSweep
  <1> QED
    BY <1>11, <1>12

(* Every passed deadline removes one record at most, however getRecord,    *)
(* the expiration thread, EXPIRE, PERSIST, DEL and EXEC interleave.        *)
THEOREM ExpiryActsOnce == Spec => []ExpiryIsPaid
  <1>1. Init => CreditInv
    BY InitLockInv DEF Init, CreditInv, Worth
  <1>2. CreditInv /\ [Next]_vars => CreditInv'
    BY NextCreditInv
  <1>3. CreditInv => ExpiryIsPaid
    BY DEF CreditInv, Worth, ExpiryIsPaid
  <1> QED
    BY <1>1, <1>2, <1>3, PTL DEF Spec

-----------------------------------------------------------------------------
LEMMA NextTypeOK ==
    ASSUME CreditInv, TypeOK, [Next]_vars PROVE TypeOK'
  <1> USE DEF lockVars, obsVars, clientVars, sweepVars, histVars, TypeOK, Revive
  <1>0. LockInv' /\ CreditInv'
    BY NextLockInv, NextCreditInv DEF CreditInv
  <1>1. /\ ttlMap' \in [Key -> {"none", "armed", "passed"}]
        /\ ttlMutex' \in Client \cup {Nobody}
        /\ pc' \in [Client -> Labels]
        /\ cmd' \in [Client -> Commands \cup {NoCommand}]
        /\ \A c \in Client : pc'[c] \in CommandLabels => cmd'[c] \in Commands
        /\ expired' \subseteq Key
    BY <1>0 DEF LockInv
  <1>2. \A k \in Key : credit'[k] >= 0
    BY <1>0 DEF CreditInv, Worth
  <1>a. \A c \in Client : pc[c] \in CommandLabels => cmd[c].key \in Key
    BY SubsetsAssumption DEF Commands
  <1>3. ASSUME NEW k \in Key, ExpireRecord(k), UNCHANGED <<dbMutex, obsVars>>,
               swept' \subseteq Key,
               sweep' \in {"sleep", "gate", "delete", "notify", "notifying"}
        PROVE  TypeOK'
    BY <1>1, <1>2, <1>3, BoundAssumption DEF ExpireRecord
  <1>4. ASSUME NEW c \in Client, RunCommand(c) PROVE TypeOK'
    <2>1. CASE LazyDelete(c)
      <3>1. cmd[c].key \in Key
        BY <2>1, <1>a DEF LazyDelete, CommandLabels
      <3> QED
        BY <2>1, <1>3, <3>1 DEF LazyDelete
    <2>2. CASE Check(c) \/ PassGate(c) \/ Get(c) \/ FindRecord(c)
      BY <1>1, <2>2 DEF Check, PassGate, Get, FindRecord
    <2>3. CASE Set(c)
      <3>1. cmd[c].key \in Key
        BY <2>3, <1>a DEF Set, CommandLabels
      <3> QED
        BY <1>1, <2>3, <3>1 DEF Set
    <2>4. CASE Delete(c) \/ SetDeadline(c)
      BY <1>1, <2>4 DEF Delete, SetDeadline
    <2>5. CASE NotifyBegin(c)
      <3>1. cmd[c].key \in Key
        BY <2>5, <1>a DEF NotifyBegin, CommandLabels
      <3> QED
        BY <1>1, <2>5, <3>1 DEF NotifyBegin
    <2>6. CASE NotifyEnd(c) \/ \E o \in TxClient : NotifyOne(c, o)
      BY <1>1, <2>6 DEF NotifyEnd, NotifyOne, Reach
    <2> QED
      BY <1>4, <2>1, <2>2, <2>3, <2>4, <2>5, <2>6 DEF RunCommand
  <1>5. ASSUME NEW k \in Key, SweepDelete(k) PROVE TypeOK'
    BY <1>3, <1>5 DEF SweepDelete
  <1>6. CASE Sweep \/ SweepGate \/ SweepNotifyBegin \/ SweepNotifyEnd
             \/ \E o \in TxClient : SweepNotifyOne(o)
    BY <1>1, <1>6 DEF Sweep, SweepGate, SweepNotifyBegin, SweepNotifyEnd,
                      SweepNotifyOne, Reach
  <1>7. ASSUME NEW k \in Key, Pass(k) PROVE TypeOK'
    BY <1>1, <1>7, BoundAssumption DEF Pass
  <1>8. ASSUME NEW c \in Client, NEW command \in Commands, Begin(c, command)
        PROVE  TypeOK'
    BY <1>1, <1>8 DEF Begin
  <1>9. ASSUME NEW c \in TxClient, Transact(c) PROVE TypeOK'
    <2>1. CASE LockDatabase(c) \/ UnlockDatabase(c) \/ Discard(c)
               \/ WatchBegin(c) \/ WatchEnd(c)
      BY <1>1, <2>1 DEF LockDatabase, UnlockDatabase, Discard, WatchBegin,
                        WatchEnd
    <2>2. ASSUME NEW k \in WatchedKey, Register(c, k) PROVE TypeOK'
      BY <1>1, <2>2, SubsetsAssumption DEF Register
    <2> QED
      BY <1>9, <2>1, <2>2 DEF Transact
  <1>10. ASSUME NEW c \in TxClient, RunClear(c) PROVE TypeOK'
    <2>1. CASE ClearBegin(c) \/ ClearEnd(c)
      BY <1>1, <2>1 DEF ClearBegin, ClearEnd
    <2>2. ASSUME NEW k \in WatchedKey, Unregister(c, k) PROVE TypeOK'
      BY <1>1, <2>2, SubsetsAssumption DEF Unregister
    <2> QED
      BY <1>10, <2>1, <2>2 DEF RunClear
  <1>11. CASE UNCHANGED vars
    BY <1>11 DEF vars
  <1> QED
    BY <1>4, <1>5, <1>6, <1>7, <1>8, <1>9, <1>10, <1>11 DEF Next, RunSweep

(* Every variable keeps its type, among others: only existing records are  *)
(* ever overdue, and no key has more passed deadlines than the bound.      *)
THEOREM TypeCorrect == Spec => []TypeOK
  <1>1. Init => CreditInv /\ TypeOK
    BY InitLockInv, BoundAssumption
       DEF Init, CreditInv, Worth, TypeOK, Labels, CommandLabels
  <1>2. CreditInv /\ TypeOK /\ [Next]_vars => (CreditInv /\ TypeOK)'
    BY NextCreditInv, NextTypeOK
  <1> QED
    BY <1>1, <1>2, PTL DEF Spec

-----------------------------------------------------------------------------
(* Records whose deadline has passed.                                      *)

(* A GET that began late is after the record of a passed deadline; once it *)
(* is past the check of the deadline, the record is in the sweep.          *)
LateInSweep ==
    \A c \in late : cmd[c].op = "GET" =>
        /\ cmd[c].key \in dead
        /\ pc[c] \in {"gate", "access"} => cmd[c].key \in expired

DeadInv ==
    /\ LockInv
    /\ dead \subseteq Key /\ late \subseteq Client
    /\ DeadAreKnown
    /\ LateInSweep
    /\ \A k \in dead : ~Erased(k)
    /\ \A c \in Client : pc[c] = "deadline" => cmd[c].op # "GET"

(* A step of c that neither the clock nor the sweep nor a deadline sees.   *)
LEMMA MoveDeadInv ==
    ASSUME DeadInv, LockInv', NEW c \in Client, NEW l, pc' = [pc EXCEPT ![c] = l],
           cmd' = cmd \/ cmd' = [cmd EXCEPT ![c] = NoCommand],
           NEW ks, Revive(ks) \/ UNCHANGED <<dead, late>>,
           UNCHANGED <<ttlMap, expired>>,
           l \in {"gate", "access"} => cmd[c].op # "GET" \/ pc[c] \in {"gate", "access"},
           l = "deadline" => cmd'[c].op # "GET",
           l \in NotifyLabels => cmd'[c].op # "GET" \/ pc[c] \in NotifyLabels
    PROVE  DeadInv'
  <1> USE DEF DeadInv, LockInv
  <1>1. dead' \subseteq dead /\ late' \subseteq late
    BY DEF Revive
  <1>2. DeadAreKnown'
    BY <1>1 DEF DeadAreKnown
  <1>3. \A d \in Client : cmd'[d].op = "GET" => cmd'[d] = cmd[d]
    BY DEF NoCommand
  <1>4. LateInSweep'
    <2> SUFFICES ASSUME NEW d \in late', cmd'[d].op = "GET"
                 PROVE  /\ cmd'[d].key \in dead'
                        /\ pc'[d] \in {"gate", "access"} =>
                              cmd'[d].key \in expired
      BY DEF LateInSweep
    <2>1. d \in late /\ d \in Client /\ cmd'[d] = cmd[d] /\ cmd[d].op = "GET"
      BY <1>1, <1>3
    <2>2. cmd[d] # NoCommand
      BY <2>1 DEF NoCommand
    <2>3. cmd[d].key \in dead'
      BY <2>1, <2>2 DEF Revive, LateInSweep
    <2>4. pc'[d] \in {"gate", "access"} => pc[d] \in {"gate", "access"}
      BY <2>1
    <2> QED
      BY <2>1, <2>3, <2>4 DEF LateInSweep
  <1>5. \A k \in dead' : ~Erased(k)'
    BY <1>1, <1>3 DEF Erased
  <1>6. \A d \in Client : pc'[d] = "deadline" => cmd'[d].op # "GET"
    BY <1>3
  <1> QED
    BY <1>1, <1>2, <1>4, <1>5, <1>6

LEMMA NextDeadInv ==
    ASSUME DeadInv, [Next]_vars PROVE DeadInv'
  <1> USE DEF lockVars, obsVars, clientVars, sweepVars, histVars
  <1>0. LockInv'
    BY NextLockInv DEF DeadInv
  <1>a. \A c \in Client : pc[c] \in CommandLabels => cmd[c].key \in Key
    BY SubsetsAssumption DEF DeadInv, LockInv, Commands
  <1>1. ASSUME NEW c \in Client, NEW command \in Commands, Begin(c, command)
        PROVE  DeadInv'
    <2>1. /\ cmd' = [cmd EXCEPT ![c] = command]
          /\ \/ command.op = "GET" /\ pc' = [pc EXCEPT ![c] = "check"]
             \/ /\ command.op # "GET"
                /\ \E l \in {"gate", "access"} : pc' = [pc EXCEPT ![c] = l]
          /\ late' = IF command.op = "GET" /\ command.key \in dead
                     THEN late \cup {c} ELSE late \ {c}
          /\ UNCHANGED <<ttlMap, expired, dead>>
      BY <1>1 DEF Begin, Call, Goto
    <2>2. DeadAreKnown' /\ dead' \subseteq Key /\ late' \subseteq Client
      BY <2>1 DEF DeadInv, DeadAreKnown
    <2>3. LateInSweep'
      BY <2>1 DEF DeadInv, LockInv, LateInSweep
    <2>4. \A k \in dead' : ~Erased(k)'
      BY <2>1 DEF DeadInv, LockInv, Erased, NotifyLabels
    <2>5. \A d \in Client : pc'[d] = "deadline" => cmd'[d].op # "GET"
      BY <2>1 DEF DeadInv, LockInv
    <2> QED
      BY <1>0, <2>2, <2>3, <2>4, <2>5 DEF DeadInv
  <1>2. ASSUME NEW c \in Client, Check(c) PROVE DeadInv'
    <2>1. /\ pc[c] = "check" /\ cmd[c].op = "GET" /\ cmd[c].key \in Key
          /\ UNCHANGED <<ttlMap, cmd, expired, dead, late>>
          /\ \/ \E l \in LazyLabels : pc' = [pc EXCEPT ![c] = l]
             \/ /\ ttlMap[cmd[c].key] # "passed"
                /\ \E l \in {"gate", "access"} : pc' = [pc EXCEPT ![c] = l]
      BY <1>2, <1>a
         DEF Check, Call, Goto, DeadInv, LockInv, LazyLabels, CommandLabels
    <2>2. DeadAreKnown'
      BY <2>1 DEF DeadInv, DeadAreKnown
    <2>3. LateInSweep'
      BY <2>1 DEF DeadInv, DeadAreKnown, LockInv, LateInSweep, LazyLabels
    <2>4. \A k \in dead' : ~Erased(k)'
      BY <2>1 DEF DeadInv, LockInv, Erased, LazyLabels, NotifyLabels
    <2> QED
      BY <1>0, <2>1, <2>2, <2>3, <2>4 DEF DeadInv, LockInv, LazyLabels
  <1>3. ASSUME NEW c \in Client, PassGate(c) PROVE DeadInv'
    <2>1. PICK l \in {"access", "lazyDelete"} :
             /\ pc' = [pc EXCEPT ![c] = l]
             /\ l = "access" => pc[c] = "gate"
      BY <1>3 DEF PassGate, Goto
    <2>2. UNCHANGED <<ttlMap, cmd, expired, dead, late>>
      BY <1>3 DEF PassGate
    <2>3. l \notin NotifyLabels
      BY DEF NotifyLabels
    <2> QED
      BY <1>0, <2>1, <2>2, <2>3, MoveDeadInv
  <1>4. ASSUME NEW c \in Client, LazyDelete(c) PROVE DeadInv'
    <2>1. PICK k \in Key : k = cmd[c].key
      BY <1>4, <1>a DEF LazyDelete, CommandLabels
    <2>2. /\ \E l \in {"notify", "idle"} : pc' = [pc EXCEPT ![c] = l]
          /\ cmd' = cmd \/ cmd' = [cmd EXCEPT ![c] = NoCommand]
          /\ dead' = dead \ {k}
          /\ late' = {d \in late : cmd[d] # NoCommand => cmd[d].key \notin {k}}
          /\ UNCHANGED <<ttlMap, expired>>
      BY <1>4, <2>1 DEF LazyDelete, Reply, Goto, ExpireRecord, Revive
    <2>3. DeadAreKnown'
      BY <2>2 DEF DeadInv, DeadAreKnown
    <2>4. LateInSweep'
      <3> SUFFICES ASSUME NEW d \in late', cmd'[d].op = "GET"
                   PROVE  /\ cmd'[d].key \in dead'
                          /\ pc'[d] \in {"gate", "access"} =>
                                cmd'[d].key \in expired
        BY <2>2 DEF LateInSweep
      <3>1. d \in late /\ d \in Client /\ cmd'[d] = cmd[d] /\ cmd[d] # NoCommand
        BY <2>2 DEF DeadInv, LockInv, NoCommand
      <3>2. cmd[d].key # k /\ d # c
        BY <2>1, <2>2, <3>1
      <3>3. pc'[d] = pc[d]
        BY <2>2, <3>1, <3>2 DEF DeadInv, LockInv
      <3> QED
        BY <2>2, <3>1, <3>2, <3>3 DEF DeadInv, LateInSweep
    <2>5. dead' \subseteq Key /\ late' \subseteq Client
      BY <2>2 DEF DeadInv
    <2>6. \A i \in dead' : ~Erased(i)'
      <3> SUFFICES ASSUME NEW i \in dead', NEW d \in Client,
                          pc'[d] \in NotifyLabels, cmd'[d].op = "GET",
                          cmd'[d].key = i
                   PROVE  FALSE
        BY DEF Erased
      <3>1. cmd'[d] = cmd[d]
        BY <2>2 DEF DeadInv, LockInv, NoCommand
      <3>2. d # c
        BY <2>1, <2>2, <3>1
      <3>3. pc'[d] = pc[d]
        BY <2>2, <3>2 DEF DeadInv, LockInv
      <3> QED
        BY <2>2, <3>1, <3>3 DEF DeadInv, Erased
    <2>7. \A d \in Client : pc'[d] = "deadline" => cmd'[d].op # "GET"
      BY <2>2 DEF DeadInv, LockInv, NoCommand
    <2> QED
      BY <1>0, <2>3, <2>4, <2>5, <2>6, <2>7 DEF DeadInv
  <1>g. ASSUME NEW c \in Client, Get(c) PROVE DeadInv'
    <2>1. /\ pc' = [pc EXCEPT ![c] = "idle"]
          /\ cmd' = [cmd EXCEPT ![c] = NoCommand]
          /\ late' = late \ {c}
          /\ UNCHANGED <<ttlMap, expired, dead>>
      BY <1>g DEF Get, Reply, Goto
    <2>2. DeadAreKnown' /\ late' \subseteq Client
      BY <2>1 DEF DeadInv, DeadAreKnown
    <2>3. LateInSweep'
      BY <2>1 DEF DeadInv, LateInSweep
    <2>4. \A k \in dead' : ~Erased(k)'
      BY <2>1 DEF DeadInv, LockInv, Erased, NotifyLabels
    <2> QED
      BY <1>0, <2>1, <2>2, <2>3, <2>4 DEF DeadInv, LockInv
  <1>5. ASSUME NEW c \in Client,
               Set(c) \/ Delete(c) \/ FindRecord(c) \/ NotifyBegin(c)
        PROVE  DeadInv'
    <2>1. /\ UNCHANGED <<ttlMap, expired>>
          /\ (\E ks : Revive(ks)) \/ UNCHANGED <<dead, late>>
      BY <1>5 DEF Set, Delete, FindRecord, NotifyBegin
    <2>2. PICK l \in {"idle", "notify", "notifying", "deadline"} :
             /\ pc' = [pc EXCEPT ![c] = l]
             /\ l = "idle" => cmd' = [cmd EXCEPT ![c] = NoCommand]
             /\ l # "idle" => cmd' = cmd
             /\ l = "notifying" => pc[c] = "notify"
             /\ l \in {"notify", "deadline"} => cmd[c].op # "GET"
      <3>1. CASE Set(c) \/ NotifyBegin(c)
        BY <3>1 DEF Set, NotifyBegin, Goto
      <3>2. CASE Delete(c) \/ FindRecord(c)
        BY <3>2 DEF Delete, FindRecord, Reply, Goto
      <3> QED
        BY <1>5, <3>1, <3>2
    <2>3. cmd' = cmd \/ cmd' = [cmd EXCEPT ![c] = NoCommand]
      BY <2>2
    <2>4. l = "deadline" => cmd'[c].op # "GET"
      BY <2>2
    <2>5. l \in NotifyLabels => cmd'[c].op # "GET" \/ pc[c] \in NotifyLabels
      BY <2>2 DEF NotifyLabels
    <2>6. l \notin {"gate", "access"}
      OBVIOUS
    <2> HIDE DEF Revive
    <2> QED
      BY <1>0, <2>1, <2>2, <2>3, <2>4, <2>5, <2>6, MoveDeadInv
  <1>6. ASSUME NEW c \in Client, SetDeadline(c) PROVE DeadInv'
    <2>k. PICK k \in Key : k = cmd[c].key
      BY <1>6, <1>a DEF SetDeadline, CommandLabels
    <2>1. /\ pc[c] = "deadline" /\ cmd[c].op # "GET"
          /\ pc' = [pc EXCEPT ![c] = "idle"]
          /\ cmd' = [cmd EXCEPT ![c] = NoCommand]
          /\ Revive({k})
          /\ \A i \in Key \ {k} : ttlMap'[i] = ttlMap[i]
          /\ UNCHANGED expired
      BY <1>6, <1>a, <2>k DEF SetDeadline, Reply, Goto, DeadInv, LockInv,
                              CommandLabels
    <2>2. DeadAreKnown'
      BY <2>1 DEF DeadInv, DeadAreKnown, Revive
    <2>3. LateInSweep'
      <3> SUFFICES ASSUME NEW d \in late', cmd'[d].op = "GET"
                   PROVE  /\ cmd'[d].key \in dead'
                          /\ pc'[d] \in {"gate", "access"} =>
                                cmd'[d].key \in expired
        BY <2>1 DEF LateInSweep
      <3>1. d \in late /\ d \in Client /\ cmd'[d] = cmd[d] /\ d # c
        BY <2>1 DEF DeadInv, LockInv, NoCommand, Revive
      <3>2. pc'[d] = pc[d] /\ cmd[d] # NoCommand
        BY <2>1, <3>1 DEF DeadInv, LockInv, NoCommand
      <3> QED
        BY <2>1, <3>1, <3>2 DEF DeadInv, LateInSweep, Revive
    <2>4. dead' \subseteq dead /\ late' \subseteq late
      BY <2>1 DEF Revive
    <2>5. \A i \in dead' : ~Erased(i)'
      BY <2>1, <2>4 DEF DeadInv, LockInv, Erased, NotifyLabels
    <2> QED
      BY <1>0, <2>1, <2>2, <2>3, <2>4, <2>5 DEF DeadInv, LockInv
  <1>n. ASSUME NEW c \in Client, NotifyEnd(c) PROVE DeadInv'
    <2>k. PICK k \in Key : k = cmd[c].key
      BY <1>n, <1>a DEF NotifyEnd, CommandLabels
    <2>1. CASE cmd[c].op # "GET"
      <3>1. PICK l \in {"idle", "deadline"} :
               /\ pc' = [pc EXCEPT ![c] = l]
               /\ cmd' = cmd \/ cmd' = [cmd EXCEPT ![c] = NoCommand]
               /\ l = "deadline" => UNCHANGED cmd
        BY <1>n, <2>1 DEF NotifyEnd, Reply, Goto
      <3>2. UNCHANGED <<ttlMap, expired, dead, late>>
        BY <1>n, <2>1 DEF NotifyEnd
      <3>3. l \notin {"gate", "access"} /\ l \notin NotifyLabels
        BY DEF NotifyLabels
      <3>4. l = "deadline" => cmd'[c].op # "GET"
        BY <2>1, <3>1
      <3> QED
        BY <1>0, <3>1, <3>2, <3>3, <3>4, MoveDeadInv
    <2>2. CASE cmd[c].op = "GET"
      <3>1. /\ pc' = [pc EXCEPT ![c] = "idle"]
            /\ cmd' = [cmd EXCEPT ![c] = NoCommand]
            /\ \A i \in Key \ {k} : ttlMap'[i] = ttlMap[i]
            /\ UNCHANGED <<expired, dead, late>>
        BY <1>n, <2>2, <2>k DEF NotifyEnd, Reply, Goto, DeadInv, LockInv
      <3>2. k \notin dead
        BY <1>n, <2>2, <2>k DEF NotifyEnd, DeadInv, Erased, NotifyLabels
      <3>3. DeadAreKnown'
        BY <3>1, <3>2 DEF DeadInv, DeadAreKnown
      <3>4. LateInSweep'
        BY <3>1 DEF DeadInv, LockInv, LateInSweep, NoCommand
      <3>5. \A i \in dead' : ~Erased(i)'
        BY <3>1 DEF DeadInv, LockInv, Erased, NotifyLabels
      <3> QED
        BY <1>0, <3>1, <3>3, <3>4, <3>5 DEF DeadInv, LockInv
    <2> QED
      BY <2>1, <2>2
  <1>7. CASE Sweep
    <2>1. expired = {} /\ expired' = Passed
      BY <1>7 DEF Sweep, DeadInv, LockInv
    <2>2. DeadAreKnown'
      BY <1>7, <2>1 DEF Sweep, Passed, DeadInv, DeadAreKnown
    <2>3. LateInSweep'
      BY <1>7, <2>1 DEF Sweep, DeadInv, LockInv, LateInSweep
    <2>4. \A k \in dead' : ~Erased(k)'
      BY <1>7 DEF Sweep, DeadInv, Erased
    <2> QED
      BY <1>0, <1>7, <2>2, <2>3, <2>4 DEF Sweep, DeadInv
  <1>8. ASSUME NEW k \in Key, SweepDelete(k) PROVE DeadInv'
    <2>1. /\ dead' = dead \ {k} /\ expired' = expired \ {k}
          /\ late' = {d \in late : cmd[d] # NoCommand => cmd[d].key \notin {k}}
          /\ UNCHANGED <<pc, cmd, ttlMap>>
      BY <1>8 DEF SweepDelete, ExpireRecord, Revive
    <2>2. DeadAreKnown'
      BY <2>1 DEF DeadInv, DeadAreKnown
    <2>3. LateInSweep'
      BY <2>1 DEF DeadInv, LateInSweep, NoCommand
    <2>4. \A i \in dead' : ~Erased(i)'
      BY <2>1 DEF DeadInv, Erased
    <2> QED
      BY <1>0, <2>1, <2>2, <2>3, <2>4 DEF DeadInv
  <1>9. ASSUME NEW k \in Key, Pass(k) PROVE DeadInv'
    <2>1. ttlMap[k] = "armed" /\ dead' \subseteq dead \cup {k}
          /\ UNCHANGED <<pc, cmd, expired, late>> /\ dead \subseteq dead'
      BY <1>9 DEF Pass
    <2>2. DeadAreKnown' /\ dead' \subseteq Key
      BY <1>9 DEF Pass, DeadInv, DeadAreKnown, LockInv
    <2>3. LateInSweep'
      BY <2>1 DEF DeadInv, LateInSweep
    <2>4. ~Erased(k)
      BY <2>1 DEF DeadInv, LockInv, Erased, Lazy
    <2>5. \A i \in dead' : ~Erased(i)'
      BY <2>1, <2>4 DEF DeadInv, Erased
    <2> QED
      BY <1>0, <2>1, <2>2, <2>3, <2>5 DEF DeadInv
  <1>10. ASSUME UNCHANGED <<ttlMap, pc, cmd, expired, dead, late>> PROVE DeadInv'
    BY <1>0, <1>10 DEF DeadInv, DeadAreKnown, LateInSweep, Erased
  <1>11. ASSUME NEW c \in TxClient, RunClear(c) \/ Transact(c) PROVE DeadInv'
    <2>1. /\ UNCHANGED <<ttlMap, cmd, expired, dead, late>>
          /\ \/ UNCHANGED pc
             \/ \E l \in {"idle", "watch", "clear", "unregister"} :
                   pc' = [pc EXCEPT ![c] = l]
      BY <1>11 DEF RunClear, Transact, LockDatabase, UnlockDatabase, Discard,
                   WatchBegin, WatchEnd, Register, ClearBegin, ClearEnd,
                   Unregister, Goto
    <2>2. \A l \in {"idle", "watch", "clear", "unregister"} :
             l \notin {"gate", "access", "deadline"} \cup NotifyLabels
      BY DEF NotifyLabels
    <2> QED
      BY <1>0, <1>10, <2>1, <2>2, MoveDeadInv, SubsetsAssumption
  <1>12. CASE \/ UNCHANGED vars \/ SweepGate \/ SweepNotifyBegin
              \/ SweepNotifyEnd \/ (\E o \in TxClient : SweepNotifyOne(o))
              \/ \E c \in Client, o \in TxClient : NotifyOne(c, o)
    BY <1>10, <1>12 DEF vars, SweepGate, SweepNotifyBegin, SweepNotifyEnd,
                        SweepNotifyOne, NotifyOne, Reach
  <1> QED
    BY <1>1, <1>2, <1>3, <1>4, <1>g, <1>5, <1>6, <1>n, <1>7, <1>8, <1>9,
       <1>11, <1>12 DEF Next, RunCommand, RunSweep

LEMMA InitDeadInv == Init => DeadInv
  BY InitLockInv DEF Init, DeadInv, DeadAreKnown, LateInSweep

(* A record whose deadline has passed is known to getRecord or to the      *)
(* sweep under way, unless EXPIRE, PERSIST or DEL has taken the deadline   *)
(* away since.                                                             *)
THEOREM DeadlinesAreNotLost == Spec => []DeadAreKnown
  <1>1. DeadInv /\ [Next]_vars => DeadInv'
    BY NextDeadInv
  <1> QED
    BY <1>1, InitDeadInv, PTL DEF Spec, DeadInv

(* A GET that begins after the deadline returns the record only when the   *)
(* sweep is about to delete it.                                            *)
THEOREM LateReadsAreSwept == Spec => LateReadsOnlyInSweep
  <1>1. DeadInv => [\A c \in late : Returns(c) => cmd[c].key \in expired]_vars
    BY DEF DeadInv, LateInSweep, Returns, Get
  <1>2. DeadInv /\ [Next]_vars => DeadInv'
    BY NextDeadInv
  <1> QED
    BY <1>1, <1>2, InitDeadInv, PTL DEF Spec, LateReadsOnlyInSweep
=============================================================================
