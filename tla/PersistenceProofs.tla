-------------------------- MODULE PersistenceProofs --------------------------
(***************************************************************************)
(* Proofs about module Persistence, for any keys, values and number of     *)
(* faults: its types, that a snapshot makes no value up, and that it       *)
(* implements SnapshotStore.                                               *)
(***************************************************************************)
EXTENDS Persistence, TLAPS

LEMMA FilesOfContents ==
    /\ Nothing \in Content /\ Missing \in Files
    /\ \A data \in Content : Whole(data) \in Files
  <1>1. Nothing \in Content
    BY DEF Nothing, Content
  <1> QED
    BY <1>1 DEF Missing, Whole, Files

\* The value of k that serialize writes when it comes to it.
Copied(k) == IF copy[k] = Shared THEN records[k] ELSE copy[k]

LEMMA CopiedValues ==
    ASSUME TypeOK, NEW k \in Key
    PROVE  Copied(k) \in Stored \cup {None}
  BY DEF TypeOK, Copied, Content

LEMMA InitTypeOK == Init => TypeOK
  <1> SUFFICES ASSUME Init PROVE TypeOK
    OBVIOUS
  <1>1. /\ copy \in [Key -> Stored \cup {None, Shared}]
        /\ held \in [Key -> SUBSET (Stored \cup {None})]
    BY DEF Init, Nothing, Unread
  <1> QED
    BY <1>1, FilesOfContents, FaultsAssumption DEF Init, TypeOK, Missing

LEMMA NextTypeOK == ASSUME TypeOK, [Next]_vars PROVE TypeOK'
  <1> USE DEF saveVars, fileVars, histVars
  <1>h. Unread \in [Key -> SUBSET (Stored \cup {None})]
    BY DEF Unread
  <1>c. Nothing \in [Key -> Stored \cup {None, Shared}]
    BY DEF Nothing
  <1>1. ASSUME NEW k \in Key, NEW v \in Value, WriteRecord(k, v) PROVE TypeOK'
    BY <1>1 DEF TypeOK, WriteRecord, Hold, Content, Stored
  <1>2. ASSUME NEW k \in Key, DeleteRecord(k) PROVE TypeOK'
    <2>1. records[k] \in Stored \cup {None}
      BY DEF TypeOK, Content
    <2>2. copy' \in [Key -> Stored \cup {None, Shared}]
      BY <1>2, <2>1 DEF TypeOK, DeleteRecord
    <2> QED
      BY <1>2, <2>2 DEF TypeOK, DeleteRecord, Hold, Content
  <1>17. ASSUME NEW k \in Key, NEW v \in Value, ChangeDeleted(k, v)
         PROVE  TypeOK'
    BY <1>17 DEF TypeOK, ChangeDeleted, Hold, Stored
  <1>3. CASE GetAllRecords
    <2>1. copy' \in [Key -> Stored \cup {None, Shared}]
      BY <1>3 DEF GetAllRecords
    <2>2. held' \in [Key -> SUBSET (Stored \cup {None})]
      BY <1>3 DEF GetAllRecords, TypeOK, Content
    <2> QED
      BY <1>3, <2>1, <2>2, FilesOfContents DEF TypeOK, GetAllRecords, Present
  <1>4. ASSUME NEW k \in Key, SerializeRecord(k) PROVE TypeOK'
    <2>1. buffer' \in Content
      BY <1>4, CopiedValues DEF SerializeRecord, Copied, TypeOK, Content
    <2> QED
      BY <1>4, <2>1 DEF TypeOK, SerializeRecord
  <1>5. CASE EndSerialize
    BY <1>5, <1>c DEF TypeOK, EndSerialize
  <1>6. CASE OpenTemp
    BY <1>6, FilesOfContents DEF TypeOK, OpenTemp, Whole
  <1>7. CASE WriteTemp
    BY <1>7, FilesOfContents DEF TypeOK, WriteTemp, Whole
  <1>8. CASE RemoveOld
    BY <1>8, <1>h, FilesOfContents DEF TypeOK, RemoveOld, Missing
  <1>9. CASE StartSnapshot
    <2>1. file.data \in [Key -> Stored \cup {None}]
      BY DEF TypeOK, Files, Content
    <2>2. Garbage \in Stored
      BY DEF Stored
    <2>3. records' \in Content
      BY <1>9, <2>1, <2>2 DEF StartSnapshot, Content
    <2> QED
      BY <1>9, <2>3 DEF TypeOK, StartSnapshot
  <1>10. CASE StartAof
    BY <1>10, FilesOfContents DEF TypeOK, StartAof, Whole
  <1>11. CASE StartPlain
    BY <1>11 DEF TypeOK, StartPlain
  <1>12. CASE Crash
    BY <1>12, <1>h, <1>c, FilesOfContents DEF TypeOK, Crash, Missing
  <1>13. CASE OpenFails \/ RenameFails
    BY <1>13, <1>h, <1>c, FilesOfContents, FaultsAssumption
       DEF TypeOK, OpenFails, RenameFails, EndSave, Missing
  <1>14. CASE RenameTemp
    BY <1>14, <1>h, <1>c, FilesOfContents DEF TypeOK, RenameTemp, EndSave, Missing
  <1>15. CASE WriteFallsShort
    <2>1. PICK fit \in SUBSET Present(buffer), torn \in Key \cup {None} :
            temp' = [data |-> [k \in Key |-> IF k \in fit THEN buffer[k]
                                                          ELSE None],
                     is |-> "cut", torn |-> torn]
      BY <1>15 DEF WriteFallsShort, Present
    <2>2. temp' \in Files /\ temp'.is = "cut"
      BY <2>1 DEF TypeOK, Files, Content, Present
    <2> QED
      BY <1>15, <2>2, <1>h, FilesOfContents, FaultsAssumption
         DEF TypeOK, WriteFallsShort
  <1>16. CASE UNCHANGED vars
    BY <1>16 DEF TypeOK, vars
  <1> QED
    BY <1>1, <1>2, <1>3, <1>4, <1>5, <1>6, <1>7, <1>8, <1>9, <1>10, <1>11,
       <1>12, <1>13, <1>14, <1>15, <1>16, <1>17
       DEF Next, Commands, Save, Fault, Start
-----------------------------------------------------------------------------
(* What each key held since the copy was made: what serialize has written, *)
(* what it will write, and, with no fault of the disk, what is about to be *)
(* put in place.                                                           *)
CopyInv == at = "serialize" => \A k \in Key : Copied(k) \in held[k]

\* The copy is there while it is read.  A record of it is deleted only then,
\* and so the key was missing at some moment of the reading.
DeletedInv ==
    /\ at # "serialize" => copy = Nothing
    /\ \A k \in Key : copy[k] \in Stored => None \in held[k]

TempInv ==
    /\ at = "remove" /\ temp.is # "cut" =>
          \A k \in Key : temp.data[k] \in held[k]
    /\ at = "remove" /\ temp.is = "cut" => held = Unread
    /\ at \in {"remove", "rename"} => temp.is \in {"whole", "cut"}

FileInv ==
    /\ at \in {"open", "write"} => todo = {}
    /\ at = "rename" => file = Missing
    /\ file.is = "missing" => file = Missing
    /\ up = "down" => records = Nothing
    /\ at \in {"off", "sleep", "rename"} => held = Unread

IInv ==
    /\ TypeOK /\ CopyInv /\ DeletedInv /\ SavedValuesWereHeld
    /\ TempInv /\ FileInv

\* A copy that is not there, and one just made, have no deleted record.
LEMMA NoneDeleted ==
    /\ \A k \in Key : Nothing[k] \notin Stored
    /\ Shared \notin Stored /\ None \notin Stored
  BY NoneAssumption, SharedAssumption DEF Nothing, Stored, Shared

LEMMA InitInv == Init => IInv
  BY InitTypeOK, NoneDeleted
     DEF Init, IInv, CopyInv, DeletedInv, SavedValuesWereHeld, TempInv, FileInv

\* Commands change the records: what they write is held, and what they
\* delete stays in the copy.
LEMMA WritesInv ==
    ASSUME IInv, TypeOK',
           NEW k \in Key, NEW v \in Value \cup {None},
           \/ v # None /\ WriteRecord(k, v)
           \/ v = None /\ DeleteRecord(k)
    PROVE  IInv'
  <1>2. /\ up' = up /\ up # "down" /\ at' = at /\ todo' = todo
        /\ buffer' = buffer /\ temp' = temp /\ file' = file
        /\ Hold(k, v)
        /\ records' = [records EXCEPT ![k] = v]
        /\ \A j \in Key \ {k} : copy'[j] = copy[j]
        /\ \/ copy' = copy
           \/ copy[k] = Shared /\ copy' = [copy EXCEPT ![k] = records[k]]
    BY DEF WriteRecord, DeleteRecord, saveVars, fileVars, IInv, TypeOK
  <1>3. /\ held \in [Key -> SUBSET (Stored \cup {None})]
        /\ records \in [Key -> Stored \cup {None}]
        /\ copy \in [Key -> Stored \cup {None, Shared}]
    BY DEF IInv, TypeOK, Content
  <1>4. \A j \in Key : held[j] \subseteq held'[j]
    BY <1>2, <1>3 DEF Hold
  <1>5. at # "serialize" => held' = held
    BY <1>2 DEF Hold, Reading
  <1>6. CopyInv'
    <2> SUFFICES ASSUME at = "serialize", NEW j \in Key
                 PROVE  Copied(j)' \in held'[j]
      BY <1>2 DEF CopyInv
    <2>1. Copied(j) \in held[j] /\ Copied(k) \in held[k] /\ v \in held'[k]
      BY <1>2, <1>3 DEF IInv, CopyInv, Hold, Reading
    <2>2. CASE j # k
      BY <1>2, <1>3, <1>4, <2>1, <2>2 DEF Copied
    <2>3. CASE j = k
      BY <1>2, <1>3, <1>4, <2>1, <2>3, SharedAssumption
         DEF Copied, Stored
    <2> QED
      BY <2>2, <2>3
  <1>7. SavedValuesWereHeld'
    BY <1>2, <1>4 DEF IInv, SavedValuesWereHeld
  <1>8. TempInv'
    BY <1>2, <1>4, <1>5 DEF IInv, TempInv
  <1>9. FileInv'
    BY <1>2, <1>5 DEF IInv, FileInv
  <1>10. DeletedInv'
    <2>1. copy[k] = Shared /\ at = "serialize" => v \in held'[k]
      BY <1>2, <1>3 DEF Hold, Reading
    <2>2. copy[k] = Shared => at = "serialize"
      BY SharedAssumption, NoneAssumption
         DEF IInv, DeletedInv, Nothing, Shared
    <2>3. copy' = copy \/ v = None
      BY DEF WriteRecord, saveVars
    <2>4. at # "serialize" => copy' = Nothing
      BY <1>2, <2>2 DEF IInv, DeletedInv
    <2>5. ASSUME NEW j \in Key, copy'[j] \in Stored PROVE None \in held'[j]
      BY <1>2, <1>4, <2>1, <2>2, <2>3, <2>5 DEF IInv, DeletedInv
    <2> QED
      BY <1>2, <2>4, <2>5 DEF DeletedInv
  <1> QED
    BY <1>6, <1>7, <1>8, <1>9, <1>10 DEF IInv

\* A deleted record of the copy is changed, and the new value is held.
LEMMA ChangesInv ==
    ASSUME IInv, TypeOK', NEW k \in Key, NEW v \in Value, ChangeDeleted(k, v)
    PROVE  IInv'
  <1>1. /\ at = "serialize" /\ copy[k] \in Stored
        /\ copy' = [copy EXCEPT ![k] = v]
        /\ held' = [held EXCEPT ![k] = @ \cup {v}]
        /\ UNCHANGED <<up, records, at, todo, buffer, temp, file>>
    BY DEF ChangeDeleted, Hold, Reading, fileVars
  <1>2. /\ held \in [Key -> SUBSET (Stored \cup {None})]
        /\ copy \in [Key -> Stored \cup {None, Shared}]
    BY DEF IInv, TypeOK
  <1>3. /\ \A j \in Key : held[j] \subseteq held'[j]
        /\ v \in held'[k] /\ copy'[k] = v
        /\ \A j \in Key \ {k} : copy'[j] = copy[j]
    BY <1>1, <1>2
  <1>4. CopyInv'
    <2>1. v # Shared
      BY NoneDeleted DEF Stored
    <2> QED
      BY <1>1, <1>3, <2>1 DEF IInv, CopyInv, Copied
  <1>5. DeletedInv'
    BY <1>1, <1>3 DEF IInv, DeletedInv
  <1>6. SavedValuesWereHeld'
    BY <1>1, <1>3 DEF IInv, SavedValuesWereHeld
  <1>7. TempInv' /\ FileInv'
    BY <1>1 DEF IInv, TempInv, FileInv
  <1> QED
    BY <1>4, <1>5, <1>6, <1>7 DEF IInv

LEMMA CommandsInv ==
    ASSUME IInv, TypeOK', Commands
    PROVE  IInv'
  BY WritesInv, ChangesInv, NoneAssumption DEF Commands

LEMMA ReadingInv ==
    ASSUME IInv, TypeOK',
           GetAllRecords \/ (\E k \in Key : SerializeRecord(k)) \/ EndSerialize
    PROVE  IInv'
  <1> USE DEF fileVars, histVars
  <1>1. CASE GetAllRecords
    <2>1. CopyInv'
      BY <1>1 DEF GetAllRecords, CopyInv, Copied
    <2>2. SavedValuesWereHeld'
      BY <1>1 DEF GetAllRecords, SavedValuesWereHeld, Nothing, Present
    <2>3. DeletedInv'
      BY <1>1, NoneDeleted DEF GetAllRecords, DeletedInv
    <2> QED
      BY <1>1, <2>1, <2>2, <2>3 DEF GetAllRecords, IInv, TempInv, FileInv
  <1>2. ASSUME NEW k \in Key, SerializeRecord(k) PROVE IInv'
    <2>1. CopyInv'
      BY <1>2 DEF SerializeRecord, IInv, CopyInv, Copied
    <2>2. buffer \in [Key -> Stored \cup {None}]
      BY DEF IInv, TypeOK, Content
    <2>3. buffer' = [buffer EXCEPT ![k] = Copied(k)]
      BY <1>2 DEF SerializeRecord, Copied
    <2>4. SavedValuesWereHeld'
      BY <1>2, <2>2, <2>3
         DEF SerializeRecord, IInv, CopyInv, SavedValuesWereHeld
    <2> QED
      BY <1>2, <2>1, <2>4 DEF SerializeRecord, IInv, DeletedInv, TempInv,
                              FileInv
  <1>3. CASE EndSerialize
    BY <1>3, NoneDeleted
       DEF EndSerialize, IInv, CopyInv, DeletedInv, SavedValuesWereHeld,
           TempInv, FileInv
  <1> QED
    BY <1>1, <1>2, <1>3

LEMMA FilingInv ==
    ASSUME IInv, TypeOK',
           OpenTemp \/ WriteTemp \/ RemoveOld \/ RenameTemp \/ Fault
    PROVE  IInv'
  <1> USE NoneDeleted DEF DeletedInv, fileVars, histVars
  <1>1. CASE OpenTemp
    BY <1>1 DEF OpenTemp, IInv, CopyInv, SavedValuesWereHeld, TempInv, FileInv
  <1>2. CASE WriteTemp
    BY <1>2 DEF WriteTemp, IInv, CopyInv, SavedValuesWereHeld, TempInv,
                FileInv, Whole
  <1>3. CASE RemoveOld
    BY <1>3 DEF RemoveOld, IInv, CopyInv, SavedValuesWereHeld, TempInv, FileInv
  <1>4. CASE RenameTemp
    BY <1>4 DEF RenameTemp, EndSave, IInv, CopyInv, SavedValuesWereHeld,
                TempInv, FileInv
  <1>5. CASE OpenFails \/ RenameFails
    BY <1>5 DEF OpenFails, RenameFails, EndSave, IInv, CopyInv,
                SavedValuesWereHeld, TempInv, FileInv
  <1>6. CASE WriteFallsShort
    <2>1. temp'.is = "cut"
      BY <1>6 DEF WriteFallsShort
    <2> QED
      BY <1>6, <2>1 DEF WriteFallsShort, IInv, CopyInv, SavedValuesWereHeld,
                        TempInv, FileInv
  <1> QED
    BY <1>1, <1>2, <1>3, <1>4, <1>5, <1>6 DEF Fault

LEMMA NextInv == ASSUME IInv, [Next]_vars PROVE IInv'
  <1> USE NoneDeleted DEF DeletedInv
  <1>1. TypeOK'
    BY NextTypeOK DEF IInv
  <1>2. CASE Start
    BY <1>1, <1>2 DEF Start, StartSnapshot, StartAof, StartPlain, IInv, TypeOK,
       CopyInv, SavedValuesWereHeld, TempInv, FileInv, saveVars, fileVars,
       histVars, Whole
  <1>3. CASE Crash
    BY <1>1, <1>3 DEF Crash, IInv, CopyInv, SavedValuesWereHeld, TempInv,
                      FileInv
  <1>4. CASE UNCHANGED vars
    BY <1>1, <1>4 DEF vars, saveVars, fileVars, histVars, IInv, CopyInv,
                      Copied, SavedValuesWereHeld, TempInv, FileInv
  <1> QED
    BY <1>1, <1>2, <1>3, <1>4, CommandsInv, ReadingInv, FilingInv
       DEF Next, Save
-----------------------------------------------------------------------------
(* Persistence implements SnapshotStore                                    *)

\* The sets and values SnapshotStore calls by these names.
LEMMA Mapping ==
    /\ SnapshotStore!Content = Content
    /\ SnapshotStore!Nothing = Nothing /\ SnapshotStore!Unread = Unread
  BY DEF SnapshotStore!Content, SnapshotStore!Nothing, SnapshotStore!Unread,
         Content, Nothing, Unread, Stored

LEMMA InitRefines == Init => SnapshotStore!Init
  BY Mapping DEF Init, SnapshotStore!Init, Durable, Missing

\* A command is a change, seen by a save that is reading, or seen by it
\* alone.
LEMMA CommandsRefine ==
    ASSUME IInv, Commands
    PROVE  SnapshotStore!Next
  <1>1. ASSUME NEW k \in Key, NEW v \in Value, WriteRecord(k, v)
        PROVE  SnapshotStore!Change(k, v)
    BY <1>1 DEF WriteRecord, Hold, Reading, SnapshotStore!Change, Durable,
                saveVars, fileVars, histVars
  <1>2. ASSUME NEW k \in Key, DeleteRecord(k)
        PROVE  SnapshotStore!Change(k, None)
    BY <1>2 DEF DeleteRecord, Hold, Reading, SnapshotStore!Change, Durable,
                saveVars, fileVars, histVars
  <1>3. ASSUME NEW k \in Key, NEW v \in Value, ChangeDeleted(k, v)
        PROVE  SnapshotStore!ChangeLate(k, v)
    BY <1>3 DEF ChangeDeleted, Hold, Reading, IInv, DeletedInv,
                SnapshotStore!ChangeLate, Durable, fileVars
  <1> QED
    BY <1>1, <1>2, <1>3 DEF Commands, SnapshotStore!Next

\* Reading is one step from its begin to its end, and so is what follows it.
LEMMA ReadingRefines ==
    ASSUME IInv
    PROVE  /\ GetAllRecords => SnapshotStore!BeginSave
           /\ EndSerialize => SnapshotStore!EndRead
           /\ (\E k \in Key : SerializeRecord(k)) \/ OpenTemp \/ WriteTemp
                 => UNCHANGED SnapshotStore!vars
  <1> USE DEF Durable, fileVars, histVars
  <1>1. GetAllRecords => SnapshotStore!BeginSave
    BY DEF GetAllRecords, SnapshotStore!BeginSave, IInv, TypeOK
  <1>2. EndSerialize => SnapshotStore!EndRead
    BY DEF EndSerialize, SnapshotStore!EndRead
  <1>3. ASSUME NEW k \in Key, SerializeRecord(k) PROVE UNCHANGED SnapshotStore!vars
    BY <1>3 DEF SerializeRecord, SnapshotStore!vars
  <1>4. OpenTemp \/ WriteTemp => UNCHANGED SnapshotStore!vars
    BY DEF OpenTemp, WriteTemp, SnapshotStore!vars, Whole
  <1> QED
    BY <1>1, <1>2, <1>3, <1>4

\* The old file goes: from then on, the temporary one is the snapshot.
LEMMA ReplacingRefines ==
    ASSUME IInv
    PROVE  /\ RemoveOld => SnapshotStore!Replace \/ SnapshotStore!ReplaceSpoilt
           /\ RenameTemp => SnapshotStore!EndSave
  <1> USE DEF Durable
  <1>1. temp.data \in Content /\ Content = SnapshotStore!Content
    BY Mapping DEF IInv, TypeOK, Files
  <1>2. ASSUME RemoveOld, temp.is = "cut" PROVE SnapshotStore!ReplaceSpoilt
    BY <1>1, <1>2 DEF RemoveOld, IInv, TempInv, SnapshotStore!ReplaceSpoilt
  <1>3. ASSUME RemoveOld, temp.is # "cut" PROVE SnapshotStore!Replace
    BY <1>1, <1>3, Mapping DEF RemoveOld, IInv, TempInv, SnapshotStore!Replace
  <1>4. RenameTemp => SnapshotStore!EndSave
    BY DEF RenameTemp, EndSave, IInv, FileInv, SnapshotStore!EndSave
  <1> QED
    BY <1>2, <1>3, <1>4

LEMMA FaultsRefine == ASSUME IInv, Fault PROVE SnapshotStore!Fault
  <1> USE Mapping DEF Durable, SnapshotStore!Fault, EndSave
  <1>1. CASE OpenFails
    BY <1>1 DEF OpenFails
  <1>2. CASE WriteFallsShort
    BY <1>2 DEF WriteFallsShort
  <1>3. CASE RenameFails
    BY <1>3 DEF RenameFails, IInv, FileInv, Missing
  <1> QED
    BY <1>1, <1>2, <1>3 DEF Fault

\* A crash takes the snapshot only while there is none under its name.
LEMMA CrashRefines == ASSUME IInv, Crash PROVE SnapshotStore!Crash
  BY Mapping DEF Crash, Durable, IInv, FileInv, Missing, SnapshotStore!Crash

\* A start reads the file; one in mode "aof" makes an empty file if need be.
LEMMA StartRefines == ASSUME IInv, Start PROVE SnapshotStore!Start
  <1>1. at = "off" /\ up = "down" /\ records = Nothing
    BY DEF IInv, TypeOK, FileInv, Start, StartSnapshot, StartAof, StartPlain
  <1>2. CASE StartSnapshot
    <2>1. records' \in Content
      BY <1>2, NextTypeOK DEF IInv, TypeOK, Next, Start, StartSnapshot, Files,
         Content, Stored
    <2>2. file.is # "cut" => records' = file.data
      BY <1>2 DEF StartSnapshot, IInv, TypeOK
    <2> QED
      BY <1>1, <1>2, <2>1, <2>2, Mapping
         DEF StartSnapshot, SnapshotStore!Start, Durable, fileVars, histVars
  <1>3. CASE StartAof \/ StartPlain
    BY <1>1, <1>3, Mapping
       DEF StartAof, StartPlain, SnapshotStore!Start, Durable, IInv, FileInv,
           Missing, Whole, saveVars, fileVars, histVars
  <1> QED
    BY <1>2, <1>3 DEF Start

LEMMA NextRefines ==
    ASSUME IInv, [Next]_vars
    PROVE  [SnapshotStore!Next]_(SnapshotStore!vars)
  <1>1. CASE Commands
    BY <1>1, CommandsRefine
  <1>2. CASE Save
    BY <1>2, ReadingRefines, ReplacingRefines
       DEF Save, SnapshotStore!Next
  <1>3. CASE Fault \/ Start \/ Crash
    BY <1>3, FaultsRefine, StartRefines, CrashRefines DEF SnapshotStore!Next
  <1>4. CASE UNCHANGED vars
    BY <1>4 DEF vars, saveVars, fileVars, histVars, SnapshotStore!vars, Durable
  <1> QED
    BY <1>1, <1>2, <1>3, <1>4 DEF Next

-----------------------------------------------------------------------------
\* The server, its save and its files are always what they are declared to be.
THEOREM PersistenceTypes == Spec => []TypeOK
  <1>1. Init => TypeOK
    BY InitTypeOK
  <1>2. TypeOK /\ [Next]_vars => TypeOK'
    BY NextTypeOK
  <1> QED
    BY <1>1, <1>2, PTL DEF Spec

\* For any keys and values, and however commands interleave with serialize:
\* a snapshot holds no value that no record of its key had since the copy was
\* made.
THEOREM SnapshotsMakeNothingUp == Spec => []SavedValuesWereHeld
  <1>1. Init => IInv
    BY InitInv
  <1>2. IInv /\ [Next]_vars => IInv'
    BY NextInv
  <1>3. IInv => SavedValuesWereHeld
    BY DEF IInv
  <1> QED
    BY <1>1, <1>2, <1>3, PTL DEF Spec

\* Saving, loading, crashes and faults keep the promise of SnapshotStore.
THEOREM PersistenceImplementsSnapshotStore == Spec => ImplementsSnapshotStore
  <1>1. Init => IInv /\ SnapshotStore!Init
    BY InitInv, InitRefines
  <1>2. IInv /\ [Next]_vars => IInv'
    BY NextInv
  <1>3. IInv /\ [Next]_vars => [SnapshotStore!Next]_(SnapshotStore!vars)
    BY NextRefines
  <1> QED
    BY <1>1, <1>2, <1>3, PTL
       DEF Spec, ImplementsSnapshotStore, SnapshotStore!Spec
=============================================================================
