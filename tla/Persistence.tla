---------------------------- MODULE Persistence ----------------------------
(***************************************************************************)
(* Saving and loading: include/Database/Persistence/, the serializer it    *)
(* calls and the part of src/server.cpp that starts it.                    *)
(*                                                                         *)
(* In mode "snapshot" a thread sleeps, copies the record map (the records  *)
(* stay shared, so they change while they are written), serialises them    *)
(* one by one, writes a temporary file, removes the old file and renames   *)
(* the temporary one.  In mode "aof" a log is opened, under the same name, *)
(* and nothing is ever written to it or read from it.  Without --persist   *)
(* there is no file.  The server may stop at any step, by a signal or a    *)
(* crash: neither saves, the detached thread ends with the process.        *)
(*                                                                         *)
(* Abstract: values; the bytes of a file, of which remain the records that *)
(* were written whole and whether the rest of it is missing (Codec has the *)
(* format); one record's serialisation is a step.  A temporary file is     *)
(* opened anew by every save and read under no other name than the one it  *)
(* is renamed to, so what a crash or a failed save leaves of it is dropped *)
(* at once.  Left out: power loss (nothing is synced to the disk) and the  *)
(* deadlines of records, which are not saved.                              *)
(***************************************************************************)
EXTENDS Naturals, FiniteSets

CONSTANTS
    Key, Value,
    Garbage,    \* what is read beyond the end of a cut file, as a value
    None,       \* no value, no key
    Modes,      \* of the starts: of "snapshot", "aof" and "none"
    MaxFaults   \* bound: failures of the disk

ASSUME NoneAssumption == None \notin Key \cup Value \cup {Garbage}
ASSUME GarbageAssumption == Garbage \notin Value
ASSUME SharedAssumption == "shared" \notin Value \cup {Garbage, None}
ASSUME ModesAssumption == Modes \subseteq {"snapshot", "aof", "none"}
ASSUME FaultsAssumption == MaxFaults \in Nat

VARIABLES
    up,         \* the mode of the running server, or "down"
    records,    \* its records
    at,         \* the next step of snapshotWorker, "off" without one
    copy,       \* the result of getAllRecords; see Shared
    todo,       \* the keys of copy that are still to be serialised
    buffer,     \* what has been serialised and not yet written
    temp, file  \* the two files

(* History: failures so far, and the values of each key since the copy was *)
(* made: of its record in the map, and of the one in the copy if that was  *)
(* deleted.                                                                *)
VARIABLES faults, held

saveVars == <<at, copy, todo, buffer>>
fileVars == <<temp, file>>
histVars == <<faults, held>>
vars == <<up, records, saveVars, fileVars, histVars>>

\* In copy: the Record object is still the one in the map.  Any other value
\* is that of an object that only the copy holds.
Shared == "shared"
Stored == Value \cup {Garbage}
Content == [Key -> Stored \cup {None}]
Nothing == [k \in Key |-> None]
Unread == [k \in Key |-> {}]

\* A file: the records written whole, whether they are all the header
\* announces, and the record that is cut within its value, if any is.
Missing == [data |-> Nothing, is |-> "missing", torn |-> None]
Whole(data) == [data |-> data, is |-> "whole", torn |-> None]
Files == [data : Content, is : {"missing", "whole", "cut"},
          torn : Key \cup {None}]
Reading == at = "serialize"
Present(f) == {k \in Key : f[k] # None}

TypeOK ==
    /\ up \in {"snapshot", "aof", "none", "down"}
    /\ records \in Content
    /\ at \in {"off", "sleep", "serialize", "open", "write", "remove",
               "rename"}
    /\ copy \in [Key -> Stored \cup {None, Shared}]
    /\ todo \subseteq Key
    /\ buffer \in Content
    /\ temp \in Files /\ file \in Files
    /\ faults \in 0..MaxFaults
    /\ held \in [Key -> SUBSET (Stored \cup {None})]
    /\ up = "snapshot" <=> at # "off"
    /\ \A f \in {temp, file} : f.is # "cut" => f.torn = None

Init ==
    /\ up = "down" /\ records = Nothing
    /\ at = "off" /\ copy = Nothing /\ todo = {} /\ buffer = Nothing
    /\ temp = Missing /\ file = Missing
    /\ faults = 0 /\ held = Unread
-----------------------------------------------------------------------------
(* Commands, evictions and expiry, as far as a snapshot can tell them      *)
(* apart: a record gets a value (in place or not), or leaves the map.      *)

Hold(k, v) == held' = IF Reading THEN [held EXCEPT ![k] = @ \cup {v}] ELSE held

WriteRecord(k, v) ==
    /\ up # "down"
    /\ records[k] # v
    /\ records' = [records EXCEPT ![k] = v]
    /\ Hold(k, v)
    /\ UNCHANGED <<up, saveVars, fileVars, faults>>

\* A deleted record lives on in the copy that holds it.
DeleteRecord(k) ==
    /\ up # "down"
    /\ records[k] # None
    /\ records' = [records EXCEPT ![k] = None]
    /\ copy' = IF copy[k] = Shared THEN [copy EXCEPT ![k] = records[k]]
                                   ELSE copy
    /\ Hold(k, None)
    /\ UNCHANGED <<up, at, todo, buffer, fileVars, faults>>

\* A command that got the record before it was deleted changes it in place
\* after that: in the copy alone, the key has no such value in the map.
ChangeDeleted(k, v) ==
    /\ Reading
    /\ copy[k] \in Stored \ {v}
    /\ copy' = [copy EXCEPT ![k] = v]
    /\ Hold(k, v)
    /\ UNCHANGED <<up, records, at, todo, buffer, fileVars, faults>>
-----------------------------------------------------------------------------
(* snapshotWorker and save                                                 *)

\* Mutant of GetAllRecords: an incremental save keeps what the file has.
GetAllRecordsIncremental ==
    /\ at = "sleep"
    /\ at' = "serialize"
    /\ copy' = [k \in Key |-> IF records[k] = None THEN None ELSE Shared]
    /\ todo' = Present(records) \ Present(file.data)
    /\ buffer' = file.data
    /\ held' = [k \in Key |-> {records[k]}]
    /\ UNCHANGED <<up, records, fileVars, faults>>

\* Mutant of GetAllRecords: no save while the file has as many records.
GetAllRecordsIfMoreOrFewer ==
    /\ at = "sleep"
    /\ Cardinality(Present(records)) # Cardinality(Present(file.data))
    /\ at' = "serialize"
    /\ copy' = [k \in Key |-> IF records[k] = None THEN None ELSE Shared]
    /\ todo' = Present(records)
    /\ buffer' = Nothing
    /\ held' = [k \in Key |-> {records[k]}]
    /\ UNCHANGED <<up, records, fileVars, faults>>

\* The thread wakes up and save calls serialize, which copies the map.
GetAllRecords ==
    /\ at = "sleep"
    /\ at' = "serialize"
    /\ copy' = [k \in Key |-> IF records[k] = None THEN None ELSE Shared]
    /\ todo' = Present(records)
    /\ buffer' = Nothing
    /\ held' = [k \in Key |-> {records[k]}]
    /\ UNCHANGED <<up, records, fileVars, faults>>

SerializeRecord(k) ==
    /\ at = "serialize"
    /\ k \in todo
    /\ buffer' = [buffer EXCEPT ![k] = IF copy[k] = Shared THEN records[k]
                                                           ELSE copy[k]]
    /\ todo' = todo \ {k}
    /\ UNCHANGED <<up, records, at, copy, fileVars, histVars>>

EndSerialize ==
    /\ at = "serialize" /\ todo = {}
    /\ at' = "open"
    /\ copy' = Nothing
    /\ UNCHANGED <<up, records, todo, buffer, fileVars, histVars>>

EndSave ==
    /\ at' = "sleep"
    /\ copy' = Nothing /\ todo' = {} /\ buffer' = Nothing
    /\ temp' = Missing
    /\ held' = Unread

\* Mutant of OpenTemp: the old file makes room for the new one first.
OpenTempRemovesOld ==
    /\ at = "open"
    /\ at' = "write"
    /\ temp' = Whole(Nothing) /\ file' = Missing
    /\ UNCHANGED <<up, records, copy, todo, buffer, histVars>>

OpenTemp ==
    /\ at = "open"
    /\ at' = "write"
    /\ temp' = Whole(Nothing)
    /\ UNCHANGED <<up, records, copy, todo, buffer, file, histVars>>

\* The temporary file cannot be opened: save returns.
OpenFails ==
    /\ at = "open"
    /\ faults < MaxFaults /\ faults' = faults + 1
    /\ EndSave
    /\ UNCHANGED <<up, records, file>>

WriteTemp ==
    /\ at = "write"
    /\ at' = "remove"
    /\ temp' = Whole(buffer)
    /\ buffer' = Nothing
    /\ UNCHANGED <<up, records, copy, todo, file, histVars>>

\* The disk is full: what fits is written, and nobody looks at the state of
\* the stream.
WriteFallsShort ==
    /\ at = "write"
    /\ faults < MaxFaults /\ faults' = faults + 1
    /\ at' = "remove"
    /\ \E fit \in SUBSET Present(buffer) :
         /\ fit # Present(buffer)
         /\ \E torn \in (Present(buffer) \ fit) \cup {None} :
              temp' = [data |-> [k \in Key |-> IF k \in fit THEN buffer[k]
                                                            ELSE None],
                       is |-> "cut", torn |-> torn]
    /\ buffer' = Nothing
    /\ held' = Unread
    /\ UNCHANGED <<up, records, copy, todo, file>>

RemoveOld ==
    /\ at = "remove"
    /\ at' = "rename"
    /\ file' = Missing
    /\ held' = Unread
    /\ UNCHANGED <<up, records, copy, todo, buffer, temp, faults>>

RenameTemp ==
    /\ at = "rename"
    /\ file' = temp
    /\ EndSave
    /\ UNCHANGED <<up, records, faults>>

\* The failure is printed; the temporary file stays where nothing reads it.
RenameFails ==
    /\ at = "rename"
    /\ faults < MaxFaults /\ faults' = faults + 1
    /\ EndSave
    /\ UNCHANGED <<up, records, file>>

Save ==
    \/ GetAllRecords
    \/ \E k \in Key : SerializeRecord(k)
    \/ EndSerialize
    \/ OpenTemp \/ WriteTemp \/ RemoveOld \/ RenameTemp
-----------------------------------------------------------------------------
(* main: the persistence manager is made, initialised, and loads.          *)

\* Mutant of StartSnapshot: initialize is not called.
StartSnapshotWithoutThread ==
    /\ up = "down"
    /\ up' = "snapshot"
    /\ records' = IF file.torn = None THEN file.data
                  ELSE [file.data EXCEPT ![file.torn] = Garbage]
    /\ UNCHANGED <<at, copy, todo, buffer, fileVars, histVars>>

\* A cut file gives the records before the cut.  If the cut is within a
\* value, its length is believed: what lies behind the buffer is read, and
\* either makes a value or ends the start (an exception, or worse), which
\* leaves everything as it was.
StartSnapshot ==
    /\ up = "down"
    /\ up' = "snapshot" /\ at' = "sleep"
    /\ records' = IF file.torn = None THEN file.data
                  ELSE [file.data EXCEPT ![file.torn] = Garbage]
    /\ UNCHANGED <<copy, todo, buffer, fileVars, histVars>>

\* Opening the log makes the file; load reads its lines and does nothing.
StartAof ==
    /\ up = "down"
    /\ up' = "aof"
    /\ file' = IF file.is = "missing" THEN Whole(Nothing) ELSE file
    /\ UNCHANGED <<records, saveVars, temp, histVars>>

StartPlain ==
    /\ up = "down"
    /\ up' = "none"
    /\ UNCHANGED <<records, saveVars, fileVars, histVars>>

Start == \/ "snapshot" \in Modes /\ StartSnapshot
         \/ "aof" \in Modes /\ StartAof
         \/ "none" \in Modes /\ StartPlain

\* The process ends: a crash, or main that returns.
Crash ==
    /\ up # "down"
    /\ up' = "down" /\ records' = Nothing
    /\ at' = "off" /\ copy' = Nothing /\ todo' = {} /\ buffer' = Nothing
    /\ temp' = Missing
    /\ held' = Unread
    /\ UNCHANGED <<file, faults>>
-----------------------------------------------------------------------------
Fault == OpenFails \/ WriteFallsShort \/ RenameFails

Commands ==
    \E k \in Key :
        \/ \E v \in Value : WriteRecord(k, v) \/ ChangeDeleted(k, v)
        \/ DeleteRecord(k)

Next == Commands \/ Save \/ Fault \/ Start \/ Crash

Spec == Init /\ [][Next]_vars

\* The thread sleeps a minute at a time and waits for nothing.
FairSpec == Spec /\ WF_vars(Save)
-----------------------------------------------------------------------------
(* Properties                                                              *)

\* Without failures of the disk, every value that has been serialised is one
\* a record of its key had since the map was copied, in the map or, once
\* deleted, in the copy, and a key that is left out was missing then: a
\* snapshot mixes moments, and may hold what was written to a record after
\* its deletion, but nothing older and nothing of another key.
\* SerializeRecord, with records that are written, deleted, changed after
\* that and made anew between GetAllRecords and the end of serialize.
SavedValuesWereHeld ==
    at \in {"serialize", "open", "write"} =>
        \A k \in Key \ todo : buffer[k] \in held[k]

\* save, load and the crashes between their steps implement the abstract
\* store: memory is lost, the snapshot is not, except while it is replaced.
Durable == IF at = "rename" THEN temp ELSE file

SnapshotStore == INSTANCE SnapshotStore WITH
    memory <- records,
    running <- IF up = "down" THEN "down"
               ELSE IF up = "snapshot" THEN "keeps" ELSE "forgets",
    disk <- Durable.data,
    condition <- IF Durable.is = "cut" THEN "cut" ELSE "whole",
    stage <- IF at \in {"off", "sleep"} THEN "idle"
             ELSE IF at = "serialize" THEN "reading"
             ELSE IF at = "rename" THEN "replacing"
             ELSE IF at = "remove" /\ temp.is = "cut" THEN "spoilt" ELSE "read"
ImplementsSnapshotStore == SnapshotStore!Spec

\* If the server runs in mode "snapshot" from some moment on and its records
\* no longer change, the file holds them in the end.  Thread, copy, files.
SnapshotsCatchUp ==
    <>[](up = "snapshot") /\ <>[][FALSE]_records
        => <>[](at = "rename" \/ (file.is = "whole" /\ file.data = records))
=============================================================================
