--------------------------- MODULE CaptureStorage ---------------------------
(***************************************************************************)
(* Saving a camera picture (MediaStorage of host/camera/storage.py).  The  *)
(* caller holds its lock from the first step of a save to the last; the    *)
(* process may be killed between any two steps, and the files stay.        *)
(*   A name stands for a time stamp and the counter behind it.             *)
(***************************************************************************)
EXTENDS Naturals, FiniteSets

CONSTANT MaxFiles       \* bound: the names there are

ASSUME StorageAssumption == MaxFiles \in Nat \ {0}

VARIABLES
    images,     \* the pictures under their final name
    parts,      \* the .part files
    table,      \* capture_metadata.csv
    rows,       \* the pictures it lists
    saving,     \* how far the save under way has come
    name,       \* its name
    renames     \* history: how many .part files became pictures

disk == <<images, parts, table, rows, renames>>
storage == <<disk, saving, name>>

FileNames == 1 .. MaxFiles
Finished == {"DONE", "FAILED", "LOW"}

StorageInit ==
    /\ images = {} /\ parts = {} /\ table = "ABSENT" /\ rows = {}
    /\ saving = "IDLE" /\ name = 1 /\ renames = 0

\* _unique_path: a name without a picture and without a .part.
IgnoresPictures == FileNames \ parts    \* mutant: exists() is not asked
FreeNames == FileNames \ (images \cup parts)

Fails == saving' = "FAILED" /\ UNCHANGED name

\* ensure_free_space: with no name left the disk is full.
NoSpace ==
    /\ saving = "BEGIN" /\ saving' = "LOW"
    /\ UNCHANGED <<disk, name>>

\* A table without the expected header is refused before anything is written.
WritePart ==
    /\ saving = "BEGIN"
    /\ \/ table = "EMPTY" /\ Fails /\ UNCHANGED parts
       \/ /\ table # "EMPTY" /\ name' \in FreeNames
          /\ saving' = "PART" /\ parts' = parts \cup {name'}
    /\ UNCHANGED <<images, table, rows, renames>>

\* _write_jpeg removes what it wrote, if it can, before it raises.
WriteJpeg ==
    /\ saving = "PART"
    /\ \/ saving' = "WRITTEN" /\ UNCHANGED <<name, parts>>
       \/ Fails /\ parts' \in {parts, parts \ {name}}
    /\ UNCHANGED <<images, table, rows, renames>>

Replace ==
    /\ saving = "WRITTEN" /\ saving' = "REPLACED"
    /\ parts' = parts \ {name} /\ images' = images \cup {name}
    /\ renames' = renames + 1
    /\ UNCHANGED <<table, rows, name>>

OpenTable ==
    /\ saving = "REPLACED" /\ saving' = "OPENED"
    /\ table' = IF table = "ABSENT" THEN "EMPTY" ELSE table
    /\ UNCHANGED <<images, parts, rows, name, renames>>

AppendRow ==
    /\ saving = "OPENED" /\ saving' = "DONE"
    /\ table' = "HEADED" /\ rows' = rows \cup {name}
    /\ UNCHANGED <<images, parts, name, renames>>

\* The row or its fsync fails: what was flushed by then is there.
AppendFails ==
    /\ saving = "OPENED" /\ Fails
    /\ \/ UNCHANGED <<table, rows>>
       \/ table' = "HEADED" /\ rows' \in {rows, rows \cup {name}}
    /\ UNCHANGED <<images, parts, renames>>

\* The disk refuses the rename or the open.
OsError ==
    /\ saving \in {"WRITTEN", "REPLACED"} /\ Fails
    /\ UNCHANGED disk

SaveStep == NoSpace \/ WritePart \/ WriteJpeg \/ Replace \/ OpenTable
              \/ AppendRow \/ AppendFails \/ OsError

\* What a caller does: it begins a save, and takes the result.
BeginSave == saving = "IDLE" /\ saving' = "BEGIN" /\ UNCHANGED <<disk, name>>
TakeResult == saving \in Finished /\ saving' = "IDLE" /\ UNCHANGED <<disk, name>>

\* The process is killed: the table is opened afresh by the next one.
Killed == saving' = "IDLE" /\ UNCHANGED <<disk, name>>

-----------------------------------------------------------------------------
StorageTypeOK ==
    /\ images \subseteq FileNames /\ parts \subseteq FileNames
    /\ rows \subseteq FileNames /\ name \in FileNames /\ renames \in Nat
    /\ table \in {"ABSENT", "EMPTY", "HEADED"}
    /\ saving \in {"IDLE", "BEGIN", "PART", "WRITTEN", "REPLACED", "OPENED"}
                    \cup Finished

(***************************************************************************)
(* Every picture ever put in place is still there: no later picture, and   *)
(* none after a restart, takes its name ("existing files are never         *)
(* overwritten", README.md; _unique_path, save_capture).                   *)
(***************************************************************************)
NothingOverwritten == renames = Cardinality(images)

(***************************************************************************)
(* The table lists only pictures that are there, and under its header,     *)
(* wherever a save fails or the process is killed (save_capture).          *)
(***************************************************************************)
TableTellsTruth == rows \subseteq images /\ (rows # {} => table = "HEADED")
=============================================================================
