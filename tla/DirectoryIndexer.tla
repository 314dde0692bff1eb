--------------------------- MODULE DirectoryIndexer ---------------------------
(***************************************************************************)
(* src/xhbx_rag/directory_indexer.py and indexer.py: the commands that     *)
(* write a collection from files.  index-dir builds a staging collection   *)
(* and swaps it in by two renames; index drops and fills, or adds.  Both   *)
(* take the lock of the collection, under which the web service commits a  *)
(* batch beside them; searches take no lock.  The command may die anywhere.*)
(***************************************************************************)
EXTENDS Naturals, FiniteSets, Sequences, SequencesExt

CONSTANTS
  OldRows,      \* chunk ids of the collection before
  WebRow,       \* the chunk id of a batch the web service commits, one of its own
  Directories   \* sequences of [id, valid]: what the files hold, line by line

ASSUME DirectoryAssumption ==
  /\ IsFiniteSet(OldRows) /\ OldRows # {} /\ WebRow \notin OldRows
  /\ \A d \in Directories : Len(d) \in Nat /\ DOMAIN d = 1..Len(d)
  /\ \A d \in Directories : \A k \in DOMAIN d : d[k].id \notin OldRows \cup {WebRow}

VARIABLES
  coll,      \* the collection behind each name: whether it exists, its rows
  files,     \* the directory, or the one file, given to the command
  task,      \* "swap" (index-dir), "rebuild" or "incremental" (index)
  doing,     \* where the command is
  next,      \* chunks written
  initial,   \* the rows of the target before; none if there was no collection
  existed,   \* target_existed
  told,      \* what the command ended with
  unclear,   \* a rename took effect and raised
  holder,    \* who holds the lock of the target
  web        \* where the web service's commit is

dirVars == <<coll, files, task, doing, next, initial, existed, told, unclear, holder, web>>

Absent == [exists |-> FALSE, rows |-> {}]
NewRows == {files[k].id : k \in DOMAIN files}

DirInit ==
  /\ files \in Directories
  /\ task \in {"swap", "rebuild", "incremental"}
  /\ initial \in {{}, OldRows}
  /\ coll = [target |-> [exists |-> initial # {}, rows |-> initial], staging |-> Absent, backup |-> Absent]
  /\ doing = "load" /\ next = 0 /\ existed = FALSE /\ told = "none" /\ unclear = FALSE
  /\ holder = "free" /\ web = "idle"

DirGoes(from, to) == doing = from /\ doing' = to
Given == UNCHANGED <<files, task, initial>>
Holding == Given /\ UNCHANGED <<existed, unclear, holder, web>>
Written(name, rows) ==
  coll' = [coll EXCEPT ![name] = [exists |-> TRUE, rows |-> @.rows \cup rows]]
Ends(how) == doing' = "done" /\ told' = how

(***************************************************************************)
(* The files                                                               *)
(***************************************************************************)
\* load_normalized_directory: every line valid, of the kind its directory asks
\* for, and no id twice; load_chunks_jsonl asks for valid lines only.
Loadable(d) ==
  /\ d # <<>>
  /\ \A k \in DOMAIN d : d[k].valid
  /\ \A h, k \in DOMAIN d : h # k => d[h].id # d[k].id

Load ==
  /\ doing = "load"
  /\ IF task = "swap"
       THEN IF Loadable(files) THEN doing' = "build" /\ UNCHANGED told ELSE Ends("refused")
       ELSE IF \E k \in DOMAIN files : ~files[k].valid
              THEN Ends("refused")
              ELSE doing' = "lock" /\ UNCHANGED told
  /\ UNCHANGED <<coll, next>> /\ Holding

(***************************************************************************)
(* index-dir: build, check, swap                                           *)
(***************************************************************************)
\* embed_documents, ensure_collection before the first batch, upsert.
WriteBatch ==
  /\ doing = "build" /\ next < Len(files)
  /\ next' = next + 1
  /\ Written("staging", {files[next + 1].id})
  /\ UNCHANGED <<doing, told>> /\ Holding

WriteBatchFails ==
  /\ DirGoes("build", "drop_staging") /\ next < Len(files)
  /\ told' = "refused"
  /\ UNCHANGED coll \/ Written("staging", {files[next + 1].id}) \/ Written("staging", {})
  /\ UNCHANGED next /\ Holding

\* The number of rows and the set of ids.
CheckStaging ==
  /\ doing = "build" /\ next = Len(files)
  /\ IF Cardinality(coll.staging.rows) = Len(files) /\ coll.staging.rows = NewRows
       THEN doing' = "lock" /\ UNCHANGED told
       ELSE doing' = "drop_staging" /\ told' = "refused"
  /\ UNCHANGED <<coll, next>> /\ Holding

CheckStagingFails ==
  /\ DirGoes("build", "drop_staging") /\ next = Len(files)
  /\ told' = "refused"
  /\ UNCHANGED <<coll, next>> /\ Holding

\* Mutant: the lock is not asked for.
TakeLockAnyway ==
  /\ doing = "lock"
  /\ doing' = IF task = "swap" THEN "rename_old" ELSE IF task = "rebuild" THEN "drop_old" ELSE "ensure"
  /\ existed' = coll.target.exists
  /\ Given /\ UNCHANGED <<coll, next, told, unclear, holder, web>>

TakeLock ==
  /\ doing = "lock"
  /\ holder = "free" /\ holder' = "command"
  /\ doing' = IF task = "swap" THEN "rename_old" ELSE IF task = "rebuild" THEN "drop_old" ELSE "ensure"
  /\ existed' = coll.target.exists
  /\ Given /\ UNCHANGED <<coll, next, told, unclear, web>>

Renamed(from, to) == coll' = [coll EXCEPT ![to] = coll[from], ![from] = Absent]

\* rename_collection refuses a name that is taken.
RenameOld ==
  /\ DirGoes("rename_old", "rename_new")
  /\ IF existed THEN Renamed("target", "backup") ELSE UNCHANGED coll
  /\ UNCHANGED <<next, told>> /\ Holding

RenameOldFails ==
  /\ DirGoes("rename_old", "drop_staging") /\ existed
  /\ told' = "no_backup"
  /\ \/ UNCHANGED <<coll, unclear>>
     \/ Renamed("target", "backup") /\ unclear' = TRUE
  /\ holder' = "free"
  /\ Given /\ UNCHANGED <<next, existed, web>>

RenameNew ==
  /\ DirGoes("rename_new", "drop_backup")
  /\ ~coll.target.exists
  /\ Renamed("staging", "target")
  /\ UNCHANGED <<next, told>> /\ Holding

RenameNewFails ==
  /\ DirGoes("rename_new", "restore")
  /\ \/ UNCHANGED <<coll, unclear>>
     \/ ~coll.target.exists /\ Renamed("staging", "target") /\ unclear' = TRUE
  /\ Given /\ UNCHANGED <<next, told, existed, holder, web>>

\* Mutant: the backup is not renamed back.
RestoreNothing ==
  /\ DirGoes("restore", "drop_staging")
  /\ told' = "kept"
  /\ holder' = "free"
  /\ Given /\ UNCHANGED <<coll, next, existed, unclear, web>>

RestoreOld ==
  /\ DirGoes("restore", "drop_staging")
  /\ existed => ~coll.target.exists
  /\ IF existed THEN Renamed("backup", "target") ELSE UNCHANGED coll
  /\ told' = "kept"
  /\ holder' = "free"
  /\ Given /\ UNCHANGED <<next, existed, unclear, web>>

RestoreOldFails ==
  /\ DirGoes("restore", "drop_staging") /\ existed
  /\ told' = "rename_backup"
  /\ \/ UNCHANGED <<coll, unclear>>
     \/ ~coll.target.exists /\ Renamed("backup", "target") /\ unclear' = TRUE
  /\ holder' = "free"
  /\ Given /\ UNCHANGED <<next, existed, web>>

DropBackup ==
  /\ doing = "drop_backup"
  /\ IF existed THEN coll' = [coll EXCEPT !.backup = Absent] ELSE UNCHANGED coll
  /\ Ends("ok")
  /\ holder' = "free"
  /\ Given /\ UNCHANGED <<next, existed, unclear, web>>

DropBackupFails ==
  /\ doing = "drop_backup" /\ existed
  /\ \E backup \in {coll.backup, Absent} : coll' = [coll EXCEPT !.backup = backup]
  /\ Ends("delete_backup")
  /\ holder' = "free"
  /\ Given /\ UNCHANGED <<next, existed, unclear, web>>

\* The except of index_directory; a drop that fails is ignored.
DropStaging ==
  /\ DirGoes("drop_staging", "done")
  /\ \E left \in {coll.staging, Absent} : coll' = [coll EXCEPT !.staging = left]
  /\ UNCHANGED <<next, told>> /\ Holding

(***************************************************************************)
(* index: drop and fill, or add; the vectors were made before the lock     *)
(***************************************************************************)
EmbedAllFails ==
  /\ doing = "lock" /\ task # "swap"
  /\ Ends("refused")
  /\ UNCHANGED <<coll, next>> /\ Holding

DropTarget ==
  /\ doing = "drop_old"
  /\ coll' = [coll EXCEPT !.target = Absent]
  /\ IF files = <<>> THEN Ends("ok") /\ holder' = "free"
                     ELSE doing' = "ensure" /\ UNCHANGED <<told, holder>>
  /\ Given /\ UNCHANGED <<next, existed, unclear, web>>

EnsureTarget ==
  /\ doing = "ensure"
  /\ IF files = <<>> THEN UNCHANGED coll /\ Ends("ok") /\ holder' = "free"
                     ELSE Written("target", {}) /\ doing' = "upsert" /\ UNCHANGED <<told, holder>>
  /\ Given /\ UNCHANGED <<next, existed, unclear, web>>

UpsertAll ==
  /\ doing = "upsert"
  /\ Written("target", NewRows)
  /\ Ends("ok")
  /\ holder' = "free"
  /\ Given /\ UNCHANGED <<next, existed, unclear, web>>

\* The request raised, with any part of it done; the exception frees the lock.
IndexFails ==
  /\ \/ doing = "drop_old" /\ (UNCHANGED coll \/ coll' = [coll EXCEPT !.target = Absent])
     \/ doing = "ensure" /\ files # <<>> /\ (UNCHANGED coll \/ Written("target", {}))
     \/ doing = "upsert" /\ \E rows \in SUBSET NewRows : Written("target", rows)
  /\ Ends("failed")
  /\ holder' = "free"
  /\ Given /\ UNCHANGED <<next, existed, unclear, web>>

(***************************************************************************)
(* Others                                                                  *)
(***************************************************************************)
\* AtomicIndexer.commit of the web service, under the same lock.
WebTakesLock ==
  /\ web = "idle" /\ web' = "locked"
  /\ holder = "free" /\ holder' = "web"
  /\ Given /\ UNCHANGED <<coll, doing, next, existed, told, unclear>>

WebCommits ==
  /\ web = "locked" /\ web' = "done"
  /\ Written("target", {WebRow})
  /\ holder' = "free"
  /\ Given /\ UNCHANGED <<doing, next, existed, told, unclear>>

\* The command is killed; the file lock goes with it.
Killed ==
  /\ doing # "done"
  /\ Ends("killed")
  /\ holder' = IF holder = "command" THEN "free" ELSE holder
  /\ Given /\ UNCHANGED <<coll, next, existed, unclear, web>>

--------------------------------------------------------------------------------
SwapStep ==
  \/ WriteBatch \/ CheckStaging \/ TakeLock \/ RenameOld \/ RenameNew \/ RestoreOld
  \/ DropBackup \/ DropStaging

SwapFault ==
  \/ WriteBatchFails \/ CheckStagingFails \/ RenameOldFails \/ RenameNewFails
  \/ RestoreOldFails \/ DropBackupFails

DirNext ==
  \/ Load \/ SwapStep \/ SwapFault
  \/ EmbedAllFails \/ DropTarget \/ EnsureTarget \/ UpsertAll \/ IndexFails
  \/ WebTakesLock \/ WebCommits \/ Killed

DirSpec == DirInit /\ [][DirNext]_dirVars

--------------------------------------------------------------------------------
DirTypeOK ==
  /\ \A name \in {"target", "staging", "backup"} :
       coll[name].exists \in BOOLEAN /\ coll[name].rows \subseteq OldRows \cup NewRows \cup {WebRow}
  /\ next \in 0..Len(files) /\ existed \in BOOLEAN /\ unclear \in BOOLEAN
  /\ holder \in {"free", "command", "web"} /\ web \in {"idle", "locked", "done"}

ServesOld(name) == OldRows \subseteq coll[name].rows /\ coll[name].rows \cap NewRows = {}
ServesNew == NewRows \subseteq coll.target.rows /\ coll.target.rows \cap OldRows = {}

\* Wherever index-dir fails or dies, the old content exists until the new one is
\* in its place.  A search finds the one or the other, whole, or no collection:
\* never a mixture, and never a batch of the web service alone, unless the command
\* was killed between the renames or has told the user that the target is missing.
\* (index_directory, _swap_collections under collection_write_lock)
OldOrNew ==
  task = "swap" /\ initial # {} =>
    /\ ServesOld("target") \/ ServesOld("backup") \/ ServesNew
    /\ coll.target.exists =>
         \/ ServesOld("target") \/ ServesNew
         \/ unclear \/ told \in {"rename_backup", "killed"}

\* What the user is told is what to do.  Unless a rename took effect and raised:
\* "kept" and a refusal mean that the old content is served, "ok" and "delete the
\* backup" that the new one is, "rename the backup" that the backup has it all.
\* (the messages of _swap_collections; index_chunks)
ToldTruth ==
  doing = "done" /\ ~unclear =>
    CASE told \in {"refused", "no_backup", "kept"} -> initial # {} => ServesOld("target")
      [] told = "rename_backup" -> coll.backup.exists /\ initial \subseteq coll.backup.rows
      [] told \in {"ok", "delete_backup"} ->
           /\ NewRows \subseteq coll.target.rows
           /\ task # "incremental" => coll.target.rows \cap OldRows = {}
      [] OTHER -> TRUE
================================================================================
