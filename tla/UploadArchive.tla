----------------------------- MODULE UploadArchive -----------------------------
(***************************************************************************)
(* src/xhbx_rag/web/ingestion_uploads.py: what a ZIP upload is read as.    *)
(* Its entries are accepted or the upload is refused; its documents are    *)
(* grouped into input items; each item is unpacked into a directory of its *)
(* own.  Operators only: a path is a sequence of names, a name a value of  *)
(* which is known what the code asks of it.                                *)
(***************************************************************************)
EXTENDS Naturals, FiniteSets, Sequences, SequencesExt

CONSTANTS
  Names,       \* components of paths
  Documents,   \* names with a supported extension
  Hidden,      \* names that begin with a dot, and __MACOSX
  Stripped,    \* name -> the name without surrounding blanks
  Safe,        \* name -> the name with the characters a file name may have
  Stem,        \* the name of the upload without its extension
  Root,        \* the reserved name __root__
  MaxEntries   \* limits.max_zip_entries

ASSUME ArchiveAssumption ==
  /\ Documents \subseteq Names /\ Hidden \subseteq Names
  /\ Stripped \in [Names -> Names] /\ Safe \in [Names -> Names]
  /\ {Stem, Root} \subseteq Names /\ Stripped[Root] = Root
  /\ MaxEntries \in Nat

\* An entry: its path, whether it is a directory, and whether it is within the
\* limits and of a legal kind (_validate_zip_path; size, ratio, link, encryption).
Entries == [path : Seq(Names) \ {<<>>}, dir : BOOLEAN, legal : BOOLEAN]

Below(path, dir) == Len(path) > Len(dir) /\ SubSeq(path, 1, Len(dir)) = dir

\* Mutant: a file that comes after entries below it is not noticed.
ConflictsBefore(old, new) ==
  \/ old.path = new.path
  \/ ~old.dir /\ Below(new.path, old.path)

\* What an entry may not be, given one that came before it.
Conflicts(old, new) ==
  \/ old.path = new.path
  \/ ~old.dir /\ Below(new.path, old.path)
  \/ ~new.dir /\ Below(old.path, new.path)

ValidEntries(archive) ==
  /\ Len(archive) <= MaxEntries
  /\ \A i \in DOMAIN archive :
       archive[i].legal /\ \A h \in 1..(i - 1) : ~Conflicts(archive[h], archive[i])

Ignored(path) == \E i \in DOMAIN path : path[i] \in Hidden

Supported(archive) ==
  {e.path : e \in {e \in ToSet(archive) : ~e.dir /\ ~Ignored(e.path) /\ Last(e.path) \in Documents}}

(***************************************************************************)
(* Items: a course has one for each document, a case archive one for each  *)
(* directory at its top and one for the documents beside them.             *)
(***************************************************************************)
Nested(path) == Len(path) > 1
UnitKey(path) == IF Nested(path) THEN Stripped[path[1]] ELSE Root

CaseNamesClash(paths) ==
  \/ \E p \in paths : Nested(p) /\ Stripped[p[1]] = Root
  \/ \E p, q \in paths : Nested(p) /\ Nested(q) /\ p[1] # q[1] /\ Safe[UnitKey(p)] = Safe[UnitKey(q)]
  \/ \E p, q \in paths : ~Nested(p) /\ Nested(q) /\ Safe[Stem] = Safe[UnitKey(q)]

Items(target, paths) ==
  IF target = "course"
    THEN {[key |-> p, files |-> {p}] : p \in paths}
    ELSE {[key |-> k, files |-> {p \in paths : UnitKey(p) = k}] : k \in {UnitKey(p) : p \in paths}}

Accepted(target, archive) ==
  /\ ValidEntries(archive)
  /\ Supported(archive) # {}
  /\ target = "case" => ~CaseNamesClash(Supported(archive))

\* preflight_upload: the items in the order of their keys; none if it is refused.
Preflight(target, archive) ==
  IF Accepted(target, archive) THEN SetToSeq(Items(target, Supported(archive))) ELSE <<>>

\* _case_destination_relative: a case's directory is left out.
Destination(target, path) == IF target = "case" /\ Nested(path) THEN Tail(path) ELSE path

\* materialize_attempt_inputs: the files of each item's directory.
Unpacked(target, item) == {Destination(target, p) : p \in item.files}

--------------------------------------------------------------------------------
\* An upload that is accepted can be unpacked, and nothing of it is lost: each
\* document is in exactly one item, the files of an item neither overwrite each
\* other nor need a directory where a file is, whatever the order of the entries
\* in the archive, and no two cases get the same name.
\* (_validated_zip_entries, _map_case_items, _materialize_zip_inputs)
Unpacks(target, archive) ==
  Accepted(target, archive) =>
    LET items == Items(target, Supported(archive)) IN
    /\ \A p \in Supported(archive) : Cardinality({m \in items : p \in m.files}) = 1
    /\ \A m \in items :
         /\ Cardinality(Unpacked(target, m)) = Cardinality(m.files)
         /\ \A p, q \in Unpacked(target, m) : ~Below(p, q)
    /\ target = "case" =>
         \A m, n \in items :
           LET name(k) == Safe[IF k = Root THEN Stem ELSE k]
           IN m # n => name(m.key) # name(n.key)
================================================================================
