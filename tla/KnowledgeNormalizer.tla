-------------------------- MODULE KnowledgeNormalizer --------------------------
(***************************************************************************)
(* src/xhbx_rag/knowledge_normalizer.py: normalize-knowledge reads every   *)
(* chunk file below a directory, keeps each chunk once, and publishes the  *)
(* result as the directory that index-dir takes, by two renames.  No lock  *)
(* is taken: two commands may publish to the same place.  A command may    *)
(* fail or die anywhere.                                                   *)
(***************************************************************************)
EXTENDS DirectoryIndexer, Ranks

CONSTANTS
  Normalizers,  \* commands with the same output directory
  Inputs        \* [fit, lines]: whether there are files and all their paths are
                \* supported; and per line, in the order of the files,
                \* [id, kind, valid, classed, split]; split: a text in it has a
                \* character that ends a line for splitlines, U+2028 or U+0085

ASSUME NormalizerAssumption ==
  /\ \A input \in Inputs : Len(input.lines) \in Nat /\ DOMAIN input.lines = 1..Len(input.lines)
  /\ {"none", "old"} \cap Normalizers = {}

VARIABLES
  norm,     \* per command: its step, what its staging directory holds, the
            \* directory it moved aside, and what it ended with
  outDir,   \* whose directory is in place: "none", "old" or a command's
  report    \* the failure report beside it: "none" or whose it is

normVars == <<norm, outDir, report>>

(***************************************************************************)
(* What is kept                                                            *)
(***************************************************************************)
\* Mutant: an id is remembered for its kind of source only.
EarlierOfKind(ls, k) == {h \in 1..k-1 : ls[h].valid /\ ls[h].id = ls[k].id /\ ls[h].kind = ls[k].kind}

\* seen_ids: the valid lines before with the same id, whether kept or not.
Earlier(ls, k) == {h \in 1..k-1 : ls[h].valid /\ ls[h].id = ls[k].id}

Flawed(ls, k) ==
  \/ ~ls[k].valid
  \/ Earlier(ls, k) = {} /\ ~ls[k].classed
  \/ \E h \in Earlier(ls, k) : ls[h].kind # ls[k].kind

Faulty(input) == ~input.fit \/ \E k \in DOMAIN input.lines : Flawed(input.lines, k)

\* The lines with an id of their own, in their order.  They are written with
\* ensure_ascii=False: what is split is read back in pieces, none of them valid.
KeptLines(ls) == {k \in DOMAIN ls : Earlier(ls, k) = {}}

NormalizedLines(ls) ==
  [j \in 1..Cardinality(KeptLines(ls)) |->
     [id |-> ls[Nth(KeptLines(ls), j)].id, valid |-> ~ls[Nth(KeptLines(ls), j)].split]]

--------------------------------------------------------------------------------
NormInit ==
  /\ norm = [n \in Normalizers |-> [step |-> "read", made |-> <<>>, aside |-> "none", result |-> "none"]]
  /\ outDir \in {"none", "old"}
  /\ report = "none"

NormGoes(n, from, to) == norm[n].step = from /\ norm' = [norm EXCEPT ![n].step = to]
NormEnds(n, from, result) ==
  norm[n].step = from /\ norm' = [norm EXCEPT ![n].step = "done", ![n].result = result]

\* discover_chunk_files, the loop over the files, _build_report; with an error the
\* staging directory goes again.
ReadKnowledge(n) ==
  \E input \in Inputs :
    /\ norm[n].step = "read"
    /\ norm' = [norm EXCEPT
         ![n].step = IF Faulty(input) THEN "report_errors" ELSE "check_out",
         ![n].made = IF Faulty(input) THEN <<>> ELSE NormalizedLines(input.lines)]
    /\ UNCHANGED <<outDir, report>>

ReportErrors(n) ==
  NormEnds(n, "report_errors", "errors") /\ report' = n /\ UNCHANGED outDir

\* A file that cannot be read or written; the staging directory is removed.
NormalizeFails(n) ==
  /\ \E from \in {"read", "report_errors", "check_out"} : NormEnds(n, from, "raised")
  /\ UNCHANGED <<outDir, report>>

\* The report into the staging directory, then out_dir.exists().
CheckOut(n) ==
  /\ NormGoes(n, "check_out", IF outDir = "none" THEN "move_in" ELSE "move_aside")
  /\ UNCHANGED <<outDir, report>>

\* Another command may have moved it meanwhile; then nothing was moved.
MoveAside(n) ==
  /\ IF outDir = "none"
       THEN NormEnds(n, "move_aside", "raised") /\ UNCHANGED outDir
       ELSE /\ norm[n].step = "move_aside"
            /\ norm' = [norm EXCEPT ![n].step = "move_in", ![n].aside = outDir]
            /\ outDir' = "none"
  /\ UNCHANGED report

MoveAsideFails(n) == NormEnds(n, "move_aside", "raised") /\ UNCHANGED <<outDir, report>>

\* A directory replaces none, or fails on one that another command put there.
MoveIn(n) ==
  /\ outDir = "none" /\ outDir' = n
  /\ NormGoes(n, "move_in", IF norm[n].aside = "none" THEN "unlink_report" ELSE "drop_aside")
  /\ UNCHANGED report

MoveInFails(n) ==
  /\ NormGoes(n, "move_in", "put_back")
  /\ UNCHANGED <<outDir, report>>

PutBack(n) ==
  /\ norm[n].step = "put_back"
  /\ IF norm[n].aside # "none" /\ outDir = "none"
       THEN /\ outDir' = norm[n].aside
            /\ norm' = [norm EXCEPT ![n].step = "done", ![n].result = "raised", ![n].aside = "none"]
       ELSE NormEnds(n, "put_back", "raised") /\ UNCHANGED outDir
  /\ UNCHANGED report

PutBackFails(n) ==
  /\ norm[n].aside # "none"
  /\ NormEnds(n, "put_back", "not_put_back")
  /\ UNCHANGED <<outDir, report>>

DropAside(n) ==
  /\ norm[n].step = "drop_aside"
  /\ norm' = [norm EXCEPT ![n].step = "unlink_report", ![n].aside = "none"]
  /\ UNCHANGED <<outDir, report>>

\* The old directory, or a part of it, stays under its hidden name.
DropAsideFails(n) == NormEnds(n, "drop_aside", "raised") /\ UNCHANGED <<outDir, report>>

UnlinkReport(n) == NormEnds(n, "unlink_report", "ok") /\ report' = "none" /\ UNCHANGED outDir
UnlinkReportFails(n) == NormEnds(n, "unlink_report", "raised") /\ UNCHANGED <<outDir, report>>

KillNormalizer(n) ==
  /\ norm[n].step # "done"
  /\ norm' = [norm EXCEPT ![n].step = "done", ![n].result = "killed"]
  /\ UNCHANGED <<outDir, report>>

NormNext ==
  \E n \in Normalizers :
    \/ ReadKnowledge(n) \/ ReportErrors(n) \/ NormalizeFails(n)
    \/ CheckOut(n) \/ MoveAside(n) \/ MoveAsideFails(n) \/ MoveIn(n) \/ MoveInFails(n)
    \/ PutBack(n) \/ PutBackFails(n) \/ DropAside(n) \/ DropAsideFails(n)
    \/ UnlinkReport(n) \/ UnlinkReportFails(n) \/ KillNormalizer(n)

NormSpec == NormInit /\ [][NormNext]_normVars

--------------------------------------------------------------------------------
NormTypeOK ==
  /\ \A n \in Normalizers : norm[n].aside \in {"none", "old"} \cup Normalizers
  /\ outDir \in {"none", "old"} \cup Normalizers /\ report \in {"none"} \cup Normalizers

\* Mid-way, or cut off there, with the directory that was in place moved aside.
HoldsAside(n) ==
  /\ norm[n].aside # "none"
  /\ norm[n].step \in {"move_in", "put_back"} \/ norm[n].result \in {"killed", "not_put_back"}

AtMostTwo == \A k, m, n \in Normalizers : k = m \/ m = n \/ k = n

\* What index-dir finds has no chunk twice, and it takes it but for one without a
\* chunk or with a text that is split; and what was there before is never lost: it is
\* missing only while a command stands between its renames, was killed there, or could
\* not put it back.  Once a command has said ok, the old directory does not come back,
\* with two commands at most: a third may clear the way for the second to put back
\* what it had moved aside.
\* (normalize_knowledge and _publish_directory, twice at once;
\* load_normalized_directory)
NormalizedInPlace ==
  /\ outDir \in Normalizers =>
       LET made == norm[outDir].made IN
       /\ \A h, k \in DOMAIN made : h # k => made[h].id # made[k].id
       /\ made = <<>> \/ Loadable(made) \/ \E k \in DOMAIN made : ~made[k].valid
  /\ outDir = "none" =>
       \/ \E n \in Normalizers : HoldsAside(n)
       \/ \A n \in Normalizers : norm[n].aside = "none" /\ norm[n].result # "ok"
  /\ AtMostTwo /\ (\E n \in Normalizers : norm[n].result = "ok") => outDir # "old"
================================================================================
