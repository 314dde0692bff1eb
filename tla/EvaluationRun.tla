----------------------------- MODULE EvaluationRun -----------------------------
(***************************************************************************)
(* src/xhbx_rag/evaluation: command.py, runner.py and reporting.py.  A run *)
(* takes a snapshot of a workbook of cases, asks each case, judges each    *)
(* answer, records every result as one line of results.jsonl and fills the *)
(* results into the workbook.  It may die anywhere and be resumed; another *)
(* run and a user work on the same workbook.                               *)
(***************************************************************************)
EXTENDS Naturals, FiniteSets, Sequences, SequencesExt

CONSTANTS
  Evals,       \* evaluation runs, by run id
  CasesOf,     \* the cases each run can select
  ConfigsOf,   \* what the fingerprint of each may be made of, apart from the input
  NoConfig,    \* run.json does not exist
  MaxStarts    \* bound on how often each run is started

ASSUME EvaluationAssumption ==
  /\ \A e \in Evals : IsFiniteSet(CasesOf[e])
  /\ \A e \in Evals : NoConfig \notin ConfigsOf[e]
  /\ "free" \notin Evals
  /\ MaxStarts \in [Evals -> Nat \ {0}]

VARIABLES
  workbook,   \* what has been written to the workbook, in order: user edits, fills
  config,     \* the configuration and the collections the process of a run found
  picked,     \* the cases its command line selects
  phase,      \* where the process of a run is
  input,      \* the content of input-backup.xlsx, once it is taken
  meta,       \* the configuration in the fingerprint of run.json
  lines,      \* results.jsonl
  result,     \* what the process holds of each case
  starts,
  wlock,      \* who holds the lock of the workbook
  compared    \* what the workbook held at the last comparison (current_source_sha256)

evalVars == <<workbook, config, picked, phase, input, meta, lines, result, starts, wlock, compared>>

Dead == {"new", "failed", "crashed", "finished"}
Phases == Dead \cup {"snapped", "answer", "judge", "report", "candidate", "locked", "checked", "replaced"}
Final == {"done", "ask_failed", "judge_failed"}
Todo == [state |-> "todo", asked |-> 0]

EvalInit ==
  /\ workbook = <<>>
  /\ config = [e \in Evals |-> NoConfig]
  /\ picked = [e \in Evals |-> {}]
  /\ phase = [e \in Evals |-> "new"]
  /\ input = [e \in Evals |-> <<>>]
  /\ meta = [e \in Evals |-> NoConfig]
  /\ lines = [e \in Evals |-> <<>>]
  /\ result = [e \in Evals |-> [c \in CasesOf[e] |-> Todo]]
  /\ starts = [e \in Evals |-> 0]
  /\ wlock = "free"
  /\ compared = <<>>

EvalGoes(e, from, to) == phase[e] = from /\ phase' = [phase EXCEPT ![e] = to]
OnlyPhase == UNCHANGED <<workbook, config, picked, input, meta, lines, result, starts, wlock, compared>>
\* The process of a run is gone, with what it held.
Exit(e) ==
  /\ config' = [config EXCEPT ![e] = NoConfig] /\ picked' = [picked EXCEPT ![e] = {}]
  /\ result' = [result EXCEPT ![e] = [c \in CasesOf[e] |-> Todo]]

(***************************************************************************)
(* results.jsonl                                                           *)
(***************************************************************************)
Readable(e) == \A k \in DOMAIN lines[e] : lines[e][k].form # "torn"
Of(e, c) == {k \in DOMAIN lines[e] : lines[e][k].case = c}
Latest(e, c) == lines[e][CHOOSE k \in Of(e, c) : \A h \in Of(e, c) : h <= k]

\* A line behind one that lacks its end makes one line that cannot be read.
Extended(seq, line) ==
  IF seq # <<>> /\ Last(seq).form = "open"
    THEN [seq EXCEPT ![Len(seq)].form = "torn"]
    ELSE Append(seq, line)

Line(e, c, status, form) ==
  [case |-> c, status |-> status, asked |-> result[e][c].asked, config |-> config[e], form |-> form]

Record(e, c, status) ==
  /\ lines' = [lines EXCEPT ![e] = Extended(@, Line(e, c, status, "line"))]
  /\ result' = [result EXCEPT ![e][c].state = status]

(***************************************************************************)
(* Starting and resuming                                                   *)
(***************************************************************************)
\* What was recorded of other cases than those selected is refused.
Starts(e) ==
  /\ starts[e] < MaxStarts[e] /\ starts' = [starts EXCEPT ![e] = @ + 1]
  /\ \E c \in ConfigsOf[e], cases \in SUBSET CasesOf[e] \ {{}} :
       /\ \A k \in DOMAIN lines[e] : lines[e][k].case \in cases
       /\ config' = [config EXCEPT ![e] = c]
       /\ picked' = [picked EXCEPT ![e] = cases]

\* create_input_snapshot, in a new directory.
Snapshot(e) ==
  /\ EvalGoes(e, "new", "snapped")
  /\ wlock = "free"
  /\ Starts(e)
  /\ input' = [input EXCEPT ![e] = workbook]
  /\ UNCHANGED <<workbook, meta, lines, result, wlock, compared>>

\* install_dataset_snapshot, write_run_metadata.
WriteMetadata(e) ==
  /\ EvalGoes(e, "snapped", "answer")
  /\ meta' = [meta EXCEPT ![e] = config[e]]
  /\ UNCHANGED <<workbook, config, picked, input, lines, result, starts, wlock, compared>>

\* Mutant: whatever is not done is done again from its start.
ResumedAfresh(e, c) ==
  IF Of(e, c) # {} /\ Latest(e, c).status = "done"
    THEN [state |-> "done", asked |-> Latest(e, c).asked]
    ELSE Todo

\* A case that was asked and could not be judged keeps its answer.
Resumed(e, c) ==
  IF Of(e, c) = {} THEN Todo
  ELSE [state |-> IF Latest(e, c).status = "judge_failed" THEN "answered" ELSE Latest(e, c).status,
        asked |-> Latest(e, c).asked]

\* validate_resume and load_checkpoint_results; what they refuse is not a step.
Resume(e) ==
  /\ phase[e] \in Dead \ {"new"}
  /\ Starts(e)
  /\ meta[e] = config'[e]
  /\ Readable(e)
  /\ phase' = [phase EXCEPT ![e] = "answer"]
  /\ result' = [result EXCEPT ![e] = [c \in CasesOf[e] |-> Resumed(e, c)]]
  /\ UNCHANGED <<workbook, input, meta, lines, wlock, compared>>

(***************************************************************************)
(* run_items: all answers first, then all judgements, each by threads      *)
(***************************************************************************)
\* A successful answer is not recorded before it is judged.
AnswerCase(e, c) ==
  /\ phase[e] = "answer"
  /\ result[e][c].state = "todo"
  /\ result' = [result EXCEPT ![e][c] = [state |-> "answered", asked |-> starts[e]]]
  /\ UNCHANGED <<workbook, config, picked, phase, input, meta, lines, starts, wlock, compared>>

AnswerCaseFails(e, c) ==
  /\ phase[e] = "answer"
  /\ result[e][c].state = "todo"
  /\ Record(e, c, "ask_failed")
  /\ UNCHANGED <<workbook, config, picked, phase, input, meta, starts, wlock, compared>>

EndAnswers(e) ==
  /\ \A c \in picked[e] : result[e][c].state # "todo"
  /\ EvalGoes(e, "answer", "judge")
  /\ OnlyPhase

JudgeCase(e, c) ==
  /\ phase[e] = "judge"
  /\ result[e][c].state = "answered"
  /\ \E status \in {"done", "judge_failed"} : Record(e, c, status)
  /\ UNCHANGED <<workbook, config, picked, phase, input, meta, starts, wlock, compared>>

EndJudging(e) ==
  /\ \A c \in picked[e] : result[e][c].state # "answered"
  /\ EvalGoes(e, "judge", "report")
  /\ OnlyPhase

\* A write that raises or a process that dies: nothing, a part, or all but the end.
AppendBreaks(e) ==
  /\ phase[e] \in {"answer", "judge"}
  /\ \E c \in picked[e], form \in {"torn", "open"} :
       LET ready == IF phase[e] = "answer" THEN "todo" ELSE "answered"
           status == IF phase[e] = "answer" THEN "ask_failed" ELSE "done"
       IN /\ result[e][c].state = ready
          /\ lines' = [lines EXCEPT ![e] = Extended(@, Line(e, c, status, form))]
  /\ phase' = [phase EXCEPT ![e] = "crashed"] /\ Exit(e)
  /\ UNCHANGED <<workbook, input, meta, starts, wlock, compared>>

(***************************************************************************)
(* The report, and safe_backfill                                           *)
(***************************************************************************)
\* write_run_metadata, write_markdown_report; --no-xlsx ends here.
WriteReport(e) ==
  /\ EvalGoes(e, "report", "candidate") \/ EvalGoes(e, "report", "finished")
  /\ OnlyPhase

\* The candidate made from the snapshot fails its verification.
VerifyFails(e) ==
  /\ EvalGoes(e, "candidate", "failed") /\ Exit(e)
  /\ UNCHANGED <<workbook, input, meta, lines, starts, wlock, compared>>

TakeWorkbook(e) ==
  /\ EvalGoes(e, "candidate", "locked")
  /\ wlock = "free" /\ wlock' = e
  /\ UNCHANGED <<workbook, config, picked, input, meta, lines, result, starts, compared>>

\* Mutant: the two digests are not compared.
CheckWorkbookNot(e) ==
  /\ EvalGoes(e, "locked", "checked")
  /\ compared' = workbook
  /\ UNCHANGED <<workbook, config, picked, input, meta, lines, result, starts, wlock>>

CheckWorkbook(e) ==
  /\ compared' = workbook
  /\ \/ /\ workbook = input[e]
        /\ EvalGoes(e, "locked", "checked")
        /\ UNCHANGED <<config, picked, result, wlock>>
     \/ /\ workbook # input[e]
        /\ EvalGoes(e, "locked", "failed") /\ Exit(e)
        /\ wlock' = "free"
  /\ UNCHANGED <<workbook, input, meta, lines, starts>>

ReplaceWorkbook(e) ==
  /\ EvalGoes(e, "checked", "replaced")
  /\ workbook' = Append(input[e], e)
  /\ UNCHANGED <<config, picked, input, meta, lines, result, starts, wlock, compared>>

\* The directory is synced and the lock released.
EndBackfill(e) ==
  /\ EvalGoes(e, "replaced", "finished")
  /\ wlock' = "free"
  /\ UNCHANGED <<workbook, config, picked, input, meta, lines, result, starts, compared>>

\* The rename raises, or the sync after it: then the snapshot is put back, if it can.
BackfillFails(e) ==
  /\ \/ EvalGoes(e, "checked", "failed") /\ UNCHANGED workbook
     \/ EvalGoes(e, "replaced", "failed") /\ workbook' \in {workbook, input[e]}
  /\ wlock' = "free" /\ Exit(e)
  /\ UNCHANGED <<input, meta, lines, starts, compared>>

(***************************************************************************)
(* Others                                                                  *)
(***************************************************************************)
Die(e) ==
  /\ phase[e] \notin Dead
  /\ phase' = [phase EXCEPT ![e] = "crashed"]
  /\ wlock' = (IF wlock = e THEN "free" ELSE wlock) /\ Exit(e)
  /\ UNCHANGED <<workbook, input, meta, lines, starts, compared>>

\* The lock is for other runs: a user saves at any time.
UserEdits ==
  /\ \A k \in DOMAIN workbook : workbook[k] # "user"
  /\ workbook' = Append(workbook, "user")
  /\ UNCHANGED <<config, picked, phase, input, meta, lines, result, starts, wlock, compared>>

--------------------------------------------------------------------------------
CaseStep(e, c) == AnswerCase(e, c) \/ AnswerCaseFails(e, c) \/ JudgeCase(e, c)

EvalStep(e) ==
  \/ Snapshot(e) \/ WriteMetadata(e) \/ Resume(e)
  \/ \E c \in picked[e] : CaseStep(e, c)
  \/ EndAnswers(e) \/ EndJudging(e) \/ AppendBreaks(e)
  \/ WriteReport(e) \/ VerifyFails(e) \/ TakeWorkbook(e) \/ CheckWorkbook(e)
  \/ ReplaceWorkbook(e) \/ EndBackfill(e) \/ BackfillFails(e) \/ Die(e)

EvalNext == (\E e \in Evals : EvalStep(e)) \/ UserEdits

EvalSpec == EvalInit /\ [][EvalNext]_evalVars

--------------------------------------------------------------------------------
EvalTypeOK ==
  /\ \A e \in Evals : picked[e] \subseteq CasesOf[e] /\ {config[e], meta[e]} \subseteq ConfigsOf[e] \cup {NoConfig}
  /\ phase \in [Evals -> Phases]
  /\ \A e \in Evals : starts[e] \in 0..MaxStarts[e]
  /\ \A e \in Evals : \A c \in CasesOf[e] :
       result[e][c].state \in Final \cup {"todo", "answered"}
  /\ wlock \in Evals \cup {"free"}

\* Over any number of crashes and resumes: all lines of a run come from one
\* configuration, a case is asked once for all its lines, nothing follows a line
\* that is final for resuming, and what is reported of each case is its latest line,
\* as long as the file can be read.
\* (run_items, load_checkpoint_results, validate_resume)
CheckpointTruth ==
  \A e \in Evals :
    LET whole == {k \in DOMAIN lines[e] : lines[e][k].form # "torn"} IN
    /\ \A k \in whole : lines[e][k].config = meta[e]
    /\ \A h, k \in whole :
         h < k /\ lines[e][h].case = lines[e][k].case =>
           lines[e][h].status = "judge_failed" /\ lines[e][h].asked = lines[e][k].asked
    /\ phase[e] \in {"report", "candidate", "locked", "checked", "replaced", "finished"} =>
         \A c \in picked[e] :
           /\ result[e][c].state \in Final
           /\ Readable(e) => Latest(e, c).status = result[e][c].state

\* Filling in results takes nothing out of the workbook that it held when the run
\* compared it with its snapshot, nor what another run has written: all that can be
\* lost is what a user saves between that comparison and the rename, or between the
\* rename and its being taken back.
\* (safe_backfill: the comparison under the lock, os.replace, _rollback_source)
EditsKept ==
  [][\/ IsPrefix(workbook, workbook')
     \/ \E e \in Evals :
          /\ phase[e] \in {"checked", "replaced"}
          /\ workbook' \in {compared, Append(compared, e)}
          /\ \A k \in DOMAIN workbook : k > Len(compared) => workbook[k] \in {e, "user"}]_evalVars
================================================================================
