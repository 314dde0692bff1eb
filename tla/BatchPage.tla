------------------------------- MODULE BatchPage -------------------------------
(***************************************************************************)
(* src/web/src/hooks/useBatchRunPolling.ts and components/BatchRunView.tsx:*)
(* the page of one batch run.  It loads the detail, then asks for the      *)
(* progress again and again, loads the detail when the progress changed,   *)
(* and stops at the end of the run.  Requests arrive late or fail, the     *)
(* user retries rows, and other pages do the same beside it.  The run is   *)
(* that of BatchRuns, seen through batch_store.py: get_run and             *)
(* get_progress read the status and the rows one after the other.          *)
(***************************************************************************)
EXTENDS Naturals, FiniteSets

CONSTANTS
  PageRows,      \* row indexes of the run
  MaxFailures,   \* MAX_CONSECUTIVE_POLL_FAILURES
  MaxRefreshes,  \* bound on the loads the user causes
  MaxChanges     \* bound on the changes of the run

ASSUME PageAssumption == MaxFailures \in Nat \ {0} /\ MaxRefreshes \in Nat /\ MaxChanges \in Nat

VARIABLES
  server,     \* the run in the database: its status, its rows, their bad cases
  changes,    \* how often it changed
  flight,     \* requests of the page that were not answered yet
  page,       \* what the hook keeps: generationRef, detail, lastSignatureRef, timerRef, ...
  asked,      \* the request of the user that the server has carried out, unanswered
  elsewhere   \* somebody else moved the run since the page last loaded it

pageVars == <<server, changes, flight, page, asked, elsewhere>>

Unloaded == [status |-> "none", rows |-> [q \in PageRows |-> "none"], bad |-> {}]
Signature(run_) == <<run_.status, run_.rows>>
ActiveRun(run_) == run_.status \in {"pending", "running"}
Over == {"succeeded", "failed"}
Nothing == [kind |-> "none", row |-> 0]

RequestOf(gen, kind, last) ==
  [gen |-> gen, kind |-> kind, last |-> last, step |-> "sent", seen |-> Unloaded]

\* The page is opened on a new run, or on one that ended with a row that failed.
PageInit ==
  /\ \E s \in {"pending", "completed"} :
       server = [status |-> s, bad |-> {},
                 rows |-> [q \in PageRows |-> IF s = "pending" THEN s ELSE "failed"]]
  /\ page = [gen |-> 1, shown |-> Unloaded, sig |-> Signature(Unloaded), timer |-> FALSE,
             failures |-> 0, loadError |-> FALSE, pollError |-> "none"]
  /\ flight = {RequestOf(1, "initial", FALSE)}
  /\ asked = Nothing /\ elsewhere = FALSE /\ changes = 0

--------------------------------------------------------------------------------
(***************************************************************************)
(* The run                                                                 *)
(***************************************************************************)
Becomes(run_) == changes < MaxChanges /\ changes' = changes + 1 /\ server' = run_

ServerWorks ==
  /\ \/ server.status = "pending" /\ Becomes([server EXCEPT !.status = "running"])
     \/ /\ server.status = "running"
        /\ \/ \E q \in PageRows :
                \/ server.rows[q] = "pending" /\ Becomes([server EXCEPT !.rows[q] = "running"])
                \/ /\ server.rows[q] = "running"
                   /\ \E end \in Over : Becomes([server EXCEPT !.rows[q] = end])
           \/ /\ \A q \in PageRows : server.rows[q] \in Over
              /\ Becomes([server EXCEPT !.status = "completed"])
     \/ /\ ActiveRun(server)
        /\ Becomes([server EXCEPT !.status = "interrupted",
             !.rows = [q \in PageRows |-> IF @[q] = "running" THEN "pending" ELSE @[q]]])
  /\ UNCHANGED <<flight, page, asked, elsewhere>>

RowRetried(q) ==
  /\ server.status \notin {"running", "gone"} /\ server.rows[q] = "failed"
  /\ Becomes([server EXCEPT !.status = "pending", !.rows[q] = "pending", !.bad = @ \ {q}])

RunResumed == server.status = "interrupted" /\ Becomes([server EXCEPT !.status = "pending"])

BadCaseSaved(q) == server.rows[q] \in Over /\ server.status # "gone" /\ Becomes([server EXCEPT !.bad = @ \cup {q}])

\* Another page of the same run.
OtherPage ==
  /\ \/ (\E q \in PageRows : RowRetried(q)) \/ RunResumed
     \/ server.status # "running" /\ Becomes([server EXCEPT !.status = "gone"])
  /\ elsewhere' = TRUE
  /\ UNCHANGED <<flight, page, asked>>

--------------------------------------------------------------------------------
(***************************************************************************)
(* Requests of the hook                                                    *)
(***************************************************************************)
Current(r) == r.gen = page.gen
Answered(r, kind) == r.kind = kind /\ r.step = "answered" /\ Current(r)

\* The status, then the rows; a run that is gone is not found.
ServerReads(r) ==
  /\ server.status # "gone"
  /\ \/ /\ r.step = "sent"
        /\ flight' = (flight \ {r}) \cup {[r EXCEPT !.step = "half", !.seen = server]}
     \/ /\ r.step = "half"
        /\ flight' = (flight \ {r}) \cup
             {[r EXCEPT !.step = "answered", !.seen = [server EXCEPT !.status = r.seen.status]]}
  /\ UNCHANGED <<server, changes, page, asked, elsewhere>>

\* start(): what is under way expires, the detail is loaded.
Refresh ==
  /\ page.gen <= MaxRefreshes
  /\ page' = [page EXCEPT !.gen = @ + 1, !.timer = FALSE, !.failures = 0, !.pollError = "none"]
  /\ flight' = flight \cup {RequestOf(page.gen + 1, "initial", FALSE)}
  /\ elsewhere' = FALSE

InitialArrives(r) ==
  /\ Answered(r, "initial")
  /\ page' = [page EXCEPT !.shown = r.seen, !.loadError = FALSE, !.sig = Signature(r.seen),
                          !.timer = ActiveRun(r.seen)]
  /\ flight' = flight \ {r}
  /\ UNCHANGED <<server, changes, asked, elsewhere>>

InitialFails(r) ==
  /\ r.kind = "initial" /\ Current(r)
  /\ page' = [page EXCEPT !.loadError = TRUE]
  /\ flight' = flight \ {r}
  /\ UNCHANGED <<server, changes, asked, elsewhere>>

TimerFires ==
  /\ page.timer
  /\ page' = [page EXCEPT !.timer = FALSE]
  /\ flight' = flight \cup {RequestOf(page.gen, "progress", FALSE)}
  /\ UNCHANGED <<server, changes, asked, elsewhere>>

\* Mutant: the detail is loaded when the progress changed, and not at the end.
ProgressArrivesUnchanged(r) ==
  /\ Answered(r, "progress")
  /\ LET changed == Signature(r.seen) # page.sig
         terminal == ~ActiveRun(r.seen)
     IN /\ page' = [page EXCEPT !.failures = 0, !.pollError = "none", !.sig = Signature(r.seen),
                                !.timer = ~changed /\ ~terminal]
        /\ flight' = (flight \ {r}) \cup
             (IF changed THEN {RequestOf(r.gen, "detail", terminal)} ELSE {})
  /\ UNCHANGED <<server, changes, asked, elsewhere>>

ProgressArrives(r) ==
  /\ Answered(r, "progress")
  /\ LET load == Signature(r.seen) # page.sig \/ ~ActiveRun(r.seen)
     IN /\ page' = [page EXCEPT !.failures = 0, !.pollError = "none", !.sig = Signature(r.seen),
                                !.timer = ~load]
        /\ flight' = (flight \ {r}) \cup
             (IF load THEN {RequestOf(r.gen, "detail", ~ActiveRun(r.seen))} ELSE {})
  /\ UNCHANGED <<server, changes, asked, elsewhere>>

DetailArrives(r) ==
  /\ Answered(r, "detail")
  /\ page' = [page EXCEPT !.shown = r.seen, !.timer = ~r.last]
  /\ flight' = flight \ {r}
  /\ UNCHANGED <<server, changes, asked, elsewhere>>

PollFails(r) ==
  /\ r.kind \in {"progress", "detail"} /\ Current(r)
  /\ LET stop == page.failures + 1 >= MaxFailures
     IN page' = [page EXCEPT !.failures = @ + 1, !.timer = ~stop,
                             !.pollError = IF stop THEN "stopped" ELSE "retrying"]
  /\ flight' = flight \ {r}
  /\ UNCHANGED <<server, changes, asked, elsewhere>>

\* isCurrent() is false: the answer or the error of an earlier load is dropped.
Expires(r) ==
  /\ ~Current(r)
  /\ flight' = flight \ {r}
  /\ UNCHANGED <<server, changes, page, asked, elsewhere>>

--------------------------------------------------------------------------------
(***************************************************************************)
(* The user                                                                *)
(***************************************************************************)
\* handleRetry, handleResume, submitRowBadCase: the server has done it.
UserAsks ==
  /\ asked = Nothing
  /\ \/ \E q \in PageRows :
          \/ page.shown.rows[q] = "failed" /\ RowRetried(q) /\ asked' = [kind |-> "refresh", row |-> q]
          \/ page.shown.rows[q] = "succeeded" /\ BadCaseSaved(q) /\ asked' = [kind |-> "patch", row |-> q]
     \/ page.shown.status = "interrupted" /\ RunResumed /\ asked' = [kind |-> "refresh", row |-> 0]
  /\ UNCHANGED <<flight, page, elsewhere>>

ReplyArrives ==
  /\ asked # Nothing
  /\ asked' = Nothing
  /\ \/ asked.kind = "refresh" /\ Refresh
     \/ /\ asked.kind = "patch"
        /\ page' = [page EXCEPT !.shown.bad = @ \cup {asked.row}]
        /\ UNCHANGED <<flight, elsewhere>>
  /\ UNCHANGED <<server, changes>>

\* The server has done it and the page says that it failed.
ReplyLost ==
  /\ asked # Nothing
  /\ asked' = Nothing
  /\ elsewhere' = (elsewhere \/ asked.kind = "refresh")
  /\ UNCHANGED <<server, changes, flight, page>>

\* The button beside POLL_STOPPED_MESSAGE.
ManualRefresh == page.pollError = "stopped" /\ Refresh /\ UNCHANGED <<server, changes, asked>>

PageNext ==
  \/ ServerWorks \/ OtherPage \/ TimerFires \/ UserAsks \/ ReplyArrives \/ ReplyLost \/ ManualRefresh
  \/ \E r \in flight :
       \/ ServerReads(r) \/ InitialArrives(r) \/ InitialFails(r) \/ ProgressArrives(r)
       \/ DetailArrives(r) \/ PollFails(r) \/ Expires(r)

PageSpec == PageInit /\ [][PageNext]_pageVars

--------------------------------------------------------------------------------
PageTypeOK ==
  /\ page.gen \in 1..MaxRefreshes + 1 /\ page.failures \in 0..MaxFailures
  /\ page.timer \in BOOLEAN /\ page.loadError \in BOOLEAN
  /\ page.pollError \in {"none", "retrying", "stopped"}
  /\ \A r \in flight : r.gen \in 1..page.gen /\ r.kind \in {"initial", "progress", "detail"}
  /\ elsewhere \in BOOLEAN

Resting == ~page.timer /\ \A r \in flight : ~Current(r)

Ended(run_) == ~ActiveRun(run_) /\ Signature(run_) = Signature(server)

\* What the page says of a load that failed: loadError is shown in place of a detail
\* only (BatchRunView.tsx, line 214), pollError above it.
FailureShown == page.pollError = "stopped" \/ (page.loadError /\ page.shown = Unloaded)

\* The load that follows a retry, a resume or a manual refresh failed: the page keeps
\* the old detail, says nothing and has no timer.
RefreshFailed == page.loadError /\ page.shown # Unloaded

\* A page that asks no more shows how the run ended or says that it could not load
\* it: no late answer, no failed poll and no change between two reads leaves it
\* behind.  The exceptions are a run that somebody else moved on and a refresh whose
\* load failed.
\* (start, tick, loadInitialDetail, isCurrent)
StopsInformed ==
  Resting /\ asked.kind # "refresh" /\ ~elsewhere =>
    FailureShown \/ RefreshFailed \/ Ended(page.shown)
================================================================================
