---------------------------- MODULE SalesGeneration ----------------------------
(***************************************************************************)
(* src/xhbx_rag/sales_generation.py and the commands generate-insights and *)
(* ingest of cli.py.  Evidence is extracted from each section of a case,   *)
(* four parts of insights are asked for with it, two of them with notes on *)
(* parts before, and what is written is parsed and indexed.  Evidence and  *)
(* parts are kept in files, for a next run after a failure or a crash.     *)
(***************************************************************************)
EXTENDS Naturals, FiniteSets

CONSTANTS
  Sections,        \* sections of the case
  SourcesOf,       \* the source files of each
  Namings,         \* functions that give each section its safe file name
  PartValues,      \* what the model answers for each part; 0 is an empty answer
  SectionSlots,    \* section_concurrency
  MaxGenerations   \* bound on runs

Parts == {"customer_journey", "strategies", "scripts", "objection_handling"}

ASSUME SalesAssumption ==
  /\ IsFiniteSet(Sections) /\ Sections # {}
  /\ \A s \in Sections : SourcesOf[s] # {}
  /\ DOMAIN PartValues = Parts /\ \A p \in Parts : PartValues[p] \subseteq Nat
  /\ SectionSlots \in Nat \ {0} /\ MaxGenerations \in Nat

VARIABLES
  naming,      \* _safe_name
  evidenceOn,  \* <name>.sales_evidence.json, by name
  partOn,      \* case.insights_parts, by part
  book,        \* the run that wrote the insights and the playbook of a case
  parsedOn,    \* the run whose insights each file of parse was made of
  indexed,     \* the run whose chunks are in the collection
  named,       \* the case the run writes to: its own, unless one call named another
  ingesting,   \* the command is ingest, not generate-insights
  genStep,
  sec,         \* what the run holds of each section
  part,        \* and of each part
  status,      \* what the run ended with
  gens

salesVars == <<naming, evidenceOn, partOn, book, parsedOn, indexed, named, ingesting, genStep, sec, part, status, gens>>

None == [section |-> "none"]
Unasked == [state |-> "todo"]
Asking == {s \in Sections : sec[s].state = "asking"}
Gone == [state |-> "failed"]
Success(evidence) == [state |-> "done", evidence |-> evidence]

SalesInit ==
  /\ naming \in Namings
  /\ evidenceOn = [n \in UNION {{naming[s] : s \in Sections}} |-> None]
  /\ partOn = [p \in Parts |-> [fingerprint |-> <<{}, <<>> >>]]
  /\ book = [own |-> [insights |-> 0, playbook |-> 0], other |-> [insights |-> 0, playbook |-> 0]]
  /\ parsedOn = [structured |-> 0, chunks |-> 0] /\ indexed = 0
  /\ named = "own" /\ ingesting = FALSE
  /\ genStep = "ended" /\ status = "none" /\ gens = 0
  /\ sec = [s \in Sections |-> Unasked] /\ part = [p \in Parts |-> Unasked]

Disk == <<naming, evidenceOn, partOn, book, parsedOn, indexed>>
SalesGoes(from, to) == genStep = from /\ genStep' = to
\* The process is gone, with what it held.
EndsAs(how) ==
  /\ genStep' = "ended" /\ status' = how
  /\ sec' = [s \in Sections |-> Unasked] /\ part' = [p \in Parts |-> Unasked]

(***************************************************************************)
(* Sections                                                                *)
(***************************************************************************)
\* _load_reusable_section_evidence: of this section, whatever its name became.
Reusable(s) == evidenceOn[naming[s]] # None /\ evidenceOn[naming[s]].section = s

\* Every task looks for evidence to reuse before any of them has called the model.
\* Options of the command line are chosen where they are first read.
StartGeneration ==
  /\ genStep = "ended" /\ gens < MaxGenerations
  /\ genStep' = "sections" /\ gens' = gens + 1 /\ status' = "none" /\ named' = "own"
  /\ ingesting' = FALSE
  /\ \E reuse \in BOOLEAN :
       sec' = [s \in Sections |->
         IF reuse /\ Reusable(s) THEN Success(evidenceOn[naming[s]]) ELSE Unasked]
  /\ UNCHANGED <<Disk, part>>

AskSection(s) ==
  /\ genStep = "sections"
  /\ sec[s].state = "todo" /\ Cardinality(Asking) < SectionSlots
  /\ sec' = [sec EXCEPT ![s].state = "asking"]
  /\ UNCHANGED <<Disk, named, ingesting, genStep, part, status, gens>>

\* The sources go one after another; evidence is what those that did not fail gave.
SectionSucceeds(s) ==
  /\ genStep = "sections" /\ sec[s].state = "asking"
  /\ \E of \in SUBSET SourcesOf[s] \ {{}} :
       LET evidence == [section |-> s, of |-> of] IN
       /\ sec' = [sec EXCEPT ![s] = Success(evidence)]
       /\ evidenceOn' = [evidenceOn EXCEPT ![naming[s]] = evidence]
  /\ UNCHANGED <<naming, partOn, book, parsedOn, indexed, named, ingesting, genStep, part, status, gens>>

\* Every source failed or gave nothing, or writing raised; the failure is recorded.
SectionFails(s) ==
  /\ genStep = "sections" /\ sec[s].state = "asking"
  /\ sec' = [sec EXCEPT ![s] = Gone]
  /\ UNCHANGED <<Disk, named, ingesting, genStep, part, status, gens>>

\* Recording the failure raises: gather raises, the other tasks are cancelled.
SectionFailureUnwritten(s) ==
  /\ genStep = "sections" /\ sec[s].state = "asking"
  /\ EndsAs("failed")
  /\ UNCHANGED <<Disk, named, ingesting, gens>>

SectionsEnd ==
  /\ genStep = "sections"
  /\ \A s \in Sections : sec[s].state \in {"done", "failed"}
  /\ IF \A s \in Sections : sec[s].state = "failed"
       THEN EndsAs("failed")
       ELSE genStep' \in {"parts", "single"} /\ UNCHANGED <<sec, part, status>>
  /\ UNCHANGED <<Disk, named, ingesting, gens>>

(***************************************************************************)
(* Parts: the journey and the strategies, then scripts, then objections    *)
(***************************************************************************)
Evidences == {sec[s].evidence : s \in {t \in Sections : sec[t].state = "done"}}
Value(p) == IF part[p].state = "done" THEN part[p].value ELSE 0
Notes(p) ==
  CASE p = "scripts" -> <<Value("strategies")>>
    [] p = "objection_handling" -> <<Value("strategies"), Value("scripts")>>
    [] OTHER -> <<>>

\* Mutant: the notes are left out.
FingerprintOfEvidence(p) == <<Evidences, <<>> >>

Fingerprint(p) == <<Evidences, Notes(p)>>

Before(p) ==
  CASE p = "scripts" -> {"customer_journey", "strategies"}
    [] p = "objection_handling" -> {"scripts"}
    [] OTHER -> {}
PartReady(p) ==
  /\ genStep = "parts" /\ part[p].state = "todo"
  /\ \A q \in Before(p) : part[q].state # "todo"

KeepBook == UNCHANGED <<naming, evidenceOn, book, parsedOn, indexed, named, ingesting, genStep, sec, status, gens>>

ReusePart(p) ==
  /\ PartReady(p)
  /\ partOn[p].fingerprint = Fingerprint(p)
  /\ part' = [part EXCEPT ![p] = [state |-> "done", value |-> partOn[p].value, asked |-> partOn[p].asked]]
  /\ UNCHANGED partOn /\ KeepBook

\* An empty answer is not kept, and a checkpoint that cannot be written is done without.
PartAnswers(p) ==
  /\ PartReady(p)
  /\ partOn[p].fingerprint # Fingerprint(p)
  /\ \E v \in PartValues[p] :
       LET asked == <<Evidences, Notes(p)>> IN
       /\ part' = [part EXCEPT ![p] = [state |-> "done", value |-> v, asked |-> asked]]
       /\ \/ UNCHANGED partOn
          \/ v # 0 /\ partOn' = [partOn EXCEPT ![p] =
                        [fingerprint |-> Fingerprint(p), value |-> v, asked |-> asked]]
  /\ KeepBook

PartFails(p) ==
  /\ PartReady(p)
  /\ partOn[p].fingerprint # Fingerprint(p)
  /\ part' = [part EXCEPT ![p] = Gone]
  /\ UNCHANGED partOn /\ KeepBook

PartsEnd ==
  /\ genStep = "parts" /\ \A p \in Parts : part[p].state # "todo"
  /\ IF \A p \in Parts : part[p].state = "failed"
       THEN EndsAs("failed")
       ELSE genStep' = "insights" /\ UNCHANGED <<sec, part, status>>
  /\ UNCHANGED <<Disk, named, ingesting, gens>>

\* One call for everything; the model says which case it is about.
SingleCall ==
  /\ SalesGoes("single", "insights")
  /\ named' \in {"own", "other"}
  /\ UNCHANGED <<Disk, ingesting, sec, part, status, gens>>

SingleCallFails ==
  /\ genStep = "single" /\ EndsAs("failed")
  /\ UNCHANGED <<Disk, named, ingesting, gens>>

(***************************************************************************)
(* Files, and the rest of ingest                                           *)
(***************************************************************************)
WriteInsights ==
  /\ SalesGoes("insights", "playbook")
  /\ book' = [book EXCEPT ![named].insights = gens]
  /\ UNCHANGED <<naming, evidenceOn, partOn, parsedOn, indexed, named, ingesting, sec, part, status, gens>>

Outcome == IF \E p \in Parts : part[p].state = "failed" THEN "partial" ELSE "ok"

WritePlaybook ==
  /\ genStep = "playbook"
  /\ book' = [book EXCEPT ![named].playbook = gens]
  /\ \/ ingesting' = TRUE /\ genStep' = "parse" /\ UNCHANGED <<sec, part, status>>
     \/ UNCHANGED ingesting /\ EndsAs(Outcome)
  /\ UNCHANGED <<naming, evidenceOn, partOn, parsedOn, indexed, named, gens>>

\* parse_inputs, normalize_case and build_chunks on what was written.
WriteStructured ==
  /\ SalesGoes("parse", "chunks")
  /\ parsedOn' = [parsedOn EXCEPT !.structured = book[named].insights]
  /\ UNCHANGED <<naming, evidenceOn, partOn, book, indexed, named, ingesting, sec, part, status, gens>>

WriteChunks ==
  /\ SalesGoes("chunks", "index")
  /\ parsedOn' = [parsedOn EXCEPT !.chunks = book[named].insights]
  /\ UNCHANGED <<naming, evidenceOn, partOn, book, indexed, named, ingesting, sec, part, status, gens>>

IndexParsed ==
  /\ genStep = "index"
  /\ indexed' = parsedOn.chunks
  /\ EndsAs(Outcome)
  /\ UNCHANGED <<naming, evidenceOn, partOn, book, parsedOn, named, ingesting, gens>>

\* A write raises: generating returns a result, ingest ends with the exception.
WriteFails ==
  /\ genStep \in {"insights", "playbook", "parse", "chunks", "index"}
  /\ EndsAs("failed")
  /\ UNCHANGED <<Disk, named, ingesting, gens>>

KillGeneration ==
  /\ genStep # "ended" /\ EndsAs("killed")
  /\ UNCHANGED <<Disk, named, ingesting, gens>>

--------------------------------------------------------------------------------
SectionStep(s) ==
  AskSection(s) \/ SectionSucceeds(s) \/ SectionFails(s) \/ SectionFailureUnwritten(s)

SalesNext ==
  \/ StartGeneration \/ (\E s \in Sections : SectionStep(s)) \/ SectionsEnd
  \/ (\E p \in Parts : ReusePart(p) \/ PartAnswers(p) \/ PartFails(p)) \/ PartsEnd
  \/ SingleCall \/ SingleCallFails
  \/ WriteInsights \/ WritePlaybook \/ WriteStructured \/ WriteChunks \/ IndexParsed
  \/ WriteFails \/ KillGeneration

SalesSpec == SalesInit /\ [][SalesNext]_salesVars

--------------------------------------------------------------------------------
SalesTypeOK ==
  /\ gens \in 0..MaxGenerations /\ indexed \in 0..gens
  /\ \A s \in Sections : sec[s].state \in {"todo", "asking", "done", "failed"}
  /\ \A p \in Parts : part[p].state \in {"todo", "done", "failed"}
  /\ status \in {"none", "ok", "partial", "failed", "killed"}

\* Whatever earlier runs left behind, insights rest on evidence that is each
\* section's own, every part was asked for with just this evidence and with the
\* notes of the parts as they are used beside it, and a run that ends well leaves
\* the insights, the playbook, the chunks and the collection of one generation,
\* without touching another case, unless one call named the case.
\* (_load_reusable_section_evidence, _case_part_fingerprint, _write_case_sales_insights)
InsightsFounded ==
  /\ \A s \in Sections : sec[s].state = "done" => sec[s].evidence.section = s
  /\ genStep \in {"insights", "playbook", "parse", "chunks", "index"} =>
       /\ \A p \in Parts : part[p].state = "done" => part[p].asked = <<Evidences, Notes(p)>>
       /\ Cardinality(Asking) = 0
  /\ status \in {"ok", "partial"} =>
       /\ book[named] = [insights |-> gens, playbook |-> gens]
       /\ ingesting => parsedOn = [structured |-> gens, chunks |-> gens] /\ indexed = gens
================================================================================
