------------------------------- MODULE Workloads -------------------------------
(***************************************************************************)
(* The programs beside the ingestion worker and the batch tables: the       *)
(* pipeline of one upload, the normalising and the indexing of a directory, *)
(* evaluation runs, the generation of sales material, a search, an answer,  *)
(* and the page of a batch run.  They share no state but the collection and *)
(* the batch tables, which each meets as an environment of its own          *)
(* (WebCommits, WriteCollection, ServerWorks), and an answer begins with    *)
(* what a search may give, so one of them moves in a behaviour, chosen at   *)
(* the start, and the others rest.                                          *)
(***************************************************************************)
EXTENDS IngestionPipeline, KnowledgeNormalizer, EvaluationRun, SalesGeneration, Retrieval,
        AnswerRequest, BatchPage

VARIABLE moving

workVars == <<moving, pipeVars, normVars, dirVars, evalVars, salesVars, searchVars, answerVars, pageVars>>

\* A program that rests does so in one of its initial states.
SomeUpload == CHOOSE u \in Uploads : TRUE
SomeNaming == CHOOSE n \in Namings : TRUE
SomeContents == [c \in Collections |-> CHOOSE rows \in Contents[c] : rows # Missing]

WorkInit ==
  /\ moving \in {"pipeline", "normalizer", "directory", "evaluation", "sales", "search", "answer", "page"}
  /\ PipeInit /\ (moving # "pipeline" => upload = SomeUpload)
  /\ NormInit /\ (moving # "normalizer" => outDir = "none")
  /\ DirInit /\ (moving # "directory" => files = <<>> /\ task = "swap" /\ initial = {})
  /\ EvalInit
  /\ SalesInit /\ (moving # "sales" => naming = SomeNaming)
  /\ SearchInit /\ (moving # "search" => held = SomeContents)
  /\ AnswerInit /\ (moving # "answer" => evidence = <<>>)
  /\ PageInit /\ (moving # "page" => ActiveRun(server))

WorkNext ==
  \/ /\ moving = "pipeline" /\ PipeNext
     /\ UNCHANGED <<moving, normVars, dirVars, evalVars, salesVars, searchVars, answerVars, pageVars>>
  \/ /\ moving = "normalizer" /\ NormNext
     /\ UNCHANGED <<moving, pipeVars, dirVars, evalVars, salesVars, searchVars, answerVars, pageVars>>
  \/ /\ moving = "directory" /\ DirNext
     /\ UNCHANGED <<moving, pipeVars, normVars, evalVars, salesVars, searchVars, answerVars, pageVars>>
  \/ /\ moving = "evaluation" /\ EvalNext
     /\ UNCHANGED <<moving, pipeVars, normVars, dirVars, salesVars, searchVars, answerVars, pageVars>>
  \/ /\ moving = "sales" /\ SalesNext
     /\ UNCHANGED <<moving, pipeVars, normVars, dirVars, evalVars, searchVars, answerVars, pageVars>>
  \/ /\ moving = "search" /\ SearchNext
     /\ UNCHANGED <<moving, pipeVars, normVars, dirVars, evalVars, salesVars, answerVars, pageVars>>
  \/ /\ moving = "answer" /\ AnswerNext
     /\ UNCHANGED <<moving, pipeVars, normVars, dirVars, evalVars, salesVars, searchVars, pageVars>>
  \/ /\ moving = "page" /\ PageNext
     /\ UNCHANGED <<moving, pipeVars, normVars, dirVars, evalVars, salesVars, searchVars, answerVars>>

WorkSpec == WorkInit /\ [][WorkNext]_workVars

--------------------------------------------------------------------------------
\* Every program's state keeps its type: tries and attempts within their limits,
\* files and rows of the kinds the code writes.  (all programs above)
WorkTypeOK ==
  CASE moving = "pipeline"   -> PipeTypeOK
    [] moving = "normalizer" -> NormTypeOK
    [] moving = "directory"  -> DirTypeOK
    [] moving = "evaluation" -> EvalTypeOK
    [] moving = "sales"      -> SalesTypeOK
    [] moving = "search"     -> SearchTypeOK
    [] moving = "answer"     -> AnswerTypeOK
    [] moving = "page"       -> PageTypeOK
================================================================================
