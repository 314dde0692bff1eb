------------------------------- MODULE Retrieval -------------------------------
(***************************************************************************)
(* src/xhbx_rag/query_understanding.py, search.py, milvus_store.py (reads), *)
(* rerank.py and the search of mcp_server.py: one search over one or more   *)
(* collections.  It reads each of them three times, for the nearest         *)
(* vectors, for the rows its words are counted in, and for the rows of the  *)
(* best of those, while a writer replaces their content between the reads.  *)
(***************************************************************************)
EXTENDS Naturals, Sequences, FiniteSetsExt, Ranks

CONSTANTS
  Collections,
  Contents,       \* what each collection may hold: Missing, or a set of rows
  Missing,         \* the collection does not exist
  TypeOf,         \* chunk_type of each chunk
  KindOf,         \* "case" or "course" for each chunk type
  FieldsOf,       \* the stage, case_name and primary_domain of each chunk
  MatchesOf,      \* how many of a row's domain tags are in the question
  Plans,          \* what the model may understand of the question
  DirectFilters,  \* what a client of the MCP server may filter by
  TopN, TopK,
  MaxWrites       \* bound on changes of a collection during the search

AnyContent == UNION {Contents[c] : c \in Collections}
Rows == UNION (AnyContent \ {Missing})
Both == {"case", "course"}

ASSUME RetrievalAssumption ==
  /\ TopN \in Nat \ {0} /\ TopK \in 1..TopN /\ MaxWrites \in Nat
  /\ \A c \in Collections : \A content \in Contents[c] \ {Missing} : IsFiniteSet(content)
  /\ KindOf \in [DOMAIN KindOf -> Both]
  /\ \A r \in Rows : r.id \in DOMAIN TypeOf /\ TypeOf[r.id] \in DOMAIN KindOf /\ MatchesOf[r] \in Nat
  /\ Plans \subseteq [intent : STRING, retrieve : BOOLEAN, types : SUBSET DOMAIN KindOf,
                     fields : SUBSET SUBSET STRING, targets : SUBSET Both \ {{}}]

VARIABLES
  held,       \* what each collection holds
  selected,   \* collections searched
  plan,       \* QueryUnderstanding, or the filter of an MCP call
  searchStep,
  unread,     \* collections the present read has yet to reach
  found,      \* rows it has found, each with its collection
  nearest,    \* vector_hits
  worded,     \* scored rows of the keyword search, then its hits
  hits,       \* what is reranked
  results,
  seen,       \* history: every row the collections held since the search began
  stayed,     \* history: the rows they have held all the time
  writes

searchVars == <<held, selected, plan, searchStep, unread, found, nearest, worded, hits, results,
                seen, stayed, writes>>

NoPlan == [intent |-> "none", retrieve |-> FALSE, types |-> {}, fields |-> {}, targets |-> Both]
InCollections(content) ==
  UNION {{c} \X content[c] : c \in {d \in selected' : content[d] # Missing}}

SearchInit ==
  /\ held \in [Collections -> AnyContent]
  /\ \A c \in Collections : held[c] \in Contents[c] \ {Missing}
  /\ searchStep = "idle" /\ selected = {} /\ plan = NoPlan
  /\ unread = {} /\ found = {} /\ seen = {} /\ stayed = {} /\ writes = 0
  /\ nearest = <<>> /\ worded = <<>> /\ hits = <<>> /\ results = <<>>

Reading == <<selected, plan>>
History == <<held, seen, stayed, writes>>
SearchGoes(from, to) == searchStep = from /\ searchStep' = to

(***************************************************************************)
(* The plan                                                                *)
(***************************************************************************)
CaseOnlyIntents == {"journey_search", "objection_handling"}

\* Mutant: targets are taken as the model gave them.
AsUnderstood(p) == p

\* _reconcile_collection_targets: both, when a target that is needed is missing.
Reconciled(p) ==
  LET needed == {KindOf[t] : t \in p.types} \cup (IF p.intent \in CaseOnlyIntents THEN {"case"} ELSE {})
  IN IF p.retrieve /\ p.intent # "out_of_scope" /\ ~ (needed \subseteq p.targets)
       THEN [p EXCEPT !.targets = Both] ELSE p

\* stage, case_name and primary_domain: of each that is given, one of its values.
WithFields(row) == \A values \in plan.fields : FieldsOf[row.id] \cap values # {}

\* _search_filters and the filters of a client, as Milvus evaluates them.
Passes(row) ==
  /\ WithFields(row)
  /\ plan.types = {} \/ plan.intent = "general_sales_qa" \/ TypeOf[row.id] \in plan.types
  /\ KindOf[TypeOf[row.id]] \in plan.targets

Begin(c, p) ==
  /\ searchStep = "idle"
  /\ selected' = c /\ plan' = p
  /\ seen' = InCollections(held) /\ stayed' = InCollections(held)
  /\ UNCHANGED <<held, unread, found, nearest, worded, hits, results, writes>>

\* answer_question as far as the search: a question out of scope is not searched for.
Understand(c) ==
  \E p \in Plans :
    /\ Begin(c, Reconciled(p))
    /\ searchStep' = IF p.retrieve /\ p.intent # "out_of_scope" THEN "planned" ELSE "completed"

\* kb_search_knowledge and search_knowledge: no model, the client's own filter.
SearchDirectly(c) ==
  \E f \in DirectFilters :
    /\ Begin(c, [intent |-> "direct", retrieve |-> TRUE, types |-> f.types, fields |-> f.fields, targets |-> Both])
    /\ searchStep' = "planned"

(***************************************************************************)
(* The reads                                                               *)
(***************************************************************************)
Existing == {c \in selected : held[c] # Missing}
AtMostTopN(S) == {T \in SUBSET S : Cardinality(T) = TopN \/ (T = S /\ Cardinality(S) < TopN)}
Arrangements(S, n) == {s \in [1..n -> S] : \A i, j \in 1..n : s[i] = s[j] => i = j}

\* _available_stores: those that are missing are left out.
FindCollections(from, to) ==
  /\ SearchGoes(from, to)
  /\ Existing # {}
  /\ unread' = Existing /\ found' = {}
  /\ UNCHANGED <<Reading, History, nearest, worded, hits, results>>

\* MilvusStore.search
SearchVectors(c) ==
  /\ SearchGoes("vectors", "vectors")
  /\ c \in unread /\ held[c] # Missing
  /\ unread' = unread \ {c}
  /\ \E near \in AtMostTopN({r \in held[c] : Passes(r)}) : found' = found \cup {c} \X near
  /\ UNCHANGED <<Reading, History, nearest, worded, hits, results>>

\* _merge_ranked_hit_lists: by score, in any order here.
MergeHits ==
  /\ SearchGoes("vectors", "searched")
  /\ unread = {}
  /\ \E n \in {Cardinality(S) : S \in AtMostTopN(found)} : nearest' \in Arrangements(found, n)
  /\ found' = {}
  /\ UNCHANGED <<Reading, History, unread, worded, hits, results>>

\* keyword_candidates
ReadCandidates(c) ==
  /\ SearchGoes("words", "words")
  /\ c \in unread /\ held[c] # Missing
  /\ unread' = unread \ {c}
  /\ found' = found \cup {c} \X {r \in held[c] : Passes(r)}
  /\ UNCHANGED <<Reading, History, nearest, worded, hits, results>>

\* _bm25_score_rows over the rows of all collections: those with a word, best first.
ScoreCandidates ==
  /\ SearchGoes("words", "details")
  /\ unread = {}
  /\ \E n \in 0..TopN : n <= Cardinality(found) /\ worded' \in Arrangements(found, n)
  /\ unread' = {w[1] : w \in {worded'[i] : i \in DOMAIN worded'}}
  /\ found' = {}
  /\ UNCHANGED <<Reading, History, nearest, hits, results>>

\* fetch_chunks_by_ids: by identity, whatever the filter.
ReadDetails(c) ==
  /\ SearchGoes("details", "details")
  /\ c \in unread /\ held[c] # Missing
  /\ unread' = unread \ {c}
  /\ found' = found \cup
       {<<c, r>> : r \in {q \in held[c] : \E i \in DOMAIN worded : worded[i][1] = c /\ worded[i][2].id = q.id}}
  /\ UNCHANGED <<Reading, History, nearest, worded, hits, results>>

DetailsOf(w) == {f \in found : f[1] = w[1] /\ f[2].id = w[2].id}

\* A row that went away between the two reads is left out.
TakeDetails ==
  /\ SearchGoes("details", "fusing")
  /\ unread = {}
  /\ LET left == Picked(worded, {i \in DOMAIN worded : DetailsOf(worded[i]) # {}})
     IN worded' = [i \in DOMAIN left |-> CHOOSE f \in DetailsOf(left[i]) : TRUE]
  /\ found' = {}
  /\ UNCHANGED <<Reading, History, unread, nearest, hits, results>>

(***************************************************************************)
(* Fusion and reranking                                                    *)
(***************************************************************************)
RankScore(i) == 1000000 \div (60 + i)
Places(list, id) == {i \in DOMAIN list : list[i].id = id}
FirstPlace(list, id) == CHOOSE i \in Places(list, id) : \A j \in Places(list, id) : i <= j

\* scores: the sum over both lists and over all places in them.
ListScore(list, id) == MapThenSumSet(RankScore, Places(list, id))
Score(vectors, words, id) == ListScore(vectors, id) + ListScore(words, id)

\* 1 + 0.1 for each matched domain, three at most; MCP calls go without.
Boost(row) ==
  10 + (IF plan.intent = "direct" THEN 0
        ELSE IF MatchesOf[row] > 3 THEN 3 ELSE MatchesOf[row])

\* hits_by_id: the row first seen.
RowOf(vectors, words, id) == (vectors \o words)[FirstPlace(vectors \o words, id)]
Boosted(vectors, words, id) == Score(vectors, words, id) * Boost(RowOf(vectors, words, id))

\* By the boosted score, in the order of the scores without boost, then of first_seen.
AheadOf(vectors, words, a, b) ==
  \/ Boosted(vectors, words, a) > Boosted(vectors, words, b)
  \/ /\ Boosted(vectors, words, a) = Boosted(vectors, words, b)
     /\ \/ Score(vectors, words, a) > Score(vectors, words, b)
        \/ /\ Score(vectors, words, a) = Score(vectors, words, b)
           /\ FirstPlace(vectors \o words, a) < FirstPlace(vectors \o words, b)

IdsOf(list) == {r.id : r \in {list[i] : i \in DOMAIN list}}
ScoreOrder(vectors, words) ==
  {d \in IdsOf(vectors \o words) \X IdsOf(vectors \o words) : AheadOf(vectors, words, d[1], d[2])}

\* _rrf_fuse and _apply_domain_boost: one hit for each chunk.
Fused(vectors, words) ==
  LET ids == Ranked(IdsOf(vectors \o words), ScoreOrder(vectors, words))
  IN [i \in DOMAIN ids |-> RowOf(vectors, words, ids[i])]

RowsOf(list) == [i \in DOMAIN list |-> list[i][2]]

Fuse ==
  /\ SearchGoes("fusing", "reranking")
  /\ LET candidates == Fused(RowsOf(nearest), RowsOf(worded))
     IN hits' = SubSeq(candidates, 1, IF Len(candidates) < TopN THEN Len(candidates) ELSE TopN)
  /\ UNCHANGED <<Reading, History, unread, found, nearest, worded, results>>

\* RerankClient.rerank: the service is taken to name each document once.
Rerank ==
  /\ SearchGoes("reranking", "completed")
  /\ \E order \in Arrangements(DOMAIN hits, IF Len(hits) < TopK THEN Len(hits) ELSE TopK) :
       results' = [i \in DOMAIN order |-> hits[order[i]]]
  /\ UNCHANGED <<Reading, History, unread, found, nearest, worded, hits>>

\* A collection that is needed is missing, or a service raises after its retries.
SearchFails ==
  /\ searchStep \notin {"idle", "completed", "failed"}
  /\ searchStep' = "failed"
  /\ UNCHANGED <<Reading, History, unread, found, nearest, worded, hits, results>>

(***************************************************************************)
(* The writer: AtomicIndexer, directory_indexer and index_chunks           *)
(***************************************************************************)
WriteCollection(c) ==
  /\ searchStep \notin {"idle", "completed", "failed"}
  /\ writes < MaxWrites /\ writes' = writes + 1
  /\ \E content \in Contents[c] \ {held[c]} : held' = [held EXCEPT ![c] = content]
  /\ LET now == UNION {{d} \X held'[d] : d \in {e \in selected : held'[e] # Missing}}
     IN seen' = seen \cup now /\ stayed' = stayed \cap now
  /\ UNCHANGED <<Reading, searchStep, unread, found, nearest, worded, hits, results>>

--------------------------------------------------------------------------------
SearchNext ==
  \/ \E c \in SUBSET Collections \ {{}} : Understand(c) \/ SearchDirectly(c)
  \/ FindCollections("planned", "vectors") \/ MergeHits
  \/ FindCollections("searched", "words") \/ ScoreCandidates
  \/ (\E c \in Collections : SearchVectors(c) \/ ReadCandidates(c) \/ ReadDetails(c) \/ WriteCollection(c))
  \/ TakeDetails \/ Fuse \/ Rerank \/ SearchFails

SearchSpec == SearchInit /\ [][SearchNext]_searchVars

--------------------------------------------------------------------------------
SearchTypeOK ==
  /\ unread \subseteq selected /\ found \subseteq Collections \X Rows
  /\ hits \in Seq(Rows) /\ results \in Seq(Rows) /\ stayed \subseteq seen
  /\ Len(hits) <= TopN /\ Len(results) <= TopK

\* However a collection is replaced, dropped or renamed away while it is searched,
\* each piece of evidence is a row the searched collections held at some time
\* of the search, of a type and with the fields that were asked for, and no chunk
\* comes twice; a row that was asked for that stayed all the time is found unless better ones
\* take all the places, in the one search or in both; and none comes ahead of one both searches ranked higher.
\* (search_evidence, MultiCollectionStore, _rrf_fuse, _reconcile_collection_targets)
Asked(row) ==
  /\ WithFields(row)
  /\ plan.types = {} \/ TypeOf[row.id] \in plan.types
  /\ plan.types = {} => KindOf[TypeOf[row.id]] \in
       (IF plan.intent \in CaseOnlyIntents THEN {"case"} ELSE plan.targets)
Above(list, a, b) ==
  /\ Cardinality(Places(list, b)) <= 1     \* a chunk two collections hold is counted twice
  /\ \A j \in Places(list, b) : \E i \in Places(list, a) : i < j

EvidenceWasThere ==
  searchStep \in {"reranking", "completed"} /\ plan.retrieve /\ plan.intent # "out_of_scope" =>
    /\ \A i \in DOMAIN hits : \E s \in seen : s[2] = hits[i]
    /\ \A i \in DOMAIN hits : plan.intent # "general_sales_qa" /\ plan.types # {} => TypeOf[hits[i].id] \in plan.types
    /\ \A i \in DOMAIN hits : WithFields(hits[i])
    /\ \A i, j \in DOMAIN hits : hits[i].id = hits[j].id => i = j
    /\ \A i, j \in DOMAIN results : results[i].id = results[j].id => i = j
    /\ \A s \in stayed : Asked(s[2]) => TopN \in {Len(nearest), Len(hits)} \/ \E i \in DOMAIN hits : hits[i].id = s[2].id
    /\ \A i, j \in DOMAIN hits :
         /\ Above(RowsOf(nearest), hits[i].id, hits[j].id) /\ Above(RowsOf(worded), hits[i].id, hits[j].id)
         /\ Boost(hits[i]) >= Boost(hits[j])
         => i <= j \/ hits[i].id = hits[j].id
================================================================================
