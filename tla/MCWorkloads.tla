------------------------------ MODULE MCWorkloads ------------------------------
(* Small instances of the programs of Workloads. *)
EXTENDS Workloads, TLC

CONSTANTS x, g, gb, gs, h, dot, rt,   \* names in an archive
          e1, e2, c1, c2,            \* evaluation runs and cases
          s1, s2, f1, f2             \* sections and their sources

\* Uploads: every archive of three entries at most, where gb and gs are g once
\* stripped or made safe, dot is hidden and rt stands for the target itself.
File(p) == [path |-> p, dir |-> FALSE, legal |-> TRUE]
MCEntries == {File(<<x>>), File(<<g, x>>), File(<<gb, x>>), File(<<gs, x>>), File(<<h, x>>),
  File(<<g, x, x>>), [path |-> <<g>>, dir |-> TRUE, legal |-> TRUE], File(<<dot, x>>), File(<<rt, x>>),
  [path |-> <<h, x>>, dir |-> FALSE, legal |-> FALSE]}
MCUploads == [target : {"case", "course"}, archive : UNION {[1..n -> MCEntries] : n \in 1..3}]
MCStripped == [n \in Names |-> IF n = gb THEN g ELSE n]
MCSafe == [n \in Names |-> IF n \in {gb, gs} THEN g ELSE n]

\* Directories: none, one and two rows, the same row twice, and a broken one.
Ln(i) == [id |-> i, valid |-> TRUE]
MCDirectories == {<<>>, <<Ln("n1")>>, <<Ln("n1"), Ln("n2")>>, <<Ln("n1"), Ln("n1")>>,
  <<[id |-> "n1", valid |-> FALSE]>>}

\* What is normalised: two lines at most, of either kind, broken, without a domain,
\* with the same id, with a text that is split, or none.
Lines == [id : {"n1", "n2"}, kind : {"course", "case"}, valid : BOOLEAN, classed : BOOLEAN, split : {FALSE}]
         \cup [id : {"n1"}, kind : {"course"}, valid : {TRUE}, classed : {TRUE}, split : {TRUE}]
MCInputs == [fit : {TRUE}, lines : UNION {[1..n -> Lines] : n \in 0..2}]
            \cup {[fit |-> FALSE, lines |-> <<>>]}

\* Evaluations: one of two cases that may be resumed, beside one of one case.
MCCasesOf == [e \in Evals |-> IF e = e1 THEN {c1, c2} ELSE {c1}]
MCConfigsOf == [e \in Evals |-> IF e = e1 THEN {"a", "b"} ELSE {"a"}]
MCMaxStarts == [e \in Evals |-> IF e = e1 THEN 2 ELSE 1]

\* Sales: two sections whose names have one safe name, or one each.
MCSourcesOf == [s \in Sections |-> IF s = s1 THEN {f1} ELSE {f2}]
MCNamings == [Sections -> {"1"}] \cup {[s \in Sections |-> IF s = s1 THEN "1" ELSE "2"]}
MCPartValues == [p \in Parts |-> IF p = "strategies" THEN 0..1 ELSE {1}]

\* Search: chunk a in both collections, others in one, in two versions.
Row(i, v) == [id |-> i, version |-> v]
MCContents == [c \in Collections |-> IF c = "m"
  THEN {Missing, {Row("a", 1), Row("b", 1)}, {Row("a", 2), Row("b", 1)}, {Row("b", 2), Row("k", 1)}}
  ELSE {Missing, {Row("a", 1)}, {Row("k", 1)}}]
MCKindOf == [t \in {"customer_journey", "script", "knowledge_entry"} |->
  IF t = "knowledge_entry" THEN "course" ELSE "case"]
MCTypeOf == [i \in {"a", "b", "k"} |->
  IF i = "k" THEN "knowledge_entry" ELSE IF i = "a" THEN "customer_journey" ELSE "script"]
MCMatchesOf == [r \in Rows |-> IF r.id = "b" THEN 2 ELSE 0]
MCFieldsOf == [i \in {"a", "b", "k"} |-> IF i = "a" THEN {"early", "one"} ELSE {"late", "one"}]
Plan(i, ts, ks) == [intent |-> i, retrieve |-> TRUE, types |-> ts, fields |-> {}, targets |-> ks]
MCPlans == {Plan("script_search", {"script"}, {"course"}), Plan("script_search", {}, {"course"}),
  [Plan("journey_search", {}, {"course"}) EXCEPT !.fields = {{"late"}}],
  Plan("general_sales_qa", {"script"}, {"case"}),
  Plan("strategy_search", {"script", "knowledge_entry"}, Both),
  [Plan("out_of_scope", {}, Both) EXCEPT !.retrieve = FALSE]}
MCDirectFilters == {[types |-> {}, fields |-> {}], [types |-> {}, fields |-> {{"early"}, {"one", "two"}}]}

\* Answer: chunks that share a citation, and one without.
MCSearchResults == {<<>>, <<"d">>, <<"d", "e">>, <<"e", "d">>, <<"d", "f">>}
MCCitesOf == [c \in {"d", "e", "f"} |->
  IF c = "d" THEN <<"q1", "q2">> ELSE IF c = "e" THEN <<"q2", "q3">> ELSE <<>>]
================================================================================
