----------------------------- MODULE AnswerRequest -----------------------------
(***************************************************************************)
(* src/xhbx_rag/answer.py, and of web/services.py and web/app.py the stream *)
(* of an answer: a thread has the model answer with the evidence of a       *)
(* search and puts what it says on a queue; the reader of the stream takes  *)
(* from it.  The connection to the model may break at any moment, and what  *)
(* the model says may be cut off or useless.                                *)
(***************************************************************************)
EXTENDS Naturals, Sequences, Ranks

CONSTANTS
  SearchResults,   \* what a search may give: sequences of chunks, each at most once
  CitesOf,         \* citations of each chunk, as keys (_citation_key)
  TransportTries,  \* retry_attempts
  MaxPieces,       \* bound on the pieces the model sends
  MaxChosen        \* bound on the citations it chooses

OutputAttempts == 3   \* MODEL_OUTPUT_ATTEMPTS

ASSUME AnswerAssumption ==
  /\ \A r \in SearchResults : r \in Seq(DOMAIN CitesOf) /\ \A i, j \in DOMAIN r : r[i] = r[j] => i = j
  /\ \A c \in DOMAIN CitesOf : Len(CitesOf[c]) \in Nat /\ DOMAIN CitesOf[c] = 1..Len(CitesOf[c])
  /\ TransportTries \in Nat \ {0} /\ MaxPieces \in Nat /\ MaxChosen \in Nat

VARIABLES
  evidence,    \* results of the search
  prompt,      \* the citations as the model is shown them, each with its number
  answerStep,
  output,      \* attempt at an output
  try,         \* attempt at a connection for it
  heard,       \* received_delta
  content,     \* content_parts: the text of this connection
  finish,      \* finish_reason
  thinking,    \* thinking_parts of all attempts
  pieces,
  queue,       \* events
  read,        \* how many of them the reader has taken
  reading,     \* the reader is still there
  sent,        \* what the stream has shown
  reply        \* what answer_from_search_result returns

answerVars == <<evidence, prompt, answerStep, output, try, heard, content, finish, thinking, pieces,
                queue, read, reading, sent, reply>>

AnswerInit ==
  /\ evidence \in SearchResults /\ prompt = {} /\ answerStep = "searched"
  /\ output = 1 /\ try = 1 /\ heard = FALSE /\ content = <<>> /\ finish = "none"
  /\ thinking = <<>> /\ pieces = 0
  /\ queue = <<>> /\ read = 0 /\ reading = TRUE /\ sent = <<>>
  /\ reply = [answer |-> <<>>, reasoning |-> <<>>, chosen |-> <<>>, citations |-> <<>>]

Told(event) == queue' = Append(queue, event)
\* The thread's last events: what came of it, and the end.
TellLast(event) == queue' = queue \o <<event, [type |-> "done"]>>
Prepared == <<evidence, prompt>>
Reader == <<read, reading, sent>>
Here == <<output, try>>

(***************************************************************************)
(* Citations                                                               *)
(***************************************************************************)
Cites(i) == CitesOf[evidence[i]]
\* Where a citation is: the piece of evidence and its place there.
CitePlaces == UNION {{<<i, j>> : j \in DOMAIN Cites(i)} : i \in DOMAIN evidence}
CiteOrder == {d \in CitePlaces \X CitePlaces : d[1][1] < d[2][1] \/ (d[1][1] = d[2][1] /\ d[1][2] < d[2][2])}
CitesBefore(i) == Cardinality({p \in CitePlaces : p[1] < i})

\* Mutant: the numbers start again with each piece of evidence.
NumberedAgain ==
  UNION {{[number |-> j, evidence |-> i, key |-> Cites(i)[j]] : j \in DOMAIN Cites(i)} : i \in DOMAIN evidence}

\* _evidence_text
Numbered ==
  UNION {{[number |-> CitesBefore(i) + j, evidence |-> i, key |-> Cites(i)[j]] : j \in DOMAIN Cites(i)} :
           i \in DOMAIN evidence}

\* _all_citations
AllCitations ==
  LET places == Ranked(CitePlaces, CiteOrder)
  IN [n \in DOMAIN places |->
        [evidence |-> places[n][1], key |-> Cites(places[n][1])[places[n][2]], number |-> 0]]

\* _selected_citations: each number once, those out of range left out.
SelectedCitations(numbers) ==
  LET chosen == Picked(numbers, {k \in DOMAIN numbers : /\ numbers[k] \in DOMAIN AllCitations
                                                      /\ \A h \in 1..(k - 1) : numbers[h] # numbers[k]})
  IN [k \in DOMAIN chosen |-> [AllCitations[chosen[k]] EXCEPT !.number = chosen[k]]]

\* _citations_with_evidence_fallback: the rest, by key; number 0 is selected FALSE.
WithFallback(chosen) ==
  chosen \o Picked(AllCitations, {n \in DOMAIN AllCitations :
              /\ \A k \in DOMAIN chosen : chosen[k].key # AllCitations[n].key
              /\ \A m \in 1..(n - 1) : AllCitations[m].key # AllCitations[n].key})

(***************************************************************************)
(* The thread                                                              *)
(***************************************************************************)
\* answer_from_search_result without evidence: a fixed sentence.
AnswerWithoutEvidence ==
  /\ answerStep = "searched" /\ evidence = <<>>
  /\ answerStep' = "ended"
  /\ reply' = [reply EXCEPT !.answer = <<"unconfirmed">>] /\ TellLast([type |-> "_result"])
  /\ UNCHANGED <<Prepared, output, try, heard, content, finish, thinking, pieces, Reader>>

BuildPrompt ==
  /\ answerStep = "searched" /\ evidence # <<>>
  /\ answerStep' = "connecting" /\ prompt' = Numbered
  /\ UNCHANGED <<evidence, output, try, heard, content, finish, thinking, pieces, queue, Reader, reply>>

Connect ==
  /\ answerStep = "connecting" /\ answerStep' = "streaming"
  /\ heard' = FALSE /\ content' = <<>> /\ finish' = "none"
  /\ UNCHANGED <<Prepared, output, try, thinking, pieces, queue, Reader, reply>>

Think ==
  /\ answerStep = "streaming" /\ pieces < MaxPieces
  /\ thinking' = Append(thinking, Here) /\ Told([type |-> "thinking_delta", text |-> Here])
  /\ heard' = TRUE /\ pieces' = pieces + 1
  /\ UNCHANGED <<Prepared, answerStep, output, try, content, finish, Reader, reply>>

Write ==
  /\ answerStep = "streaming" /\ pieces < MaxPieces
  /\ content' = Append(content, Here)
  /\ heard' = TRUE /\ pieces' = pieces + 1
  /\ UNCHANGED <<Prepared, answerStep, output, try, finish, thinking, queue, Reader, reply>>

FinishReason ==
  /\ answerStep = "streaming" /\ finish = "none"
  /\ finish' \in {"stop", "length"}
  /\ UNCHANGED <<Prepared, answerStep, output, try, heard, content, thinking, pieces, queue, Reader, reply>>

\* An error nothing handles, or after the last attempt.
GiveUp == answerStep' = "ended" /\ TellLast([type |-> "_exception"])

\* The output is asked for again, after a notice; after the third try the answer fails.
AskAgain ==
  IF output = OutputAttempts
    THEN GiveUp /\ UNCHANGED <<output, try, thinking>>
    ELSE /\ thinking' = Append(thinking, "notice")
         /\ Told([type |-> "thinking_delta", text |-> "notice"])
         /\ output' = output + 1 /\ try' = 1 /\ answerStep' = "connecting"

\* Mutant: one connection more than there are tries.
TransportBreaksOnceMore ==
  /\ answerStep \in {"connecting", "streaming"}
  /\ \/ answerStep = "streaming" /\ heard /\ AskAgain
     \/ /\ answerStep = "connecting" \/ ~ heard
        /\ try <= TransportTries /\ try' = try + 1 /\ answerStep' = "connecting"
        /\ UNCHANGED <<output, thinking, queue>>
  /\ UNCHANGED <<Prepared, heard, content, finish, pieces, Reader, reply>>

\* Mutant: whether anything was heard is forgotten.
TransportBreaksUnheard ==
  /\ answerStep \in {"connecting", "streaming"}
  /\ \/ try = TransportTries /\ GiveUp /\ UNCHANGED <<output, try, thinking>>
     \/ /\ try < TransportTries /\ try' = try + 1 /\ answerStep' = "connecting"
        /\ UNCHANGED <<output, thinking, queue>>
  /\ UNCHANGED <<Prepared, heard, content, finish, pieces, Reader, reply>>

\* Tried again only while nothing was heard; then what was heard is an invalid output.
TransportBreaks ==
  /\ answerStep \in {"connecting", "streaming"}
  /\ \/ answerStep = "streaming" /\ heard /\ AskAgain
     \/ /\ answerStep = "connecting" \/ ~ heard
        /\ \/ try = TransportTries /\ GiveUp /\ UNCHANGED <<output, try, thinking>>
           \/ /\ try < TransportTries /\ try' = try + 1 /\ answerStep' = "connecting"
              /\ UNCHANGED <<output, thinking, queue>>
  /\ UNCHANGED <<Prepared, heard, content, finish, pieces, Reader, reply>>

\* A status no retry helps with, an error of another kind: search errors end here too.
AnswerFails ==
  /\ answerStep \in {"searched", "connecting", "streaming"}
  /\ GiveUp
  /\ UNCHANGED <<Prepared, output, try, heard, content, finish, thinking, pieces, Reader, reply>>

\* A line that is no JSON, the end before [DONE], a finish_reason other than stop, or
\* content that is no valid answer.
OutputInvalid ==
  /\ answerStep = "streaming" /\ AskAgain
  /\ UNCHANGED <<Prepared, heard, content, finish, pieces, Reader, reply>>

\* [DONE], and content that is a valid answer with the citations it chose.
OutputValid ==
  /\ answerStep = "streaming" /\ finish \in {"none", "stop"} /\ content # <<>>
  /\ answerStep' = "ended"
  /\ \E n \in 0..MaxChosen : \E numbers \in [1..n -> 1..(Len(AllCitations) + 1)] :
       reply' = [answer |-> content, reasoning |-> thinking, chosen |-> numbers,
                 citations |-> WithFallback(SelectedCitations(numbers))]
  /\ TellLast([type |-> "_result"])
  /\ UNCHANGED <<Prepared, output, try, heard, content, finish, thinking, pieces, Reader>>

(***************************************************************************)
(* The reader                                                              *)
(***************************************************************************)
\* _answer_delta_chunks, and what _sse_answer_events writes of each event.
Rendered(event) ==
  CASE event.type = "_result" ->
         [i \in DOMAIN reply.answer |-> [type |-> "answer_delta", text |-> reply.answer[i]]]
           \o <<[type |-> "final"]>>
    [] event.type = "_exception" -> <<[type |-> "error"]>>
    [] event.type = "done" -> <<>>
    [] OTHER -> <<event>>

\* The generator of answer_question_stream_events, and _sse_answer_events.
TakeEvent ==
  /\ reading /\ read < Len(queue)
  /\ read' = read + 1 /\ sent' = sent \o Rendered(queue[read'])
  /\ reading' = (queue[read'].type # "done")
  /\ UNCHANGED <<Prepared, answerStep, output, try, heard, content, finish, thinking, pieces, queue, reply>>

\* The client goes away: the generator is closed, the thread goes on.
ReaderLeaves ==
  /\ reading /\ reading' = FALSE
  /\ UNCHANGED <<Prepared, answerStep, output, try, heard, content, finish, thinking, pieces, queue, read, sent, reply>>

--------------------------------------------------------------------------------
AnswerNext ==
  \/ AnswerWithoutEvidence \/ BuildPrompt \/ Connect \/ Think \/ Write \/ FinishReason
  \/ TransportBreaks \/ AnswerFails \/ OutputInvalid \/ OutputValid
  \/ TakeEvent \/ ReaderLeaves

AnswerSpec == AnswerInit /\ [][AnswerNext]_answerVars

--------------------------------------------------------------------------------
AnswerTypeOK ==
  /\ output \in 1..OutputAttempts /\ try \in 1..TransportTries /\ pieces \in 0..MaxPieces
  /\ answerStep \in {"searched", "connecting", "streaming", "ended"}
  /\ read \in 0..Len(queue) /\ reading \in BOOLEAN

\* The citations shown as the model's choice are those the prompt showed it under the
\* numbers it gave, each once and at the evidence that carries it, whatever else it
\* gave; and no citation of the evidence is lost beside them, or shown twice.
\* (_evidence_text, _all_citations, _selected_citations, _citations_with_evidence_fallback)
CitationsTrue ==
  answerStep = "ended" /\ reply.answer # <<>> =>
    LET listed == {reply.citations[k] : k \in DOMAIN reply.citations}
        keys == UNION {{Cites(i)[j] : j \in DOMAIN Cites(i)} : i \in DOMAIN evidence}
    IN /\ {c \in listed : c.number # 0}
            = {p \in prompt : \E k \in DOMAIN reply.chosen : reply.chosen[k] = p.number}
       /\ keys = {c.key : c \in listed}
       /\ \A k, l \in DOMAIN reply.citations : k # l =>
            /\ reply.citations[k] # reply.citations[l]
            /\ reply.citations[k].number = 0 => reply.citations[k].key # reply.citations[l].key

\* However often the connection breaks and the output is useless, a reader sees what the
\* model thinks as it comes, a notice between the thinking of two connections, and then
\* one error, or the text of one connection alone and the final reply, whose reasoning
\* and answer are what was shown; nothing after that, and no end before it.
\* (AnswerAgent.generate, _stream_chat_content, answer_question_stream_events)
StreamTruth ==
  LET Places(types) == {i \in DOMAIN sent : sent[i].type \in types}
      over == Places({"final", "error"})
      told == Len(reply.reasoning)
      written == Len(reply.answer)
  IN /\ \A i, j \in Places({"thinking_delta"}) :
          j = i + 1 => "notice" \in {sent[i].text, sent[j].text} \/ sent[i].text = sent[j].text
     /\ \A i \in over : i = Len(sent)
     /\ read > 0 /\ queue[read].type = "done" => over # {}
     /\ Places({"final"}) # {} =>
          /\ Len(sent) = told + written + 1
          /\ \A i \in 1..told : sent[i] = [type |-> "thinking_delta", text |-> reply.reasoning[i]]
          /\ \A i \in 1..written : sent[told + i] = [type |-> "answer_delta", text |-> reply.answer[i]]
          /\ \A i, j \in DOMAIN reply.answer : reply.answer[i] = reply.answer[j]
     /\ Places({"answer_delta"}) # {} => Places({"final"}) # {}
================================================================================
