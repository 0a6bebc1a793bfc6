-------------------------- MODULE SummaryResponse --------------------------
(***************************************************************************)
(* What the executor makes of a Summary Model's reply (plugin/payload.go,  *)
(* extractSummaryText): the text to store as a compaction item, or the     *)
(* sanitized reason why there is none.  CompactBridge sees the result only *)
(* as usable text or not (its Replies and usableSummary).                  *)
(*                                                                         *)
(* Abstractions: a reply keeps the members the code reads.  A text is a    *)
(* sequence of marks, "word" or "space", since the code concatenates,      *)
(* trims and measures texts and never looks inside one.  A type or a       *)
(* reason the code treats alike has one name.                              *)
(***************************************************************************)
EXTENDS Naturals, SequencesExt

Marks == {"word", "space"}

\* "text" is output_text or text; "tool" one of the four call types.
PartTypes == {"text", "tool", "other"}

\* "tool" is one of the nine call types, "unsupported" any type the code does
\* not name.
OutputTypes == {"message", "reasoning", "tool", "unsupported"}

Statuses == {"absent", "unreadable", "completed", "incomplete", "failed", "other"}

FinishReasons == {"absent", "stop", "truncated", "tool_calls", "content_filter", "other"}

\* Members "output" and "choices": absent, no array, an array whose entries do
\* not decode, or an array.
MemberKinds == {"absent", "scalar", "illtyped", "array"}

has(member) == member.kind # "absent"

isJSONArray(member) == member.kind \in {"illtyped", "array"}

Bug_hasJSONValue(raw) == raw \notin {"absent", "null"}

\* A raw member counts as a value unless absent, null or an array written [].
hasJSONValue(raw) == raw \notin {"absent", "null", "empty"}

fail(reason) == [verdict |-> reason, text |-> <<>>]

accept(text) == [verdict |-> "ok", text |-> text]

TrimSpace(text) ==
  LET words == {i \in DOMAIN text : text[i] = "word"}
  IN IF words = {} THEN <<>> ELSE SubSeq(text, Min(words), Max(words))

-----------------------------------------------------------------------------
(* The Responses shape *)

responseStatus(reply) ==
  IF reply.status \in {"completed", "incomplete", "failed"}
  THEN reply.status ELSE "invalid_status"

itemFailure(item) ==
  CASE item.type = "tool"        -> "tool_call"
    [] item.type = "unsupported" -> "unsupported_item"
    [] OTHER -> IF \E i \in DOMAIN item.parts : item.parts[i].type = "tool"
                THEN "tool_call" ELSE "none"

\* The first item at fault decides.
responseOutputItemFailure(output) ==
  LET faulty == {i \in DOMAIN output : itemFailure(output[i]) # "none"}
  IN IF faulty = {} THEN "none" ELSE itemFailure(output[Min(faulty)])

isAssistantMessage(item) == item.type = "message" /\ item.role = "assistant"

Bug_assistantText(output) ==
  LET said == SelectSeq(output, isAssistantMessage)
  IN IF said = <<>> \/ said[1].parts = <<>> THEN <<>> ELSE said[1].parts[1].text

itemText(item) ==
  LET text[j \in 0..Len(item.parts)] ==
        IF j = 0 THEN <<>>
        ELSE IF item.parts[j].type = "text" THEN text[j - 1] \o item.parts[j].text
        ELSE text[j - 1]
  IN text[Len(item.parts)]

\* One text out of every text part of every assistant message.
assistantText(output) ==
  LET text[i \in 0..Len(output)] ==
        IF i = 0 THEN <<>>
        ELSE IF isAssistantMessage(output[i]) THEN text[i - 1] \o itemText(output[i])
        ELSE text[i - 1]
  IN text[Len(output)]

Bug_extractResponsesAssistantText(reply) ==
  LET text == assistantText(reply.output.items)
  IN CASE reply.output.kind = "illtyped" -> fail("undecodable")
       [] responseStatus(reply) = "invalid_status" -> fail("invalid_status")
       [] responseOutputItemFailure(reply.output.items) # "none" ->
            fail(responseOutputItemFailure(reply.output.items))
       [] text # <<>> -> accept(text)
       [] OTHER -> fail("no_usable_text")

\* The order of the cases is the order of the code's returns.
extractResponsesAssistantText(reply) ==
  LET status  == responseStatus(reply)
      failure == responseOutputItemFailure(reply.output.items)
      text    == assistantText(reply.output.items)
  IN IF reply.output.kind = "illtyped"       THEN fail("undecodable")
     ELSE IF status = "invalid_status"       THEN fail("invalid_status")
     ELSE IF failure # "none"                THEN fail(failure)
     ELSE IF status = "failed"               THEN fail("failed")
     ELSE IF status = "incomplete"           THEN fail("incomplete")
     ELSE IF hasJSONValue(reply.details)     THEN fail("incomplete")
     ELSE IF text = <<>>                     THEN fail("no_usable_text")
     ELSE accept(text)

-----------------------------------------------------------------------------
(* The Chat Completions shape: only the first choice counts.  Content that is
   no string is an empty one. *)

finishFailure(finish) ==
  CASE finish = "stop"           -> "none"
    [] finish = "truncated"      -> "truncated"
    [] finish = "tool_calls"     -> "tool_call"
    [] finish = "content_filter" -> "incomplete"
    [] finish = "absent"         -> "missing_status"
    [] finish = "other"          -> "invalid_status"

extractChatAssistantText(reply) ==
  LET choice == reply.choices.items[1]
  IN IF reply.choices.kind = "illtyped"             THEN fail("undecodable")
     ELSE IF reply.choices.items = <<>>             THEN fail("missing_status")
     ELSE IF finishFailure(choice.finish) # "none"  THEN fail(finishFailure(choice.finish))
     ELSE IF hasJSONValue(choice.toolCalls)         THEN fail("tool_call")
     ELSE IF choice.content = <<>>                  THEN fail("no_usable_text")
     ELSE accept(choice.content)

-----------------------------------------------------------------------------
(* The summary *)

\* A body that is no JSON object has no members.
extractAssistantText(reply) ==
  IF ~reply.json                                THEN fail("undecodable")
  ELSE IF has(reply.output) /\ has(reply.choices) THEN fail("multiple_shapes")
  ELSE IF has(reply.output)
       THEN IF isJSONArray(reply.output)
            THEN extractResponsesAssistantText(reply) ELSE fail("unknown_shape")
  ELSE IF has(reply.choices)
       THEN IF isJSONArray(reply.choices)
            THEN extractChatAssistantText(reply) ELSE fail("unknown_shape")
  ELSE IF reply.status # "absent" THEN extractResponsesAssistantText(reply)
  ELSE fail("unknown_shape")

\* Only a pluginErr keeps its message.
extractSummaryText(reply) ==
  LET result == extractAssistantText(reply)
  IN IF result.verdict = "undecodable" THEN fail("no_usable_text")
     ELSE IF result.verdict # "ok" THEN result
     ELSE IF TrimSpace(result.text) = <<>> THEN fail("no_usable_text")
     ELSE accept(TrimSpace(result.text))

\* generateSummary's end: a summary is measured after it has been trimmed.
summaryOf(reply, maxSummaryBytes) ==
  LET result == extractSummaryText(reply)
  IN IF result.verdict = "ok" /\ Len(result.text) > maxSummaryBytes
     THEN fail("oversized") ELSE result
=============================================================================
