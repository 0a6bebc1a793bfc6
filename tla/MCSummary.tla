----------------------------- MODULE MCSummary -----------------------------
(***************************************************************************)
(* Every bounded reply of a Summary Model, and what is to be made of it    *)
(* (docs/compact-protocol.md, "Failure contract"), defined apart from the  *)
(* order in which the code looks at a reply.                               *)
(***************************************************************************)
EXTENDS SummaryResponse

CONSTANTS
  MaxParts,   \* content parts in an output item
  MaxItems    \* output items in a reply

ASSUME SummaryBounds == MaxParts \in Nat /\ MaxItems \in Nat

VARIABLES
  reply,      \* the body of the model's reply
  limit,      \* max_summary_bytes
  result      \* what generateSummary makes of it, "pending" before

vars == <<reply, limit, result>>

-----------------------------------------------------------------------------
(* The replies *)

Word  == <<"word">>
Space == <<"space">>
Texts == {<<>>, Word, Space, <<"space", "word", "word", "space">>}

ReplyPart(type, text) == [type |-> type, text |-> text]

ReplyParts == {ReplyPart("text", t) : t \in {Word, Space}} \cup {ReplyPart("tool", <<>>), ReplyPart("other", Word)}

OutputItem(type, role, parts) == [type |-> type, role |-> role, parts |-> parts]

OutputItems ==
  {OutputItem("message", "assistant", p) : p \in BoundedSeq(ReplyParts, MaxParts)}
    \cup {OutputItem("message", "user", <<ReplyPart("text", Word)>>)}
    \cup {OutputItem(t, "none", <<>>) : t \in OutputTypes \ {"message"}}

RawMembers == {"absent", "null", "empty", "value"}

ChatChoices == [finish : FinishReasons, toolCalls : RawMembers, content : Texts]

Member(kind) == [kind |-> kind, items |-> <<>>]
Array(items) == [kind |-> "array", items |-> items]

Reply(output, choices, status, details) ==
  [json |-> TRUE, output |-> output, choices |-> choices, status |-> status, details |-> details]

ResponsesReplies ==
  {Reply(Array(o), Member("absent"), s, d) :
     o \in BoundedSeq(OutputItems, MaxItems), s \in Statuses, d \in RawMembers}

ChatReplies ==
  {Reply(Member("absent"), Array(c), "absent", "absent") :
     c \in BoundedSeq(ChatChoices, 1) \cup
           (ChatChoices \X {[finish |-> "stop", toolCalls |-> "value", content |-> Word],
                             [finish |-> "stop", toolCalls |-> "absent", content |-> Space]})}

\* Members in every shape and every combination, and a body that is no JSON.
OddReplies ==
  {Reply(o, c, s, "absent") :
     o \in {Member(k) : k \in MemberKinds}, c \in {Member(k) : k \in MemberKinds}, s \in Statuses}
    \cup {[Reply(Member("absent"), Member("absent"), "absent", "absent") EXCEPT !.json = FALSE]}

Init ==
  /\ reply \in ResponsesReplies \cup ChatReplies \cup OddReplies
  /\ limit \in {1, 2}
  /\ result = fail("pending")

generateSummary ==
  /\ result.verdict = "pending"
  /\ result' = summaryOf(reply, limit)
  /\ UNCHANGED <<reply, limit>>

Spec == Init /\ [][generateSummary]_vars

-----------------------------------------------------------------------------
(* What a reply is *)

outputs == IF reply.json /\ reply.output.kind = "array" THEN reply.output.items ELSE <<>>
choices == IF reply.json /\ reply.choices.kind = "array" THEN reply.choices.items ELSE <<>>

HasToolPart(item) == \E i \in DOMAIN item.parts : item.parts[i].type = "tool"

OutputHas(Test(_)) == \E i \in DOMAIN outputs : Test(outputs[i])

ToolItem(item)        == item.type = "tool" \/ HasToolPart(item)
UnsupportedItem(item) == item.type = "unsupported"

FirstChoiceHas(Test(_)) == choices # <<>> /\ Test(choices[1])

\* A Responses reply that ended well and called nothing.
FinishedResponses ==
  /\ reply.json /\ ~has(reply.choices) /\ reply.output.kind = "array"
  /\ reply.status = "completed" /\ reply.details # "value"
  /\ ~OutputHas(ToolItem) /\ ~OutputHas(UnsupportedItem)

\* A Chat Completions reply that ended well and called nothing.
FinishedChat ==
  /\ reply.json /\ ~has(reply.output)
  /\ FirstChoiceHas(LAMBDA c : c.finish = "stop" /\ c.toolCalls # "value")

\* Everything the assistant said, in order.
Said ==
  IF choices # <<>> THEN choices[1].content
  ELSE FlattenSeq([i \in DOMAIN outputs |->
         IF isAssistantMessage(outputs[i])
         THEN FlattenSeq([j \in DOMAIN outputs[i].parts |->
                IF outputs[i].parts[j].type = "text" THEN outputs[i].parts[j].text ELSE <<>>])
         ELSE <<>>])

Spaces(text) == \A i \in DOMAIN text : text[i] = "space"

ReasonHolds(reason) ==
  CASE reason = "tool_call" ->
         \/ OutputHas(ToolItem)
         \/ FirstChoiceHas(LAMBDA c : c.finish = "tool_calls" \/ c.toolCalls = "value")
    [] reason = "unsupported_item" -> OutputHas(UnsupportedItem)
    [] reason = "incomplete" ->
         \/ reply.status = "incomplete" \/ reply.details = "value"
         \/ FirstChoiceHas(LAMBDA c : c.finish = "content_filter")
    [] reason = "failed" -> reply.status = "failed"
    [] reason = "truncated" -> FirstChoiceHas(LAMBDA c : c.finish = "truncated")
    [] reason = "missing_status" ->
         choices = <<>> \/ FirstChoiceHas(LAMBDA c : c.finish = "absent")
    [] reason = "invalid_status" ->
         \/ reply.status \in {"absent", "unreadable", "other"} /\ ~has(reply.choices)
         \/ FirstChoiceHas(LAMBDA c : c.finish = "other")
    [] reason = "multiple_shapes" -> has(reply.output) /\ has(reply.choices)
    [] reason = "unknown_shape" ->
         ~isJSONArray(reply.output) /\ ~isJSONArray(reply.choices)
    [] reason = "oversized" -> Len(TrimSpace(Said)) > limit
    [] reason = "no_usable_text" -> Spaces(Said)

-----------------------------------------------------------------------------
(* Properties *)

\* "A compaction must never persist partial or tool-call output as session
\* state": a reply is stored exactly when it has one shape, ended well, called no
\* tool, holds nothing unknown, and says a word that fits (extractAssistantText).
AcceptsExactlyFinished ==
  result.verdict # "pending" =>
    (result.verdict = "ok" <=>
       /\ FinishedResponses \/ FinishedChat
       /\ ~Spaces(Said)
       /\ Len(TrimSpace(Said)) <= limit)

\* A stored summary is all the assistant said, over every part of every message
\* and in order, but for the space around it.
SummaryIsAllThatWasSaid ==
  result.verdict = "ok" =>
    \E from \in DOMAIN Said : \E to \in from..Len(Said) :
      /\ result.text = SubSeq(Said, from, to)
      /\ Said[from] = "word" /\ Said[to] = "word"
      /\ Spaces(SubSeq(Said, 1, from - 1)) /\ Spaces(SubSeq(Said, to + 1, Len(Said)))

\* The reason given to the client is true of the reply, whichever of its several
\* faults the code meets first.
ReasonIsTrue ==
  result.verdict \notin {"pending", "ok"} => ReasonHolds(result.verdict)
=============================================================================
