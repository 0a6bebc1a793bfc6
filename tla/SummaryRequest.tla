--------------------------- MODULE SummaryRequest ---------------------------
(***************************************************************************)
(* The request a compact turn sends its Summary Model (plugin/main.go,     *)
(* buildSummaryRequestBody and stripSummaryInputImages): which members of  *)
(* the client's request survive, what stands in for an image, and the      *)
(* instruction that ends the input.  CompactBridge calls it after          *)
(* buildSummaryRequestInput and sees only whether it fails (stripsImages)  *)
(* and that the items go on (requestSummary).                              *)
(*                                                                         *)
(* Abstractions: the value of a request member is where it comes from,     *)
(* "client" or the bridge's own.  A prompt is a sequence of marks, since   *)
(* the code only trims it, looks at its last mark and adds to its end.  An *)
(* item keeps the members that may hold content parts.                     *)
(***************************************************************************)
EXTENDS Naturals, SequencesExt

-----------------------------------------------------------------------------
(* The instruction *)

\* "default" is codexLocalCompactPrompt but for its last newline, "custom" a text
\* of the configuration, "guard" compactGuard.
PromptMarks == {"default", "custom", "space", "newline", "guard"}

codexLocalCompactPrompt == <<"default", "newline">>

isBlank(prompt) == \A i \in DOMAIN prompt : prompt[i] \in {"space", "newline"}

Bug_compactPrompt(settings) ==
  IF ~isBlank(settings.prompt) THEN settings.prompt ELSE codexLocalCompactPrompt

\* A missing or null compact_prompt is the default; one that is set counts even
\* when it is blank.
compactPrompt(settings) ==
  IF settings.promptSet \/ ~isBlank(settings.prompt)
  THEN settings.prompt ELSE codexLocalCompactPrompt

\* The guard stands on a line of its own.
guarded(prompt) ==
  IF Last(prompt) = "newline" THEN Append(prompt, "guard")
  ELSE prompt \o <<"newline", "guard">>

instruction(settings) ==
  LET prompt == compactPrompt(settings)
  IN [role |-> "user", content |-> IF settings.guard THEN guarded(prompt) ELSE prompt]

\* A blank prompt asks nothing, and is not guarded.
instructions(settings) ==
  IF isBlank(compactPrompt(settings)) THEN <<>> ELSE <<instruction(settings)>>

-----------------------------------------------------------------------------
(* Images *)

\* loose: not a JSON object.  image and detail: "absent", or what image_url and
\* detail hold; "low" is an image_url object whose detail is low.
Parts ==
  [loose : BOOLEAN, type : {"input_image", "input_text", "other"}, text : {"", "said", "[image removed]"},
   image : {"absent", "string", "plain", "low"}, detail : {"absent", "low", "high"}]

\* parts: the entries of a content array; output: those of any other array.
SummaryItems == [loose : BOOLEAN, parts : Seq(Parts), output : Seq(Parts)]

isImage(part) == part.type = "input_image"

Bug_imageRemoved(part) ==
  [part EXCEPT !.type = "input_text", !.text = "[image removed]", !.image = "absent"]

\* The part keeps its other members; a detail inside image_url survives unless
\* the part has its own.
imageRemoved(part) ==
  [part EXCEPT !.type = "input_text", !.text = "[image removed]", !.image = "absent",
               !.detail = IF @ = "absent" /\ part.image = "low" THEN "low" ELSE @]

Bug_stripPart(part) ==
  IF isImage(part) /\ part.image = "string" THEN imageRemoved(part) ELSE part

stripPart(part) == IF isImage(part) THEN imageRemoved(part) ELSE part

\* Only a content array is looked into.
stripItem(item) == [item EXCEPT !.parts = [i \in DOMAIN @ |-> stripPart(@[i])]]

\* An entry that is no object, or a part of a content array that is none.
unreadable(item) ==
  item.loose \/ \E i \in DOMAIN item.parts : item.parts[i].loose

\* A summary model that may see images is sent the items unread.
stripSummaryInputImages(items, allowed) ==
  IF allowed THEN [ok |-> TRUE, items |-> items]
  ELSE IF \E i \in DOMAIN items : unreadable(items[i]) THEN [ok |-> FALSE, items |-> <<>>]
  ELSE [ok |-> TRUE, items |-> [i \in DOMAIN items |-> stripItem(items[i])]]

-----------------------------------------------------------------------------
(* The body *)

ownFields(settings) ==
  {"model", "input", "tools", "parallel_tool_calls", "stream"}
    \cup (IF settings.tokens > 0 THEN {"max_output_tokens"} ELSE {})

forwardedFields(settings) ==
  {"instructions", "reasoning"} \cup (IF settings.tier THEN {"service_tier"} ELSE {})

Bug_summaryFields(fields, settings) ==
  [f \in ownFields(settings) \cup fields |-> IF f \in ownFields(settings) THEN "own" ELSE "client"]

\* fields: the members of the client's request.
summaryFields(fields, settings) ==
  LET forwarded == fields \cap forwardedFields(settings)
  IN [f \in ownFields(settings) \cup forwarded |-> IF f \in forwarded THEN "client" ELSE "own"]

buildSummaryRequestBody(fields, items, settings) ==
  LET filtered == stripSummaryInputImages(items, settings.allowed)
  IN IF ~filtered.ok THEN [verdict |-> "failed"]
     ELSE [verdict |-> "ok",
           fields  |-> summaryFields(fields, settings),
           items   |-> filtered.items,
           asked   |-> instructions(settings)]
=============================================================================
