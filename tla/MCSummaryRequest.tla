-------------------------- MODULE MCSummaryRequest --------------------------
(***************************************************************************)
(* Every bounded history and configuration a summary request may be built  *)
(* from, and what docs/configuration.md promises of the request.           *)
(***************************************************************************)
EXTENDS SummaryRequest

CONSTANTS
  MaxContent,  \* parts in a content array
  MaxInput     \* items in the cleaned input

ASSUME RequestBounds == MaxContent \in Nat /\ MaxInput \in Nat

VARIABLES
  fields,     \* the members of the client's request
  items,      \* the cleaned input
  settings,   \* what the configuration says of summary requests
  request     \* the request built, verdict "pending" before

requestVars == <<fields, items, settings, request>>

-----------------------------------------------------------------------------
(* The inputs *)

Part(type, text, image, detail) ==
  [loose |-> FALSE, type |-> type, text |-> text, image |-> image, detail |-> detail]

SaidPart  == Part("input_text", "said", "absent", "absent")
LoosePart == [SaidPart EXCEPT !.loose = TRUE]

Pictures ==
  [loose : {FALSE}, type : {"input_image"}, text : {""},
   image : {"absent", "string", "plain", "low"}, detail : {"absent", "high"}]

Item(parts, output) == [loose |-> FALSE, parts |-> parts, output |-> output]

Contents == BoundedSeq({SaidPart, LoosePart, Part("other", "said", "string", "low")} \cup Pictures, MaxContent)

InputItems ==
  {Item(parts, <<>>) : parts \in Contents}
    \cup {Item(<<>>, <<Part("input_image", "", "string", "absent")>>)}
    \cup {[Item(<<>>, <<>>) EXCEPT !.loose = TRUE]}

\* A prompt that is not set is the empty one defaultConfig leaves.
Prompts ==
  {[set |-> FALSE, prompt |-> <<>>]}
    \cup {[set |-> TRUE, prompt |-> p] :
            p \in {<<>>, <<"space", "newline">>, <<"custom">>, <<"custom", "newline">>}}

Settings ==
  {[promptSet |-> p.set, prompt |-> p.prompt, guard |-> g, tier |-> t, tokens |-> n, allowed |-> a] :
     p \in Prompts, g \in BOOLEAN, t \in BOOLEAN, n \in {0, 1}, a \in BOOLEAN}

DefaultSettings ==
  {s \in Settings : ~s.promptSet /\ s.guard /\ ~s.tier /\ s.tokens = 0}

ClientFields == {"instructions", "reasoning", "service_tier", "tools", "stream",
                 "max_output_tokens", "tool_choice"}

\* All histories under two configurations, and all configurations for two.
RequestInit ==
  /\ \/ /\ items \in BoundedSeq(InputItems, MaxInput)
        /\ settings \in DefaultSettings
        /\ fields = ClientFields
     \/ /\ items \in {<<>>, <<Item(<<SaidPart>>, <<>>)>>}
        /\ settings \in Settings
        /\ fields \in SUBSET ClientFields
  /\ request = [verdict |-> "pending"]

buildRequest ==
  /\ request.verdict = "pending"
  /\ request' = buildSummaryRequestBody(fields, items, settings)
  /\ UNCHANGED <<fields, items, settings>>

RequestSpec == RequestInit /\ [][buildRequest]_requestVars

-----------------------------------------------------------------------------
(* Properties *)

built == request.verdict = "ok"

\* Unless the summary model may see images, none goes out in a content array: no
\* part is an image any more, and what stands in its place brings no image_url,
\* whichever of its forms it had and whatever else the item holds.
ImagesStayBehind ==
  built /\ ~settings.allowed =>
    \A i \in DOMAIN request.items :
      LET was == items[i].parts
          is  == request.items[i].parts
      IN \A j \in DOMAIN is : ~isImage(is[j]) /\ (isImage(was[j]) => is[j].image = "absent")

\* A picture loses its image and nothing else, the detail of its image_url
\* included, and no other part or item changes, moves or is lost: the model is
\* asked about the whole history, in order.
NothingElseChanges ==
  built =>
    /\ DOMAIN request.items = DOMAIN items
    /\ \A i \in DOMAIN items :
         LET was == items[i].parts
             is  == request.items[i].parts
         IN /\ request.items[i] = [items[i] EXCEPT !.parts = is]
            /\ DOMAIN is = DOMAIN was
            /\ \A j \in DOMAIN was :
                 \/ is[j] = was[j]
                 \/ /\ isImage(was[j]) /\ ~settings.allowed
                    /\ is[j].text = "[image removed]"
                    /\ was[j].detail # "absent" => is[j].detail = was[j].detail
                    /\ was[j].detail = "absent" /\ was[j].image = "low" => is[j].detail = "low"

\* The input ends with one instruction to summarize, the administrator's or else
\* the built-in one, guarded on a line of its own if it is to be; only a prompt
\* set blank on purpose leaves the history without any.
InstructionEndsInput ==
  built =>
    IF settings.promptSet /\ isBlank(settings.prompt) THEN request.asked = <<>>
    ELSE /\ Len(request.asked) = 1
         /\ LET content == request.asked[1].content
                prompt  == IF settings.promptSet THEN settings.prompt ELSE codexLocalCompactPrompt
            IN /\ IsPrefix(prompt, content)
               /\ "guard" \in {content[i] : i \in DOMAIN content} <=> settings.guard
               /\ \A i \in DOMAIN content :
                    content[i] = "guard" => i = Len(content) /\ content[i - 1] = "newline"

\* A summary request cannot stream, call a tool or be steered by the client's
\* controls: of its members only instructions, reasoning and, where the route is
\* to keep it, service_tier are the client's, and these are never dropped.
ClientControlsStay ==
  built =>
    /\ {f \in DOMAIN request.fields : request.fields[f] = "client"}
         = fields \cap ({"instructions", "reasoning"}
                          \cup (IF settings.tier THEN {"service_tier"} ELSE {}))
    /\ {"model", "input", "tools", "parallel_tool_calls", "stream"} \subseteq DOMAIN request.fields
    /\ "max_output_tokens" \in DOMAIN request.fields <=> settings.tokens > 0

-----------------------------------------------------------------------------
(* A claim of the documents that the code does not keep *)

\* "every input_image content part ... is replaced with [image removed]", those
\* of a tool's output included.
NoImageAnywhere ==
  built /\ ~settings.allowed =>
    \A i \in DOMAIN request.items :
      \A j \in DOMAIN request.items[i].output : ~isImage(request.items[i].output[j])
=============================================================================
