---------------------------- MODULE SummaryProofs ----------------------------
(***************************************************************************)
(* What a summary request keeps of a history, and what is made of a reply, *)
(* for histories, prompts and replies of any length.                       *)
(***************************************************************************)
EXTENDS MCSummary, MCSummaryRequest, FiniteSetTheorems, WellFoundedInduction, SequenceTheorems, TLAPS

-----------------------------------------------------------------------------
(* Any request *)

\* What an administrator may write, and whether anything is set.
AnyPrompt == Seq({"custom", "space", "newline"})

AllSettings ==
  {s \in [promptSet : BOOLEAN, prompt : AnyPrompt, guard : BOOLEAN, tier : BOOLEAN,
          tokens : Nat, allowed : BOOLEAN] : ~s.promptSet => s.prompt = <<>>}

\* The client's request may have any members.
AnyRequestInit ==
  /\ items \in Seq(SummaryItems)
  /\ settings \in AllSettings
  /\ request = [verdict |-> "pending"]

\* The requests of the run without its bounds.
AnyRequestSpec == AnyRequestInit /\ [][buildRequest]_requestVars

RequestInv ==
  /\ items \in Seq(SummaryItems)
  /\ settings \in AllSettings
  /\ \/ request = [verdict |-> "pending"]
     \/ request = buildSummaryRequestBody(fields, items, settings)

\* The request is either still to be built or what the code builds.
LEMMA RequestInductive == AnyRequestSpec => []RequestInv
<1>1. AnyRequestInit => RequestInv
  BY DEF AnyRequestInit, RequestInv
<1>2. RequestInv /\ [buildRequest]_requestVars => RequestInv'
  <2> SUFFICES ASSUME RequestInv, [buildRequest]_requestVars PROVE RequestInv'
    OBVIOUS
  <2>1. CASE buildRequest
    BY <2>1 DEF RequestInv, buildRequest
  <2>2. CASE UNCHANGED requestVars
    BY <2>2 DEF RequestInv, requestVars
  <2> QED BY <2>1, <2>2
<1> QED BY <1>1, <1>2, PTL DEF AnyRequestSpec

\* A sequence of bounded length is a sequence.
LEMMA BoundedIsSeq ==
  ASSUME NEW S, NEW T, S \subseteq T, NEW n \in Nat
  PROVE  BoundedSeq(S, n) \subseteq Seq(T)
BY DEF BoundedSeq, SeqOf

\* The run's requests are among these.
THEOREM RunRequests == RequestSpec => AnyRequestSpec
<1> DEFINE types  == {"input_image", "input_text", "other"}
           images == {"absent", "string", "plain", "low"}
           details == {"absent", "low", "high"}
<1>0. \A type \in types, text \in {"", "said"}, image \in images, detail \in details :
        Part(type, text, image, detail) \in Parts
  BY DEF Part, Parts
<1>1. /\ SaidPart \in Parts /\ Part("other", "said", "string", "low") \in Parts
      /\ Part("input_image", "", "string", "absent") \in Parts
  BY <1>0 DEF SaidPart
<1>1a. LoosePart \in Parts
  BY <1>1 DEF LoosePart, Parts
<1>1b. Pictures \subseteq Parts
  BY DEF Pictures, Parts
<1> HIDE DEF types, images, details
<1>2. Contents \subseteq Seq(Parts)
  BY <1>1, <1>1a, <1>1b, BoundedIsSeq, RequestBounds DEF Contents
<1>3. \A p, o \in Seq(Parts) : Item(p, o) \in SummaryItems
  BY DEF Item, SummaryItems
<1>4. <<>> \in Seq(Parts) /\ <<SaidPart>> \in Seq(Parts)
      /\ <<Part("input_image", "", "string", "absent")>> \in Seq(Parts)
  <2>1. \A S : <<>> \in Seq(S) /\ \A x \in S : <<x>> \in Seq(S)
    OBVIOUS
  <2> QED BY <1>1, <2>1
<1>5. [Item(<<>>, <<>>) EXCEPT !.loose = TRUE] \in SummaryItems
  BY <1>4 DEF Item, SummaryItems
<1>6. InputItems \subseteq SummaryItems
  BY <1>2, <1>3, <1>4, <1>5 DEF InputItems
<1>7. BoundedSeq(InputItems, MaxInput) \subseteq Seq(SummaryItems)
  BY <1>6, BoundedIsSeq, RequestBounds
<1>8. <<>> \in Seq(SummaryItems) /\ <<Item(<<SaidPart>>, <<>>)>> \in Seq(SummaryItems)
  <2>1. \A S : <<>> \in Seq(S) /\ \A x \in S : <<x>> \in Seq(S)
    OBVIOUS
  <2>2. Item(<<SaidPart>>, <<>>) \in SummaryItems
    BY <1>3, <1>4
  <2> QED BY <2>1, <2>2
<1>9. Settings \subseteq AllSettings
  <2>1. \A p \in Prompts : /\ p.set \in BOOLEAN /\ p.prompt \in AnyPrompt
                           /\ ~p.set => p.prompt = <<>>
    <3>1. \A p \in {<<>>, <<"space", "newline">>, <<"custom">>, <<"custom", "newline">>} : p \in AnyPrompt
      <4>1. /\ <<>> \in AnyPrompt /\ <<"space", "newline">> \in AnyPrompt
            /\ <<"custom">> \in AnyPrompt /\ <<"custom", "newline">> \in AnyPrompt
        BY DEF AnyPrompt
      <4> QED BY <4>1
    <3>2. Prompts = {[set |-> FALSE, prompt |-> <<>>]} \cup
                    {[set |-> TRUE, prompt |-> p] :
                       p \in {<<>>, <<"space", "newline">>, <<"custom">>, <<"custom", "newline">>}}
      BY DEF Prompts
    <3>3. ASSUME NEW p \in Prompts, p # [set |-> FALSE, prompt |-> <<>>]
          PROVE  p.set = TRUE /\ p.prompt \in AnyPrompt
      BY <3>1, <3>2, <3>3
    <3>4. <<>> \in AnyPrompt
      BY <3>1
    <3> SUFFICES ASSUME NEW p \in Prompts
                 PROVE  p.set \in BOOLEAN /\ p.prompt \in AnyPrompt /\ (~p.set => p.prompt = <<>>)
      OBVIOUS
    <3>5. CASE p = [set |-> FALSE, prompt |-> <<>>]
      BY <3>4, <3>5
    <3>6. CASE p # [set |-> FALSE, prompt |-> <<>>]
      BY <3>3, <3>6
    <3> QED BY <3>5, <3>6
  <2> QED BY <2>1 DEF Settings, AllSettings
<1>10. RequestInit => AnyRequestInit
  BY <1>7, <1>8, <1>9 DEF RequestInit, AnyRequestInit, DefaultSettings
<1> QED BY <1>10, PTL DEF RequestSpec, AnyRequestSpec

\* A request that was built has these members.
LEMMA BuiltFacts ==
  ASSUME RequestInv, built
  PROVE  /\ request.fields = summaryFields(fields, settings)
         /\ request.asked = instructions(settings)
         /\ request.items = IF settings.allowed THEN items
                            ELSE [i \in DOMAIN items |-> stripItem(items[i])]
<1>1. request = buildSummaryRequestBody(fields, items, settings)
  BY DEF RequestInv, built
<1>2. stripSummaryInputImages(items, settings.allowed).ok
  BY <1>1 DEF built, buildSummaryRequestBody
<1> QED BY <1>1, <1>2 DEF buildSummaryRequestBody, stripSummaryInputImages

WithParts(item, parts) == [item EXCEPT !.parts = parts]

\* An item keeps its shape, and each of its content parts its place.
LEMMA StrippedItem ==
  ASSUME NEW item \in SummaryItems
  PROVE  /\ stripItem(item).parts = [j \in DOMAIN item.parts |-> stripPart(item.parts[j])]
         /\ stripItem(item) = WithParts(item, stripItem(item).parts)
         /\ item = WithParts(item, item.parts)
         /\ \A j \in DOMAIN item.parts : item.parts[j] \in Parts
<1>1. item.parts \in Seq(Parts)
  BY DEF SummaryItems
<1> QED BY <1>1 DEF stripItem, SummaryItems, WithParts

\* A part without an image is left alone; of one with an image the rest is kept.
LEMMA StrippedPart ==
  ASSUME NEW part \in Parts
  PROVE  LET is == stripPart(part)
         IN /\ ~isImage(is)
            /\ ~isImage(part) => is = part
            /\ isImage(part) =>
                 /\ is.image = "absent" /\ is.text = "[image removed]"
                 /\ part.detail # "absent" => is.detail = part.detail
                 /\ part.detail = "absent" /\ part.image = "low" => is.detail = "low"
BY DEF stripPart, isImage, imageRemoved, Parts

\* Unless the summary model may see images, no content part of any history goes
\* out as one or with an image in it.
THEOREM NoImageSent == AnyRequestSpec => []ImagesStayBehind
<1>1. RequestInv => ImagesStayBehind
  <2> SUFFICES ASSUME RequestInv, built, ~settings.allowed, NEW i \in DOMAIN request.items,
                      NEW j \in DOMAIN request.items[i].parts
               PROVE  /\ ~isImage(request.items[i].parts[j])
                      /\ isImage(items[i].parts[j]) => request.items[i].parts[j].image = "absent"
    BY DEF ImagesStayBehind
  <2>1. request.items = [k \in DOMAIN items |-> stripItem(items[k])]
    BY BuiltFacts
  <2>2. i \in DOMAIN items /\ items[i] \in SummaryItems
    BY <2>1 DEF RequestInv
  <2>3. request.items[i].parts = [k \in DOMAIN items[i].parts |-> stripPart(items[i].parts[k])]
    BY <2>1, <2>2, StrippedItem
  <2>4. j \in DOMAIN items[i].parts /\ items[i].parts[j] \in Parts
    BY <2>2, <2>3, StrippedItem
  <2>5. request.items[i].parts[j] = stripPart(items[i].parts[j])
    BY <2>3, <2>4
  <2> QED BY <2>4, <2>5, StrippedPart
<1> QED BY <1>1, RequestInductive, PTL

\* However long a history is, its summary request has every item and part of it in
\* its place, and changes only images, of which it keeps the detail.
THEOREM HistoryKept == AnyRequestSpec => []NothingElseChanges
<1>1. ASSUME RequestInv, built, settings.allowed
      PROVE  NothingElseChanges
  <2>1. request.items = items
    BY <1>1, BuiltFacts
  <2>2. \A i \in DOMAIN items : items[i] = WithParts(items[i], items[i].parts)
    <3>1. \A i \in DOMAIN items : items[i] \in SummaryItems
      BY <1>1 DEF RequestInv
    <3> QED BY <3>1, StrippedItem
  <2> QED BY <2>1, <2>2 DEF NothingElseChanges, WithParts
<1>2. ASSUME RequestInv, built, ~settings.allowed
      PROVE  NothingElseChanges
  <2>1. request.items = [k \in DOMAIN items |-> stripItem(items[k])]
    BY <1>2, BuiltFacts
  <2>2. \A i \in DOMAIN items : items[i] \in SummaryItems
    BY <1>2 DEF RequestInv
  <2> SUFFICES ASSUME NEW i \in DOMAIN items
               PROVE  LET was == items[i].parts
                          is  == request.items[i].parts
                      IN /\ request.items[i] = [items[i] EXCEPT !.parts = is]
                         /\ DOMAIN is = DOMAIN was
                         /\ \A j \in DOMAIN was :
                              \/ is[j] = was[j]
                              \/ /\ isImage(was[j]) /\ ~settings.allowed
                                 /\ is[j].text = "[image removed]"
                                 /\ was[j].detail # "absent" => is[j].detail = was[j].detail
                                 /\ was[j].detail = "absent" /\ was[j].image = "low" =>
                                      is[j].detail = "low"
    BY <2>1 DEF NothingElseChanges
  <2>3. /\ request.items[i] = stripItem(items[i]) /\ items[i] \in SummaryItems
        /\ \A j \in DOMAIN items[i].parts : items[i].parts[j] \in Parts
    BY <2>1, <2>2, StrippedItem
  <2>4. /\ request.items[i] = WithParts(items[i], request.items[i].parts)
        /\ request.items[i].parts = [k \in DOMAIN items[i].parts |-> stripPart(items[i].parts[k])]
    BY <2>3, StrippedItem
  <2>5. \A j \in DOMAIN items[i].parts :
          /\ request.items[i].parts[j] = stripPart(items[i].parts[j])
          /\ items[i].parts[j] \in Parts
    BY <2>3, <2>4
  <2>6. DOMAIN request.items[i].parts = DOMAIN items[i].parts
    BY <2>4
  <2>7. request.items[i] = [items[i] EXCEPT !.parts = request.items[i].parts]
    BY <2>4 DEF WithParts
  <2>8. ASSUME NEW j \in DOMAIN items[i].parts
        PROVE  LET was == items[i].parts[j]
                   is  == request.items[i].parts[j]
               IN \/ is = was
                  \/ /\ isImage(was) /\ ~settings.allowed
                     /\ is.text = "[image removed]"
                     /\ was.detail # "absent" => is.detail = was.detail
                     /\ was.detail = "absent" /\ was.image = "low" => is.detail = "low"
    <3>1. /\ items[i].parts[j] \in Parts
          /\ request.items[i].parts[j] = stripPart(items[i].parts[j])
      BY <2>5, <2>8
    <3>2. CASE isImage(items[i].parts[j])
      BY <1>2, <3>1, <3>2, StrippedPart
    <3>3. CASE ~isImage(items[i].parts[j])
      BY <3>1, <3>3, StrippedPart
    <3> QED BY <3>2, <3>3
  <2> QED BY <2>6, <2>7, <2>8
<1> QED
  BY <1>1, <1>2, RequestInductive, PTL DEF NothingElseChanges

\* The prompt the settings ask for.
AskedPrompt == IF settings.promptSet THEN settings.prompt ELSE codexLocalCompactPrompt

\* It is the one used, and holds no guard of its own.
LEMMA PromptFacts ==
  ASSUME RequestInv
  PROVE  /\ compactPrompt(settings) = AskedPrompt
         /\ AskedPrompt \in Seq(PromptMarks \ {"guard"})
         /\ ~settings.promptSet => ~isBlank(AskedPrompt)
<1>1. settings.prompt \in AnyPrompt /\ (~settings.promptSet => settings.prompt = <<>>)
  BY DEF RequestInv, AllSettings
<1>2. codexLocalCompactPrompt \in Seq(PromptMarks \ {"guard"}) /\ ~isBlank(codexLocalCompactPrompt)
  BY DEF codexLocalCompactPrompt, PromptMarks, isBlank
<1>3. AnyPrompt \subseteq Seq(PromptMarks \ {"guard"})
  BY DEF AnyPrompt, PromptMarks
<1>4. isBlank(<<>>)
  BY DEF isBlank
<1> QED BY <1>1, <1>2, <1>3, <1>4 DEF compactPrompt, AskedPrompt

\* A guard is added at the end of a prompt, after a newline, and changes nothing
\* before it.
LEMMA GuardedFacts ==
  ASSUME NEW prompt \in Seq(PromptMarks \ {"guard"}), ~isBlank(prompt)
  PROVE  LET content == guarded(prompt)
         IN /\ content \in Seq(PromptMarks)
            /\ Len(prompt) < Len(content)
            /\ \A i \in 1..Len(prompt) : content[i] = prompt[i]
            /\ content[Len(content)] = "guard" /\ content[Len(content) - 1] = "newline"
            /\ \A i \in 1..(Len(content) - 1) : content[i] # "guard"
<1>1. Len(prompt) \in Nat /\ Len(prompt) # 0
  BY DEF isBlank
<1>2. \A i \in 1..Len(prompt) : prompt[i] \in PromptMarks /\ prompt[i] # "guard"
  OBVIOUS
<1>3. CASE Last(prompt) = "newline"
  <2>1. guarded(prompt) = Append(prompt, "guard")
    BY <1>3 DEF guarded
  <2>2. Append(prompt, "guard") \in Seq(PromptMarks)
    BY DEF PromptMarks
  <2> QED BY <1>1, <1>2, <1>3, <2>1, <2>2 DEF Last
<1>4. CASE Last(prompt) # "newline"
  <2>1. guarded(prompt) = prompt \o <<"newline", "guard">>
    BY <1>4 DEF guarded
  <2>2. prompt \o <<"newline", "guard">> \in Seq(PromptMarks)
    BY DEF PromptMarks
  <2> QED BY <1>1, <1>2, <2>1, <2>2
<1> QED BY <1>3, <1>4

\* Whatever the settings, the input ends with one instruction, guarded on a line
\* of its own, and only a prompt set blank on purpose asks for none.
THEOREM EndsWithInstruction == AnyRequestSpec => []InstructionEndsInput
<1>1. RequestInv => InstructionEndsInput
  <2> SUFFICES ASSUME RequestInv, built PROVE InstructionEndsInput
    BY DEF InstructionEndsInput
  <2>1. request.asked = instructions(settings)
    BY BuiltFacts
  <2>2. CASE settings.promptSet /\ isBlank(settings.prompt)
    BY <2>1, <2>2, PromptFacts DEF InstructionEndsInput, instructions, AskedPrompt
  <2>3. CASE ~(settings.promptSet /\ isBlank(settings.prompt))
    <3> DEFINE content == request.asked[1].content
    <3>1. ~isBlank(AskedPrompt) /\ AskedPrompt \in Seq(PromptMarks \ {"guard"})
      BY <2>3, PromptFacts DEF AskedPrompt
    <3>2. request.asked = <<instruction(settings)>>
      BY <2>1, <3>1, PromptFacts DEF instructions
    <3>3. /\ Len(request.asked) = 1
          /\ content = IF settings.guard THEN guarded(AskedPrompt) ELSE AskedPrompt
      BY <3>2, PromptFacts DEF instruction
    <3> HIDE DEF content
    <3>4. Len(AskedPrompt) \in Nat /\ \A i \in 1..Len(AskedPrompt) : AskedPrompt[i] # "guard"
      BY <3>1
    <3>5. content \in Seq(PromptMarks) /\ settings.guard \in BOOLEAN
      BY <3>1, <3>3, GuardedFacts DEF RequestInv, AllSettings
    <3>6. IsPrefix(AskedPrompt, content)
      <4>1. Len(AskedPrompt) <= Len(content) /\ \A i \in 1..Len(AskedPrompt) : content[i] = AskedPrompt[i]
        BY <3>1, <3>3, <3>4, GuardedFacts
      <4>2. SubSeq(AskedPrompt, 1, Len(AskedPrompt)) = SubSeq(content, 1, Len(AskedPrompt))
        BY <3>1, <3>4, <3>5, <4>1
      <4> QED BY <4>1, <4>2 DEF IsPrefix
    <3>7. "guard" \in {content[i] : i \in DOMAIN content} <=> settings.guard
      <4>1. CASE settings.guard
        BY <3>1, <3>3, <3>5, <4>1, GuardedFacts
      <4>2. CASE ~settings.guard
        BY <3>1, <3>3, <3>4, <4>2
      <4> QED BY <4>1, <4>2
    <3>8. \A i \in DOMAIN content : content[i] = "guard" => i = Len(content) /\ content[i - 1] = "newline"
      <4>1. CASE settings.guard
        BY <3>1, <3>3, <3>5, <4>1, GuardedFacts
      <4>2. CASE ~settings.guard
        BY <3>1, <3>3, <3>4, <4>2
      <4> QED BY <4>1, <4>2
    <3> QED BY <2>3, <3>3, <3>6, <3>7, <3>8 DEF InstructionEndsInput, AskedPrompt, content
  <2> QED BY <2>2, <2>3
<1> QED BY <1>1, RequestInductive, PTL

\* Of any client's members only those a summary call may have go on, and the
\* bridge's own are always there.
THEOREM OwnControls == AnyRequestSpec => []ClientControlsStay
<1>1. RequestInv => ClientControlsStay
  <2> SUFFICES ASSUME RequestInv, built PROVE ClientControlsStay
    BY DEF ClientControlsStay
  <2>1. request.fields = summaryFields(fields, settings)
    BY BuiltFacts
  <2>2. settings.tokens \in Nat /\ settings.tier \in BOOLEAN
    BY DEF RequestInv, AllSettings
  <2>3. ownFields(settings) \cap forwardedFields(settings) = {}
    BY DEF ownFields, forwardedFields
  <2>4. {f \in DOMAIN request.fields : request.fields[f] = "client"} = fields \cap forwardedFields(settings)
    BY <2>1, <2>3 DEF summaryFields
  <2>5. DOMAIN request.fields = ownFields(settings) \cup (fields \cap forwardedFields(settings))
    BY <2>1 DEF summaryFields
  <2> QED BY <2>2, <2>4, <2>5 DEF ClientControlsStay, ownFields, forwardedFields
<1> QED BY <1>1, RequestInductive, PTL

-----------------------------------------------------------------------------
(* Induction, and what a loop that builds a text returns *)

\* Induction over the natural numbers, for a set instead of a predicate: a set
\* that misses one misses a least one.
LEMMA NatSetInduction ==
  ASSUME NEW T, 0 \in T, \A n \in Nat : n \in T => n + 1 \in T
  PROVE  Nat \subseteq T
<1> DEFINE Less == OpToRel(<, Nat)
           Bad == Nat \ T
<1>1. IsWellFoundedOn(Less, Nat)
  BY NatLessThanWellFounded
<1>2. \A x, y \in Nat : x < y => <<x, y>> \in Less
  BY DEF OpToRel
<1> HIDE DEF Less
<1>3. SUFFICES ASSUME Bad # {} PROVE FALSE
  OBVIOUS
<1>4. PICK n \in Bad : \A m \in Bad : <<m, n>> \notin Less
  <2>1. Bad \subseteq Nat
    OBVIOUS
  <2> HIDE DEF Bad
  <2> QED
    BY <1>1, <1>3, <2>1, WFMin
<1>5. n \in Nat /\ n # 0 /\ n \notin T
  OBVIOUS
<1>6. n - 1 \in Nat /\ n - 1 < n /\ n = (n - 1) + 1
  BY <1>5
<1>7. n - 1 \notin T
  BY <1>5, <1>6
<1>8. n - 1 \in Bad
  BY <1>6, <1>7
<1> QED BY <1>2, <1>4, <1>5, <1>6, <1>8

\* g is what a loop that writes the texts T has written after each turn.
Writes(g, T, n) ==
  /\ g[0] = <<>>
  /\ \A i \in 1..n : g[i] = g[i - 1] \o T[i]

\* A turn that has nothing to write may also be skipped.
Follows(g, T, n) ==
  /\ g[0] = <<>>
  /\ \A i \in 1..n : g[i] = g[i - 1] \o T[i] \/ (T[i] = <<>> /\ g[i] = g[i - 1])

Builds(g, T, n) == g \in [0..n -> Seq(Marks)] /\ Writes(g, T, n)

\* There is such a text for every number of turns.
LEMMA LoopExists ==
  ASSUME NEW n \in Nat, NEW T \in [1..n -> Seq(Marks)]
  PROVE  \E g : Builds(g, T, n)
<1> DEFINE P == {k \in Nat : k <= n => \E g : Builds(g, T, k)}
<1>1. 0 \in P
  <2>1. Builds([i \in 0..0 |-> <<>>], T, 0)
    BY DEF Builds, Writes
  <2> QED BY <2>1
<1>2. ASSUME NEW k \in Nat, k \in P PROVE k + 1 \in P
  <2> SUFFICES ASSUME k + 1 <= n PROVE \E g : Builds(g, T, k + 1)
    OBVIOUS
  <2>1. PICK g : Builds(g, T, k)
    BY <1>2
  <2> DEFINE h == [i \in 0..(k + 1) |-> IF i <= k THEN g[i] ELSE g[k] \o T[k + 1]]
  <2>2. g[k] \o T[k + 1] \in Seq(Marks)
    BY <2>1 DEF Builds, Writes
  <2>3. h \in [0..(k + 1) -> Seq(Marks)]
    BY <2>1, <2>2 DEF Builds, Writes
  <2>4. h[0] = <<>>
    BY <2>1 DEF Builds, Writes
  <2>5. ASSUME NEW i \in 1..(k + 1) PROVE h[i] = h[i - 1] \o T[i]
    <3>1. CASE i <= k
      <4>1. i \in 1..k /\ i - 1 \in 0..(k + 1) /\ i - 1 <= k /\ i \in 0..(k + 1)
        BY <3>1
      <4>2. h[i] = g[i] /\ h[i - 1] = g[i - 1]
        BY <4>1
      <4>3. g[i] = g[i - 1] \o T[i]
        BY <2>1, <4>1 DEF Builds, Writes
      <4> QED BY <4>2, <4>3
    <3>2. CASE i = k + 1
      <4>1. h[k + 1] = g[k] \o T[k + 1] /\ h[k] = g[k]
        <5>1. k \in 0..(k + 1) /\ k + 1 \in 0..(k + 1) /\ ~(k + 1 <= k) /\ k <= k
          OBVIOUS
        <5> QED BY <5>1
      <4>2. i - 1 = k
        BY <3>2
      <4>3. h[k + 1] = h[k] \o T[k + 1]
        BY <4>1
      <4> QED BY <3>2, <4>2, <4>3
    <3>3. i <= k \/ i = k + 1
      OBVIOUS
    <3> HIDE DEF h
    <3> QED BY <3>1, <3>2, <3>3
  <2> HIDE DEF h
  <2>6. Builds(h, T, k + 1)
    BY <2>3, <2>4, <2>5 DEF Builds, Writes
  <2> QED BY <2>6
<1> HIDE DEF P
<1>3. Nat \subseteq P
  BY <1>1, <1>2, NatSetInduction
<1>4. n \in P
  BY <1>3
<1> QED BY <1>4 DEF P

\* And only one.
LEMMA LoopUnique ==
  ASSUME NEW n \in Nat, NEW T, NEW g, Builds(g, T, n), NEW h, Follows(h, T, n)
  PROVE  \A i \in 0..n : h[i] = g[i]
<1> DEFINE P == {k \in Nat : k <= n => h[k] = g[k]}
<1>1. 0 \in P
  BY DEF Builds, Writes, Follows
<1>2. ASSUME NEW k \in Nat, k \in P PROVE k + 1 \in P
  <2> SUFFICES ASSUME k + 1 <= n PROVE h[k + 1] = g[k + 1]
    OBVIOUS
  <2>1. h[k] = g[k]
    BY <1>2
  <2>2. k + 1 \in 1..n /\ (k + 1) - 1 = k
    OBVIOUS
  <2>3. g[k + 1] = g[k] \o T[k + 1] /\ g[k] \o <<>> = g[k]
    <3>1. g[k + 1] = g[k] \o T[k + 1]
      BY <2>2 DEF Builds, Writes
    <3>2. g[k] \in Seq(Marks)
      BY DEF Builds
    <3> QED BY <3>1, <3>2
  <2>4. h[k + 1] = h[k] \o T[k + 1] \/ (T[k + 1] = <<>> /\ h[k + 1] = h[k])
    BY <2>2 DEF Follows
  <2> QED BY <2>1, <2>3, <2>4
<1> HIDE DEF P
<1>3. Nat \subseteq P
  BY <1>1, <1>2, NatSetInduction
<1> QED BY <1>3 DEF P

\* FlattenSeq is what such a loop returns.
LEMMA FlattenIsLoop ==
  ASSUME NEW n \in Nat, NEW T \in [1..n -> Seq(Marks)], NEW g, Builds(g, T, n)
  PROVE  FlattenSeq(T) = g[n]
<1>1. T \in Seq(Seq(Marks)) /\ Len(T) = n
  OBVIOUS
<1>2. CASE n = 0
  BY <1>1, <1>2 DEF FlattenSeq, Builds
<1>3. CASE n # 0
  <2> DEFINE Eq(f) == f = [i \in 1..n |-> IF i = 1 THEN T[i] ELSE f[i - 1] \o T[i]]
             f0 == [i \in 1..n |-> g[i]]
             f1 == CHOOSE f : Eq(f)
  <2>1. FlattenSeq(T) = f1[n]
    BY <1>1, <1>3 DEF FlattenSeq
  <2>2. Eq(f0)
    <3>1. ASSUME NEW i \in 1..n PROVE g[i] = IF i = 1 THEN T[i] ELSE f0[i - 1] \o T[i]
      <4>1. g[i] = g[i - 1] \o T[i] /\ T[i] \in Seq(Marks) /\ g[0] = <<>>
        BY DEF Builds, Writes
      <4>2. CASE i = 1
        <5>1. <<>> \o T[i] = T[i]
          BY <4>1
        <5>2. g[i - 1] = <<>>
          BY <4>1, <4>2
        <5> QED BY <4>1, <4>2, <5>1, <5>2
      <4>3. CASE i # 1
        <5>1. i - 1 \in 1..n
          BY <4>3
        <5>2. f0[i - 1] = g[i - 1]
          BY <5>1
        <5> HIDE DEF f0
        <5> QED BY <4>1, <4>3, <5>2
      <4> QED BY <4>2, <4>3
    <3> QED BY <3>1
  <2>3. Eq(f1)
    <3> HIDE DEF Eq, f0
    <3> QED BY <2>2
  <2> DEFINE h == [i \in 0..n |-> IF i = 0 THEN <<>> ELSE f1[i]]
  <2> HIDE DEF f1
  <2>4. Writes(h, T, n)
    <3>1. ASSUME NEW i \in 1..n PROVE h[i] = h[i - 1] \o T[i]
      <4>1. CASE i = 1
        <5>1. h[1] = T[1] /\ h[0] = <<>> /\ T[1] \in Seq(Marks)
          BY <1>3, <2>3
        <5>2. <<>> \o T[1] = T[1]
          BY <5>1
        <5>3. i - 1 = 0
          BY <4>1
        <5> HIDE DEF h
        <5> QED BY <4>1, <5>1, <5>2, <5>3
      <4>2. CASE i # 1
        <5>1. h[i] = f1[i] /\ h[i - 1] = f1[i - 1]
          BY <4>2
        <5>2. f1[i] = f1[i - 1] \o T[i]
          BY <2>3, <4>2
        <5> HIDE DEF h
        <5> QED BY <5>1, <5>2
      <4> QED BY <4>1, <4>2
    <3>2. h[0] = <<>>
      OBVIOUS
    <3> HIDE DEF h
    <3> QED BY <3>1, <3>2 DEF Writes
  <2>5. h[n] = g[n]
    <3> HIDE DEF h
    <3>1. Follows(h, T, n)
      BY <2>4 DEF Writes, Follows
    <3>2. \A i \in 0..n : h[i] = g[i]
      BY <3>1, LoopUnique
    <3> QED BY <3>2
  <2>6. h[n] = f1[n]
    BY <1>3
  <2> QED BY <2>1, <2>5, <2>6
<1> QED BY <1>2, <1>3

\* A loop that skips the turns with nothing to write returns the same.
LEMMA SkippingLoop ==
  ASSUME NEW n \in Nat, NEW T \in [1..n -> Seq(Marks)], NEW f, Follows(f, T, n)
  PROVE  f[n] \in Seq(Marks) /\ f[n] = FlattenSeq(T)
<1>1. PICK g : Builds(g, T, n)
  BY LoopExists
<1>2. \A i \in 0..n : f[i] = g[i]
  BY <1>1, LoopUnique
<1>3. f[n] = g[n] /\ g[n] \in Seq(Marks)
  BY <1>1, <1>2 DEF Builds
<1> QED BY <1>1, <1>3, FlattenIsLoop

\* And it has something to return.
LEMMA SkippingLoopExists ==
  ASSUME NEW n \in Nat, NEW T \in [1..n -> Seq(Marks)]
  PROVE  \E g \in [0..n -> Seq(Marks)] :
           /\ g[0] = <<>>
           /\ \A i \in 1..n : g[i] = g[i - 1] \o T[i] /\ (T[i] = <<>> => g[i] = g[i - 1])
<1>1. PICK g : Builds(g, T, n)
  BY LoopExists
<1>2. g \in [0..n -> Seq(Marks)] /\ g[0] = <<>>
  BY <1>1 DEF Builds, Writes
<1>3. ASSUME NEW i \in 1..n PROVE g[i] = g[i - 1] \o T[i] /\ (T[i] = <<>> => g[i] = g[i - 1])
  <2>1. g[i] = g[i - 1] \o T[i]
    BY <1>1 DEF Builds, Writes
  <2>2. g[i - 1] \in Seq(Marks)
    BY <1>2
  <2>3. g[i - 1] \o <<>> = g[i - 1]
    BY <2>2
  <2> QED BY <2>1, <2>3
<1> QED BY <1>2, <1>3

-----------------------------------------------------------------------------
(* The text of a reply *)

\* Replies of any length.
AnyPart == [type : PartTypes, text : Seq(Marks)]
AnyItem == [type : OutputTypes, role : {"assistant", "user", "none"}, parts : Seq(AnyPart)]

PartText(part) == IF part.type = "text" THEN part.text ELSE <<>>

\* The loop over the parts of an item returns its texts in a row.
LEMMA ItemTextFacts ==
  ASSUME NEW item \in AnyItem
  PROVE  /\ itemText(item) \in Seq(Marks)
         /\ itemText(item) = FlattenSeq([j \in DOMAIN item.parts |-> PartText(item.parts[j])])
<1> DEFINE n == Len(item.parts)
           T == [j \in 1..n |-> PartText(item.parts[j])]
           Eq(f) == f = [j \in 0..n |->
                          IF j = 0 THEN <<>>
                          ELSE IF item.parts[j].type = "text" THEN f[j - 1] \o item.parts[j].text
                          ELSE f[j - 1]]
           f1 == CHOOSE f : Eq(f)
<1>1. n \in Nat /\ DOMAIN item.parts = 1..n /\ \A j \in 1..n : item.parts[j] \in AnyPart
  BY DEF AnyItem
<1>2. T \in [1..n -> Seq(Marks)]
  BY <1>1 DEF AnyPart, PartText
<1> HIDE DEF n, T
<1>3. PICK g \in [0..n -> Seq(Marks)] :
        /\ g[0] = <<>>
        /\ \A i \in 1..n : g[i] = g[i - 1] \o T[i] /\ (T[i] = <<>> => g[i] = g[i - 1])
  BY <1>1, <1>2, SkippingLoopExists
<1>4. itemText(item) = f1[n]
  BY DEF n, itemText
<1>5. \A i \in 1..n : IF item.parts[i].type = "text" THEN T[i] = item.parts[i].text ELSE T[i] = <<>>
  BY <1>1 DEF T, PartText
<1>6. Eq(g)
  <2>1. ASSUME NEW i \in 0..n
        PROVE  g[i] = IF i = 0 THEN <<>>
                      ELSE IF item.parts[i].type = "text" THEN g[i - 1] \o item.parts[i].text ELSE g[i - 1]
    <3>1. CASE i = 0
      BY <1>3, <3>1
    <3>2. CASE i # 0
      <4>1. i \in 1..n
        BY <3>2
      <4> QED BY <1>3, <1>5, <3>2, <4>1
    <3> QED BY <3>1, <3>2
  <2> QED BY <1>3, <2>1
<1>7. Eq(f1)
  <2> HIDE DEF Eq
  <2> QED BY <1>6
<1> HIDE DEF f1
<1>8. Follows(f1, T, n)
  <2>1. f1[0] = <<>>
    BY <1>1, <1>7
  <2>2. ASSUME NEW i \in 1..n
        PROVE  f1[i] = f1[i - 1] \o T[i] \/ (T[i] = <<>> /\ f1[i] = f1[i - 1])
    <3>1. f1[i] = IF item.parts[i].type = "text" THEN f1[i - 1] \o item.parts[i].text ELSE f1[i - 1]
      <4>1. i \in 0..n /\ i # 0
        BY <1>1
      <4> QED BY <1>7, <4>1
    <3> QED BY <1>5, <3>1
  <2> QED BY <2>1, <2>2 DEF Follows
<1>9. f1[n] \in Seq(Marks) /\ f1[n] = FlattenSeq(T)
  BY <1>1, <1>2, <1>8, SkippingLoop
<1>10. T = [i \in DOMAIN item.parts |-> PartText(item.parts[i])]
  BY <1>1 DEF T
<1> QED BY <1>4, <1>9, <1>10

SaidBy(item) == IF isAssistantMessage(item) THEN itemText(item) ELSE <<>>

\* The loop over the output returns the texts of the assistant's messages in a row.
LEMMA AssistantTextFacts ==
  ASSUME NEW output \in Seq(AnyItem)
  PROVE  /\ assistantText(output) \in Seq(Marks)
         /\ assistantText(output) = FlattenSeq([i \in DOMAIN output |-> SaidBy(output[i])])
<1> DEFINE n == Len(output)
           T == [i \in 1..n |-> SaidBy(output[i])]
           Eq(f) == f = [i \in 0..n |->
                          IF i = 0 THEN <<>>
                          ELSE IF isAssistantMessage(output[i]) THEN f[i - 1] \o itemText(output[i])
                          ELSE f[i - 1]]
           f1 == CHOOSE f : Eq(f)
<1>1. n \in Nat /\ DOMAIN output = 1..n /\ \A i \in 1..n : output[i] \in AnyItem
  OBVIOUS
<1>2. T \in [1..n -> Seq(Marks)]
  <2>1. ASSUME NEW i \in 1..n PROVE SaidBy(output[i]) \in Seq(Marks)
    <3>1. output[i] \in AnyItem
      BY <1>1
    <3>2. itemText(output[i]) \in Seq(Marks)
      BY <3>1, ItemTextFacts
    <3> QED BY <3>2 DEF SaidBy
  <2> QED BY <2>1
<1> HIDE DEF n, T
<1>3. PICK g \in [0..n -> Seq(Marks)] :
        /\ g[0] = <<>>
        /\ \A i \in 1..n : g[i] = g[i - 1] \o T[i] /\ (T[i] = <<>> => g[i] = g[i - 1])
  BY <1>1, <1>2, SkippingLoopExists
<1>4. assistantText(output) = f1[n]
  BY DEF n, assistantText
<1>5. \A i \in 1..n : IF isAssistantMessage(output[i]) THEN T[i] = itemText(output[i]) ELSE T[i] = <<>>
  BY <1>1 DEF T, SaidBy
<1>6. Eq(g)
  <2>1. ASSUME NEW i \in 0..n
        PROVE  g[i] = IF i = 0 THEN <<>>
                      ELSE IF isAssistantMessage(output[i]) THEN g[i - 1] \o itemText(output[i]) ELSE g[i - 1]
    <3>1. CASE i = 0
      BY <1>3, <3>1
    <3>2. CASE i # 0
      <4>1. i \in 1..n
        BY <3>2
      <4> QED BY <1>3, <1>5, <3>2, <4>1
    <3> QED BY <3>1, <3>2
  <2> QED BY <1>3, <2>1
<1>7. Eq(f1)
  <2> HIDE DEF Eq
  <2> QED BY <1>6
<1> HIDE DEF f1
<1>8. Follows(f1, T, n)
  <2>1. f1[0] = <<>>
    BY <1>1, <1>7
  <2>2. ASSUME NEW i \in 1..n
        PROVE  f1[i] = f1[i - 1] \o T[i] \/ (T[i] = <<>> /\ f1[i] = f1[i - 1])
    <3>1. f1[i] = IF isAssistantMessage(output[i]) THEN f1[i - 1] \o itemText(output[i]) ELSE f1[i - 1]
      <4>1. i \in 0..n /\ i # 0
        BY <1>1
      <4> QED BY <1>7, <4>1
    <3> QED BY <1>5, <3>1
  <2> QED BY <2>1, <2>2 DEF Follows
<1>9. f1[n] \in Seq(Marks) /\ f1[n] = FlattenSeq(T)
  BY <1>1, <1>2, <1>8, SkippingLoop
<1>10. T = [i \in DOMAIN output |-> SaidBy(output[i])]
  BY <1>1 DEF T
<1> QED BY <1>4, <1>9, <1>10

\* A choice and a reply as the code decodes them: only an array has entries.
AnyChoice == [finish : FinishReasons, toolCalls : RawMembers, content : Seq(Marks)]

MembersOf(S) == {m \in [kind : MemberKinds, items : Seq(S)] : m.kind # "array" => m.items = <<>>}

AnyReply ==
  [json : BOOLEAN, output : MembersOf(AnyItem), choices : MembersOf(AnyChoice),
   status : Statuses, details : RawMembers]

\* What a reply holds, and the text the assistant's loop returns of it.
LEMMA SaidFacts ==
  ASSUME reply \in AnyReply
  PROVE  /\ outputs \in Seq(AnyItem) /\ choices \in Seq(AnyChoice) /\ Said \in Seq(Marks)
         /\ choices = <<>> => Said = assistantText(outputs)
<1>1. outputs \in Seq(AnyItem) /\ choices \in Seq(AnyChoice)
  <2>1. <<>> \in Seq(AnyItem) /\ <<>> \in Seq(AnyChoice)
    OBVIOUS
  <2> QED BY <2>1 DEF outputs, choices, AnyReply, MembersOf
<1>2. ASSUME choices = <<>>
      PROVE  Said = assistantText(outputs) /\ Said \in Seq(Marks)
  <2> DEFINE said(i) == FlattenSeq([j \in DOMAIN outputs[i].parts |->
                          IF outputs[i].parts[j].type = "text" THEN outputs[i].parts[j].text ELSE <<>>])
             all == [i \in DOMAIN outputs |-> IF isAssistantMessage(outputs[i]) THEN said(i) ELSE <<>>]
  <2>1. Said = FlattenSeq(all)
    BY <1>2 DEF Said
  <2>2. \A i \in DOMAIN outputs : outputs[i] \in AnyItem
    BY <1>1
  <2>3. \A i \in DOMAIN outputs : said(i) = itemText(outputs[i])
    BY <2>2, ItemTextFacts DEF PartText
  <2> HIDE DEF said
  <2>4. all = [i \in DOMAIN outputs |-> SaidBy(outputs[i])]
    BY <2>3 DEF SaidBy
  <2> HIDE DEF all
  <2> QED BY <1>1, <2>1, <2>4, AssistantTextFacts
<1>3. ASSUME choices # <<>>
      PROVE  Said \in Seq(Marks)
  <2>1. choices[1] \in AnyChoice
    BY <1>1, <1>3
  <2> QED BY <1>3, <2>1 DEF Said, AnyChoice
<1> QED BY <1>1, <1>2, <1>3

-----------------------------------------------------------------------------
(* Firsts and lasts *)

\* A set of numbers has a least one.
LEMMA MinFacts ==
  ASSUME NEW S \in SUBSET Nat, S # {}
  PROVE  Min(S) \in S /\ \A y \in S : Min(S) <= y
<1> DEFINE Less == OpToRel(<, Nat)
<1>1. IsWellFoundedOn(Less, Nat)
  BY NatLessThanWellFounded
<1>2. \A x, y \in Nat : x < y => <<x, y>> \in Less
  BY DEF OpToRel
<1> HIDE DEF Less
<1>3. PICK n \in S : \A m \in S : <<m, n>> \notin Less
  BY <1>1, WFMin
<1>4. ASSUME NEW m \in S PROVE n <= m
  <2>1. n \in Nat /\ m \in Nat /\ ~(m < n)
    BY <1>2, <1>3
  <2> QED BY <2>1
<1> QED BY <1>4 DEF Min

\* Below a bound it has a greatest one as well.
LEMMA MaxFacts ==
  ASSUME NEW n \in Nat, NEW S \in SUBSET (0..n), S # {}
  PROVE  Max(S) \in S /\ \A y \in S : Max(S) >= y
<1> DEFINE D == {n - x : x \in S}
<1>1. D \in SUBSET Nat /\ D # {}
  <2>1. \A x \in S : n - x \in Nat /\ n - x \in D
    OBVIOUS
  <2>2. \A y \in D : y \in Nat
    BY <2>1
  <2> HIDE DEF D
  <2> QED BY <2>1, <2>2
<1>2. Min(D) \in D /\ \A y \in D : Min(D) <= y
  <2> HIDE DEF D
  <2> QED BY <1>1, MinFacts
<1>3. PICK m \in S : n - m = Min(D)
  BY <1>2
<1>4. \A y \in S : n - m <= n - y
  BY <1>2, <1>3
<1>5. \A y \in S : m >= y
  <2> SUFFICES ASSUME NEW y \in S PROVE m >= y
    OBVIOUS
  <2> HIDE DEF D
  <2> QED BY <1>4
<1> HIDE DEF D
<1> QED BY <1>5 DEF Max

\* Trimming takes the space off both ends and nothing else.
LEMMA TrimFacts ==
  ASSUME NEW text \in Seq(Marks)
  PROVE  /\ TrimSpace(text) \in Seq(Marks)
         /\ TrimSpace(text) = <<>> <=> Spaces(text)
         /\ ~Spaces(text) =>
              \E from \in DOMAIN text : \E to \in from..Len(text) :
                /\ TrimSpace(text) = SubSeq(text, from, to)
                /\ text[from] = "word" /\ text[to] = "word"
                /\ \A i \in DOMAIN text : i < from \/ i > to => text[i] = "space"
<1> DEFINE words == {i \in DOMAIN text : text[i] = "word"}
<1>1. \A i \in DOMAIN text : text[i] \in {"word", "space"}
  BY DEF Marks
<1>2. words = {} <=> Spaces(text)
  BY <1>1 DEF Spaces
<1>3. CASE words = {}
  BY <1>2, <1>3 DEF TrimSpace
<1>4. CASE words # {}
  <2>1. words \in SUBSET (0..Len(text)) /\ words \in SUBSET Nat /\ Len(text) \in Nat
    OBVIOUS
  <2> DEFINE from == Min(words)
             to == Max(words)
  <2>2. from \in words /\ to \in words /\ \A i \in words : from <= i /\ i <= to
    <3> HIDE DEF words
    <3> QED BY <1>4, <2>1, MinFacts, MaxFacts
  <2>3. TrimSpace(text) = SubSeq(text, from, to)
    BY <1>4 DEF TrimSpace
  <2> HIDE DEF from, to
  <2>4. from \in 1..Len(text) /\ to \in from..Len(text) /\ text[from] = "word" /\ text[to] = "word"
    BY <2>1, <2>2
  <2>5. \A i \in DOMAIN text : i < from \/ i > to => text[i] = "space"
    BY <1>1, <2>2, <2>4
  <2>6. SubSeq(text, from, to) \in Seq(Marks) /\ Len(SubSeq(text, from, to)) = to - from + 1
    BY <2>4
  <2>7. TrimSpace(text) # <<>>
    BY <2>3, <2>4, <2>6
  <2>8. TrimSpace(text) \in Seq(Marks)
    BY <2>3, <2>6
  <2>9. \E f \in DOMAIN text : \E t \in f..Len(text) :
          /\ TrimSpace(text) = SubSeq(text, f, t)
          /\ text[f] = "word" /\ text[t] = "word"
          /\ \A i \in DOMAIN text : i < f \/ i > t => text[i] = "space"
    <3>1. from \in DOMAIN text
      BY <2>4
    <3> QED BY <2>3, <2>4, <2>5, <3>1
  <2> HIDE DEF words
  <2> QED BY <1>2, <1>4, <2>7, <2>8, <2>9
<1> QED BY <1>3, <1>4

\* The first item at fault decides, and there is one exactly when some item is.
LEMMA FailureFacts ==
  ASSUME NEW output \in Seq(AnyItem)
  PROVE  LET failure == responseOutputItemFailure(output)
         IN /\ failure \in {"none", "tool_call", "unsupported_item"}
            /\ failure = "none" <=>
                 \A i \in DOMAIN output : ~ToolItem(output[i]) /\ ~UnsupportedItem(output[i])
            /\ failure = "tool_call" => \E i \in DOMAIN output : ToolItem(output[i])
            /\ failure = "unsupported_item" => \E i \in DOMAIN output : UnsupportedItem(output[i])
<1> DEFINE faulty == {i \in DOMAIN output : itemFailure(output[i]) # "none"}
<1>1. ASSUME NEW item
      PROVE  /\ itemFailure(item) \in {"none", "tool_call", "unsupported_item"}
             /\ itemFailure(item) = "none" <=> ~ToolItem(item) /\ ~UnsupportedItem(item)
             /\ itemFailure(item) = "tool_call" => ToolItem(item)
             /\ itemFailure(item) = "unsupported_item" => UnsupportedItem(item)
  BY DEF itemFailure, ToolItem, UnsupportedItem, HasToolPart
<1>2. CASE faulty = {}
  BY <1>1, <1>2 DEF responseOutputItemFailure
<1>3. CASE faulty # {}
  <2>1. faulty \in SUBSET Nat
    OBVIOUS
  <2>2. Min(faulty) \in faulty
    <3> HIDE DEF faulty
    <3> QED BY <1>3, <2>1, MinFacts
  <2>3. responseOutputItemFailure(output) = itemFailure(output[Min(faulty)])
    BY <1>3 DEF responseOutputItemFailure
  <2>4. PICK i \in DOMAIN output : /\ itemFailure(output[i]) # "none"
                                   /\ responseOutputItemFailure(output) = itemFailure(output[i])
    BY <2>2, <2>3
  <2> QED BY <1>1, <2>4
<1> QED BY <1>2, <1>3

-----------------------------------------------------------------------------
(* What is made of a reply *)

\* A judgement before the text is trimmed: what is accepted, and why not.
Judged(e) ==
  /\ e.verdict = "ok" <=> (FinishedResponses \/ FinishedChat) /\ Said # <<>>
  /\ e.verdict = "ok" => e = accept(Said)
  /\ e.verdict = "undecodable" => Said = <<>>
  /\ e.verdict \notin {"ok", "undecodable"} => ReasonHolds(e.verdict) /\ e.verdict # "pending"

\* What a reply holds in terms of its members.
LEMMA ReplyFacts ==
  ASSUME reply \in AnyReply
  PROVE  /\ reply.output.kind \in MemberKinds /\ reply.choices.kind \in MemberKinds
         /\ reply.output.items \in Seq(AnyItem) /\ reply.choices.items \in Seq(AnyChoice)
         /\ reply.output.kind # "array" => reply.output.items = <<>>
         /\ reply.choices.kind # "array" => reply.choices.items = <<>>
         /\ reply.status \in Statuses /\ reply.details \in RawMembers /\ reply.json \in BOOLEAN
         /\ reply.json => outputs = reply.output.items /\ choices = reply.choices.items
         /\ ~reply.json => outputs = <<>> /\ choices = <<>>
BY DEF AnyReply, MembersOf, outputs, choices

\* No output, no text.
LEMMA NothingSaid ==
  ASSUME reply \in AnyReply, outputs = <<>>, choices = <<>>
  PROVE  Said = <<>>
<1>1. Said = assistantText(<<>>)
  BY SaidFacts
<1>2. assistantText(<<>>) = <<>>
  <2> DEFINE E == [i \in DOMAIN <<>> |-> SaidBy(<<>>[i])]
  <2>1. <<>> \in Seq(AnyItem) /\ E = <<>>
    OBVIOUS
  <2>2. assistantText(<<>>) = FlattenSeq(<<>>)
    BY <2>1, AssistantTextFacts
  <2>3. FlattenSeq(<<>>) = <<>>
    BY DEF FlattenSeq
  <2> QED BY <2>2, <2>3
<1> QED BY <1>1, <1>2

\* The Responses shape, read when there are no choices.
LEMMA ResponsesJudged ==
  ASSUME reply \in AnyReply, reply.json, ~has(reply.choices)
  PROVE  Judged(extractResponsesAssistantText(reply))
<1> DEFINE e == extractResponsesAssistantText(reply)
           failure == responseOutputItemFailure(reply.output.items)
           text == assistantText(reply.output.items)
<1>1. /\ outputs = reply.output.items /\ choices = <<>> /\ reply.status \in Statuses
      /\ reply.output.items \in Seq(AnyItem)
      /\ reply.output.kind # "array" => reply.output.items = <<>>
  BY ReplyFacts DEF has
<1>2. Said = text
  BY <1>1, SaidFacts
<1>3. /\ failure \in {"none", "tool_call", "unsupported_item"}
      /\ failure = "none" <=> ~OutputHas(ToolItem) /\ ~OutputHas(UnsupportedItem)
      /\ failure = "tool_call" => OutputHas(ToolItem)
      /\ failure = "unsupported_item" => OutputHas(UnsupportedItem)
  BY <1>1, FailureFacts DEF OutputHas
<1>4. reply.output.kind # "array" => text = <<>>
  BY <1>1, <1>2, NothingSaid
<1>5. ~FinishedChat
  BY <1>1 DEF FinishedChat, FirstChoiceHas
<1>6. e = IF reply.output.kind = "illtyped"       THEN fail("undecodable")
          ELSE IF responseStatus(reply) = "invalid_status" THEN fail("invalid_status")
          ELSE IF failure # "none"                THEN fail(failure)
          ELSE IF responseStatus(reply) = "failed"     THEN fail("failed")
          ELSE IF responseStatus(reply) = "incomplete" THEN fail("incomplete")
          ELSE IF hasJSONValue(reply.details)     THEN fail("incomplete")
          ELSE IF text = <<>>                     THEN fail("no_usable_text")
          ELSE accept(text)
  BY DEF extractResponsesAssistantText
<1> SUFFICES Judged(e)
  OBVIOUS
<1> HIDE DEF e, failure, text
<1>7. CASE reply.output.kind = "illtyped"
  BY <1>2, <1>4, <1>6, <1>7 DEF Judged, fail, FinishedResponses
<1>8. CASE reply.output.kind # "illtyped" /\ responseStatus(reply) = "invalid_status"
  <2>1. e = fail("invalid_status") /\ reply.status \in {"absent", "unreadable", "other"}
    BY <1>1, <1>6, <1>8 DEF responseStatus, Statuses
  <2>2. ReasonHolds("invalid_status") /\ ~FinishedResponses
    BY <2>1 DEF ReasonHolds, FinishedResponses
  <2> QED BY <1>5, <2>1, <2>2 DEF Judged, fail
<1> DEFINE known == reply.output.kind # "illtyped" /\ responseStatus(reply) # "invalid_status"
<1>9. CASE known /\ failure # "none"
  <2>1. e = fail(failure) /\ ~FinishedResponses
    BY <1>3, <1>6, <1>9 DEF FinishedResponses
  <2>2. ReasonHolds(failure)
    BY <1>3, <1>9 DEF ReasonHolds
  <2> QED BY <1>3, <1>5, <1>9, <2>1, <2>2 DEF Judged, fail
<1>10. CASE known /\ failure = "none" /\ responseStatus(reply) = "failed"
  <2>1. e = fail("failed") /\ reply.status = "failed"
    BY <1>6, <1>10 DEF responseStatus
  <2>2. ReasonHolds("failed") /\ ~FinishedResponses
    BY <2>1 DEF ReasonHolds, FinishedResponses
  <2> QED BY <1>5, <2>1, <2>2 DEF Judged, fail
<1>11. CASE /\ known /\ failure = "none" /\ responseStatus(reply) # "failed"
            /\ responseStatus(reply) = "incomplete" \/ hasJSONValue(reply.details)
  <2>1. e = fail("incomplete") /\ (reply.status = "incomplete" \/ reply.details = "value")
    BY <1>6, <1>11, ReplyFacts DEF responseStatus, hasJSONValue, RawMembers
  <2>2. ReasonHolds("incomplete") /\ ~FinishedResponses
    BY <2>1 DEF ReasonHolds, FinishedResponses
  <2> QED BY <1>5, <2>1, <2>2 DEF Judged, fail
<1>12. CASE /\ known /\ failure = "none" /\ responseStatus(reply) \notin {"failed", "incomplete"}
            /\ ~hasJSONValue(reply.details)
  <2>1. reply.status = "completed" /\ reply.details # "value"
    BY <1>12 DEF responseStatus, hasJSONValue
  <2>2. CASE text = <<>>
    <3>1. e = fail("no_usable_text")
      BY <1>6, <1>12, <2>2
    <3>2. ReasonHolds("no_usable_text")
      BY <1>2, <2>2 DEF ReasonHolds, Spaces
    <3> QED BY <1>2, <2>2, <3>1, <3>2 DEF Judged, fail
  <2>3. CASE text # <<>>
    <3>1. e = accept(Said)
      BY <1>2, <1>6, <1>12, <2>3
    <3>2. FinishedResponses
      BY <1>3, <1>4, <1>12, <2>1, <2>3 DEF FinishedResponses
    <3> QED BY <1>2, <2>3, <3>1, <3>2 DEF Judged, accept
  <2> QED BY <2>2, <2>3
<1> QED BY <1>7, <1>8, <1>9, <1>10, <1>11, <1>12

\* The Chat shape, read when there is no output.
LEMMA ChatJudged ==
  ASSUME reply \in AnyReply, reply.json, ~has(reply.output), has(reply.choices)
  PROVE  Judged(extractChatAssistantText(reply))
<1> DEFINE e == extractChatAssistantText(reply)
           c == reply.choices.items[1]
<1>1. /\ choices = reply.choices.items /\ outputs = <<>>
      /\ reply.choices.items \in Seq(AnyChoice)
      /\ reply.choices.kind # "array" => reply.choices.items = <<>>
  BY ReplyFacts DEF has
<1>2. ~FinishedResponses
  BY DEF FinishedResponses, has
<1> SUFFICES Judged(e)
  OBVIOUS
<1>3. CASE reply.choices.kind = "illtyped"
  <2>1. choices = <<>> /\ e = fail("undecodable")
    BY <1>1, <1>3 DEF extractChatAssistantText
  <2>2. Said = <<>> /\ ~FinishedChat
    BY <1>1, <2>1, NothingSaid DEF FinishedChat, FirstChoiceHas
  <2> QED BY <1>2, <2>1, <2>2 DEF Judged, fail
<1>4. CASE reply.choices.kind # "illtyped" /\ choices = <<>>
  <2>1. e = fail("missing_status")
    BY <1>1, <1>4 DEF extractChatAssistantText
  <2>2. ReasonHolds("missing_status") /\ ~FinishedChat
    BY <1>4 DEF FinishedChat, FirstChoiceHas, ReasonHolds
  <2> QED BY <1>2, <2>1, <2>2 DEF Judged, fail
<1>5. CASE reply.choices.kind # "illtyped" /\ choices # <<>>
  <2>1. c \in AnyChoice /\ choices[1] = c /\ Said = c.content
    BY <1>1, <1>5 DEF Said
  <2>2. e = IF finishFailure(c.finish) # "none" THEN fail(finishFailure(c.finish))
            ELSE IF hasJSONValue(c.toolCalls)   THEN fail("tool_call")
            ELSE IF c.content = <<>>            THEN fail("no_usable_text")
            ELSE accept(c.content)
    BY <1>1, <1>5 DEF extractChatAssistantText
  <2>3. c.finish \in FinishReasons /\ c.toolCalls \in RawMembers
    BY <2>1 DEF AnyChoice
  <2>4. FinishedChat <=> c.finish = "stop" /\ c.toolCalls # "value"
    BY <1>5, <2>1 DEF FinishedChat, FirstChoiceHas
  <2> HIDE DEF e, c
  <2>5. CASE c.finish # "stop"
    <3>1. e = fail(finishFailure(c.finish)) /\ ReasonHolds(finishFailure(c.finish))
          /\ finishFailure(c.finish) \notin {"ok", "undecodable", "pending"}
      BY <1>5, <2>1, <2>2, <2>3, <2>5 DEF finishFailure, FinishReasons, ReasonHolds, FirstChoiceHas
    <3> QED BY <1>2, <2>4, <2>5, <3>1 DEF Judged, fail
  <2>6. CASE c.finish = "stop" /\ c.toolCalls = "value"
    <3>1. e = fail("tool_call")
      BY <2>2, <2>6 DEF finishFailure, hasJSONValue
    <3>2. ReasonHolds("tool_call")
      BY <1>5, <2>1, <2>6 DEF ReasonHolds, FirstChoiceHas
    <3> QED BY <1>2, <2>4, <2>6, <3>1, <3>2 DEF Judged, fail
  <2>7. CASE c.finish = "stop" /\ c.toolCalls # "value" /\ c.content = <<>>
    <3>1. e = fail("no_usable_text")
      BY <2>2, <2>3, <2>7 DEF finishFailure, hasJSONValue, RawMembers
    <3>2. ReasonHolds("no_usable_text")
      BY <2>1, <2>7 DEF ReasonHolds, Spaces
    <3> QED BY <2>1, <2>7, <3>1, <3>2 DEF Judged, fail
  <2>8. CASE c.finish = "stop" /\ c.toolCalls # "value" /\ c.content # <<>>
    <3>1. e = accept(c.content)
      BY <2>2, <2>3, <2>8 DEF finishFailure, hasJSONValue, RawMembers
    <3> QED BY <2>1, <2>4, <2>8, <3>1 DEF Judged, accept
  <2> QED BY <2>5, <2>6, <2>7, <2>8
<1> QED BY <1>3, <1>4, <1>5

\* Whatever its shape.
LEMMA ExtractJudged ==
  ASSUME reply \in AnyReply
  PROVE  Judged(extractAssistantText(reply))
<1>1. /\ FinishedResponses => reply.json /\ ~has(reply.choices) /\ isJSONArray(reply.output)
      /\ FinishedChat => reply.json /\ ~has(reply.output) /\ isJSONArray(reply.choices)
  BY ReplyFacts DEF FinishedResponses, FinishedChat, FirstChoiceHas, isJSONArray
<1>2. CASE ~reply.json
  BY <1>1, <1>2, ReplyFacts, NothingSaid DEF Judged, extractAssistantText, fail
<1>3. CASE reply.json /\ has(reply.output) /\ has(reply.choices)
  BY <1>1, <1>3 DEF Judged, extractAssistantText, fail, ReasonHolds
<1>4. CASE reply.json /\ has(reply.output) /\ ~has(reply.choices)
  <2>1. CASE isJSONArray(reply.output)
    BY <1>4, <2>1, ResponsesJudged DEF extractAssistantText
  <2>2. CASE ~isJSONArray(reply.output)
    BY <1>1, <1>4, <2>2 DEF Judged, extractAssistantText, fail, ReasonHolds, has, isJSONArray
  <2> QED BY <2>1, <2>2
<1>5. CASE reply.json /\ ~has(reply.output) /\ has(reply.choices)
  <2>1. CASE isJSONArray(reply.choices)
    BY <1>5, <2>1, ChatJudged DEF extractAssistantText
  <2>2. CASE ~isJSONArray(reply.choices)
    BY <1>1, <1>5, <2>2 DEF Judged, extractAssistantText, fail, ReasonHolds, has, isJSONArray
  <2> QED BY <2>1, <2>2
<1>6. CASE reply.json /\ ~has(reply.output) /\ ~has(reply.choices)
  <2>1. CASE reply.status # "absent"
    BY <1>6, <2>1, ResponsesJudged DEF extractAssistantText
  <2>2. CASE reply.status = "absent"
    BY <1>1, <1>6, <2>2 DEF Judged, extractAssistantText, fail, ReasonHolds, has, isJSONArray
  <2> QED BY <2>1, <2>2
<1> QED BY <1>2, <1>3, <1>4, <1>5, <1>6

\* The verdict on a reply, trimmed and measured.
LEMMA SummaryJudged ==
  ASSUME reply \in AnyReply, limit \in Nat, NEW r, r = summaryOf(reply, limit)
  PROVE  /\ r.verdict = "ok" <=>
              (FinishedResponses \/ FinishedChat) /\ ~Spaces(Said) /\ Len(TrimSpace(Said)) <= limit
         /\ r.verdict = "ok" => r.text = TrimSpace(Said)
         /\ r.verdict # "ok" => ReasonHolds(r.verdict) /\ r.verdict # "pending"
<1> DEFINE e == extractAssistantText(reply)
           s == extractSummaryText(reply)
<1>1. Judged(e)
  BY ExtractJudged
<1>2. s = IF e.verdict = "undecodable" THEN fail("no_usable_text")
          ELSE IF e.verdict # "ok" THEN e
          ELSE IF TrimSpace(e.text) = <<>> THEN fail("no_usable_text")
          ELSE accept(TrimSpace(e.text))
  BY DEF extractSummaryText
<1>3. r = IF s.verdict = "ok" /\ Len(s.text) > limit THEN fail("oversized") ELSE s
  BY DEF summaryOf
<1> HIDE DEF e, s
<1>4. /\ Said \in Seq(Marks) /\ TrimSpace(Said) \in Seq(Marks)
      /\ TrimSpace(Said) = <<>> <=> Spaces(Said)
  BY SaidFacts, TrimFacts
<1>5. Said = <<>> => Spaces(Said)
  BY DEF Spaces
<1>6. CASE e.verdict = "undecodable"
  <2>1. r = fail("no_usable_text")
    BY <1>2, <1>3, <1>6 DEF fail
  <2>2. ReasonHolds("no_usable_text")
    BY <1>1, <1>5, <1>6 DEF Judged, ReasonHolds
  <2> QED BY <1>1, <1>5, <1>6, <2>1, <2>2 DEF Judged, fail
<1>7. CASE e.verdict \notin {"ok", "undecodable"}
  <2>1. r = e
    BY <1>2, <1>3, <1>7
  <2> QED BY <1>1, <1>5, <1>7, <2>1 DEF Judged
<1>8. CASE e.verdict = "ok" /\ Spaces(Said)
  <2>1. r = fail("no_usable_text")
    BY <1>1, <1>2, <1>3, <1>4, <1>8 DEF fail, Judged, accept
  <2>2. ReasonHolds("no_usable_text")
    BY <1>8 DEF ReasonHolds
  <2> QED BY <1>8, <2>1, <2>2 DEF fail
<1>9. CASE e.verdict = "ok" /\ ~Spaces(Said)
  <2>1. s = accept(TrimSpace(Said)) /\ (FinishedResponses \/ FinishedChat)
    BY <1>1, <1>2, <1>4, <1>9 DEF Judged, accept
  <2>2. s.verdict = "ok" /\ s.text = TrimSpace(Said) /\ Len(TrimSpace(Said)) \in Nat
    BY <1>4, <2>1 DEF accept
  <2>3. CASE Len(TrimSpace(Said)) <= limit
    <3>1. r = s
      BY <1>3, <2>2, <2>3
    <3> QED BY <1>9, <2>1, <2>2, <2>3, <3>1
  <2>4. CASE ~(Len(TrimSpace(Said)) <= limit)
    <3>1. r = fail("oversized") /\ Len(TrimSpace(Said)) > limit
      BY <1>3, <2>2, <2>4
    <3>2. ReasonHolds("oversized")
      BY <3>1 DEF ReasonHolds
    <3> QED BY <2>4, <3>1, <3>2 DEF fail
  <2> QED BY <2>3, <2>4
<1> QED BY <1>6, <1>7, <1>8, <1>9

-----------------------------------------------------------------------------
(* Any reply *)

AnyReplyInit ==
  /\ reply \in AnyReply
  /\ limit \in Nat
  /\ result = fail("pending")

\* The replies of the run without its bounds.
AnyReplySpec == AnyReplyInit /\ [][generateSummary]_vars

ReplyInv ==
  /\ reply \in AnyReply
  /\ limit \in Nat
  /\ result = fail("pending") \/ result = summaryOf(reply, limit)

\* The result is either still to come or what the code makes of the reply.
LEMMA ReplyInductive == AnyReplySpec => []ReplyInv
<1>1. AnyReplyInit => ReplyInv
  BY DEF AnyReplyInit, ReplyInv
<1>2. ReplyInv /\ [generateSummary]_vars => ReplyInv'
  <2> SUFFICES ASSUME ReplyInv, [generateSummary]_vars PROVE ReplyInv'
    OBVIOUS
  <2>1. CASE generateSummary
    BY <2>1 DEF ReplyInv, generateSummary
  <2>2. CASE UNCHANGED vars
    BY <2>2 DEF ReplyInv, vars
  <2> QED BY <2>1, <2>2
<1> QED BY <1>1, <1>2, PTL DEF AnyReplySpec

\* A reply is stored exactly when it has one shape, ended well, called no tool,
\* holds nothing unknown and says a word that fits, whatever its length.
THEOREM AcceptedIsFinished == AnyReplySpec => []AcceptsExactlyFinished
<1>1. ReplyInv => AcceptsExactlyFinished
  BY SummaryJudged DEF ReplyInv, AcceptsExactlyFinished, fail
<1> QED BY <1>1, ReplyInductive, PTL

\* A stored summary is all the assistant said but for the space around it.
THEOREM StoredIsSaid == AnyReplySpec => []SummaryIsAllThatWasSaid
<1>1. ASSUME ReplyInv, result.verdict = "ok"
      PROVE  \E from \in DOMAIN Said : \E to \in from..Len(Said) :
               /\ result.text = SubSeq(Said, from, to)
               /\ Said[from] = "word" /\ Said[to] = "word"
               /\ Spaces(SubSeq(Said, 1, from - 1)) /\ Spaces(SubSeq(Said, to + 1, Len(Said)))
  <2>1. /\ result.text = TrimSpace(Said) /\ ~Spaces(Said) /\ Said \in Seq(Marks)
    BY <1>1, SummaryJudged, SaidFacts DEF ReplyInv, fail
  <2>2. PICK from \in DOMAIN Said : \E to \in from..Len(Said) :
          /\ TrimSpace(Said) = SubSeq(Said, from, to)
          /\ Said[from] = "word" /\ Said[to] = "word"
          /\ \A i \in DOMAIN Said : i < from \/ i > to => Said[i] = "space"
    BY <2>1, TrimFacts
  <2>3. PICK to \in from..Len(Said) :
          /\ TrimSpace(Said) = SubSeq(Said, from, to)
          /\ Said[from] = "word" /\ Said[to] = "word"
          /\ \A i \in DOMAIN Said : i < from \/ i > to => Said[i] = "space"
    BY <2>2
  <2>4. from \in 1..Len(Said) /\ to \in 1..Len(Said) /\ Len(Said) \in Nat
    BY <2>1
  <2>5. Spaces(SubSeq(Said, 1, from - 1))
    <3>1. SubSeq(Said, 1, from - 1) = [i \in 1..(from - 1) |-> Said[i]]
      BY <2>1, <2>4
    <3>2. \A i \in 1..(from - 1) : i \in DOMAIN Said /\ i < from
      BY <2>1, <2>4
    <3> QED BY <2>3, <3>1, <3>2 DEF Spaces
  <2>6. Spaces(SubSeq(Said, to + 1, Len(Said)))
    <3>1. SubSeq(Said, to + 1, Len(Said)) = [i \in 1..(Len(Said) - to) |-> Said[to + i]]
      BY <2>1, <2>4
    <3>2. \A i \in 1..(Len(Said) - to) : to + i \in DOMAIN Said /\ to + i > to
      BY <2>1, <2>4
    <3> QED BY <2>3, <3>1, <3>2 DEF Spaces
  <2> QED BY <2>1, <2>3, <2>5, <2>6
<1>2. ReplyInv => SummaryIsAllThatWasSaid
  BY <1>1 DEF SummaryIsAllThatWasSaid
<1> QED BY <1>2, ReplyInductive, PTL

\* The reason given to the client is true of the reply.
THEOREM ReasonGivenIsTrue == AnyReplySpec => []ReasonIsTrue
<1>1. ReplyInv => ReasonIsTrue
  BY SummaryJudged DEF ReplyInv, ReasonIsTrue, fail
<1> QED BY <1>1, ReplyInductive, PTL

\* The run's replies are among these.
THEOREM RunReplies == Spec => AnyReplySpec
<1>1. Word \in Seq(Marks) /\ Space \in Seq(Marks) /\ <<>> \in Seq(Marks) /\ Texts \subseteq Seq(Marks)
  BY DEF Word, Space, Texts, Marks
<1>2. ReplyParts \subseteq AnyPart
  <2>1. \A type \in PartTypes, text \in Seq(Marks) : ReplyPart(type, text) \in AnyPart
    BY DEF ReplyPart, AnyPart
  <2>2. "text" \in PartTypes /\ "tool" \in PartTypes /\ "other" \in PartTypes
    BY DEF PartTypes
  <2>3. {ReplyPart("text", t) : t \in {Word, Space}} \subseteq AnyPart
    BY <1>1, <2>1, <2>2
  <2>4. {ReplyPart("tool", <<>>), ReplyPart("other", Word)} \subseteq AnyPart
    BY <1>1, <2>1, <2>2
  <2> QED BY <2>3, <2>4 DEF ReplyParts
<1>3. /\ BoundedSeq(ReplyParts, MaxParts) \subseteq Seq(AnyPart)
      /\ <<ReplyPart("text", Word)>> \in Seq(AnyPart) /\ <<>> \in Seq(AnyPart)
  <2>1. ReplyPart("text", Word) \in AnyPart
    BY <1>1 DEF ReplyPart, AnyPart, PartTypes
  <2> QED BY <1>2, <2>1, BoundedIsSeq, SummaryBounds
<1>4. OutputItems \subseteq AnyItem
  <2>1. \A type \in OutputTypes, role \in {"assistant", "user", "none"}, parts \in Seq(AnyPart) :
          OutputItem(type, role, parts) \in AnyItem
    BY DEF OutputItem, AnyItem
  <2>2. "message" \in OutputTypes
    BY DEF OutputTypes
  <2>3. {OutputItem("message", "assistant", p) : p \in BoundedSeq(ReplyParts, MaxParts)} \subseteq AnyItem
    BY <1>3, <2>1, <2>2
  <2>4. {OutputItem("message", "user", <<ReplyPart("text", Word)>>)} \subseteq AnyItem
    BY <1>3, <2>1, <2>2
  <2>5. {OutputItem(t, "none", <<>>) : t \in OutputTypes \ {"message"}} \subseteq AnyItem
    BY <1>3, <2>1
  <2> QED BY <2>3, <2>4, <2>5 DEF OutputItems
<1>5. BoundedSeq(OutputItems, MaxItems) \subseteq Seq(AnyItem)
  BY <1>4, BoundedIsSeq, SummaryBounds
<1>6. ChatChoices \subseteq AnyChoice
  BY <1>1 DEF ChatChoices, AnyChoice
<1>7. <<>> \in Seq(AnyItem) /\ <<>> \in Seq(AnyChoice)
  OBVIOUS
<1>8. \A o \in MembersOf(AnyItem), c \in MembersOf(AnyChoice), s \in Statuses, d \in RawMembers :
        Reply(o, c, s, d) \in AnyReply
  BY DEF Reply, AnyReply
<1>9. /\ \A k \in MemberKinds : Member(k) \in MembersOf(AnyItem) /\ Member(k) \in MembersOf(AnyChoice)
      /\ \A o \in Seq(AnyItem) : Array(o) \in MembersOf(AnyItem)
      /\ \A c \in Seq(AnyChoice) : Array(c) \in MembersOf(AnyChoice)
  BY <1>7 DEF Member, Array, MembersOf, MemberKinds
<1>10. "absent" \in MemberKinds /\ "absent" \in Statuses /\ "absent" \in RawMembers
  BY DEF MemberKinds, Statuses, RawMembers
<1>11. ResponsesReplies \subseteq AnyReply
  BY <1>5, <1>8, <1>9, <1>10 DEF ResponsesReplies
<1>12. ChatReplies \subseteq AnyReply
  <2> DEFINE seconds == {[finish |-> "stop", toolCalls |-> "value", content |-> Word],
                         [finish |-> "stop", toolCalls |-> "absent", content |-> Space]}
  <2>1. seconds \subseteq AnyChoice
    BY <1>1 DEF AnyChoice, FinishReasons, RawMembers
  <2> HIDE DEF seconds
  <2>2. \A a \in ChatChoices, b \in seconds : <<a, b>> \in Seq(AnyChoice)
    BY <1>6, <2>1
  <2>3. BoundedSeq(ChatChoices, 1) \subseteq Seq(AnyChoice)
    BY <1>6, BoundedIsSeq
  <2>4. (ChatChoices \X seconds) \subseteq Seq(AnyChoice)
    <3> SUFFICES ASSUME NEW x \in ChatChoices \X seconds PROVE x \in Seq(AnyChoice)
      OBVIOUS
    <3>1. x = <<x[1], x[2]>> /\ x[1] \in ChatChoices /\ x[2] \in seconds
      OBVIOUS
    <3>2. <<x[1], x[2]>> \in Seq(AnyChoice)
      BY <2>2, <3>1
    <3> QED BY <3>1, <3>2
  <2>5. \A c \in Seq(AnyChoice) : Reply(Member("absent"), Array(c), "absent", "absent") \in AnyReply
    BY <1>8, <1>9, <1>10
  <2> DEFINE C == BoundedSeq(ChatChoices, 1) \cup (ChatChoices \X seconds)
  <2>6. C \subseteq Seq(AnyChoice)
    BY <2>3, <2>4
  <2>7. ChatReplies = {Reply(Member("absent"), Array(c), "absent", "absent") : c \in C}
    BY DEF ChatReplies, seconds
  <2> HIDE DEF C
  <2> QED BY <2>5, <2>6, <2>7
<1>13. OddReplies \subseteq AnyReply
  <2> DEFINE M == {Member(k) : k \in MemberKinds}
             bare == Reply(Member("absent"), Member("absent"), "absent", "absent")
             odd == {Reply(o, c, s, "absent") : o \in M, c \in M, s \in Statuses}
  <2>1. M \subseteq MembersOf(AnyItem) /\ M \subseteq MembersOf(AnyChoice)
    BY <1>9
  <2>2. bare \in AnyReply
    BY <1>8, <1>9, <1>10
  <2>3. \A r \in AnyReply : [r EXCEPT !.json = FALSE] \in AnyReply
    BY DEF AnyReply
  <2>4. OddReplies = odd \cup {[bare EXCEPT !.json = FALSE]}
    BY DEF OddReplies
  <2> HIDE DEF M, bare
  <2>5. odd \subseteq AnyReply
    BY <1>8, <1>10, <2>1
  <2> HIDE DEF odd
  <2> QED BY <2>2, <2>3, <2>4, <2>5
<1>14. Init => AnyReplyInit
  BY <1>11, <1>12, <1>13 DEF Init, AnyReplyInit
<1> QED BY <1>14 DEF Spec, AnyReplySpec
=============================================================================
