---------------------------- MODULE SessionProofs ----------------------------
(***************************************************************************)
(* Theorems about CompactSession: sessions of any length, any rules and    *)
(* any number of attempts in flight.                                       *)
(***************************************************************************)
EXTENDS CompactSession, GateProofs, SequenceTheorems

USE DEF Phases, Branches, Vias, AnswerKinds

-----------------------------------------------------------------------------
(* Types *)

\* The invariant that keeps the numbers of messages within bounds.
Counted ==
  /\ said <= 2 * turns
  /\ turn.kind # "none" => turns < MaxTurns
  /\ current # Nobody => turn.kind # "none"

STypes == SessionTypeOK /\ Counted

\* A text is a set of message numbers.
LEMMA TextFacts ==
  /\ \A t : t \in Texts <=> t \subseteq 1..(2 * MaxTurns)
  /\ Blank = {} /\ MaxTurns \in Nat /\ MaxRetries \in Nat /\ Nobody \notin Requests
BY CompactSessionAssumption

\* What a model can read, and what items tell of, is a text.
LEMMA TextsOfItems ==
  ASSUME NEW items \in Seq(Items)
  PROVE  Readable(items) \in Texts /\ Remembered(items) \in Texts
<1>1. \A i \in DOMAIN items : items[i] \in Items
  OBVIOUS
<1>2. \A i \in DOMAIN items : items[i].text \in Texts
  BY <1>1 DEF Items
<1> QED BY <1>2, TextFacts DEF Readable, Remembered

\* The items the client adds to its history are items.
LEMMA NewItemsType ==
  ASSUME STypes, turn.kind # "none"
  PROVE  /\ newItems \in Seq(Items)
         /\ Message("assistant", said + 2) \in Items
         /\ said + 2 \in 0..(2 * MaxTurns) /\ said + 2 <= 2 * (turns + 1)
<1>1. /\ said \in Nat /\ turns \in Nat /\ MaxTurns \in Nat
      /\ said <= 2 * turns /\ turns < MaxTurns
  BY TextFacts DEF STypes, SessionTypeOK, Counted
<1>2. said + 1 \in 1..(2 * MaxTurns) /\ said + 2 \in 1..(2 * MaxTurns) /\ said + 2 <= 2 * (turns + 1)
  BY <1>1
<1>3. {said + 1} \in Texts /\ {said + 2} \in Texts
  BY <1>2, TextFacts
<1>4. /\ Message("user", said + 1) \in Items /\ Message("assistant", said + 2) \in Items
      /\ TriggerItem \in Items
  BY <1>3, TextsAssumption DEF Message, TriggerItem, Items, ItemTypes, Roles, IdForms
<1>5. newItems \in Seq(Items)
  BY <1>4 DEF newItems
<1> QED BY <1>2, <1>4, <1>5

\* The request of a turn is one a client may send, in the Responses protocol.
LEMMA RequestType ==
  ASSUME STypes, turn.kind # "none"
  PROVE  /\ request \in ClientRequests
         /\ request.format = "openai-response"
         /\ inputItems(Merged(request)) = history \o newItems
<1>1. /\ newItems \in Seq(Items) /\ history \in Seq(Items) /\ turn \in Turns
      /\ history \o newItems \in Seq(Items) /\ <<>> \in Seq(Items)
  BY NewItemsType DEF STypes, SessionTypeOK
<1> DEFINE sent == IF turn.socket THEN newItems ELSE history \o newItems
           before == IF turn.socket THEN history ELSE <<>>
<1>2. sent \in Seq(Items) /\ before \in Seq(Items) /\ before \o sent = history \o newItems
  <2>1. CASE turn.socket
    BY <1>1, <2>1
  <2>2. CASE ~turn.socket
    BY <1>1, <2>2, ConcatEmptySeq
  <2> QED BY <2>1, <2>2
<1> HIDE DEF sent, before
<1>3. request = [model |-> turn.model, stream |-> turn.stream, compact |-> turn.kind = "v1",
                 format |-> "openai-response", transcript |-> before,
                 body |-> [shape |-> "array", items |-> sent]]
  BY DEF request, sent, before
<1>4. [shape |-> "array", items |-> sent] \in Bodies
  BY <1>2 DEF Bodies, Shapes
<1>5. request \in ClientRequests
  BY <1>1, <1>2, <1>3, <1>4 DEF ClientRequests, Turns
<1>6. Merged(request).shape = "array" /\ Merged(request).items = before \o sent
  BY <1>3 DEF Merged
<1> QED BY <1>2, <1>3, <1>5, <1>6 DEF inputItems

\* A session's replies are replies, so its bridge steps are the bridge's.
LEMMA StepsAreProgress ==
  ASSUME STypes, NEW r \in Requests, BridgeSteps(r)
  PROVE  Progress(r)
<1>1. \A c \in upstream : Readable(c.items) \in Texts
  BY TextsOfItems DEF STypes, SessionTypeOK, TypeOK, Calls
<1>2. repliesTo(r) \subseteq Replies
  BY <1>1, TextsAssumption DEF repliesTo, Replies
<1> QED BY <1>2 DEF BridgeSteps, Progress

\* A slot that is free again is typed.
LEMMA ReleaseType ==
  ASSUME TypeOK, NEW r \in Requests, Release(r)
  PROVE  TypeOK'
<1>1. (CHOOSE c \in Clients : TRUE) \in ClientRequests
  BY CompactBridgeAssumption
<1>2. (CHOOSE c \in Clients : TRUE).body \in Bodies
  BY <1>1 DEF ClientRequests
<1>3. Plain("none") \in Answers
  BY PlainType
<1>4. client' \in [Requests -> ClientRequests] /\ body' \in [Requests -> Bodies]
  BY <1>1, <1>2 DEF Release, TypeOK
<1> QED BY <1>3, <1>4, DefaultConfigType DEF Release, TypeOK

-----------------------------------------------------------------------------
(* Types are kept *)

\* The bridge variables after any step of the session.
LEMMA BridgeTypeStep ==
  ASSUME STypes, SessionNext
  PROVE  TypeOK'
<1>1. TypeOK
  BY DEF STypes, SessionTypeOK
<1>2. CASE UNCHANGED vars
  BY <1>1, <1>2 DEF vars, TypeOK
<1>3. ASSUME NEW raw \in RawConfigs, handleLifecycle(raw)
      PROVE  TypeOK'
  BY <1>1, <1>3, LoadConfigFacts DEF TypeOK, handleLifecycle
<1>4. ASSUME NEW r \in Requests, attempt(r)
      PROVE  TypeOK'
  <2>1. Asks(r)
    BY <1>4, RequestType DEF attempt, Asks
  <2> QED BY <1>1, <2>1, TypeStep
<1>5. ASSUME NEW r \in Requests, BridgeMoves(r)
      PROVE  TypeOK'
  BY <1>1, <1>5, StepsAreProgress, TypeStep DEF BridgeMoves
<1>6. ASSUME NEW r \in Requests, Receive(r)
      PROVE  TypeOK'
  <2>1. Release(r)
    BY <1>6 DEF Receive, refused, failed, conversed, installsV1, installsV2,
                installsNative, discarded
  <2> QED BY <1>1, <2>1, ReleaseType
<1> QED BY <1>2, <1>3, <1>4, <1>5, <1>6
        DEF SessionNext, Reconfigured, Reconfigure, beginTurn, abandon

\* An answer's items are items, and so is what is retained of the history.
LEMMA InstallTypes ==
  ASSUME STypes, NEW r \in Requests
  PROVE  /\ answer[r].items \in Seq(Items)
         /\ retainedItems(history) \in Seq(Items)
         /\ retainedItems(history) \o answer[r].items \in Seq(Items)
         /\ \A c \in upstream : /\ c.items \in Seq(Items)
                                /\ retainedItems(c.items) \in Seq(Items)
                                /\ OpaqueItem(Readable(c.items)) \in Items
<1>1. history \in Seq(Items) /\ answer[r].items \in Seq(Items)
  BY DEF STypes, SessionTypeOK, TypeOK, Answers
<1>2. ASSUME NEW items \in Seq(Items)
      PROVE  retainedItems(items) \in Seq(Items)
  <2> DEFINE K == {i \in DOMAIN items : isRetained(items[i])}
  <2>1. K \in SUBSET (DOMAIN items) /\ retainedItems(items) = ItemsAt(items, K)
    BY DEF retainedItems
  <2> HIDE DEF K
  <2> QED BY <2>1, ItemsAtFacts
<1>3. ASSUME NEW c \in upstream
      PROVE  c.items \in Seq(Items) /\ OpaqueItem(Readable(c.items)) \in Items
  <2>1. c.items \in Seq(Items)
    BY DEF STypes, SessionTypeOK, TypeOK, Calls
  <2> QED BY <2>1, TextsOfItems DEF OpaqueItem, Items, ItemTypes, Roles, IdForms
<1>4. retainedItems(history) \in Seq(Items)
  BY <1>1, <1>2
<1> QED BY <1>1, <1>2, <1>3, <1>4

\* The session variables after any step.
LEMMA SessionTypeStep ==
  ASSUME STypes, SessionNext
  PROVE  STypes'
<1>0. TypeOK'
  BY BridgeTypeStep
<1>1. /\ history \in Seq(Items) /\ said \in 0..(2 * MaxTurns) /\ turns \in 0..MaxTurns
      /\ turn \in Turns /\ current \in Requests \cup {Nobody} /\ attempts \in 0..MaxRetries
      /\ MaxTurns \in Nat /\ MaxRetries \in Nat /\ Nobody \notin Requests /\ Counted
  BY TextFacts DEF STypes, SessionTypeOK
<1>2. CASE UNCHANGED sessionVars
  BY <1>0, <1>1, <1>2 DEF sessionVars, STypes, SessionTypeOK, Counted
<1>3. ASSUME NEW t \in Turns, beginTurn(t)
      PROVE  STypes'
  BY <1>0, <1>1, <1>3 DEF beginTurn, STypes, SessionTypeOK, Counted
<1>4. CASE abandon
  BY <1>0, <1>1, <1>4 DEF abandon, STypes, SessionTypeOK, Counted
<1>5. ASSUME NEW r \in Requests, attempt(r)
      PROVE  STypes'
  BY <1>0, <1>1, <1>5 DEF attempt, STypes, SessionTypeOK, Counted
<1>6. NoTurn \in Turns /\ NoTurn.kind = "none"
  BY <1>1 DEF NoTurn, Turns
<1>7. ASSUME NEW r \in Requests, refused(r) \/ failed(r)
      PROVE  STypes'
  BY <1>0, <1>1, <1>6, <1>7 DEF refused, failed, EndTurn, Received, STypes, SessionTypeOK, Counted
<1>8. ASSUME NEW r \in Requests, Receive(r), ~refused(r), ~failed(r), ~discarded(r)
      PROVE  STypes'
  <2>1. turn.kind # "none" /\ turns + 1 \in 0..MaxTurns
    BY <1>1, <1>8 DEF Receive, conversed, installsV1, installsV2, installsNative,
                      Received, Counted
  <2>2. history' \in Seq(Items)
    <3>1. CASE conversed(r)
      <4>1. history \o newItems \in Seq(Items) /\ <<Message("assistant", said + 2)>> \in Seq(Items)
        BY <1>1, <2>1, NewItemsType
      <4>2. history \o newItems \o <<Message("assistant", said + 2)>> \in Seq(Items)
        BY <4>1
      <4> QED BY <3>1, <4>2 DEF conversed, Install
    <3>2. CASE installsV1(r)
      BY <3>2, InstallTypes DEF installsV1, Install
    <3>3. CASE installsV2(r)
      BY <3>3, InstallTypes DEF installsV2, Install
    <3>4. CASE installsNative(r)
      <4>1. PICK c \in upstream :
              history' = Append(retainedItems(IF turn.kind = "v1" THEN c.items ELSE history),
                                OpaqueItem(Readable(c.items)))
        BY <3>4 DEF installsNative, Install
      <4> QED BY <4>1, InstallTypes
    <3> QED BY <1>8, <3>1, <3>2, <3>3, <3>4 DEF Receive
  <2>3. /\ turns' = turns + 1 /\ turn' = NoTurn /\ current' = Nobody /\ attempts' = 0
        /\ said' \in {said, said + 2}
    BY <1>8 DEF Receive, conversed, installsV1, installsV2, installsNative, Install, EndTurn
  <2>4. said' \in 0..(2 * MaxTurns) /\ said' <= 2 * turns'
    BY <1>1, <2>1, <2>3, NewItemsType DEF Counted
  <2> QED BY <1>0, <1>1, <1>6, <2>1, <2>2, <2>3, <2>4 DEF STypes, SessionTypeOK, Counted
<1> QED BY <1>2, <1>3, <1>4, <1>5, <1>7, <1>8
        DEF SessionNext, Reconfigured, BridgeMoves, Receive, discarded

-----------------------------------------------------------------------------
(* The inductive invariant of the session *)

\* Every request of a session speaks the Responses protocol.
InProtocol(r) == pc[r] # "idle" => isResponses(r)

\* A refusal is for a record in the request that some target must refuse.
Deserved(r) ==
  answer[r].kind = "invalid_state" => RecordsOf(ClientItems(r)) \cap {"corrupt", "opaque"} # {}

\* No answer brings a trigger.
Triggerless(r) == \A i \in DOMAIN answer[r].items : ~isCompactionTrigger(answer[r].items[i])

\* The attempt the client waits for is the request of its turn.
Bound == current # Nobody => pc[current] # "idle" /\ client[current] = request

\* Items no policy calls mixed or corrupt.
Tidy(items) ==
  /\ "corrupt" \notin RecordsOf(items)
  /\ \A i, j \in DOMAIN items :
       isCompactionItemAny(items[i]) /\ isCompactionItemAny(items[j]) => i = j
  /\ \A i \in DOMAIN items : ~isCompactionTrigger(items[i])

SInv ==
  /\ STypes
  /\ \A r \in Requests : RequestInv(r) /\ InProtocol(r) /\ Deserved(r) /\ Triggerless(r)
  /\ Bound
  /\ Tidy(history)

\* A slot released is as one never used.
LEMMA ReleasedInv ==
  ASSUME SInv, NEW r \in Requests, Release(r)
  PROVE  RequestInv(r)' /\ InProtocol(r)' /\ Deserved(r)' /\ Triggerless(r)'
<1>1. /\ pc'[r] = "idle" /\ CallsOf(r)' = {} /\ answer'[r].kind = "none"
      /\ answer'[r].items = <<>>
  BY DEF Release, CallsOf, Plain, SInv, STypes, SessionTypeOK, TypeOK
<1> QED BY <1>1 DEF RequestInv, Spending, Carried, Installed, InProtocol, Deserved, EarlyPhases,
                     Triggerless

\* The release of a slot leaves the others alone.
LEMMA ReleaseUntouched ==
  ASSUME SInv, NEW r \in Requests, Release(r), NEW s \in Requests, s # r
  PROVE  Untouched(s)
<1>1. CallsOf(s)' = CallsOf(s)
  BY DEF Release, CallsOf
<1> QED BY <1>1 DEF Release, Untouched, SInv, STypes, SessionTypeOK, TypeOK

\* An untouched request keeps the session's invariant too.
LEMMA UntouchedSession ==
  ASSUME NEW s \in Requests, Untouched(s), RequestInv(s), InProtocol(s), Deserved(s),
         Triggerless(s)
  PROVE  RequestInv(s)' /\ InProtocol(s)' /\ Deserved(s)' /\ Triggerless(s)'
BY UntouchedInv DEF Untouched, InProtocol, Deserved, Triggerless, isResponses, ClientItems

\* Nothing CPA or the plugin does changes what a client sent.
LEMMA ProgressKeepsClient ==
  ASSUME NEW r \in Requests, Progress(r)
  PROVE  client' = client /\ pc[r] # "idle" /\ pc' = [pc EXCEPT ![r] = pc'[r]]
BY DEF Progress, handleModelRoute, mergeTranscript,
       handleRequestInterceptBefore, interceptPasses, interceptRewrites,
       interceptTerminates, dispatchBuiltin, dispatchExecutor, handleExecute,
       delegateUnbridged, executeV1Compact, executeStream, executeOrdinaryBridged,
       requestSummary, CallHost, Return, summaryReturns, delegateReturns,
       upstreamAnswers, Goto

\* The bridge refuses a Responses request only for a record that deserves it.
LEMMA DeservedStep ==
  ASSUME IInv, NEW r \in Requests, InProtocol(r), Deserved(r), Progress(r)
  PROVE  Deserved(r)'
<1> USE DEF Goto
<1> DEFINE items == ClientItems(r)
<1>0. /\ TypeOK /\ RequestInv(r) /\ client' = client /\ items' = items
      /\ answer \in [Requests -> Answers] /\ pc[r] # "idle" /\ isResponses(r)
      /\ items \in Seq(Items) /\ body[r] \in Bodies
  <2>1. client' = client /\ pc[r] # "idle"
    BY ProgressKeepsClient
  <2> QED BY <2>1, ClientItemsType DEF IInv, TypeOK, InProtocol, ClientItems
<1> HIDE DEF items
<1>1. CASE UNCHANGED answer
  BY <1>0, <1>1 DEF Deserved, items
<1>2. ASSUME NEW a, a.kind # "invalid_state", answer' = [answer EXCEPT ![r] = a]
      PROVE  Deserved(r)'
  BY <1>0, <1>2 DEF Deserved
<1>3. CASE interceptTerminates(r)
  <2>1. inputItems(body[r]) = items
    BY <1>0, <1>3 DEF interceptTerminates, RequestInv, Carried, ClientItems, items
  <2>2. interceptorVerdict(r).verdict \in StateErrors =>
          RecordsOf(items) \cap {"corrupt", "opaque"} # {}
    BY <2>1 DEF interceptorVerdict, normalizeCompactionState, checkCompactionItems,
                StateErrors, inputItems
  <2>3. answer'[r].kind = "invalid_state" => interceptorVerdict(r).verdict \in StateErrors
    BY <1>0, <1>3 DEF interceptTerminates, Answer, Plain
  <2> QED BY <1>0, <2>2, <2>3 DEF Deserved, items
<1>4. CASE handleExecute(r)
  <2>1. pc[r] = "executing"
    BY <1>4 DEF handleExecute, delegateUnbridged, executeV1Compact, executeStream,
                executeOrdinaryBridged, requestSummary, CallHost, Return
  <2> DEFINE held == inputItems(body[r])
  <2>2. held \in {items, rewriteCompactionItems(items)}
    BY <1>0, <2>1, HandedItems DEF items
  <2> HIDE DEF held
  <2>3. summaryVerdict(r) = "invalid_state" => RecordsOf(items) \cap {"corrupt", "opaque"} # {}
    BY <1>0, <2>2, SummaryRefusal DEF summaryVerdict, summaryInput, held
  <2>4. ASSUME NEW kind, Return(r, Plain(kind)),
               kind = "invalid_state" => RecordsOf(items) \cap {"corrupt", "opaque"} # {}
        PROVE  Deserved(r)'
    <3>1. answer'[r].kind = kind
      BY <1>0, <2>4 DEF Return, Answer, Plain
    <3> QED BY <1>0, <2>4, <3>1 DEF Deserved, items
  <2>5. CASE delegateUnbridged(r)
    BY <1>1, <2>5 DEF delegateUnbridged, CallHost
  <2>6. CASE executeV1Compact(r)
    BY <1>1, <2>3, <2>4, <2>6 DEF executeV1Compact, requestSummary, CallHost
  <2>7. CASE executeStream(r)
    BY <1>1, <2>3, <2>4, <2>7 DEF executeStream, streamFailure, requestSummary, CallHost
  <2>8. CASE executeOrdinaryBridged(r)
    <3> DEFINE result == normalizeCompactionState(body[r], "bridge")
    <3>1. result.verdict \in StateErrors => RecordsOf(items) \cap {"corrupt", "opaque"} # {}
      <4>1. result.verdict \in StateErrors => RecordsOf(held) \cap {"corrupt", "opaque"} # {}
        BY DEF normalizeCompactionState, checkCompactionItems, StateErrors, held, inputItems
      <4>2. RecordsOf(held) \subseteq RecordsOf(items)
        BY <1>0, <2>2, RecordsRemain
      <4> QED BY <4>1, <4>2
    <3> QED BY <1>1, <2>4, <2>8, <3>1 DEF executeOrdinaryBridged, CallHost
  <2> QED BY <1>4, <2>5, <2>6, <2>7, <2>8 DEF handleExecute
<1>5. ASSUME NEW reply \in Replies, summaryReturns(r, reply)
      PROVE  Deserved(r)'
  <2>1. compactAnswer(r, reply).kind # "invalid_state"
    BY DEF compactAnswer, Plain
  <2> QED BY <1>2, <1>5, <2>1 DEF summaryReturns, Answer
<1>6. ASSUME NEW reply \in Replies, delegateReturns(r, reply)
      PROVE  Deserved(r)'
  <2>1. PICK kind \in {"bridge_failed", "upstream"} : answer' = [answer EXCEPT ![r] = Plain(kind)]
    BY <1>6 DEF delegateReturns, Answer
  <2> QED BY <1>2, <2>1 DEF Plain
<1>7. CASE upstreamAnswers(r)
  BY <1>2, <1>7 DEF upstreamAnswers, Answer, Plain
<1> QED BY <1>1, <1>3, <1>4, <1>5, <1>6, <1>7
        DEF Progress, handleModelRoute, mergeTranscript, handleRequestInterceptBefore,
            interceptPasses, interceptRewrites, dispatchBuiltin, dispatchExecutor

\* What is retained are messages.
LEMMA RetainedFacts ==
  ASSUME NEW items \in Seq(Items)
  PROVE  /\ retainedItems(items) \in Seq(Items)
         /\ \A k \in DOMAIN retainedItems(items) :
              /\ isRetained(retainedItems(items)[k])
              /\ \E i \in DOMAIN items : retainedItems(items)[k] = items[i]
<1> DEFINE K == {i \in DOMAIN items : isRetained(items[i])}
<1>1. K \in SUBSET (DOMAIN items) /\ retainedItems(items) = ItemsAt(items, K)
  BY DEF retainedItems
<1>2. \A i \in K : isRetained(items[i])
  OBVIOUS
<1> HIDE DEF K
<1> QED BY <1>1, <1>2, ItemsAtFacts

\* No answer of the bridge brings a trigger: what it installs are retained
\* messages and its own item.
LEMMA TriggerlessStep ==
  ASSUME IInv, NEW r \in Requests, Triggerless(r), Progress(r)
  PROVE  Triggerless(r)'
<1>0. answer \in [Requests -> Answers] /\ inputItems(body[r]) \in Seq(Items)
  BY ClientItemsType DEF IInv, TypeOK
<1>1. CASE UNCHANGED answer
  BY <1>1 DEF Triggerless
<1>2. ASSUME NEW a, a.items = <<>>, answer' = [answer EXCEPT ![r] = a]
      PROVE  Triggerless(r)'
  BY <1>0, <1>2 DEF Triggerless
<1>3. ASSUME NEW kind, answer' = [answer EXCEPT ![r] = Plain(kind)]
      PROVE  Triggerless(r)'
  BY <1>2, <1>3 DEF Plain
<1>4. ASSUME NEW reply \in Replies, summaryReturns(r, reply)
      PROVE  Triggerless(r)'
  <2> DEFINE held == inputItems(body[r])
             item == compactionItem(reply.text)
  <2>1. answer'[r] = compactAnswer(r, reply)
    BY <1>0, <1>4 DEF summaryReturns, Answer
  <2>2. PICK w \in {<<>>, <<item>>, Append(retainedItems(held), item)} : answer'[r].items = w
    BY <2>1 DEF compactAnswer, v1CompactWindow, Plain
  <2>3. ~isCompactionTrigger(item)
    BY DEF isCompactionTrigger, compactionItem
  <2>4. /\ retainedItems(held) \in Seq(Items)
        /\ \A k \in DOMAIN retainedItems(held) : ~isCompactionTrigger(retainedItems(held)[k])
    BY <1>0, RetainedFacts DEF isRetained, isCompactionTrigger
  <2>5. \A i \in DOMAIN w : ~isCompactionTrigger(w[i])
    <3> HIDE DEF item, held
    <3> QED BY <2>2, <2>3, <2>4
  <2> QED BY <2>2, <2>5 DEF Triggerless
<1>5. CASE handleExecute(r)
  BY <1>1, <1>3, <1>5
     DEF handleExecute, delegateUnbridged, executeV1Compact, executeStream,
         executeOrdinaryBridged, requestSummary, CallHost, Return, Answer
<1> QED BY <1>1, <1>3, <1>4, <1>5
        DEF Progress, handleModelRoute, mergeTranscript, handleRequestInterceptBefore,
            interceptPasses, interceptRewrites, interceptTerminates, dispatchBuiltin,
            dispatchExecutor, delegateReturns, upstreamAnswers, Answer

\* Every request keeps its part of the invariant, at every step of the session.
LEMMA RequestsStep ==
  ASSUME SInv, SessionNext, NEW s \in Requests
  PROVE  RequestInv(s)' /\ InProtocol(s)' /\ Deserved(s)' /\ Triggerless(s)'
<1>0. /\ STypes /\ IInv /\ TypeOK
      /\ \A r \in Requests : RequestInv(r) /\ InProtocol(r) /\ Deserved(r) /\ Triggerless(r)
  BY DEF SInv, STypes, SessionTypeOK, IInv
<1>1. CASE UNCHANGED vars \/ \E raw \in RawConfigs : handleLifecycle(raw)
  <2>1. Untouched(s)
    BY <1>1 DEF vars, handleLifecycle, Untouched, CallsOf
  <2> QED BY <1>0, <2>1, UntouchedSession
<1>2. ASSUME NEW r \in Requests, attempt(r)
      PROVE  RequestInv(s)' /\ InProtocol(s)' /\ Deserved(s)' /\ Triggerless(s)'
  <2>1. Asks(r)
    BY <1>0, <1>2, RequestType DEF attempt, Asks
  <2>2. CASE s = r
    <3>1. RequestInv(r)'
      BY <1>0, <2>1, RequestStep
    <3>2. client'[r] = request /\ answer' = answer /\ pc[r] = "idle"
      BY <1>0, <1>2 DEF attempt, clientSends, Goto, TypeOK
    <3>3. InProtocol(r)'
      BY <1>0, <1>2, <3>2, RequestType DEF InProtocol, isResponses, attempt
    <3>4. answer[r].kind = "none"
      BY <1>0, <3>2 DEF RequestInv, Spending
    <3> QED BY <1>0, <2>2, <3>1, <3>2, <3>3, <3>4 DEF Deserved, Triggerless
  <2>3. CASE s # r
    <3>1. Untouched(s)
      BY <1>0, <2>1, <2>3, OthersUntouched
    <3> QED BY <1>0, <3>1, UntouchedSession
  <2> QED BY <2>2, <2>3
<1>3. ASSUME NEW r \in Requests, BridgeMoves(r)
      PROVE  RequestInv(s)' /\ InProtocol(s)' /\ Deserved(s)' /\ Triggerless(s)'
  <2>1. Progress(r)
    BY <1>0, <1>3, StepsAreProgress DEF BridgeMoves
  <2>2. CASE s = r
    <3>1. RequestInv(r)' /\ Deserved(r)' /\ Triggerless(r)'
      BY <1>0, <2>1, RequestStep, DeservedStep, TriggerlessStep
    <3>2. client' = client /\ pc[r] # "idle"
      BY <2>1, ProgressKeepsClient
    <3> QED BY <1>0, <2>2, <3>1, <3>2 DEF InProtocol, isResponses
  <2>3. CASE s # r
    <3>1. Untouched(s)
      BY <1>0, <2>1, <2>3, OthersUntouched
    <3> QED BY <1>0, <3>1, UntouchedSession
  <2> QED BY <2>2, <2>3
<1>4. ASSUME NEW r \in Requests, Receive(r)
      PROVE  RequestInv(s)' /\ InProtocol(s)' /\ Deserved(s)' /\ Triggerless(s)'
  <2>1. Release(r)
    BY <1>4 DEF Receive, refused, failed, conversed, installsV1, installsV2,
                installsNative, discarded
  <2>2. CASE s = r
    BY <2>1, <2>2, ReleasedInv
  <2>3. CASE s # r
    BY <1>0, <2>1, <2>3, ReleaseUntouched, UntouchedSession
  <2> QED BY <2>2, <2>3
<1> QED BY <1>1, <1>2, <1>3, <1>4
        DEF SessionNext, Reconfigured, Reconfigure, beginTurn, abandon

\* What the client waits for stays the request of its turn.
LEMMA BoundStep ==
  ASSUME SInv, SessionNext
  PROVE  Bound'
<1>0. /\ Bound /\ pc \in [Requests -> Phases] /\ client \in [Requests -> ClientRequests]
      /\ current \in Requests \cup {Nobody} /\ Nobody \notin Requests
  BY TextFacts DEF SInv, STypes, SessionTypeOK, TypeOK
<1>1. CASE UNCHANGED <<turn, history, said, current>> /\ UNCHANGED <<pc, client>>
  BY <1>0, <1>1 DEF Bound, request, newItems, Message, TriggerItem
<1>2. ASSUME NEW t \in Turns, beginTurn(t)
      PROVE  Bound'
  BY <1>2 DEF beginTurn, SInv, STypes, Counted, Bound
<1>3. CASE abandon
  BY <1>3 DEF abandon, Bound
<1>4. ASSUME NEW r \in Requests, attempt(r)
      PROVE  Bound'
  <2>1. /\ current' = r /\ pc'[r] = "routing" /\ client'[r] = request
        /\ UNCHANGED <<turn, history, said>>
    BY <1>0, <1>4 DEF attempt, clientSends, Goto
  <2> QED BY <2>1 DEF Bound, request, newItems, Message, TriggerItem
<1>5. ASSUME NEW r \in Requests, BridgeMoves(r)
      PROVE  Bound'
  <2>1. client' = client /\ pc[r] # "idle" /\ pc' = [pc EXCEPT ![r] = pc'[r]]
    BY <1>5, StepsAreProgress, ProgressKeepsClient DEF BridgeMoves, SInv
  <2>2. pc'[r] # "idle"
    BY <1>0, <1>5 DEF BridgeMoves, BridgeSteps, handleModelRoute, mergeTranscript,
       handleRequestInterceptBefore, interceptPasses, interceptRewrites,
       interceptTerminates, dispatchBuiltin, dispatchExecutor, handleExecute,
       delegateUnbridged, executeV1Compact, executeStream, executeOrdinaryBridged,
       requestSummary, CallHost, Return, summaryReturns, delegateReturns,
       upstreamAnswers, Goto
  <2>3. UNCHANGED <<turn, history, said, current>>
    BY <1>5 DEF BridgeMoves, sessionVars
  <2> QED BY <1>0, <2>1, <2>2, <2>3 DEF Bound, request, newItems, Message, TriggerItem
<1>6. ASSUME NEW r \in Requests, Receive(r), ~discarded(r)
      PROVE  Bound'
  <2>1. current' = Nobody
    BY <1>6 DEF Receive, refused, failed, conversed, installsV1, installsV2, installsNative,
                EndTurn
  <2> QED BY <2>1 DEF Bound
<1>7. ASSUME NEW r \in Requests, discarded(r)
      PROVE  Bound'
  <2>1. /\ current # r /\ UNCHANGED <<turn, history, said, current>>
        /\ \A s \in Requests : s # r => pc'[s] = pc[s] /\ client'[s] = client[s]
    BY <1>0, <1>7 DEF discarded, Release, sessionVars
  <2> QED BY <1>0, <2>1 DEF Bound, request, newItems, Message, TriggerItem
<1>8. CASE Reconfigured
  BY <1>1, <1>8 DEF Reconfigured, Reconfigure, handleLifecycle, sessionVars
<1>9. CASE UNCHANGED allVars
  BY <1>1, <1>9 DEF allVars, vars, sessionVars
<1> QED BY <1>2, <1>3, <1>4, <1>5, <1>6, <1>7, <1>8 DEF SessionNext

-----------------------------------------------------------------------------
(* The history stays tidy *)

\* The records are those of the compaction items, one by one.
LEMMA CorruptRecord ==
  ASSUME NEW items
  PROVE  "corrupt" \notin RecordsOf(items) <=>
           \A i \in DOMAIN items :
             isCompactionItemAny(items[i]) => compactionRecordOf(items[i]) # "corrupt"
BY DEF RecordsOf

\* Messages added to a tidy history leave it tidy.
LEMMA TidyMessages ==
  ASSUME NEW items \in Seq(Items), Tidy(items), NEW added \in Seq(Items),
         \A i \in DOMAIN added : ~isCompactionItemAny(added[i]) /\ ~isCompactionTrigger(added[i])
  PROVE  Tidy(items \o added)
<1> DEFINE all == items \o added
<1>1. \A i \in DOMAIN all :
        \/ i \in DOMAIN items /\ all[i] = items[i]
        \/ /\ i - Len(items) \in DOMAIN added /\ all[i] = added[i - Len(items)]
           /\ ~isCompactionItemAny(all[i]) /\ ~isCompactionTrigger(all[i])
  OBVIOUS
<1> HIDE DEF all
<1>2. \A i \in DOMAIN all :
        /\ isCompactionItemAny(all[i]) => i \in DOMAIN items /\ isCompactionItemAny(items[i])
        /\ isCompactionItemAny(all[i]) => compactionRecordOf(all[i]) # "corrupt"
        /\ ~isCompactionTrigger(all[i])
  BY <1>1, CorruptRecord DEF Tidy
<1>3. \A i, j \in DOMAIN all :
        isCompactionItemAny(all[i]) /\ isCompactionItemAny(all[j]) => i = j
  BY <1>2 DEF Tidy
<1>4. Tidy(all)
  BY <1>2, <1>3, CorruptRecord DEF Tidy
<1> QED BY <1>4 DEF all

\* Retained messages followed by a window with one usable item, its last, are
\* tidy.
LEMMA TidyWindow ==
  ASSUME NEW kept \in Seq(Items), NEW w \in Seq(Items),
         \A i \in DOMAIN kept : ~isCompactionItemAny(kept[i]) /\ ~isCompactionTrigger(kept[i]),
         {i \in DOMAIN w : isCompactionItemAny(w[i])} = {Len(w)},
         compactionRecordOf(w[Len(w)]) # "corrupt",
         \A i \in DOMAIN w : ~isCompactionTrigger(w[i])
  PROVE  Tidy(kept \o w)
<1> DEFINE all == kept \o w
           last == Len(kept) + Len(w)
<1>1. \A i \in DOMAIN w : isCompactionItemAny(w[i]) <=> i = Len(w)
  OBVIOUS
<1>2. \A i \in DOMAIN all :
        \/ i \in DOMAIN kept /\ all[i] = kept[i]
        \/ i - Len(kept) \in DOMAIN w /\ all[i] = w[i - Len(kept)]
  OBVIOUS
<1>3. DOMAIN all \subseteq Nat /\ Len(kept) \in Nat /\ Len(w) \in Nat
  OBVIOUS
<1> HIDE DEF all
<1>4. ASSUME NEW i \in DOMAIN all
      PROVE  /\ isCompactionItemAny(all[i]) => i = last
             /\ isCompactionItemAny(all[i]) => compactionRecordOf(all[i]) # "corrupt"
             /\ ~isCompactionTrigger(all[i])
  <2>1. CASE i \in DOMAIN kept /\ all[i] = kept[i]
    BY <2>1
  <2>2. CASE i - Len(kept) \in DOMAIN w /\ all[i] = w[i - Len(kept)]
    <3>1. i - Len(kept) = Len(w) <=> i = last
      BY <1>3
    <3>2. isCompactionItemAny(all[i]) => i - Len(kept) = Len(w)
      BY <1>1, <2>2
    <3>3. ~isCompactionTrigger(all[i])
      BY <2>2
    <3>4. i - Len(kept) = Len(w) => compactionRecordOf(all[i]) # "corrupt"
      BY <2>2
    <3> QED BY <3>1, <3>2, <3>3, <3>4
  <2> QED BY <1>2, <2>1, <2>2
<1>5. \A i, j \in DOMAIN all :
        isCompactionItemAny(all[i]) /\ isCompactionItemAny(all[j]) => i = j
  BY <1>4
<1>6. Tidy(all)
  BY <1>4, <1>5, CorruptRecord DEF Tidy
<1> QED BY <1>6 DEF all

\* Whatever a turn installs is tidy.
LEMMA TidyStep ==
  ASSUME SInv, SessionNext
  PROVE  Tidy(history)'
<1>0. STypes /\ Tidy(history) /\ history \in Seq(Items)
  BY DEF SInv, STypes, SessionTypeOK
<1>1. CASE UNCHANGED history
  BY <1>0, <1>1 DEF Tidy
<1>2. \A items \in Seq(Items) :
        \A k \in DOMAIN retainedItems(items) :
          /\ ~isCompactionItemAny(retainedItems(items)[k])
          /\ ~isCompactionTrigger(retainedItems(items)[k])
  BY RetainedFacts DEF isRetained, isCompactionItemAny, isCompactionTrigger
<1>3. ASSUME NEW r \in Requests, conversed(r)
      PROVE  Tidy(history)'
  <2> DEFINE reply == <<Message("assistant", said + 2)>>
             said1 == <<Message("user", said + 1)>>
  <2>1. /\ newItems = said1 /\ newItems \in Seq(Items) /\ reply \in Seq(Items)
        /\ history' = history \o newItems \o reply
    <3>1. turn.kind = "message" /\ history' = history \o newItems \o reply
      BY <1>3 DEF conversed, Install
    <3>2. newItems \in Seq(Items) /\ reply \in Seq(Items)
      BY <1>0, <3>1, NewItemsType
    <3> QED BY <3>1, <3>2 DEF newItems
  <2>2. \A role, n : ~isCompactionItemAny(Message(role, n)) /\ ~isCompactionTrigger(Message(role, n))
    BY DEF Message, isCompactionItemAny, isCompactionTrigger
  <2>3. Tidy(history \o newItems) /\ history \o newItems \in Seq(Items)
    <3>1. \A i \in DOMAIN newItems : newItems[i] = Message("user", said + 1)
      BY <2>1
    <3>2. \A i \in DOMAIN newItems : ~isCompactionItemAny(newItems[i]) /\ ~isCompactionTrigger(newItems[i])
      BY <2>2, <3>1
    <3>3. history \in Seq(Items) /\ newItems \in Seq(Items) /\ Tidy(history)
      BY <1>0, <2>1
    <3>4. history \o newItems \in Seq(Items)
      BY <3>3
    <3>5. Tidy(history \o newItems)
      BY <3>2, <3>3, TidyMessages
    <3> QED BY <3>4, <3>5
  <2>4. Tidy(history \o newItems \o reply)
    <3>1. \A i \in DOMAIN reply : reply[i] = Message("assistant", said + 2)
      OBVIOUS
    <3>2. \A i \in DOMAIN reply : ~isCompactionItemAny(reply[i]) /\ ~isCompactionTrigger(reply[i])
      BY <2>2, <3>1
    <3> QED BY <2>1, <2>3, <3>2, TidyMessages
  <2> QED BY <2>1, <2>4 DEF Tidy
<1>4. ASSUME NEW r \in Requests, installsV1(r) \/ installsV2(r)
      PROVE  Tidy(history)'
  <2> DEFINE w == answer[r].items
  <2>1. /\ {i \in DOMAIN w : isCompactionItemAny(w[i])} = {Len(w)}
        /\ compactionRecordOf(w[Len(w)]) # "corrupt"
        /\ \A i \in DOMAIN w : ~isCompactionTrigger(w[i])
    BY <1>4 DEF installsV1, installsV2, Received, SInv, RequestInv, Installed, Triggerless
  <2>2. PICK kept \in {<<>>, retainedItems(history)} : history' = kept \o w
    BY <1>0, <1>4, InstallTypes DEF installsV1, installsV2, Install
  <2>3. /\ kept \in Seq(Items) /\ w \in Seq(Items)
        /\ \A i \in DOMAIN kept : ~isCompactionItemAny(kept[i]) /\ ~isCompactionTrigger(kept[i])
    <3>1. w \in Seq(Items) /\ <<>> \in Seq(Items) /\ retainedItems(history) \in Seq(Items)
      BY <1>0, InstallTypes
    <3> HIDE DEF w
    <3>2. CASE kept = <<>>
      BY <3>1, <3>2
    <3>3. CASE kept = retainedItems(history)
      BY <1>0, <1>2, <3>1, <3>3
    <3> QED BY <2>2, <3>2, <3>3
  <2>4. Tidy(kept \o w)
    <3> HIDE DEF w
    <3> QED BY <2>1, <2>3, TidyWindow
  <2> QED BY <2>2, <2>4 DEF Tidy
<1>5. ASSUME NEW r \in Requests, installsNative(r)
      PROVE  Tidy(history)'
  <2>1. PICK c \in upstream :
          history' = Append(retainedItems(IF turn.kind = "v1" THEN c.items ELSE history),
                            OpaqueItem(Readable(c.items)))
    BY <1>5 DEF installsNative, Install
  <2> DEFINE item == OpaqueItem(Readable(c.items))
  <2>2. PICK items \in {c.items, history} : history' = Append(retainedItems(items), item)
    BY <2>1
  <2>3. items \in Seq(Items) /\ retainedItems(items) \in Seq(Items) /\ item \in Items
    BY <1>0, <2>2, InstallTypes
  <2>4. ~isCompactionTrigger(item) /\ compactionRecordOf(item) # "corrupt" /\ isCompactionItemAny(item)
    BY DEF OpaqueItem, isCompactionTrigger, compactionRecordOf, isCPACompaction, isCompactionItemAny
  <2> HIDE DEF item
  <2>5. /\ {i \in DOMAIN <<item>> : isCompactionItemAny(<<item>>[i])} = {Len(<<item>>)}
        /\ <<item>>[Len(<<item>>)] = item /\ <<item>> \in Seq(Items)
        /\ \A i \in DOMAIN <<item>> : <<item>>[i] = item
    BY <2>3, <2>4
  <2>6. Tidy(retainedItems(items) \o <<item>>)
    BY <1>2, <2>3, <2>4, <2>5, TidyWindow
  <2>7. Append(retainedItems(items), item) = retainedItems(items) \o <<item>>
    BY <2>3, AppendIsConcat
  <2> QED BY <2>2, <2>6, <2>7 DEF Tidy
<1>6. ASSUME NEW r \in Requests, refused(r) \/ failed(r) \/ discarded(r)
      PROVE  UNCHANGED history
  BY <1>6 DEF refused, failed, discarded, sessionVars
<1> QED BY <1>1, <1>3, <1>4, <1>5, <1>6
        DEF SessionNext, Reconfigured, BridgeMoves, Receive, sessionVars, beginTurn,
            abandon, attempt

-----------------------------------------------------------------------------
(* The theorems *)

\* A session begins in the invariant.
LEMMA SessionStart == SessionInit => SInv
<1> SUFFICES ASSUME SessionInit
             PROVE  SInv
  OBVIOUS
<1>1. IInv /\ TypeOK
  BY InitInv DEF SessionInit, IInv
<1>2. \A r \in Requests : pc[r] = "idle" /\ answer[r].kind = "none" /\ answer[r].items = <<>>
  BY DEF SessionInit, Init, Plain
<1>3. /\ history \in Seq(Items) /\ said \in 0..(2 * MaxTurns) /\ turns \in 0..MaxTurns
      /\ attempts \in 0..MaxRetries
  BY TextFacts DEF SessionInit
<1>4. turn \in Turns
  BY CompactBridgeAssumption DEF SessionInit, Turns, ClientRequests
<1>5. STypes
  BY <1>1, <1>3, <1>4 DEF STypes, SessionTypeOK, Counted, SessionInit
<1>6. Tidy(history)
  BY CorruptRecord DEF SessionInit, Tidy
<1> QED BY <1>1, <1>2, <1>5, <1>6
        DEF SInv, IInv, InProtocol, Deserved, Triggerless, Bound, SessionInit

\* Every step of a session keeps the invariant.
LEMMA SessionNextInv == SInv /\ [SessionNext]_allVars => SInv'
<1> SUFFICES ASSUME SInv, [SessionNext]_allVars
             PROVE  SInv'
  OBVIOUS
<1>1. CASE SessionNext
  <2>1. STypes'
    BY <1>1, SessionTypeStep DEF SInv
  <2> QED BY <1>1, <2>1, RequestsStep, BoundStep, TidyStep DEF SInv
<1>2. CASE UNCHANGED allVars
  <2>1. UNCHANGED vars /\ UNCHANGED sessionVars
    BY <1>2 DEF allVars
  <2>2. STypes'
    BY <2>1 DEF vars, sessionVars, SInv, STypes, SessionTypeOK, TypeOK, Counted
  <2>3. ASSUME NEW r \in Requests
        PROVE  RequestInv(r)' /\ InProtocol(r)' /\ Deserved(r)' /\ Triggerless(r)'
    <3>1. Untouched(r)
      BY <2>1 DEF vars, Untouched, CallsOf
    <3> QED BY <3>1, UntouchedSession DEF SInv
  <2>4. Bound' /\ Tidy(history)'
    BY <2>1 DEF vars, sessionVars, SInv, Bound, Tidy, request, newItems, Message, TriggerItem
  <2> QED BY <2>2, <2>3, <2>4 DEF SInv
<1> QED BY <1>1, <1>2

\* The invariant of every session.
THEOREM SessionInductive == SessionSpec => []SInv
BY SessionStart, SessionNextInv, PTL DEF SessionSpec

\* A session's variables keep their types: the messages said stay within two for
\* each turn, and a failed attempt is repeated at most MaxRetries times.
THEOREM SessionTyped == SessionSpec => []SessionTypeOK
<1>1. SInv => SessionTypeOK
  BY DEF SInv, STypes
<1> QED BY <1>1, SessionInductive, PTL

\* A history without native state is never refused (checkCompactionItems,
\* normalizeCompactionState): what a session sends is its history and new items,
\* and of these only an opaque item deserves a refusal.
THEOREM NeverRefused == SessionSpec => []RefusedOnlyForNativeState
<1>1. SInv => RefusedOnlyForNativeState
  <2> SUFFICES ASSUME SInv, NEW r \in Requests, current = r, answer[r].kind = "invalid_state"
               PROVE  hasOpaque(history)
    BY DEF RefusedOnlyForNativeState
  <2>1. STypes /\ current # Nobody /\ Tidy(history) /\ Deserved(r)
    BY TextFacts DEF SInv
  <2>2. client[r] = request /\ turn.kind # "none"
    BY <2>1 DEF SInv, Bound, STypes, Counted
  <2>3. ClientItems(r) = history \o newItems
    BY <2>1, <2>2, RequestType DEF ClientItems
  <2>4. PICK record \in RecordsOf(history \o newItems) : record \in {"corrupt", "opaque"}
    BY <2>1, <2>3 DEF Deserved
  <2> DEFINE all == history \o newItems
  <2>5. PICK i \in DOMAIN all : isCompactionItemAny(all[i]) /\ record = compactionRecordOf(all[i])
    BY <2>4 DEF RecordsOf
  <2>6. history \in Seq(Items) /\ newItems \in Seq(Items)
    BY <2>1, <2>2, NewItemsType DEF STypes, SessionTypeOK
  <2>7. \A k \in DOMAIN newItems : ~isCompactionItemAny(newItems[k])
    BY DEF newItems, Message, TriggerItem, isCompactionItemAny
  <2>8. i \in DOMAIN history /\ all[i] = history[i]
    BY <2>5, <2>6, <2>7
  <2>9. compactionRecordOf(history[i]) # "corrupt"
    BY <2>1, <2>5, <2>8, CorruptRecord DEF Tidy
  <2>10. isCompactionItemAny(history[i]) /\ compactionRecordOf(history[i]) = "opaque"
    BY <2>4, <2>5, <2>8, <2>9
  <2> QED BY <2>8, <2>10 DEF hasOpaque, compactionRecordOf
<1> QED BY <1>1, SessionInductive, PTL

\* Compaction never stacks (v1CompactWindow, compactionItem): however a session
\* compacts, its history holds at most one compaction item and no trigger.
THEOREM OneState == SessionSpec => []OneStateAtMost
<1>1. SInv => OneStateAtMost
  <2> SUFFICES ASSUME SInv
               PROVE  OneStateAtMost
    OBVIOUS
  <2> DEFINE K == {i \in DOMAIN history : isCompactionItemAny(history[i])}
  <2>1. Tidy(history)
    BY DEF SInv
  <2>2. \A i, j \in K : i = j
    BY <2>1 DEF Tidy
  <2>3. Cardinality(K) <= 1
    <3> HIDE DEF K
    <3>1. CASE K = {}
      BY <3>1, FS_EmptySet
    <3>2. ASSUME NEW i \in K
          PROVE  Cardinality(K) <= 1
      <4>1. K = {i}
        BY <2>2
      <4> QED BY <4>1, FS_Singleton
    <3> QED BY <3>1, <3>2
  <2> QED BY <2>1, <2>3 DEF Tidy, OneStateAtMost
<1> QED BY <1>1, SessionInductive, PTL

-----------------------------------------------------------------------------
(* What is remembered *)

\* A summary restored as a message tells of the same.
LEMMA RestoredTells ==
  ASSUME NEW items \in Seq(Items)
  PROVE  Remembered(rewriteCompactionItems(items)) = Remembered(items)
<1>1. \A item : rewriteItem(item).text = item.text
  BY DEF rewriteItem, compactToUserMessage
<1>2. DOMAIN rewriteCompactionItems(items) = DOMAIN items
  BY DEF rewriteCompactionItems
<1>3. \A i \in DOMAIN items : rewriteCompactionItems(items)[i].text = items[i].text
  BY <1>1 DEF rewriteCompactionItems
<1> QED BY <1>2, <1>3 DEF Remembered

\* Triggers that tell of nothing can be left out.
LEMMA TriggersTellNothing ==
  ASSUME NEW items \in Seq(Items),
         \A i \in DOMAIN items : isCompactionTrigger(items[i]) => items[i].text = {}
  PROVE  nonTriggers(items) \in Seq(Items) /\ Remembered(nonTriggers(items)) = Remembered(items)
<1> DEFINE K == {i \in DOMAIN items : ~isCompactionTrigger(items[i])}
<1>1. K \in SUBSET (DOMAIN items) /\ nonTriggers(items) = ItemsAt(items, K)
  BY DEF nonTriggers
<1>2. \A i \in DOMAIN items : i \notin K => items[i].text = {}
  OBVIOUS
<1> HIDE DEF K
<1>3. /\ ItemsAt(items, K) \in Seq(Items)
      /\ \A k \in DOMAIN ItemsAt(items, K) :
           NthOf(K, k) \in DOMAIN items /\ ItemsAt(items, K)[k] = items[NthOf(K, k)]
  BY <1>1, ItemsAtFacts
<1>4. \A i \in K : \E k \in DOMAIN ItemsAt(items, K) : ItemsAt(items, K)[k] = items[i]
  BY <1>1, ItemsAtAll
<1>5. Remembered(ItemsAt(items, K)) \subseteq Remembered(items)
  BY <1>3 DEF Remembered
<1>6. Remembered(items) \subseteq Remembered(ItemsAt(items, K))
  BY <1>2, <1>4 DEF Remembered
<1> QED BY <1>1, <1>3, <1>5, <1>6

\* Retaining adds nothing.
LEMMA RetainedTells ==
  ASSUME NEW items \in Seq(Items)
  PROVE  retainedItems(items) \in Seq(Items) /\ Remembered(retainedItems(items)) \subseteq Remembered(items)
BY RetainedFacts DEF Remembered

\* Two sequences tell of what each tells.
LEMMA BothTell ==
  ASSUME NEW s \in Seq(Items), NEW t \in Seq(Items)
  PROVE  Remembered(s \o t) = Remembered(s) \cup Remembered(t)
<1> DEFINE all == s \o t
<1>1. /\ \A i \in DOMAIN all : \/ i \in DOMAIN s /\ all[i] = s[i]
                               \/ i - Len(s) \in DOMAIN t /\ all[i] = t[i - Len(s)]
      /\ \A i \in DOMAIN s : i \in DOMAIN all /\ all[i] = s[i]
      /\ \A i \in DOMAIN t : i + Len(s) \in DOMAIN all /\ all[i + Len(s)] = t[i]
  BY ConcatProperties
<1> HIDE DEF all
<1>2. Remembered(all) \subseteq Remembered(s) \cup Remembered(t)
  BY <1>1 DEF Remembered
<1>3. Remembered(s) \subseteq Remembered(all) /\ Remembered(t) \subseteq Remembered(all)
  BY <1>1 DEF Remembered
<1> QED BY <1>2, <1>3 DEF all

\* One item tells of its text.
LEMMA OneTells ==
  ASSUME NEW item
  PROVE  Remembered(<<item>>) = item.text
BY DEF Remembered

\* One more item tells of its text too.
LEMMA OneMoreTells ==
  ASSUME NEW s \in Seq(Items), NEW item \in Items
  PROVE  Remembered(Append(s, item)) = Remembered(s) \cup item.text
<1>1. Append(s, item) = s \o <<item>> /\ <<item>> \in Seq(Items)
  BY AppendIsConcat
<1> QED BY <1>1, BothTell, OneTells

-----------------------------------------------------------------------------
(* What each request keeps of it *)

\* Triggers tell of nothing.
Silent(r) ==
  \A i \in DOMAIN ClientItems(r) :
    isCompactionTrigger(ClientItems(r)[i]) => ClientItems(r)[i].text = {}

\* A compact turn, as the executor tells one (detectV1Compact, detectV2Trigger).
AsksToCompact(r) == client[r].compact \/ detectV2Trigger(ClientItems(r))

\* What the executor may have been handed.
Given(r) == {ClientItems(r), rewriteCompactionItems(ClientItems(r))}

\* The compaction item of a model that leaves nothing out.
SummaryOf(r) == compactionItem(Remembered(ClientItems(r)))

\* A summary answers a compact turn that brought no native state, and tells of all
\* its request told, after the messages retained of what the executor was handed.
Whole(r) ==
  /\ pc[r] # "idle" => Silent(r)
  /\ pc[r] = "calling" /\ op[r] \in {"v1", "v2"} =>
       /\ inputItems(body[r]) \in Given(r)
       /\ AsksToCompact(r)
       /\ \A c \in CallsOf(r) : c.via = "summary"
  /\ answer[r].kind = "compact_stream" => answer[r].items = <<SummaryOf(r)>>
  /\ answer[r].kind = "compact_window" =>
       \E held \in Given(r) : answer[r].items = Append(retainedItems(held), SummaryOf(r))
  /\ answer[r].kind \in {"compact_window", "compact_stream"} =>
       AsksToCompact(r) /\ ~hasOpaque(ClientItems(r))

\* The model reads all that the request tells, whichever policed call reaches it.
LEMMA CallTells ==
  ASSUME SInv, NEW r \in Requests, pc[r] # "idle", Silent(r),
         NEW c \in upstream, c.req = r, Policed(c)
  PROVE  /\ Readable(c.items) = Remembered(ClientItems(r))
         /\ Remembered(c.items) = Remembered(ClientItems(r))
<1>1. Sound(c) /\ isResponses(r) /\ ClientItems(r) \in Seq(Items)
  BY ClientItemsType DEF SInv, STypes, SessionTypeOK, RequestInv, CallsOf, InProtocol
<1>2. /\ ~Sends(c, isCPACompaction)
      /\ c.items = rewriteCompactionItems(IF c.via = "summary" THEN nonTriggers(ClientItems(r))
                                          ELSE ClientItems(r))
  BY <1>1 DEF Sound
<1>3. Readable(c.items) = Remembered(c.items)
  BY <1>2 DEF Readable, Remembered, Sends
<1>4. PICK items \in {nonTriggers(ClientItems(r)), ClientItems(r)} :
        c.items = rewriteCompactionItems(items)
  BY <1>2
<1>5. items \in Seq(Items) /\ Remembered(items) = Remembered(ClientItems(r))
  BY <1>1, <1>4, TriggersTellNothing DEF Silent
<1> QED BY <1>3, <1>4, <1>5, RestoredTells

\* Native state would reach the summary model: it is neither dropped nor rewritten.
LEMMA OpaqueReaches ==
  ASSUME NEW items \in Seq(Items), hasOpaque(items)
  PROVE  LET out == rewriteCompactionItems(nonTriggers(items))
         IN  \E k \in DOMAIN out : isCompactionItemAny(out[k])
<1> DEFINE K == {i \in DOMAIN items : ~isCompactionTrigger(items[i])}
           kept == ItemsAt(items, K)
<1>1. PICK i \in DOMAIN items : isCompactionItemAny(items[i]) /\ ~isCPACompaction(items[i])
  BY DEF hasOpaque
<1>2. i \in K /\ K \in SUBSET (DOMAIN items) /\ nonTriggers(items) = kept
  BY <1>1 DEF isCompactionItemAny, isCompactionTrigger, nonTriggers
<1> HIDE DEF K
<1>3. PICK k \in DOMAIN kept : kept[k] = items[i]
  BY <1>2, ItemsAtAll
<1> HIDE DEF kept
<1>4. k \in DOMAIN rewriteCompactionItems(kept) /\ rewriteCompactionItems(kept)[k] = rewriteItem(kept[k])
  BY DEF rewriteCompactionItems
<1>5. rewriteItem(kept[k]) = items[i]
  BY <1>1, <1>3 DEF rewriteItem, compactionRecordOf
<1> QED BY <1>1, <1>2, <1>4, <1>5

\* A summary that tells of all the model read makes an answer that tells of all the
\* request told.
LEMMA SummaryTells ==
  ASSUME SInv, NEW r \in Requests, Whole(r),
         NEW reply \in repliesTo(r), summaryReturns(r, reply)
  PROVE  Whole(r)'
<1> DEFINE items == ClientItems(r)
           held == inputItems(body[r])
<1>1. /\ pc[r] = "calling" /\ pc'[r] = "answered" /\ op[r] \in {"v1", "v2"} /\ client' = client
      /\ answer'[r] = compactAnswer(r, reply) /\ items' = items
      /\ items \in Seq(Items) /\ Silent(r) /\ AsksToCompact(r) /\ held \in Given(r)
      /\ \A c \in CallsOf(r) : c.via = "summary"
  BY ClientItemsType DEF summaryReturns, Goto, Answer, SInv, STypes, SessionTypeOK, TypeOK, Whole,
                         ClientItems
<1>2. ASSUME answer'[r].kind \in {"compact_window", "compact_stream"}
      PROVE  /\ answer'[r].kind = "compact_stream" => answer'[r].items = <<SummaryOf(r)>>
             /\ answer'[r].kind = "compact_window" =>
                  answer'[r].items = Append(retainedItems(held), SummaryOf(r))
             /\ ~hasOpaque(items)
  <2>1. /\ reply.kind = "text"
        /\ answer'[r].kind = "compact_stream" => answer'[r].items = <<compactionItem(reply.text)>>
        /\ answer'[r].kind = "compact_window" =>
             answer'[r].items = Append(retainedItems(held), compactionItem(reply.text))
    BY <1>1, <1>2 DEF compactAnswer, usableSummary, v1CompactWindow, Plain
  <2>2. PICK c \in upstream : c.req = r /\ reply.text = Readable(c.items)
    BY <2>1 DEF repliesTo
  <2>3. c.via = "summary" /\ Policed(c)
    BY <1>1, <2>2 DEF CallsOf, Policed
  <2>4. reply.text = Remembered(items)
    BY <1>1, <2>2, <2>3, CallTells
  <2>5. ~hasOpaque(items)
    <3>1. Sound(c) /\ isResponses(r)
      BY <1>1, <2>2 DEF SInv, RequestInv, CallsOf, InProtocol
    <3>2. ~Sends(c, isCompactionItemAny) /\ c.items = rewriteCompactionItems(nonTriggers(items))
      BY <2>2, <2>3, <3>1 DEF Sound
    <3> QED BY <1>1, <3>2, OpaqueReaches DEF Sends
  <2> QED BY <2>1, <2>4, <2>5 DEF SummaryOf
<1>3. Given(r)' = Given(r) /\ SummaryOf(r)' = SummaryOf(r)
  BY <1>1 DEF Given, SummaryOf
<1> QED BY <1>1, <1>2, <1>3 DEF Whole, Silent, AsksToCompact

\* A step that makes no summary call and answers with no summary.
LEMMA NoSummaryWhole ==
  ASSUME NEW r \in Requests, Whole(r), client' = client, pc[r] # "idle",
         pc'[r] # "calling" \/ op'[r] \notin {"v1", "v2"},
         answer'[r] = answer[r] \/ answer'[r].kind \notin {"compact_window", "compact_stream"}
  PROVE  Whole(r)'
BY DEF Whole, Silent, AsksToCompact, Given, SummaryOf, ClientItems

\* A summary call is made for a compact turn, from the client's own items.
LEMMA SummaryCallWhole ==
  ASSUME SInv, NEW r \in Requests, Whole(r), NEW b \in {"v1", "v2"}, requestSummary(r, b),
         client[r].compact \/ detectV2Trigger(inputItems(body[r]))
  PROVE  Whole(r)'
<1>1. /\ pc[r] = "executing" /\ IInv /\ isResponses(r) /\ ClientItems(r) \in Seq(Items)
      /\ client' = client /\ body' = body /\ answer' = answer
  BY ClientItemsType DEF requestSummary, CallHost, Goto, SInv, IInv, STypes, SessionTypeOK, InProtocol
<1>2. inputItems(body[r]) \in Given(r)
  BY <1>1, HandedItems DEF Given
<1>3. AsksToCompact(r)
  BY <1>1, <1>2, TriggerRestored DEF AsksToCompact, Given
<1>4. \A c \in CallsOf(r)' : c.via = "summary"
  <2>1. CallsOf(r) = {}
    BY <1>1 DEF SInv, RequestInv, Spending, EarlyPhases
  <2> QED BY <2>1 DEF requestSummary, CallHost, CallModel, CallsOf
<1> QED BY <1>1, <1>2, <1>3, <1>4 DEF Whole, Silent, AsksToCompact, Given, SummaryOf, ClientItems

\* handleExecute, every branch.
LEMMA ExecutorWhole ==
  ASSUME SInv, NEW r \in Requests, Whole(r), handleExecute(r)
  PROVE  Whole(r)'
<1>0. /\ pc \in [Requests -> Phases] /\ op \in [Requests -> Branches]
      /\ answer \in [Requests -> Answers]
  BY DEF SInv, STypes, SessionTypeOK, TypeOK
<1>1. ASSUME NEW b \in {"delegate", "ordinary"}, NEW via, NEW model, NEW items,
             CallHost(r, b, via, model, items)
      PROVE  Whole(r)'
  BY <1>0, <1>1, NoSummaryWhole DEF CallHost, Goto
<1>2. ASSUME NEW kind \in {"invalid_state", "bridge_failed", "stream_failed"}, Return(r, Plain(kind))
      PROVE  Whole(r)'
  BY <1>0, <1>2, NoSummaryWhole DEF Return, Goto, Answer, Plain
<1>3. CASE delegateUnbridged(r)
  BY <1>1, <1>3 DEF delegateUnbridged
<1>4. CASE executeV1Compact(r)
  <2>1. client[r].compact
    BY <1>4 DEF executeV1Compact, detectV1Compact
  <2> QED BY <1>2, <1>4, <2>1, SummaryCallWhole DEF executeV1Compact
<1>5. CASE executeStream(r)
  <2>1. CASE takesV2(r) /\ requestSummary(r, "v2")
    BY <2>1, SummaryCallWhole DEF takesV2
  <2>2. CASE Return(r, Plain(streamFailure(r)))
    BY <1>2, <2>2 DEF streamFailure
  <2> QED BY <1>5, <2>1, <2>2 DEF executeStream
<1>6. CASE executeOrdinaryBridged(r)
  BY <1>1, <1>2, <1>6 DEF executeOrdinaryBridged
<1> QED BY <1>3, <1>4, <1>5, <1>6 DEF handleExecute

\* Every step the bridge takes under the session.
LEMMA WholeStep ==
  ASSUME SInv, NEW r \in Requests, Whole(r), BridgeSteps(r)
  PROVE  Whole(r)'
<1>0. /\ pc \in [Requests -> Phases] /\ op \in [Requests -> Branches]
      /\ answer \in [Requests -> Answers]
  BY DEF SInv, STypes, SessionTypeOK, TypeOK
<1>1. client' = client /\ pc[r] # "idle"
  BY StepsAreProgress, ProgressKeepsClient DEF SInv
<1>2. CASE handleExecute(r)
  BY <1>2, ExecutorWhole
<1>3. ASSUME NEW reply \in repliesTo(r), summaryReturns(r, reply)
      PROVE  Whole(r)'
  BY <1>3, SummaryTells
<1>4. ASSUME NEW reply \in repliesTo(r), delegateReturns(r, reply)
      PROVE  Whole(r)'
  BY <1>0, <1>1, <1>4, NoSummaryWhole DEF delegateReturns, Goto, Answer, Plain
<1>5. CASE handleModelRoute(r) \/ mergeTranscript(r) \/ interceptPasses(r) \/ interceptRewrites(r)
           \/ dispatchBuiltin(r) \/ dispatchExecutor(r)
  BY <1>0, <1>1, <1>5, NoSummaryWhole
     DEF handleModelRoute, mergeTranscript, interceptPasses, interceptRewrites, dispatchBuiltin,
         dispatchExecutor, Goto
<1>6. CASE interceptTerminates(r) \/ upstreamAnswers(r)
  BY <1>0, <1>1, <1>6, NoSummaryWhole DEF interceptTerminates, upstreamAnswers, Goto, Answer, Plain
<1> QED BY <1>2, <1>3, <1>4, <1>5, <1>6 DEF BridgeSteps, handleRequestInterceptBefore

\* An attempt sends a tidy history and new items that tell of the user's message,
\* or nothing.
LEMMA NewItemsTell ==
  ASSUME STypes, turn.kind # "none"
  PROVE  /\ newItems \in Seq(Items)
         /\ \A i \in DOMAIN newItems : isCompactionTrigger(newItems[i]) => newItems[i].text = {}
         /\ turn.kind = "message" => Remembered(newItems) = {said + 1}
         /\ turn.kind # "message" => Remembered(newItems) = {}
<1>1. newItems \in Seq(Items) /\ Blank = {}
  BY NewItemsType, TextFacts
<1>2. newItems \in {<<>>, <<Message("user", said + 1)>>, <<TriggerItem>>}
  BY DEF newItems
<1>3. /\ ~isCompactionTrigger(Message("user", said + 1)) /\ Message("user", said + 1).text = {said + 1}
      /\ TriggerItem.text = {}
  BY <1>1 DEF isCompactionTrigger, Message, TriggerItem
<1>4. \A i \in DOMAIN newItems : isCompactionTrigger(newItems[i]) => newItems[i].text = {}
  BY <1>2, <1>3
<1>5. turn.kind = "message" => Remembered(newItems) = {said + 1}
  BY <1>3, OneTells DEF newItems
<1>6. CASE turn.kind # "message"
  <2>1. newItems = <<>> \/ newItems = <<TriggerItem>>
    BY <1>6 DEF newItems
  <2>2. Remembered(<<>>) = {}
    BY DEF Remembered
  <2> QED BY <1>1, <1>3, <1>4, <1>5, <1>6, <2>1, <2>2, OneTells
<1> QED BY <1>1, <1>4, <1>5, <1>6

-----------------------------------------------------------------------------
(* Nothing is forgotten *)

MInv ==
  /\ SInv
  /\ \A r \in Requests : Whole(r)
  /\ Remembered(history) = 1..said

\* Every request stays whole, at every step of the session.
LEMMA WholeNext ==
  ASSUME SInv, \A r \in Requests : Whole(r), [SessionNext]_allVars, NEW s \in Requests
  PROVE  Whole(s)'
<1>0. /\ SInv /\ STypes /\ TypeOK /\ Whole(s)
      /\ pc \in [Requests -> Phases] /\ answer \in [Requests -> Answers]
      /\ client \in [Requests -> ClientRequests]
  BY DEF SInv, STypes, SessionTypeOK, TypeOK
<1>u. Untouched(s) => Whole(s)'
  BY <1>0 DEF Untouched, Whole, Silent, AsksToCompact, Given, SummaryOf, ClientItems
<1>1. CASE UNCHANGED vars \/ \E raw \in RawConfigs : handleLifecycle(raw)
  BY <1>1, <1>u DEF vars, handleLifecycle, Untouched, CallsOf
<1>2. ASSUME NEW r \in Requests, attempt(r)
      PROVE  Whole(s)'
  <2>1. Asks(r) /\ turn.kind # "none"
    BY <1>0, <1>2, RequestType DEF attempt, Asks
  <2>2. CASE s # r
    BY <1>0, <1>u, <2>1, <2>2, OthersUntouched
  <2>3. CASE s = r
    <3>1. pc[r] = "idle" /\ pc'[r] = "routing" /\ client'[r] = request /\ answer' = answer
      BY <1>0, <1>2 DEF attempt, clientSends, Goto
    <3>2. answer[r].kind = "none"
      BY <1>0, <3>1 DEF SInv, RequestInv, Spending
    <3>3. ClientItems(r)' = history \o newItems
      BY <1>0, <2>1, <3>1, RequestType DEF ClientItems
    <3> DEFINE all == history \o newItems
    <3>4. \A i \in DOMAIN all : isCompactionTrigger(all[i]) => all[i].text = {}
      <4>1. /\ \A i \in DOMAIN history : ~isCompactionTrigger(history[i])
            /\ history \in Seq(Items) /\ newItems \in Seq(Items)
            /\ \A i \in DOMAIN newItems : isCompactionTrigger(newItems[i]) => newItems[i].text = {}
        BY <1>0, <2>1, NewItemsTell DEF SInv, Tidy, STypes, SessionTypeOK
      <4>2. \A i \in DOMAIN all : \/ i \in DOMAIN history /\ all[i] = history[i]
                                  \/ i - Len(history) \in DOMAIN newItems
                                     /\ all[i] = newItems[i - Len(history)]
        BY <4>1, ConcatProperties
      <4> HIDE DEF all
      <4> QED BY <4>1, <4>2
    <3>5. Silent(r)'
      BY <3>3, <3>4 DEF Silent
    <3> QED BY <2>3, <3>1, <3>2, <3>5 DEF Whole
  <2> QED BY <2>2, <2>3
<1>3. ASSUME NEW r \in Requests, BridgeMoves(r)
      PROVE  Whole(s)'
  <2>1. BridgeSteps(r) /\ Progress(r)
    BY <1>0, <1>3, StepsAreProgress DEF BridgeMoves
  <2>2. CASE s # r
    BY <1>0, <1>u, <2>1, <2>2, OthersUntouched
  <2> QED BY <1>0, <2>1, <2>2, WholeStep
<1>4. ASSUME NEW r \in Requests, Receive(r)
      PROVE  Whole(s)'
  <2>1. Release(r)
    BY <1>4 DEF Receive, refused, failed, conversed, installsV1, installsV2, installsNative, discarded
  <2>2. CASE s # r
    BY <1>0, <1>u, <2>1, <2>2, ReleaseUntouched
  <2>3. CASE s = r
    <3>1. pc'[r] = "idle" /\ answer'[r].kind = "none"
      BY <1>0, <2>1 DEF Release, Plain
    <3> QED BY <2>3, <3>1 DEF Whole
  <2> QED BY <2>2, <2>3
<1>5. UNCHANGED allVars => UNCHANGED vars
  BY DEF allVars
<1> QED BY <1>1, <1>2, <1>3, <1>4, <1>5
        DEF SessionNext, Reconfigured, Reconfigure, beginTurn, abandon

\* A request the client awaits is its history and new items, and asks to compact
\* only in a compact turn.
LEMMA CurrentRequest ==
  ASSUME SInv, NEW r \in Requests, current = r
  PROVE  /\ turn.kind # "none" /\ pc[r] # "idle"
         /\ history \in Seq(Items) /\ newItems \in Seq(Items)
         /\ ClientItems(r) = history \o newItems /\ ClientItems(r) \in Seq(Items)
         /\ AsksToCompact(r) => turn.kind \in {"v1", "v2"}
<1>1. STypes /\ r # Nobody /\ history \in Seq(Items) /\ turn.kind \in {"none", "message", "v1", "v2"}
  BY TextFacts DEF SInv, STypes, SessionTypeOK, Turns
<1>2. pc[r] # "idle" /\ client[r] = request /\ turn.kind # "none"
  BY <1>1 DEF SInv, Bound, STypes, Counted
<1>3. ClientItems(r) = history \o newItems /\ newItems \in Seq(Items)
  BY <1>1, <1>2, RequestType, NewItemsType DEF ClientItems
<1>4. ASSUME turn.kind = "message"
      PROVE  ~AsksToCompact(r)
  <2>1. client[r].compact = (turn.kind = "v1")
    BY <1>2 DEF request
  <2>2. newItems = <<Message("user", said + 1)>>
    BY <1>4 DEF newItems
  <2> DEFINE all == history \o newItems
  <2>3. all[Len(all)] = Message("user", said + 1)
    BY <1>1, <1>3, <2>2
  <2> HIDE DEF all
  <2>4. ~detectV2Trigger(all)
    BY <2>3 DEF detectV2Trigger, isCompactionTrigger, Message
  <2> QED BY <1>3, <1>4, <2>1, <2>4 DEF AsksToCompact, all
<1> QED BY <1>1, <1>2, <1>3, <1>4, ConcatProperties

\* What the client waits for tells of its history and its new items.
LEMMA CurrentTells ==
  ASSUME "client" \notin HandOver, MInv, NEW r \in Requests, current = r
  PROVE  /\ turn.kind # "none"
         /\ Remembered(ClientItems(r)) = (1..said) \cup Remembered(newItems)
         /\ AsksToCompact(r) => turn.kind # "message"
         /\ \A c \in upstream : c.req = r =>
              /\ Readable(c.items) = Remembered(ClientItems(r))
              /\ Remembered(c.items) = Remembered(ClientItems(r))
<1>1. /\ SInv /\ Remembered(history) = 1..said /\ pc[r] # "idle" /\ turn.kind # "none"
      /\ ClientItems(r) = history \o newItems
      /\ history \in Seq(Items) /\ newItems \in Seq(Items)
      /\ AsksToCompact(r) => turn.kind \in {"v1", "v2"}
  BY CurrentRequest DEF MInv
<1>2. Remembered(ClientItems(r)) = (1..said) \cup Remembered(newItems)
  BY <1>1, BothTell
<1>3. Silent(r)
  BY <1>1 DEF MInv, Whole
<1>4. \A c \in upstream : Policed(c)
  BY DEF Policed
<1> QED BY <1>1, <1>2, <1>3, <1>4, CallTells

\* A compact answer tells of all its request told.
LEMMA AnswerTells ==
  ASSUME STypes, NEW r \in Requests, Whole(r),
         answer[r].kind \in {"compact_window", "compact_stream"}
  PROVE  Remembered(answer[r].items) = Remembered(ClientItems(r))
<1> DEFINE item == SummaryOf(r)
<1>1. ClientItems(r) \in Seq(Items)
  BY ClientItemsType DEF STypes, SessionTypeOK
<1>2. item.text = Remembered(ClientItems(r)) /\ item \in Items
  BY <1>1, TextsOfItems DEF SummaryOf, compactionItem, Items, ItemTypes, Roles, IdForms
<1> HIDE DEF item
<1>3. CASE answer[r].items = <<item>>
  BY <1>2, <1>3, OneTells
<1>4. ASSUME NEW held \in Given(r), answer[r].items = Append(retainedItems(held), item)
      PROVE  Remembered(answer[r].items) = Remembered(ClientItems(r))
  <2>1. held \in Seq(Items) /\ Remembered(held) = Remembered(ClientItems(r))
    BY <1>1, RestoredTells, RewriteType DEF Given
  <2>2. /\ retainedItems(held) \in Seq(Items)
        /\ Remembered(retainedItems(held)) \subseteq Remembered(ClientItems(r))
    BY <2>1, RetainedTells
  <2>3. Remembered(answer[r].items) = Remembered(retainedItems(held)) \cup item.text
    BY <1>2, <1>4, <2>2, OneMoreTells
  <2> QED BY <1>2, <2>2, <2>3
<1> QED BY <1>3, <1>4 DEF Whole, item

\* The history tells of every message, at every step of the session.
LEMMA ToldStep ==
  ASSUME "client" \notin HandOver, MInv, [SessionNext]_allVars
  PROVE  (Remembered(history) = 1..said)'
<1>0. /\ SInv /\ STypes /\ history \in Seq(Items) /\ Remembered(history) = 1..said
      /\ said \in Nat
      /\ Remembered(retainedItems(history)) \subseteq 1..said
      /\ retainedItems(history) \in Seq(Items)
  <2>1. SInv /\ STypes /\ history \in Seq(Items) /\ Remembered(history) = 1..said /\ said \in Nat
    BY TextFacts DEF MInv, SInv, STypes, SessionTypeOK
  <2> QED BY <2>1, RetainedTells
<1>1. CASE UNCHANGED <<history, said>>
  BY <1>0, <1>1 DEF Remembered
<1>2. ASSUME NEW r \in Requests, conversed(r)
      PROVE  Remembered(history') = 1..said'
  <2> DEFINE reply == Message("assistant", said + 2)
  <2>1. /\ turn.kind = "message" /\ said' = said + 2
        /\ history' = history \o newItems \o <<reply>>
    BY <1>2 DEF conversed, Install
  <2>2. newItems \in Seq(Items) /\ Remembered(newItems) = {said + 1} /\ reply \in Items
    BY <1>0, <2>1, NewItemsTell, NewItemsType
  <2>3. Remembered(history \o newItems) = (1..said) \cup {said + 1} /\ history \o newItems \in Seq(Items)
    BY <1>0, <2>2, BothTell
  <2>4. reply.text = {said + 2} /\ <<reply>> \in Seq(Items)
    BY <2>2 DEF Message
  <2> DEFINE both == history \o newItems
  <2>5. history' = both \o <<reply>> /\ both \in Seq(Items) /\ Remembered(both) = (1..said) \cup {said + 1}
    BY <2>1, <2>3
  <2> HIDE DEF reply, both
  <2>6. Remembered(both \o <<reply>>) = Remembered(both) \cup Remembered(<<reply>>)
    BY <2>4, <2>5, BothTell
  <2>7. Remembered(<<reply>>) = {said + 2}
    BY <2>4, OneTells
  <2>8. said \in Nat => 1..(said + 2) = ((1..said) \cup {said + 1}) \cup {said + 2}
    OBVIOUS
  <2> QED BY <1>0, <2>1, <2>5, <2>6, <2>7, <2>8
<1>3. ASSUME NEW r \in Requests, installsV1(r) \/ installsV2(r)
      PROVE  Remembered(history') = 1..said'
  <2>1. /\ current = r /\ answer[r].kind \in {"compact_window", "compact_stream"} /\ said' = said
        /\ \/ history' = answer[r].items
           \/ history' = retainedItems(history) \o answer[r].items
    BY <1>3 DEF installsV1, installsV2, Received, Install
  <2>2. Remembered(answer[r].items) = Remembered(ClientItems(r)) /\ AsksToCompact(r)
    <3>1. Whole(r)
      BY DEF MInv
    <3> QED BY <1>0, <2>1, <3>1, AnswerTells DEF Whole
  <2>3. /\ Remembered(ClientItems(r)) = (1..said) \cup Remembered(newItems)
        /\ Remembered(newItems) = {}
    BY <1>0, <2>1, <2>2, CurrentTells, NewItemsTell
  <2>4. answer[r].items \in Seq(Items)
    BY <1>0, InstallTypes
  <2>5. Remembered(retainedItems(history) \o answer[r].items)
          = Remembered(retainedItems(history)) \cup Remembered(answer[r].items)
    BY <1>0, <2>4, BothTell
  <2>6. Remembered(history') = 1..said
    <3>1. Remembered(answer[r].items) = 1..said
      BY <2>2, <2>3
    <3>2. CASE history' = answer[r].items
      BY <3>1, <3>2
    <3>3. CASE history' = retainedItems(history) \o answer[r].items
      BY <1>0, <2>5, <3>1, <3>3
    <3> QED BY <2>1, <3>2, <3>3
  <2> QED BY <2>1, <2>6
<1>4. ASSUME NEW r \in Requests, installsNative(r)
      PROVE  Remembered(history') = 1..said'
  <2>1. PICK c \in upstream :
          /\ c.req = r
          /\ history' = Append(retainedItems(IF turn.kind = "v1" THEN c.items ELSE history),
                               OpaqueItem(Readable(c.items)))
    BY <1>4 DEF installsNative, Install
  <2>2. current = r /\ turn.kind \in {"v1", "v2"} /\ said' = said
    BY <1>4 DEF installsNative, Received
  <2>3. Readable(c.items) = 1..said /\ Remembered(c.items) = 1..said
    BY <1>0, <2>1, <2>2, CurrentTells, NewItemsTell
  <2>4. c.items \in Seq(Items)
    BY <1>0, InstallTypes
  <2>5. PICK items \in {c.items, history} :
          history' = Append(retainedItems(items), OpaqueItem(Readable(c.items)))
    BY <2>1
  <2>6. retainedItems(items) \in Seq(Items) /\ Remembered(retainedItems(items)) \subseteq 1..said
    BY <1>0, <2>3, <2>4, <2>5, RetainedTells
  <2>7. OpaqueItem(Readable(c.items)).text = 1..said
    BY <2>3 DEF OpaqueItem
  <2>8. OpaqueItem(Readable(c.items)) \in Items
    BY <1>0, InstallTypes
  <2>9. Remembered(history') = Remembered(retainedItems(items)) \cup (1..said)
    BY <2>5, <2>6, <2>7, <2>8, OneMoreTells
  <2> QED BY <2>2, <2>6, <2>9
<1>5. ASSUME NEW r \in Requests, refused(r) \/ failed(r) \/ discarded(r)
      PROVE  UNCHANGED <<history, said>>
  BY <1>5 DEF refused, failed, discarded, sessionVars
<1> QED BY <1>1, <1>2, <1>3, <1>4, <1>5
        DEF SessionNext, Reconfigured, BridgeMoves, Receive, sessionVars, beginTurn, abandon,
            attempt, allVars

\* However a session compacts, over V1, V2 or a native model, switches models,
\* retries and is reconfigured, its history and what each model is sent tell of
\* every message, as long as CPA hands the executor the intercepted body
\* (handleRequestInterceptBefore, v1CompactResponseBody, compactionItem).
THEOREM Remembers ==
  ASSUME "client" \notin HandOver
  PROVE  SessionSpec => []NothingForgotten
<1>1. SessionInit => MInv
  <2> SUFFICES ASSUME SessionInit PROVE MInv
    OBVIOUS
  <2>1. \A r \in Requests : Whole(r)
    BY DEF SessionInit, Init, Plain, Whole
  <2>2. Remembered(history) = 1..said
    BY DEF SessionInit, Remembered
  <2> QED BY <2>1, <2>2, SessionStart DEF MInv
<1>2. MInv /\ [SessionNext]_allVars => MInv'
  BY SessionNextInv, WholeNext, ToldStep DEF MInv
<1>3. MInv => NothingForgotten
  <2> SUFFICES ASSUME MInv
               PROVE  /\ Remembered(history) = 1..said
                      /\ \A c \in upstream : c.req = current => 1..said \subseteq Readable(c.items)
    BY DEF NothingForgotten
  <2>1. \A c \in upstream : c.req \in Requests
    BY DEF MInv, SInv, STypes, SessionTypeOK, TypeOK, Calls
  <2> QED BY <2>1, CurrentTells DEF MInv
<1> QED BY <1>1, <1>2, <1>3, PTL DEF SessionSpec

-----------------------------------------------------------------------------
(* The user's words *)

\* The user's messages have the odd numbers.
Odd == {n \in Nat : n % 2 = 1}

IsWord(item) == \E n \in Odd : item = Message("user", n)

\* The user's messages up to number n, each once and in order.
HoldsWords(items, n) ==
  /\ \A m \in Odd : m <= n => \E i \in DOMAIN items : items[i] = Message("user", m)
  /\ \A m \in Odd : \A i \in DOMAIN items : items[i] = Message("user", m) => m <= n
  /\ \A m, k \in Odd : \A i, j \in DOMAIN items :
       items[i] = Message("user", m) /\ items[j] = Message("user", k) => (m < k <=> i < j)

\* No answer stands before state that summarises it.
Superseded(items) ==
  \A i, j \in DOMAIN items :
    i < j /\ isCompactionItemAny(items[j]) => items[i].role # "assistant"

\* Messages of different numbers differ.
LEMMA MessageFacts ==
  ASSUME NEW m, NEW n
  PROVE  /\ Message("user", m) = Message("user", n) => m = n
         /\ isRetained(Message("user", m)) /\ ~isCompactionItemAny(Message("user", m))
         /\ ~isCompactionTrigger(Message("user", m))
         /\ Message("user", m).text = {m}
         /\ Message("user", m).role = "user"
<1>1. Message("user", m).text = {m} /\ Message("user", n).text = {n}
  BY DEF Message
<1>2. {m} = {n} => m = n
  OBVIOUS
<1> QED BY <1>1, <1>2 DEF Message, isRetained, isCompactionItemAny, isCompactionTrigger

\* A sequence whose words stand in the same order as those of another holds the
\* same.
LEMMA SameWords ==
  ASSUME NEW s \in Seq(Items), NEW t \in Seq(Items), NEW n \in Nat, HoldsWords(s, n),
         NEW place,
         \A k \in DOMAIN t : IsWord(t[k]) => place[k] \in DOMAIN s /\ s[place[k]] = t[k],
         \A k, l \in DOMAIN t : IsWord(t[k]) /\ IsWord(t[l]) => (k < l <=> place[k] < place[l]),
         \A i \in DOMAIN s : IsWord(s[i]) => \E k \in DOMAIN t : t[k] = s[i]
  PROVE  HoldsWords(t, n)
<1>1. ASSUME NEW m \in Odd, m <= n
      PROVE  \E k \in DOMAIN t : t[k] = Message("user", m)
  <2>1. PICK i \in DOMAIN s : s[i] = Message("user", m)
    BY <1>1 DEF HoldsWords
  <2> QED BY <2>1 DEF IsWord
<1>2. ASSUME NEW m \in Odd, NEW k \in DOMAIN t, t[k] = Message("user", m)
      PROVE  m <= n
  <2>1. place[k] \in DOMAIN s /\ s[place[k]] = Message("user", m)
    BY <1>2 DEF IsWord
  <2> QED BY <2>1 DEF HoldsWords
<1>3. ASSUME NEW m \in Odd, NEW q \in Odd, NEW k \in DOMAIN t, NEW l \in DOMAIN t,
             t[k] = Message("user", m), t[l] = Message("user", q)
      PROVE  m < q <=> k < l
  <2>1. IsWord(t[k]) /\ IsWord(t[l])
    BY <1>3 DEF IsWord
  <2>2. /\ place[k] \in DOMAIN s /\ s[place[k]] = Message("user", m)
        /\ place[l] \in DOMAIN s /\ s[place[l]] = Message("user", q)
    BY <1>3, <2>1
  <2>3. m < q <=> place[k] < place[l]
    BY <2>2 DEF HoldsWords
  <2> QED BY <2>1, <2>3
<1> QED BY <1>1, <1>2, <1>3 DEF HoldsWords

\* Leaving out what is no word of the user's leaves the words.
LEMMA FilterWords ==
  ASSUME NEW s \in Seq(Items), NEW n \in Nat, HoldsWords(s, n),
         NEW K \in SUBSET (DOMAIN s), \A i \in DOMAIN s : IsWord(s[i]) => i \in K
  PROVE  ItemsAt(s, K) \in Seq(Items) /\ HoldsWords(ItemsAt(s, K), n)
<1> DEFINE t == ItemsAt(s, K)
           place == [k \in DOMAIN t |-> NthOf(K, k)]
<1>1. /\ t \in Seq(Items) /\ DOMAIN t = 1..Cardinality(K) /\ Cardinality(K) \in Nat
      /\ \A k \in DOMAIN t : NthOf(K, k) \in K /\ t[k] = s[NthOf(K, k)]
  BY ItemsAtFacts
<1>2. DOMAIN s = 1..Len(s) /\ Len(s) \in Nat
  OBVIOUS
<1>3. \A k, l \in DOMAIN t : k < l => NthOf(K, k) < NthOf(K, l)
  BY <1>1, <1>2, NthOfFacts
<1>4. \A i \in DOMAIN s : IsWord(s[i]) => \E k \in DOMAIN t : t[k] = s[i]
  BY ItemsAtAll
<1>5. \A k \in DOMAIN t : place[k] \in DOMAIN s /\ s[place[k]] = t[k] /\ place[k] = NthOf(K, k)
                          /\ place[k] \in Int /\ k \in Int
  BY <1>1, <1>2
<1> HIDE DEF t, place
<1>6. \A k, l \in DOMAIN t : k < l <=> place[k] < place[l]
  <2> SUFFICES ASSUME NEW k \in DOMAIN t, NEW l \in DOMAIN t
               PROVE  k < l <=> place[k] < place[l]
    OBVIOUS
  <2>1. /\ k < l => place[k] < place[l]
        /\ l < k => place[l] < place[k]
        /\ k = l => place[k] = place[l]
    BY <1>3, <1>5
  <2>2. place[k] \in Int /\ place[l] \in Int /\ k \in Int /\ l \in Int
    BY <1>5
  <2> QED BY <2>1, <2>2
<1>7. /\ \A k \in DOMAIN t : IsWord(t[k]) => place[k] \in DOMAIN s /\ s[place[k]] = t[k]
      /\ \A k, l \in DOMAIN t : IsWord(t[k]) /\ IsWord(t[l]) => (k < l <=> place[k] < place[l])
      /\ t \in Seq(Items)
  BY <1>1, <1>5, <1>6
<1>8. HoldsWords(t, n)
  BY <1>4, <1>7, SameWords
<1> QED BY <1>1, <1>8 DEF t

\* Adding what is no word of the user's leaves the words.
LEMMA AddWords ==
  ASSUME NEW s \in Seq(Items), NEW n \in Nat, HoldsWords(s, n),
         NEW u \in Seq(Items), \A i \in DOMAIN u : ~IsWord(u[i])
  PROVE  s \o u \in Seq(Items) /\ HoldsWords(s \o u, n)
<1> DEFINE t == s \o u
           place == [k \in DOMAIN t |-> k]
<1>1. /\ t \in Seq(Items)
      /\ \A k \in DOMAIN t : \/ k \in DOMAIN s /\ t[k] = s[k]
                             \/ k - Len(s) \in DOMAIN u /\ t[k] = u[k - Len(s)]
      /\ \A i \in DOMAIN s : i \in DOMAIN t /\ t[i] = s[i]
  BY ConcatProperties
<1>2. \A k \in DOMAIN t : place[k] = k
  OBVIOUS
<1> HIDE DEF t, place
<1>3. \A k \in DOMAIN t : IsWord(t[k]) => place[k] \in DOMAIN s /\ s[place[k]] = t[k]
  BY <1>1, <1>2
<1>4. \A i \in DOMAIN s : IsWord(s[i]) => \E k \in DOMAIN t : t[k] = s[i]
  BY <1>1
<1>5. \A k, l \in DOMAIN t : IsWord(t[k]) /\ IsWord(t[l]) => (k < l <=> place[k] < place[l])
  BY <1>2
<1>6. t \in Seq(Items)
  BY <1>1
<1>7. HoldsWords(t, n)
  BY <1>3, <1>4, <1>5, <1>6, SameWords, ZenonT(60)
<1> QED BY <1>6, <1>7 DEF t

\* Restoring a summary leaves the words if no summary is one number of the user's.
LEMMA RestoreWords ==
  ASSUME NEW s \in Seq(Items), NEW n \in Nat, HoldsWords(s, n),
         \A i \in DOMAIN s : isCPACompaction(s[i]) => \A m \in Odd : s[i].text # {m}
  PROVE  HoldsWords(rewriteCompactionItems(s), n)
<1> DEFINE t == rewriteCompactionItems(s)
           place == [k \in DOMAIN t |-> k]
<1>1. /\ t \in Seq(Items) /\ DOMAIN t = DOMAIN s
      /\ \A k \in DOMAIN t : t[k] = rewriteItem(s[k]) /\ place[k] = k
  BY RewriteType DEF rewriteCompactionItems
<1>2. ASSUME NEW k \in DOMAIN s, ~(isCompactionItemAny(s[k]) /\ compactionRecordOf(s[k]) = "plaintext")
      PROVE  rewriteItem(s[k]) = s[k]
  BY <1>2 DEF rewriteItem
<1>3. ASSUME NEW k \in DOMAIN s, isCompactionItemAny(s[k]), compactionRecordOf(s[k]) = "plaintext"
      PROVE  ~IsWord(rewriteItem(s[k])) /\ ~IsWord(s[k])
  <2>1. isCPACompaction(s[k]) /\ rewriteItem(s[k]).text = s[k].text
    BY <1>3 DEF compactionRecordOf, rewriteItem, compactToUserMessage
  <2> QED BY <1>3, <2>1, MessageFacts DEF IsWord
<1> HIDE DEF t, place
<1>4. \A k \in DOMAIN t : IsWord(t[k]) => place[k] \in DOMAIN s /\ s[place[k]] = t[k]
  BY <1>1, <1>2, <1>3
<1>5. \A i \in DOMAIN s : IsWord(s[i]) => \E k \in DOMAIN t : t[k] = s[i]
  BY <1>1, <1>2, <1>3
<1>6. HoldsWords(t, n)
  BY <1>1, <1>4, <1>5, SameWords
<1> QED BY <1>6 DEF t

\* Compaction keeps the words and leaves no answer before the state.
LEMMA CompactedWords ==
  ASSUME NEW s \in Seq(Items), NEW n \in Nat, HoldsWords(s, n),
         NEW item \in Items, isCompactionItemAny(item)
  PROVE  LET new == Append(retainedItems(s), item)
         IN  HoldsWords(new, n) /\ Superseded(new)
<1> DEFINE K == {i \in DOMAIN s : isRetained(s[i])}
           kept == retainedItems(s)
           new == Append(kept, item)
<1>1. K \in SUBSET (DOMAIN s) /\ kept = ItemsAt(s, K)
  BY DEF retainedItems
<1>2. \A i \in DOMAIN s : IsWord(s[i]) => i \in K
  BY MessageFacts DEF IsWord
<1> HIDE DEF K
<1>3. kept \in Seq(Items) /\ HoldsWords(kept, n)
  BY <1>1, <1>2, FilterWords
<1>4. \A k \in DOMAIN kept : kept[k].role # "assistant"
  BY RetainedFacts DEF isRetained
<1> HIDE DEF kept
<1>5. new = kept \o <<item>> /\ <<item>> \in Seq(Items) /\ new \in Seq(Items)
  BY <1>3, AppendIsConcat
<1>6. ~IsWord(item)
  BY MessageFacts DEF IsWord
<1>7. \A i \in DOMAIN <<item>> : ~IsWord(<<item>>[i])
  BY <1>6
<1>8. HoldsWords(kept \o <<item>>, n)
  BY <1>3, <1>5, <1>7, AddWords
<1>9. \A i, j \in DOMAIN new : i < j => new[i] = kept[i] /\ i \in DOMAIN kept
  BY <1>3
<1>10. Superseded(new)
  BY <1>4, <1>9 DEF Superseded
<1> QED BY <1>5, <1>8, <1>10 DEF kept

\* A text that tells of an answer, which has an even number.
Answered(text) == \E n \in text : n \in Nat /\ n % 2 = 0

\* The user's words are in the history; each summary tells of an answer too, so
\* that none is mistaken for a message of the user's when it is restored.
Words ==
  /\ said % 2 = 0
  /\ HoldsWords(history, said)
  /\ Superseded(history)
  /\ \A i \in DOMAIN history : isCPACompaction(history[i]) => Answered(history[i].text)
  /\ history # <<>> => hasOpaque(history) \/ Answered(Remembered(history))
  /\ turn.kind \in {"v1", "v2"} => history # <<>>

WInv ==
  /\ SInv
  /\ \A r \in Requests : Whole(r)
  /\ Words

\* A compact turn adds no words, and no compaction item.
LEMMA CompactRequest ==
  ASSUME WInv, NEW r \in Requests, current = r, turn.kind \in {"v1", "v2"}
  PROVE  LET items == ClientItems(r)
         IN  /\ items \in Seq(Items)
             /\ HoldsWords(items, said)
             /\ HoldsWords(rewriteCompactionItems(items), said)
             /\ HoldsWords(rewriteCompactionItems(nonTriggers(items)), said)
             /\ ~hasOpaque(items) => Answered(Remembered(items))
<1> DEFINE items == ClientItems(r)
<1>1. /\ history \in Seq(Items) /\ newItems \in Seq(Items) /\ items = history \o newItems
      /\ items \in Seq(Items) /\ said \in Nat /\ STypes
  BY CurrentRequest DEF WInv, SInv, STypes, SessionTypeOK
<1>2. \A i \in DOMAIN newItems : newItems[i] = TriggerItem
  BY DEF newItems
<1>3. ~IsWord(TriggerItem) /\ ~isCompactionItemAny(TriggerItem) /\ ~isCPACompaction(TriggerItem)
  BY DEF TriggerItem, IsWord, Message, isCompactionItemAny, isCPACompaction
<1>4. HoldsWords(items, said)
  BY <1>1, <1>2, <1>3, AddWords DEF WInv, Words
<1>5. /\ \A i \in DOMAIN items : \/ i \in DOMAIN history /\ items[i] = history[i]
                                 \/ items[i] = TriggerItem
      /\ \A i \in DOMAIN history : i \in DOMAIN items /\ items[i] = history[i]
  BY <1>1, <1>2, ConcatProperties
<1> HIDE DEF items
<1>6. \A i \in DOMAIN items : isCPACompaction(items[i]) => \A m \in Odd : items[i].text # {m}
  <2> SUFFICES ASSUME NEW i \in DOMAIN items, isCPACompaction(items[i]), NEW m \in Odd
               PROVE  items[i].text # {m}
    OBVIOUS
  <2>1. Answered(items[i].text)
    BY <1>3, <1>5 DEF WInv, Words
  <2> QED BY <2>1 DEF Answered, Odd
<1>7. HoldsWords(rewriteCompactionItems(items), said)
  BY <1>1, <1>4, <1>6, RestoreWords
<1>8. /\ nonTriggers(items) \in Seq(Items) /\ HoldsWords(nonTriggers(items), said)
      /\ \A k \in DOMAIN nonTriggers(items) :
           \E i \in DOMAIN items : nonTriggers(items)[k] = items[i]
  <2> DEFINE K == {i \in DOMAIN items : ~isCompactionTrigger(items[i])}
  <2>1. K \in SUBSET (DOMAIN items) /\ nonTriggers(items) = ItemsAt(items, K)
    BY DEF nonTriggers
  <2>2. \A i \in DOMAIN items : IsWord(items[i]) => i \in K
    BY MessageFacts DEF IsWord
  <2> HIDE DEF K
  <2>3. \A k \in DOMAIN ItemsAt(items, K) : \E i \in DOMAIN items : ItemsAt(items, K)[k] = items[i]
    BY <1>1, <2>1, ItemsAtFacts
  <2>4. ItemsAt(items, K) \in Seq(Items) /\ HoldsWords(ItemsAt(items, K), said)
    BY <1>1, <1>4, <2>1, <2>2, FilterWords
  <2> QED BY <2>1, <2>3, <2>4
<1>9. HoldsWords(rewriteCompactionItems(nonTriggers(items)), said)
  <2> DEFINE kept == nonTriggers(items)
  <2>1. \A k \in DOMAIN kept : isCPACompaction(kept[k]) => \A m \in Odd : kept[k].text # {m}
    BY <1>6, <1>8
  <2> HIDE DEF kept
  <2>2. kept \in Seq(Items) /\ HoldsWords(kept, said)
    BY <1>8 DEF kept
  <2>3. HoldsWords(rewriteCompactionItems(kept), said)
    BY <1>1, <2>1, <2>2, RestoreWords
  <2> QED BY <2>3 DEF kept
<1>10. ASSUME ~hasOpaque(items)
       PROVE  Answered(Remembered(items))
  <2>1. ~hasOpaque(history)
    BY <1>5, <1>10 DEF hasOpaque
  <2>2. Answered(Remembered(history))
    BY <2>1 DEF WInv, Words
  <2>3. Remembered(history) \subseteq Remembered(items)
    BY <1>5 DEF Remembered
  <2> QED BY <2>2, <2>3 DEF Answered
<1> QED BY <1>1, <1>4, <1>7, <1>9, <1>10 DEF items

\* What the user and the model say next.
LEMMA SpokenWords ==
  ASSUME NEW s \in Seq(Items), NEW n \in Nat, n % 2 = 0, HoldsWords(s, n),
         Message("user", n + 1) \in Items, NEW reply \in Items, reply.role = "assistant"
  PROVE  HoldsWords(s \o <<Message("user", n + 1)>> \o <<reply>>, n + 2)
<1> DEFINE word == Message("user", n + 1)
           t    == Append(s, word)
<1>1. /\ t \in Seq(Items) /\ Len(s) \in Nat /\ Len(t) = Len(s) + 1
      /\ DOMAIN s = 1..Len(s) /\ DOMAIN t = 1..Len(s) + 1
      /\ \A i \in DOMAIN s : t[i] = s[i]
      /\ t[Len(s) + 1] = word
  OBVIOUS
<1>2. /\ n + 1 \in Odd
      /\ \A m \in Odd : m \in Nat /\ (m <= n + 1 <=> m <= n \/ m = n + 1)
      /\ \A m \in Odd : m <= n + 2 <=> m <= n + 1
  BY DEF Odd
<1>3. \A m \in Odd : word = Message("user", m) <=> m = n + 1
  BY MessageFacts
<1> HIDE DEF t, word
<1>4. \A i \in DOMAIN t : \/ i \in DOMAIN s /\ t[i] = s[i] /\ i < Len(s) + 1
                          \/ i = Len(s) + 1 /\ t[i] = word
  BY <1>1
<1>5. ASSUME NEW m \in Odd, m <= n + 1
      PROVE  \E i \in DOMAIN t : t[i] = Message("user", m)
  <2>1. CASE m = n + 1
    BY <1>1, <1>3, <2>1
  <2>2. CASE m <= n
    <3>1. PICK i \in DOMAIN s : s[i] = Message("user", m)
      BY <2>2 DEF HoldsWords
    <3> QED BY <1>1, <3>1
  <2> QED BY <1>2, <1>5, <2>1, <2>2
<1>6. ASSUME NEW m \in Odd, NEW i \in DOMAIN t, t[i] = Message("user", m)
      PROVE  \/ i \in DOMAIN s /\ s[i] = Message("user", m) /\ m <= n /\ i < Len(s) + 1
             \/ i = Len(s) + 1 /\ m = n + 1
  BY <1>3, <1>4, <1>6 DEF HoldsWords
<1>7. ASSUME NEW m \in Odd, NEW k \in Odd, NEW i \in DOMAIN t, NEW j \in DOMAIN t,
             t[i] = Message("user", m), t[j] = Message("user", k)
      PROVE  m < k <=> i < j
  <2>1. m \in Nat /\ k \in Nat /\ i \in Nat /\ j \in Nat
    BY <1>1, <1>2
  <2>2. CASE i \in DOMAIN s /\ s[i] = Message("user", m) /\ j \in DOMAIN s /\ s[j] = Message("user", k)
    BY <2>2 DEF HoldsWords
  <2>3. CASE i < Len(s) + 1 /\ m <= n /\ j = Len(s) + 1 /\ k = n + 1
    BY <2>1, <2>3
  <2>4. CASE i = Len(s) + 1 /\ m = n + 1 /\ j < Len(s) + 1 /\ k <= n
    BY <1>1, <2>1, <2>4
  <2>5. CASE i = Len(s) + 1 /\ m = n + 1 /\ j = Len(s) + 1 /\ k = n + 1
    BY <1>1, <2>1, <2>5
  <2> QED BY <1>6, <1>7, <2>2, <2>3, <2>4, <2>5
<1>8. HoldsWords(t, n + 1)
  BY <1>2, <1>5, <1>6, <1>7 DEF HoldsWords
<1>9. ~IsWord(reply)
  BY MessageFacts DEF IsWord
<1>10. <<reply>> \in Seq(Items) /\ \A i \in DOMAIN <<reply>> : ~IsWord(<<reply>>[i])
  BY <1>9
<1>11. HoldsWords(t \o <<reply>>, n + 1)
  <2>1. t \in Seq(Items) /\ n + 1 \in Nat
    BY <1>1
  <2> QED BY <1>8, <1>10, <2>1, AddWords
<1>12. HoldsWords(t \o <<reply>>, n + 2)
  BY <1>2, <1>11 DEF HoldsWords
<1>13. t = s \o <<word>>
  BY AppendIsConcat DEF t, word
<1> QED BY <1>12, <1>13 DEF word

\* What a compact turn installs holds the words, with one more compaction item; if
\* that is the bridge's own it tells of an answer.
LEMMA InstallKeeps ==
  ASSUME WInv, NEW s \in Seq(Items), HoldsWords(s, said), NEW item \in Items,
         isCompactionItemAny(item), isCPACompaction(item) => Answered(item.text),
         history' = Append(retainedItems(s), item), said' = said, turn' = NoTurn
  PROVE  Words'
<1> DEFINE kept == retainedItems(s)
           new  == Append(kept, item)
<1>1. said \in Nat /\ said % 2 = 0
  BY DEF WInv, Words, SInv, STypes, SessionTypeOK
<1>2. HoldsWords(new, said) /\ Superseded(new)
  BY <1>1, CompactedWords
<1>3. kept \in Seq(Items) /\ \A k \in DOMAIN kept : ~isCPACompaction(kept[k])
  BY RetainedFacts DEF isRetained, isCPACompaction
<1> HIDE DEF kept
<1>4. /\ \A i \in DOMAIN new : \/ i \in DOMAIN kept /\ new[i] = kept[i]
                               \/ new[i] = item
      /\ Len(kept) + 1 \in DOMAIN new /\ new[Len(kept) + 1] = item
  BY <1>3
<1> HIDE DEF new
<1>5. \A i \in DOMAIN new : isCPACompaction(new[i]) => Answered(new[i].text)
  BY <1>3, <1>4
<1>6. hasOpaque(new) \/ Answered(Remembered(new))
  <2>1. CASE ~isCPACompaction(item)
    BY <1>4, <2>1 DEF hasOpaque
  <2>2. CASE isCPACompaction(item)
    <3>1. item.text \subseteq Remembered(new)
      BY <1>4 DEF Remembered
    <3> QED BY <2>2, <3>1 DEF Answered
  <2> QED BY <2>1, <2>2
<1>7. history' = new
  BY DEF new, kept
<1>8. turn'.kind = "none"
  BY DEF NoTurn, WInv, SInv, STypes, SessionTypeOK, Turns
<1> QED BY <1>1, <1>2, <1>5, <1>6, <1>7, <1>8 DEF Words, HoldsWords, Superseded, hasOpaque, Answered, Remembered

\* What is said next keeps the words.
LEMMA ConversedWords ==
  ASSUME WInv, NEW r \in Requests, conversed(r)
  PROVE  Words'
<1> DEFINE word  == Message("user", said + 1)
           reply == Message("assistant", said + 2)
           new   == history \o <<word>> \o <<reply>>
<1>1. /\ history \in Seq(Items) /\ said \in Nat /\ said % 2 = 0 /\ STypes /\ turn \in Turns
      /\ turn.kind = "message" /\ said' = said + 2 /\ turn' = NoTurn
      /\ newItems = <<word>> /\ history' = new
  BY DEF WInv, Words, SInv, STypes, SessionTypeOK, conversed, Install, EndTurn, newItems
<1>2. newItems \in Seq(Items) /\ reply \in Items
  BY <1>1, NewItemsType
<1>3. word \in Items
  BY <1>1, <1>2
<1>4. /\ reply.role = "assistant" /\ reply.text = {said + 2}
      /\ ~isCompactionItemAny(reply) /\ ~isCompactionItemAny(word)
      /\ ~isCPACompaction(reply) /\ ~isCPACompaction(word)
  BY DEF Message, isCompactionItemAny, isCPACompaction
<1>5. HoldsWords(new, said + 2)
  BY <1>1, <1>2, <1>3, <1>4, SpokenWords DEF WInv, Words
<1> HIDE DEF word, reply
<1>6. /\ \A i \in DOMAIN new : \/ i \in DOMAIN history /\ new[i] = history[i]
                               \/ new[i] = word \/ new[i] = reply
      /\ \A i \in DOMAIN history : i \in DOMAIN new /\ new[i] = history[i]
      /\ \A i, j \in DOMAIN new : i < j /\ j \in DOMAIN history => i \in DOMAIN history
      /\ \E i \in DOMAIN new : new[i] = reply
  <2>1. /\ DOMAIN history = 1..Len(history) /\ Len(history) \in Nat
        /\ DOMAIN new = 1..Len(history) + 2
        /\ \A i \in 1..Len(history) : new[i] = history[i]
        /\ new[Len(history) + 1] = word /\ new[Len(history) + 2] = reply
    BY <1>1, <1>2, <1>3
  <2> HIDE DEF new
  <2> QED BY <2>1
<1> HIDE DEF new
<1>7. Superseded(new)
  BY <1>4, <1>6 DEF Superseded, WInv, Words
<1>8. \A i \in DOMAIN new : isCPACompaction(new[i]) => Answered(new[i].text)
  BY <1>4, <1>6 DEF WInv, Words
<1>9. Answered(Remembered(new))
  <2>1. said + 2 \in Remembered(new)
    BY <1>4, <1>6 DEF Remembered
  <2>2. said + 2 \in Nat /\ (said + 2) % 2 = 0
    BY <1>1
  <2> QED BY <2>1, <2>2 DEF Answered
<1>10. (said + 2) % 2 = 0 /\ turn'.kind = "none"
  BY <1>1 DEF NoTurn, Turns
<1> QED BY <1>1, <1>5, <1>7, <1>8, <1>9, <1>10
        DEF Words, HoldsWords, Superseded, hasOpaque, Answered, Remembered

\* What the bridge's own compaction installs keeps the words.
LEMMA SummarizedWords ==
  ASSUME WInv, NEW r \in Requests, installsV1(r) \/ installsV2(r)
  PROVE  Words'
<1> DEFINE items == ClientItems(r)
           item  == SummaryOf(r)
<1>1. /\ current = r /\ answer[r].kind \in {"compact_window", "compact_stream"} /\ Whole(r)
      /\ said' = said /\ turn' = NoTurn /\ history \in Seq(Items)
  BY DEF installsV1, installsV2, Received, Install, EndTurn, WInv, SInv, STypes, SessionTypeOK
<1>2. turn.kind \in {"v1", "v2"} /\ ~hasOpaque(items)
  BY <1>1, CurrentRequest DEF Whole, WInv
<1>3. /\ items \in Seq(Items) /\ Answered(Remembered(items))
      /\ HoldsWords(items, said) /\ HoldsWords(rewriteCompactionItems(items), said)
  BY <1>1, <1>2, CompactRequest
<1>4. /\ isCompactionItemAny(item) /\ item.text = Remembered(items)
      /\ item \in Items
  BY <1>3, TextsOfItems
     DEF SummaryOf, compactionItem, isCompactionItemAny, Items, ItemTypes, Roles, IdForms
<1>5. rewriteCompactionItems(items) \in Seq(Items)
  BY <1>3, RewriteType
<1>6. PICK s \in {items, rewriteCompactionItems(items), history} :
        history' = Append(retainedItems(s), item)
  <2>1. CASE installsV1(r)
    <3>1. answer[r].kind = "compact_window" /\ history' = answer[r].items
      BY <2>1 DEF installsV1, Install
    <3> QED BY <1>1, <3>1 DEF Whole, Given
  <2>2. CASE installsV2(r)
    <3>1. history' = retainedItems(history) \o <<item>>
      BY <1>1, <2>2 DEF installsV2, Install, Whole
    <3>2. retainedItems(history) \in Seq(Items)
      BY <1>1, RetainedFacts
    <3> HIDE DEF item
    <3>3. retainedItems(history) \o <<item>> = Append(retainedItems(history), item)
      BY <1>4, <3>2, AppendIsConcat
    <3> QED BY <3>1, <3>3
  <2> QED BY <2>1, <2>2
<1> HIDE DEF item
<1>7. s \in Seq(Items) /\ HoldsWords(s, said)
  <2>1. HoldsWords(history, said)
    BY DEF WInv, Words
  <2> QED BY <1>1, <1>3, <1>5, <2>1
<1>8. isCPACompaction(item) => Answered(item.text)
  BY <1>3, <1>4
<1> QED BY <1>1, <1>4, <1>6, <1>7, <1>8, InstallKeeps

\* What a model's own compaction installs keeps the words, whichever body it was
\* sent.
LEMMA NativeWords ==
  ASSUME WInv, NEW r \in Requests, installsNative(r)
  PROVE  Words'
<1> DEFINE items == ClientItems(r)
<1>1. PICK c \in upstream :
        /\ c.req = r
        /\ history' = Append(retainedItems(IF turn.kind = "v1" THEN c.items ELSE history),
                             OpaqueItem(Readable(c.items)))
  BY DEF installsNative, Install
<1> DEFINE item == OpaqueItem(Readable(c.items))
<1>2. /\ current = r /\ turn.kind \in {"v1", "v2"} /\ said' = said /\ turn' = NoTurn
      /\ history \in Seq(Items) /\ c.items \in Seq(Items) /\ item \in Items
  BY InstallTypes DEF installsNative, Received, Install, EndTurn, WInv, SInv, STypes, SessionTypeOK
<1>3. /\ HoldsWords(items, said) /\ HoldsWords(rewriteCompactionItems(items), said)
      /\ HoldsWords(rewriteCompactionItems(nonTriggers(items)), said)
  BY <1>2, CompactRequest
<1>4. c.items \in {items, rewriteCompactionItems(items), rewriteCompactionItems(nonTriggers(items))}
  <2>1. pc[r] # "idle"
    BY <1>2, CurrentRequest DEF WInv
  <2>2. Sound(c) /\ isResponses(r)
    BY <1>1, <2>1 DEF WInv, SInv, RequestInv, CallsOf, InProtocol
  <2> QED BY <1>1, <2>2 DEF Sound, Policed
<1>5. HoldsWords(c.items, said) /\ HoldsWords(history, said)
  BY <1>3, <1>4 DEF WInv, Words
<1>6. isCompactionItemAny(item) /\ ~isCPACompaction(item)
  BY DEF OpaqueItem, isCompactionItemAny, isCPACompaction
<1> HIDE DEF item
<1>7. PICK s \in {c.items, history} : history' = Append(retainedItems(s), item)
  BY <1>1 DEF item
<1> QED BY <1>2, <1>5, <1>6, <1>7, InstallKeeps

\* Every step of a session keeps the user's words.
LEMMA WordsStep ==
  ASSUME WInv, [SessionNext]_allVars
  PROVE  Words'
<1>0. Words /\ turn \in Turns
  BY DEF WInv, SInv, STypes, SessionTypeOK
<1>1. ASSUME UNCHANGED <<history, said>>,
             turn'.kind \in {"v1", "v2"} => history # <<>>
      PROVE  Words'
  BY <1>0, <1>1 DEF Words, HoldsWords, Superseded, hasOpaque, Answered, Remembered
<1>2. CASE UNCHANGED <<history, said, turn>>
  BY <1>0, <1>1, <1>2 DEF Words
<1>3. ASSUME NEW t \in Turns, beginTurn(t)
      PROVE  Words'
  BY <1>1, <1>3 DEF beginTurn
<1>4. ASSUME NEW r \in Requests, refused(r) \/ failed(r)
      PROVE  Words'
  <2>1. UNCHANGED <<history, said>> /\ turn' \in {turn, NoTurn}
    BY <1>4 DEF refused, failed, EndTurn
  <2>2. NoTurn.kind = "none"
    BY <1>0 DEF NoTurn, Turns
  <2> QED BY <1>0, <1>1, <2>1, <2>2 DEF Words
<1> QED BY <1>2, <1>3, <1>4, ConversedWords, SummarizedWords, NativeWords
        DEF SessionNext, Reconfigured, BridgeMoves, Receive, sessionVars, abandon,
            attempt, allVars, discarded

\* Through any mix of V1, V2 and native compactions, retries and reconfigurations,
\* and whichever body CPA hands over, the history holds every message of the user as
\* sent, once and in order, and no answer before the state that summarises it
\* (retainedItems, v1CompactWindow, compactToUserMessage).
THEOREM WordsKept == SessionSpec => []UsersWordsKept
<1>1. SessionInit => WInv
  <2> SUFFICES ASSUME SessionInit PROVE WInv
    OBVIOUS
  <2>1. \A r \in Requests : Whole(r)
    BY DEF SessionInit, Init, Plain, Whole
  <2>2. history = <<>> /\ said = 0 /\ turn.kind = "none"
    BY DEF SessionInit
  <2>3. HoldsWords(history, said)
    BY <2>2 DEF HoldsWords, Odd
  <2> QED BY <2>1, <2>2, <2>3, SessionStart DEF WInv, Words, Superseded
<1>2. WInv /\ [SessionNext]_allVars => WInv'
  BY SessionNextInv, WholeNext, WordsStep DEF WInv
<1>3. WInv => UsersWordsKept
  <2> SUFFICES ASSUME WInv PROVE UsersWordsKept
    OBVIOUS
  <2>1. said \in Nat /\ HoldsWords(history, said) /\ Superseded(history)
    BY DEF WInv, Words, SInv, STypes, SessionTypeOK
  <2>2. \A n \in Spoken : n \in Odd /\ n <= said
    BY <2>1 DEF Spoken, Odd
  <2> QED BY <2>1, <2>2 DEF UsersWordsKept, HoldsWords, Superseded
<1> QED BY <1>1, <1>2, <1>3, PTL DEF SessionSpec
=============================================================================
