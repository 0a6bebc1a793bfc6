------------------------------ MODULE GateProofs ------------------------------
(***************************************************************************)
(* CompactBridge implements CompactionGate: a theorem for any requests,    *)
(* workload and sequence of configurations, under one assumption about CPA *)
(* (it hands the executor the intercepted body).                           *)
(***************************************************************************)
EXTENDS BridgeProofs

-----------------------------------------------------------------------------
(* The gate reads items as the bridge does *)

\* CompactionGate comes with a policy of its own, which is the same policy.
LEMMA SamePolicy ==
  /\ Gate!Items = Items
  /\ \A items : /\ Gate!RecordsOf(items) = RecordsOf(items)
                /\ Gate!rewriteCompactionItems(items) = rewriteCompactionItems(items)
                /\ Gate!nonTriggers(items) = nonTriggers(items)
                /\ Gate!retainedItems(items) = retainedItems(items)
  /\ \A item : Gate!compactionRecordOf(item) = compactionRecordOf(item)
<1>1. Gate!Items = Items
  BY DEF Gate!Items, Items, Gate!ItemTypes, ItemTypes, Gate!Roles, Roles, Gate!IdForms, IdForms
<1>2. \A item : /\ Gate!isCompactionItemAny(item) = isCompactionItemAny(item)
                /\ Gate!isCompactionTrigger(item) = isCompactionTrigger(item)
                /\ Gate!isRetained(item) = isRetained(item)
                /\ Gate!compactToUserMessage(item) = compactToUserMessage(item)
                /\ Gate!compactionRecordOf(item) = compactionRecordOf(item)
  BY DEF Gate!isCompactionItemAny, isCompactionItemAny, Gate!isCompactionTrigger,
         isCompactionTrigger, Gate!isRetained, isRetained, Gate!compactToUserMessage,
         compactToUserMessage, Gate!compactionRecordOf, compactionRecordOf,
         Gate!isCPACompaction, isCPACompaction
<1>3. \A items : Gate!RecordsOf(items) = RecordsOf(items)
  BY <1>2 DEF Gate!RecordsOf, RecordsOf
<1>4. \A items : Gate!rewriteCompactionItems(items) = rewriteCompactionItems(items)
  BY <1>2 DEF Gate!rewriteCompactionItems, rewriteCompactionItems, Gate!rewriteItem, rewriteItem
<1>5. \A S : Gate!Cardinality(S) = Cardinality(S)
  BY DEF Gate!Cardinality, Cardinality, Gate!IsFiniteSet, IsFiniteSet
<1>6. \A K, k : Gate!NthOf(K, k) = NthOf(K, k)
  BY <1>5 DEF Gate!NthOf, NthOf
<1>7. \A s, K : Gate!ItemsAt(s, K) = ItemsAt(s, K)
  BY <1>5, <1>6 DEF Gate!ItemsAt, ItemsAt
<1>8. \A items : /\ Gate!nonTriggers(items) = nonTriggers(items)
                 /\ Gate!retainedItems(items) = retainedItems(items)
  BY <1>2, <1>7 DEF Gate!nonTriggers, nonTriggers, Gate!retainedItems, retainedItems
<1> QED BY <1>1, <1>2, <1>3, <1>4, <1>8

\* Restoring summaries and dropping triggers brings in no record.
LEMMA RecordsRemain ==
  ASSUME NEW items \in Seq(Items)
  PROVE  /\ RecordsOf(rewriteCompactionItems(items)) \subseteq RecordsOf(items)
         /\ RecordsOf(nonTriggers(items)) \subseteq RecordsOf(items)
<1>1. ASSUME NEW i \in DOMAIN rewriteCompactionItems(items),
             isCompactionItemAny(rewriteCompactionItems(items)[i])
      PROVE  /\ i \in DOMAIN items /\ isCompactionItemAny(items[i])
             /\ rewriteCompactionItems(items)[i] = items[i]
  BY <1>1 DEF rewriteCompactionItems, rewriteItem, compactToUserMessage, isCompactionItemAny
<1> DEFINE K == {i \in DOMAIN items : ~isCompactionTrigger(items[i])}
<1>2. ASSUME NEW k \in DOMAIN nonTriggers(items)
      PROVE  \E i \in DOMAIN items : nonTriggers(items)[k] = items[i]
  <2>1. K \in SUBSET (DOMAIN items) /\ nonTriggers(items) = ItemsAt(items, K)
    BY DEF nonTriggers
  <2> HIDE DEF K
  <2> QED BY <1>2, <2>1, ItemsAtFacts
<1> QED BY <1>1, <1>2 DEF RecordsOf

\* A summary turn is refused only for a record no summary turn may have.
LEMMA SummaryRefusal ==
  ASSUME NEW items \in Seq(Items), NEW given \in {items, rewriteCompactionItems(items)},
         buildSummaryRequestInput(removeLastCompactionTrigger(given)).verdict # "ok"
  PROVE  RecordsOf(items) \cap {"corrupt", "opaque"} # {}
<1>1. given \in Seq(Items) /\ RecordsOf(given) \subseteq RecordsOf(items)
  BY RewriteType, RecordsRemain
<1>2. checkCompactionItems(nonTriggers(given), "bridge") # "ok"
  BY <1>1, TriggersAfterLast DEF buildSummaryRequestInput
<1>3. RecordsOf(nonTriggers(given)) \cap {"corrupt", "opaque"} # {}
  BY <1>2 DEF checkCompactionItems
<1> QED BY <1>1, <1>3, RecordsRemain

-----------------------------------------------------------------------------
(* What the refinement needs beyond IInv *)

\* The interceptor let through no history that must not reach a model, a request
\* in another protocol keeps its items, and a compact turn in its callback still
\* holds what it was handed.
Gated(r) ==
  /\ pc[r] \in {"dispatching", "executing"} =>
       /\ isResponses(r) => /\ "corrupt" \notin RecordsOf(ClientItems(r))
                            /\ ~({"plaintext", "opaque"} \subseteq RecordsOf(ClientItems(r)))
       /\ ~isResponses(r) => inputItems(body[r]) = ClientItems(r)
  /\ pc[r] = "calling" /\ op[r] \in {"v1", "v2"} =>
       inputItems(body[r]) \in {ClientItems(r), rewriteCompactionItems(ClientItems(r))}

GateInv == IInv /\ \A r \in Requests : Gated(r)

\* The client's items in a request that CPA hands to the executor.
LEMMA GivenItems ==
  ASSUME IInv, NEW r \in Requests, Gated(r), pc[r] = "executing"
  PROVE  inputItems(body[r]) \in {ClientItems(r), rewriteCompactionItems(ClientItems(r))}
BY HandedItems DEF Gated

-----------------------------------------------------------------------------
(* The added invariant is preserved *)

\* handleRequestInterceptBefore screens what it lets through.
LEMMA InterceptorGates ==
  ASSUME GateInv, NEW r \in Requests, handleRequestInterceptBefore(r)
  PROVE  Gated(r)'
<1> USE DEF Goto
<1>1. /\ pc[r] = "intercepting" /\ client'[r] = client[r]
      /\ TypeOK /\ pc \in [Requests -> Phases] /\ body \in [Requests -> Bodies]
  BY DEF GateInv, IInv, TypeOK, handleRequestInterceptBefore, interceptPasses,
         interceptRewrites, interceptTerminates
<1>2. /\ body[r] = Merged(client[r]) /\ inputItems(body[r]) = ClientItems(r)
      /\ ClientItems(r)' = ClientItems(r) /\ isResponses(r)' = isResponses(r)
  BY <1>1 DEF GateInv, IInv, RequestInv, Carried, ClientItems, isResponses
<1>3. CASE interceptPasses(r)
  <2>1. pc'[r] = "dispatching" /\ inputItems(body[r])' = ClientItems(r)
    BY <1>1, <1>2, <1>3 DEF interceptPasses
  <2>2. ASSUME isResponses(r)
        PROVE  RecordsOf(ClientItems(r)) = {}
    <3>1. ~inputReadable(body[r]) => inputItems(body[r]) = <<>>
      BY DEF inputReadable, inputItems
    <3>2. ~hasCompactionItems(ClientItems(r))
      BY <1>2, <1>3, <2>2, <3>1 DEF interceptPasses, interceptorActs, isResponses, hasCompactionItems
    <3> QED BY <3>2 DEF hasCompactionItems, RecordsOf
  <2> QED BY <1>2, <2>1, <2>2 DEF Gated
<1>4. CASE interceptRewrites(r)
  <2>1. pc'[r] = "dispatching" /\ isResponses(r)
    BY <1>1, <1>4 DEF interceptRewrites, interceptorActs, isResponses
  <2>2. \E t : checkCompactionItems(ClientItems(r), t) = "ok"
    <3>1. body[r].shape = "array" /\ body[r].items = ClientItems(r)
      BY <1>2, <1>4 DEF interceptRewrites, interceptorActs, hasCompactionItems, inputItems
    <3> QED BY <1>4, <3>1 DEF interceptRewrites, interceptorVerdict, normalizeCompactionState
  <2>3. /\ "corrupt" \notin RecordsOf(ClientItems(r))
        /\ ~({"plaintext", "opaque"} \subseteq RecordsOf(ClientItems(r)))
    BY <2>2 DEF checkCompactionItems
  <2> QED BY <1>2, <2>1, <2>3 DEF Gated
<1>5. CASE interceptTerminates(r)
  <2>1. pc'[r] = "answered"
    BY <1>1, <1>5 DEF interceptTerminates
  <2> QED BY <2>1 DEF Gated
<1> QED BY <1>3, <1>4, <1>5 DEF handleRequestInterceptBefore

\* Every step that a request takes.
LEMMA GatedStep ==
  ASSUME "client" \notin HandOver, GateInv, NEW r \in Requests, Asks(r) \/ Progress(r)
  PROVE  Gated(r)'
<1> USE DEF Goto
<1>0. /\ IInv /\ TypeOK /\ Gated(r)
      /\ pc \in [Requests -> Phases] /\ op \in [Requests -> Branches]
  BY DEF GateInv, IInv, TypeOK
<1>1. CASE Asks(r)
  BY <1>0, <1>1 DEF Asks, clientSends, Gated
<1>2. CASE handleModelRoute(r) \/ mergeTranscript(r)
  BY <1>0, <1>2 DEF handleModelRoute, mergeTranscript, Gated
<1>3. CASE handleRequestInterceptBefore(r)
  BY <1>3, InterceptorGates
<1>4. CASE dispatchBuiltin(r) \/ upstreamAnswers(r)
  BY <1>0, <1>4 DEF dispatchBuiltin, upstreamAnswers, Gated
<1>5. CASE dispatchExecutor(r)
  <2>1. HandOver = {"intercepted"}
    BY CompactBridgeAssumption
  <2>2. /\ pc[r] = "dispatching" /\ pc'[r] = "executing" /\ client' = client
        /\ body'[r] = body[r]
    BY <1>0, <1>5, <2>1 DEF dispatchExecutor, IInv, TypeOK
  <2> QED BY <1>0, <2>2 DEF Gated, isResponses, ClientItems
<1>6. CASE handleExecute(r)
  <2>1. pc[r] = "executing"
    BY <1>6 DEF handleExecute, delegateUnbridged, executeV1Compact, executeStream,
                executeOrdinaryBridged, requestSummary, CallHost, Return
  <2>2. ASSUME NEW b, requestSummary(r, b)
        PROVE  Gated(r)'
    <3>1. pc'[r] = "calling" /\ client' = client /\ body' = body
      BY <1>0, <2>2 DEF requestSummary, CallHost
    <3> QED BY <1>0, <2>1, <3>1, GivenItems DEF Gated, ClientItems
  <2>3. ASSUME NEW b \in {"ordinary", "delegate"}, NEW via, NEW model, NEW items,
               CallHost(r, b, via, model, items)
        PROVE  Gated(r)'
    BY <1>0, <2>3 DEF CallHost, Gated
  <2>4. ASSUME NEW a, Return(r, a)
        PROVE  Gated(r)'
    BY <1>0, <2>4 DEF Return, Gated
  <2> QED BY <1>6, <2>2, <2>3, <2>4
          DEF handleExecute, delegateUnbridged, executeV1Compact, executeStream,
              executeOrdinaryBridged
<1>7. ASSUME NEW reply \in Replies, summaryReturns(r, reply) \/ delegateReturns(r, reply)
      PROVE  Gated(r)'
  BY <1>0, <1>7 DEF summaryReturns, delegateReturns, Gated
<1> QED BY <1>1, <1>2, <1>3, <1>4, <1>5, <1>6, <1>7 DEF Progress

\* A request that a step leaves alone stays gated.
LEMMA GatedUntouched ==
  ASSUME NEW s \in Requests, Gated(s), Untouched(s)
  PROVE  Gated(s)'
BY DEF Gated, Untouched, isResponses, ClientItems

-----------------------------------------------------------------------------
(* Each step maps to a step of the gate or to a stutter *)

\* A request takes the step to phase p.
GoesTo(r, p) == p \in Phases /\ pc' = [pc EXCEPT ![r] = p]

\* A step within a stage is a stutter.
LEMMA GateStutter ==
  ASSUME TypeOK, NEW r \in Requests, NEW p, GoesTo(r, p), StageOf(p) = StageOf(pc[r]),
         UNCHANGED <<client, upstream, answer>>
  PROVE  UNCHANGED Gate!gateVars
<1>1. \A s \in Requests : StageOf(pc'[s]) = StageOf(pc[s])
  BY DEF GoesTo, TypeOK
<1> QED BY <1>1 DEF Gate!gateVars, CallsOf, ClientItems, isResponses

\* The stages after a step of one request.
LEMMA StageMoves ==
  ASSUME TypeOK, NEW r \in Requests, NEW p, GoesTo(r, p)
  PROVE  Gate!Stands(r, StageOf(pc[r]), StageOf(p))
<1>1. \A s \in Requests : StageOf(pc'[s]) = IF s = r THEN StageOf(p) ELSE StageOf(pc[s])
  BY DEF GoesTo, TypeOK
<1> QED BY <1>1 DEF Gate!Stands

\* A client's request is a question.
LEMMA QuestionType ==
  ASSUME TypeOK, NEW r \in Requests
  PROVE  [items |-> ClientItems(r), responses |-> isResponses(r)] \in Gate!Questions
<1>1. ClientItems(r) \in Seq(Items) /\ isResponses(r) \in BOOLEAN
  BY ClientItemsType DEF isResponses
<1> QED BY <1>1, SamePolicy DEF Gate!Questions

\* A call that a request may make is a call of the gate.
LEMMA GateCalls ==
  ASSUME TypeOK, NEW r \in Requests, NEW p, GoesTo(r, p),
         StageOf(pc[r]) = "open", StageOf(p) = "called",
         UNCHANGED <<client, answer>>, CallsOf(r) = {},
         NEW c, c.req = r, upstream' = upstream \cup {c},
         isResponses(r) => /\ "corrupt" \notin RecordsOf(ClientItems(r))
                           /\ ~({"plaintext", "opaque"} \subseteq RecordsOf(ClientItems(r))),
         \/ c.items = rewriteCompactionItems(ClientItems(r))
         \/ c.items = rewriteCompactionItems(nonTriggers(ClientItems(r)))
         \/ ~isResponses(r) /\ c.items = ClientItems(r)
  PROVE  Gate!Call(r)
<1>1. Gate!Stands(r, "open", "called")
  BY StageMoves
<1> DEFINE q == [items |-> ClientItems(r), responses |-> isResponses(r)]
<1>2. c.items \in Gate!Sendable(q)
  BY SamePolicy DEF Gate!Sendable
<1>3. q.responses => ~Gate!Unreadable(q)
  BY SamePolicy DEF Gate!Unreadable
<1>4. \A s \in Requests : CallsOf(s)' = IF s = r THEN {c} ELSE CallsOf(s)
  BY DEF CallsOf
<1>5. [s \in Requests |-> {d.items : d \in CallsOf(s)}]'
        = [[s \in Requests |-> {d.items : d \in CallsOf(s)}] EXCEPT ![r] = {c.items}]
  BY <1>4
<1>6. [s \in Requests |-> [items |-> ClientItems(s), responses |-> isResponses(s)]]'
        = [s \in Requests |-> [items |-> ClientItems(s), responses |-> isResponses(s)]]
  BY DEF ClientItems, isResponses
<1>7. [s \in Requests |-> [items |-> ClientItems(s), responses |-> isResponses(s)]][r] = q
  OBVIOUS
<1> HIDE DEF q
<1> QED BY <1>1, <1>2, <1>3, <1>5, <1>6, <1>7 DEF Gate!Call

\* What leaves the gate's questions and calls alone.
LEMMA GateKeeps ==
  ASSUME UNCHANGED <<client, upstream>>
  PROVE  /\ [s \in Requests |-> [items |-> ClientItems(s), responses |-> isResponses(s)]]'
              = [s \in Requests |-> [items |-> ClientItems(s), responses |-> isResponses(s)]]
         /\ [s \in Requests |-> {d.items : d \in CallsOf(s)}]'
              = [s \in Requests |-> {d.items : d \in CallsOf(s)}]
BY DEF ClientItems, isResponses, CallsOf

\* An answer before any call is a refusal of the gate.
LEMMA GateRefuses ==
  ASSUME TypeOK, NEW r \in Requests, GoesTo(r, "answered"), StageOf(pc[r]) = "open",
         UNCHANGED <<client, upstream>>,
         NEW kind \in {"invalid_state", "bridge_failed", "stream_failed"},
         answer' = [answer EXCEPT ![r] = Plain(kind)],
         kind = "invalid_state" => RecordsOf(ClientItems(r)) \cap {"corrupt", "opaque"} # {}
  PROVE  Gate!Refuse(r)
<1>1. Gate!Stands(r, "open", "closed")
  BY StageMoves DEF StageOf, Phases
<1>2. answer'[r] = [kind |-> kind, items |-> <<>>] /\ Gate!Only(r, answer, answer')
  BY DEF TypeOK, Plain, Gate!Only
<1> DEFINE q == [items |-> ClientItems(r), responses |-> isResponses(r)]
<1>3. kind = "invalid_state" => Gate!Refusable(q)
  BY SamePolicy DEF Gate!Refusable
<1>4. [s \in Requests |-> [items |-> ClientItems(s), responses |-> isResponses(s)]][r] = q
  OBVIOUS
<1>5. /\ answer'[r].kind = kind /\ answer'[r].items = <<>>
      /\ kind = "invalid_state" => Gate!Refusable(
           [s \in Requests |-> [items |-> ClientItems(s), responses |-> isResponses(s)]][r])
  BY <1>2, <1>3, <1>4
<1> HIDE DEF q
<1> QED BY <1>1, <1>2, <1>5, GateKeeps DEF Gate!Refuse

\* An answer after the call is a delivery of the gate.
LEMMA GateDelivers ==
  ASSUME TypeOK, NEW r \in Requests, GoesTo(r, "answered"), StageOf(pc[r]) = "called",
         UNCHANGED <<client, upstream>>,
         NEW a, answer' = [answer EXCEPT ![r] = a],
         \/ /\ a.kind \in {"upstream", "bridge_failed", "stream_failed"}
            /\ a.items = <<>>
         \/ /\ a.kind \in {"compact_window", "compact_stream"}
            /\ Gate!Installs([items |-> ClientItems(r), responses |-> isResponses(r)], a.items)
  PROVE  Gate!Deliver(r)
<1>1. Gate!Stands(r, "called", "closed")
  BY StageMoves DEF StageOf, Phases
<1>2. answer'[r] = a /\ Gate!Only(r, answer, answer')
  BY DEF TypeOK, Gate!Only
<1> DEFINE q == [items |-> ClientItems(r), responses |-> isResponses(r)]
<1>3. [s \in Requests |-> [items |-> ClientItems(s), responses |-> isResponses(s)]][r] = q
  OBVIOUS
<1> HIDE DEF q
<1> QED BY <1>1, <1>2, <1>3, GateKeeps DEF Gate!Deliver, q

\* What a finished compact turn installs, the gate may install.
LEMMA AnswerInstalls ==
  ASSUME GateInv, NEW r \in Requests, pc[r] = "calling", op[r] \in {"v1", "v2"},
         NEW reply \in Replies
  PROVE  LET a == compactAnswer(r, reply)
         IN  \/ a.kind \in {"bridge_failed", "stream_failed"} /\ a.items = <<>>
             \/ /\ a.kind \in {"compact_window", "compact_stream"}
                /\ Gate!Installs([items |-> ClientItems(r), responses |-> isResponses(r)], a.items)
<1> DEFINE held == inputItems(body[r])
           a    == compactAnswer(r, reply)
           q    == [items |-> ClientItems(r), responses |-> isResponses(r)]
<1>1. /\ held \in Seq(Items) /\ reply.text \in Texts
      /\ held \in {ClientItems(r), rewriteCompactionItems(ClientItems(r))}
  BY InputItemsType DEF GateInv, IInv, TypeOK, Replies, Gated
<1>2. CASE ~usableSummary(reply, cfg[r])
  BY <1>2 DEF compactAnswer, Plain
<1>3. CASE usableSummary(reply, cfg[r])
  <2>1. reply.text # Blank
    BY <1>3 DEF usableSummary
  <2>2. PICK kept \in {<<>>, retainedItems(held)} :
          /\ a.kind \in {"compact_window", "compact_stream"}
          /\ a.items = Append(kept, compactionItem(reply.text))
    BY <1>3 DEF compactAnswer, v1CompactWindow
  <2>3. /\ kept \in {<<>>, retainedItems(ClientItems(r)),
                     retainedItems(rewriteCompactionItems(ClientItems(r)))}
        /\ kept \in Seq(Items) /\ compactionItem(reply.text) \in Items
    <3>1. compactionItem(reply.text) \in Items
      BY <1>1 DEF compactionItem, Items, ItemTypes, Roles, IdForms
    <3>2. DEFINE K == {i \in DOMAIN held : isRetained(held[i])}
    <3>3. K \in SUBSET (DOMAIN held) /\ retainedItems(held) = ItemsAt(held, K)
      BY DEF retainedItems
    <3>4. retainedItems(held) \in Seq(Items)
      <4> HIDE DEF K, held
      <4> QED BY <1>1, <3>3, ItemsAtFacts
    <3>5. <<>> \in Seq(Items)
      OBVIOUS
    <3> HIDE DEF K, held, a
    <3>6. kept \in Seq(Items)
      BY <3>4, <3>5
    <3> QED BY <1>1, <2>2, <3>1, <3>6
  <2>4. a.items[Len(a.items)] = compactionItem(reply.text)
    <3> HIDE DEF a
    <3> QED BY <2>2, <2>3
  <2>5. compactionRecordOf(compactionItem(reply.text)) = "plaintext"
    BY <2>1 DEF compactionRecordOf, compactionItem, isCPACompaction
  <2> HIDE DEF a
  <2>6. Gate!Installs(q, a.items)
    BY <2>2, <2>3, <2>4, <2>5, SamePolicy DEF Gate!Installs
  <2> QED BY <2>2, <2>6 DEF a
<1> QED BY <1>2, <1>3

\* A call the executor makes.
LEMMA ExecutorCalls ==
  ASSUME "client" \notin HandOver, GateInv, NEW r \in Requests,
         NEW b, NEW via, NEW model, NEW items, CallHost(r, b, via, model, items),
         \/ items = rewriteCompactionItems(ClientItems(r))
         \/ items = rewriteCompactionItems(nonTriggers(ClientItems(r)))
         \/ ~isResponses(r) /\ items = ClientItems(r)
  PROVE  Gate!Call(r)
<1> DEFINE c == [req |-> r, via |-> via, model |-> model, items |-> items,
                 under |-> loaded, judged |-> cfg[r]]
<1>1. /\ pc[r] = "executing" /\ GoesTo(r, "calling") /\ UNCHANGED <<client, answer>>
      /\ upstream' = upstream \cup {c} /\ c.req = r /\ c.items = items
  BY DEF CallHost, CallModel, Goto, GoesTo, Phases
<1>2. TypeOK /\ CallsOf(r) = {} /\ Gated(r)
  BY <1>1 DEF GateInv, IInv, RequestInv, Spending, EarlyPhases
<1>3. StageOf(pc[r]) = "open" /\ StageOf("calling") = "called"
  BY <1>1 DEF StageOf
<1> HIDE DEF c
<1> QED BY <1>1, <1>2, <1>3, GateCalls DEF Gated

\* A refusal or failure the executor answers without a call.
LEMMA ExecutorRefuses ==
  ASSUME GateInv, NEW r \in Requests,
         NEW kind \in {"invalid_state", "bridge_failed", "stream_failed"},
         Return(r, Plain(kind)),
         kind = "invalid_state" => RecordsOf(ClientItems(r)) \cap {"corrupt", "opaque"} # {}
  PROVE  Gate!Refuse(r)
<1>1. /\ pc[r] = "executing" /\ GoesTo(r, "answered") /\ UNCHANGED <<client, upstream>>
      /\ answer' = [answer EXCEPT ![r] = Plain(kind)]
  BY DEF Return, Answer, Goto, GoesTo, Phases
<1>2. TypeOK /\ StageOf(pc[r]) = "open"
  BY <1>1 DEF GateInv, IInv, StageOf
<1> QED BY <1>1, <1>2, GateRefuses

\* handleExecute calls or refuses, on every branch.
LEMMA ExecutorSteps ==
  ASSUME "client" \notin HandOver, GateInv, NEW r \in Requests, handleExecute(r)
  PROVE  Gate!Call(r) \/ Gate!Refuse(r)
<1> DEFINE items == ClientItems(r)
           held  == inputItems(body[r])
<1>1. pc[r] = "executing"
  BY DEF handleExecute, delegateUnbridged, executeV1Compact, executeStream,
         executeOrdinaryBridged, requestSummary, CallHost, Return, Goto
<1>2. /\ IInv /\ TypeOK /\ items \in Seq(Items) /\ body[r] \in Bodies
      /\ held \in {items, rewriteCompactionItems(items)}
      /\ isResponses(r) => held = rewriteCompactionItems(items)
      /\ ~isResponses(r) => held = items
  BY <1>1, GivenItems, ClientItemsType DEF GateInv, IInv, RequestInv, Carried, Restored, Gated
<1> HIDE DEF items, held
<1>3. ASSUME NEW b, requestSummary(r, b)
      PROVE  Gate!Call(r)
  <2>1. summaryInput(r).items = rewriteCompactionItems(nonTriggers(items))
    BY <1>2, SummaryHistory DEF summaryInput, held
  <2> QED BY <1>3, <2>1, ExecutorCalls DEF requestSummary, items
<1>4. summaryVerdict(r) = "invalid_state" => RecordsOf(items) \cap {"corrupt", "opaque"} # {}
  BY <1>2, SummaryRefusal DEF summaryVerdict, summaryInput, held
<1>5. CASE delegateUnbridged(r)
  <2>1. held = rewriteCompactionItems(items) \/ (~isResponses(r) /\ held = items)
    BY <1>2
  <2> QED BY <1>5, <2>1, ExecutorCalls DEF delegateUnbridged, items, held
<1>6. CASE executeV1Compact(r)
  BY <1>3, <1>4, <1>6, ExecutorRefuses DEF executeV1Compact, items
<1>7. CASE executeStream(r)
  BY <1>3, <1>4, <1>7, ExecutorRefuses DEF executeStream, streamFailure, items
<1>8. CASE executeOrdinaryBridged(r)
  <2> DEFINE result == normalizeCompactionState(body[r], "bridge")
  <2>1. CASE /\ result.verdict = "ok"
             /\ CallHost(r, "ordinary", "ordinary", client[r].model, inputItems(result.body))
    <3>1. inputItems(result.body) = rewriteCompactionItems(held)
      BY <1>2, <2>1, NormalizedHistory DEF held
    <3>2. inputItems(result.body) = rewriteCompactionItems(items)
      BY <1>2, <3>1, RewriteAgain
    <3> QED BY <2>1, <3>2, ExecutorCalls DEF items
  <2>2. CASE Return(r, Plain(IF result.verdict \in StateErrors
                             THEN "invalid_state" ELSE "bridge_failed"))
    <3>1. result.verdict \in StateErrors => RecordsOf(held) \cap {"corrupt", "opaque"} # {}
      BY DEF normalizeCompactionState, checkCompactionItems, StateErrors, held, inputItems
    <3>2. RecordsOf(held) \subseteq RecordsOf(items)
      BY <1>2, RecordsRemain
    <3> QED BY <2>2, <3>1, <3>2, ExecutorRefuses DEF items
  <2> QED BY <1>8, <2>1, <2>2 DEF executeOrdinaryBridged
<1> QED BY <1>5, <1>6, <1>7, <1>8 DEF handleExecute

\* A step of one request is a step of the gate, or leaves it where it was.
LEMMA GateStep ==
  ASSUME "client" \notin HandOver, GateInv, TypeOK', NEW r \in Requests,
         Asks(r) \/ Progress(r)
  PROVE  Gate!Next \/ UNCHANGED Gate!gateVars
<1> USE DEF Goto
<1>0. /\ TypeOK /\ Gated(r) /\ RequestInv(r)
      /\ pc \in [Requests -> Phases] /\ body \in [Requests -> Bodies]
  BY DEF GateInv, IInv, TypeOK
<1>1. CASE Asks(r)
  <2>1. /\ pc[r] = "idle" /\ GoesTo(r, "routing") /\ UNCHANGED <<upstream, answer>>
        /\ \A s \in Requests : s # r => client'[s] = client[s]
    BY <1>0, <1>1 DEF Asks, clientSends, GoesTo, Phases, TypeOK
  <2>2. Gate!Stands(r, "idle", "open")
    BY <1>0, <2>1, StageMoves DEF StageOf
  <2>3. [items |-> ClientItems(r)', responses |-> isResponses(r)'] \in Gate!Questions
    <3>1. client'[r] \in ClientRequests
      BY DEF TypeOK
    <3>2. ClientItems(r)' \in Seq(Items) /\ isResponses(r)' \in BOOLEAN
      BY <3>1, MergedType, InputItemsType DEF ClientItems, isResponses
    <3> QED BY <3>2, SamePolicy DEF Gate!Questions
  <2>4. Gate!Only(r, [s \in Requests |-> [items |-> ClientItems(s), responses |-> isResponses(s)]],
                     [s \in Requests |-> [items |-> ClientItems(s), responses |-> isResponses(s)]]')
    BY <2>1 DEF Gate!Only, ClientItems, isResponses
  <2>5. [s \in Requests |-> {d.items : d \in CallsOf(s)}]'
          = [s \in Requests |-> {d.items : d \in CallsOf(s)}]
    BY <2>1 DEF CallsOf
  <2>6. Gate!Ask(r)
    BY <2>1, <2>2, <2>3, <2>4, <2>5 DEF Gate!Ask
  <2> QED BY <2>6 DEF Gate!Next
<1>2. CASE handleModelRoute(r) \/ mergeTranscript(r) \/ interceptPasses(r)
           \/ interceptRewrites(r) \/ dispatchExecutor(r)
  <2>1. PICK p \in {"merging", "intercepting", "dispatching", "executing"} :
          GoesTo(r, p) /\ UNCHANGED <<client, upstream, answer>>
    BY <1>2 DEF handleModelRoute, mergeTranscript, interceptPasses, interceptRewrites,
                dispatchExecutor, GoesTo, Phases
  <2>2. pc[r] \in {"routing", "merging", "intercepting", "dispatching"}
    BY <1>2 DEF handleModelRoute, mergeTranscript, interceptPasses, interceptRewrites,
                dispatchExecutor
  <2>3. StageOf(p) = "open" /\ StageOf(pc[r]) = "open"
    BY <2>1, <2>2 DEF StageOf
  <2> QED BY <1>0, <2>1, <2>3, GateStutter
<1>3. CASE interceptTerminates(r)
  <2> DEFINE verdict == interceptorVerdict(r).verdict
             kind == IF verdict \in StateErrors THEN "invalid_state" ELSE "bridge_failed"
  <2>1. /\ pc[r] = "intercepting" /\ GoesTo(r, "answered") /\ UNCHANGED <<client, upstream>>
        /\ answer' = [answer EXCEPT ![r] = Plain(kind)]
    BY <1>3 DEF interceptTerminates, GoesTo, Phases, Answer
  <2>2. inputItems(body[r]) = ClientItems(r)
    BY <1>0, <2>1 DEF RequestInv, Carried, ClientItems
  <2>3. verdict \in StateErrors => RecordsOf(ClientItems(r)) \cap {"corrupt", "opaque"} # {}
    BY <2>2 DEF interceptorVerdict, normalizeCompactionState, checkCompactionItems,
                StateErrors, inputItems
  <2>4. StageOf(pc[r]) = "open"
    BY <2>1 DEF StageOf
  <2> HIDE DEF verdict
  <2>5. Gate!Refuse(r)
    BY <1>0, <2>1, <2>3, <2>4, GateRefuses
  <2> QED BY <2>5 DEF Gate!Next
<1>4. CASE dispatchBuiltin(r)
  <2> DEFINE c == [req |-> r, via |-> "builtin", model |-> client[r].model,
                   items |-> inputItems(body[r]), under |-> cfg[r], judged |-> cfg[r]]
  <2>1. /\ pc[r] = "dispatching" /\ GoesTo(r, "forwarded") /\ UNCHANGED <<client, answer>>
        /\ upstream' = upstream \cup {c} /\ c.req = r /\ c.items = inputItems(body[r])
    BY <1>4 DEF dispatchBuiltin, CallModel, GoesTo, Phases
  <2> HIDE DEF c
  <2>2. CallsOf(r) = {} /\ StageOf(pc[r]) = "open" /\ StageOf("forwarded") = "called"
    BY <1>0, <2>1 DEF RequestInv, Spending, EarlyPhases, StageOf
  <2>3. Gate!Call(r)
    BY <1>0, <2>1, <2>2, GateCalls DEF Gated, RequestInv, Carried, Restored
  <2> QED BY <2>3 DEF Gate!Next
<1>5. CASE handleExecute(r)
  BY <1>5, ExecutorSteps DEF Gate!Next
<1>6. ASSUME NEW reply \in Replies, summaryReturns(r, reply)
      PROVE  Gate!Deliver(r)
  <2>1. /\ pc[r] = "calling" /\ op[r] \in {"v1", "v2"}
        /\ GoesTo(r, "answered") /\ UNCHANGED <<client, upstream>>
        /\ answer' = [answer EXCEPT ![r] = compactAnswer(r, reply)]
    BY <1>6 DEF summaryReturns, Answer, GoesTo, Phases
  <2>2. StageOf(pc[r]) = "called"
    BY <2>1 DEF StageOf
  <2> DEFINE a == compactAnswer(r, reply)
  <2>3. \/ a.kind \in {"bridge_failed", "stream_failed"} /\ a.items = <<>>
        \/ /\ a.kind \in {"compact_window", "compact_stream"}
           /\ Gate!Installs([items |-> ClientItems(r), responses |-> isResponses(r)], a.items)
    BY <2>1, AnswerInstalls
  <2> HIDE DEF a
  <2> QED BY <1>0, <2>1, <2>2, <2>3, GateDelivers DEF a
<1>7. CASE upstreamAnswers(r) \/ \E reply \in Replies : delegateReturns(r, reply)
  <2>1. PICK kind \in {"upstream", "bridge_failed"} :
          /\ pc[r] \in {"calling", "forwarded"}
          /\ GoesTo(r, "answered") /\ UNCHANGED <<client, upstream>>
          /\ answer' = [answer EXCEPT ![r] = Plain(kind)]
    BY <1>7 DEF upstreamAnswers, delegateReturns, Answer, GoesTo, Phases
  <2>2. StageOf(pc[r]) = "called"
    BY <2>1 DEF StageOf
  <2>3. Plain(kind).kind = kind /\ Plain(kind).items = <<>>
    BY DEF Plain
  <2>4. Gate!Deliver(r)
    BY <1>0, <2>1, <2>2, <2>3, GateDelivers
  <2> QED BY <2>4 DEF Gate!Next
<1> QED BY <1>1, <1>2, <1>3, <1>4, <1>5, <1>6, <1>7
        DEF Progress, handleRequestInterceptBefore, Gate!Next

\* The initial states map to the gate's.
LEMMA GateInit == Init => GateInv /\ Gate!Init
<1> SUFFICES ASSUME Init PROVE GateInv /\ Gate!Init
  OBVIOUS
<1>1. IInv
  BY InitInv
<1>2. \A r \in Requests : Gated(r) /\ StageOf(pc[r]) = "idle" /\ CallsOf(r) = {}
  BY DEF Init, Gated, StageOf, CallsOf
<1>3. answer = [r \in Requests |-> [kind |-> "none", items |-> <<>>]]
  BY DEF Init, Plain
<1>4. [r \in Requests |-> [items |-> ClientItems(r), responses |-> isResponses(r)]]
        \in [Requests -> Gate!Questions]
  BY <1>1, QuestionType DEF IInv
<1> QED BY <1>1, <1>2, <1>3, <1>4 DEF GateInv, Gate!Init

\* If CPA hands the executor the intercepted body, the bridge implements the
\* gate: however reconfigurations interleave with requests, all that a client or
\* a model can see is one question, at most one sound call, and one answer.
THEOREM GateImplemented == "client" \notin HandOver => (Spec => GateKept)
<1> SUFFICES ASSUME "client" \notin HandOver
             PROVE  Spec => GateKept
  OBVIOUS
<1>1. GateInv /\ [Next]_vars => GateInv' /\ [Gate!Next]_(Gate!gateVars)
  <2> SUFFICES ASSUME GateInv, [Next]_vars
               PROVE  GateInv' /\ (Gate!Next \/ UNCHANGED Gate!gateVars)
    OBVIOUS
  <2>1. IInv' /\ TypeOK'
    BY NextInv DEF GateInv, IInv
  <2>2. CASE UNCHANGED vars \/ \E raw \in RawConfigs : handleLifecycle(raw)
    <3>1. UNCHANGED <<pc, client, body, op, upstream, answer>>
      BY <2>2 DEF vars, handleLifecycle
    <3>2. UNCHANGED Gate!gateVars
      BY <3>1 DEF Gate!gateVars, CallsOf, ClientItems, isResponses
    <3>3. \A r \in Requests : Gated(r)'
      BY <3>1 DEF GateInv, Gated, isResponses, ClientItems
    <3> QED BY <2>1, <3>2, <3>3 DEF GateInv
  <2>3. ASSUME NEW r \in Requests, Arrive(r) \/ Progress(r)
        PROVE  GateInv' /\ (Gate!Next \/ UNCHANGED Gate!gateVars)
    <3>1. ASSUME NEW s \in Requests
          PROVE  Gated(s)'
      <4>1. CASE s = r
        BY <2>3, <4>1, GatedStep, ArriveAsks
      <4>2. CASE s # r
        BY <2>3, <4>2, OthersUntouched, GatedUntouched, ArriveAsks DEF GateInv, IInv
      <4> QED BY <4>1, <4>2
    <3>2. Gate!Next \/ UNCHANGED Gate!gateVars
      BY <2>1, <2>3, GateStep, ArriveAsks
    <3> QED BY <2>1, <3>1, <3>2 DEF GateInv
  <2> QED BY <2>2, <2>3 DEF Next, Reconfigure
<1> QED BY <1>1, GateInit, PTL DEF Spec, GateKept, Gate!Spec
=============================================================================
