----------------------------- MODULE BridgeProofs -----------------------------
(***************************************************************************)
(* Theorems about CompactBridge, for any set of requests, any workload,    *)
(* any sequence of configurations and any length of history.               *)
(***************************************************************************)
EXTENDS BridgeProperties, CompactionPolicyProofs, SequenceTheorems

USE DEF Phases, Branches, Vias, AnswerKinds

-----------------------------------------------------------------------------
(* The rules *)

\* The configuration in force before registration is one, and is valid.
LEMMA DefaultConfigType == defaultConfig \in Configs /\ validConfig(defaultConfig)
<1>1. defaultMaxSummaryBytes \in Int /\ defaultMaxSummaryBytes > 0
  BY DEF defaultMaxSummaryBytes
<1>2. <<>> \in Seq(RuleTexts) /\ <<>> \in Seq(Globs) /\ DOMAIN <<>> = {}
  OBVIOUS
<1> QED BY <1>1, <1>2
    DEF defaultConfig, Configs, ActionTexts, Actions, validConfig, maxAllowedSummaryTokens

\* Whatever a configuration call brings, loadConfig answers a configuration,
\* and one it accepts is valid.
LEMMA LoadConfigFacts ==
  ASSUME NEW raw \in RawConfigs
  PROVE  /\ loadConfig(raw).cfg \in Configs
         /\ loadConfig(raw).ok => validConfig(loadConfig(raw).cfg)
<1>1. WithDefaults(raw.cfg) \in Configs
  BY CompactBridgeAssumption
<1>2. CASE raw.kind \in {"empty", "undecoded"}
  BY <1>2, DefaultConfigType DEF loadConfig
<1>3. CASE raw.kind \notin {"empty", "undecoded"}
  BY <1>1, <1>3 DEF loadConfig
<1> QED BY <1>2, <1>3

\* Some matching rule comes first, and it is a rule of the configuration.
LEMMA WinningRuleFacts ==
  ASSUME NEW c \in Configs, NEW m, MatchingRules(c, m) # {}
  PROVE  \E i \in MatchingRules(c, m) :
           /\ \A j \in MatchingRules(c, m) : i <= j
           /\ WinningRule(c, m) = c.rules[i]
           /\ WinningRule(c, m) \in RuleTexts
<1>1. c.rules \in Seq(RuleTexts)
  BY DEF Configs
<1>2. MatchingRules(c, m) \subseteq DOMAIN c.rules
  BY DEF MatchingRules
<1>3. DOMAIN c.rules \subseteq Nat
  BY <1>1
<1> DEFINE less == {p \in Nat \X Nat : p[1] < p[2]}
<1>4. PICK i \in MatchingRules(c, m) : \A j \in MatchingRules(c, m) : <<j, i>> \notin less
  <2>1. OpToRel(<, Nat) = less
    BY Zenon DEF OpToRel
  <2>2. IsWellFoundedOn(less, Nat)
    BY <2>1, NatLessThanWellFounded, Zenon
  <2> HIDE DEF less
  <2> QED BY <1>2, <1>3, <2>2, WFMin
<1>5. \A j \in MatchingRules(c, m) : i <= j
  <2> SUFFICES ASSUME NEW j \in MatchingRules(c, m)
               PROVE  i <= j
    OBVIOUS
  <2>1. i \in Nat /\ j \in Nat
    BY <1>2, <1>3
  <2>2. <<j, i>> \notin less
    BY <1>4
  <2>3. ~(j < i)
    BY <2>1, <2>2
  <2> QED BY <2>1, <2>3
<1>6. PICK k \in MatchingRules(c, m) :
        /\ \A j \in MatchingRules(c, m) : k <= j
        /\ WinningRule(c, m) = c.rules[k]
  BY <1>5 DEF WinningRule
<1>7. c.rules[k] \in RuleTexts
  BY <1>1, <1>2, <1>6
<1> QED BY <1>6, <1>7

\* A model is bridged or not, a bridged one's target is "bridge", and the
\* summary goes to a model that exists.
LEMMA RouteFacts ==
  ASSUME NEW c \in Configs, NEW m \in Models
  PROVE  /\ decideRoute(c, m).bridged \in BOOLEAN
         /\ decideRoute(c, m).bridged <=> TargetOf(c, m) = "bridge"
         /\ pickSummaryModel(decideRoute(c, m), m) \in Models
<1>1. CASE MatchingRules(c, m) = {}
  BY <1>1 DEF decideRoute, TargetOf, compactionTargetFor, pickSummaryModel
<1>2. CASE MatchingRules(c, m) # {}
  <2>1. WinningRule(c, m) \in RuleTexts
    BY <1>2, WinningRuleFacts
  <2>2. WinningRule(c, m).summaryModel \in Models \cup {NoModel}
    BY <2>1 DEF RuleTexts
  <2> QED BY <1>2, <2>2 DEF decideRoute, TargetOf, compactionTargetFor, pickSummaryModel
<1> QED BY <1>1, <1>2

\* The configuration a handler loads is one, whether or not any has been stored.
LEMMA LoadedType ==
  ASSUME TypeOK
  PROVE  loaded \in Configs
BY DefaultConfigType DEF TypeOK, loaded

\* The client's whole request is a body.
LEMMA MergedType ==
  ASSUME NEW c \in ClientRequests
  PROVE  Merged(c) \in Bodies
<1>1. c.body \in Bodies /\ c.transcript \in Seq(Items)
  BY DEF ClientRequests
<1>2. c.body.items \in Seq(Items)
  BY <1>1 DEF Bodies
<1>3. c.transcript \o c.body.items \in Seq(Items)
  BY <1>1, <1>2
<1> DEFINE whole == c.transcript \o c.body.items
<1>4. c.transcript \o c.body.items = whole
  OBVIOUS
<1> HIDE DEF whole
<1>5. [c.body EXCEPT !.items = whole] \in Bodies
  BY <1>1, <1>3, <1>4 DEF Bodies
<1> QED BY <1>1, <1>4, <1>5 DEF Merged
-----------------------------------------------------------------------------
(* Type correctness *)

\* An answer without a window is an answer.
LEMMA PlainType ==
  ASSUME NEW kind \in AnswerKinds
  PROVE  Plain(kind) \in Answers
BY DEF Plain, Answers

\* A model call of the request, appended to the calls made.
LEMMA CallModelType ==
  ASSUME TypeOK, NEW r \in Requests, NEW via \in Vias, NEW model \in Models,
         NEW items \in Seq(Items), NEW under \in Configs,
         CallModel(r, via, model, items, under)
  PROVE  upstream' \subseteq Calls
BY DEF TypeOK, CallModel, Calls

\* The shared end of every executor branch that issues a callback.
LEMMA CallHostType ==
  ASSUME TypeOK, NEW r \in Requests, NEW b \in Branches, NEW via \in Vias,
         NEW model \in Models, NEW items \in Seq(Items),
         CallHost(r, b, via, model, items), body' \in [Requests -> Bodies]
  PROVE  TypeOK'
<1>1. upstream' \subseteq Calls
  BY LoadedType, CallModelType DEF TypeOK, CallHost
<1> QED BY <1>1, LoadedType DEF TypeOK, CallHost, Goto, LoadConfig

\* The shared end of every executor branch that answers at once.
LEMMA ReturnType ==
  ASSUME TypeOK, NEW r \in Requests, NEW kind \in AnswerKinds, Return(r, Plain(kind))
  PROVE  TypeOK'
BY LoadedType, PlainType DEF TypeOK, Return, Goto, LoadConfig, Answer

\* The summary call of V1 and V2.
LEMMA RequestSummaryType ==
  ASSUME TypeOK, NEW r \in Requests, NEW b \in {"v1", "v2"}, requestSummary(r, b)
  PROVE  TypeOK'
<1>1. body[r] \in Bodies /\ client[r].model \in Models
  BY DEF TypeOK, ClientRequests
<1>2. summaryInput(r).items \in Seq(Items)
  BY <1>1, InputItemsType, RemoveLastType, SummaryInput DEF summaryInput
<1>3. summaryModel(r) \in Models
  BY <1>1, LoadedType, RouteFacts DEF decision, summaryModel
<1>4. body' \in [Requests -> Bodies]
  BY DEF requestSummary, TypeOK
<1> QED BY <1>2, <1>3, <1>4, CallHostType DEF requestSummary

\* What a finished compact turn answers is an answer.
LEMMA CompactAnswerType ==
  ASSUME TypeOK, NEW r \in Requests, NEW reply \in Replies
  PROVE  compactAnswer(r, reply) \in Answers
<1>1. inputItems(body[r]) \in Seq(Items) /\ reply.text \in Texts
  BY InputItemsType DEF TypeOK, Replies
<1>2. CASE usableSummary(reply, cfg[r])
  <2>1. /\ v1CompactWindow(inputItems(body[r]), reply.text) \in Seq(Items)
        /\ <<compactionItem(reply.text)>> \in Seq(Items)
    BY <1>1, <1>2, InstalledWindow, InstalledItem DEF usableSummary
  <2> QED BY <1>2, <2>1 DEF compactAnswer, Answers
<1>3. CASE ~usableSummary(reply, cfg[r])
  BY <1>3, PlainType DEF compactAnswer
<1> QED BY <1>2, <1>3

\* A client may send any request, not only one of the workload.
Asks(r) == \E c \in ClientRequests : clientSends(r, c)

\* A request of the workload is one a client may send.
LEMMA ArriveAsks ==
  ASSUME NEW r \in Requests, Arrive(r)
  PROVE  Asks(r)
BY CompactBridgeAssumption DEF Arrive, Asks

\* TypeOK is preserved by every step of a request.
LEMMA TypeStep ==
  ASSUME TypeOK, NEW r \in Requests, Asks(r) \/ Progress(r)
  PROVE  TypeOK'
<1> USE DEF Goto, Answer
<1>0. /\ loaded \in Configs
      /\ client[r] \in ClientRequests /\ client[r].model \in Models
      /\ body[r] \in Bodies /\ inputItems(body[r]) \in Seq(Items)
      /\ Merged(client[r]) \in Bodies
  BY LoadedType, MergedType, InputItemsType DEF TypeOK, ClientRequests
<1>1. CASE Asks(r)
  <2>1. PICK c \in ClientRequests : clientSends(r, c)
    BY <1>1 DEF Asks
  <2>2. c \in ClientRequests /\ c.body \in Bodies
    BY DEF ClientRequests
  <2> QED BY <2>1, <2>2 DEF TypeOK, clientSends
<1>2. CASE handleModelRoute(r)
  <2>1. (decideRoute(loaded, client[r].model).bridged /\ shouldBridgeRoute(client[r])) \in BOOLEAN
    OBVIOUS
  <2> QED BY <1>0, <1>2 DEF TypeOK, handleModelRoute, LoadConfig
<1>3. CASE mergeTranscript(r)
  BY <1>0, <1>3 DEF TypeOK, mergeTranscript
<1>4. CASE interceptPasses(r)
  BY <1>0, <1>4 DEF TypeOK, interceptPasses, LoadConfig
<1>5. CASE interceptRewrites(r)
  <2>1. interceptorVerdict(r).body \in Bodies
    BY <1>0, NormalizedBody DEF interceptorVerdict
  <2> QED BY <1>0, <1>5, <2>1 DEF TypeOK, interceptRewrites, LoadConfig
<1>6. CASE interceptTerminates(r)
  BY <1>0, <1>6, PlainType DEF TypeOK, interceptTerminates, LoadConfig
<1>7. CASE dispatchBuiltin(r)
  <2>1. upstream' \subseteq Calls
    BY <1>0, <1>7, CallModelType DEF TypeOK, dispatchBuiltin
  <2> QED BY <1>7, <2>1 DEF TypeOK, dispatchBuiltin
<1>8. CASE dispatchExecutor(r)
  BY <1>0, <1>8 DEF TypeOK, dispatchExecutor
<1>9. CASE delegateUnbridged(r)
  <2>1. body' \in [Requests -> Bodies]
    BY <1>9 DEF TypeOK, delegateUnbridged
  <2> QED BY <1>0, <1>9, <2>1, CallHostType DEF delegateUnbridged
<1>10. CASE executeV1Compact(r)
  BY <1>10, RequestSummaryType, ReturnType DEF executeV1Compact
<1>11. CASE executeStream(r)
  BY <1>11, RequestSummaryType, ReturnType DEF executeStream, streamFailure
<1>12. CASE executeOrdinaryBridged(r)
  <2> DEFINE result == normalizeCompactionState(body[r], "bridge")
  <2>1. result.body \in Bodies /\ inputItems(result.body) \in Seq(Items)
    BY <1>0, NormalizedBody, InputItemsType
  <2>2. CASE Return(r, Plain(IF result.verdict \in StateErrors
                             THEN "invalid_state" ELSE "bridge_failed"))
    BY <2>2, ReturnType
  <2>3. CASE /\ CallHost(r, "ordinary", "ordinary", client[r].model, inputItems(result.body))
             /\ body' = [body EXCEPT ![r] = result.body]
    <3>1. body' \in [Requests -> Bodies]
      BY <2>1, <2>3 DEF TypeOK
    <3> QED BY <1>0, <2>1, <2>3, <3>1, CallHostType
  <2> QED BY <1>12, <2>2, <2>3 DEF executeOrdinaryBridged
<1>13. ASSUME NEW reply \in Replies, summaryReturns(r, reply)
       PROVE  TypeOK'
  BY <1>13, CompactAnswerType DEF TypeOK, summaryReturns
<1>14. ASSUME NEW reply \in Replies, delegateReturns(r, reply)
       PROVE  TypeOK'
  BY <1>14, PlainType DEF TypeOK, delegateReturns
<1>15. CASE upstreamAnswers(r)
  BY <1>15, PlainType DEF TypeOK, upstreamAnswers
<1> QED BY <1>1, <1>2, <1>3, <1>4, <1>5, <1>6, <1>7, <1>8, <1>9, <1>10, <1>11, <1>12,
           <1>13, <1>14, <1>15
        DEF Progress, handleRequestInterceptBefore, handleExecute

\* Before any request every variable has its type.
LEMMA InitType == Init => TypeOK
<1> SUFFICES ASSUME Init PROVE TypeOK
  OBVIOUS
<1>1. (CHOOSE c \in Clients : TRUE) \in ClientRequests
  BY CompactBridgeAssumption
<1>2. client \in [Requests -> ClientRequests]
  BY <1>1 DEF Init
<1>3. body \in [Requests -> Bodies]
  BY <1>2 DEF Init, ClientRequests
<1> QED BY <1>2, <1>3, DefaultConfigType, PlainType DEF Init, TypeOK

\* TypeOK is preserved by every step, a reconfiguration or a request's.
LEMMA TypeNext == TypeOK /\ [Next]_vars => TypeOK'
<1> SUFFICES ASSUME TypeOK, [Next]_vars PROVE TypeOK'
  OBVIOUS
<1>1. CASE UNCHANGED vars
  BY <1>1 DEF vars, TypeOK
<1>2. ASSUME NEW raw \in RawConfigs, handleLifecycle(raw)
      PROVE  TypeOK'
  BY <1>2, LoadConfigFacts DEF TypeOK, handleLifecycle
<1> QED BY <1>1, <1>2, TypeStep, ArriveAsks DEF Next, Reconfigure

\* Every variable keeps its type, whatever the configurations and requests: in
\* particular every upstream call is made for a model and with items.
THEOREM TypeCorrect == Spec => []TypeOK
BY InitType, TypeNext, PTL DEF Spec

-----------------------------------------------------------------------------
(* The inductive invariant: what holds of each request by itself *)

EarlyPhases == {"idle", "routing", "merging", "intercepting", "dispatching", "executing"}

\* A request has cost no call before its dispatch or execution makes one, and
\* none at all if it was refused; an answer ends it.
Spending(r) ==
  /\ pc[r] \in EarlyPhases => CallsOf(r) = {}
  /\ answer[r].kind # "none" => pc[r] = "answered"
  /\ answer[r].kind = "invalid_state" => CallsOf(r) = {}

\* The body holds the client's history with every summary restored.
Restored(r) ==
  /\ inputItems(body[r]) = rewriteCompactionItems(ClientItems(r))
  /\ \A i \in DOMAIN inputItems(body[r]) : ~isCPACompaction(inputItems(body[r])[i])

\* Opaque items are left only under the explicit passthrough rule the
\* interceptor read.
Declared(r) ==
  \A i \in DOMAIN inputItems(body[r]) :
    isOpaque(inputItems(body[r])[i]) =>
      TargetOf(cfg[r], client[r].model) = "explicit_passthrough"

\* What CPA holds for a request between interceptor and upstream.
Carried(r) ==
  /\ pc[r] = "intercepting" => body[r] = Merged(client[r])
  /\ pc[r] = "dispatching" /\ isResponses(r) => Restored(r) /\ Declared(r)
  /\ pc[r] = "executing" /\ isResponses(r) =>
       /\ Restored(r) \/ ("client" \in HandOver /\ body[r] = Merged(client[r]))
       /\ Declared(r)

\* What the properties say of one call.
Sound(c) ==
  /\ c.via \in {"summary", "ordinary"} =>
       /\ ~Sends(c, isCompactionItemAny)
       /\ c.via = "summary" => ~Sends(c, isCompactionTrigger)
  /\ isResponses(c.req) /\ Policed(c) => ~Sends(c, isCPACompaction)
  /\ isResponses(c.req) /\ Sends(c, isOpaque) =>
       TargetOf(c.judged, c.model) = "explicit_passthrough"
  /\ isResponses(c.req) /\ Policed(c) =>
       c.items = rewriteCompactionItems(
                   IF c.via = "summary" THEN nonTriggers(ClientItems(c.req))
                   ELSE ClientItems(c.req))
  /\ isResponses(c.req) /\ c.via = "delegate" =>
       c.items \in {ClientItems(c.req), rewriteCompactionItems(ClientItems(c.req))}

Installed(r) ==
  answer[r].kind \in {"compact_window", "compact_stream"} =>
    LET w == answer[r].items
    IN /\ {i \in DOMAIN w : isCompactionItemAny(w[i])} = {Len(w)}
       /\ compactionRecordOf(w[Len(w)]) = "plaintext"
       /\ TextSize[w[Len(w)].text] <= cfg[r].maxSummaryBytes
       /\ \A t \in Targets : checkCompactionItems(w, t) = "ok"

RequestInv(r) ==
  /\ Spending(r)
  /\ Carried(r)
  /\ \A c \in CallsOf(r) : Sound(c)
  /\ Installed(r)

IInv == TypeOK /\ \A r \in Requests : RequestInv(r)

-----------------------------------------------------------------------------
(* A step of one request leaves the others alone *)

Untouched(s) ==
  /\ pc'[s] = pc[s] /\ client'[s] = client[s] /\ body'[s] = body[s]
  /\ cfg'[s] = cfg[s] /\ op'[s] = op[s] /\ answer'[s] = answer[s]
  /\ CallsOf(s)' = CallsOf(s)

\* No handler touches another request's state: the configuration is all that
\* requests share.
LEMMA OthersUntouched ==
  ASSUME TypeOK, NEW r \in Requests, Asks(r) \/ Progress(r),
         NEW s \in Requests, s # r
  PROVE  Untouched(s)
<1>1. /\ pc'[s] = pc[s] /\ client'[s] = client[s] /\ body'[s] = body[s]
      /\ cfg'[s] = cfg[s] /\ op'[s] = op[s] /\ answer'[s] = answer[s]
  BY DEF TypeOK, Asks, clientSends, Progress, handleModelRoute, mergeTranscript,
         handleRequestInterceptBefore, interceptPasses, interceptRewrites,
         interceptTerminates, dispatchBuiltin, dispatchExecutor, handleExecute,
         delegateUnbridged, executeV1Compact, executeStream, executeOrdinaryBridged,
         requestSummary, CallHost, Return, summaryReturns, delegateReturns,
         upstreamAnswers, Goto, LoadConfig, Answer
<1>2. \/ UNCHANGED upstream
      \/ \E via, model, items, under : CallModel(r, via, model, items, under)
  BY DEF Asks, clientSends, Progress, handleModelRoute, mergeTranscript,
         handleRequestInterceptBefore, interceptPasses, interceptRewrites,
         interceptTerminates, dispatchBuiltin, dispatchExecutor, handleExecute,
         delegateUnbridged, executeV1Compact, executeStream, executeOrdinaryBridged,
         requestSummary, CallHost, Return, summaryReturns, delegateReturns,
         upstreamAnswers
<1>3. CallsOf(s)' = CallsOf(s)
  BY <1>2 DEF CallsOf, CallModel
<1> QED BY <1>1, <1>3 DEF Untouched

\* A call in CallsOf keeps its request's client, so Sound carries over too.
LEMMA UntouchedInv ==
  ASSUME NEW s \in Requests, Untouched(s), RequestInv(s)
  PROVE  RequestInv(s)'
<1>1. Spending(s)' /\ Installed(s)'
  BY DEF Untouched, RequestInv, Spending, Installed
<1>2. Carried(s)'
  BY DEF Untouched, RequestInv, Carried, Restored, Declared, isResponses, ClientItems
<1>3. \A c \in CallsOf(s)' : Sound(c)'
  <2> SUFFICES ASSUME NEW c \in CallsOf(s)
               PROVE  Sound(c)'
    BY DEF Untouched
  <2>1. c.req = s /\ client'[c.req] = client[c.req] /\ Sound(c)
    BY DEF CallsOf, Untouched, RequestInv
  <2> QED BY <2>1 DEF Sound, Policed, Sends, isResponses, ClientItems
<1> QED BY <1>1, <1>2, <1>3 DEF RequestInv
-----------------------------------------------------------------------------
(* A step keeps the invariant of its own request *)

Busy == EarlyPhases \cup {"calling", "forwarded"}

\* A step that neither calls nor answers owes only what the body must be.
LEMMA MovedInv ==
  ASSUME NEW r \in Requests, RequestInv(r),
         pc[r] \in EarlyPhases, pc'[r] \in EarlyPhases,
         CallsOf(r)' = CallsOf(r), answer'[r] = answer[r], Carried(r)'
  PROVE  RequestInv(r)'
<1>1. answer[r].kind = "none" /\ CallsOf(r) = {}
  BY DEF RequestInv, Spending, EarlyPhases
<1>2. Spending(r)' /\ Installed(r)' /\ \A c \in CallsOf(r)' : Sound(c)'
  BY <1>1 DEF Spending, Installed
<1> QED BY <1>2 DEF RequestInv

\* A step that answers without a call: a refusal only before any was made.
LEMMA AnsweredInv ==
  ASSUME NEW r \in Requests, RequestInv(r),
         pc'[r] = "answered", client'[r] = client[r], CallsOf(r)' = CallsOf(r),
         answer'[r].kind = "invalid_state" => pc[r] \in EarlyPhases,
         Installed(r)'
  PROVE  RequestInv(r)'
<1>1. Spending(r)'
  BY DEF RequestInv, Spending, EarlyPhases
<1>2. Carried(r)'
  BY DEF Carried
<1>3. \A c \in CallsOf(r)' : Sound(c)'
  <2> SUFFICES ASSUME NEW c \in CallsOf(r)
               PROVE  Sound(c)'
    OBVIOUS
  <2>1. c.req = r /\ Sound(c)
    BY DEF CallsOf, RequestInv
  <2> QED BY <2>1 DEF Sound, Policed, Sends, isResponses, ClientItems
<1> QED BY <1>1, <1>2, <1>3 DEF RequestInv

\* A step that makes one call: the call must be sound.
LEMMA CalledInv ==
  ASSUME NEW r \in Requests, RequestInv(r), pc[r] \in EarlyPhases,
         pc'[r] \in {"calling", "forwarded"}, client'[r] = client[r], answer'[r] = answer[r],
         NEW c, c.req = r, Sound(c), upstream' = upstream \cup {c}
  PROVE  RequestInv(r)'
<1>1. answer[r].kind = "none" /\ CallsOf(r) = {}
  BY DEF RequestInv, Spending, EarlyPhases
<1>2. CallsOf(r)' = {c}
  BY <1>1 DEF CallsOf
<1>3. Spending(r)' /\ Installed(r)' /\ Carried(r)'
  BY <1>1 DEF Spending, Installed, Carried, EarlyPhases
<1>4. Sound(c)'
  BY DEF Sound, Policed, Sends, isResponses, ClientItems
<1> QED BY <1>2, <1>3, <1>4 DEF RequestInv

\* A response, refusal or error that installs nothing.
LEMMA PlainInstalls ==
  ASSUME NEW r \in Requests, NEW kind,
         kind \notin {"compact_window", "compact_stream"}, answer'[r] = Plain(kind)
  PROVE  Installed(r)' /\ answer'[r].kind = kind
BY DEF Installed, Plain

\* Shared end of the branches that call: one call under the loaded rules.
LEMMA CallHostInv ==
  ASSUME IInv, NEW r \in Requests, NEW b, NEW via, NEW model, NEW items,
         CallHost(r, b, via, model, items),
         Sound([req |-> r, via |-> via, model |-> model, items |-> items,
                under |-> loaded, judged |-> cfg[r]])
  PROVE  RequestInv(r)'
<1>1. /\ pc[r] = "executing" /\ pc'[r] = "calling"
      /\ client'[r] = client[r] /\ answer'[r] = answer[r]
  BY DEF CallHost, Goto, IInv, TypeOK
<1> DEFINE c == [req |-> r, via |-> via, model |-> model, items |-> items,
                 under |-> loaded, judged |-> cfg[r]]
<1>2. upstream' = upstream \cup {c} /\ c.req = r
  BY DEF CallHost, CallModel
<1> HIDE DEF c
<1> QED BY <1>1, <1>2, CalledInv DEF IInv, EarlyPhases, c

\* Shared end of the branches that answer at once.
LEMMA ReturnInv ==
  ASSUME IInv, NEW r \in Requests, NEW kind,
         kind \notin {"compact_window", "compact_stream"}, Return(r, Plain(kind))
  PROVE  RequestInv(r)'
<1>1. /\ pc[r] = "executing" /\ pc'[r] = "answered" /\ client'[r] = client[r]
      /\ answer'[r] = Plain(kind) /\ CallsOf(r)' = CallsOf(r)
  BY DEF Return, Goto, Answer, IInv, TypeOK, CallsOf
<1> QED BY <1>1, PlainInstalls, AnsweredInv DEF IInv, EarlyPhases
-----------------------------------------------------------------------------
(* Each call is sound *)

\* The client's whole request, as items.
LEMMA ClientItemsType ==
  ASSUME TypeOK, NEW r \in Requests
  PROVE  /\ client[r] \in ClientRequests /\ client[r].model \in Models
         /\ body[r] \in Bodies /\ inputItems(body[r]) \in Seq(Items)
         /\ Merged(client[r]) \in Bodies /\ ClientItems(r) \in Seq(Items)
BY MergedType, InputItemsType DEF TypeOK, ClientRequests, ClientItems

\* What the executor is handed is the client's history, rewritten or not yet.
LEMMA HandedItems ==
  ASSUME IInv, NEW r \in Requests, pc[r] = "executing", isResponses(r)
  PROVE  inputItems(body[r]) \in {ClientItems(r), rewriteCompactionItems(ClientItems(r))}
BY DEF IInv, RequestInv, Carried, Restored, ClientItems

\* The interceptor's rule covers the body as the client sent it as well.
DeclaredByClient(r) ==
  \A i \in DOMAIN ClientItems(r) :
    isOpaque(ClientItems(r)[i]) =>
      TargetOf(cfg[r], client[r].model) = "explicit_passthrough"

\* The rewrite leaves opaque items as they were, so what holds of those in the
\* restored body holds of the client's.
LEMMA RestoredDeclares ==
  ASSUME NEW r \in Requests, Restored(r), Declared(r)
  PROVE  DeclaredByClient(r)
<1> SUFFICES ASSUME NEW i \in DOMAIN ClientItems(r), isOpaque(ClientItems(r)[i])
             PROVE  TargetOf(cfg[r], client[r].model) = "explicit_passthrough"
  BY DEF DeclaredByClient
<1> DEFINE s == ClientItems(r)
<1>1. i \in DOMAIN rewriteCompactionItems(s) /\ rewriteCompactionItems(s)[i] = rewriteItem(s[i])
  BY DEF rewriteCompactionItems
<1>2. rewriteItem(s[i]) = s[i]
  BY DEF rewriteItem, isOpaque, compactionRecordOf
<1> QED BY <1>1, <1>2 DEF Restored, Declared

\* Both kinds of compaction item are compaction items.
LEMMA KindsOfState ==
  ASSUME NEW c, ~Sends(c, isCompactionItemAny)
  PROVE  ~Sends(c, isCPACompaction) /\ ~Sends(c, isOpaque)
BY DEF Sends, isCPACompaction, isOpaque, isCompactionItemAny

\* generateSummary's call.
LEMMA SummarySound ==
  ASSUME IInv, NEW r \in Requests, pc[r] = "executing",
         summaryInput(r).verdict = "ok", NEW model, NEW under, NEW judged
  PROVE  Sound([req |-> r, via |-> "summary", model |-> model,
                items |-> summaryInput(r).items, under |-> under, judged |-> judged])
<1> DEFINE given == removeLastCompactionTrigger(inputItems(body[r]))
           c == [req |-> r, via |-> "summary", model |-> model,
                 items |-> summaryInput(r).items, under |-> under, judged |-> judged]
<1>1. /\ inputItems(body[r]) \in Seq(Items) /\ ClientItems(r) \in Seq(Items)
      /\ given \in Seq(Items)
  BY ClientItemsType, RemoveLastType DEF IInv
<1>2. summaryInput(r) = buildSummaryRequestInput(given)
  BY DEF summaryInput
<1>3. \A i \in DOMAIN summaryInput(r).items :
        /\ ~isCompactionItemAny(summaryInput(r).items[i])
        /\ ~isCompactionTrigger(summaryInput(r).items[i])
  BY <1>1, <1>2, SummaryInput
<1>4. ASSUME isResponses(r)
      PROVE  summaryInput(r).items = rewriteCompactionItems(nonTriggers(ClientItems(r)))
  BY <1>1, <1>2, <1>4, HandedItems, SummaryHistory
<1>5. c.req = r /\ c.via = "summary" /\ c.items = summaryInput(r).items
  OBVIOUS
<1> HIDE DEF c
<1>6. ~Sends(c, isCompactionItemAny) /\ ~Sends(c, isCompactionTrigger)
  BY <1>3, <1>5 DEF Sends
<1>7. ~Sends(c, isCPACompaction) /\ ~Sends(c, isOpaque)
  BY <1>6, KindsOfState
<1>8. Sound(c)
  BY <1>4, <1>5, <1>6, <1>7 DEF Sound
<1> QED BY <1>8 DEF c

\* executeOrdinaryBridged's call.
LEMMA OrdinarySound ==
  ASSUME IInv, NEW r \in Requests, pc[r] = "executing",
         normalizeCompactionState(body[r], "bridge").verdict = "ok",
         NEW model, NEW under, NEW judged
  PROVE  Sound([req |-> r, via |-> "ordinary", model |-> model,
                items |-> inputItems(normalizeCompactionState(body[r], "bridge").body),
                under |-> under, judged |-> judged])
<1> DEFINE out == inputItems(normalizeCompactionState(body[r], "bridge").body)
           c == [req |-> r, via |-> "ordinary", model |-> model,
                 items |-> out, under |-> under, judged |-> judged]
<1>1. body[r] \in Bodies /\ ClientItems(r) \in Seq(Items)
  BY ClientItemsType DEF IInv
<1>2. \A i \in DOMAIN out : ~isCompactionItemAny(out[i])
  BY <1>1, NormalizedBody
<1>3. out = rewriteCompactionItems(inputItems(body[r]))
  BY <1>1, NormalizedHistory
<1>4. ASSUME isResponses(r)
      PROVE  out = rewriteCompactionItems(ClientItems(r))
  <2> HIDE DEF out
  <2> QED BY <1>1, <1>3, <1>4, HandedItems, RewriteAgain
<1>5. c.req = r /\ c.via = "ordinary" /\ c.items = out
  OBVIOUS
<1> HIDE DEF c, out
<1>6. ~Sends(c, isCompactionItemAny)
  BY <1>2, <1>5 DEF Sends
<1>7. ~Sends(c, isCPACompaction) /\ ~Sends(c, isOpaque)
  BY <1>6, KindsOfState
<1>8. Sound(c)
  BY <1>4, <1>5, <1>6, <1>7 DEF Sound
<1> QED BY <1>8 DEF c, out

\* delegateOrdinary's call for a model the rules no longer bridge.
LEMMA DelegateSound ==
  ASSUME IInv, NEW r \in Requests, pc[r] = "executing", NEW under
  PROVE  Sound([req |-> r, via |-> "delegate", model |-> client[r].model,
                items |-> inputItems(body[r]), under |-> under, judged |-> cfg[r]])
<1> DEFINE c == [req |-> r, via |-> "delegate", model |-> client[r].model,
                 items |-> inputItems(body[r]), under |-> under, judged |-> cfg[r]]
<1>1. /\ c.req = r /\ c.via = "delegate" /\ c.items = inputItems(body[r])
      /\ c.model = client[r].model /\ c.judged = cfg[r]
  OBVIOUS
<1> HIDE DEF c
<1>2. /\ isResponses(r) /\ Policed(c) => Restored(r)
      /\ isResponses(r) => Declared(r)
  BY <1>1 DEF Policed, IInv, RequestInv, Carried
<1>3. isResponses(r) => inputItems(body[r]) \in {ClientItems(r), rewriteCompactionItems(ClientItems(r))}
  BY HandedItems
<1>4. Sound(c)
  BY <1>1, <1>2, <1>3 DEF Sound, Sends, Restored, Declared
<1> QED BY <1>4 DEF c

\* CPA's own route, for a request the interceptor let through.
LEMMA BuiltinSound ==
  ASSUME IInv, NEW r \in Requests, pc[r] = "dispatching"
  PROVE  Sound([req |-> r, via |-> "builtin", model |-> client[r].model,
                items |-> inputItems(body[r]), under |-> cfg[r], judged |-> cfg[r]])
<1> DEFINE c == [req |-> r, via |-> "builtin", model |-> client[r].model,
                 items |-> inputItems(body[r]), under |-> cfg[r], judged |-> cfg[r]]
<1>1. /\ c.req = r /\ c.via = "builtin" /\ c.items = inputItems(body[r])
      /\ c.model = client[r].model /\ c.judged = cfg[r]
  OBVIOUS
<1> HIDE DEF c
<1>2. isResponses(r) => Restored(r) /\ Declared(r)
  BY DEF IInv, RequestInv, Carried
<1>3. Sound(c)
  BY <1>1, <1>2 DEF Sound, Sends, Restored, Declared
<1> QED BY <1>3 DEF c
-----------------------------------------------------------------------------
(* Every step of a request keeps its invariant *)

\* handleRequestInterceptBefore keeps a request's invariant: whether it passes,
\* rewrites or terminates, the body left is the history or its rewrite.
LEMMA InterceptorInv ==
  ASSUME IInv, NEW r \in Requests, handleRequestInterceptBefore(r)
  PROVE  RequestInv(r)'
<1> USE DEF Goto
<1>0. /\ pc[r] = "intercepting" /\ client'[r] = client[r] /\ CallsOf(r)' = CallsOf(r)
      /\ pc \in [Requests -> Phases] /\ cfg \in [Requests -> Configs]
      /\ answer \in [Requests -> Answers]
  BY DEF IInv, TypeOK, handleRequestInterceptBefore, interceptPasses, interceptRewrites,
         interceptTerminates, CallsOf
<1>1. /\ body[r] = Merged(client[r]) /\ body[r] \in Bodies
      /\ inputItems(body[r]) = ClientItems(r) /\ ClientItems(r) \in Seq(Items)
  BY <1>0, ClientItemsType DEF IInv, RequestInv, Carried, ClientItems
<1>2. cfg'[r] = loaded
  BY <1>0 DEF handleRequestInterceptBefore, interceptPasses, interceptRewrites,
              interceptTerminates, LoadConfig
<1>3. CASE interceptPasses(r)
  <2>1. /\ pc'[r] = "dispatching" /\ body'[r] = body[r] /\ answer'[r] = answer[r]
    BY <1>0, <1>3 DEF interceptPasses
  <2>2. ASSUME isResponses(r)
        PROVE  ~hasCompactionItems(ClientItems(r))
    <3>1. ~inputReadable(body[r]) => inputItems(body[r]) = <<>>
      BY DEF inputReadable, inputItems
    <3>2. ~hasCompactionItems(<<>>)
      BY DEF hasCompactionItems
    <3> QED BY <1>1, <1>3, <2>2, <3>1, <3>2 DEF interceptPasses, interceptorActs, isResponses
  <2>3. ASSUME isResponses(r)
        PROVE  Restored(r)' /\ Declared(r)'
    <3>1. rewriteCompactionItems(ClientItems(r)) = ClientItems(r)
      BY <1>1, <2>2, <2>3, RewriteAgain
    <3>2. \A i \in DOMAIN ClientItems(r) : ~isCompactionItemAny(ClientItems(r)[i])
      BY <2>2, <2>3 DEF hasCompactionItems
    <3>3. inputItems(body[r])' = ClientItems(r) /\ ClientItems(r)' = ClientItems(r)
      BY <1>0, <1>1, <2>1 DEF ClientItems
    <3>4. Restored(r)'
      BY <3>1, <3>2, <3>3 DEF Restored, isCPACompaction, isCompactionItemAny
    <3>5. Declared(r)'
      BY <3>2, <3>3 DEF Declared, isOpaque
    <3> QED BY <3>4, <3>5
  <2>4. Carried(r)'
    BY <1>0, <2>1, <2>3 DEF Carried, isResponses
  <2> QED BY <1>0, <2>1, <2>4, MovedInv DEF IInv, EarlyPhases
<1>4. CASE interceptRewrites(r)
  <2> DEFINE target == TargetOf(loaded, client[r].model)
             result == normalizeCompactionState(body[r], target)
  <2>1. /\ pc'[r] = "dispatching" /\ body'[r] = result.body /\ answer'[r] = answer[r]
        /\ result.verdict = "ok"
    <3>1. body \in [Requests -> Bodies]
      BY DEF IInv, TypeOK
    <3> QED BY <1>0, <1>4, <3>1 DEF interceptRewrites, interceptorVerdict
  <2>2. /\ inputItems(result.body) = rewriteCompactionItems(ClientItems(r))
        /\ \A i \in DOMAIN inputItems(result.body) : ~isCPACompaction(inputItems(result.body)[i])
        /\ \/ target = "explicit_passthrough"
           \/ \A i \in DOMAIN inputItems(result.body) :
                ~isCompactionItemAny(inputItems(result.body)[i])
    BY <1>1, <2>1, NormalizedHistory, NormalizedBody
  <2>3. ClientItems(r)' = ClientItems(r)
    BY <1>0 DEF ClientItems
  <2> HIDE DEF result
  <2>4. Restored(r)'
    BY <2>1, <2>2, <2>3 DEF Restored
  <2>5. Declared(r)'
    BY <1>0, <1>2, <2>1, <2>2 DEF Declared, isOpaque
  <2>6. Carried(r)'
    BY <2>1, <2>4, <2>5 DEF Carried
  <2> QED BY <1>0, <2>1, <2>6, MovedInv DEF IInv, EarlyPhases
<1>5. CASE interceptTerminates(r)
  <2>1. PICK kind \in {"invalid_state", "bridge_failed"} :
          pc'[r] = "answered" /\ answer'[r] = Plain(kind)
    BY <1>0, <1>5 DEF interceptTerminates, Answer
  <2> QED BY <1>0, <2>1, PlainInstalls, AnsweredInv DEF IInv, EarlyPhases
<1> QED BY <1>3, <1>4, <1>5 DEF handleRequestInterceptBefore

\* handleExecute keeps a request's invariant on every branch: the call it makes
\* is sound, or the request is answered without one.
LEMMA ExecutorInv ==
  ASSUME IInv, NEW r \in Requests, handleExecute(r)
  PROVE  RequestInv(r)'
<1>0. pc[r] = "executing"
  BY DEF handleExecute, delegateUnbridged, executeV1Compact, executeStream,
         executeOrdinaryBridged, requestSummary, CallHost, Return, Goto
<1>1. ASSUME NEW b, requestSummary(r, b)
      PROVE  RequestInv(r)'
  BY <1>0, <1>1, SummarySound, CallHostInv DEF requestSummary, summaryVerdict
<1>2. CASE delegateUnbridged(r)
  BY <1>0, <1>2, DelegateSound, CallHostInv DEF delegateUnbridged
<1>3. CASE executeV1Compact(r)
  <2>1. CASE requestSummary(r, "v1")
    BY <1>1, <2>1
  <2>2. ASSUME NEW kind \in {"invalid_state", "bridge_failed"}, Return(r, Plain(kind))
        PROVE  RequestInv(r)'
    BY <2>2, ReturnInv
  <2> QED BY <1>3, <2>1, <2>2 DEF executeV1Compact
<1>4. CASE executeStream(r)
  <2>1. CASE requestSummary(r, "v2")
    BY <1>1, <2>1
  <2>2. ASSUME NEW kind \in {"invalid_state", "bridge_failed", "stream_failed"},
               Return(r, Plain(kind))
        PROVE  RequestInv(r)'
    BY <2>2, ReturnInv
  <2> QED BY <1>4, <2>1, <2>2 DEF executeStream, streamFailure
<1>5. CASE executeOrdinaryBridged(r)
  <2> DEFINE result == normalizeCompactionState(body[r], "bridge")
  <2>1. CASE /\ result.verdict = "ok"
             /\ CallHost(r, "ordinary", "ordinary", client[r].model, inputItems(result.body))
    BY <1>0, <2>1, OrdinarySound, CallHostInv
  <2>2. ASSUME NEW kind \in {"invalid_state", "bridge_failed"}, Return(r, Plain(kind))
        PROVE  RequestInv(r)'
    BY <2>2, ReturnInv
  <2> QED BY <1>5, <2>1, <2>2 DEF executeOrdinaryBridged
<1> QED BY <1>2, <1>3, <1>4, <1>5 DEF handleExecute

\* A compact answer installs one readable summary that fits the limit.
LEMMA SummaryReturnsInv ==
  ASSUME IInv, NEW r \in Requests, NEW reply \in Replies, summaryReturns(r, reply)
  PROVE  RequestInv(r)'
<1>1. /\ pc[r] = "calling" /\ pc'[r] = "answered" /\ client'[r] = client[r]
      /\ CallsOf(r)' = CallsOf(r) /\ cfg'[r] = cfg[r]
      /\ answer'[r] = compactAnswer(r, reply)
      /\ inputItems(body[r]) \in Seq(Items) /\ reply.text \in Texts
  BY ClientItemsType DEF summaryReturns, Goto, Answer, IInv, TypeOK, CallsOf, Replies
<1>2. CASE ~usableSummary(reply, cfg[r])
  <2>1. PICK kind \in {"bridge_failed", "stream_failed"} : answer'[r] = Plain(kind)
    BY <1>1, <1>2 DEF compactAnswer
  <2> QED BY <1>1, <2>1, PlainInstalls, AnsweredInv DEF IInv
<1>3. CASE usableSummary(reply, cfg[r])
  <2>1. PICK kind \in {"compact_window", "compact_stream"},
             w \in {v1CompactWindow(inputItems(body[r]), reply.text),
                    <<compactionItem(reply.text)>>} :
          answer'[r] = [kind |-> kind, items |-> w]
    BY <1>1, <1>3 DEF compactAnswer
  <2> DEFINE Continues(x) ==
               /\ {i \in DOMAIN x : isCompactionItemAny(x[i])} = {Len(x)}
               /\ compactionRecordOf(x[Len(x)]) = "plaintext"
               /\ x[Len(x)].text = reply.text
               /\ \A t \in Targets : checkCompactionItems(x, t) = "ok"
  <2>2. Continues(w)
    <3>1. reply.text # Blank
      BY <1>3 DEF usableSummary
    <3>2. Continues(v1CompactWindow(inputItems(body[r]), reply.text))
      BY <1>1, <3>1, InstalledWindow
    <3>3. Continues(<<compactionItem(reply.text)>>)
      BY <1>1, <3>1, InstalledItem
    <3> HIDE DEF Continues
    <3> QED BY <2>1, <3>2, <3>3
  <2>3. TextSize[reply.text] <= cfg[r].maxSummaryBytes
    BY <1>3 DEF usableSummary
  <2>4. answer'[r].kind = kind /\ answer'[r].items = w
    BY <2>1
  <2>5. Installed(r)'
    BY <1>1, <2>2, <2>3, <2>4 DEF Installed
  <2> QED BY <1>1, <2>4, <2>5, AnsweredInv DEF IInv
<1> QED BY <1>2, <1>3
\* Every step that a request takes.
LEMMA RequestStep ==
  ASSUME IInv, NEW r \in Requests, Asks(r) \/ Progress(r)
  PROVE  RequestInv(r)'
<1> USE DEF Goto
<1>0. /\ TypeOK /\ RequestInv(r)
      /\ pc \in [Requests -> Phases] /\ client \in [Requests -> ClientRequests]
      /\ body \in [Requests -> Bodies] /\ answer \in [Requests -> Answers]
  BY DEF IInv, TypeOK
<1>1. CASE Asks(r)
  <2>1. /\ pc[r] = "idle" /\ pc'[r] = "routing" /\ answer'[r] = answer[r]
        /\ CallsOf(r)' = CallsOf(r)
    BY <1>0, <1>1 DEF Asks, clientSends, CallsOf
  <2>2. Carried(r)'
    BY <2>1 DEF Carried
  <2> QED BY <1>0, <2>1, <2>2, MovedInv DEF EarlyPhases
<1>2. CASE handleModelRoute(r)
  <2>1. /\ pc[r] = "routing" /\ pc'[r] = "merging" /\ answer'[r] = answer[r]
        /\ CallsOf(r)' = CallsOf(r)
    BY <1>0, <1>2 DEF handleModelRoute, CallsOf
  <2>2. Carried(r)'
    BY <2>1 DEF Carried
  <2> QED BY <1>0, <2>1, <2>2, MovedInv DEF EarlyPhases
<1>3. CASE mergeTranscript(r)
  <2>1. /\ pc[r] = "merging" /\ pc'[r] = "intercepting" /\ answer'[r] = answer[r]
        /\ CallsOf(r)' = CallsOf(r) /\ client' = client /\ body'[r] = Merged(client[r])
    BY <1>0, <1>3 DEF mergeTranscript, CallsOf
  <2>2. Carried(r)'
    BY <2>1 DEF Carried
  <2> QED BY <1>0, <2>1, <2>2, MovedInv DEF EarlyPhases
<1>4. CASE handleRequestInterceptBefore(r)
  BY <1>4, InterceptorInv
<1>5. CASE dispatchBuiltin(r)
  <2> DEFINE c == [req |-> r, via |-> "builtin", model |-> client[r].model,
                   items |-> inputItems(body[r]), under |-> cfg[r], judged |-> cfg[r]]
  <2>1. /\ pc[r] = "dispatching" /\ pc'[r] = "forwarded" /\ answer'[r] = answer[r]
        /\ client'[r] = client[r] /\ upstream' = upstream \cup {c}
    BY <1>0, <1>5 DEF dispatchBuiltin, CallModel
  <2>2. Sound(c) /\ c.req = r
    BY <2>1, BuiltinSound
  <2> HIDE DEF c
  <2> QED BY <1>0, <2>1, <2>2, CalledInv DEF EarlyPhases
<1>6. CASE dispatchExecutor(r)
  <2>1. /\ pc[r] = "dispatching" /\ pc'[r] = "executing" /\ answer'[r] = answer[r]
        /\ CallsOf(r)' = CallsOf(r) /\ client' = client
        /\ \/ body'[r] = body[r]
           \/ "client" \in HandOver /\ body'[r] = Merged(client[r])
    BY <1>0, <1>6 DEF dispatchExecutor, CallsOf
  <2>2. isResponses(r) => Restored(r) /\ Declared(r) /\ DeclaredByClient(r)
    BY <1>0, <2>1, RestoredDeclares DEF RequestInv, Carried
  <2>3. isResponses(r) => Declared(r)'
    <3>1. cfg'[r] = cfg[r] /\ client'[r] = client[r]
      BY <1>6, <2>1 DEF dispatchExecutor
    <3> QED BY <2>1, <2>2, <3>1 DEF Declared, DeclaredByClient, ClientItems
  <2>4. Carried(r)'
    BY <2>1, <2>2, <2>3 DEF Carried, Restored, isResponses, ClientItems
  <2> QED BY <1>0, <2>1, <2>4, MovedInv DEF EarlyPhases
<1>7. CASE handleExecute(r)
  BY <1>7, ExecutorInv
<1>8. ASSUME NEW reply \in Replies, summaryReturns(r, reply)
      PROVE  RequestInv(r)'
  BY <1>8, SummaryReturnsInv
<1>9. ASSUME NEW reply \in Replies, delegateReturns(r, reply)
      PROVE  RequestInv(r)'
  <2>1. /\ pc[r] = "calling" /\ pc'[r] = "answered" /\ client'[r] = client[r]
        /\ CallsOf(r)' = CallsOf(r)
    BY <1>0, <1>9 DEF delegateReturns, CallsOf
  <2>2. PICK kind \in {"bridge_failed", "upstream"} : answer'[r] = Plain(kind)
    BY <1>0, <1>9 DEF delegateReturns, Answer
  <2> QED BY <1>0, <2>1, <2>2, PlainInstalls, AnsweredInv
<1>10. CASE upstreamAnswers(r)
  <2>1. /\ pc[r] = "forwarded" /\ pc'[r] = "answered" /\ client'[r] = client[r]
        /\ CallsOf(r)' = CallsOf(r) /\ answer'[r] = Plain("upstream")
    BY <1>0, <1>10 DEF upstreamAnswers, Answer, CallsOf
  <2> QED BY <1>0, <2>1, PlainInstalls, AnsweredInv
<1> QED BY <1>1, <1>2, <1>3, <1>4, <1>5, <1>6, <1>7, <1>8, <1>9, <1>10 DEF Progress

-----------------------------------------------------------------------------
(* The theorems *)

\* The invariant holds before any request is sent.
LEMMA InitInv == Init => IInv
<1> SUFFICES ASSUME Init PROVE IInv
  OBVIOUS
<1>1. TypeOK
  BY InitType
<1>2. ASSUME NEW r \in Requests
      PROVE  RequestInv(r)
  <2>1. pc[r] = "idle" /\ CallsOf(r) = {} /\ answer[r].kind = "none"
    BY DEF Init, CallsOf, Plain
  <2> QED BY <2>1 DEF RequestInv, Spending, Carried, Installed
<1> QED BY <1>1, <1>2 DEF IInv

\* Every step preserves it: a request's, for that request by RequestStep and for
\* the others since they are untouched; a reconfiguration touches none.
LEMMA NextInv == IInv /\ [Next]_vars => IInv'
<1> SUFFICES ASSUME IInv, [Next]_vars PROVE IInv'
  OBVIOUS
<1>1. TypeOK'
  BY TypeNext DEF IInv
<1>2. ASSUME NEW s \in Requests
      PROVE  RequestInv(s)'
  <2>1. CASE UNCHANGED vars \/ \E raw \in RawConfigs : handleLifecycle(raw)
    <3>1. Untouched(s)
      BY <2>1 DEF vars, handleLifecycle, Untouched, CallsOf
    <3> QED BY <3>1, UntouchedInv DEF IInv
  <2>2. ASSUME NEW r \in Requests, Arrive(r) \/ Progress(r)
        PROVE  RequestInv(s)'
    <3>1. CASE s = r
      BY <2>2, <3>1, RequestStep, ArriveAsks
    <3>2. CASE s # r
      <4>1. Untouched(s)
        BY <2>2, <3>2, OthersUntouched, ArriveAsks DEF IInv
      <4> QED BY <4>1, UntouchedInv DEF IInv
    <3> QED BY <3>1, <3>2
  <2> QED BY <2>1, <2>2 DEF Next, Reconfigure
<1> QED BY <1>1, <1>2 DEF IInv

\* The invariant holds in every reachable state.
THEOREM Inductive == Spec => []IInv
BY InitInv, NextInv, PTL DEF Spec

\* A call made for a request is one of its calls.
LEMMA EveryCallSound ==
  ASSUME IInv, NEW c \in upstream
  PROVE  Sound(c)
BY DEF IInv, TypeOK, Calls, RequestInv, CallsOf

\* No summary or ordinary call to a bridged model carries compaction state,
\* whatever the history, the rules and their changes.
THEOREM BridgeCallsClean == Spec => []BridgeCallsCarryNoState
<1>1. IInv => BridgeCallsCarryNoState
  BY EveryCallSound DEF BridgeCallsCarryNoState, Sound
<1> QED BY <1>1, Inductive, PTL

\* The plugin's own compaction items reach no model, however reconfiguration
\* interleaves with routing, interception and execution.
THEOREM BridgeStateContained == Spec => []NoBridgeStateUpstream
<1>1. IInv => NoBridgeStateUpstream
  BY EveryCallSound DEF NoBridgeStateUpstream, Sound
<1> QED BY <1>1, Inductive, PTL

\* Opaque state goes only where an explicit passthrough rule declared it may.
THEOREM OpaqueContained == Spec => []OpaqueOnlyToDeclaredTarget
<1>1. IInv => OpaqueOnlyToDeclaredTarget
  BY EveryCallSound DEF OpaqueOnlyToDeclaredTarget, Sound
<1> QED BY <1>1, Inductive, PTL

\* A model is sent the whole history, restored, in order.
THEOREM HistoryPreserved == Spec => []HistoryReachesModel
<1>1. IInv => HistoryReachesModel
  BY EveryCallSound DEF HistoryReachesModel, Sound
<1> QED BY <1>1, Inductive, PTL

\* A refused request has cost no model call.
THEOREM RefusalIsFree == Spec => []RefusedBeforeUpstream
<1>1. IInv => RefusedBeforeUpstream
  BY DEF RefusedBeforeUpstream, IInv, RequestInv, Spending, CallsOf
<1> QED BY <1>1, Inductive, PTL

\* Whatever a compact turn installs, the next turn can continue.
THEOREM InstalledIsUsable == Spec => []InstalledStateContinues
<1>1. IInv => InstalledStateContinues
  BY DEF InstalledStateContinues, IInv, RequestInv, Installed
<1> QED BY <1>1, Inductive, PTL

\* No sequence of configuration calls leaves an invalid configuration active.
THEOREM ConfigStaysValid == Spec => []HeldConfigIsValid
<1>1. Init => HeldConfigIsValid
  BY DEF Init, HeldConfigIsValid
<1>2. HeldConfigIsValid /\ [Next]_vars => HeldConfigIsValid'
  <2> SUFFICES ASSUME HeldConfigIsValid, [Next]_vars
               PROVE  HeldConfigIsValid'
    OBVIOUS
  <2>1. CASE UNCHANGED holder
    BY <2>1 DEF HeldConfigIsValid
  <2>2. ASSUME NEW raw \in RawConfigs, handleLifecycle(raw)
        PROVE  HeldConfigIsValid'
    BY <2>2, LoadConfigFacts DEF HeldConfigIsValid, handleLifecycle
  <2>3. UNCHANGED holder \/ \E raw \in RawConfigs : handleLifecycle(raw)
    BY DEF Next, Reconfigure, vars, Arrive, clientSends, Progress, handleModelRoute,
           mergeTranscript, handleRequestInterceptBefore, interceptPasses,
           interceptRewrites, interceptTerminates, dispatchBuiltin, dispatchExecutor,
           handleExecute, delegateUnbridged, executeV1Compact, executeStream,
           executeOrdinaryBridged, requestSummary, CallHost, Return, summaryReturns,
           delegateReturns, upstreamAnswers
  <2> QED BY <2>1, <2>2, <2>3
<1> QED BY <1>1, <1>2, PTL DEF Spec

-----------------------------------------------------------------------------
(* Rules that change only between requests.  The route, the interceptor and  *)
(* the executor then read one configuration and must come to one decision,   *)
(* although each computes it for itself and the executor may be handed a     *)
(* body the interceptor never saw.                                           *)

-----------------------------------------------------------------------------
(* The state check and the state table *)

\* Readable summaries alone are accepted for every target.
LEMMA OnlyPlaintext ==
  ASSUME NEW items, NEW target,
         \A i \in DOMAIN items :
           isCompactionItemAny(items[i]) => compactionRecordOf(items[i]) = "plaintext"
  PROVE  checkCompactionItems(items, target) = "ok"
<1>1. RecordsOf(items) \subseteq {"plaintext"}
  BY DEF RecordsOf
<1> QED BY <1>1 DEF checkCompactionItems

\* The check of replay.go decides as the state table of the protocol does.
LEMMA CheckIsTable ==
  ASSUME NEW items, NEW target \in Targets
  PROVE  checkCompactionItems(items, target) = "ok" <=> ~MustRefuse(items, target)
<1>1. \A record : record \in RecordsOf(items) <=>
        \E i \in DOMAIN items : isCompactionItemAny(items[i]) /\ compactionRecordOf(items[i]) = record
  BY DEF RecordsOf
<1>2. "corrupt" \in RecordsOf(items) <=>
        \E i \in DOMAIN items : isCPACompaction(items[i]) /\ items[i].text = Blank
  BY <1>1 DEF compactionRecordOf, isCPACompaction, isCompactionItemAny
<1>3. "opaque" \in RecordsOf(items) <=> \E i \in DOMAIN items : isOpaque(items[i])
  BY <1>1 DEF compactionRecordOf, isCPACompaction, isCompactionItemAny, isOpaque
<1>4. "corrupt" \in RecordsOf(items) \/ "plaintext" \in RecordsOf(items) <=>
        \E i \in DOMAIN items : isCPACompaction(items[i])
  BY <1>1 DEF compactionRecordOf, isCPACompaction, isCompactionItemAny
<1> QED BY <1>2, <1>3, <1>4 DEF checkCompactionItems, MustRefuse, mayForwardOpaqueState

\* State a bridged model may continue is accepted again by the executor, restored
\* or not, with its triggers or without.
LEMMA AcceptedAgain ==
  ASSUME NEW items \in Seq(Items), ~MustRefuse(items, "bridge"),
         NEW given \in {items, rewriteCompactionItems(items)}
  PROVE  /\ checkCompactionItems(given, "bridge") = "ok"
         /\ buildSummaryRequestInput(removeLastCompactionTrigger(given)).verdict = "ok"
<1> DEFINE Plain1(s) == \A i \in DOMAIN s :
             isCompactionItemAny(s[i]) => compactionRecordOf(s[i]) = "plaintext"
<1>1. Plain1(items)
  BY DEF MustRefuse, isOpaque, compactionRecordOf, isCPACompaction, isCompactionItemAny
<1>2. Plain1(rewriteCompactionItems(items))
  BY <1>1 DEF rewriteCompactionItems, rewriteItem, compactToUserMessage, isCompactionItemAny
<1>3. given \in Seq(Items) /\ Plain1(given)
  BY <1>1, <1>2, RewriteType
<1> HIDE DEF Plain1
<1> DEFINE s == removeLastCompactionTrigger(given)
           K == {i \in DOMAIN s : ~isCompactionTrigger(s[i])}
<1>4. s \in Seq(Items) /\ Plain1(s)
  <2>1. s \in Seq(Items)
    BY <1>3, RemoveLastType
  <2>2. \A i \in DOMAIN s : i \in DOMAIN given /\ s[i] = given[i]
    BY <1>3 DEF removeLastCompactionTrigger, detectV2Trigger
  <2> QED BY <1>3, <2>1, <2>2 DEF Plain1
<1> HIDE DEF s
<1>5. Plain1(ItemsAt(s, K))
  <2>1. \A k \in DOMAIN ItemsAt(s, K) : NthOf(K, k) \in K /\ ItemsAt(s, K)[k] = s[NthOf(K, k)]
    BY <1>4, ItemsAtFacts
  <2> QED BY <1>4, <2>1 DEF Plain1
<1>6. checkCompactionItems(nonTriggers(s), "bridge") = "ok"
  BY <1>5, OnlyPlaintext DEF Plain1, nonTriggers
<1> QED BY <1>3, <1>6, OnlyPlaintext DEF Plain1, buildSummaryRequestInput, s

-----------------------------------------------------------------------------
(* The trigger *)

\* The last of two sequences joined is the last of the second.
LEMMA LastOfBoth ==
  ASSUME NEW S, NEW s \in Seq(S), NEW t \in Seq(S), t # <<>>
  PROVE  s \o t # <<>> /\ (s \o t)[Len(s \o t)] = t[Len(t)]
<1>1. Len(t) \in Nat \ {0} /\ Len(s) \in Nat
  BY EmptySeq
<1>2. Len(s \o t) = Len(s) + Len(t)
  OBVIOUS
<1> DEFINE n == Len(s) + Len(t)
<1>3. n \in 1..n /\ ~(n <= Len(s)) /\ n - Len(s) = Len(t)
  BY <1>1
<1> HIDE DEF n
<1>4. (s \o t)[n] = t[n - Len(s)]
  BY <1>3, ConcatProperties DEF n
<1>5. s \o t # <<>>
  BY <1>1, ConcatEqualIffEmpty
<1> QED BY <1>2, <1>3, <1>4, <1>5 DEF n

\* A trigger that ends the new items ends the whole request too.
LEMMA TriggerMerged ==
  ASSUME NEW c \in ClientRequests
  PROVE  /\ inputReadable(Merged(c)) <=> inputReadable(c.body)
         /\ detectV2Trigger(inputItems(c.body)) => detectV2Trigger(inputItems(Merged(c)))
         /\ /\ detectV2Trigger(inputItems(Merged(c)))
            /\ c.body.items = <<>> => c.transcript = <<>>
            => detectV2Trigger(inputItems(c.body))
<1>1. /\ c.body \in Bodies /\ c.transcript \in Seq(Items) /\ c.body.items \in Seq(Items)
  BY DEF ClientRequests, Bodies
<1>2. CASE c.body.shape # "array"
  BY <1>2 DEF Merged, inputReadable, inputItems
<1>3. CASE c.body.shape = "array"
  <2> DEFINE whole == c.transcript \o c.body.items
  <2>1. whole \in Seq(Items) /\ Len(whole) = Len(c.transcript) + Len(c.body.items)
    BY <1>1
  <2>2. c.body.items # <<>> => whole # <<>> /\ whole[Len(whole)] = c.body.items[Len(c.body.items)]
    BY <1>1, LastOfBoth
  <2>3. c.body.items = <<>> /\ c.transcript = <<>> => whole = <<>>
    BY <1>1
  <2> HIDE DEF whole
  <2>4. Merged(c).shape = "array" /\ Merged(c).items = whole
    BY <1>1, <1>3 DEF Merged, Bodies, whole
  <2> QED BY <1>3, <2>2, <2>3, <2>4 DEF inputReadable, inputItems, detectV2Trigger
<1> QED BY <1>2, <1>3

-----------------------------------------------------------------------------
(* The inductive invariant: what is decided of each request *)

\* The phases in which no configuration can change under a request.
InFlight == {"merging", "intercepting", "dispatching", "executing", "calling", "forwarded"}

Bridges(r) == decideRoute(cfg[r], client[r].model).bridged /\ shouldBridgeRoute(client[r])

TableRefuses(r) == MustRefuse(ClientItems(r), TargetOf(cfg[r], client[r].model))

\* The whole request, its summaries restored or not.
Held(r) ==
  /\ body[r].shape = Merged(client[r]).shape
  /\ inputItems(body[r]) \in {ClientItems(r), rewriteCompactionItems(ClientItems(r))}

BranchOf(r) ==
  CASE detectV1Compact(client[r]) -> op[r] = "v1"
    [] client[r].stream           -> op[r] = "v2"
    [] OTHER                      -> op[r] = "ordinary"

Outcome(r) ==
  /\ isResponses(r) => (answer[r].kind = "invalid_state" <=> TableRefuses(r))
  /\ client[r].stream => answer[r].kind # "bridge_failed"
  /\ answer[r].kind = "upstream" =>
       ~Bridges(r) \/ (~client[r].stream /\ ~client[r].compact)
  /\ answer[r].kind \in {"compact_window", "compact_stream", "stream_failed"} => Bridges(r)

\* The three handlers agree, and what the interceptor let pass no later branch
\* refuses.
Decided(r) ==
  /\ pc[r] \in InFlight => cfg[r] = loaded
  /\ pc[r] \in {"merging", "intercepting", "dispatching"} => selfRouted[r] = Bridges(r)
  /\ pc[r] \in {"executing", "calling"} => Bridges(r)
  /\ pc[r] = "forwarded" => ~Bridges(r)
  /\ pc[r] \in {"dispatching", "executing", "calling", "forwarded"} /\ isResponses(r) => ~TableRefuses(r)
  /\ pc[r] \in {"dispatching", "executing"} => Held(r)
  /\ pc[r] = "calling" => BranchOf(r)
  /\ pc[r] = "answered" => Outcome(r)
  /\ \A c \in CallsOf(r) : c.via # "delegate"

QInv == IInv /\ \A r \in Requests : Decided(r)

-----------------------------------------------------------------------------
(* Steps *)

\* A step of another request, or a reconfiguration between requests, leaves what
\* is decided of this one.
LEMMA DecidedStays ==
  ASSUME NEW s \in Requests, Decided(s), Untouched(s), selfRouted'[s] = selfRouted[s],
         holder' = holder \/ pc[s] \notin InFlight
  PROVE  Decided(s)'
BY DEF Decided, Untouched, loaded, InFlight, Bridges, TableRefuses, Held, BranchOf, Outcome,
       ClientItems, isResponses

\* A step touches no other request's route and no configuration.
LEMMA RouteUntouched ==
  ASSUME TypeOK, NEW r \in Requests, Asks(r) \/ Progress(r), NEW s \in Requests, s # r
  PROVE  selfRouted'[s] = selfRouted[s] /\ holder' = holder
BY DEF TypeOK, Asks, clientSends, Progress, handleModelRoute, mergeTranscript,
       handleRequestInterceptBefore, interceptPasses, interceptRewrites,
       interceptTerminates, dispatchBuiltin, dispatchExecutor, handleExecute,
       delegateUnbridged, executeV1Compact, executeStream, executeOrdinaryBridged,
       requestSummary, CallHost, Return, summaryReturns, delegateReturns,
       upstreamAnswers

\* The interceptor refuses exactly what the table refuses.
LEMMA InterceptorDecides ==
  ASSUME QInv, NEW r \in Requests, handleRequestInterceptBefore(r)
  PROVE  Decided(r)'
<1> USE DEF Goto
<1>0. /\ pc[r] = "intercepting" /\ client' = client /\ selfRouted' = selfRouted
      /\ holder' = holder /\ CallsOf(r)' = CallsOf(r) /\ cfg'[r] = loaded
      /\ cfg[r] = loaded /\ selfRouted[r] = Bridges(r)
  BY DEF handleRequestInterceptBefore, interceptPasses, interceptRewrites, interceptTerminates,
         CallsOf, QInv, IInv, TypeOK, Decided, InFlight, LoadConfig
<1>1. /\ body[r] = Merged(client[r]) /\ body[r] \in Bodies
      /\ inputItems(body[r]) = ClientItems(r) /\ ClientItems(r) \in Seq(Items)
  BY <1>0, ClientItemsType DEF QInv, IInv, RequestInv, Carried, ClientItems
<1> DEFINE target == TargetOf(loaded, client[r].model)
<1>t. target \in Targets
  BY DEF TargetOf, compactionTargetFor, Targets
<1>2. /\ Bridges(r)' = Bridges(r) /\ loaded' = loaded /\ isResponses(r)' = isResponses(r)
      /\ ClientItems(r)' = ClientItems(r) /\ TableRefuses(r)' = MustRefuse(ClientItems(r), target)
  BY <1>0 DEF Bridges, loaded, isResponses, ClientItems, TableRefuses
<1>3. /\ ~hasCompactionItems(ClientItems(r)) => ~MustRefuse(ClientItems(r), target)
      /\ ~inputReadable(body[r]) => ClientItems(r) = <<>>
  <2>1. ~inputReadable(body[r]) => ClientItems(r) = <<>>
    BY <1>1 DEF inputReadable, inputItems
  <2> QED BY <2>1 DEF hasCompactionItems, MustRefuse, isOpaque, isCPACompaction, isCompactionItemAny
<1>4. interceptorActs(r) =>
        /\ body[r].shape = "array" /\ body[r].items = ClientItems(r)
        /\ interceptorVerdict(r).verdict = checkCompactionItems(ClientItems(r), target)
  BY <1>1 DEF interceptorActs, inputReadable, inputItems, hasCompactionItems, interceptorVerdict,
              normalizeCompactionState
<1> HIDE DEF target
<1>5. CASE interceptPasses(r)
  <2>1. pc'[r] = "dispatching" /\ body' = body
    BY <1>0, <1>5 DEF interceptPasses, QInv, IInv, TypeOK
  <2>2. isResponses(r) => ~MustRefuse(ClientItems(r), target)
    <3>1. ~MustRefuse(<<>>, target)
      BY DEF MustRefuse
    <3> QED BY <1>3, <1>1, <1>5, <3>1 DEF interceptPasses, interceptorActs, isResponses
  <2>3. Held(r)'
    BY <1>0, <1>1, <1>2, <2>1 DEF Held
  <2> QED BY <1>0, <1>2, <2>1, <2>2, <2>3 DEF Decided, QInv, InFlight
<1>6. CASE interceptRewrites(r)
  <2>1. pc'[r] = "dispatching" /\ body'[r] = interceptorVerdict(r).body /\ interceptorVerdict(r).verdict = "ok"
    BY <1>0, <1>6 DEF interceptRewrites, QInv, IInv, TypeOK
  <2>2. ~MustRefuse(ClientItems(r), target)
    BY <1>4, <1>6, <1>t, <2>1, CheckIsTable DEF interceptRewrites
  <2>3. body'[r] = [body[r] EXCEPT !.items = rewriteCompactionItems(@)]
    BY <1>4, <1>6, <2>1 DEF interceptRewrites, interceptorVerdict, normalizeCompactionState
  <2>4. body'[r].shape = "array" /\ inputItems(body'[r]) = rewriteCompactionItems(ClientItems(r))
    BY <1>1, <1>4, <1>6, <2>3 DEF interceptRewrites, inputItems, Bodies
  <2>5. Held(r)'
    BY <1>0, <1>1, <1>2, <1>4, <1>6, <2>4 DEF Held, interceptRewrites
  <2> QED BY <1>0, <1>2, <2>1, <2>2, <2>5 DEF Decided, QInv, InFlight
<1>7. CASE interceptTerminates(r)
  <2>1. interceptorVerdict(r).verdict \in StateErrors
    BY <1>4, <1>7 DEF interceptTerminates, checkCompactionItems, StateErrors
  <2>2. pc'[r] = "answered" /\ answer'[r] = Plain("invalid_state")
    BY <1>0, <1>7, <2>1 DEF interceptTerminates, Answer, QInv, IInv, TypeOK
  <2>3. MustRefuse(ClientItems(r), target)
    BY <1>4, <1>7, <1>t, CheckIsTable DEF interceptTerminates
  <2>4. Outcome(r)'
    BY <1>2, <2>2, <2>3 DEF Outcome, Plain
  <2> QED BY <1>0, <2>2, <2>4 DEF Decided, QInv, InFlight
<1> QED BY <1>5, <1>6, <1>7 DEF handleRequestInterceptBefore

\* In the executor: the model is bridged, a stream carries its trigger, and no
\* state check fails any more.
LEMMA ExecutorKnows ==
  ASSUME QInv, NEW r \in Requests, pc[r] = "executing"
  PROVE  /\ cfg[r] = loaded /\ decision(r).bridged /\ Bridges(r)
         /\ client[r].stream => takesV2(r)
         /\ isResponses(r) =>
              /\ ~TableRefuses(r)
              /\ summaryVerdict(r) # "invalid_state"
              /\ normalizeCompactionState(body[r], "bridge").verdict \notin StateErrors
<1>1. /\ cfg[r] = loaded /\ decision(r).bridged /\ Bridges(r) /\ shouldBridgeRoute(client[r]) /\ Held(r)
      /\ isResponses(r) => ~TableRefuses(r)
  BY DEF QInv, Decided, InFlight, Bridges, decision
<1>2. /\ client[r] \in ClientRequests /\ client[r].model \in Models /\ loaded \in Configs
      /\ inputItems(body[r]) \in Seq(Items) /\ ClientItems(r) \in Seq(Items) /\ body[r] \in Bodies
  BY ClientItemsType, LoadedType DEF QInv, IInv
<1>3. ASSUME client[r].stream PROVE takesV2(r)
  <2>1. inputReadable(client[r].body) /\ detectV2Trigger(inputItems(client[r].body))
    BY <1>1, <1>3 DEF shouldBridgeRoute
  <2>2. inputReadable(Merged(client[r])) /\ detectV2Trigger(ClientItems(r))
    BY <1>2, <2>1, TriggerMerged DEF ClientItems
  <2>3. inputReadable(body[r]) /\ detectV2Trigger(inputItems(body[r]))
    BY <1>1, <1>2, <2>2, TriggerRestored DEF Held, inputReadable
  <2> QED BY <1>3, <2>3 DEF takesV2, detectV1Compact
<1>4. ASSUME isResponses(r)
      PROVE  /\ summaryVerdict(r) # "invalid_state"
             /\ normalizeCompactionState(body[r], "bridge").verdict \notin StateErrors
  <2>1. TargetOf(cfg[r], client[r].model) = "bridge"
    BY <1>1, <1>2, RouteFacts DEF decision
  <2>2. ~MustRefuse(ClientItems(r), "bridge")
    BY <1>1, <1>4, <2>1 DEF TableRefuses
  <2>3. checkCompactionItems(inputItems(body[r]), "bridge") = "ok" /\ summaryInput(r).verdict = "ok"
    BY <1>1, <1>2, <2>2, AcceptedAgain DEF Held, summaryInput
  <2> QED BY <2>3 DEF summaryVerdict, normalizeCompactionState, inputItems, StateErrors
<1> QED BY <1>1, <1>3, <1>4

\* A callback made under the decision it was routed by.
LEMMA CallDecided ==
  ASSUME QInv, NEW r \in Requests, NEW b, NEW via, via # "delegate", NEW model, NEW items,
         CallHost(r, b, via, model, items),
         CASE detectV1Compact(client[r]) -> b = "v1"
           [] client[r].stream           -> b = "v2"
           [] OTHER                      -> b = "ordinary"
  PROVE  Decided(r)'
<1>1. /\ pc[r] = "executing" /\ pc'[r] = "calling" /\ client' = client /\ holder' = holder
      /\ cfg'[r] = loaded /\ op'[r] = b /\ loaded' = loaded
  BY DEF CallHost, Goto, LoadConfig, QInv, IInv, TypeOK, loaded
<1>2. cfg[r] = loaded /\ Bridges(r) /\ (isResponses(r) => ~TableRefuses(r))
  BY <1>1, ExecutorKnows
<1>3. \A c \in CallsOf(r)' : c.via # "delegate"
  BY DEF CallHost, CallModel, CallsOf, QInv, Decided
<1>4. BranchOf(r)'
  BY <1>1 DEF BranchOf, detectV1Compact
<1> QED BY <1>1, <1>2, <1>3, <1>4 DEF Decided, Bridges, TableRefuses, ClientItems, isResponses

\* An answer without a callback refuses no more than the table, and a streaming
\* client gets no 502.
LEMMA ReturnDecided ==
  ASSUME QInv, NEW r \in Requests, NEW kind \in {"invalid_state", "bridge_failed", "stream_failed"},
         Return(r, Plain(kind)),
         kind = "invalid_state" => ~isResponses(r),
         client[r].stream => kind # "bridge_failed"
  PROVE  Decided(r)'
<1>1. /\ pc[r] = "executing" /\ pc'[r] = "answered" /\ client' = client /\ cfg'[r] = loaded
      /\ answer'[r].kind = kind /\ CallsOf(r)' = CallsOf(r)
  BY DEF Return, Goto, LoadConfig, Answer, Plain, QInv, IInv, TypeOK, CallsOf
<1>2. cfg[r] = loaded /\ Bridges(r) /\ (isResponses(r) => ~TableRefuses(r))
  BY <1>1, ExecutorKnows
<1>3. Outcome(r)'
  BY <1>1, <1>2 DEF Outcome, Bridges, TableRefuses, ClientItems, isResponses
<1> QED BY <1>1, <1>3 DEF Decided, QInv, InFlight

\* handleExecute, every branch.
LEMMA ExecutorDecides ==
  ASSUME QInv, NEW r \in Requests, handleExecute(r)
  PROVE  Decided(r)'
<1>0. pc[r] = "executing"
  BY DEF handleExecute, delegateUnbridged, executeV1Compact, executeStream,
         executeOrdinaryBridged, requestSummary, CallHost, Return, Goto
<1>k. /\ decision(r).bridged /\ (client[r].stream => takesV2(r))
      /\ isResponses(r) =>
           /\ summaryVerdict(r) # "invalid_state"
           /\ normalizeCompactionState(body[r], "bridge").verdict \notin StateErrors
  BY <1>0, ExecutorKnows
<1>1. CASE delegateUnbridged(r)
  BY <1>k, <1>1 DEF delegateUnbridged
<1>2. CASE executeV1Compact(r)
  <2>1. detectV1Compact(client[r]) /\ ~client[r].stream
    BY <1>2 DEF executeV1Compact, detectV1Compact
  <2>2. CASE requestSummary(r, "v1")
    BY <2>1, <2>2, CallDecided DEF requestSummary
  <2>3. ASSUME NEW kind \in {"invalid_state", "bridge_failed"}, Return(r, Plain(kind)),
               kind = "invalid_state" => summaryVerdict(r) = "invalid_state"
        PROVE  Decided(r)'
    BY <1>k, <2>1, <2>3, ReturnDecided
  <2> QED BY <1>2, <2>2, <2>3 DEF executeV1Compact
<1>3. CASE executeStream(r)
  <2>1. client[r].stream /\ takesV2(r) /\ ~detectV1Compact(client[r])
    BY <1>k, <1>3 DEF executeStream, detectV1Compact
  <2>2. CASE requestSummary(r, "v2")
    BY <2>1, <2>2, CallDecided DEF requestSummary
  <2>3. CASE Return(r, Plain(streamFailure(r)))
    BY <1>k, <2>1, <2>3, ReturnDecided DEF streamFailure
  <2> QED BY <1>3, <2>2, <2>3 DEF executeStream
<1>4. CASE executeOrdinaryBridged(r)
  <2> DEFINE result == normalizeCompactionState(body[r], "bridge")
  <2>1. ~client[r].stream /\ ~detectV1Compact(client[r])
    BY <1>4 DEF executeOrdinaryBridged
  <2>2. CASE CallHost(r, "ordinary", "ordinary", client[r].model, inputItems(result.body))
    BY <2>1, <2>2, CallDecided
  <2>3. CASE Return(r, Plain(IF result.verdict \in StateErrors THEN "invalid_state" ELSE "bridge_failed"))
    BY <1>k, <2>1, <2>3, ReturnDecided
  <2> QED BY <1>4, <2>2, <2>3 DEF executeOrdinaryBridged
<1> QED BY <1>1, <1>2, <1>3, <1>4 DEF handleExecute

\* A callback's reply ends the branch that made it.
LEMMA RepliesDecide ==
  ASSUME QInv, NEW r \in Requests, NEW reply \in Replies,
         summaryReturns(r, reply) \/ delegateReturns(r, reply)
  PROVE  Decided(r)'
<1>1. /\ pc[r] = "calling" /\ pc'[r] = "answered" /\ client' = client /\ cfg' = cfg
      /\ CallsOf(r)' = CallsOf(r)
      /\ Bridges(r) /\ BranchOf(r) /\ (isResponses(r) => ~TableRefuses(r))
  BY DEF summaryReturns, delegateReturns, Goto, QInv, IInv, TypeOK, CallsOf, Decided
<1>2. CASE summaryReturns(r, reply)
  <2>1. answer'[r] = compactAnswer(r, reply)
    BY <1>2 DEF summaryReturns, Answer, QInv, IInv, TypeOK
  <2>2. /\ answer'[r].kind \in {"compact_window", "compact_stream", "bridge_failed", "stream_failed"}
        /\ answer'[r].kind = "bridge_failed" => op[r] = "v1"
    BY <2>1 DEF compactAnswer, Plain
  <2>3. op[r] = "v1" => ~client[r].stream
    BY <1>1 DEF BranchOf, detectV1Compact
  <2> QED BY <1>1, <2>2, <2>3 DEF Decided, QInv, InFlight, Outcome, Bridges, TableRefuses, ClientItems,
                                 isResponses
<1>3. CASE delegateReturns(r, reply)
  <2>1. answer'[r].kind \in {"bridge_failed", "upstream"}
    BY <1>3 DEF delegateReturns, Answer, Plain, QInv, IInv, TypeOK
  <2>2. ~client[r].stream /\ ~client[r].compact
    BY <1>1, <1>3 DEF delegateReturns, BranchOf, detectV1Compact
  <2> QED BY <1>1, <2>1, <2>2 DEF Decided, QInv, InFlight, Outcome, Bridges, TableRefuses, ClientItems,
                                 isResponses
<1> QED BY <1>2, <1>3

\* Every step a request takes.
LEMMA DecidedStep ==
  ASSUME QInv, NEW r \in Requests, Asks(r) \/ Progress(r)
  PROVE  Decided(r)'
<1> USE DEF Goto
<1>0. TypeOK /\ Decided(r) /\ Spending(r) /\ loaded \in Configs
  BY LoadedType DEF QInv, IInv, RequestInv
<1>1. CASE Asks(r)
  <2>1. pc[r] = "idle" /\ pc'[r] = "routing" /\ CallsOf(r)' = CallsOf(r)
    BY <1>0, <1>1 DEF Asks, clientSends, CallsOf, TypeOK
  <2> QED BY <1>0, <2>1 DEF Decided, InFlight
<1>2. CASE handleModelRoute(r)
  <2>1. /\ pc'[r] = "merging" /\ client' = client /\ holder' = holder /\ CallsOf(r)' = CallsOf(r)
        /\ cfg'[r] = loaded
        /\ selfRouted'[r] = (decideRoute(loaded, client[r].model).bridged /\ shouldBridgeRoute(client[r]))
    BY <1>0, <1>2 DEF handleModelRoute, LoadConfig, CallsOf, TypeOK
  <2> QED BY <1>0, <2>1 DEF Decided, InFlight, Bridges, loaded
<1>3. CASE mergeTranscript(r)
  <2>1. /\ pc[r] = "merging" /\ pc'[r] = "intercepting"
        /\ UNCHANGED <<client, holder, cfg, selfRouted, op, answer>> /\ CallsOf(r)' = CallsOf(r)
    BY <1>0, <1>3 DEF mergeTranscript, CallsOf, TypeOK
  <2> QED BY <1>0, <2>1 DEF Decided, InFlight, Bridges, loaded
<1>4. CASE handleRequestInterceptBefore(r)
  BY <1>4, InterceptorDecides
<1>5. CASE dispatchBuiltin(r)
  <2>1. /\ pc[r] = "dispatching" /\ pc'[r] = "forwarded" /\ ~selfRouted[r]
        /\ UNCHANGED <<client, holder, cfg, selfRouted, op, answer>>
    BY <1>0, <1>5 DEF dispatchBuiltin, TypeOK
  <2>2. \A c \in CallsOf(r)' : c.via # "delegate"
    BY <1>0, <1>5 DEF dispatchBuiltin, CallModel, CallsOf, Decided
  <2> QED BY <1>0, <2>1, <2>2 DEF Decided, InFlight, Bridges, loaded, TableRefuses, ClientItems, isResponses
<1>6. CASE dispatchExecutor(r)
  <2>1. /\ pc[r] = "dispatching" /\ pc'[r] = "executing" /\ selfRouted[r]
        /\ UNCHANGED <<client, holder, cfg, selfRouted, op, answer>> /\ CallsOf(r)' = CallsOf(r)
        /\ body'[r] = body[r] \/ body'[r] = Merged(client[r])
    BY <1>0, <1>6 DEF dispatchExecutor, CallsOf, TypeOK
  <2>2. Held(r)'
    BY <1>0, <2>1 DEF Decided, Held, ClientItems
  <2> QED BY <1>0, <2>1, <2>2 DEF Decided, InFlight, Bridges, loaded, TableRefuses, ClientItems, isResponses
<1>7. CASE handleExecute(r)
  BY <1>7, ExecutorDecides
<1>8. CASE \E reply \in Replies : summaryReturns(r, reply) \/ delegateReturns(r, reply)
  BY <1>8, RepliesDecide
<1>9. CASE upstreamAnswers(r)
  <2>1. /\ pc[r] = "forwarded" /\ pc'[r] = "answered" /\ answer'[r].kind = "upstream"
        /\ UNCHANGED <<client, holder, cfg>> /\ CallsOf(r)' = CallsOf(r)
    BY <1>0, <1>9 DEF upstreamAnswers, Answer, Plain, CallsOf, TypeOK
  <2> QED BY <1>0, <2>1 DEF Decided, InFlight, Outcome, Bridges, TableRefuses, ClientItems, isResponses
<1> QED BY <1>1, <1>2, <1>3, <1>4, <1>5, <1>6, <1>7, <1>8, <1>9 DEF Progress

-----------------------------------------------------------------------------
(* The theorems *)

\* The invariant holds in every state reachable by configuration calls between
\* requests.
THEOREM QuiescentInductive == QuiescentSpec => []QInv
<1>1. Init => QInv
  <2> SUFFICES ASSUME Init PROVE QInv
    OBVIOUS
  <2>1. \A r \in Requests : Decided(r)
    BY DEF Init, Decided, InFlight, CallsOf
  <2> QED BY <2>1, InitInv DEF QInv
<1>2. QInv /\ [QuiescentNext]_vars => QInv'
  <2> SUFFICES ASSUME QInv, [QuiescentNext]_vars PROVE QInv'
    OBVIOUS
  <2>1. IInv'
    BY NextInv DEF QInv, QuiescentNext, Next
  <2>2. ASSUME NEW s \in Requests
        PROVE  Decided(s)'
    <3>1. CASE UNCHANGED vars
      <4>1. Untouched(s) /\ selfRouted' = selfRouted /\ holder' = holder
        BY <3>1 DEF vars, Untouched, CallsOf
      <4> QED BY <4>1, DecidedStays DEF QInv
    <3>2. ASSUME Quiescent, NEW raw \in RawConfigs, handleLifecycle(raw)
          PROVE  Decided(s)'
      <4>1. Untouched(s) /\ selfRouted' = selfRouted /\ pc[s] \notin InFlight
        BY <3>2 DEF handleLifecycle, Untouched, CallsOf, Quiescent, InFlight
      <4> QED BY <4>1, DecidedStays DEF QInv
    <3>3. ASSUME NEW r \in Requests, Arrive(r) \/ Progress(r)
          PROVE  Decided(s)'
      <4>1. Asks(r) \/ Progress(r)
        BY <3>3, ArriveAsks
      <4>2. CASE s = r
        BY <4>1, <4>2, DecidedStep
      <4>3. CASE s # r
        BY <4>1, <4>3, OthersUntouched, RouteUntouched, DecidedStays DEF QInv, IInv
      <4> QED BY <4>2, <4>3
    <3> QED BY <3>1, <3>2, <3>3 DEF QuiescentNext, Reconfigure
  <2> QED BY <2>1, <2>2 DEF QInv
<1> QED BY <1>1, <1>2, PTL DEF QuiescentSpec

\* A request is refused exactly when the state table says so, by whichever handler
\* meets it, from whichever body CPA hands over (handleRequestInterceptBefore,
\* handleExecute).
THEOREM TableDecides == QuiescentSpec => []StateTableDecides
<1>1. QInv => StateTableDecides
  BY DEF QInv, StateTableDecides, Decided, Outcome, TableRefuses
<1> QED BY <1>1, QuiescentInductive, PTL

\* The executor never meets a model it does not bridge, nor a stream without its
\* trigger: its two fallbacks are for changes of the rules alone.
THEOREM FallbacksUnused == QuiescentSpec => []NoExecutorFallback
<1>1. QInv => NoExecutorFallback
  <2> SUFFICES ASSUME QInv PROVE NoExecutorFallback
    OBVIOUS
  <2>1. \A c \in upstream : c.via # "delegate"
    BY DEF QInv, IInv, TypeOK, Calls, Decided, CallsOf
  <2>2. ASSUME NEW r \in Requests, client[r].stream
        PROVE  answer[r].kind # "bridge_failed"
    BY <2>2 DEF QInv, IInv, RequestInv, Spending, Decided, Outcome
  <2> QED BY <2>1, <2>2 DEF NoExecutorFallback
<1> QED BY <1>1, QuiescentInductive, PTL

\* Codex streams no V1 compact, and its WebSocket turns bring new items.
CodexClients ==
  \A c \in Clients :
    /\ c.compact => ~c.stream
    /\ c.body.items = <<>> => c.transcript = <<>>

\* What a client of the workload asked stays what it asked.
LEMMA FromWorkload == QuiescentSpec => [](\A r \in Requests : client[r] \in Clients)
<1> DEFINE Asked == client \in [Requests -> Clients]
<1>1. Init => Asked
  BY CompactBridgeAssumption DEF Init
<1>2. Asked /\ [QuiescentNext]_vars => Asked'
  <2> SUFFICES ASSUME Asked, [QuiescentNext]_vars PROVE Asked'
    OBVIOUS
  <2>1. client' = client \/ \E r \in Requests, c \in Clients : client' = [client EXCEPT ![r] = c]
    BY DEF QuiescentNext, Reconfigure, handleLifecycle, vars, Arrive, clientSends, Progress,
           handleModelRoute, mergeTranscript, handleRequestInterceptBefore, interceptPasses,
           interceptRewrites, interceptTerminates, dispatchBuiltin, dispatchExecutor, handleExecute,
           delegateUnbridged, executeV1Compact, executeStream, executeOrdinaryBridged,
           requestSummary, CallHost, Return, summaryReturns, delegateReturns, upstreamAnswers
  <2> QED BY <2>1
<1>3. Asked => \A r \in Requests : client[r] \in Clients
  OBVIOUS
<1> HIDE DEF Asked
<1> QED BY <1>1, <1>2, <1>3, PTL DEF QuiescentSpec

\* The compact turns of Codex belong to the bridge exactly when a bridge rule
\* matches (shouldBridgeRoute and handleExecute agree on what one is).
THEOREM TurnsOwned ==
  ASSUME CodexClients
  PROVE  QuiescentSpec => []CompactTurnOwned
<1>1. QInv /\ (\A r \in Requests : client[r] \in Clients) => CompactTurnOwned
  <2> SUFFICES ASSUME QInv, \A r \in Requests : client[r] \in Clients,
                      NEW r \in Requests, pc[r] = "answered", isCompactTurn(r)
               PROVE  /\ answer[r].kind = "upstream" =>
                           TargetOf(cfg[r], client[r].model) # "bridge"
                      /\ answer[r].kind \in {"compact_window", "compact_stream", "stream_failed"} =>
                           TargetOf(cfg[r], client[r].model) = "bridge"
    BY DEF CompactTurnOwned
  <2>1. /\ Outcome(r) /\ client[r] \in ClientRequests
        /\ decideRoute(cfg[r], client[r].model).bridged <=> TargetOf(cfg[r], client[r].model) = "bridge"
    BY RouteFacts, ClientItemsType DEF QInv, IInv, TypeOK, Decided
  <2>2. client[r].compact => ~client[r].stream
    BY DEF CodexClients
  <2>3. shouldBridgeRoute(client[r])
    <3>1. CASE client[r].compact
      BY <2>2, <3>1 DEF shouldBridgeRoute
    <3>2. CASE client[r].stream /\ detectV2Trigger(ClientItems(r))
      <4>1. detectV2Trigger(inputItems(client[r].body))
        BY <2>1, <3>2, TriggerMerged DEF CodexClients, ClientItems
      <4>2. inputReadable(client[r].body)
        BY <4>1 DEF inputReadable, inputItems, detectV2Trigger
      <4> QED BY <4>1, <4>2 DEF shouldBridgeRoute
    <3> QED BY <3>1, <3>2 DEF isCompactTurn
  <2>4. ~(~client[r].stream /\ ~client[r].compact)
    BY DEF isCompactTurn
  <2> QED BY <2>1, <2>3, <2>4 DEF Outcome, Bridges
<1> QED BY <1>1, QuiescentInductive, FromWorkload, PTL
=============================================================================
