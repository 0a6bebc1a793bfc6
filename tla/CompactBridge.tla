---------------------------- MODULE CompactBridge ----------------------------
(***************************************************************************)
(* The bridge at work: requests in flight through CPA's plugin calls       *)
(*                                                                         *)
(*    model.route -> [transcript merge] -> request.intercept_before        *)
(*      -> built-in upstream, or executor.execute / execute_stream         *)
(*         -> host.model.execute -> answer                                 *)
(*                                                                         *)
(* while plugin.reconfigure swaps the configuration under them.  Each of   *)
(* the three handlers loads the atomic configuration for itself, so one    *)
(* request may be routed, normalized and executed under three different    *)
(* rule sets.                                                              *)
(*                                                                         *)
(* A handler is one action: after its single load of configHolder it works *)
(* on local data only.  handleExecute is two, because it blocks in         *)
(* host.model.execute between building the call and reading the reply.     *)
(*                                                                         *)
(* Not code of this repository, and modelled from how the code uses it:    *)
(* the order of CPA's calls, the merge of a WebSocket transcript between   *)
(* route and interceptor, which body CPA hands to the executor (HandOver), *)
(* and the upstreams' replies.                                             *)
(***************************************************************************)
EXTENDS CompactionPolicy, BridgeConfig

CONSTANTS
  Requests,    \* requests CPA may have in flight
  Clients,     \* the requests clients may send
  RawConfigs,  \* configurations plugin.register / plugin.reconfigure may bring
  HandOver,    \* bodies CPA may hand the executor as OriginalRequest
  TextSize,    \* length in bytes of a text
  Unset        \* the nil configuration pointer before plugin.register

\* transcript: what a WebSocket connection already holds, <<>> over HTTP.
\* compact: the Alt is responses/compact.
ClientRequests ==
  [model : Models, stream : BOOLEAN, compact : BOOLEAN,
   format : {"openai-response", "other"}, transcript : Seq(Items), body : Bodies]

ASSUME CompactBridgeAssumption ==
  /\ Clients \subseteq ClientRequests /\ Clients # {}
  /\ HandOver \subseteq {"client", "intercepted"} /\ HandOver # {}
  /\ TextSize \in [Texts -> Nat]
  /\ \A raw \in RawConfigs : WithDefaults(raw.cfg) \in Configs
  /\ \A c \in Clients : c.body.shape # "array" => c.body.items = <<>>

VARIABLES
  holder,     \* configHolder
  pc,         \* where each request stands
  client,     \* the request as the client sent it
  body,       \* the body CPA holds for it, then the executor's OriginalRequest
  cfg,        \* the configuration its latest handler loaded
  selfRouted, \* model.route answered TargetSelf
  op,         \* the executor branch waiting in host.model.execute
  upstream,   \* every model call made on behalf of a request
  answer      \* what the client received

vars == <<holder, pc, client, body, cfg, selfRouted, op, upstream, answer>>

Phases == {"idle", "routing", "merging", "intercepting", "dispatching",
           "executing", "calling", "forwarded", "answered"}

Branches == {"none", "v1", "v2", "ordinary", "delegate"}

\* builtin: CPA's own route.  The others are host.model.execute callbacks.
Vias == {"builtin", "delegate", "ordinary", "summary"}

\* under: the configuration the call was made under.  judged: the one the latest
\* handler before had loaded, for an executor's call the interceptor.
Calls == [req : Requests, via : Vias, model : Models, items : Seq(Items),
          under : Configs, judged : Configs]

\* invalid_state: HTTP 400.  bridge_failed: HTTP 502.  stream_failed: one
\* response.failed frame.  compact_window: V1's output array.  compact_stream:
\* V2's item and response.completed.  upstream: the model's own answer or error.
AnswerKinds == {"none", "invalid_state", "bridge_failed", "stream_failed",
                "compact_window", "compact_stream", "upstream"}

Answers == [kind : AnswerKinds, items : Seq(Items)]

Plain(kind) == [kind |-> kind, items |-> <<>>]

TypeOK ==
  /\ holder \in Configs \cup {Unset}
  /\ pc \in [Requests -> Phases]
  /\ client \in [Requests -> ClientRequests]
  /\ body \in [Requests -> Bodies]
  /\ cfg \in [Requests -> Configs]
  /\ selfRouted \in [Requests -> BOOLEAN]
  /\ op \in [Requests -> Branches]
  /\ upstream \subseteq Calls
  /\ answer \in [Requests -> Answers]

-----------------------------------------------------------------------------
(* Configuration *)

loaded == IF holder = Unset THEN defaultConfig ELSE holder

Bug_handleLifecycle(raw) ==
  /\ holder' = loadConfig(raw).cfg
  /\ UNCHANGED <<pc, client, body, cfg, selfRouted, op, upstream, answer>>

\* plugin.register and plugin.reconfigure: the store comes last, so a
\* configuration that does not load leaves the active one in place.
handleLifecycle(raw) ==
  /\ holder' = IF loadConfig(raw).ok THEN loadConfig(raw).cfg ELSE holder
  /\ UNCHANGED <<pc, client, body, cfg, selfRouted, op, upstream, answer>>

-----------------------------------------------------------------------------
(* Steps shared by the handlers *)

\* Request r goes from one phase to the next.
Goto(r, from, to) == pc[r] = from /\ pc' = [pc EXCEPT ![r] = to]

LoadConfig(r) == cfg' = [cfg EXCEPT ![r] = loaded]

Answer(r, a) == answer' = [answer EXCEPT ![r] = a]

CallModel(r, via, model, items, under) ==
  upstream' = upstream \cup
    {[req |-> r, via |-> via, model |-> model, items |-> items,
      under |-> under, judged |-> cfg[r]]}

-----------------------------------------------------------------------------
(* CPA and the client *)

clientSends(r, c) ==
  /\ Goto(r, "idle", "routing")
  /\ client' = [client EXCEPT ![r] = c]
  /\ body' = [body EXCEPT ![r] = c.body]
  /\ UNCHANGED <<holder, cfg, selfRouted, op, upstream, answer>>

\* The client's whole request: over a WebSocket, the transcript so far and the
\* new items.
Merged(c) ==
  IF c.body.shape = "array"
  THEN [c.body EXCEPT !.items = c.transcript \o @]
  ELSE c.body

mergeTranscript(r) ==
  /\ Goto(r, "merging", "intercepting")
  /\ body' = [body EXCEPT ![r] = Merged(client[r])]
  /\ UNCHANGED <<holder, client, cfg, selfRouted, op, upstream, answer>>

dispatchBuiltin(r) ==
  /\ Goto(r, "dispatching", "forwarded")
  /\ ~selfRouted[r]
  /\ CallModel(r, "builtin", client[r].model, inputItems(body[r]), cfg[r])
  /\ UNCHANGED <<holder, client, body, cfg, selfRouted, op, answer>>

dispatchExecutor(r) ==
  /\ Goto(r, "dispatching", "executing")
  /\ selfRouted[r]
  /\ \E h \in HandOver :
       body' = [body EXCEPT ![r] = IF h = "client" THEN Merged(client[r]) ELSE @]
  /\ UNCHANGED <<holder, client, cfg, selfRouted, op, upstream, answer>>

upstreamAnswers(r) ==
  /\ Goto(r, "forwarded", "answered")
  /\ Answer(r, Plain("upstream"))
  /\ UNCHANGED <<holder, client, body, cfg, selfRouted, op, upstream>>

-----------------------------------------------------------------------------
(* model.route *)

Bug_shouldBridgeRoute_noTrigger(c) == ~c.stream

Bug_shouldBridgeRoute_always(c) == TRUE

\* Every non-streaming request; a streaming one only for its final trigger, and
\* over a WebSocket only the new items are there to be seen.
shouldBridgeRoute(c) ==
  \/ ~c.stream
  \/ inputReadable(c.body) /\ detectV2Trigger(inputItems(c.body))

handleModelRoute(r) ==
  /\ Goto(r, "routing", "merging")
  /\ LoadConfig(r)
  /\ selfRouted' = [selfRouted EXCEPT ![r] =
       decideRoute(loaded, client[r].model).bridged /\ shouldBridgeRoute(client[r])]
  /\ UNCHANGED <<holder, client, body, op, upstream, answer>>

-----------------------------------------------------------------------------
(* request.intercept_before *)

Bug_interceptorActs(r) ==
  /\ client[r].format = "openai-response"
  /\ TargetOf(loaded, client[r].model) = "bridge"
  /\ inputReadable(body[r])
  /\ hasCompactionItems(inputItems(body[r]))

\* The policy applies only to readable openai-response bodies that carry
\* compaction items.
interceptorActs(r) ==
  /\ client[r].format = "openai-response"
  /\ inputReadable(body[r])
  /\ hasCompactionItems(inputItems(body[r]))

interceptorVerdict(r) ==
  normalizeCompactionState(body[r], TargetOf(loaded, client[r].model))

interceptPasses(r) ==
  /\ Goto(r, "intercepting", "dispatching")
  /\ LoadConfig(r)
  /\ ~interceptorActs(r)
  /\ UNCHANGED <<holder, client, body, selfRouted, op, upstream, answer>>

interceptRewrites(r) ==
  /\ Goto(r, "intercepting", "dispatching")
  /\ LoadConfig(r)
  /\ interceptorActs(r)
  /\ interceptorVerdict(r).verdict = "ok"
  /\ body' = [body EXCEPT ![r] = interceptorVerdict(r).body]
  /\ UNCHANGED <<holder, client, selfRouted, op, upstream, answer>>

Bug_interceptTerminates(r) ==
  /\ Goto(r, "intercepting", "dispatching")
  /\ LoadConfig(r)
  /\ interceptorActs(r)
  /\ interceptorVerdict(r).verdict # "ok"
  /\ Answer(r, Plain("invalid_state"))
  /\ UNCHANGED <<holder, client, body, selfRouted, op, upstream>>

\* Terminate: 400 for a state error, 502 for anything else.
interceptTerminates(r) ==
  /\ Goto(r, "intercepting", "answered")
  /\ LoadConfig(r)
  /\ interceptorActs(r)
  /\ interceptorVerdict(r).verdict # "ok"
  /\ Answer(r, Plain(IF interceptorVerdict(r).verdict \in StateErrors
                     THEN "invalid_state" ELSE "bridge_failed"))
  /\ UNCHANGED <<holder, client, body, selfRouted, op, upstream>>

handleRequestInterceptBefore(r) ==
  interceptPasses(r) \/ interceptRewrites(r) \/ interceptTerminates(r)

-----------------------------------------------------------------------------
(* executor.execute and executor.execute_stream *)

decision(r) == decideRoute(loaded, client[r].model)

detectV1Compact(c) == c.compact /\ ~c.stream

takesV2(r) ==
  /\ ~detectV1Compact(client[r])
  /\ client[r].stream
  /\ inputReadable(body[r]) /\ detectV2Trigger(inputItems(body[r]))

\* The executor issues a host.model.execute callback and waits in branch b.
CallHost(r, b, via, model, items) ==
  /\ Goto(r, "executing", "calling")
  /\ LoadConfig(r)
  /\ op' = [op EXCEPT ![r] = b]
  /\ CallModel(r, via, model, items, loaded)
  /\ UNCHANGED <<holder, client, selfRouted, answer>>

\* The executor returns without a callback.
Return(r, a) ==
  /\ Goto(r, "executing", "answered")
  /\ LoadConfig(r)
  /\ Answer(r, a)
  /\ UNCHANGED <<holder, client, body, selfRouted, op, upstream>>

\* The rules no longer bridge the model: the body goes on as it came.
delegateUnbridged(r) ==
  /\ ~decision(r).bridged
  /\ CallHost(r, "delegate", "delegate", client[r].model, inputItems(body[r]))
  /\ UNCHANGED body

summaryModel(r) == pickSummaryModel(decision(r), client[r].model)

\* What the summary model would be asked: no trigger, no compaction item.
summaryInput(r) ==
  buildSummaryRequestInput(removeLastCompactionTrigger(inputItems(body[r])))

\* Looking for images fails on an entry or a content part that is no object; where
\* the summary model may see images, nothing is looked at.
stripsImages(r) ==
  \/ summaryModelAllowsImages(summaryModel(r), loaded.summaryImageModels)
  \/ \A i \in DOMAIN summaryInput(r).items : ~summaryInput(r).items[i].loose

\* How generateSummary fares up to its callback.
summaryVerdict(r) ==
  IF summaryInput(r).verdict # "ok" THEN "invalid_state"
  ELSE IF stripsImages(r) THEN "ok" ELSE "failed"

requestSummary(r, b) ==
  /\ summaryVerdict(r) = "ok"
  /\ CallHost(r, b, "summary", summaryModel(r), summaryInput(r).items)
  /\ UNCHANGED body

executeV1Compact(r) ==
  /\ decision(r).bridged
  /\ detectV1Compact(client[r])
  /\ \/ ~inputReadable(body[r]) /\ Return(r, Plain("bridge_failed"))
     \/ /\ inputReadable(body[r])
        /\ \/ requestSummary(r, "v1")
           \/ /\ summaryVerdict(r) # "ok"
              /\ Return(r, Plain(IF summaryVerdict(r) = "invalid_state"
                                 THEN "invalid_state" ELSE "bridge_failed"))

Bug_executeStream(r) ==
  decision(r).bridged /\ takesV2(r) /\ requestSummary(r, "v2")

\* A state error leaves as HTTP 400 before any frame, any other as a frame; a
\* stream without its trigger, which the router does not send here, is a 502.
streamFailure(r) ==
  IF ~takesV2(r) THEN "bridge_failed"
  ELSE IF summaryVerdict(r) = "invalid_state" THEN "invalid_state"
  ELSE "stream_failed"

\* V2: the whole reply is buffered before the first frame.
executeStream(r) ==
  /\ decision(r).bridged
  /\ client[r].stream
  /\ \/ takesV2(r) /\ requestSummary(r, "v2")
     \/ /\ ~(takesV2(r) /\ summaryVerdict(r) = "ok")
        /\ Return(r, Plain(streamFailure(r)))

executeOrdinaryBridged(r) ==
  LET result == normalizeCompactionState(body[r], "bridge")
  IN /\ decision(r).bridged
     /\ ~client[r].stream /\ ~detectV1Compact(client[r])
     /\ \/ /\ result.verdict = "ok"
           /\ CallHost(r, "ordinary", "ordinary", client[r].model, inputItems(result.body))
           /\ body' = [body EXCEPT ![r] = result.body]
        \/ /\ result.verdict # "ok"
           /\ Return(r, Plain(IF result.verdict \in StateErrors
                              THEN "invalid_state" ELSE "bridge_failed"))

handleExecute(r) ==
  \/ delegateUnbridged(r)
  \/ executeV1Compact(r)
  \/ executeStream(r)
  \/ executeOrdinaryBridged(r)

-----------------------------------------------------------------------------
(* The callback returns *)

\* error: no envelope, a failed one, a nonzero code or a status >= 400.
\* unusable: extractAssistantText rejects the response.
Replies == [kind : {"error", "unusable", "text"}, text : Texts]

Bug_usableSummary(reply, c) ==
  reply.kind = "text" /\ TextSize[reply.text] <= c.maxSummaryBytes

\* A terminal response with text left after trimming and within the limit.
usableSummary(reply, c) ==
  /\ reply.kind = "text"
  /\ reply.text # Blank
  /\ TextSize[reply.text] <= c.maxSummaryBytes

Bug_compactAnswer(r, reply) ==
  IF usableSummary(reply, cfg[r])
  THEN [kind |-> "compact_window", items |-> Append(inputItems(body[r]), compactionItem(reply.text))]
  ELSE Plain("bridge_failed")

compactAnswer(r, reply) ==
  IF op[r] = "v1"
  THEN IF usableSummary(reply, cfg[r])
       THEN [kind  |-> "compact_window",
             items |-> v1CompactWindow(inputItems(body[r]), reply.text)]
       ELSE Plain("bridge_failed")
  ELSE IF usableSummary(reply, cfg[r])
       THEN [kind |-> "compact_stream", items |-> <<compactionItem(reply.text)>>]
       ELSE Plain("stream_failed")

summaryReturns(r, reply) ==
  /\ op[r] \in {"v1", "v2"}
  /\ Goto(r, "calling", "answered")
  /\ Answer(r, compactAnswer(r, reply))
  /\ UNCHANGED <<holder, client, body, cfg, selfRouted, op, upstream>>

\* Any callback error, an upstream 4xx included, becomes the retryable 502.
delegateReturns(r, reply) ==
  /\ op[r] \in {"ordinary", "delegate"}
  /\ Goto(r, "calling", "answered")
  /\ Answer(r, Plain(IF reply.kind = "error" THEN "bridge_failed" ELSE "upstream"))
  /\ UNCHANGED <<holder, client, body, cfg, selfRouted, op, upstream>>

-----------------------------------------------------------------------------
(* Specifications *)

Init ==
  /\ holder = Unset
  /\ pc = [r \in Requests |-> "idle"]
  /\ client = [r \in Requests |-> CHOOSE c \in Clients : TRUE]
  /\ body = [r \in Requests |-> client[r].body]
  /\ cfg = [r \in Requests |-> defaultConfig]
  /\ selfRouted = [r \in Requests |-> FALSE]
  /\ op = [r \in Requests |-> "none"]
  /\ upstream = {}
  /\ answer = [r \in Requests |-> Plain("none")]

Reconfigure == \E raw \in RawConfigs : handleLifecycle(raw)

Arrive(r) == \E c \in Clients : clientSends(r, c)

\* Every step that CPA, the plugin or an upstream owes a request.
Progress(r) ==
  \/ handleModelRoute(r)
  \/ mergeTranscript(r)
  \/ handleRequestInterceptBefore(r)
  \/ dispatchBuiltin(r)
  \/ dispatchExecutor(r)
  \/ handleExecute(r)
  \/ \E reply \in Replies : summaryReturns(r, reply) \/ delegateReturns(r, reply)
  \/ upstreamAnswers(r)

Next == Reconfigure \/ \E r \in Requests : Arrive(r) \/ Progress(r)

Spec == Init /\ [][Next]_vars

FairSpec == Spec /\ \A r \in Requests : WF_vars(Progress(r))

\* Reconfiguration between requests only.
Quiescent == \A r \in Requests : pc[r] \in {"idle", "answered"}

QuiescentNext ==
  \/ Quiescent /\ Reconfigure
  \/ \E r \in Requests : Arrive(r) \/ Progress(r)

QuiescentSpec == Init /\ [][QuiescentNext]_vars
=============================================================================
