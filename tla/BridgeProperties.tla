-------------------------- MODULE BridgeProperties --------------------------
(***************************************************************************)
(* What the bridge promises (docs/compact-protocol.md, CONTEXT.md), stated *)
(* over the states of CompactBridge.  The first group holds however        *)
(* plugin.reconfigure interleaves with the requests in flight, the second  *)
(* when the rules change only between requests.                            *)
(***************************************************************************)
EXTENDS CompactBridge

Sends(c, Test(_)) == \E i \in DOMAIN c.items : Test(c.items[i])

isOpaque(item) == isCompactionItemAny(item) /\ ~isCPACompaction(item)

isResponses(r) == client[r].format = "openai-response"

ClientItems(r) == inputItems(Merged(client[r]))

CallsOf(r) == {c \in upstream : c.req = r}

\* The call went through the state policy: every route but delegateOrdinary for
\* a model the rules no longer bridge, and that one too when CPA hands the
\* executor the intercepted body.
Policed(c) == c.via = "delegate" => "client" \notin HandOver

-----------------------------------------------------------------------------
(* Under reconfiguration at any time *)

\* A bridged upstream never sees Codex compaction state: neither the summary
\* call of a V1 or V2 turn nor an ordinary bridged turn carries any compaction
\* item, and the summary call carries no trigger either, wherever the client
\* put it (buildSummaryRequestInput, executeOrdinaryBridged).
BridgeCallsCarryNoState ==
  \A c \in upstream :
    c.via \in {"summary", "ordinary"} =>
      /\ ~Sends(c, isCompactionItemAny)
      /\ c.via = "summary" => ~Sends(c, isCompactionTrigger)

\* No model is ever sent a cpa_compact_* item: on every route the plugin's own
\* state has become a user message or the request was refused, although route,
\* interceptor and executor may each have read a different configuration.
NoBridgeStateUpstream ==
  \A c \in upstream :
    isResponses(c.req) /\ Policed(c) => ~Sends(c, isCPACompaction)

\* Opaque native state reaches a model, on any route, only if the request's own
\* interceptor read an explicit passthrough rule for that model: an unmatched
\* model is not trusted with it, and neither is a bridged one
\* (mayForwardOpaqueState).  The executor asks again before a summary or an
\* ordinary bridged call but not before delegateOrdinary, so what is said of a
\* call is the rule the policy read, not the rule in force when it is made.
OpaqueOnlyToDeclaredTarget ==
  \A c \in upstream :
    isResponses(c.req) /\ Sends(c, isOpaque) =>
      TargetOf(c.judged, c.model) = "explicit_passthrough"

\* invalid_compaction_state is answered before any upstream call: a request
\* refused by the interceptor or by any executor branch has cost no model call.
RefusedBeforeUpstream ==
  \A r \in Requests :
    answer[r].kind = "invalid_state" => \A c \in upstream : c.req # r

\* What a compact turn installs can always be continued: exactly one compaction
\* item, at the end, holding a readable summary within the limit the executor
\* ran under, and a window every target's policy accepts.
InstalledStateContinues ==
  \A r \in Requests :
    answer[r].kind \in {"compact_window", "compact_stream"} =>
      LET w == answer[r].items
      IN /\ {i \in DOMAIN w : isCompactionItemAny(w[i])} = {Len(w)}
         /\ compactionRecordOf(w[Len(w)]) = "plaintext"
         /\ TextSize[w[Len(w)].text] <= cfg[r].maxSummaryBytes
         /\ \A t \in Targets : checkCompactionItems(w, t) = "ok"

\* A model is sent the client's whole history, in order, with each readable
\* summary in the place of its compaction item: normalizing in the interceptor
\* and again in the executor loses and repeats nothing.
HistoryReachesModel ==
  \A c \in upstream :
    isResponses(c.req) /\ Policed(c) =>
      c.items = rewriteCompactionItems(
                  IF c.via = "summary" THEN nonTriggers(ClientItems(c.req))
                  ELSE ClientItems(c.req))

\* The active configuration is always one loadConfig accepts, whatever sequence
\* of registrations and failed reconfigurations came before.
HeldConfigIsValid == holder # Unset => validConfig(holder)

\* Every request is answered, provided CPA keeps driving it and callbacks
\* return: no configuration change leaves one stranded between two handlers.
EveryRequestAnswered ==
  \A r \in Requests : pc[r] = "routing" ~> pc[r] = "answered"

-----------------------------------------------------------------------------
(* The abstract gate *)

\* Phases the client cannot tell apart are one stage.
StageOf(phase) ==
  CASE phase = "idle"                     -> "idle"
    [] phase \in {"calling", "forwarded"} -> "called"
    [] phase = "answered"                 -> "closed"
    [] OTHER                              -> "open"

Gate == INSTANCE CompactionGate WITH
  stage <- [r \in Requests |-> StageOf(pc[r])],
  asked <- [r \in Requests |-> [items |-> ClientItems(r), responses |-> isResponses(r)]],
  calls <- [r \in Requests |-> {c.items : c \in CallsOf(r)}],
  given <- answer

\* The handlers, however reconfiguration interleaves with them, do nothing but
\* what CompactionGate promises: one question, no call or exactly one, one
\* answer; state that no route may continue is never forwarded, and a history
\* of messages and readable summaries is never refused.
GateKept == Gate!Spec

-----------------------------------------------------------------------------
(* Under reconfiguration between requests *)

\* The state table of docs/compact-protocol.md.
MustRefuse(items, target) ==
  LET has(Test(_)) == \E i \in DOMAIN items : Test(items[i])
      blank(item)  == isCPACompaction(item) /\ item.text = Blank
  IN \/ has(blank)
     \/ has(isCPACompaction) /\ has(isOpaque)
     \/ has(isOpaque) /\ target # "explicit_passthrough"

\* A Responses request is refused exactly when the state table says so for the
\* model's target: whichever of interceptor, V1, V2 or ordinary branch meets it,
\* over HTTP or with its state hidden in a WebSocket transcript.
StateTableDecides ==
  \A r \in Requests :
    pc[r] = "answered" /\ isResponses(r) =>
      (answer[r].kind = "invalid_state"
        <=> MustRefuse(ClientItems(r), TargetOf(cfg[r], client[r].model)))

isCompactTurn(r) ==
  client[r].compact \/ (client[r].stream /\ detectV2Trigger(ClientItems(r)))

\* A compact turn belongs to the bridge exactly when a bridge rule matches: it
\* never reaches the model as it is, and a native or unmatched model's compact
\* turn is never answered by the plugin.
CompactTurnOwned ==
  \A r \in Requests :
    pc[r] = "answered" /\ isCompactTurn(r) =>
      /\ answer[r].kind = "upstream" =>
           TargetOf(cfg[r], client[r].model) # "bridge"
      /\ answer[r].kind \in {"compact_window", "compact_stream", "stream_failed"} =>
           TargetOf(cfg[r], client[r].model) = "bridge"

\* The executor's two fallbacks are never taken: no request reaches it for a
\* model without a bridge rule, and no streaming one without a final trigger.
NoExecutorFallback ==
  /\ \A c \in upstream : c.via # "delegate"
  /\ \A r \in Requests : client[r].stream => answer[r].kind # "bridge_failed"

-----------------------------------------------------------------------------
(* Claims of the documents that the code does not keep *)

\* "never forward Codex compaction protocol items to an upstream that did not
\* produce them": no model under a bridge rule is sent a compaction trigger.
NoTriggerToBridgedModel ==
  \A c \in upstream :
    TargetOf(c.under, c.model) = "bridge" => ~Sends(c, isCompactionTrigger)

\* "only an explicit passthrough rule permits it to continue": opaque state is
\* sent only to a model that has such a rule under the configuration the call is
\* made under.  delegateOrdinary sends it to a model that lost the rule between
\* the interceptor and the executor.
OpaqueOnlyUnderItsRule ==
  \A c \in upstream :
    isResponses(c.req) /\ Sends(c, isOpaque) =>
      TargetOf(c.under, c.model) = "explicit_passthrough"
=============================================================================
