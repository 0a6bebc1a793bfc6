---------------------------- MODULE CompactSession ----------------------------
(***************************************************************************)
(* One Codex session on top of the bridge: the user speaks, the client     *)
(* compacts its history over V1 or V2, on any model, over HTTP or a        *)
(* WebSocket, retries what failed and gives up on what is refused, while   *)
(* the rules may change at any step.                                       *)
(*                                                                         *)
(* The client is external.  How it replaces its history is taken from      *)
(* integration/cpa_test.go (V1 installs the output array, V2 keeps its     *)
(* retained messages and appends the streamed item), how it retries from   *)
(* docs/compact-protocol.md (400 is terminal, 5xx and response.failed are  *)
(* retried).  The bridge's steps are CompactBridge's, with two             *)
(* differences: a request slot is free again once its answer was read, and *)
(* a text is the set of messages it tells of, so that a summary model that *)
(* leaves out nothing answers with the union of what it was sent.          *)
(***************************************************************************)
EXTENDS CompactBridge

CONSTANTS
  MaxTurns,    \* bound: turns that change the history
  MaxRetries,  \* repetitions of a failed or abandoned attempt
  Nobody       \* no request slot

ASSUME CompactSessionAssumption ==
  /\ MaxTurns \in Nat /\ MaxRetries \in Nat
  /\ Nobody \notin Requests
  /\ Texts = SUBSET (1..(2 * MaxTurns)) /\ Blank = {}

VARIABLES
  history,   \* the items the client would send
  said,      \* the number of messages in the conversation
  turns,     \* the turns that changed the history
  turn,      \* the turn under way
  current,   \* the slot of its latest attempt
  attempts   \* the attempts given up so far

sessionVars == <<history, said, turns, turn, current, attempts>>

Turns == [kind : {"none", "message", "v1", "v2"}, model : Models, stream : BOOLEAN,
          socket : BOOLEAN]

SessionTypeOK ==
  /\ TypeOK
  /\ history \in Seq(Items)
  /\ said \in 0..(2 * MaxTurns)
  /\ turns \in 0..MaxTurns
  /\ turn \in Turns
  /\ current \in Requests \cup {Nobody}
  /\ attempts \in 0..MaxRetries

-----------------------------------------------------------------------------
(* What the client sends *)

Message(role, number) ==
  [type |-> "message", role |-> role, id |-> "none", text |-> {number}, loose |-> FALSE]

TriggerItem ==
  [type |-> "compaction_trigger", role |-> "none", id |-> "none", text |-> Blank, loose |-> FALSE]

OpaqueItem(text) ==
  [type |-> "compaction", role |-> "none", id |-> "foreign", text |-> text, loose |-> FALSE]

newItems ==
  CASE turn.kind = "message" -> <<Message("user", said + 1)>>
    [] turn.kind = "v2"      -> <<TriggerItem>>
    [] OTHER                 -> <<>>

\* The request of the turn under way.  A WebSocket carries the new items only.
request ==
  [model |-> turn.model, stream |-> turn.stream, compact |-> turn.kind = "v1",
   format |-> "openai-response",
   transcript |-> IF turn.socket THEN history ELSE <<>>,
   body |-> [shape |-> "array",
             items |-> IF turn.socket THEN newItems ELSE history \o newItems]]

\* The messages a sequence of items tells of, and those a model can read there.
Remembered(items) == UNION {items[i].text : i \in DOMAIN items}

Readable(items) ==
  UNION {items[i].text : i \in {j \in DOMAIN items : ~isCPACompaction(items[j])}}

-----------------------------------------------------------------------------
(* The client's steps *)

NoTurn == [turn EXCEPT !.kind = "none", !.stream = FALSE, !.socket = FALSE]

\* A message goes over HTTP, streaming or not, or a WebSocket; V1 is one HTTP
\* request; V2 streams.
beginTurn(t) ==
  /\ turn.kind = "none" /\ turns < MaxTurns
  /\ t.kind # "none"
  /\ t.kind = "v1" => ~t.stream
  /\ t.kind = "v2" => t.stream
  /\ t.socket => t.stream
  /\ t.kind # "message" => history # <<>>
  /\ turn' = t
  /\ UNCHANGED <<vars, history, said, turns, current, attempts>>

attempt(r) ==
  /\ turn.kind # "none" /\ current = Nobody
  /\ clientSends(r, request)
  /\ current' = r
  /\ UNCHANGED <<history, said, turns, turn, attempts>>

\* The client stops waiting; the request goes on without it.
abandon ==
  /\ current # Nobody /\ pc[current] # "answered"
  /\ attempts < MaxRetries
  /\ current' = Nobody /\ attempts' = attempts + 1
  /\ UNCHANGED <<vars, history, said, turns, turn>>

\* The slot is as it was before the request.
Release(r) ==
  /\ pc' = [pc EXCEPT ![r] = "idle"]
  /\ client' = [client EXCEPT ![r] = CHOOSE c \in Clients : TRUE]
  /\ body' = [body EXCEPT ![r] = (CHOOSE c \in Clients : TRUE).body]
  /\ cfg' = [cfg EXCEPT ![r] = defaultConfig]
  /\ selfRouted' = [selfRouted EXCEPT ![r] = FALSE]
  /\ op' = [op EXCEPT ![r] = "none"]
  /\ upstream' = {c \in upstream : c.req # r}
  /\ answer' = [answer EXCEPT ![r] = Plain("none")]
  /\ UNCHANGED holder

Received(r) == current = r /\ pc[r] = "answered"

EndTurn ==
  /\ turn' = NoTurn /\ current' = Nobody /\ attempts' = 0

Install(items) ==
  /\ history' = items /\ turns' = turns + 1

\* 400: the history stays as it is.
refused(r) ==
  /\ Received(r) /\ answer[r].kind = "invalid_state"
  /\ EndTurn /\ Release(r)
  /\ UNCHANGED <<history, said, turns>>

Bug_failed(r) ==
  /\ Received(r) /\ answer[r].kind \in {"bridge_failed", "stream_failed", "upstream"}
  /\ current' = Nobody /\ attempts' = attempts + 1 /\ UNCHANGED turn
  /\ Release(r)
  /\ UNCHANGED <<history, said, turns>>

\* 502, response.failed, or an error of the model itself.
failed(r) ==
  /\ Received(r) /\ answer[r].kind \in {"bridge_failed", "stream_failed", "upstream"}
  /\ IF attempts < MaxRetries
     THEN current' = Nobody /\ attempts' = attempts + 1 /\ UNCHANGED turn
     ELSE EndTurn
  /\ Release(r)
  /\ UNCHANGED <<history, said, turns>>

conversed(r) ==
  /\ Received(r) /\ answer[r].kind = "upstream" /\ turn.kind = "message"
  /\ Install(history \o newItems \o <<Message("assistant", said + 2)>>)
  /\ said' = said + 2
  /\ EndTurn /\ Release(r)

installsV1(r) ==
  /\ Received(r) /\ answer[r].kind = "compact_window"
  /\ Install(answer[r].items)
  /\ EndTurn /\ Release(r)
  /\ UNCHANGED said

installsV2(r) ==
  /\ Received(r) /\ answer[r].kind = "compact_stream"
  /\ Install(retainedItems(history) \o answer[r].items)
  /\ EndTurn /\ Release(r)
  /\ UNCHANGED said

\* A model compacts for itself: its own state, after the messages retained from
\* what it was sent (V1) or by the client (V2).
installsNative(r) ==
  /\ Received(r) /\ answer[r].kind = "upstream" /\ turn.kind \in {"v1", "v2"}
  /\ \E c \in upstream :
       /\ c.req = r
       /\ Install(Append(retainedItems(IF turn.kind = "v1" THEN c.items ELSE history),
                         OpaqueItem(Readable(c.items))))
  /\ EndTurn /\ Release(r)
  /\ UNCHANGED said

\* A late answer to an attempt the client gave up on.
discarded(r) ==
  /\ current # r /\ pc[r] = "answered"
  /\ Release(r)
  /\ UNCHANGED sessionVars

Receive(r) ==
  \/ refused(r)
  \/ failed(r)
  \/ conversed(r)
  \/ installsV1(r)
  \/ installsV2(r)
  \/ installsNative(r)
  \/ discarded(r)

-----------------------------------------------------------------------------
(* The bridge under the session *)

\* What a callback may bring: an error, a reply that is no finished summary, or
\* one that tells of everything the model was sent.
repliesTo(r) ==
  {[kind |-> "error", text |-> Blank], [kind |-> "unusable", text |-> Blank]}
    \cup {[kind |-> "text", text |-> Readable(c.items)] : c \in {d \in upstream : d.req = r}}

BridgeSteps(r) ==
  \/ handleModelRoute(r)
  \/ mergeTranscript(r)
  \/ handleRequestInterceptBefore(r)
  \/ dispatchBuiltin(r)
  \/ dispatchExecutor(r)
  \/ handleExecute(r)
  \/ \E reply \in repliesTo(r) : summaryReturns(r, reply) \/ delegateReturns(r, reply)
  \/ upstreamAnswers(r)

BridgeMoves(r) == BridgeSteps(r) /\ UNCHANGED sessionVars

Reconfigured == Reconfigure /\ UNCHANGED sessionVars

SessionInit ==
  /\ Init
  /\ history = <<>> /\ said = 0 /\ turns = 0
  /\ turn = [kind |-> "none", model |-> CHOOSE m \in Models : TRUE,
             stream |-> FALSE, socket |-> FALSE]
  /\ current = Nobody /\ attempts = 0

SessionNext ==
  \/ Reconfigured
  \/ \E t \in Turns : beginTurn(t)
  \/ abandon
  \/ \E r \in Requests : attempt(r) \/ BridgeMoves(r) \/ Receive(r)

allVars == <<vars, sessionVars>>

SessionSpec == SessionInit /\ [][SessionNext]_allVars

\* CPA and the models answer, and the client sends what it has begun and reads
\* what it gets.
FairSession ==
  /\ SessionSpec
  /\ \A r \in Requests : WF_allVars(BridgeMoves(r)) /\ WF_allVars(Receive(r))
  /\ WF_allVars(\E r \in Requests : attempt(r))

-----------------------------------------------------------------------------
(* Properties *)

\* Nothing said in the conversation is lost: through any sequence of compactions
\* over V1, V2 or a native model, switches of model and reconfigurations, the
\* history tells of every message so far, and so does what each model is sent.
NothingForgotten ==
  /\ Remembered(history) = 1..said
  /\ \A c \in upstream : c.req = current => 1..said \subseteq Readable(c.items)

hasOpaque(items) == \E i \in DOMAIN items : isCompactionItemAny(items[i]) /\ ~isCPACompaction(items[i])

\* A session that holds no native state is never refused, whatever it compacted
\* and retried before and however the rules changed (invalid_compaction_state is
\* reserved for state the bridge can never continue).
RefusedOnlyForNativeState ==
  \A r \in Requests :
    current = r /\ answer[r].kind = "invalid_state" => hasOpaque(history)

\* Compaction never stacks: at most one compaction item, readable or opaque, is
\* ever in the history, so no sequence of legal turns ends in mixed or corrupt
\* state.
OneStateAtMost ==
  /\ Cardinality({i \in DOMAIN history : isCompactionItemAny(history[i])}) <= 1
  /\ "corrupt" \notin RecordsOf(history)
  /\ \A i \in DOMAIN history : ~isCompactionTrigger(history[i])

\* The messages of the user, of all those said.
Spoken == {n \in 1..said : n % 2 = 1}

\* Compaction keeps what the user wrote and replaces what was answered: through any
\* mix of V1, V2 and native compactions, retries and reconfigurations, and whichever
\* body CPA hands over, the history holds every message of the user as sent, once
\* and in order (compact-protocol.md:26), and no answer of the assistant before the
\* state that summarises it.
UsersWordsKept ==
  /\ \A n \in Spoken : \E i \in DOMAIN history : history[i] = Message("user", n)
  /\ \A m, n \in Spoken : \A i, j \in DOMAIN history :
       history[i] = Message("user", m) /\ history[j] = Message("user", n) =>
         (m < n <=> i < j)
  /\ \A i, j \in DOMAIN history :
       i < j /\ isCompactionItemAny(history[j]) => history[i].role # "assistant"

\* Every turn ends, answered, refused or given up: 502 and response.failed are
\* retried, but no failure the code calls retryable keeps the client busy for ever.
TurnEnds == turn.kind # "none" ~> turn.kind = "none"
=============================================================================
