# TLA+ verification of the Codex compact bridge

The repository is a CPA (CLIProxyAPI) plugin, a Go shared library in `src/plugin/`.
It lets a Codex client run *remote compaction* (replace a long history by a
summary) on a model whose provider does not know the compaction protocol: the
plugin asks an ordinary model for a summary, stores it in the clear in a marked
`compaction` item, and on later turns turns that item back into a user message.
This directory holds TLA+ modules for that program, TLC configurations that check
them, and TLAPS proofs of the safety properties.

## 1. Inventory

| Component | Source | State | Operations |
|---|---|---|---|
| Compaction State Policy | `plugin/replay.go`, `plugin/responses.go` | none | classify items, check them against a target, rewrite them, drop triggers |
| Bridge Rules and configuration | `plugin/config.go` | none | `loadConfig`, `decideRoute`, `globMatch` |
| Active configuration | `plugin/host_store.go` | an atomic pointer | load (default when nil), store |
| Lifecycle | `plugin/main.go` `handleLifecycle` | - | `plugin.register`, `plugin.reconfigure` |
| Model router | `plugin/main.go` `handleModelRoute` | - | claim a request for the executor or leave it |
| Request interceptor | `plugin/interceptor.go` | - | pass, rewrite or terminate a request |
| Executor | `plugin/main.go` `handleExecute` | local to a call | V1 compact, V2 compact, ordinary bridged turn, delegate, refuse a stream |
| Summary request | `plugin/main.go` `buildSummaryRequest` | none | field allowlist, prompt, image placeholders |
| Summary response | `plugin/payload.go` `extractAssistantText` | none | accept or reject the model's reply |
| Host callback | `plugin/host.go` | C buffers | `host.model.execute` |
| Plugin ABI entry | `plugin/main.go` `cliproxyPluginCall` | C buffers | copy a request, dispatch by method name, copy and free an answer |
| Codex session | external | the client's history | send, install a window, retry |
| Failure counter | `scripts/compact-failure-count.sh` | the logs it reads, its counts | select logs, one pass per marker, differences |
| Release workflow | `.github/workflows/release.yml` | tag, artifacts, release | validate, build, look at the tag, create or refresh |
| Other scripts and workflows | `scripts/`, `.github/workflows/` | - | smoke test, release notes, build |

### How they interact

```
client --> CPA --model.route--> router          (loads configuration, 1st time)
           CPA: merges a WebSocket transcript into the new items
           CPA --request.intercept_before--> interceptor      (loads it again)
           not claimed: CPA's built-in route --> model
           claimed:     CPA --executor.execute[_stream]--> executor    (again)
                              executor --host.model.execute--> CPA --> model
                              executor --> answer
plugin.reconfigure --> atomic store                (at any moment of the above)
```

The plugin keeps one piece of shared state, the configuration pointer. Handlers
run concurrently, each on local data after one atomic load. A request is therefore
routed, intercepted and executed under up to three different configurations, and
the items it is judged by may differ too: over a WebSocket the router sees only
the new items, the later handlers see the merged transcript.

### What is hard, and what makes each part correct

* **Policy.** Four kinds of item state (none, readable summary, opaque native
  state, corrupt) against three kinds of target, in a fixed order of checks. Right
  when the state table of `docs/compact-protocol.md` holds on *every* path, and
  when normalizing twice (interceptor, then executor) loses and repeats nothing.
* **Router, interceptor, executor.** Right when no interleaving with
  `plugin.reconfigure` lets compaction state through to a model that must not see
  it, when a refusal costs no model call, and when each request is answered.
* **Compact turns.** Right when what a turn installs can be continued later: a blank or
  oversized summary would make every later turn of the session fail.
* **Configuration.** Right when no sequence of successful and failing reconfigurations
  leaves a configuration active that `loadConfig` would refuse.
* **Summary response.** Right when no unfinished, tool-calling or ambiguous reply
  becomes a summary; two envelope shapes and several status fields combine.
* **Host callback and ABI entry.** Right when every failure shape becomes an error, each
  host buffer is copied before it is freed, exactly once, the plugin's own C memory is given
  back on every path, and no request of less than 4 GiB is shortened on its way through a `C.int`.
* **Summary request.** Right when nothing of the client's request steers the summary call, no
  image goes where it must not, and the history is otherwise untouched.
* **Session.** Right when nothing said is lost, nothing is refused without need and compaction
  never stacks, and when V1 and V2 alike keep every message of the user and no answer, over
  several compactions, retries and switches of model.
* **Failure count and release.** Counts taken by separate passes over growing
  logs; a tag checked early and published late.

`PROJECT.json` lists each hazard at its line, with the properties that would catch it.

## 2. Modules

| Module | Models | Kind |
|---|---|---|
| `CompactionPolicy` | `replay.go`, `responses.go`, the window of `payload.go` | pure operators |
| `BridgeConfig` | `config.go`, `pickSummaryModel`, `summaryModelAllowsImages` | pure operators |
| `CompactBridge` | router, interceptor, executor, lifecycle, active configuration | state machine |
| `CompactionGate` | what a client and the models may rely on, with everything inside left out | abstract specification |
| `BridgeProperties` | what the bridge promises; the refinement mapping to `CompactionGate` | properties |
| `CompactSession` | a Codex client over many turns, composed with `CompactBridge` | state machine, properties |
| `SummaryRequest` | `buildSummaryRequestBody`, `stripSummaryInputImages` in `main.go` | pure operators |
| `SummaryResponse` | `extractSummaryText` and what it calls in `payload.go` | pure operators |
| `HostCall` | `callHost`, `callHostModelExecute` in `host.go` | state machine |
| `PluginCall` | `cliproxyPluginCall`, `cliproxyPluginFree` in `main.go`, composed with `HostCall` | state machine, properties |
| `FailureCount` | `scripts/compact-failure-count.sh` | state machine, properties |
| `ReleaseWorkflow` | `.github/workflows/release.yml` | state machine, properties |
| `MCBridge`, `MCSession`, `MCPluginCall` | alphabets, rule sets, workloads, answers | TLC instances |
| `MCSummary`, `MCSummaryRequest` | every bounded reply or request, and what is promised of it | TLC instances, properties |
| `CompactionPolicyProofs` | lemmas about the policy operators | proofs |
| `BridgeProofs` | `CompactBridge` under any interleaving, and when rules change between requests only | proofs |
| `GateProofs` | `CompactBridge` implements `CompactionGate` | proofs |
| `SessionProofs` | `CompactSession` | proofs |
| `PluginCallProofs` | `HostCall`, and `PluginCall` on top of it | proofs |
| `SummaryProofs` | `SummaryRequest` and `SummaryResponse`, for requests and replies of any length | proofs |
| `FailureCountProofs` | `FailureCount` | proofs |
| `ReleaseProofs` | `ReleaseWorkflow` | proofs |

### From the code to `CompactBridge`

One handler is one action, because after its single `configHolder.load()` it
touches only local data; the lines of TLA+ that follow the load are what it
computes from it. `handleExecute` is cut in two at `host.model.execute`, where it
blocks: `handleExecute` (build and issue the call) and `summaryReturns` /
`delegateReturns` (read the reply). Between the two the configuration may change, and
the executor goes on with the one it loaded (`cfg`).

| Variable | In the code |
|---|---|
| `holder` | `configHolder`; `Unset` is the nil pointer, under which `load` gives `defaultConfig()` |
| `pc` | where CPA stands with the request |
| `client` | the request as sent: model, stream, alt, format, transcript, body |
| `body` | the body CPA holds, then the executor's `OriginalRequest` |
| `cfg` | the local `cfg` of the latest handler |
| `selfRouted` | whether `model.route` answered `TargetSelf` |
| `op` | the executor branch that is waiting |
| `upstream` | every model call made: a history variable, for the properties |
| `answer` | what the client received |

External, and modelled from how the code uses them: the order of CPA's calls
(`mergeTranscript`, `dispatchBuiltin`, `dispatchExecutor`, `upstreamAnswers`), the
client (`clientSends`), the replies of a callback. Which body CPA gives the executor as
`OriginalRequest`, the client's (merged) or the one the interceptor rewrote, is
not decided by this repository; the constant `HandOver` says which may occur. The
theorems hold for either and for both, `bridge_quiescent` checks both, and
`bridge_race` takes the rewritten body, under which the properties exempt no call. With the client's
own body two of them, `NoBridgeStateUpstream` and `HistoryReachesModel`, leave delegated calls out
(`Policed`): what `delegateOrdinary` forwards is then what the client sent.
`OpaqueOnlyToDeclaredTarget` leaves out none under either: of each call it asks for the rule that the
interceptor of the request read (`judged`, recorded with the call beside `under`, the configuration the
call is made under). That rule need not be in force any more when an executor delegates; finding 3 is that case.

### The abstract gate

`CompactionGate` knows no rules, handlers or transports. A question is asked, then refused without a
model hearing of it, or put to a model once, then answered. State that no route may continue
is never sent; what is sent is the history with its summaries restored (without triggers, for a
summary); what may be installed is messages of the history and one readable summary. In
`BridgeProperties`, `Gate` is the instance of it in which the five phases before a call are
one open stage (`StageOf`), and `GateKept` says that `Spec` implements it. A reconfiguration, a
route, a merge or a pass of the interceptor maps to a stutter.

### The request and the reply, in modules of their own

`CompactBridge` sees a callback's return as `error`, `unusable` or `text`. What lies
behind is in three modules. `HostCall` is the road of the
bytes: the host answers with a code and a buffer in its own memory; the plugin copies it,
gives it back, and decodes the copy. Those are actions of their own because handlers run at once
and the host uses returned memory again; `error` in `CompactBridge` is any result of `HostCall`
whose error is not `none`. `SummaryResponse` is what the bytes say:
`summaryOf` answers `ok` with a text, or a reason; `unusable` is any reason that
`extractAssistantText` gives, and `usableSummary` is the rest (blank after trimming, too long).
`SummaryRequest` is what is asked: members that survive, placeholders for images, the
instruction. `CompactBridge` keeps of it that the items go on and when it fails (`stripsImages`).

### The C boundary

`PluginCall` puts `HostCall` inside a call of the plugin: CPA calls, the plugin copies the request
(`copyRequest`, where a length that is negative as a `C.int` ends the process in Go's `C.GoBytes`), the
handler runs, perhaps with a callback (`callHost`, whose steps are those of `HostCall`, and
`hostCallReturns`, with its deferred free), an executor answers with the body it got, an error, or for a
compact stream an ok envelope around one `response.failed` frame (`Failures`), the answer goes into C memory (`writeResponse`), CPA reads
it and frees it. `Word` is the number of values of a `C.int`; a length is any number, and is narrowed as the
code narrows it. Which method a call names, and what its
handler decides, is a choice.

### The session

`CompactSession` is an external client over the bridge. A turn says something or compacts over V1 or V2,
on any model, over HTTP or a WebSocket; an attempt that fails with 502, `response.failed` or an
error of the model is repeated, one that is abandoned goes on without the client (`abandon`,
`discarded`), a 400 ends the turn (`docs/compact-protocol.md`). V1 installs the output array, V2 keeps
the client's retained messages and appends the streamed item (`integration/cpa_test.go`); a
native model leaves its own opaque item. The rules may change at any step. A text is the set of
messages it tells of, and a summary model that leaves nothing out answers with the union of what it
could read: so what is lost by the *bridge* shows, and what a model leaves out does not.

### The scripts

`FailureCount` takes the passes of the counter one by one, and each pass log by log in no given order
(`grep` reads the logs by name, `count_pattern` closes the pass), while CPA writes or rotates a log at any
of these steps; two rows are differences of passes, as in the script. A line is the marker it holds, its log and its number,
and a pass keeps the set of lines it has counted, so that the proofs can compare passes line by line; the script keeps
the size of that set (`count`). `ReleaseWorkflow` runs
the jobs of `release.yml` for several pushes at once; any step may fail, a run may be
repeated whole or its failed jobs only, the tag may move. An archive is the build that made it,
since two builds of a commit need not have the same bytes.

### What the data keeps

An item keeps the fields the bridge decodes. An id has one of four forms, since
`isCPACompaction` tells only "prefix and at least one more character" from the rest. A
text is a model value with a size; `Blank` stands for all that `TrimSpace` empties. A
body keeps the shape of its `input` member. `filepath.Match` is a relation, with
malformed patterns that match nothing. A raw configuration is what YAML decoding
over the defaults yields.

## 3. Runs

| Run | Specification | Checks | Shows |
|---|---|---|---|
| `bridge_race` | `Spec` | `TypeOK`, `BridgeCallsCarryNoState`, `NoBridgeStateUpstream`, `OpaqueOnlyToDeclaredTarget`, `RefusedBeforeUpstream`, `InstalledStateContinues`, `HistoryReachesModel`, `GateKept` | every kind of request, with the configuration replaced between any two of its steps |
| `bridge_quiescent` | `QuiescentSpec` | `StateTableDecides`, `CompactTurnOwned`, `NoExecutorFallback`, `HeldConfigIsValid` | the documented table and ownership, all configurations, both hand-overs |
| `bridge_liveness` | `FairSpec` | `EveryRequestAnswered` | two requests at once under endless reconfiguration |
| `session` | `FairSession` | `SessionTypeOK`, `NothingForgotten`, `RefusedOnlyForNativeState`, `OneStateAtMost`, `UsersWordsKept`, `TurnEnds` | four turns, retries, late answers, changing rules |
| `summary_request` | `RequestSpec` | `ImagesStayBehind`, `NothingElseChanges`, `InstructionEndsInput`, `ClientControlsStay` | every bounded history, and every setting |
| `summary_response` | `MCSummary!Spec` | `AcceptsExactlyFinished`, `SummaryIsAllThatWasSaid`, `ReasonIsTrue` | every bounded reply, in one step each |
| `plugin_call` | `AbiSpec` | `BuffersReturned`, `ReplyIsOwn`, `NothingLeaks`, `AnswerIsOwn`, `RequestIsWhole` | two calls of the plugin at once, with callbacks, again and again |
| `failure_count` | `FailureCount!Spec` | `NeverInflated`, `ErrorIsBounded` | one run of the script over logs that grow under it, at any step of a pass |
| `release_workflow` | `ReleaseWorkflow!Spec` | `OnlyFromMain`, `WholeWhenDone` | two runs of the workflow, failures, re-runs, a tag that moves |
| `opaque_under_rule` | `Spec` | `OpaqueOnlyUnderItsRule` (violated) | finding 3 |
| `trigger_forwarded` | `QuiescentSpec` | `NoTriggerToBridgedModel` (violated) | finding 1 |
| `image_in_tool_output` | `RequestSpec` | `NoImageAnywhere` (violated) | finding 2 |

### Bounds

**Bridge.** One request in the safety runs: requests share nothing but `holder`, and
no handler writes it, so another request in flight changes nothing a property about one
request can see (lemma `OthersUntouched` of `BridgeProofs` is this fact, proved).
Bodies: every array of at most two items over seven item kinds (user,
assistant, trigger, readable, corrupt, opaque, and a compaction whose id is the bare
prefix), longer ones where position matters (a trigger that is not last, two
triggers, two summaries, a summary before a trigger), an entry with a part that is no object,
and the three other shapes of `input`. The policy looks at the set of record kinds and at the
last item only, so a third item of a kind brings no new case. Transports: V1, ordinary and streaming,
and WebSocket turns whose compaction state is in the transcript only. Texts: blank,
short (within the limit) and long (over it under one configuration, exactly at it under the
other). Configurations: bridge before passthrough, passthrough before a wide bridge
rule, a rule with a malformed pattern, the empty configuration, and one refused by each
check of `loadConfig`, as well as one that does not decode. `bridge_race` and `bridge_liveness` take
the subset that changes targets, because there a configuration may change at each step.

**Session.** Four turns that change the history: enough to say something,
compact it, compact that again on the other transport or model, and go on. Two models; two
rule sets, under which a model is bridged, native or unmatched in turn, with limits of four and two
messages on a summary, which a longer history exceeds. One retry: after it, an attempt that fails
and one given up on have both been repeated and have both been the last. One request slot: a late answer occupies it,
so attempts do not overlap in the instance; in the proofs any number do.

**Summary request and reply.** Histories of up to two items with up to two parts, of every shape in which a part brings an
image; every setting and every subset of the client's members. Replies with up to
two output items of up to two parts
(two are enough for the order of texts and of faults), under every status and every form of
`incomplete_details`; Chat replies with up to two choices; each combination of absent,
scalar, ill-typed and empty members. What a finished reply is, what the assistant said and when a
reason is true are defined from the members of the reply, without the order in which
the code looks at them.

**C boundary.** Two callers, two cells on each side, so that a
cell given back by one is taken for another's answer; one payload for each level at
which a callback can fail, status 399 and 400, a buffer without bytes; a `C.int` of eight values, the
two lengths beside its sign bit, and one that wraps to a short positive length. Callers, addresses and cells are symmetric.

**Scripts.** Two logs and two lines: one for a row and one for what is subtracted from it, at any
two moments. Two runs of the workflow, two pushes, three commits of which one is not on main, two platforms
and four builds, so that each run can build everything, or one of them again what it had built.

**Deadlock.** Checked in every run but the three of a single step: `summary_response`,
`summary_request` and `image_in_tool_output` end when the one reply or request is judged. In the others a
reconfiguration, a re-run or another call remains possible; a counter that has ended and a process that has crashed
stutter by an explicit action (`finished`, the second disjunct of `AbiNext`).

### Fairness

`FairSpec` asks weak fairness of `Progress(r)` for each request: CPA goes on
driving a request that it has accepted, a handler returns (none of them waits or
retries), and `host.model.execute` returns. The first and the last are CPA's
promises (it times out its own upstream calls); the plugin adds no wait of its own. Clients and
reconfigurations have no fairness: neither is owed. Strong fairness is not needed, since
a request's step, once possible, stays possible until it is taken.

`FairSession` asks the same of `BridgeMoves(r)`, and of the client that it reads an answer that has
arrived (`Receive(r)`) and sends the request of a turn it has begun (`attempt`). The user may stop
talking at any time: `beginTurn` has no fairness. `TurnEnds` then rests on the client's count of
retries alone, since no answer of the bridge says that a failure is final but a 400.

### Two specifications of the bridge

The table of `docs/compact-protocol.md` speaks of *the*
target of a request. When rules change in the middle of a request the code may judge
it by two targets, so the exact table is stated where the rules change only
between requests (`QuiescentSpec`). What must hold even then, that no state leaks and
nothing is lost, is stated under `Spec`.

### Which body the executor is given

With the intercepted body, `NothingForgotten` holds
through every reconfiguration (and is proved), but a session that was compacted before has its previous summary as
a *user message* by the time the executor builds a V1 window: V1 retains it beside the new
summary, V2 does not, and the two windows differ by that message. `CONTEXT.md:57` describes them as converging. With the client's
own body the windows are the same, but a reconfiguration between interceptor and
executor sends the body of a delegated request on as the client sent it, with a summary its model cannot read.
Which body CPA hands over is not this repository's to decide, so neither is listed as a
finding; each run names the assumption it is made under (`HandOver` in its `.cfg`). What the two
transports have in common is `UsersWordsKept`: every message of the user as sent, once and in
order, and no answer before the state that summarises it. The run checks it under the intercepted body; the theorem
holds whichever body CPA hands over.

### What is true of the counter and the release

A row of the failure count never exceeds the lines of its own marker, because what is subtracted is counted later
than what it is subtracted from; it may fall short, below zero even, by the lines that arrive
between passes. A log removed between two passes breaks the first, and the properties
exclude it. A release is of one piece if the tag was pushed once, as `CONTRIBUTING.md:88` demands; if it is moved
while a run publishes, archives of one commit may stand beside notes of another, but still nothing from outside main.

## 4. Findings

1. `NoTriggerToBridgedModel`. `CONTRIBUTING.md:66-67` says never to forward compaction
   protocol items to an upstream that did not produce them, and `scripts/README.md:7`
   expects a trigger that is not last to be refused with 400. The policy reads only items
   of type `compaction`: a trigger in a non-streaming ordinary turn, or one that is not
   last in a streaming turn, is sent on to the bridged model and nothing is refused.
   `docs/release-runbook-v0.1.4.md:183` agrees with the code, so it is the other two documents that are out of date.
2. `NoImageAnywhere`. `docs/configuration.md:35` says that every `input_image` part is replaced in a summary
   request. `stripSummaryInputImages` (`main.go:533`) looks into `content` arrays only: an image in the
   `output` array of a tool's result goes to a summary model that is not listed for images.

3. `OpaqueOnlyUnderItsRule`. `docs/compact-protocol.md:61` says of opaque native state that "only an explicit `passthrough`
   rule permits it to continue". A request that is routed as bridged, intercepted under a passthrough rule and
   executed when no rule matches its model is forwarded with its opaque state by `delegateOrdinary`
   (`main.go:244-247`), which does not ask the policy again. It takes two reconfigurations inside one request.
   What does hold is that the interceptor read such a rule (`OpaqueOnlyToDeclaredTarget`).

Noted without a run: `docs/configuration.md:23` says that `on_no_match` accepts only
`passthrough`, and `loadConfig` (`config.go:63`) accepts any string there, and then ignores it.

## 5. Proofs

TLAPS proves the following for every set of requests, items, texts, rules and models, for every memory,
every number of platforms, turns and retries.

| Theorem | Says |
|---|---|
| `TypeCorrect`, `Inductive` | `Spec => []TypeOK`, `Spec => []IInv` |
| `BridgeCallsClean` | a summary call or a bridged ordinary call carries no compaction item, a summary call no trigger |
| `BridgeStateContained` | the plugin's own items reach no model |
| `OpaqueContained` | opaque state goes, on any route, only to a model for which the interceptor of that request read an explicit passthrough rule |
| `HistoryPreserved` | each call carries the whole history, in order, each summary restored once |
| `RefusalIsFree` | a refused request has made no call |
| `InstalledIsUsable` | what a compact turn installs can be continued on every target |
| `ConfigStaysValid` | the active configuration is always valid |
| `GateImplemented` | `Spec` implements `CompactionGate`, if the executor is given the intercepted body |
| `TableDecides` | between-requests rules: a request is refused exactly when the state table says so |
| `TurnsOwned` | between-requests rules: a Codex compact turn is the bridge's exactly when a bridge rule matches |
| `FallbacksUnused` | between-requests rules: the executor's two fallbacks are never taken |
| `QuiescentInductive` | their invariant, `QInv` |
| `SessionTyped` | a session's variables keep their types |
| `NeverRefused` | a session without native state is never refused |
| `OneState` | a history holds at most one compaction item, none corrupt, and no trigger |
| `Remembers` | nothing said is lost, if the executor is given the intercepted body |
| `WordsKept` | every message of the user stays in the history, once and in order, and no answer before the state that summarises it |
| `SessionInductive` | their invariant, `SInv` |
| `MemoryReturned`, `OwnReply`, `CallInductive` | callbacks alone: host memory is in use exactly while one caller holds it, a call returns the body of its own, successful answer |
| `NoLeak` | calls with callbacks inside: no memory on either side is lost, shared or freed twice |
| `OwnAnswer` | CPA reads the answer to its own call: of an executor, the body of its successful callback, an error, or of a stream `response.failed` |
| `WholeRequest` | a handler never reads past its request, and one shorter than `Word` reaches it whole or ends the process |
| `CallbacksHold`, `AbiInductive` | the callbacks keep their properties inside calls; the invariant `AbiInv` |
| `NothingFromElsewhere` | nothing built outside main is ever published |
| `ReleaseIsWhole` | with one push, a run that succeeds leaves a release of one piece |
| `NoImageSent`, `HistoryKept` | a summary request of any length: images of content arrays stay behind, nothing else changes |
| `EndsWithInstruction`, `OwnControls` | under any settings and for any client members: one instruction at the end, only three members survive |
| `AcceptedIsFinished` | a reply of any length is stored exactly when it is a finished one that says a word that fits |
| `StoredIsSaid` | what is stored is all the assistant said, in order, but for the space around it |
| `ReasonGivenIsTrue` | the reason for refusing a reply is true of it |
| `RunRequests`, `RunReplies` | what the runs enumerate is among what these are about |
| `RowsNeverInflated`, `RowsNearlyExact` | a row of the counter exceeds no count of its own lines, and misses at most the lines that came meanwhile |
| `CounterInductive` | their invariant, `CounterInv` |

### The invariants

None of the properties is inductive.

**`IInv`** is `TypeOK`, the validity of the
active configuration (in `ConfigStaysValid`), and for each request:

* *Spending*: a request that has not been dispatched has no call, so a refusal is free;
* *Carried*: the body held is the client's whole history, or that history rewritten
  by the policy; after the interceptor, with readable compaction state, the latter;
* *Sound*: each call made satisfies what the properties say of it;
* *Installed*: an answer that installs a window satisfies `InstalledStateContinues`.

*Carried* is the heart: it is what survives a change of rules between interceptor and
executor, since a body rewritten under any rules has no readable state left in it and rewriting
again changes nothing (`RewriteAgain`), and since dropping triggers and
rewriting commute (`TriggersAfterRewrite`). The policy facts are in
`CompactionPolicyProofs`; the ones about loops that skip items, `NthOfFacts` and `ItemsAtAll`, are proved by
counting.

**`QInv`** adds, for each request in flight, what has been decided of it (`Decided`): the configuration it was
judged by is still the active one, it was claimed exactly if the rules bridge it, what the interceptor let pass the table
does not refuse, the body is the client's, restored or not, and the branch that waits is the one its
transport calls for. `AcceptedAgain` is the lemma behind it: a history that the check accepts is accepted again after rewriting
and after triggers are dropped.

**`SInv`** adds to `IInv`, for each slot, that a refusal is for a record in the request some target must refuse
(`Deserved`), and for the session that the awaited request is the one of its turn (`Bound`) and the history
is tidy (`Tidy`: no corrupt item, no trigger, one compaction item at most). `MInv` adds that the history
tells of everything said, and that a compact answer tells of all that its request told (`Whole`), from the
sound calls of `IInv`: what the summary model reads is the history restored, without its triggers.
`WInv` adds instead that the history holds the user's words in order, and that each readable summary tells of an answer, so that
restoring it never makes a message of the user's of it (`Words`). A compact answer is the messages retained of what the executor was
handed, and one item (`Whole`); filtering, restoring and adding keep the words (`FilterWords`, `RestoreWords`, `AddWords`), because
they keep their places in order (`SameWords`).

**`AbiInv`** is ownership: each cell in use is held by exactly one call (`Owned`), a callback runs inside the stage that
makes it, an answer passes on a body only if its callback succeeded, and what CPA finds behind its pointer is that answer until it
frees it. A step of one call touches only memory that is free or that
it holds itself, so no other call's knowledge changes (`OthersKeep`; `OthersStep` for callbacks alone).

**`RInv`** says of each run that what it built is of its commit, that it went on from validation only with a
commit of main and from the look at the tag only with all archives, and, while there was one push, that what it has
uploaded is on the release.

**`CounterInv`** compares the passes line by line: a pass has counted only lines of its own markers that are
there (`CountsOnlyItsOwn`), it misses only lines that came late (`MissesOnlyLate`), and a line
counted by a pass is counted by each later one it also fits (`CountedAgain`). The last is what makes a difference safe: what is
subtracted was looked for later, so it can only be more. The rows then follow by counting finite sets.

**The summary's loops.** The code collects the text of a reply in nested loops that skip what does not count;
the property concatenates the texts of all parts. `SummaryProofs` proves them equal for every length: such a loop exists and is unique
(`LoopExists`, `LoopUnique`), flattening is one (`FlattenIsLoop`), and one that skips empty texts agrees with one that
does not (`SkippingLoop`). The induction is by the least counterexample in a set of numbers (`NatSetInduction`, from the
well-foundedness of `<`), not by a rule over a predicate. Each step of the code after that is a case of `Judged`, which says of a
verdict what the three properties need.

### Assumptions

`TextsAssumption`, `GlobAssumption`, `CompactBridgeAssumption`: some text is blank; the match relation relates
patterns to models and a malformed pattern to none; clients send well-typed requests; texts have a size; a raw
configuration is well typed once defaulted. `CompactSessionAssumption`: a text is a set of message
numbers, the blank one tells of none. `HostCallAssumption`, `PluginCallAssumption`, `WrittenAssumption`: nil is no address, no cell and
nothing that is written; a free cell of the host holds no payload; a body is not the mark of a missing or a failed one; lengths are
numbers, without a bound.
`ReleaseWorkflowAssumption`: main's commits are commits, "checksums" is no platform.
`FailureCountAssumption`: its bound is a number. `SummaryBounds`, `RequestBounds`: so are the lengths the two
summary runs enumerate; the theorems about any reply or request do not use them. TLC evaluates each of them in the runs of its module.

Three theorems have a hypothesis. `GateImplemented` and `Remembers` assume that CPA hands the executor the intercepted
body. `TurnsOwned` assumes `CodexClients`: `detectV1Compact` does not know a streaming V1 compact and the router
sees only new items, so a client that streamed one, or opened a WebSocket turn without items, would not be
served as the theorem says; Codex does neither.

### Only model-checked

`EveryRequestAnswered` and `TurnEnds`: liveness under fairness is out of the prover's
reach, as is `ENABLED`. Every other property of a passing run is stated by a theorem. The specifications the summary
theorems are about, `AnyRequestSpec` and `AnyReplySpec`, are those of the runs without their bounds (`RunRequests` and `RunReplies`
relate them); in them a part, an item, a member and a prompt have every shape, and a sequence every length, that the model has.

## 6. Not modelled

* Prompt text, model names in logs, error wording, SSE bytes: data no
  property tells apart.
* YAML decoding, JSON decoding, `filepath.Match`: libraries, taken by what they answer.
* `cliproxy_plugin_init` (one pointer stored before any call) and `cliproxyPluginShutdown` (empty).
* A callback's answer too long for a `C.int` (`host.go:147`); memory exhaustion; a panic in a handler.
* An RPC envelope that does not decode (`main.go:199`, `main.go:239`, `interceptor.go:21`): the handler answers an error
  before it loads a configuration, and CPA wrote the envelope itself.
* `scripts/release-notes.sh`: a sort of version tags and an awk program over a changelog, without state; in `ReleaseWorkflow` its
  result is the notes of a commit. The options and the output file of the failure count.
* The Linux build workflow and the smoke
  script: straight-line commands. The integration tests: read as evidence for CPA's
  call order and the client, not modelled.

## 7. What is left

* Which body CPA hands the executor: once the host settles it, `HandOver` is a constant no more, and one of the two results above
  becomes unconditional, the other a finding.
