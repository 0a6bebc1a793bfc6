------------------------------ MODULE MCBridge ------------------------------
(***************************************************************************)
(* Instances of CompactBridge for TLC: the item alphabet, the rule sets and *)
(* the workloads.                                                          *)
(***************************************************************************)
EXTENDS BridgeProperties

MCTexts    == {"blank", "short", "long"}
MCTextSize == [t \in MCTexts |-> CASE t = "blank" -> 0 [] t = "short" -> 1 [] t = "long" -> 3]

MCModels == {"glm", "gpt", "glm-mini"}
MCGlobs  == {"glm*", "gpt*", "*", "[", " "}
MCGlobMatches ==
  {<<"glm*", "glm">>, <<"glm*", "glm-mini">>, <<"gpt*", "gpt">>}
    \cup {<<"*", m>> : m \in MCModels}

Item(type, role, id, text) ==
  [type |-> type, role |-> role, id |-> id, text |-> text, loose |-> FALSE]

User      == Item("message", "user", "none", "long")
Assistant == Item("message", "assistant", "none", "long")
Reasoning == Item("other", "none", "foreign", "blank")
Trigger   == Item("compaction_trigger", "none", "none", "blank")
Summary   == Item("compaction", "none", "marked", "short")
Corrupt   == Item("compaction", "none", "marked", "blank")
Opaque    == Item("compaction", "none", "foreign", "short")
Unmarked  == Item("compaction", "none", "prefix_only", "short")
Loose     == [User EXCEPT !.loose = TRUE]

Alphabet == {User, Assistant, Trigger, Summary, Corrupt, Opaque, Unmarked}

Array(items) == [shape |-> "array", items |-> items]
Shaped(shape) == [shape |-> shape, items |-> <<>>]

\* Every array of at most two items, and the longer ones where position tells.
WideBodies ==
  {Array(s) : s \in UNION {[1..n -> Alphabet] : n \in 0..2}}
    \cup {Array(s) : s \in {<<Trigger, User, Trigger>>, <<User, Summary, Trigger>>,
                            <<User, Opaque, Trigger>>, <<Summary, Opaque, Trigger>>,
                            <<Summary, Assistant, User>>, <<Loose>>, <<Summary, Loose, Trigger>>,
                            <<Summary, Reasoning, Summary>>}}
    \cup {Shaped(s) : s \in {"scalar", "absent", "malformed"}}

Http(model, stream, compact, b) ==
  [model |-> model, stream |-> stream, compact |-> compact,
   format |-> "openai-response", transcript |-> <<>>, body |-> b]

WebSocket(model, transcript, b) ==
  [Http(model, TRUE, FALSE, b) EXCEPT !.transcript = transcript]

Foreign(model, stream) ==
  [Http(model, stream, FALSE, Shaped("absent")) EXCEPT !.format = "other"]

\* V1, ordinary and streaming turns with every body; WebSocket continuations
\* whose compaction state only the transcript holds.
WideClients ==
  {Http(m, k[1], k[2], b) : m \in {"glm", "gpt"},
     k \in {<<FALSE, TRUE>>, <<FALSE, FALSE>>, <<TRUE, FALSE>>}, b \in WideBodies}
    \cup {WebSocket(m, t, Array(d)) : m \in {"glm", "gpt"},
            t \in {<<User, Summary>>, <<Opaque>>, <<Summary, Opaque>>, <<Corrupt>>},
            d \in {<<User>>, <<Trigger>>, <<User, Trigger>>, <<Summary>>}}
    \cup {Foreign(m, s) : m \in {"glm", "gpt"}, s \in BOOLEAN}

\* One request of each kind that takes a branch of its own.
NarrowClients ==
  {Http("glm", FALSE, TRUE, Array(<<User, Summary>>)),
   Http("glm", FALSE, FALSE, Array(<<Summary, User>>)),
   Http("gpt", TRUE, FALSE, Array(<<Opaque, Trigger>>)),
   WebSocket("glm", <<Summary>>, Array(<<Trigger>>))}

Rule(match, action, model) == [match |-> match, action |-> action, summaryModel |-> model]

Raw(rules, onNoMatch, bytes) ==
  [kind |-> "decoded",
   cfg  |-> [rules |-> rules, onNoMatch |-> onNoMatch, maxSummaryTokens |-> 0,
             maxSummaryBytes |-> bytes, summaryImageModels |-> <<>>]]

WithImages(raw, globs) == [raw EXCEPT !.cfg.summaryImageModels = globs]

BridgeGlm   == Rule("glm*", "bridge", "glm-mini")
DeclareGpt  == Rule("gpt*", "passthrough", "")
DeclareGlm  == Rule("glm*", "passthrough", "")
BridgeAll   == Rule("*", "bridge", "")
BrokenGlob  == Rule("[", "bridge", "")

Bridging   == Raw(<<BridgeGlm, DeclareGpt>>, "", 1)
NativeGlm  == WithImages(Raw(<<DeclareGlm, BridgeAll>>, "passthrough", 3), <<"gpt*">>)
NoGoodRule == Raw(<<BrokenGlob>>, "other", 3)
BadAction  == Raw(<<Rule("glm*", "other", "")>>, "", 3)
ZeroBytes  == Raw(<<BridgeAll>>, "", 0)
BlankMatch == Raw(<<Rule(" ", "bridge", "")>>, "", 3)
ManyTokens == [Raw(<<BridgeAll>>, "", 3) EXCEPT !.cfg.maxSummaryTokens = maxAllowedSummaryTokens + 1]
BadImages  == WithImages(Raw(<<BridgeAll>>, "", 3), <<"[">>)
Nothing    == [Raw(<<>>, "", 3) EXCEPT !.kind = "empty"]
Garbage    == [Raw(<<>>, "", 3) EXCEPT !.kind = "undecoded"]

MCRawConfigs ==
  {Bridging, NativeGlm, NoGoodRule, Nothing, Garbage}
    \cup {BadAction, BlankMatch, ZeroBytes, ManyTokens, BadImages}

FewRawConfigs == {Bridging, NativeGlm, BadAction, Nothing}

TwoRawConfigs == {Bridging, NativeGlm}
=============================================================================
