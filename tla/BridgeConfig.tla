---------------------------- MODULE BridgeConfig ----------------------------
(***************************************************************************)
(* The plugin's configuration (plugin/config.go): what loadConfig accepts, *)
(* and what the ordered Bridge Rules decide for a requested model.         *)
(*                                                                         *)
(* Abstractions: YAML decoding over defaultConfig() is done by whoever     *)
(* builds a raw configuration (raw.cfg holds the decoded fields, defaults  *)
(* included); filepath.Match is the relation GlobMatches; the settings     *)
(* that only shape the text of a summary request (prompt, guard, service   *)
(* tier) are left out.                                                     *)
(***************************************************************************)
EXTENDS Integers, Sequences

CONSTANTS
  Models,         \* requested and upstream model names
  NoModel,        \* the empty summary_model
  Globs,          \* match patterns
  GlobMatches,    \* the pairs <<glob, model>> filepath.Match accepts
  BlankGlobs,     \* patterns that are empty or whitespace
  BadGlobs        \* patterns filepath.Match reports as malformed

\* A malformed pattern matches no name.
ASSUME GlobAssumption ==
  /\ NoModel \notin Models
  /\ GlobMatches \subseteq Globs \X Models
  /\ BlankGlobs \subseteq Globs /\ BadGlobs \subseteq Globs
  /\ \A p \in GlobMatches : p[1] \notin BadGlobs

Actions == {"bridge", "passthrough"}

\* Every string YAML can put where an action is expected; "" is unset.
ActionTexts == Actions \cup {"", "other"}

RuleTexts == [match : Globs, action : ActionTexts, summaryModel : Models \cup {NoModel}]

Rules == [match : Globs, action : Actions, summaryModel : Models \cup {NoModel}]

Configs ==
  [rules : Seq(RuleTexts), onNoMatch : ActionTexts \ {""},
   maxSummaryTokens : Int, maxSummaryBytes : Int, summaryImageModels : Seq(Globs)]

maxAllowedSummaryTokens == 100000
defaultMaxSummaryBytes  == 1024 * 1024

defaultConfig ==
  [rules |-> <<>>, onNoMatch |-> "passthrough", maxSummaryTokens |-> 0,
   maxSummaryBytes |-> defaultMaxSummaryBytes, summaryImageModels |-> <<>>]

globMatch(glob, model) == <<glob, model>> \in GlobMatches

-----------------------------------------------------------------------------
(* loadConfig *)

\* on_no_match is defaulted, never validated.
WithDefaults(cfg) ==
  [cfg EXCEPT !.onNoMatch = IF @ = "" THEN "passthrough" ELSE @]

validConfig(cfg) ==
  /\ cfg.maxSummaryTokens \in 0..maxAllowedSummaryTokens
  /\ cfg.maxSummaryBytes > 0
  /\ \A i \in DOMAIN cfg.summaryImageModels :
       cfg.summaryImageModels[i] \notin BlankGlobs \cup BadGlobs
  /\ \A i \in DOMAIN cfg.rules : cfg.rules[i].action \in Actions
                                 /\ cfg.rules[i].match \notin BlankGlobs

Bug_loadConfig(raw) ==
  CASE raw.kind = "empty"     -> [ok |-> TRUE, cfg |-> defaultConfig]
    [] raw.kind = "undecoded" -> [ok |-> FALSE, cfg |-> defaultConfig]
    [] OTHER -> [ok |-> validConfig(raw.cfg), cfg |-> raw.cfg]

\* raw.kind tells an absent configuration, one that does not decode, and one
\* that decodes to raw.cfg.
loadConfig(raw) ==
  CASE raw.kind = "empty"     -> [ok |-> TRUE, cfg |-> defaultConfig]
    [] raw.kind = "undecoded" -> [ok |-> FALSE, cfg |-> defaultConfig]
    [] OTHER -> [ok |-> validConfig(WithDefaults(raw.cfg)), cfg |-> WithDefaults(raw.cfg)]

-----------------------------------------------------------------------------
(* decideRoute *)

MatchingRules(cfg, model) ==
  {i \in DOMAIN cfg.rules : globMatch(cfg.rules[i].match, model)}

\* The first matching rule wins.
WinningRule(cfg, model) ==
  cfg.rules[CHOOSE i \in MatchingRules(cfg, model) :
              \A j \in MatchingRules(cfg, model) : i <= j]

decideRoute(cfg, model) ==
  IF MatchingRules(cfg, model) = {}
  THEN [handled |-> FALSE, bridged |-> FALSE, summaryModel |-> NoModel]
  ELSE LET rule == WinningRule(cfg, model)
       IN [handled      |-> TRUE,
           bridged      |-> rule.action = "bridge",
           summaryModel |-> IF rule.action = "bridge" THEN rule.summaryModel ELSE NoModel]

compactionTargetFor(decision) ==
  CASE decision.handled /\ decision.bridged  -> "bridge"
    [] decision.handled /\ ~decision.bridged -> "explicit_passthrough"
    [] OTHER                                 -> "unmatched_passthrough"

TargetOf(cfg, model) == compactionTargetFor(decideRoute(cfg, model))

\* The rule's summary model, or the requested one.
pickSummaryModel(decision, model) ==
  IF decision.summaryModel = NoModel THEN model ELSE decision.summaryModel

summaryModelAllowsImages(model, imageModels) ==
  \E i \in DOMAIN imageModels : globMatch(imageModels[i], model)
=============================================================================
