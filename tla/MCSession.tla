------------------------------ MODULE MCSession ------------------------------
(***************************************************************************)
(* Instances of CompactSession for TLC: two models, and two rule sets that *)
(* swap which of them is bridged.                                          *)
(***************************************************************************)
EXTENDS CompactSession

MCTexts == SUBSET (1..(2 * MaxTurns))
MCTextSize == [t \in MCTexts |-> Cardinality(t)]

MCModels == {"glm", "gpt"}
MCGlobMatches == {<<"glm*", "glm">>, <<"gpt*", "gpt">>}

MCClients ==
  {[model |-> "glm", stream |-> FALSE, compact |-> FALSE, format |-> "openai-response",
    transcript |-> <<>>, body |-> [shape |-> "absent", items |-> <<>>]]}

Rule(match, action) == [match |-> match, action |-> action, summaryModel |-> ""]

Raw(rules, bytes) ==
  [kind |-> "decoded",
   cfg  |-> [rules |-> rules, onNoMatch |-> "", maxSummaryTokens |-> 0,
             maxSummaryBytes |-> bytes, summaryImageModels |-> <<>>]]

\* glm is bridged and gpt native; glm native and gpt unmatched.
MCRawConfigs ==
  {Raw(<<Rule("glm*", "bridge"), Rule("gpt*", "passthrough")>>, 4),
   Raw(<<Rule("glm*", "passthrough")>>, 2)}
=============================================================================
