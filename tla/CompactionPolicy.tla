-------------------------- MODULE CompactionPolicy --------------------------
(***************************************************************************)
(* The compaction state policy of the bridge (plugin/replay.go), the       *)
(* discriminators it reads from a Responses input item                     *)
(* (plugin/responses.go) and the window a V1 compact answers with          *)
(* (plugin/payload.go).  Everything here is a pure function of a request   *)
(* body and of the route the rules chose; CompactBridge calls it from the  *)
(* route, intercept and execute handlers.                                  *)
(*                                                                         *)
(* Abstractions:                                                           *)
(*  - an item keeps the four fields the bridge decodes (type, role, id,    *)
(*    encrypted_content) and whether its parts are JSON objects; a         *)
(*    message's content is the field of encrypted_content, since the only  *)
(*    content the bridge ever writes is a stored summary;                  *)
(*  - an id is one of four forms: none, foreign, exactly the cpa_compact_  *)
(*    prefix, or the prefix followed by at least one character;            *)
(*  - a text is an element of Texts.  Blank stands for every absent, empty *)
(*    or whitespace-only text: the code looks at it only after TrimSpace;  *)
(*  - a body keeps the shape of its "input" member and its items.          *)
(***************************************************************************)
EXTENDS Naturals, Sequences, FiniteSets

CONSTANTS
  Texts,   \* what encrypted_content or a generated summary can hold
  Blank    \* the text that TrimSpace leaves empty

ASSUME TextsAssumption == Blank \in Texts

-----------------------------------------------------------------------------
(* Input items and request bodies *)

\* "other" stands for every type the bridge never reads, reasoning included, and
\* for an array entry that is no JSON object and so has no type.
ItemTypes == {"message", "compaction", "compaction_trigger", "other"}
Roles     == {"user", "developer", "assistant", "none"}
IdForms   == {"none", "foreign", "prefix_only", "marked"}

\* loose: the entry, or a part of its content array, is neither object nor null.
Items == [type : ItemTypes, role : Roles, id : IdForms, text : Texts, loose : BOOLEAN]

\* The "input" member: an item array; a string, number or object; missing or
\* null; or a body that is not a JSON object at all.
Shapes == {"array", "scalar", "absent", "malformed"}

Bodies == [shape : Shapes, items : Seq(Items)]

isCPACompaction(item) == item.type = "compaction" /\ item.id = "marked"

isCompactionTrigger(item) == item.type = "compaction_trigger"

isCompactionItemAny(item) == item.type = "compaction"

\* A string, an object or a broken body is unreadable; a missing or null input
\* is readable and empty.
inputReadable(body) == body.shape \in {"array", "absent"}

inputItems(body) == IF body.shape = "array" THEN body.items ELSE <<>>

\* Only the last item counts.
detectV2Trigger(items) ==
  items # <<>> /\ isCompactionTrigger(items[Len(items)])

hasCompactionItems(items) ==
  \E i \in DOMAIN items : isCompactionItemAny(items[i])

\* The k-th smallest number in K.
NthOf(K, k) == CHOOSE i \in K : Cardinality({j \in K : j <= i}) = k

\* The items of s at the indices in K, in order: what a loop that skips the
\* other items appends.  (A closed form of SelectSeq, which the provers cannot
\* expand.)
ItemsAt(s, K) == [k \in 1..Cardinality(K) |-> s[NthOf(K, k)]]

Bug_removeLastCompactionTrigger(items) ==
  IF items = <<>> THEN items ELSE SubSeq(items, 1, Len(items) - 1)

removeLastCompactionTrigger(items) ==
  IF detectV2Trigger(items) THEN SubSeq(items, 1, Len(items) - 1) ELSE items

-----------------------------------------------------------------------------
(* The policy *)

Targets == {"explicit_passthrough", "unmatched_passthrough", "bridge"}

mayForwardOpaqueState(target) == target = "explicit_passthrough"

compactionRecordOf(item) ==
  IF ~isCPACompaction(item) THEN "opaque"
  ELSE IF item.text = Blank THEN "corrupt"
  ELSE "plaintext"

RecordsOf(items) ==
  {compactionRecordOf(items[i]) :
     i \in {j \in DOMAIN items : isCompactionItemAny(items[j])}}

StateErrors == {"corrupt_bridge_state", "mixed_state",
                "native_on_bridge", "unruled_native"}

Bug_checkCompactionItems_anyPassthrough(items, target) ==
  IF "corrupt" \in RecordsOf(items) THEN "corrupt_bridge_state"
  ELSE IF {"plaintext", "opaque"} \subseteq RecordsOf(items) THEN "mixed_state"
  ELSE IF "opaque" \in RecordsOf(items) /\ target = "bridge"
       THEN "native_on_bridge"
  ELSE "ok"

Bug_checkCompactionItems_nativeFirst(items, target) ==
  IF "corrupt" \in RecordsOf(items) THEN "corrupt_bridge_state"
  ELSE IF "opaque" \in RecordsOf(items) /\ ~mayForwardOpaqueState(target)
       THEN "native_on_bridge"
  ELSE "ok"

Bug_checkCompactionItems_anyState(items, target) ==
  IF "corrupt" \in RecordsOf(items) THEN "corrupt_bridge_state"
  ELSE IF {"plaintext", "opaque"} \subseteq RecordsOf(items) THEN "mixed_state"
  ELSE IF RecordsOf(items) # {} /\ ~mayForwardOpaqueState(target)
       THEN "native_on_bridge"
  ELSE "ok"

\* Corrupt state is reported before mixed state, mixed before opaque.
checkCompactionItems(items, target) ==
  IF "corrupt" \in RecordsOf(items) THEN "corrupt_bridge_state"
  ELSE IF {"plaintext", "opaque"} \subseteq RecordsOf(items) THEN "mixed_state"
  ELSE IF "opaque" \in RecordsOf(items) /\ ~mayForwardOpaqueState(target)
       THEN IF target = "bridge" THEN "native_on_bridge" ELSE "unruled_native"
  ELSE "ok"

compactToUserMessage(item) ==
  [type |-> "message", role |-> "user", id |-> "none", text |-> item.text, loose |-> FALSE]

\* The rewriting loop, once the check has passed.
rewriteItem(item) ==
  IF isCompactionItemAny(item) /\ compactionRecordOf(item) = "plaintext"
  THEN compactToUserMessage(item)
  ELSE item

rewriteCompactionItems(items) == [i \in DOMAIN items |-> rewriteItem(items[i])]

\* verdict "ok" carries the body to delegate; a malformed body is a decoding
\* error, which is not a state error.
normalizeCompactionState(body, target) ==
  IF body.shape = "malformed" THEN [verdict |-> "undecodable", body |-> body]
  ELSE IF body.shape # "array" THEN [verdict |-> "ok", body |-> body]
  ELSE IF checkCompactionItems(body.items, target) # "ok"
       THEN [verdict |-> checkCompactionItems(body.items, target), body |-> body]
  ELSE [verdict |-> "ok",
        body    |-> [body EXCEPT !.items = rewriteCompactionItems(@)]]

\* Every trigger is dropped, wherever it stands.
nonTriggers(items) ==
  ItemsAt(items, {i \in DOMAIN items : ~isCompactionTrigger(items[i])})

Bug_buildSummaryRequestInput(items) ==
  [verdict |-> checkCompactionItems(items, "bridge"),
   items   |-> rewriteCompactionItems(items)]

\* A summary turn is always checked as a bridge turn.
buildSummaryRequestInput(items) ==
  [verdict |-> checkCompactionItems(nonTriggers(items), "bridge"),
   items   |-> rewriteCompactionItems(nonTriggers(items))]

-----------------------------------------------------------------------------
(* What a compact turn answers with *)

compactionItem(summary) ==
  [type |-> "compaction", role |-> "none", id |-> "marked", text |-> summary, loose |-> FALSE]

Bug_isRetained(item) == item.type \notin {"compaction_trigger", "other"}

Bug_isRetained_anyRole(item) == item.type = "message"

isRetained(item) == item.type = "message" /\ item.role \in {"user", "developer"}

retainedItems(items) == ItemsAt(items, {i \in DOMAIN items : isRetained(items[i])})

\* The "output" array of a V1 compact: retained messages, then the new item.
v1CompactWindow(items, summary) ==
  Append(retainedItems(items), compactionItem(summary))
=============================================================================
