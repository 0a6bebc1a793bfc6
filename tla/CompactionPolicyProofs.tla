----------------------- MODULE CompactionPolicyProofs -----------------------
(***************************************************************************)
(* What the compaction state policy computes, for every item sequence.     *)
(* The lemmas are the interface through which BridgeProofs uses the policy:*)
(* after them no proof looks inside a body again.                          *)
(***************************************************************************)
EXTENDS CompactionPolicy, FiniteSetTheorems, TLAPS

-----------------------------------------------------------------------------
(* Skipping items *)

\* NthOf enumerates a set of indices from the smallest to the largest.
LEMMA NthOfFacts ==
  ASSUME NEW n \in Nat, NEW K \in SUBSET (1..n)
  PROVE  /\ Cardinality(K) \in Nat
         /\ \A k \in 1..Cardinality(K) : NthOf(K, k) \in K
         /\ \A k, l \in 1..Cardinality(K) : k < l => NthOf(K, k) < NthOf(K, l)
         /\ \A i \in K : \E k \in 1..Cardinality(K) : NthOf(K, k) = i
<1> DEFINE size    == Cardinality(K)
           upTo(i) == {j \in K : j <= i}
           rank    == [i \in K |-> Cardinality(upTo(i))]
<1>0. \A i \in K : i \in Int
  OBVIOUS
<1>1. IsFiniteSet(K) /\ size \in Nat
  <2>1. IsFiniteSet(1..n)
    BY FS_Interval
  <2>2. IsFiniteSet(K)
    BY <2>1, FS_Subset
  <2> QED BY <2>2, FS_CardinalityType
<1>2. \A i \in K : /\ IsFiniteSet(upTo(i))
                   /\ rank[i] \in 1..size
  <2> SUFFICES ASSUME NEW i \in K
               PROVE  IsFiniteSet(upTo(i)) /\ Cardinality(upTo(i)) \in 1..size
    OBVIOUS
  <2>1. upTo(i) \in SUBSET K /\ i \in upTo(i)
    BY <1>0
  <2>2. IsFiniteSet(upTo(i)) /\ Cardinality(upTo(i)) <= size
    BY <2>1, <1>1, FS_Subset
  <2>3. Cardinality(upTo(i)) \in Nat /\ Cardinality(upTo(i)) # 0
    BY <2>1, <2>2, FS_EmptySet, FS_CardinalityType
  <2> QED BY <2>2, <2>3, <1>1
<1>3. \A i, j \in K : i < j => rank[i] < rank[j]
  <2> SUFFICES ASSUME NEW i \in K, NEW j \in K, i < j
               PROVE  Cardinality(upTo(i)) < Cardinality(upTo(j))
    OBVIOUS
  <2>1. upTo(i) \in SUBSET upTo(j) /\ j \in upTo(j) /\ j \notin upTo(i)
    <3>1. \A k \in K : k <= i => k <= j
      BY <1>0
    <3>2. j <= j /\ ~(j <= i)
      BY <1>0
    <3> QED BY <3>1, <3>2
  <2>2. IsFiniteSet(upTo(j)) /\ upTo(i) # upTo(j)
    BY <2>1, <1>2
  <2>3. /\ Cardinality(upTo(i)) <= Cardinality(upTo(j))
        /\ Cardinality(upTo(i)) # Cardinality(upTo(j))
    BY <2>1, <2>2, FS_Subset
  <2>4. Cardinality(upTo(i)) \in Int /\ Cardinality(upTo(j)) \in Int
    BY <1>2, FS_CardinalityType
  <2> QED BY <2>3, <2>4
<1>t. rank \in [K -> 1..size]
  BY <1>2
<1>i. \A i, j \in K : rank[i] = rank[j] => i = j
  <2> SUFFICES ASSUME NEW i \in K, NEW j \in K, rank[i] = rank[j], i # j
               PROVE  FALSE
    OBVIOUS
  <2>1. i < j \/ j < i
    BY <1>0
  <2>2. rank[i] \in Int /\ rank[j] \in Int
    BY <1>t
  <2> HIDE DEF rank
  <2> QED BY <2>1, <2>2, <1>3
<1>4. rank \in Surjection(K, 1..size)
  <2>3. rank \in Injection(K, 1..size)
    BY <1>t, <1>i DEF Injection, IsInjective
  <2>4. IsFiniteSet(1..size) /\ Cardinality(1..size) = size
    BY <1>1, FS_Interval
  <2> HIDE DEF rank
  <2> QED BY <2>3, <2>4, FS_Injection
<1>5. \A k \in 1..size : \E i \in K : Cardinality(upTo(i)) = k
  BY <1>4 DEF Surjection
<1>6. \A k \in 1..size : NthOf(K, k) \in K /\ rank[NthOf(K, k)] = k
  BY <1>5 DEF NthOf
<1>7. ASSUME NEW k \in 1..size, NEW l \in 1..size, k < l
      PROVE  NthOf(K, k) < NthOf(K, l)
  <2>1. /\ NthOf(K, k) \in K /\ NthOf(K, l) \in K
        /\ rank[NthOf(K, k)] = k /\ rank[NthOf(K, l)] = l
    BY <1>6
  <2>2. \/ NthOf(K, k) < NthOf(K, l)
        \/ NthOf(K, k) = NthOf(K, l)
        \/ NthOf(K, l) < NthOf(K, k)
    <3>1. NthOf(K, k) \in Int /\ NthOf(K, l) \in Int
      BY <1>0, <2>1
    <3> QED BY <3>1
  <2> HIDE DEF rank
  <2>3. NthOf(K, l) < NthOf(K, k) => l < k
    BY <2>1, <1>3
  <2> QED BY <1>1, <1>7, <2>1, <2>2, <2>3
<1>8. ASSUME NEW i \in K
      PROVE  \E k \in 1..size : NthOf(K, k) = i
  <2>1. rank[i] \in 1..size
    BY <1>t
  <2>2. NthOf(K, rank[i]) \in K /\ rank[NthOf(K, rank[i])] = rank[i]
    BY <2>1, <1>6
  <2> HIDE DEF rank
  <2> QED BY <2>1, <2>2, <1>i
<1> QED BY <1>1, <1>6, <1>7, <1>8

\* ItemsAt keeps one item for each index of K: the loops of
\* buildSummaryRequestInput and v1CompactResponseBody keep exactly the items
\* their condition lets through, in their order (NthOfFacts).
LEMMA ItemsAtFacts ==
  ASSUME NEW S, NEW s \in Seq(S), NEW K \in SUBSET (DOMAIN s)
  PROVE  /\ ItemsAt(s, K) \in Seq(S)
         /\ Cardinality(K) \in Nat
         /\ DOMAIN ItemsAt(s, K) = 1..Cardinality(K)
         /\ \A k \in DOMAIN ItemsAt(s, K) : /\ NthOf(K, k) \in K
                                            /\ ItemsAt(s, K)[k] = s[NthOf(K, k)]
<1>1. DOMAIN s = 1..Len(s) /\ Len(s) \in Nat
  OBVIOUS
<1>2. Cardinality(K) \in Nat /\ \A k \in 1..Cardinality(K) : NthOf(K, k) \in K
  BY <1>1, NthOfFacts
<1>3. \A i \in K : s[i] \in S
  OBVIOUS
<1>4. ItemsAt(s, K) \in [1..Cardinality(K) -> S]
  BY <1>2, <1>3 DEF ItemsAt
<1>5. \A k \in 1..Cardinality(K) : ItemsAt(s, K)[k] = s[NthOf(K, k)]
  BY DEF ItemsAt
<1> QED BY <1>2, <1>4, <1>5

\* And it leaves out none of those.
LEMMA ItemsAtAll ==
  ASSUME NEW S, NEW s \in Seq(S), NEW K \in SUBSET (DOMAIN s), NEW i \in K
  PROVE  \E k \in DOMAIN ItemsAt(s, K) : ItemsAt(s, K)[k] = s[i]
<1>1. DOMAIN s = 1..Len(s) /\ Len(s) \in Nat
  OBVIOUS
<1>2. PICK k \in 1..Cardinality(K) : NthOf(K, k) = i
  BY <1>1, NthOfFacts
<1> QED BY <1>2, ItemsAtFacts

-----------------------------------------------------------------------------
(* Rewriting items *)

\* A rewritten item is an item.
LEMMA RewriteItemType ==
  ASSUME NEW item \in Items
  PROVE  rewriteItem(item) \in Items
BY DEF rewriteItem, compactToUserMessage, Items, ItemTypes, Roles, IdForms

\* rewriteCompactionItems answers one item for each item it is given.
LEMMA RewriteType ==
  ASSUME NEW items \in Seq(Items)
  PROVE  /\ rewriteCompactionItems(items) \in Seq(Items)
         /\ Len(rewriteCompactionItems(items)) = Len(items)
<1>1. \A i \in 1..Len(items) : rewriteItem(items[i]) \in Items
  BY RewriteItemType
<1>2. DOMAIN items = 1..Len(items) /\ Len(items) \in Nat
  OBVIOUS
<1>3. rewriteCompactionItems(items) \in [1..Len(items) -> Items]
  BY <1>1, <1>2 DEF rewriteCompactionItems
<1> QED BY <1>2, <1>3

\* Once the check has passed, rewriting leaves no cpa_compact_* item, and for a
\* target that may not take native state, no compaction item at all.
LEMMA RewriteClean ==
  ASSUME NEW items \in Seq(Items), NEW target,
         checkCompactionItems(items, target) = "ok"
  PROVE  LET out == rewriteCompactionItems(items)
         IN  /\ \A i \in DOMAIN out : ~isCPACompaction(out[i])
             /\ \/ target = "explicit_passthrough"
                \/ \A i \in DOMAIN out : ~isCompactionItemAny(out[i])
<1> DEFINE out == rewriteCompactionItems(items)
<1>1. /\ "corrupt" \notin RecordsOf(items)
      /\ "opaque" \in RecordsOf(items) => target = "explicit_passthrough"
  BY DEF checkCompactionItems, mayForwardOpaqueState
<1>2. DOMAIN out = DOMAIN items
      /\ \A i \in DOMAIN items : out[i] = rewriteItem(items[i])
  BY DEF rewriteCompactionItems
<1>3. ASSUME NEW i \in DOMAIN items
      PROVE  /\ ~isCPACompaction(rewriteItem(items[i]))
             /\ \/ target = "explicit_passthrough"
                \/ ~isCompactionItemAny(rewriteItem(items[i]))
  <2>1. CASE ~isCompactionItemAny(items[i])
    BY <2>1 DEF rewriteItem, isCompactionItemAny, isCPACompaction
  <2>2. CASE isCompactionItemAny(items[i])
    <3>1. compactionRecordOf(items[i]) \in RecordsOf(items)
      BY <2>2 DEF RecordsOf
    <3>2. compactionRecordOf(items[i]) \in {"plaintext", "opaque"}
      BY <3>1, <1>1 DEF compactionRecordOf
    <3>3. CASE compactionRecordOf(items[i]) = "plaintext"
      BY <2>2, <3>3 DEF rewriteItem, compactToUserMessage, isCPACompaction, isCompactionItemAny
    <3>4. CASE compactionRecordOf(items[i]) = "opaque"
      BY <3>1, <3>4, <1>1 DEF rewriteItem, compactionRecordOf, isCPACompaction
    <3> QED BY <3>2, <3>3, <3>4
  <2> QED BY <2>1, <2>2
<1> QED BY <1>2, <1>3

-----------------------------------------------------------------------------
(* What the policy hands on *)

\* The items parseRequestInputItems decodes are items.
LEMMA InputItemsType ==
  ASSUME NEW body \in Bodies
  PROVE  inputItems(body) \in Seq(Items)
BY DEF inputItems, Bodies

\* normalizeCompactionState answers a body, and one it accepts carries no
\* cpa_compact_* item; if the target may not take native state it carries no
\* compaction item.
LEMMA NormalizedBody ==
  ASSUME NEW body \in Bodies, NEW target
  PROVE  LET result == normalizeCompactionState(body, target)
             out    == inputItems(result.body)
         IN  /\ result.body \in Bodies
             /\ result.verdict = "ok" =>
                  /\ \A i \in DOMAIN out : ~isCPACompaction(out[i])
                  /\ \/ target = "explicit_passthrough"
                     \/ \A i \in DOMAIN out : ~isCompactionItemAny(out[i])
<1> DEFINE result == normalizeCompactionState(body, target)
           rewritten == rewriteCompactionItems(body.items)
<1>1. body.items \in Seq(Items)
  BY DEF Bodies
<1>2. CASE body.shape = "array" /\ checkCompactionItems(body.items, target) = "ok"
  <2> DEFINE new == [body EXCEPT !.items = rewritten]
  <2>1. rewritten \in Seq(Items)
    BY <1>1, RewriteType
  <2>2. new \in Bodies /\ new.shape = "array" /\ new.items = rewritten
    BY <2>1, <1>2 DEF Bodies
  <2>3. result = [verdict |-> "ok", body |-> new]
    BY <1>2 DEF normalizeCompactionState
  <2> HIDE DEF new, result
  <2>4. result.body = new
    BY <2>3
  <2>5. inputItems(result.body) = rewritten
    BY <2>2, <2>4 DEF inputItems
  <2> QED BY <1>1, <1>2, <2>2, <2>4, <2>5, RewriteClean DEF result
<1>3. CASE body.shape # "array"
  <2>1. result.body = body
    BY <1>3 DEF normalizeCompactionState
  <2>2. inputItems(body) = <<>>
    BY <1>3 DEF inputItems
  <2> QED BY <2>1, <2>2
<1>4. CASE body.shape = "array" /\ checkCompactionItems(body.items, target) # "ok"
  BY <1>4 DEF normalizeCompactionState
<1> QED BY <1>2, <1>3, <1>4

\* The trigger at the end comes off, and what is left are items.
LEMMA RemoveLastType ==
  ASSUME NEW items \in Seq(Items)
  PROVE  removeLastCompactionTrigger(items) \in Seq(Items)
<1>1. CASE items = <<>>
  BY <1>1 DEF removeLastCompactionTrigger, detectV2Trigger
<1>2. CASE items # <<>>
  <2>1. Len(items) - 1 \in 0..Len(items) /\ Len(items) \in Nat
    BY <1>2
  <2>2. SubSeq(items, 1, Len(items) - 1) \in Seq(Items)
    BY <2>1
  <2> QED BY <2>2 DEF removeLastCompactionTrigger
<1> QED BY <1>1, <1>2

\* The input of a summary call carries no compaction item of any kind and no
\* trigger: buildSummaryRequestInput drops every trigger and checks the rest as
\* a bridge turn.
LEMMA SummaryInput ==
  ASSUME NEW items \in Seq(Items)
  PROVE  LET built == buildSummaryRequestInput(items)
         IN  /\ built.items \in Seq(Items)
             /\ built.verdict = "ok" =>
                  \A i \in DOMAIN built.items :
                    /\ ~isCompactionItemAny(built.items[i])
                    /\ ~isCompactionTrigger(built.items[i])
<1> DEFINE kept  == nonTriggers(items)
           out   == rewriteCompactionItems(kept)
           K     == {i \in DOMAIN items : ~isCompactionTrigger(items[i])}
<1>1. kept = ItemsAt(items, K) /\ K \in SUBSET (DOMAIN items)
  BY DEF nonTriggers
<1>2. /\ kept \in Seq(Items)
      /\ \A k \in DOMAIN kept : \E i \in K : kept[k] = items[i]
  <2> HIDE DEF K, kept
  <2> QED BY <1>1, ItemsAtFacts
<1>3. \A k \in DOMAIN kept : ~isCompactionTrigger(kept[k])
  BY <1>2
<1>4. out \in Seq(Items)
  BY <1>2, RewriteType
<1>5. ASSUME checkCompactionItems(kept, "bridge") = "ok"
      PROVE  \A i \in DOMAIN out : ~isCompactionItemAny(out[i])
  BY <1>2, <1>5, RewriteClean
<1>6. DOMAIN out = DOMAIN kept
      /\ \A i \in DOMAIN kept : out[i] = rewriteItem(kept[i])
  BY DEF rewriteCompactionItems
<1>7. \A i \in DOMAIN out : ~isCompactionTrigger(out[i])
  BY <1>3, <1>6 DEF rewriteItem, compactToUserMessage, isCompactionTrigger
<1>8. buildSummaryRequestInput(items)
        = [verdict |-> checkCompactionItems(kept, "bridge"), items |-> out]
  BY DEF buildSummaryRequestInput
<1> QED BY <1>4, <1>5, <1>7, <1>8

-----------------------------------------------------------------------------
(* The history survives the policy *)

\* Rewriting a body that holds no compaction item changes nothing, and
\* rewriting twice is rewriting once: a request normalized by the interceptor
\* may be normalized again by the executor.
LEMMA RewriteAgain ==
  ASSUME NEW items \in Seq(Items)
  PROVE  /\ ~hasCompactionItems(items) => rewriteCompactionItems(items) = items
         /\ rewriteCompactionItems(rewriteCompactionItems(items))
              = rewriteCompactionItems(items)
<1> DEFINE once == rewriteCompactionItems(items)
<1>1. \A item : rewriteItem(rewriteItem(item)) = rewriteItem(item)
  BY DEF rewriteItem, compactToUserMessage, isCompactionItemAny
<1>2. once = [i \in DOMAIN items |-> rewriteItem(items[i])]
  BY DEF rewriteCompactionItems
<1>3. DOMAIN once = DOMAIN items /\ \A i \in DOMAIN items : once[i] = rewriteItem(items[i])
  BY <1>2
<1>4. rewriteCompactionItems(once) = [i \in DOMAIN once |-> rewriteItem(once[i])]
  BY DEF rewriteCompactionItems
<1>5. rewriteCompactionItems(once) = once
  <2> HIDE DEF once
  <2> QED BY <1>1, <1>2, <1>3, <1>4
<1>6. ASSUME ~hasCompactionItems(items)
      PROVE  once = items
  <2>1. \A i \in DOMAIN items : rewriteItem(items[i]) = items[i]
    BY <1>6 DEF hasCompactionItems, rewriteItem
  <2>2. items = [i \in DOMAIN items |-> items[i]]
    OBVIOUS
  <2> HIDE DEF once
  <2> QED BY <1>2, <2>1, <2>2
<1> QED BY <1>5, <1>6

\* Restoring summaries moves no trigger.
LEMMA TriggerRestored ==
  ASSUME NEW items \in Seq(Items)
  PROVE  detectV2Trigger(rewriteCompactionItems(items)) <=> detectV2Trigger(items)
<1>1. Len(rewriteCompactionItems(items)) = Len(items) /\ rewriteCompactionItems(items) \in Seq(Items)
  BY RewriteType
<1>2. \A i \in DOMAIN items :
        isCompactionTrigger(rewriteCompactionItems(items)[i]) <=> isCompactionTrigger(items[i])
  BY DEF rewriteCompactionItems, rewriteItem, compactToUserMessage, isCompactionItemAny,
         isCompactionTrigger
<1> QED BY <1>1, <1>2 DEF detectV2Trigger

\* Taking off the final trigger first makes no difference to a summary call.
LEMMA TriggersAfterLast ==
  ASSUME NEW items \in Seq(Items)
  PROVE  nonTriggers(removeLastCompactionTrigger(items)) = nonTriggers(items)
<1> DEFINE front   == SubSeq(items, 1, Len(items) - 1)
           K(s)    == {i \in DOMAIN s : ~isCompactionTrigger(s[i])}
<1>1. CASE ~detectV2Trigger(items)
  BY <1>1 DEF removeLastCompactionTrigger
<1>2. CASE detectV2Trigger(items)
  <2>1. items # <<>> /\ isCompactionTrigger(items[Len(items)])
    BY <1>2 DEF detectV2Trigger
  <2>2. /\ Len(items) \in Nat /\ Len(items) >= 1
        /\ front \in Seq(Items) /\ DOMAIN front = 1..Len(items) - 1
        /\ \A i \in 1..Len(items) - 1 : front[i] = items[i]
    BY <2>1
  <2>3. K(front) = K(items)
    BY <2>1, <2>2
  <2>4. K(items) \in SUBSET (1..Len(items) - 1)
    BY <2>2, <2>3
  <2>5. \A k \in 1..Cardinality(K(items)) :
          front[NthOf(K(items), k)] = items[NthOf(K(items), k)]
    <3>1. Len(items) - 1 \in Nat
      BY <2>2
    <3> HIDE DEF K
    <3>2. \A k \in 1..Cardinality(K(items)) : NthOf(K(items), k) \in K(items)
      BY <2>4, <3>1, NthOfFacts
    <3> QED BY <2>2, <2>4, <3>2
  <2>6. ItemsAt(front, K(items)) = ItemsAt(items, K(items))
    BY <2>5 DEF ItemsAt
  <2>7. /\ nonTriggers(front) = ItemsAt(front, K(front))
        /\ nonTriggers(items) = ItemsAt(items, K(items))
    BY DEF nonTriggers
  <2>8. removeLastCompactionTrigger(items) = front
    BY <1>2 DEF removeLastCompactionTrigger
  <2> HIDE DEF K, front
  <2> QED BY <2>3, <2>6, <2>7, <2>8
<1> QED BY <1>1, <1>2

\* Rewriting neither makes nor hides a trigger, so it commutes with dropping
\* the triggers.
LEMMA TriggersAfterRewrite ==
  ASSUME NEW items \in Seq(Items)
  PROVE  nonTriggers(rewriteCompactionItems(items))
           = rewriteCompactionItems(nonTriggers(items))
<1> DEFINE once == rewriteCompactionItems(items)
           K    == {i \in DOMAIN items : ~isCompactionTrigger(items[i])}
<1>1. DOMAIN once = DOMAIN items /\ \A i \in DOMAIN items : once[i] = rewriteItem(items[i])
  BY DEF rewriteCompactionItems
<1>2. \A item : isCompactionTrigger(rewriteItem(item)) <=> isCompactionTrigger(item)
  BY DEF rewriteItem, compactToUserMessage, isCompactionTrigger, isCompactionItemAny
<1>3. {i \in DOMAIN once : ~isCompactionTrigger(once[i])} = K
  BY <1>1, <1>2
<1>4. nonTriggers(once) = ItemsAt(once, K) /\ nonTriggers(items) = ItemsAt(items, K)
  BY <1>3 DEF nonTriggers
<1>5. K \in SUBSET (DOMAIN items)
  OBVIOUS
<1> HIDE DEF K
<1>6. /\ DOMAIN ItemsAt(items, K) = 1..Cardinality(K)
      /\ \A k \in 1..Cardinality(K) : /\ NthOf(K, k) \in DOMAIN items
                                      /\ ItemsAt(items, K)[k] = items[NthOf(K, k)]
  BY <1>5, ItemsAtFacts
<1>7. ItemsAt(once, K) = [k \in 1..Cardinality(K) |-> once[NthOf(K, k)]]
  BY DEF ItemsAt
<1>8. rewriteCompactionItems(ItemsAt(items, K))
        = [k \in 1..Cardinality(K) |-> rewriteItem(ItemsAt(items, K)[k])]
  BY <1>6 DEF rewriteCompactionItems
<1>9. \A k \in 1..Cardinality(K) : once[NthOf(K, k)] = rewriteItem(ItemsAt(items, K)[k])
  <2> HIDE DEF once
  <2> QED BY <1>1, <1>6
<1>10. ItemsAt(once, K) = rewriteCompactionItems(ItemsAt(items, K))
  <2> HIDE DEF once
  <2> QED BY <1>7, <1>8, <1>9
<1> QED BY <1>4, <1>10

\* A summary call is sent the history with its summaries restored and its
\* triggers dropped, whether or not the interceptor rewrote the body before.
LEMMA SummaryHistory ==
  ASSUME NEW items \in Seq(Items), NEW given \in {items, rewriteCompactionItems(items)}
  PROVE  buildSummaryRequestInput(removeLastCompactionTrigger(given)).items
           = rewriteCompactionItems(nonTriggers(items))
<1>1. given \in Seq(Items)
  BY RewriteType
<1>2. buildSummaryRequestInput(removeLastCompactionTrigger(given)).items
        = rewriteCompactionItems(nonTriggers(given))
  BY <1>1, TriggersAfterLast DEF buildSummaryRequestInput
<1>3. CASE given = items
  BY <1>2, <1>3
<1>4. CASE given = rewriteCompactionItems(items)
  <2>1. nonTriggers(given) = rewriteCompactionItems(nonTriggers(items))
    BY <1>4, TriggersAfterRewrite
  <2>2. nonTriggers(items) \in Seq(Items)
    BY ItemsAtFacts DEF nonTriggers
  <2> QED BY <1>2, <2>1, <2>2, RewriteAgain
<1> QED BY <1>3, <1>4

\* A body the policy accepts is the body it was given, rewritten.
LEMMA NormalizedHistory ==
  ASSUME NEW body \in Bodies, NEW target,
         normalizeCompactionState(body, target).verdict = "ok"
  PROVE  inputItems(normalizeCompactionState(body, target).body)
           = rewriteCompactionItems(inputItems(body))
<1> DEFINE result == normalizeCompactionState(body, target)
           rewritten == rewriteCompactionItems(body.items)
           new == [body EXCEPT !.items = rewritten]
<1>1. CASE body.shape # "array"
  <2>1. result.body = body /\ inputItems(body) = <<>>
    BY <1>1 DEF normalizeCompactionState, inputItems
  <2>2. rewriteCompactionItems(<<>>) = <<>>
    <3>1. <<>> \in Seq(Items) /\ ~hasCompactionItems(<<>>)
      BY DEF hasCompactionItems
    <3> QED BY <3>1, RewriteAgain
  <2> QED BY <2>1, <2>2
<1>2. CASE body.shape = "array"
  <2>1. checkCompactionItems(body.items, target) = "ok"
    BY <1>2 DEF normalizeCompactionState
  <2>2. result = [verdict |-> "ok", body |-> new]
    BY <1>2, <2>1 DEF normalizeCompactionState
  <2>3. new.shape = "array" /\ new.items = rewritten
    BY <1>2 DEF Bodies
  <2>4. inputItems(body) = body.items
    BY <1>2 DEF inputItems
  <2> HIDE DEF new, result
  <2>5. result.body = new
    BY <2>2
  <2> QED BY <2>3, <2>4, <2>5 DEF inputItems, result
<1> QED BY <1>1, <1>2

-----------------------------------------------------------------------------
(* What a compact turn installs *)

\* A V1 window is items, ends in its one compaction item, and that one is
\* readable, so every target's policy accepts the window.
LEMMA InstalledWindow ==
  ASSUME NEW items \in Seq(Items), NEW summary \in Texts, summary # Blank
  PROVE  LET w == v1CompactWindow(items, summary)
         IN  /\ w \in Seq(Items) /\ w # <<>>
             /\ {i \in DOMAIN w : isCompactionItemAny(w[i])} = {Len(w)}
             /\ compactionRecordOf(w[Len(w)]) = "plaintext"
             /\ w[Len(w)].text = summary
             /\ \A t \in Targets : checkCompactionItems(w, t) = "ok"
<1> DEFINE kept == retainedItems(items)
           last == compactionItem(summary)
           K    == {i \in DOMAIN items : isRetained(items[i])}
           w    == v1CompactWindow(items, summary)
<1>1. /\ kept \in Seq(Items)
      /\ \A k \in DOMAIN kept : \E i \in K : kept[k] = items[i]
  <2>1. kept = ItemsAt(items, K) /\ K \in SUBSET (DOMAIN items)
    BY DEF retainedItems
  <2> HIDE DEF K, kept
  <2> QED BY <2>1, ItemsAtFacts
<1>2. \A k \in DOMAIN kept : ~isCompactionItemAny(kept[k])
  BY <1>1 DEF isRetained, isCompactionItemAny
<1>3. last \in Items
  BY DEF compactionItem, Items, ItemTypes, Roles, IdForms
<1>4. isCompactionItemAny(last) /\ compactionRecordOf(last) = "plaintext" /\ last.text = summary
  BY DEF compactionItem, isCompactionItemAny, compactionRecordOf, isCPACompaction
<1>5. w = Append(kept, last)
  BY DEF v1CompactWindow
<1> HIDE DEF kept, last, w
<1>6. /\ w \in Seq(Items) /\ Len(w) = Len(kept) + 1 /\ Len(kept) \in Nat
      /\ DOMAIN w = 1..Len(kept) + 1 /\ DOMAIN kept = 1..Len(kept)
      /\ w[Len(w)] = last /\ \A i \in 1..Len(kept) : w[i] = kept[i]
  BY <1>1, <1>3, <1>5
<1>7. {i \in DOMAIN w : isCompactionItemAny(w[i])} = {Len(w)}
  BY <1>2, <1>4, <1>6
<1>8. RecordsOf(w) = {"plaintext"}
  <2>1. RecordsOf(w) = {compactionRecordOf(w[i]) : i \in {Len(w)}}
    BY <1>7 DEF RecordsOf
  <2> QED BY <2>1, <1>4, <1>6
<1>9. \A t \in Targets : checkCompactionItems(w, t) = "ok"
  BY <1>8 DEF checkCompactionItems
<1> QED BY <1>4, <1>6, <1>7, <1>9 DEF w

\* The item of a V2 stream, taken as the whole input of the next turn, is
\* readable state that every target's policy accepts.
LEMMA InstalledItem ==
  ASSUME NEW summary \in Texts, summary # Blank
  PROVE  LET w == <<compactionItem(summary)>>
         IN  /\ w \in Seq(Items) /\ w # <<>>
             /\ {i \in DOMAIN w : isCompactionItemAny(w[i])} = {Len(w)}
             /\ compactionRecordOf(w[Len(w)]) = "plaintext"
             /\ w[Len(w)].text = summary
             /\ \A t \in Targets : checkCompactionItems(w, t) = "ok"
<1> DEFINE last == compactionItem(summary)
           w    == <<last>>
<1>1. last \in Items
  BY DEF compactionItem, Items, ItemTypes, Roles, IdForms
<1>2. isCompactionItemAny(last) /\ compactionRecordOf(last) = "plaintext" /\ last.text = summary
  BY DEF compactionItem, isCompactionItemAny, compactionRecordOf, isCPACompaction
<1> HIDE DEF last
<1>3. w \in Seq(Items) /\ Len(w) = 1 /\ DOMAIN w = {1} /\ w[1] = last
  BY <1>1
<1>4. {i \in DOMAIN w : isCompactionItemAny(w[i])} = {1}
  BY <1>2, <1>3
<1>5. RecordsOf(w) = {"plaintext"}
  <2>1. RecordsOf(w) = {compactionRecordOf(w[i]) : i \in {1}}
    BY <1>4 DEF RecordsOf
  <2> QED BY <2>1, <1>2, <1>3
<1>6. \A t \in Targets : checkCompactionItems(w, t) = "ok"
  BY <1>5 DEF checkCompactionItems
<1> QED BY <1>2, <1>3, <1>4, <1>6 DEF last
=============================================================================
