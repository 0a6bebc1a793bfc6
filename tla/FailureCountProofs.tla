------------------------- MODULE FailureCountProofs -------------------------
(***************************************************************************)
(* What the rows of the counter can be trusted for, however many lines CPA *)
(* writes while it runs and in whichever order it reads the logs.          *)
(***************************************************************************)
EXTENDS FailureCount, FiniteSetTheorems, TLAPS

-----------------------------------------------------------------------------
(* The invariant *)

Turns == 1..Len(passes)

FoundIn(k) == found[passes[k]]

Pattern(k) == patterns[passes[k]]

\* Pass k has read log.
HasRead(k, log) == k <= pass \/ (k = pass + 1 /\ log \notin unread)

CounterTypeOK ==
  /\ pass \in Unselected..Len(passes)
  /\ unread \subseteq selected
  /\ DOMAIN found = DOMAIN patterns
  /\ written \in Nat
  /\ removed \in BOOLEAN
  /\ IsFiniteSet(lines)
  /\ pass = Unselected => selected = {}

\* A pass counts only lines that are there, and only those of its markers.
CountsOnlyItsOwn ==
  \A k \in Turns : \A line \in FoundIn(k) :
    line \in Inside /\ line.marker \in Pattern(k)

\* A pass misses only lines that arrived while the script ran.
MissesOnlyLate ==
  \A k \in Turns : \A line \in Inside \ late :
    HasRead(k, line.log) /\ line.marker \in Pattern(k) => line \in FoundIn(k)

\* What a pass has counted the later ones count too, if it is theirs.
CountedAgain ==
  \A j, k \in Turns : j < k =>
    \A line \in FoundIn(j) :
      HasRead(k, line.log) /\ line.marker \in Pattern(k) => line \in FoundIn(k)

LateInside == late \subseteq Inside

CounterInv ==
  /\ CounterTypeOK
  /\ ~removed => CountsOnlyItsOwn /\ MissesOnlyLate /\ CountedAgain /\ LateInside

\* The passes are eight, each of its own pattern.
LEMMA PassFacts ==
  /\ Turns = 1..8 /\ Len(passes) = 8
  /\ \A k \in Turns : passes[k] \in DOMAIN patterns
  /\ \A j, k \in Turns : passes[j] = passes[k] => j = k
<1>1. Len(passes) = 8
  BY DEF passes
<1>2. \A k \in 1..8 : passes[k] \in DOMAIN patterns
  BY DEF passes, patterns
<1>3. \A j, k \in 1..8 : passes[j] = passes[k] => j = k
  BY DEF passes
<1> QED BY <1>1, <1>2, <1>3 DEF Turns

\* The script starts with nothing counted.
LEMMA CounterInit == Init => CounterInv
<1> SUFFICES ASSUME Init PROVE CounterInv
  OBVIOUS
<1>1. \A k \in Turns : FoundIn(k) = {}
  BY PassFacts DEF Init, FoundIn
<1>2. CounterTypeOK
  <2>1. pass \in Unselected..Len(passes)
    BY PassFacts DEF Init, Unselected
  <2>2. DOMAIN found = DOMAIN patterns
    BY DEF Init
  <2> QED BY <2>1, <2>2, FS_EmptySet DEF Init, CounterTypeOK
<1>3. Inside = {} /\ late = {}
  BY DEF Init, Inside
<1> QED
  BY <1>1, <1>2, <1>3 DEF CounterInv, CountsOnlyItsOwn, MissesOnlyLate, CountedAgain, LateInside

\* A line written to a log that is being read is late.
LEMMA LoggedStep ==
  ASSUME CounterInv, NEW log \in Logs, NEW m \in Markers, logged(log, m)
  PROVE  CounterInv'
<1> DEFINE new == [number |-> written + 1, log |-> log, marker |-> m]
<1>1. /\ lines' = lines \cup {new} /\ new.log = log
      /\ late' = IF log \in selected THEN late \cup {new} ELSE late
      /\ written' = written + 1 /\ UNCHANGED <<selected, pass, unread, found, removed>>
  BY DEF logged
<1> HIDE DEF new
<1>2. CounterTypeOK'
  BY <1>1, FS_AddElement DEF CounterInv, CounterTypeOK
<1>3. Inside \subseteq Inside' /\ Inside' \ late' \subseteq Inside \ late
  BY <1>1 DEF Inside
<1>4. LateInside => LateInside'
  BY <1>1, <1>3 DEF LateInside, Inside
<1>5. \A k : FoundIn(k)' = FoundIn(k) /\ \A l : HasRead(k, l)' = HasRead(k, l)
  BY <1>1 DEF FoundIn, HasRead
<1>6. CountsOnlyItsOwn => CountsOnlyItsOwn'
  BY <1>3, <1>5 DEF CountsOnlyItsOwn
<1>7. MissesOnlyLate => MissesOnlyLate'
  BY <1>3, <1>5 DEF MissesOnlyLate
<1>8. CountedAgain => CountedAgain'
  BY <1>5 DEF CountedAgain
<1> QED BY <1>1, <1>2, <1>4, <1>6, <1>7, <1>8 DEF CounterInv

\* A log that no pass reads may go.
LEMMA RotatedStep ==
  ASSUME CounterInv, NEW log \in Logs, rotated(log)
  PROVE  CounterInv'
<1>1. /\ lines' = {line \in lines : line.log # log}
      /\ removed' = (removed \/ log \in selected)
      /\ UNCHANGED <<selected, pass, unread, found, late, written>>
  BY DEF rotated
<1>2. CounterTypeOK'
  BY <1>1, FS_Subset DEF CounterInv, CounterTypeOK
<1>3. SUFFICES ASSUME ~removed' PROVE Inside' = Inside
  BY <1>1, <1>2
     DEF CounterInv, CountsOnlyItsOwn, MissesOnlyLate, CountedAgain, LateInside, FoundIn, HasRead
<1> QED BY <1>1, <1>3 DEF Inside

\* The choice of the logs comes before any pass.
LEMMA SelectStep ==
  ASSUME CounterInv, add_file
  PROVE  CounterInv'
<1>1. /\ pass = Unselected /\ selected = {} /\ pass' = 0 /\ unread' = selected'
      /\ UNCHANGED <<lines, found, late, removed, written>>
  BY DEF add_file, CounterInv, CounterTypeOK
<1>2. CounterTypeOK'
  BY <1>1, PassFacts DEF CounterInv, CounterTypeOK, Unselected
<1> SUFFICES ASSUME ~removed'
             PROVE  (CountsOnlyItsOwn /\ MissesOnlyLate /\ CountedAgain /\ LateInside)'
  BY <1>2 DEF CounterInv
<1>3. Inside = {} /\ late = {} /\ \A k \in Turns : FoundIn(k) = {}
  BY <1>1 DEF CounterInv, CountsOnlyItsOwn, LateInside, Inside
<1>4. late' = {} /\ \A k \in Turns : FoundIn(k)' = {}
  BY <1>1, <1>3 DEF FoundIn
<1>5. \A k \in Turns : \A line \in Inside' : ~HasRead(k, line.log)'
  BY <1>1, PassFacts DEF HasRead, Inside
<1> QED BY <1>4, <1>5 DEF CountsOnlyItsOwn, MissesOnlyLate, CountedAgain, LateInside

\* A pass reads a log, and finds in it what the passes before have found.
LEMMA GrepStep ==
  ASSUME CounterInv, NEW log \in Logs, grep(log)
  PROVE  CounterInv'
<1>0. PICK now \in Turns : now = pass + 1 /\ pass \in Int
  BY PassFacts DEF grep, CounterInv, CounterTypeOK, Running, Unselected
<1> DEFINE hits == {line \in lines : line.log = log /\ line.marker \in Pattern(now)}
<1>1. /\ log \in unread /\ log \in selected /\ unread' = unread \ {log}
      /\ found' = [found EXCEPT ![passes[now]] = @ \cup hits]
      /\ UNCHANGED <<lines, selected, pass, late, removed, written>>
  BY <1>0 DEF grep, CounterInv, CounterTypeOK, Pattern
<1>2. CounterTypeOK'
  BY <1>1 DEF CounterInv, CounterTypeOK
<1>3. Inside' = Inside /\ hits \subseteq Inside
  BY <1>1 DEF Inside
<1>4. FoundIn(now)' = FoundIn(now) \cup hits
  BY <1>1, PassFacts DEF FoundIn, CounterInv, CounterTypeOK
<1>5. \A k \in Turns : k # now => FoundIn(k)' = FoundIn(k)
  BY <1>1, PassFacts DEF FoundIn, CounterInv, CounterTypeOK
<1>6. \A k \in Turns : \A l : HasRead(k, l)' <=> HasRead(k, l) \/ (k = now /\ l = log)
  BY <1>0, <1>1 DEF HasRead
<1>7. SUFFICES ASSUME ~removed'
               PROVE  (CountsOnlyItsOwn /\ MissesOnlyLate /\ CountedAgain /\ LateInside)'
  BY <1>2 DEF CounterInv
<1>8. CountsOnlyItsOwn /\ MissesOnlyLate /\ CountedAgain /\ LateInside
  BY <1>1, <1>7 DEF CounterInv
<1>9. CountsOnlyItsOwn'
  BY <1>1, <1>3, <1>4, <1>5, <1>8 DEF CountsOnlyItsOwn, Pattern
<1>10. \A k \in Turns : FoundIn(k) \subseteq FoundIn(k)'
  BY <1>4, <1>5
<1>11. \A line \in Inside : line.log = log /\ line.marker \in Pattern(now) => line \in hits
  BY DEF Inside
<1> HIDE DEF hits
<1>12. MissesOnlyLate'
  BY <1>1, <1>3, <1>4, <1>6, <1>8, <1>10, <1>11 DEF MissesOnlyLate, Pattern
<1>13. CountedAgain'
  <2> SUFFICES ASSUME NEW j \in Turns, NEW k \in Turns, j < k, NEW line \in FoundIn(j)',
                      HasRead(k, line.log)', line.marker \in Pattern(k)
               PROVE  line \in FoundIn(k)'
    BY DEF CountedAgain, Pattern
  <2>1. j # now
    BY <1>0, <1>6, PassFacts DEF HasRead
  <2>2. line \in FoundIn(j) /\ line \in Inside
    BY <1>5, <1>8, <2>1 DEF CountsOnlyItsOwn
  <2>3. CASE HasRead(k, line.log)
    BY <1>8, <1>10, <2>2, <2>3 DEF CountedAgain
  <2>4. CASE k = now /\ line.log = log
    BY <1>4, <1>11, <2>2, <2>4
  <2> QED BY <1>6, <2>3, <2>4
<1> QED BY <1>1, <1>3, <1>8, <1>9, <1>12, <1>13 DEF LateInside

\* The next pass has read nothing yet.
LEMMA PassStep ==
  ASSUME CounterInv, count_pattern
  PROVE  CounterInv'
<1>1. /\ pass \in 0..7 /\ unread = {} /\ pass' = pass + 1 /\ unread' = selected
      /\ UNCHANGED <<lines, selected, found, late, removed, written>>
  BY PassFacts DEF count_pattern, CounterInv, CounterTypeOK, Running, Unselected
<1>2. CounterTypeOK'
  BY <1>1, PassFacts DEF CounterInv, CounterTypeOK, Unselected
<1>3. Inside' = Inside /\ late' = late /\ \A k : FoundIn(k)' = FoundIn(k)
  BY <1>1 DEF Inside, FoundIn
<1>4. \A k \in Turns : \A line \in Inside : HasRead(k, line.log)' => HasRead(k, line.log)
  BY <1>1, PassFacts DEF HasRead, Inside
<1>5. CountsOnlyItsOwn => CountsOnlyItsOwn'
  BY <1>3 DEF CountsOnlyItsOwn
<1>6. MissesOnlyLate => MissesOnlyLate'
  BY <1>3, <1>4 DEF MissesOnlyLate
<1>7. CountsOnlyItsOwn /\ CountedAgain => CountedAgain'
  BY <1>3, <1>4 DEF CountsOnlyItsOwn, CountedAgain
<1>8. LateInside => LateInside'
  BY <1>3 DEF LateInside
<1> QED BY <1>1, <1>2, <1>5, <1>6, <1>7, <1>8 DEF CounterInv

\* The counter's invariant: what each pass has found of the lines that are there,
\* in terms of those that arrived meanwhile and of the passes before it.
THEOREM CounterInductive == Spec => []CounterInv
<1>1. CounterInv /\ [Next]_vars => CounterInv'
  <2> SUFFICES ASSUME CounterInv, [Next]_vars PROVE CounterInv'
    OBVIOUS
  <2>1. CASE UNCHANGED vars
    BY <2>1 DEF vars, CounterInv, CounterTypeOK, CountsOnlyItsOwn, MissesOnlyLate, CountedAgain,
                LateInside, Inside, FoundIn, HasRead
  <2> QED
    BY <2>1, LoggedStep, RotatedStep, SelectStep, GrepStep, PassStep DEF Next, finished
<1> QED BY <1>1, CounterInit, PTL DEF Spec

-----------------------------------------------------------------------------
(* The rows *)

\* The lines of one marker.
Of(S, m) == {line \in S : line.marker = m}

Marked(S, M) == {line \in S : line.marker \in M}

\* Lines of different markers are counted apart.
LEMMA CountApart ==
  ASSUME NEW S, IsFiniteSet(S), NEW M, NEW m, m \notin M
  PROVE  /\ Cardinality(Of(S, m)) \in Nat /\ Cardinality(Marked(S, M)) \in Nat
         /\ Cardinality(Marked(S, M \cup {m})) = Cardinality(Marked(S, M)) + Cardinality(Of(S, m))
<1>1. IsFiniteSet(Of(S, m)) /\ IsFiniteSet(Marked(S, M))
  BY FS_Subset DEF Of, Marked
<1>2. /\ Marked(S, M \cup {m}) = Marked(S, M) \cup Of(S, m)
      /\ Marked(S, M) \cap Of(S, m) = {}
  BY DEF Of, Marked
<1>3. Cardinality(Of(S, m)) \in Nat /\ Cardinality(Marked(S, M)) \in Nat
  BY <1>1, FS_CardinalityType
<1> DEFINE A == Marked(S, M)
           B == Of(S, m)
<1> HIDE DEF A, B
<1>4. Cardinality(A \cup B) = Cardinality(A) + Cardinality(B) - Cardinality(A \cap B)
  BY <1>1, FS_Union DEF A, B
<1>5. Cardinality(A \cap B) = 0
  BY <1>2, FS_EmptySet DEF A, B
<1>6. Cardinality(A) \in Nat /\ Cardinality(B) \in Nat
  BY <1>3 DEF A, B
<1>7. Cardinality(A \cup B) = Cardinality(A) + Cardinality(B)
  BY <1>4, <1>5, <1>6
<1> QED BY <1>2, <1>3, <1>7 DEF A, B

\* The lines of one marker, of two and of four.
LEMMA CountOne ==
  ASSUME NEW S, IsFiniteSet(S), NEW a
  PROVE  /\ Cardinality(Of(S, a)) \in Nat
         /\ Cardinality(Marked(S, {a})) = Cardinality(Of(S, a))
<1>1. Marked(S, {a}) = Of(S, a)
  BY DEF Marked, Of
<1>2. IsFiniteSet(Of(S, a))
  BY FS_Subset DEF Of
<1> QED BY <1>1, <1>2, FS_CardinalityType

\* The lines of two markers, counted marker by marker.
LEMMA CountTwo ==
  ASSUME NEW S, IsFiniteSet(S), NEW a, NEW b, a # b
  PROVE  Cardinality(Marked(S, {a, b})) = Cardinality(Of(S, a)) + Cardinality(Of(S, b))
<1>1. Marked(S, {a, b}) = Marked(S, {a} \cup {b})
  BY DEF Marked
<1>2. Cardinality(Marked(S, {a} \cup {b})) = Cardinality(Marked(S, {a})) + Cardinality(Of(S, b))
  BY CountApart
<1> QED BY <1>1, <1>2, CountOne

\* And of four.
LEMMA CountFour ==
  ASSUME NEW S, IsFiniteSet(S), NEW a, NEW b, NEW c, NEW d,
         a # b, c \notin {a, b}, d \notin {a, b, c}
  PROVE  Cardinality(Marked(S, {a, b, c, d}))
           = Cardinality(Of(S, a)) + Cardinality(Of(S, b))
             + Cardinality(Of(S, c)) + Cardinality(Of(S, d))
<1>1. /\ Marked(S, {a, b, c}) = Marked(S, {a, b} \cup {c})
      /\ Marked(S, {a, b, c, d}) = Marked(S, {a, b, c} \cup {d})
  BY DEF Marked
<1>2. Cardinality(Marked(S, {a, b} \cup {c})) = Cardinality(Marked(S, {a, b})) + Cardinality(Of(S, c))
  BY CountApart
<1>3. Cardinality(Marked(S, {a, b, c} \cup {d}))
        = Cardinality(Marked(S, {a, b, c})) + Cardinality(Of(S, d))
  BY CountApart
<1> QED BY <1>1, <1>2, <1>3, CountTwo

\* Some of the lines are no more than all.
LEMMA CountSome ==
  ASSUME NEW S, IsFiniteSet(S), NEW M
  PROVE  Cardinality(Marked(S, M)) <= Cardinality(S)
BY FS_Subset DEF Marked

\* What the script knows when it has ended without losing a log.
AllRead ==
  /\ pass = Len(passes)
  /\ IsFiniteSet(Inside) /\ IsFiniteSet(late)
  /\ CountsOnlyItsOwn /\ MissesOnlyLate /\ CountedAgain

\* At the end every pass has read every log.
LEMMA EndFacts ==
  ASSUME CounterInv, Done
  PROVE  /\ AllRead
         /\ \A k \in Turns : \A log : HasRead(k, log)
<1>1. IsFiniteSet(Inside)
  BY FS_Subset DEF CounterInv, CounterTypeOK, Inside
<1>2. IsFiniteSet(late)
  BY <1>1, FS_Subset DEF CounterInv, Done, LateInside
<1> QED BY <1>1, <1>2, PassFacts DEF CounterInv, Done, AllRead, HasRead

\* Of one marker, a pass that looks for it has counted no line too many, and too
\* few by no more than arrived late.
LEMMA MarkerCount ==
  ASSUME AllRead, \A k \in Turns : \A log : HasRead(k, log),
         NEW k \in Turns, NEW m \in Pattern(k)
  PROVE  /\ IsFiniteSet(FoundIn(k))
         /\ Cardinality(Of(FoundIn(k), m)) \in Nat /\ Cardinality(Of(late, m)) \in Nat
         /\ Truth(m) \in Nat
         /\ Cardinality(Of(FoundIn(k), m)) <= Truth(m)
         /\ Truth(m) <= Cardinality(Of(FoundIn(k), m)) + Cardinality(Of(late, m))
<1> DEFINE hits == Of(FoundIn(k), m)
           there == Of(Inside, m)
<1>1. FoundIn(k) \subseteq Inside /\ hits \subseteq there
  BY DEF AllRead, CountsOnlyItsOwn, Of
<1>2. there \subseteq hits \cup Of(late, m)
  BY DEF AllRead, MissesOnlyLate, Of
<1>3. IsFiniteSet(FoundIn(k)) /\ IsFiniteSet(there) /\ IsFiniteSet(hits) /\ IsFiniteSet(Of(late, m))
  BY <1>1, FS_Subset DEF AllRead, Of
<1>4. Truth(m) = Cardinality(there)
  BY DEF Truth, Of
<1> HIDE DEF hits, there
<1>5. /\ Cardinality(hits) \in Nat /\ Cardinality(there) \in Nat
      /\ Cardinality(Of(late, m)) \in Nat /\ Cardinality(hits \cap Of(late, m)) \in Nat
  BY <1>3, FS_CardinalityType, FS_Intersection
<1>6. Cardinality(hits) <= Cardinality(there)
  BY <1>1, <1>3, FS_Subset
<1>7. Cardinality(there) <= Cardinality(hits \cup Of(late, m))
  BY <1>2, <1>3, FS_Subset, FS_Union
<1>8. Cardinality(hits \cup Of(late, m)) <= Cardinality(hits) + Cardinality(Of(late, m))
  <2>1. Cardinality(hits \cup Of(late, m))
          = Cardinality(hits) + Cardinality(Of(late, m)) - Cardinality(hits \cap Of(late, m))
    BY <1>3, FS_Union
  <2> QED BY <1>5, <2>1
<1>9. Cardinality(hits \cup Of(late, m)) \in Nat
  BY <1>3, FS_Union, FS_CardinalityType
<1> QED BY <1>3, <1>4, <1>5, <1>6, <1>7, <1>8, <1>9 DEF hits

\* A marker two passes look for is counted by the second wherever the first did.
LEMMA CountedTwice ==
  ASSUME AllRead, \A k \in Turns : \A log : HasRead(k, log),
         NEW j \in Turns, NEW k \in Turns, j < k, NEW m \in Pattern(k), m \in Pattern(j)
  PROVE  Cardinality(Of(FoundIn(j), m)) <= Cardinality(Of(FoundIn(k), m))
<1>1. Of(FoundIn(j), m) \subseteq Of(FoundIn(k), m)
  BY DEF AllRead, CountedAgain, Of
<1>2. IsFiniteSet(Of(FoundIn(k), m))
  BY MarkerCount, FS_Subset DEF Of
<1> QED BY <1>1, <1>2, FS_Subset

\* A row that is a plain count.
LEMMA PlainRow ==
  ASSUME AllRead, \A k \in Turns : \A log : HasRead(k, log),
         NEW k \in Turns, NEW m, Pattern(k) = {m}
  PROVE  /\ count(passes[k]) = Cardinality(Of(FoundIn(k), m))
         /\ count(passes[k]) <= Truth(m) /\ Truth(m) - count(passes[k]) \in 0..Cardinality(late)
<1>1. FoundIn(k) = Of(FoundIn(k), m)
  BY DEF AllRead, CountsOnlyItsOwn, Of
<1>2. count(passes[k]) = Cardinality(Of(FoundIn(k), m))
  BY <1>1 DEF count, FoundIn
<1>3. Cardinality(Of(late, m)) <= Cardinality(late) /\ Cardinality(late) \in Nat
  BY CountSome, CountOne, FS_CardinalityType DEF AllRead
<1> QED BY <1>2, <1>3, MarkerCount

\* The row of failed compactions: the lines of both kinds less those of the other.
LEMMA BridgeRow ==
  ASSUME AllRead, \A k \in Turns : \A log : HasRead(k, log)
  PROVE  Truth("failed") - count_bridge_generic \in 0..Cardinality(late)
<1> DEFINE N(k, m) == Cardinality(Of(FoundIn(k), m))
           Missed(m) == Cardinality(Of(late, m))
<1>1. 1 \in Turns /\ 2 \in Turns /\ passes[1] = "bridge_all" /\ passes[2] = "bridge_encode"
  BY PassFacts DEF passes
<1>2. Pattern(1) = {"failed", "encode"} /\ Pattern(2) = {"encode"}
  BY <1>1 DEF Pattern, patterns
<1>3. count("bridge_all") = N(1, "failed") + N(1, "encode")
  <2>1. FoundIn(1) = Marked(FoundIn(1), {"failed", "encode"})
    BY <1>1, <1>2 DEF AllRead, CountsOnlyItsOwn, Marked
  <2>2. count("bridge_all") = Cardinality(FoundIn(1))
    BY <1>1 DEF count, FoundIn
  <2> QED BY <1>1, <1>2, <2>1, <2>2, MarkerCount, CountTwo
<1>4. count("bridge_encode") = N(2, "encode")
  BY <1>1, <1>2, PlainRow
<1>5. N(1, "encode") <= N(2, "encode")
  BY <1>1, <1>2, CountedTwice
<1>6. Missed("failed") + Missed("encode") <= Cardinality(late)
  BY CountTwo, CountSome DEF AllRead
<1>7. /\ N(1, "failed") \in Nat /\ N(1, "encode") \in Nat /\ N(2, "encode") \in Nat
      /\ Missed("failed") \in Nat /\ Missed("encode") \in Nat
      /\ Truth("failed") \in Nat /\ Truth("encode") \in Nat
      /\ N(1, "failed") <= Truth("failed") /\ Truth("failed") <= N(1, "failed") + Missed("failed")
      /\ N(2, "encode") <= Truth("encode") /\ Truth("encode") <= N(1, "encode") + Missed("encode")
  BY <1>1, <1>2, MarkerCount
<1>8. Cardinality(late) \in Nat
  BY FS_CardinalityType DEF AllRead
<1> HIDE DEF N, Missed
<1> QED BY <1>3, <1>4, <1>5, <1>6, <1>7, <1>8 DEF count_bridge_generic

\* The row of incomplete replies: the lines of four kinds less those of three.
LEMMA IncompleteRow ==
  ASSUME AllRead, \A k \in Turns : \A log : HasRead(k, log)
  PROVE  Truth("incomplete") - count_upstream_incomplete \in 0..Cardinality(late)
<1> DEFINE N(k, m) == Cardinality(Of(FoundIn(k), m))
           Missed(m) == Cardinality(Of(late, m))
<1>1. /\ 4 \in Turns /\ 5 \in Turns /\ 6 \in Turns /\ 7 \in Turns
      /\ passes[4] = "upstream_incomplete_all" /\ passes[5] = "max_output_tokens"
      /\ passes[6] = "content_filter" /\ passes[7] = "finish_content_filter"
  BY PassFacts DEF passes
<1>2. /\ Pattern(4) = {"incomplete", "tokens", "filter", "finish"}
      /\ Pattern(5) = {"tokens"} /\ Pattern(6) = {"filter"} /\ Pattern(7) = {"finish"}
  BY <1>1 DEF Pattern, patterns
<1>3. count("upstream_incomplete_all")
        = N(4, "incomplete") + N(4, "tokens") + N(4, "filter") + N(4, "finish")
  <2>1. FoundIn(4) = Marked(FoundIn(4), {"incomplete", "tokens", "filter", "finish"})
    BY <1>1, <1>2 DEF AllRead, CountsOnlyItsOwn, Marked
  <2>2. count("upstream_incomplete_all") = Cardinality(FoundIn(4))
    BY <1>1 DEF count, FoundIn
  <2> QED BY <1>1, <1>2, <2>1, <2>2, MarkerCount, CountFour
<1>4. /\ count("max_output_tokens") = N(5, "tokens")
      /\ count("content_filter") = N(6, "filter")
      /\ count("finish_content_filter") = N(7, "finish")
  BY <1>1, <1>2, PlainRow
<1>5. /\ N(4, "tokens") <= N(5, "tokens") /\ N(4, "filter") <= N(6, "filter")
      /\ N(4, "finish") <= N(7, "finish")
  BY <1>1, <1>2, CountedTwice
<1>6. Missed("incomplete") + Missed("tokens") + Missed("filter") + Missed("finish")
        <= Cardinality(late)
  <2>1. Cardinality(Marked(late, {"incomplete", "tokens", "filter", "finish"}))
          = Missed("incomplete") + Missed("tokens") + Missed("filter") + Missed("finish")
    BY CountFour DEF AllRead
  <2> QED BY <2>1, CountSome DEF AllRead
<1>7. /\ N(4, "incomplete") \in Nat /\ Missed("incomplete") \in Nat /\ Truth("incomplete") \in Nat
      /\ N(4, "incomplete") <= Truth("incomplete")
      /\ Truth("incomplete") <= N(4, "incomplete") + Missed("incomplete")
  BY <1>1, <1>2, MarkerCount
<1>8. \A m \in {"tokens", "filter", "finish"} :
        /\ N(4, m) \in Nat /\ Missed(m) \in Nat /\ Truth(m) \in Nat
        /\ Truth(m) <= N(4, m) + Missed(m)
  BY <1>1, <1>2, MarkerCount
<1>9. /\ N(5, "tokens") \in Nat /\ N(5, "tokens") <= Truth("tokens")
      /\ N(6, "filter") \in Nat /\ N(6, "filter") <= Truth("filter")
      /\ N(7, "finish") \in Nat /\ N(7, "finish") <= Truth("finish")
  BY <1>1, <1>2, MarkerCount
<1>10. Cardinality(late) \in Nat
  BY FS_CardinalityType DEF AllRead
<1> HIDE DEF N, Missed
<1> QED
  BY <1>3, <1>4, <1>5, <1>6, <1>7, <1>8, <1>9, <1>10 DEF count_upstream_incomplete

\* At the end every row is right but for the lines that arrived meanwhile, and
\* never too high.
LEMMA RowsNearTruth ==
  ASSUME CounterInv, Done, NEW m \in Markers
  PROVE  Truth(m) - rows[m] \in 0..Cardinality(late)
<1>1. AllRead /\ \A k \in Turns : \A log : HasRead(k, log)
  BY EndFacts
<1>2. Truth("failed") - rows.failed \in 0..Cardinality(late)
  BY <1>1, BridgeRow DEF rows
<1>3. Truth("incomplete") - rows.incomplete \in 0..Cardinality(late)
  BY <1>1, IncompleteRow DEF rows
<1>4. \A k \in {2, 3, 5, 6, 7, 8} : k \in Turns
  BY PassFacts
<1>5. /\ passes[2] = "bridge_encode" /\ Pattern(2) = {"encode"}
      /\ passes[3] = "upstream_failed" /\ Pattern(3) = {"status"}
      /\ passes[5] = "max_output_tokens" /\ Pattern(5) = {"tokens"}
      /\ passes[6] = "content_filter" /\ Pattern(6) = {"filter"}
      /\ passes[7] = "finish_content_filter" /\ Pattern(7) = {"finish"}
      /\ passes[8] = "total" /\ Pattern(8) = {"code"}
  BY DEF passes, Pattern, patterns
<1>6. /\ Truth("encode") - rows.encode \in 0..Cardinality(late)
      /\ Truth("status") - rows.status \in 0..Cardinality(late)
      /\ Truth("tokens") - rows.tokens \in 0..Cardinality(late)
      /\ Truth("filter") - rows.filter \in 0..Cardinality(late)
      /\ Truth("finish") - rows.finish \in 0..Cardinality(late)
      /\ Truth("code") - rows.code \in 0..Cardinality(late)
  BY <1>1, <1>4, <1>5, PlainRow DEF rows
<1> QED BY <1>2, <1>3, <1>6 DEF Markers

\* A count is a number, and so is a difference of counts.
LEMMA RowsAreNumbers ==
  ASSUME CounterInv, Done, NEW m \in Markers
  PROVE  Truth(m) \in Nat /\ rows[m] \in Int /\ Cardinality(late) \in Nat
<1>1. AllRead
  BY EndFacts
<1>2. \A p \in DOMAIN patterns : IsFiniteSet(found[p])
  <2>1. \A k \in Turns : IsFiniteSet(FoundIn(k))
    BY <1>1, FS_Subset DEF AllRead, CountsOnlyItsOwn
  <2>2. \A p \in DOMAIN patterns : \E k \in 1..8 : p = passes[k]
    BY DEF patterns, passes
  <2> QED BY <2>1, <2>2, PassFacts DEF FoundIn
<1>3. \A p \in DOMAIN patterns : count(p) \in Nat
  BY <1>2, FS_CardinalityType DEF count
<1>4. rows[m] \in Int
  BY <1>3 DEF rows, count_bridge_generic, count_upstream_incomplete, patterns, Markers
<1>5. Truth(m) \in Nat
  BY <1>1, FS_Subset, FS_CardinalityType DEF AllRead, Truth
<1> QED BY <1>1, <1>4, <1>5, FS_CardinalityType DEF AllRead

\* No row of the counter exceeds the lines of its own, however many arrive while
\* it runs, as long as no log it reads is removed.
THEOREM RowsNeverInflated == Spec => []NeverInflated
<1>1. CounterInv => NeverInflated
  BY RowsNearTruth, RowsAreNumbers DEF NeverInflated
<1> QED BY <1>1, CounterInductive, PTL

\* Nor does it miss more lines than arrived while it ran.
THEOREM RowsNearlyExact == Spec => []ErrorIsBounded
<1>1. CounterInv => ErrorIsBounded
  BY RowsNearTruth, RowsAreNumbers DEF ErrorIsBounded
<1> QED BY <1>1, CounterInductive, PTL
=============================================================================
