----------------------- MODULE StreamRedactor_proofs -----------------------
(***************************************************************************)
(* Theorems about StreamRedactor for every text, every window size, every  *)
(* number of rules and every way the provider cuts the text into events.   *)
(***************************************************************************)
EXTENDS StreamRedactor, FiniteSetTheorems, WellFoundedInduction, TLAPS

-----------------------------------------------------------------------------
(* Facts about numbers, rules and hits.                                    *)

\* A nonempty set of numbers has a least element.  The loop over the rules is
\* proved by looking at the least index at which a claim about it would fail.
LEMMA LeastNat ==
  ASSUME NEW T, T \subseteq Nat, T # {}
  PROVE  \E x \in T : \A y \in T : x <= y
<1> DEFINE U == {0 .. k : k \in T}
<1>1. U \subseteq FiniteSubsetsOf(Nat)
  <2>1. ASSUME NEW k \in T PROVE 0 .. k \in FiniteSubsetsOf(Nat)
    BY FS_Interval, k \in Nat, 0 .. k \subseteq Nat DEF FiniteSubsetsOf
  <2>2. QED BY <2>1
<1>2. U # {}
  OBVIOUS
<1>3. IsWellFoundedOn(StrictSubsetOrdering(Nat), FiniteSubsetsOf(Nat))
  BY FS_StrictSubsetOrderingWellFounded
<1>4. PICK u \in U : \A v \in U : <<v, u>> \notin StrictSubsetOrdering(Nat)
  <2> HIDE DEF U
  <2> QED BY <1>1, <1>2, <1>3, WFMin
<1>5. PICK x \in T : u = 0 .. x
  OBVIOUS
<1>6. ASSUME NEW y \in T, y < x PROVE FALSE
  <2>1. 0 .. y \in U /\ 0 .. y \subseteq u /\ 0 .. y # u
    BY <1>5, <1>6
  <2>2. <<0 .. y, u>> \in StrictSubsetOrdering(Nat)
    BY <2>1, <1>5 DEF StrictSubsetOrdering
  <2>3. QED BY <1>4, <2>1, <2>2
<1>7. QED BY <1>6

\* A rule has an index, and it is the rule at its index.
LEMMA RuleIndexOf ==
  ASSUME NEW r \in Rules
  PROVE  /\ RuleIndex(r) \in 1 .. Len(RuleOrder) /\ RuleIndex(r) \in Nat
         /\ RuleOrder[RuleIndex(r)] = r
<1>1. PICK i \in 1 .. Len(RuleOrder) : RuleOrder[i] = r
  BY DEF Rules
<1>2. RuleIndex(r) \in 1 .. Len(RuleOrder) /\ RuleOrder[RuleIndex(r)] = r
  BY <1>1 DEF RuleIndex
<1>3. Len(RuleOrder) \in Nat
  BY RuleAssumption
<1>4. QED BY <1>2, <1>3

\* A hit of a text has a rule and three ordered positions.
LEMMA HitType ==
  ASSUME hits \in HitSets, NEW h \in hits
  PROVE  /\ h.rule \in Rules
         /\ h.first \in Pos /\ h.core \in Pos /\ h.last \in Pos
         /\ h.first \in Nat /\ h.core \in Nat /\ h.last \in Nat
         /\ h.first <= h.core /\ h.core <= h.last
<1>1. h \in Hit /\ WellFormed(h)
  BY HitAssumption
<1>2. Pos \subseteq Nat
  BY BoundsAssumption DEF Pos
<1>3. QED BY <1>1, <1>2 DEF Hit, WellFormed

\* A match ends inside the slice, and not behind its own last character.
LEMMA EndInBounds ==
  ASSUME hits \in HitSets, NEW h \in hits, NEW hi \in Nat
  PROVE  /\ EndIn(h, hi) \in Nat /\ EndIn(h, hi) <= h.last /\ EndIn(h, hi) <= hi
         /\ h.last <= hi => EndIn(h, hi) = h.last
         /\ hi < h.last => EndIn(h, hi) = hi
BY HitType DEF EndIn

-----------------------------------------------------------------------------
(* Redaction of a slice.                                                   *)

\* Overlap resolution keeps a match that overlaps no other one.
LEMMA IsolatedIsKept ==
  ASSUME hits \in HitSets, NEW lo \in Nat, NEW hi \in Nat,
         NEW kept \in KeptSets(lo, hi),
         NEW h \in Found(lo, hi), Isolated(h)
  PROVE  h \in kept
<1>1. h \in hits /\ kept \subseteq hits
  BY DEF KeptSets, Found, InForce
<1>2. ASSUME NEW k \in kept, Before(k, h, hi), h.first <= EndIn(k, hi)
      PROVE  FALSE
  <2>1. k.first <= h.first
    BY <1>1, <1>2, HitType DEF Before
  <2>2. EndIn(k, hi) <= k.last /\ EndIn(k, hi) \in Nat
    BY <1>1, EndInBounds
  <2>3. Meet(h, k)
    BY <1>1, <1>2, <2>1, <2>2, HitType DEF Meet
  <2>4. k = h
    BY <1>1, <2>3 DEF Isolated
  <2>5. RuleIndex(h.rule) \in Nat
    <3>1. h.rule \in Rules
      BY <1>1, HitType
    <3>2. QED BY <3>1, RuleIndexOf
  <2>6. h.first \in Nat /\ EndIn(h, hi) \in Nat
    BY <1>1, HitType, EndInBounds
  <2>7. QED BY <1>2, <2>4, <2>5, <2>6 DEF Before
<1>3. QED
  BY <1>2 DEF KeptSets, Keeps

\* What is kept is masked: a whole isolated match never survives the scrub of a
\* slice.
LEMMA IsolatedIsMasked ==
  ASSUME hits \in HitSets, NEW lo \in Nat, NEW hi \in Nat,
         NEW kept \in KeptSets(lo, hi),
         NEW h \in Found(lo, hi), Isolated(h), h.last <= hi
  PROVE  (h.first .. h.last) \cap Unmasked(kept, lo, hi) = {}
<1>1. h \in hits /\ h \in kept
  BY IsolatedIsKept DEF Found, InForce
<1>2. EndIn(h, hi) = h.last
  BY <1>1, EndInBounds
<1>3. h.first .. h.last \subseteq Masked(kept, hi)
  BY <1>1, <1>2 DEF Masked
<1>4. QED BY <1>3 DEF Unmasked

-----------------------------------------------------------------------------
(* The emit boundary.                                                      *)

\* A position pair: the boundary c does not fall inside the match h.
Avoids(h, c, hi) == ~ (h.first <= c /\ c < EndIn(h, hi))

\* The chosen straddling match is one of them.
LEMMA CutAfterRuleCases ==
  ASSUME NEW r, NEW c, NEW hi
  PROVE  \/ Straddling(r, c, hi) = {} /\ CutAfterRule(r, c, hi) = c
         \/ \E k \in Straddling(r, c, hi) : CutAfterRule(r, c, hi) = k.first - 1
BY DEF CutAfterRule

\* Scanning a rule never moves the boundary forward.
LEMMA CutAfterRuleLowers ==
  ASSUME hits \in HitSets, NEW r, NEW c \in Nat, NEW hi
  PROVE  CutAfterRule(r, c, hi) <= c
<1>1. ASSUME NEW k \in Straddling(r, c, hi) PROVE k.first - 1 <= c
  <2>1. k \in hits /\ k.first <= c
    BY DEF Straddling, Found, InForce
  <2>2. QED BY <2>1, HitType
<1>2. QED BY <1>1, CutAfterRuleCases

\* Scanning a rule moves the boundary out of an isolated match of this rule,
LEMMA OwnRuleAvoids ==
  ASSUME hits \in HitSets, NEW hi \in Nat, NEW c \in Nat,
         NEW h \in Found(cut + 1, hi), Isolated(h)
  PROVE  Avoids(h, CutAfterRule(h.rule, c, hi), hi)
<1>1. h \in hits
  BY DEF Found, InForce
<1> USE <1>1
<1>2. CASE Straddling(h.rule, c, hi) = {}
  <2>1. h \notin Straddling(h.rule, c, hi)
    BY <1>2
  <2>2. Avoids(h, c, hi)
    BY <2>1 DEF Straddling, Avoids
  <2>3. QED BY <1>2, <2>2, CutAfterRuleCases
<1>3. ASSUME NEW k \in Straddling(h.rule, c, hi)
      PROVE  Avoids(h, k.first - 1, hi)
  <2>1. k \in hits /\ k.first <= c /\ c < EndIn(k, hi)
    BY DEF Straddling, Found, InForce
  <2>2. ASSUME h.first <= k.first - 1, k.first - 1 < EndIn(h, hi) PROVE FALSE
    <3>1. Meet(h, k)
      BY <2>1, <2>2, HitType, EndInBounds DEF Meet
    <3>2. h = k
      BY <2>1, <3>1 DEF Isolated
    <3>3. QED BY <2>2, <3>2, HitType
  <2>3. QED BY <2>2 DEF Avoids
<1>4. QED BY <1>2, <1>3, CutAfterRuleCases

\* ... and no later rule moves it back in.
LEMMA OtherRuleAvoids ==
  ASSUME hits \in HitSets, NEW hi \in Nat, NEW c \in Nat, NEW r,
         NEW h \in Found(cut + 1, hi), Isolated(h), Avoids(h, c, hi)
  PROVE  Avoids(h, CutAfterRule(r, c, hi), hi)
<1>1. h \in hits
  BY DEF Found, InForce
<1> USE <1>1
<1>2. ASSUME NEW k \in Straddling(r, c, hi)
      PROVE  Avoids(h, k.first - 1, hi)
  <2>1. k \in hits /\ k.first <= c /\ c < EndIn(k, hi)
    BY DEF Straddling, Found, InForce
  <2>2. ASSUME h.first <= k.first - 1, k.first - 1 < EndIn(h, hi) PROVE FALSE
    <3>1. Meet(h, k)
      BY <2>1, <2>2, HitType, EndInBounds DEF Meet
    <3>2. h = k
      BY <2>1, <3>1 DEF Isolated
    <3>3. QED BY <2>2, <3>2, HitType
  <2>3. QED BY <2>2 DEF Avoids
<1>3. QED BY <1>2, CutAfterRuleCases

\* The boundary only moves down while the rules are scanned,
LEMMA RunLowers ==
  ASSUME TypeOK, NEW hi \in Nat, NEW c \in CutRuns(hi)
  PROVE  /\ c[Len(RuleOrder)] \in cut .. hi
         /\ c[Len(RuleOrder)] <= WindowCut(hi)
<1> DEFINE L == Len(RuleOrder)
           T == {j \in 0 .. L : c[j] > c[0]}
<1>1. L \in Nat /\ cut \in Nat
  BY RuleAssumption DEF TypeOK
<1>2. c \in [0 .. L -> cut .. hi] /\ CutRun(c, hi)
  BY DEF CutRuns
<1>3. \A j \in 0 .. L : c[j] \in cut .. hi /\ c[j] \in Nat
  BY <1>1, <1>2
<1>4. ASSUME T # {} PROVE FALSE
  <2>1. T \subseteq Nat
    BY <1>1
  <2>2. PICK j \in T : \A i \in T : j <= i
    <3> HIDE DEF T
    <3> QED BY <1>4, <2>1, LeastNat
  <2>3. j \in 1 .. L /\ j - 1 \in 0 .. L /\ j - 1 \notin T
    BY <1>1, <1>3, <2>2
  <2>4. c[j] = CutAfterRule(RuleOrder[j], c[j-1], hi)
    BY <1>2, <2>3 DEF CutRun
  <2>5. c[j] <= c[j-1]
    BY <1>3, <2>3, <2>4, CutAfterRuleLowers DEF TypeOK
  <2>6. QED BY <1>3, <1>1, <2>2, <2>3, <2>5
<1>5. c[L] <= c[0]
  BY <1>1, <1>3, <1>4
<1>6. QED BY <1>1, <1>2, <1>3, <1>5 DEF CutRun

\* ... and ends outside of every isolated match the scan found.
LEMMA RunAvoids ==
  ASSUME TypeOK, NEW hi \in Nat, NEW c \in CutRuns(hi),
         NEW h \in Found(cut + 1, hi), Isolated(h)
  PROVE  Avoids(h, c[Len(RuleOrder)], hi)
<1> DEFINE L == Len(RuleOrder)
           n == RuleIndex(h.rule)
           T == {j \in n .. L : ~ Avoids(h, c[j], hi)}
<1>1. L \in Nat /\ cut \in Nat
  BY RuleAssumption DEF TypeOK
<1>2. c \in [0 .. L -> cut .. hi] /\ CutRun(c, hi)
  BY DEF CutRuns
<1>3. \A j \in 0 .. L : c[j] \in Nat
  BY <1>1, <1>2
<1>4. h \in hits /\ hits \in HitSets
  BY DEF Found, InForce, TypeOK
<1>5. n \in 1 .. L /\ RuleOrder[n] = h.rule /\ n \in Nat
  BY <1>4, HitType, RuleIndexOf
<1>6. ASSUME T # {} PROVE FALSE
  <2>1. T \subseteq Nat
    BY <1>1, <1>5
  <2>2. PICK j \in T : \A i \in T : j <= i
    <3> HIDE DEF T
    <3> QED BY <1>6, <2>1, LeastNat
  <2>3. j \in 1 .. L /\ j - 1 \in 0 .. L
    BY <1>1, <1>5, <2>2
  <2>4. c[j] = CutAfterRule(RuleOrder[j], c[j-1], hi)
    BY <1>2, <2>3 DEF CutRun
  <2>5. CASE j = n
    <3>1. Avoids(h, c[j], hi)
      BY <1>3, <1>4, <1>5, <2>3, <2>4, <2>5, OwnRuleAvoids
    <3>2. QED BY <2>2, <3>1
  <2>6. CASE j # n
    <3>1. j - 1 \in n .. L /\ j - 1 \notin T
      BY <1>1, <1>5, <2>2, <2>6
    <3>2. Avoids(h, c[j-1], hi)
      BY <3>1
    <3>3. Avoids(h, c[j], hi)
      BY <1>3, <1>4, <2>3, <2>4, <3>2, OtherRuleAvoids
    <3>4. QED BY <2>2, <3>3
  <2>7. QED BY <2>5, <2>6
<1>7. L \in n .. L /\ L \notin T
  BY <1>1, <1>5, <1>6
<1>8. QED BY <1>7

-----------------------------------------------------------------------------
(* Type correctness.                                                       *)

\* The matches of a slice are finitely many and can be counted.
LEMMA KeptType ==
  ASSUME hits \in HitSets, NEW lo, NEW hi, NEW kept \in KeptSets(lo, hi), NEW r
  PROVE  kept \subseteq hits /\ CountOf(kept, r) \in Nat
<1>1. kept \subseteq hits
  BY DEF KeptSets, Found, InForce
<1>2. IsFiniteSet(hits)
  BY HitAssumption
<1>3. {h \in kept : h.rule = r} \subseteq hits
  BY <1>1
<1>4. IsFiniteSet({h \in kept : h.rule = r})
  BY <1>2, <1>3, FS_Subset
<1>5. QED BY <1>1, <1>4, FS_CardinalityType DEF CountOf

\* A written slice of the text extends the written deltas by a delta.
LEMMA WriteType ==
  ASSUME NEW items \in Seq(TextItem), NEW ch \in Channel \cup {NoTemplate},
         NEW lo \in Nat, NEW hi \in Nat, 1 <= lo, hi <= TextLen
  PROVE  Write(items, ch, lo, hi) \in Seq(TextItem)
<1>1. CASE lo > hi
  BY <1>1 DEF Write
<1>2. CASE ~ (lo > hi)
  <2>1. lo \in Pos /\ hi \in Pos
    BY <1>2, BoundsAssumption DEF Pos
  <2>2. [chan |-> ch, lo |-> lo, hi |-> hi] \in TextItem
    BY <2>1 DEF TextItem
  <2>3. QED BY <1>2, <2>2 DEF Write
<1>3. QED BY <1>1, <1>2

\* A slice that ends inside the text shows only positions of the text.
LEMMA UnmaskedType ==
  ASSUME NEW lo \in Nat, NEW hi \in Nat, 1 <= lo, hi <= TextLen, NEW kept
  PROVE  Unmasked(kept, lo, hi) \subseteq Pos
BY BoundsAssumption DEF Unmasked, Pos

\* Merging the counts of a scrub leaves natural numbers.
LEMMA MergedType ==
  ASSUME TypeOK, NEW lo, NEW hi, NEW kept \in KeptSets(lo, hi)
  PROVE  Merged(kept) \in [Rules -> Nat]
<1>1. ASSUME NEW r \in Rules PROVE matched[r] + CountOf(kept, r) \in Nat
  <2>1. CountOf(kept, r) \in Nat
    BY KeptType DEF TypeOK
  <2>2. matched[r] \in Nat
    BY DEF TypeOK
  <2>3. QED BY <2>1, <2>2
<1>2. QED BY <1>1 DEF Merged

\* What flushPending leaves of the types.
LEMMA FlushType ==
  ASSUME TypeOK, FlushPending
  PROVE  /\ cut' = fed /\ texts' \in Seq(TextItem) /\ clear' \subseteq Pos
         /\ matched' \in [Rules -> Nat] /\ lapsed' \subseteq hits
         /\ breaks' \subseteq 0 .. TextLen
<1>1. PICK kept \in KeptSets(cut + 1, fed) :
        /\ cut' = fed
        /\ texts' = Write(texts, template, cut + 1, fed)
        /\ clear' = clear \cup Unmasked(kept, cut + 1, fed)
        /\ matched' = Merged(kept)
        /\ lapsed' = lapsed \cup Lapsing(fed)
        /\ breaks' = breaks \cup {fed}
  BY DEF FlushPending
<1>2. fed \in Nat /\ fed <= TextLen /\ cut \in Nat
  BY BoundsAssumption DEF TypeOK
<1>3. texts' \in Seq(TextItem)
  <2>1. texts \in Seq(TextItem) /\ template \in Channel \cup {NoTemplate}
    BY DEF TypeOK
  <2>2. cut + 1 \in Nat /\ 1 <= cut + 1
    BY <1>2
  <2>3. QED BY <1>1, <1>2, <2>1, <2>2, WriteType
<1>4. clear' \subseteq Pos
  <2>1. Unmasked(kept, cut + 1, fed) \subseteq Pos
    BY <1>2, UnmaskedType
  <2>2. QED BY <1>1, <2>1 DEF TypeOK
<1>5. matched' \in [Rules -> Nat]
  BY <1>1, MergedType
<1>6. lapsed' \subseteq hits
  BY <1>1 DEF TypeOK, Lapsing
<1>7. breaks' \subseteq 0 .. TextLen
  <2>1. fed \in 0 .. TextLen /\ breaks \subseteq 0 .. TextLen
    BY DEF TypeOK
  <2>2. QED BY <1>1, <2>1
<1>8. QED BY <1>1, <1>3, <1>4, <1>5, <1>6, <1>7

\* What Arrive leaves of the types.
LEMMA ArriveType ==
  ASSUME TypeOK, NEW n \in 0 .. MaxDelta, NEW ch \in Channel, Arrive(n, ch)
  PROVE  /\ fed' = fed + n /\ fed' \in 0 .. TextLen /\ fed' \in Nat /\ fed <= fed'
         /\ home' \in [Pos -> Channel] /\ template' = ch
         /\ lapsed' \subseteq hits /\ raw' \in 0 .. MaxUnframed
<1>1. n \in Nat /\ fed \in Nat
  BY BoundsAssumption DEF TypeOK
<1>2. fed' = fed + n /\ fed + n <= TextLen /\ raw' = 0 /\ template' = ch
  BY DEF Arrive
<1>3. home' \in [Pos -> Channel]
  BY DEF Arrive, TypeOK
<1>4. lapsed' \subseteq hits
  BY DEF Arrive, TypeOK, Lapsing
<1>5. QED BY <1>1, <1>2, <1>3, <1>4, BoundsAssumption

\* The types of the three values a scrub outside the channel changes.
LEMMA ScrubAsideType ==
  ASSUME TypeOK, NEW found, ScrubAside(found)
  PROVE  matched' \in [Rules -> Nat] /\ aside' \in [Rules -> 0 .. MaxAside]
BY BoundsAssumption DEF ScrubAside, TypeOK

\* The redactor starts with every variable of its type.
THEOREM TypeInit == Init => TypeOK
<1> SUFFICES ASSUME Init PROVE TypeOK
  OBVIOUS
<1>1. 0 \in Channel /\ 0 \in 0 .. TextLen /\ 0 \in 0 .. MaxUnframed /\ 0 \in 0 .. MaxAside
  BY BoundsAssumption DEF Channel
<1>2. home \in [Pos -> Channel] /\ aside \in [Rules -> 0 .. MaxAside]
  BY <1>1 DEF Init
<1>3. texts \in Seq(TextItem) /\ matched \in [Rules -> Nat]
  BY DEF Init
<1>4. cut \in 0 .. fed
  BY DEF Init
<1>5. QED BY <1>1, <1>2, <1>3, <1>4 DEF Init, TypeOK

\* A step of the redactor keeps every type.
THEOREM TypeNext == TypeOK /\ [Next]_vars => TypeOK'
<1> SUFFICES ASSUME TypeOK, [Next]_vars PROVE TypeOK'
  OBVIOUS
<1> USE DEF registry, channel
<1>0. fed \in Nat /\ cut \in Nat /\ cut <= fed /\ fed <= TextLen /\ Len(texts) \in Nat
  BY BoundsAssumption DEF TypeOK
<1>1. ASSUME NEW n \in 0 .. MaxDelta, NEW ch \in Channel, TextDelta(n, ch) PROVE TypeOK'
  <2>0. PICK c \in CutRuns(fed + n) :
          \E kept \in KeptSets(cut + 1, c[Len(RuleOrder)]) :
            /\ cut' = c[Len(RuleOrder)]
            /\ texts' = Write(texts, ch, cut + 1, c[Len(RuleOrder)])
            /\ clear' = clear \cup Unmasked(kept, cut + 1, c[Len(RuleOrder)])
            /\ matched' = Merged(kept)
    BY <1>1 DEF TextDelta
  <2>1. PICK kept \in KeptSets(cut + 1, c[Len(RuleOrder)]) :
          /\ cut' = c[Len(RuleOrder)]
          /\ texts' = Write(texts, ch, cut + 1, c[Len(RuleOrder)])
          /\ clear' = clear \cup Unmasked(kept, cut + 1, c[Len(RuleOrder)])
          /\ matched' = Merged(kept)
    BY <2>0
  <2>2. Arrive(n, ch) /\ UNCHANGED <<registry, block, status, stops, breaks, aside>>
    BY <1>1 DEF TextDelta
  <2>3. /\ fed' = fed + n /\ fed' \in 0 .. TextLen /\ fed' \in Nat /\ fed <= fed'
        /\ home' \in [Pos -> Channel] /\ template' = ch
        /\ lapsed' \subseteq hits /\ raw' \in 0 .. MaxUnframed
    BY <2>2, ArriveType
  <2>4. cut' \in cut .. fed'
    BY <2>1, <2>3, RunLowers
  <2>5. cut' \in 0 .. fed' /\ cut' \in Nat /\ cut' <= TextLen
    BY <1>0, <2>3, <2>4, BoundsAssumption
  <2>6. texts' \in Seq(TextItem)
    <3>1. texts \in Seq(TextItem)
      BY DEF TypeOK
    <3>2. QED BY <1>0, <2>1, <2>5, <3>1, WriteType
  <2>7. clear' \subseteq Pos
    <3>1. Unmasked(kept, cut + 1, cut') \subseteq Pos
      BY <1>0, <2>5, UnmaskedType
    <3>2. QED BY <2>1, <3>1 DEF TypeOK
  <2>8. matched' \in [Rules -> Nat]
    BY <2>1, MergedType
  <2>9. QED BY <2>2, <2>3, <2>5, <2>6, <2>7, <2>8 DEF TypeOK
<1>2. ASSUME NEW n \in 0 .. MaxDelta, NEW ch \in Channel, TerminalTextDelta(n, ch)
      PROVE  TypeOK'
  <2> DEFINE hi == fed + n
  <2>0. PICK c \in CutRuns(hi) :
          \E kept \in KeptSets(cut + 1, c[Len(RuleOrder)]),
             tail \in KeptSets(c[Len(RuleOrder)] + 1, hi) :
            /\ texts' = Write(Write(texts, ch, c[Len(RuleOrder)] + 1, hi), ch,
                              cut + 1, c[Len(RuleOrder)])
            /\ clear' = clear \cup Unmasked(kept, cut + 1, c[Len(RuleOrder)])
                              \cup Unmasked(tail, c[Len(RuleOrder)] + 1, hi)
            /\ matched' = [r \in Rules |-> matched[r] + CountOf(kept, r) + CountOf(tail, r)]
            /\ stops' = stops \cup TerminalStops(ch, c[Len(RuleOrder)] + 1, hi, texts')
    BY <1>2 DEF TerminalTextDelta
  <2>1. PICK kept \in KeptSets(cut + 1, c[Len(RuleOrder)]),
             tail \in KeptSets(c[Len(RuleOrder)] + 1, hi) :
          /\ texts' = Write(Write(texts, ch, c[Len(RuleOrder)] + 1, hi), ch,
                            cut + 1, c[Len(RuleOrder)])
          /\ clear' = clear \cup Unmasked(kept, cut + 1, c[Len(RuleOrder)])
                            \cup Unmasked(tail, c[Len(RuleOrder)] + 1, hi)
          /\ matched' = [r \in Rules |-> matched[r] + CountOf(kept, r) + CountOf(tail, r)]
          /\ stops' = stops \cup TerminalStops(ch, c[Len(RuleOrder)] + 1, hi, texts')
    BY <2>0
  <2>2. /\ Arrive(n, ch) /\ cut' = hi /\ breaks' = breaks \cup {hi}
        /\ UNCHANGED <<registry, block, status, aside>>
    BY <1>2 DEF TerminalTextDelta
  <2>3. /\ fed' = hi /\ fed' \in 0 .. TextLen /\ fed' \in Nat /\ fed <= fed'
        /\ home' \in [Pos -> Channel] /\ template' = ch
        /\ lapsed' \subseteq hits /\ raw' \in 0 .. MaxUnframed
    BY <2>2, ArriveType
  <2> DEFINE new == c[Len(RuleOrder)]
  <2>4. new \in cut .. fed'
    BY <2>3, RunLowers
  <2> HIDE DEF new
  <2>5. new \in Nat /\ new <= TextLen /\ hi \in Nat /\ hi <= TextLen
    BY <1>0, <2>3, <2>4, BoundsAssumption
  <2>6. texts' \in Seq(TextItem)
    <3>1. texts \in Seq(TextItem)
      BY DEF TypeOK
    <3>2. Write(texts, ch, new + 1, hi) \in Seq(TextItem)
      BY <2>5, <3>1, WriteType
    <3>3. Write(Write(texts, ch, new + 1, hi), ch, cut + 1, new) \in Seq(TextItem)
      BY <1>0, <2>5, <3>2, WriteType
    <3>4. QED BY <2>1, <3>3 DEF new
  <2>7. clear' \subseteq Pos
    <3>1. Unmasked(kept, cut + 1, new) \subseteq Pos /\ Unmasked(tail, new + 1, hi) \subseteq Pos
      BY <1>0, <2>5, UnmaskedType
    <3>2. QED BY <2>1, <3>1 DEF TypeOK, new
  <2>8. matched' \in [Rules -> Nat]
    <3>1. ASSUME NEW r \in Rules
          PROVE  matched[r] + CountOf(kept, r) + CountOf(tail, r) \in Nat
      <4>1. CountOf(kept, r) \in Nat /\ CountOf(tail, r) \in Nat
        BY KeptType DEF TypeOK
      <4>2. matched[r] \in Nat
        BY DEF TypeOK
      <4>3. QED BY <4>1, <4>2
    <3>2. QED BY <2>1, <3>1
  <2>9. stops' \subseteq StopItem
    <3>1. Len(texts') \in Nat /\ Len(texts) + 1 \in Nat
      BY <2>6 DEF TypeOK
    <3>2. hi \in 0 .. TextLen
      BY <2>3
    <3> HIDE DEF hi
    <3>3. TerminalStops(ch, c[Len(RuleOrder)] + 1, hi, texts') \subseteq StopItem
      BY <3>1, <3>2 DEF TerminalStops, StopItem
    <3>4. QED BY <2>1, <3>3 DEF TypeOK
  <2>10. cut' \in 0 .. fed' /\ breaks' \subseteq 0 .. TextLen
    <3> HIDE DEF hi
    <3>1. hi \in 0 .. TextLen /\ hi \in 0 .. hi /\ breaks \subseteq 0 .. TextLen
      BY <2>3, <2>5 DEF TypeOK
    <3>2. cut' = hi /\ fed' = hi /\ breaks' = breaks \cup {hi}
      BY <2>2, <2>3
    <3>3. QED BY <3>1, <3>2
  <2>11. QED BY <2>2, <2>3, <2>6, <2>7, <2>8, <2>9, <2>10 DEF TypeOK
<1>3. CASE BlockStop
  <2>1. /\ FlushPending /\ block < MaxChannel
        /\ stops' = stops \cup {[chan |-> block, at |-> fed, after |-> Len(texts')]}
        /\ template' = NoTemplate /\ block' = block + 1 /\ raw' = 0
        /\ UNCHANGED <<registry, fed, status, home, aside>>
    BY <1>3 DEF BlockStop
  <2>2. /\ cut' = fed /\ texts' \in Seq(TextItem) /\ clear' \subseteq Pos
        /\ matched' \in [Rules -> Nat] /\ lapsed' \subseteq hits
        /\ breaks' \subseteq 0 .. TextLen
    BY <2>1, FlushType
  <2>3. block' \in Channel /\ raw' \in 0 .. MaxUnframed /\ cut' \in 0 .. fed
    BY <1>0, <2>1, <2>2, BoundsAssumption DEF TypeOK, Channel
  <2>4. stops' \subseteq StopItem
    <3>1. Len(texts') \in Nat
      BY <2>2
    <3>2. QED BY <2>1, <3>1 DEF TypeOK, StopItem
  <2>5. QED BY <2>1, <2>2, <2>3, <2>4 DEF TypeOK
<1>4. ASSUME NEW ch \in Channel, Terminal(ch) PROVE TypeOK'
  <2>1. /\ FlushPending /\ raw' = 0
        /\ stops' = stops \cup {[chan |-> ch, at |-> fed, after |-> Len(texts')]}
        /\ UNCHANGED <<registry, fed, template, block, status, home, aside>>
    BY <1>4 DEF Terminal
  <2>2. /\ cut' = fed /\ texts' \in Seq(TextItem) /\ clear' \subseteq Pos
        /\ matched' \in [Rules -> Nat] /\ lapsed' \subseteq hits
        /\ breaks' \subseteq 0 .. TextLen
    BY <2>1, FlushType
  <2>3. raw' \in 0 .. MaxUnframed /\ cut' \in 0 .. fed
    BY <1>0, <2>1, <2>2, BoundsAssumption
  <2>4. stops' \subseteq StopItem
    <3>1. Len(texts') \in Nat
      BY <2>2
    <3>2. QED BY <2>1, <3>1 DEF TypeOK, StopItem
  <2>5. QED BY <2>1, <2>2, <2>3, <2>4 DEF TypeOK
<1>5. CASE OtherEvent
  BY <1>5, BoundsAssumption DEF OtherEvent, TypeOK
<1>6. ASSUME NEW found, MalformedEvent(found) PROVE TypeOK'
  <2>1. ScrubAside(found) /\ raw' = 0 /\ UNCHANGED <<registry, channel, status>>
    BY <1>6 DEF MalformedEvent
  <2>2. QED BY <2>1, ScrubAsideType, BoundsAssumption DEF TypeOK
<1>7. CASE UnframedRead
  BY <1>7, BoundsAssumption DEF UnframedRead, TypeOK
<1>8. ASSUME NEW found, UnframedOverflow(found) PROVE TypeOK'
  <2>1. ScrubAside(found) /\ raw' = 0 /\ UNCHANGED <<registry, channel, status>>
    BY <1>8 DEF UnframedOverflow
  <2>2. QED BY <2>1, ScrubAsideType, BoundsAssumption DEF TypeOK
<1>9. CASE UpstreamEnd
  <2>1. /\ FlushPending /\ status' = "ended"
        /\ UNCHANGED <<registry, raw, fed, template, block, stops, home, aside>>
    BY <1>9 DEF UpstreamEnd
  <2>2. /\ cut' = fed /\ texts' \in Seq(TextItem) /\ clear' \subseteq Pos
        /\ matched' \in [Rules -> Nat] /\ lapsed' \subseteq hits
        /\ breaks' \subseteq 0 .. TextLen
    BY <2>1, FlushType
  <2>3. cut' \in 0 .. fed
    BY <1>0, <2>2
  <2>4. QED BY <2>1, <2>2, <2>3 DEF TypeOK
<1>10. CASE UpstreamError
  BY <1>10 DEF UpstreamError, TypeOK
<1>11. ASSUME NEW r \in Rules, SetRuleEnabled(r) PROVE TypeOK'
  BY <1>11 DEF SetRuleEnabled, TypeOK
<1>12. ASSUME NEW h \in hits, SetAllowlisted(h) PROVE TypeOK'
  BY <1>12 DEF SetAllowlisted, TypeOK
<1>13. CASE UNCHANGED vars
  BY <1>13 DEF vars, TypeOK
<1>14. QED
  BY <1>1, <1>2, <1>3, <1>4, <1>5, <1>6, <1>7, <1>8, <1>9, <1>10, <1>11, <1>12, <1>13
     DEF Next

\* The types hold in every state of every behaviour: the released prefix stays
\* behind the received one and the unframed tail under its cap.
THEOREM TypeCorrect == Spec => []TypeOK
<1>1. Init => TypeOK
  BY TypeInit
<1>2. TypeOK /\ [Next]_vars => TypeOK'
  BY TypeNext
<1>3. QED BY <1>1, <1>2, PTL DEF Spec

-----------------------------------------------------------------------------
(* No covered match reaches the client.                                    *)

\* The boundary does not split h, and none of it has gone out.
Clean(h) ==
  /\ ~ (h.first <= cut /\ cut < h.last)
  /\ (h.first .. h.last) \cap clear = {}

\* NoLeak alone is not inductive: with the boundary inside of a match, the rest
\* of the match is no longer recognised and the next slice shows it.
CleanInv == \A h \in hits : Covered(h) => Clean(h)

\* A slice a+1..b that ends outside of h shows nothing of h, if h is in force
\* when the slice reaches it.
LEMMA SliceHides ==
  ASSUME hits \in HitSets, NEW h \in hits, Isolated(h),
         NEW a \in Nat, NEW b \in Nat,
         ~ (h.first <= a /\ a < h.last), ~ (h.first <= b /\ b < h.last),
         h \in InForce \/ h.first > b \/ h.last <= a,
         NEW kept \in KeptSets(a + 1, b)
  PROVE  (h.first .. h.last) \cap Unmasked(kept, a + 1, b) = {}
<1>1. h.first \in Nat /\ h.core \in Nat /\ h.last \in Nat
      /\ h.first <= h.core /\ h.core <= h.last
  BY HitType
<1>2. CASE h.last <= a \/ h.first > b
  BY <1>1, <1>2 DEF Unmasked
<1>3. CASE ~ (h.last <= a \/ h.first > b)
  <2>1. h.last <= b /\ h \in InForce /\ a + 1 <= h.first /\ h.core <= b
    BY <1>1, <1>3
  <2>2. h \in Found(a + 1, b)
    BY <2>1 DEF Found
  <2>3. QED BY <2>1, <2>2, IsolatedIsMasked
<1>4. QED BY <1>2, <1>3

\* The boundary feed computes does not fall inside of h, if h is in force when
\* the slice reaches it and its recognisable part fits the window.
LEMMA FeedAvoids ==
  ASSUME TypeOK, NEW hi \in Nat, NEW c \in CutRuns(hi),
         NEW h \in hits, Isolated(h), ~ (h.first <= cut /\ cut < h.last),
         h.core - h.first <= Holdback, Holdback = 0 => h.core = h.last,
         h \in InForce \/ h.first > hi \/ h.last <= cut
  PROVE  ~ (h.first <= c[Len(RuleOrder)] /\ c[Len(RuleOrder)] < h.last)
<1> DEFINE new == c[Len(RuleOrder)]
<1> SUFFICES ASSUME h.first <= new, new < h.last PROVE FALSE
  OBVIOUS
<1>1. h.first \in Nat /\ h.core \in Nat /\ h.last \in Nat
      /\ h.first <= h.core /\ h.core <= h.last
  BY HitType DEF TypeOK
<1>2. new \in cut .. hi /\ new <= WindowCut(hi) /\ cut \in Nat
  BY RunLowers DEF TypeOK
<1>3. new \in Nat /\ cut <= new /\ new <= hi
  BY <1>2
<1>4. Holdback \in Nat
  BY BoundsAssumption
<1> HIDE DEF new
<1>5. cut < h.first
  BY <1>1, <1>2, <1>3
<1>6. WindowCut(hi) = hi - Holdback
  BY <1>1, <1>2, <1>3, <1>4, <1>5 DEF WindowCut
<1>7. new <= hi - Holdback
  BY <1>2, <1>6
<1>8. h.core <= hi /\ cut + 1 <= h.first
  BY <1>1, <1>2, <1>3, <1>4, <1>5, <1>7
<1>9. h \in InForce
  BY <1>1, <1>2, <1>3
<1>10. h \in Found(cut + 1, hi)
  BY <1>8, <1>9 DEF Found
<1>11. ~ (h.first <= new /\ new < EndIn(h, hi))
  BY <1>10, RunAvoids DEF Avoids, new
<1>12. EndIn(h, hi) = IF h.last < hi THEN h.last ELSE hi
  BY DEF EndIn
<1>13. new = hi
  BY <1>1, <1>3, <1>11, <1>12
<1>14. Holdback = 0
  BY <1>3, <1>4, <1>7, <1>13
<1>15. QED BY <1>1, <1>3, <1>14

\* What is covered after a step was covered before: blocks only end, hits only
\* lapse.
LEMMA CoveredBefore ==
  ASSUME hits' = hits, breaks \subseteq breaks', lapsed \subseteq lapsed',
         NEW h, Covered(h)'
  PROVE  /\ Covered(h) /\ h \notin lapsed'
         /\ \A b \in breaks' : ~ (h.first <= b /\ b < h.last)
BY DEF Covered, Isolated

\* A hit that has not lapsed at a scrub up to hi was in force or out of reach.
LEMMA NotLapsing ==
  ASSUME hits \in HitSets, cut \in Nat, NEW hi \in Nat,
         NEW h \in hits, h \notin Lapsing(hi)
  PROVE  h \in InForce \/ h.first > hi \/ h.last <= cut
BY HitType DEF Lapsing

\* Releasing the whole tail keeps covered hits clean.
LEMMA FlushClean ==
  ASSUME TypeOK, CleanInv, FlushPending, hits' = hits
  PROVE  CleanInv'
<1>1. PICK kept \in KeptSets(cut + 1, fed) :
        /\ cut' = fed
        /\ clear' = clear \cup Unmasked(kept, cut + 1, fed)
        /\ lapsed' = lapsed \cup Lapsing(fed)
        /\ breaks' = breaks \cup {fed}
  BY DEF FlushPending
<1>2. cut \in Nat /\ fed \in Nat /\ hits \in HitSets
  BY DEF TypeOK
<1> SUFFICES ASSUME NEW h \in hits, Covered(h)' PROVE Clean(h)'
  BY DEF CleanInv
<1>3. /\ Covered(h) /\ h \notin lapsed'
      /\ \A b \in breaks' : ~ (h.first <= b /\ b < h.last)
  BY <1>1, CoveredBefore
<1>4. Clean(h)
  BY <1>3 DEF CleanInv
<1>5. h \in InForce \/ h.first > fed \/ h.last <= cut
  BY <1>1, <1>2, <1>3, NotLapsing
<1>6. ~ (h.first <= fed /\ fed < h.last)
  BY <1>1, <1>3
<1>7. (h.first .. h.last) \cap Unmasked(kept, cut + 1, fed) = {}
  BY <1>2, <1>3, <1>4, <1>5, <1>6, SliceHides DEF Covered, Clean
<1>8. QED BY <1>1, <1>4, <1>6, <1>7 DEF Clean

\* A step that leaves the released text alone keeps covered hits clean.
LEMMA QuietClean ==
  ASSUME CleanInv, UNCHANGED <<hits, cut, clear, breaks, lapsed>>
  PROVE  CleanInv'
BY DEF CleanInv, Covered, Isolated, Clean

\* Before anything is streamed no covered hit is cut or in the clear.
THEOREM CleanInit == Init => CleanInv
<1> SUFFICES ASSUME Init, NEW h \in hits PROVE Clean(h)
  BY DEF CleanInv
<1>1. h.first \in Pos
  BY HitType DEF Init
<1>2. h.first \in Nat /\ 1 <= h.first
  BY <1>1, BoundsAssumption DEF Pos
<1>3. QED BY <1>2 DEF Init, Clean

\* A step of the redactor keeps covered hits clean.
THEOREM CleanNext == TypeOK /\ CleanInv /\ [Next]_vars => CleanInv'
<1> SUFFICES ASSUME TypeOK, CleanInv, [Next]_vars PROVE CleanInv'
  OBVIOUS
<1> USE DEF registry, channel
<1>0. hits \in HitSets /\ cut \in Nat
  BY DEF TypeOK
<1>1. ASSUME NEW n \in 0 .. MaxDelta, NEW ch \in Channel, TextDelta(n, ch) PROVE CleanInv'
  <2> DEFINE hi == fed + n
  <2>0. PICK c \in CutRuns(hi) :
          \E kept \in KeptSets(cut + 1, c[Len(RuleOrder)]) :
            /\ cut' = c[Len(RuleOrder)]
            /\ clear' = clear \cup Unmasked(kept, cut + 1, c[Len(RuleOrder)])
    BY <1>1 DEF TextDelta
  <2>1. PICK kept \in KeptSets(cut + 1, c[Len(RuleOrder)]) :
          /\ cut' = c[Len(RuleOrder)]
          /\ clear' = clear \cup Unmasked(kept, cut + 1, c[Len(RuleOrder)])
    BY <2>0
  <2>2. hits' = hits /\ breaks' = breaks /\ lapsed' = lapsed \cup Lapsing(hi) /\ Arrive(n, ch)
    BY <1>1 DEF TextDelta, Arrive
  <2>3. hi \in Nat
    BY <2>2, ArriveType
  <2>4. cut' \in cut .. hi /\ cut' \in Nat /\ cut' <= hi /\ cut <= cut'
    BY <1>0, <2>1, <2>3, RunLowers
  <2> HIDE DEF hi
  <2> SUFFICES ASSUME NEW h \in hits, Covered(h)' PROVE Clean(h)'
    BY <2>2 DEF CleanInv
  <2>5. Covered(h) /\ h \notin lapsed'
    BY <2>2, CoveredBefore
  <2>6. Clean(h)
    BY <2>5 DEF CleanInv
  <2>7. h \in InForce \/ h.first > hi \/ h.last <= cut
    BY <1>0, <2>2, <2>3, <2>5, NotLapsing
  <2>8. ~ (h.first <= cut' /\ cut' < h.last)
    BY <2>1, <2>3, <2>5, <2>6, <2>7, FeedAvoids DEF Covered, Clean
  <2>9. (h.first .. h.last) \cap Unmasked(kept, cut + 1, cut') = {}
    <3>1. h \in InForce \/ h.first > cut' \/ h.last <= cut
      BY <1>0, <2>3, <2>4, <2>7, HitType
    <3>2. ~ (h.first <= cut /\ cut < h.last) /\ Isolated(h)
      BY <2>5, <2>6 DEF Covered, Clean
    <3>3. QED BY <1>0, <2>1, <2>4, <2>8, <3>1, <3>2, SliceHides
  <2>10. QED BY <2>1, <2>6, <2>8, <2>9 DEF Clean
<1>2. ASSUME NEW n \in 0 .. MaxDelta, NEW ch \in Channel, TerminalTextDelta(n, ch)
      PROVE  CleanInv'
  <2> DEFINE hi == fed + n
  <2>0. PICK c \in CutRuns(hi) :
          \E kept \in KeptSets(cut + 1, c[Len(RuleOrder)]),
             tail \in KeptSets(c[Len(RuleOrder)] + 1, hi) :
            clear' = clear \cup Unmasked(kept, cut + 1, c[Len(RuleOrder)])
                           \cup Unmasked(tail, c[Len(RuleOrder)] + 1, hi)
    BY <1>2 DEF TerminalTextDelta
  <2> DEFINE new == c[Len(RuleOrder)]
  <2>1. PICK kept \in KeptSets(cut + 1, new), tail \in KeptSets(new + 1, hi) :
            clear' = clear \cup Unmasked(kept, cut + 1, new) \cup Unmasked(tail, new + 1, hi)
    BY <2>0
  <2>2. /\ hits' = hits /\ breaks' = breaks \cup {hi} /\ lapsed' = lapsed \cup Lapsing(hi)
        /\ Arrive(n, ch) /\ cut' = hi
    BY <1>2 DEF TerminalTextDelta, Arrive
  <2>3. hi \in Nat
    BY <2>2, ArriveType
  <2>4. new \in cut .. hi
    BY <2>3, RunLowers
  <2>5. new \in Nat /\ new <= hi /\ cut <= new
    BY <1>0, <2>3, <2>4
  <2> SUFFICES ASSUME NEW h \in hits, Covered(h)' PROVE Clean(h)'
    BY <2>2 DEF CleanInv
  <2>6. Covered(h) /\ h \notin lapsed' /\ ~ (h.first <= hi /\ hi < h.last)
    BY <2>2, CoveredBefore
  <2>7. Clean(h)
    BY <2>6 DEF CleanInv
  <2> HIDE DEF hi
  <2>8. h \in InForce \/ h.first > hi \/ h.last <= cut
    BY <1>0, <2>2, <2>3, <2>6, NotLapsing
  <2>9. Isolated(h) /\ ~ (h.first <= cut /\ cut < h.last)
    BY <2>6, <2>7 DEF Covered, Clean
  <2>10. ~ (h.first <= new /\ new < h.last)
    BY <2>3, <2>6, <2>8, <2>9, FeedAvoids DEF Covered
  <2> HIDE DEF new
  <2>11. (h.first .. h.last) \cap Unmasked(kept, cut + 1, new) = {}
    <3>1. h \in InForce \/ h.first > new \/ h.last <= cut
      BY <1>0, <2>3, <2>5, <2>8, HitType
    <3>2. QED BY <1>0, <2>5, <2>9, <2>10, <3>1, SliceHides
  <2>12. (h.first .. h.last) \cap Unmasked(tail, new + 1, hi) = {}
    <3>1. h \in InForce \/ h.first > hi \/ h.last <= new
      BY <1>0, <2>3, <2>5, <2>8, HitType
    <3>2. QED BY <1>0, <2>3, <2>5, <2>6, <2>9, <2>10, <3>1, SliceHides
  <2>13. QED BY <2>1, <2>2, <2>6, <2>7, <2>11, <2>12 DEF Clean
<1>3. CASE BlockStop
  BY <1>3, FlushClean DEF BlockStop
<1>4. ASSUME NEW ch \in Channel, Terminal(ch) PROVE CleanInv'
  BY <1>4, FlushClean DEF Terminal
<1>5. CASE OtherEvent
  BY <1>5, QuietClean DEF OtherEvent
<1>6. ASSUME NEW found, MalformedEvent(found) PROVE CleanInv'
  BY <1>6, QuietClean DEF MalformedEvent
<1>7. CASE UnframedRead
  BY <1>7, QuietClean DEF UnframedRead
<1>8. ASSUME NEW found, UnframedOverflow(found) PROVE CleanInv'
  BY <1>8, QuietClean DEF UnframedOverflow
<1>9. CASE UpstreamEnd
  BY <1>9, FlushClean DEF UpstreamEnd
<1>10. CASE UpstreamError
  BY <1>10, QuietClean DEF UpstreamError
<1>11. ASSUME NEW r \in Rules, SetRuleEnabled(r) PROVE CleanInv'
  BY <1>11, QuietClean DEF SetRuleEnabled
<1>12. ASSUME NEW h \in hits, SetAllowlisted(h) PROVE CleanInv'
  BY <1>12, QuietClean DEF SetAllowlisted
<1>13. CASE UNCHANGED vars
  BY <1>13, QuietClean DEF vars
<1>14. QED
  BY <1>1, <1>2, <1>3, <1>4, <1>5, <1>6, <1>7, <1>8, <1>9, <1>10, <1>11, <1>12, <1>13
     DEF Next

\* However the provider cuts the text and however the console switches rules
\* while it streams, no character of a covered match reaches the client.
THEOREM NoLeakHolds == Spec => []NoLeak
<1>1. Init => TypeOK /\ CleanInv
  BY TypeInit, CleanInit
<1>2. TypeOK /\ CleanInv /\ [Next]_vars => (TypeOK /\ CleanInv)'
  BY TypeNext, CleanNext
<1>3. CleanInv => NoLeak
  BY DEF CleanInv, Clean, NoLeak
<1>4. QED BY <1>1, <1>2, <1>3, PTL DEF Spec

=============================================================================
