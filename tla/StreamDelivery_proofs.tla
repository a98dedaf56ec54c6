----------------------- MODULE StreamDelivery_proofs -----------------------
(***************************************************************************)
(* Theorems about what StreamRedactor delivers: which text the client has  *)
(* read, in which order and in which block, when it learns of an end.      *)
(***************************************************************************)
EXTENDS StreamRedactor_proofs

-----------------------------------------------------------------------------
(* What a step does to the delivered text.                                 *)

\* The text of one delta arrives; the channel is released up to the new boundary.
Delivers(n, ch) ==
  /\ CanAddress(ch)
  /\ fed' = fed + n
  /\ cut' \in cut .. fed'
  /\ texts' = Write(texts, ch, cut + 1, cut')
  /\ home' = [p \in Pos |-> IF fed < p /\ p <= fed + n THEN ch ELSE home[p]]
  /\ template' = ch
  /\ UNCHANGED <<stops, block>>

\* ... or, in an event that ends the message, the whole channel in two slices.
DeliversLast(n, ch) ==
  /\ Provider # "anthropic"
  /\ fed' = fed + n /\ cut' = fed'
  /\ \E new \in cut .. fed' :
       /\ texts' = Write(Write(texts, ch, new + 1, fed'), ch, cut + 1, new)
       /\ stops' = stops \cup TerminalStops(ch, new + 1, fed', texts')

\* The withheld tail is released, and perhaps a block or the message ends.
Flushes ==
  /\ fed' = fed /\ cut' = fed
  /\ texts' = Write(texts, template, cut + 1, fed)
  /\ home' = home
  /\ \/ stops' = stops
     \/ \E ch \in Channel : stops' = stops \cup {[chan |-> ch, at |-> fed, after |-> Len(texts')]}

Still == UNCHANGED <<fed, cut, texts, stops, home, block, template>>

\* Every step has one of these shapes.
LEMMA DeliveryShapes ==
  ASSUME TypeOK, [Next]_vars
  PROVE  \/ \E n \in 0 .. MaxDelta, ch \in Channel : Delivers(n, ch) \/ DeliversLast(n, ch)
         \/ Flushes
         \/ Still
<1> USE DEF registry, channel
<1>1. ASSUME NEW n \in 0 .. MaxDelta, NEW ch \in Channel, TextDelta(n, ch)
      PROVE  Delivers(n, ch)
  <2>1. Arrive(n, ch) /\ UNCHANGED <<registry, block, status, stops, breaks, aside>>
    BY <1>1 DEF TextDelta
  <2>2. fed' = fed + n /\ fed + n \in Nat /\ fed' = fed + n
    BY <2>1, ArriveType
  <2>3. PICK c \in CutRuns(fed + n) :
          cut' = c[Len(RuleOrder)] /\ texts' = Write(texts, ch, cut + 1, c[Len(RuleOrder)])
    BY <1>1 DEF TextDelta
  <2>4. cut' \in cut .. fed'
    BY <2>2, <2>3, RunLowers
  <2>5. QED BY <2>1, <2>3, <2>4 DEF Arrive, Delivers
<1>2. ASSUME NEW n \in 0 .. MaxDelta, NEW ch \in Channel, TerminalTextDelta(n, ch)
      PROVE  DeliversLast(n, ch)
  <2>1. Provider # "anthropic" /\ Arrive(n, ch) /\ cut' = fed + n
    BY <1>2 DEF TerminalTextDelta
  <2>2. fed' = fed + n /\ fed + n \in Nat
    BY <2>1, ArriveType
  <2>3. PICK c \in CutRuns(fed + n) :
          /\ texts' = Write(Write(texts, ch, c[Len(RuleOrder)] + 1, fed + n), ch,
                            cut + 1, c[Len(RuleOrder)])
          /\ stops' = stops \cup TerminalStops(ch, c[Len(RuleOrder)] + 1, fed + n, texts')
    BY <1>2 DEF TerminalTextDelta
  <2>4. c[Len(RuleOrder)] \in cut .. fed'
    BY <2>2, <2>3, RunLowers
  <2>5. QED BY <2>1, <2>2, <2>3, <2>4 DEF DeliversLast
<1>3. CASE BlockStop
  <2>1. block \in Channel
    BY DEF TypeOK
  <2>2. QED BY <1>3, <2>1 DEF BlockStop, FlushPending, Flushes
<1>4. ASSUME NEW ch \in Channel, Terminal(ch) PROVE Flushes
  BY <1>4 DEF Terminal, FlushPending, Flushes
<1>5. CASE UpstreamEnd
  BY <1>5 DEF UpstreamEnd, FlushPending, Flushes
<1>6. CASE OtherEvent \/ UnframedRead \/ UpstreamError
  BY <1>6 DEF OtherEvent, UnframedRead, UpstreamError, Still
<1>7. ASSUME NEW found, MalformedEvent(found) \/ UnframedOverflow(found) PROVE Still
  BY <1>7 DEF MalformedEvent, UnframedOverflow, Still
<1>8. ASSUME NEW r, SetRuleEnabled(r) PROVE Still
  BY <1>8 DEF SetRuleEnabled, Still
<1>9. ASSUME NEW h, SetAllowlisted(h) PROVE Still
  BY <1>9 DEF SetAllowlisted, Still
<1>10. CASE UNCHANGED vars
  BY <1>10 DEF vars, Still
<1>11. QED
  BY <1>1, <1>2, <1>3, <1>4, <1>5, <1>6, <1>7, <1>8, <1>9, <1>10 DEF Next

\* A slice is written behind what was written before, in one delta or, if it is
\* empty, not at all.
LEMMA Written ==
  ASSUME NEW items \in Seq(TextItem), NEW ch \in Channel \cup {NoTemplate},
         NEW lo \in Nat, NEW hi \in Nat, 1 <= lo, hi <= TextLen
  PROVE  /\ Write(items, ch, lo, hi) \in Seq(TextItem)
         /\ lo > hi => Write(items, ch, lo, hi) = items
         /\ lo <= hi => Len(Write(items, ch, lo, hi)) = Len(items) + 1
         /\ \A i \in 1 .. Len(Write(items, ch, lo, hi)) :
              \/ i \in 1 .. Len(items) /\ Write(items, ch, lo, hi)[i] = items[i]
              \/ /\ lo <= hi /\ i = Len(items) + 1
                 /\ Write(items, ch, lo, hi)[i] = [chan |-> ch, lo |-> lo, hi |-> hi]
<1>1. Write(items, ch, lo, hi) \in Seq(TextItem)
  BY WriteType
<1>2. CASE lo > hi
  BY <1>1, <1>2 DEF Write
<1>3. CASE lo <= hi
  <2> DEFINE e == [chan |-> ch, lo |-> lo, hi |-> hi]
  <2>1. Write(items, ch, lo, hi) = Append(items, e)
    BY <1>3 DEF Write
  <2>2. /\ Len(Append(items, e)) = Len(items) + 1 /\ Len(items) \in Nat
        /\ \A i \in 1 .. Len(items) : Append(items, e)[i] = items[i]
        /\ Append(items, e)[Len(items) + 1] = e
    OBVIOUS
  <2>3. QED BY <1>1, <1>3, <2>1, <2>2
<1>4. QED BY <1>2, <1>3

\* The step extends the delivered text: nothing is taken back or changed.
Extends(items, more) ==
  /\ Len(items) <= Len(more)
  /\ \A i \in 1 .. Len(items) : more[i] = items[i]

\* The client has read the character at p.
Reads(items, p) == \E i \in 1 .. Len(items) : items[i].lo <= p /\ p <= items[i].hi

\* A slice that is written is read from then on, and nothing is lost.
LEMMA WriteReads ==
  ASSUME NEW items \in Seq(TextItem), NEW ch \in Channel \cup {NoTemplate},
         NEW lo \in Nat, NEW hi \in Nat, 1 <= lo, hi <= TextLen
  PROVE  /\ Write(items, ch, lo, hi) \in Seq(TextItem)
         /\ Extends(items, Write(items, ch, lo, hi))
         /\ \A p \in Nat : Reads(items, p) \/ (lo <= p /\ p <= hi) =>
                             Reads(Write(items, ch, lo, hi), p)
<1> DEFINE more == Write(items, ch, lo, hi)
<1>1. /\ more \in Seq(TextItem)
      /\ lo > hi => more = items
      /\ lo <= hi => Len(more) = Len(items) + 1
      /\ \A i \in 1 .. Len(more) :
           \/ i \in 1 .. Len(items) /\ more[i] = items[i]
           \/ /\ lo <= hi /\ i = Len(items) + 1
              /\ more[i] = [chan |-> ch, lo |-> lo, hi |-> hi]
  BY Written
<1>2. Len(items) \in Nat /\ Len(more) \in Nat
  BY <1>1
<1> HIDE DEF more
<1>3. Extends(items, more)
  BY <1>1, <1>2 DEF Extends
<1>4. ASSUME NEW p \in Nat, Reads(items, p) PROVE Reads(more, p)
  BY <1>2, <1>3, <1>4 DEF Extends, Reads
<1>5. ASSUME NEW p \in Nat, lo <= p, p <= hi PROVE Reads(more, p)
  <2>1. lo <= hi
    BY <1>5
  <2>2. Len(items) + 1 \in 1 .. Len(more) /\ Len(items) + 1 \notin 1 .. Len(items)
    BY <1>1, <1>2, <2>1
  <2>3. more[Len(items) + 1] = [chan |-> ch, lo |-> lo, hi |-> hi]
    BY <1>1, <2>2
  <2>4. QED BY <1>5, <2>2, <2>3 DEF Reads
<1>6. QED BY <1>1, <1>3, <1>4, <1>5 DEF more

-----------------------------------------------------------------------------
(* Order.                                                                  *)

\* Whatever a provider without a text-bearing end event sends, a step releases
\* the channel up to a new boundary or leaves it alone.
LEMMA OneSlice ==
  ASSUME TypeOK, TypeOK', [Next]_vars, Provider = "anthropic"
  PROVE  \/ \E ch \in Channel \cup {NoTemplate} :
              cut' \in cut .. fed' /\ texts' = Write(texts, ch, cut + 1, cut')
         \/ cut' = cut /\ texts' = texts
<1>1. ASSUME NEW n \in 0 .. MaxDelta, NEW ch \in Channel, Delivers(n, ch)
      PROVE  \E c \in Channel \cup {NoTemplate} :
               cut' \in cut .. fed' /\ texts' = Write(texts, c, cut + 1, cut')
  BY <1>1 DEF Delivers
<1>2. ASSUME NEW n \in 0 .. MaxDelta, NEW ch \in Channel, DeliversLast(n, ch)
      PROVE  FALSE
  BY <1>2 DEF DeliversLast
<1>3. CASE Flushes
  <2>1. cut' = fed' /\ cut' = fed /\ texts' = Write(texts, template, cut + 1, fed)
    BY <1>3 DEF Flushes
  <2>2. template \in Channel \cup {NoTemplate} /\ cut \in 0 .. fed /\ fed \in Nat /\ cut \in Nat
    BY BoundsAssumption DEF TypeOK
  <2>3. QED BY <2>1, <2>2
<1>4. CASE Still
  BY <1>4 DEF Still
<1>5. QED BY <1>1, <1>2, <1>3, <1>4, DeliveryShapes

\* With a provider whose end events carry no text (anthropic), the client reads
\* the channel in order and each character once, for every text, window and
\* rule set.
THEOREM InOrderDeliveryHolds ==
  ASSUME Provider = "anthropic"
  PROVE  Spec => []InOrderDelivery
<1>1. Init => InOrderDelivery
  BY DEF Init, InOrderDelivery
<1>2. ASSUME TypeOK, TypeOK', InOrderDelivery, [Next]_vars PROVE InOrderDelivery'
  <2>1. CASE cut' = cut /\ texts' = texts
    BY <1>2, <2>1 DEF InOrderDelivery
  <2>2. ASSUME NEW ch \in Channel \cup {NoTemplate}, cut' \in cut .. fed',
               texts' = Write(texts, ch, cut + 1, cut')
        PROVE  InOrderDelivery'
    <3>1. /\ texts \in Seq(TextItem) /\ cut \in Nat /\ cut' \in Nat /\ cut <= cut'
          /\ cut' <= TextLen
      BY <1>2, <2>2, BoundsAssumption DEF TypeOK
    <3>2. CASE cut' = cut
      <4>1. texts' = texts
        BY <2>2, <3>1, <3>2 DEF Write
      <4>2. QED BY <2>1, <3>2, <4>1
    <3>3. CASE cut' > cut
      <4> DEFINE e == [chan |-> ch, lo |-> cut + 1, hi |-> cut']
                 n == Len(texts)
      <4>1. texts' = Append(texts, e)
        BY <2>2, <3>1, <3>3 DEF Write
      <4>2. /\ n \in Nat /\ Len(texts') = n + 1 /\ texts'[n + 1] = e
            /\ \A i \in 1 .. n : texts'[i] = texts[i]
            /\ texts' # <<>> /\ (texts = <<>> <=> n = 0)
        BY <3>1, <4>1
      <4>3. ASSUME NEW i \in 1 .. n
            PROVE  /\ texts'[i].lo <= texts'[i].hi
                   /\ texts'[i].lo = IF i = 1 THEN 1 ELSE texts'[i-1].hi + 1
        <5>1. i = 1 \/ i - 1 \in 1 .. n
          BY <4>2
        <5>2. QED BY <1>2, <4>2, <5>1 DEF InOrderDelivery
      <4>4. /\ e.lo <= e.hi
            /\ e.lo = IF n + 1 = 1 THEN 1 ELSE texts'[n].hi + 1
        <5>1. CASE n = 0
          BY <1>2, <3>1, <3>3, <4>2, <5>1 DEF InOrderDelivery
        <5>2. CASE n # 0
          <6>1. n \in 1 .. n /\ texts'[n] = texts[n]
            BY <4>2, <5>2
          <6>2. cut = texts[n].hi
            BY <1>2, <4>2, <5>2 DEF InOrderDelivery
          <6>3. QED BY <3>1, <3>3, <4>2, <5>2, <6>1, <6>2
        <5>3. QED BY <4>1, <5>1, <5>2
      <4>5. \A i \in 1 .. n + 1 : i \in 1 .. n \/ (i = n + 1 /\ i - 1 = n)
        BY <4>2
      <4>6. cut' = e.hi
        OBVIOUS
      <4> HIDE DEF e
      <4>7. QED BY <4>2, <4>3, <4>4, <4>5, <4>6 DEF InOrderDelivery
    <3>4. QED BY <3>1, <3>2, <3>3
  <2>3. QED BY <1>2, <2>1, <2>2, OneSlice
<1>3. QED BY <1>1, <1>2, TypeCorrect, PTL DEF Spec

-----------------------------------------------------------------------------
(* Ends.                                                                   *)

\* Everything released has been written.
Released == \A p \in 1 .. cut : Reads(texts, p)

StopInv == StopAfterText /\ Released

\* The fields of an end, and their types.
LEMMA StopsType ==
  ASSUME TypeOK, NEW s \in stops
  PROVE  s.chan \in Channel /\ s.at \in 0 .. TextLen /\ s.after \in Nat
BY DEF TypeOK, StopItem

\* The end s is new and stands behind all the text received so far,
EndsAll(s) == s.at = cut' /\ s.after = Len(texts')

\* ... or, where end events carry text, it is followed by one that does.
EndsEarly(s) ==
  /\ Provider # "anthropic"
  /\ s.after <= Len(texts')
  /\ \E t \in stops' : t.chan = s.chan /\ t.at = s.at /\ EndsAll(t)

\* What a step has to do for ends to stay behind their text: extend the
\* delivered text up to the new boundary and write an end only behind all of it.
Advances ==
  /\ Extends(texts, texts')
  /\ \A p \in 1 .. cut' : p \in 1 .. cut \/ Reads(texts', p)
  /\ \A p \in 1 .. cut : Reads(texts, p) => Reads(texts', p)
  /\ stops \subseteq stops'
  /\ \A s \in stops' : s \in stops \/ EndsAll(s) \/ EndsEarly(s)

\* Every step of the redactor does so.
LEMMA StepAdvances ==
  ASSUME TypeOK, TypeOK', [Next]_vars
  PROVE  Advances
<1>0. /\ texts \in Seq(TextItem) /\ fed \in Nat /\ cut \in Nat /\ cut <= fed
      /\ fed' \in Nat /\ cut' \in Nat /\ cut' <= fed' /\ fed' <= TextLen
      /\ template \in Channel \cup {NoTemplate} /\ TextLen \in Nat
  BY BoundsAssumption DEF TypeOK
<1>1. ASSUME NEW n \in 0 .. MaxDelta, NEW ch \in Channel, Delivers(n, ch)
      PROVE  Advances
  <2>1. texts' = Write(texts, ch, cut + 1, cut') /\ stops' = stops
    BY <1>1 DEF Delivers
  <2>2. /\ Extends(texts, texts')
        /\ \A p \in Nat : Reads(texts, p) \/ (cut + 1 <= p /\ p <= cut') => Reads(texts', p)
    <3>1. cut + 1 \in Nat /\ 1 <= cut + 1 /\ cut' \in Nat /\ cut' <= TextLen
      BY <1>0
    <3>2. texts \in Seq(TextItem)
      BY <1>0
    <3>3. QED BY <2>1, <3>1, <3>2, WriteReads
  <2>3. QED BY <1>0, <2>1, <2>2 DEF Advances
<1>2. ASSUME NEW n \in 0 .. MaxDelta, NEW ch \in Channel, DeliversLast(n, ch)
      PROVE  Advances
  <2>1. PICK new \in cut .. fed' :
          /\ texts' = Write(Write(texts, ch, new + 1, fed'), ch, cut + 1, new)
          /\ stops' = stops \cup TerminalStops(ch, new + 1, fed', texts')
    BY <1>2 DEF DeliversLast
  <2>2. cut' = fed' /\ Provider # "anthropic"
    BY <1>2 DEF DeliversLast
  <2> DEFINE first == Write(texts, ch, new + 1, fed')
  <2>3. /\ first \in Seq(TextItem) /\ Extends(texts, first)
        /\ \A p \in Nat : Reads(texts, p) \/ (new + 1 <= p /\ p <= fed') => Reads(first, p)
    <3>1. new + 1 \in Nat /\ 1 <= new + 1 /\ fed' \in Nat /\ fed' <= TextLen
      BY <1>0, <2>1
    <3>2. texts \in Seq(TextItem)
      BY <1>0
    <3>3. QED BY <3>1, <3>2, WriteReads
  <2> HIDE DEF first
  <2>4. /\ Extends(first, texts')
        /\ \A p \in Nat : Reads(first, p) \/ (cut + 1 <= p /\ p <= new) => Reads(texts', p)
    <3>1. texts' = Write(first, ch, cut + 1, new)
      BY <2>1 DEF first
    <3>2. new \in Nat /\ new <= TextLen /\ cut + 1 \in Nat /\ 1 <= cut + 1
      BY <1>0, <2>1
    <3>3. first \in Seq(TextItem)
      BY <2>3
    <3>4. QED BY <3>1, <3>2, <3>3, WriteReads
  <2>5. Extends(texts, texts')
    <3>1. Len(texts) \in Nat /\ Len(first) \in Nat /\ Len(texts') \in Nat
      BY <1>0, <2>3 DEF TypeOK
    <3>2. QED BY <2>3, <2>4, <3>1 DEF Extends
  <2>6. \A p \in 1 .. cut' : p \in 1 .. cut \/ Reads(texts', p)
    BY <1>0, <2>2, <2>3, <2>4
  <2>7. Len(texts) + 1 <= Len(texts') \/ new + 1 > fed'
    <3>1. CASE new + 1 <= fed'
      <4>1. first = Append(texts, [chan |-> ch, lo |-> new + 1, hi |-> fed'])
        BY <1>0, <2>1, <3>1 DEF first, Write
      <4>2. Len(texts) + 1 = Len(first) /\ Len(first) <= Len(texts')
        BY <1>0, <2>4, <4>1 DEF Extends
      <4>3. QED BY <4>2
    <3>2. QED BY <1>0, <2>1, <3>1
  <2>8. stops \subseteq stops' /\ \A s \in stops' : s \in stops \/ EndsAll(s) \/ EndsEarly(s)
    <3> DEFINE body == [chan |-> ch, at |-> fed', after |-> Len(texts')]
    <3>1. body \in stops' /\ EndsAll(body)
      BY <2>1, <2>2 DEF TerminalStops, EndsAll
    <3>2. ASSUME NEW s \in stops', s \notin stops
          PROVE  EndsAll(s) \/ EndsEarly(s)
      <4>1. PICK k \in {Len(texts')} \cup (IF new + 1 > fed' THEN {} ELSE {Len(texts) + 1}) :
              s = [chan |-> ch, at |-> fed', after |-> k]
        BY <2>1, <3>2 DEF TerminalStops
      <4>2. k <= Len(texts')
        <5>1. Len(texts') \in Nat
          BY DEF TypeOK
        <5>2. QED BY <2>7, <4>1, <5>1
      <4>3. s.chan = body.chan /\ s.at = body.at /\ s.after = k
        BY <4>1
      <4>4. QED BY <2>2, <3>1, <4>2, <4>3 DEF EndsEarly
    <3>3. QED BY <2>1, <3>2
  <2>9. QED BY <1>0, <2>2, <2>3, <2>4, <2>5, <2>6, <2>8 DEF Advances
<1>3. CASE Flushes
  <2>1. fed' = fed /\ cut' = fed /\ texts' = Write(texts, template, cut + 1, fed)
    BY <1>3 DEF Flushes
  <2>2. /\ Extends(texts, texts')
        /\ \A p \in Nat : Reads(texts, p) \/ (cut + 1 <= p /\ p <= fed) => Reads(texts', p)
    <3>1. cut + 1 \in Nat /\ 1 <= cut + 1 /\ fed \in Nat /\ fed <= TextLen
      BY <1>0, <2>1
    <3>2. texts \in Seq(TextItem) /\ template \in Channel \cup {NoTemplate}
      BY <1>0
    <3>3. QED BY <2>1, <3>1, <3>2, WriteReads
  <2>3. stops \subseteq stops' /\ \A s \in stops' : s \in stops \/ EndsAll(s)
    BY <1>3, <2>1 DEF Flushes, EndsAll
  <2>4. QED BY <1>0, <2>1, <2>2, <2>3 DEF Advances
<1>4. CASE Still
  <2>1. Len(texts) \in Nat
    BY <1>0
  <2>2. QED BY <1>4, <2>1 DEF Still, Advances, Extends
<1>5. QED BY <1>1, <1>2, <1>3, <1>4, DeliveryShapes

\* An end that stood behind its text still does,
LEMMA BehindStays ==
  ASSUME TypeOK, TypeOK', Advances, NEW s \in stops, BehindText(s)
  PROVE  BehindText(s)'
<1>1. s.after \in Nat /\ s.after <= Len(texts) /\ Len(texts) \in Nat /\ Len(texts') \in Nat
  BY StopsType DEF TypeOK, BehindText
<1>2. Len(texts) <= Len(texts') /\ \A i \in 1 .. s.after : texts'[i] = texts[i]
  BY <1>1 DEF Advances, Extends
<1>3. s.after <= Len(texts')
  BY <1>1, <1>2
<1>4. QED BY <1>2, <1>3 DEF BehindText

\* ... and an end that is told when all has been written stands behind it.
LEMMA BehindAll ==
  ASSUME TypeOK', Released', NEW s, EndsAll(s)
  PROVE  BehindText(s)'
<1>1. Len(texts') \in Nat
  BY DEF TypeOK
<1>2. QED BY <1>1 DEF BehindText, EndsAll, Released, Reads

\* Everything released stays written.
LEMMA ReleasedNext ==
  ASSUME Released, Advances
  PROVE  Released'
BY DEF Released, Advances

\* With a provider whose end events carry no text (anthropic), an end of a block
\* or of the message reaches the client only behind all the text the redactor had
\* received before it.
THEOREM StopAfterTextHolds ==
  ASSUME Provider = "anthropic"
  PROVE  Spec => []StopAfterText
<1>1. Init => StopInv
  BY DEF Init, StopInv, StopAfterText, Released
<1>2. ASSUME TypeOK, TypeOK', StopInv, [Next]_vars PROVE StopInv'
  <2>1. Advances
    BY <1>2, StepAdvances
  <2>2. Released'
    BY <1>2, <2>1, ReleasedNext DEF StopInv
  <2>3. ASSUME NEW s \in stops' PROVE BehindText(s)'
    <3>1. CASE s \in stops
      BY <1>2, <2>1, <3>1, BehindStays DEF StopInv, StopAfterText
    <3>2. CASE EndsAll(s)
      BY <1>2, <2>2, <3>2, BehindAll
    <3>3. QED BY <2>1, <3>1, <3>2 DEF Advances, EndsEarly
  <2>4. QED BY <2>2, <2>3 DEF StopInv, StopAfterText
<1>3. StopInv => StopAfterText
  BY DEF StopInv
<1>4. QED BY <1>1, <1>2, <1>3, TypeCorrect, PTL DEF Spec

LastStopInv == LastStopAfterText /\ Released

\* With every provider, the last time the client is told of an end it has been
\* given all the text the redactor had received before that end.
THEOREM LastStopAfterTextHolds == Spec => []LastStopAfterText
<1>1. Init => LastStopInv
  BY DEF Init, LastStopInv, LastStopAfterText, Released
<1>2. ASSUME TypeOK, TypeOK', LastStopInv, [Next]_vars PROVE LastStopInv'
  <2>1. Advances /\ stops \subseteq stops'
    BY <1>2, StepAdvances DEF Advances
  <2>2. Released'
    BY <1>2, <2>1, ReleasedNext DEF LastStopInv
  <2>3. Len(texts') \in Nat
    BY <1>2 DEF TypeOK
  <2>4. ASSUME NEW s \in stops'
        PROVE  \E t \in stops' :
                 t.chan = s.chan /\ t.at = s.at /\ s.after <= t.after /\ BehindText(t)'
    <3>1. CASE s \in stops
      <4>1. PICK t \in stops :
              t.chan = s.chan /\ t.at = s.at /\ s.after <= t.after /\ BehindText(t)
        BY <1>2, <3>1 DEF LastStopInv, LastStopAfterText
      <4>2. BehindText(t)'
        BY <1>2, <2>1, <4>1, BehindStays
      <4>3. QED BY <2>1, <4>1, <4>2
    <3>2. CASE EndsAll(s)
      <4>1. BehindText(s)' /\ s.after <= s.after
        BY <1>2, <2>2, <2>3, <3>2, BehindAll DEF EndsAll
      <4>2. QED BY <4>1
    <3>3. CASE EndsEarly(s)
      <4>1. PICK t \in stops' : t.chan = s.chan /\ t.at = s.at /\ EndsAll(t)
        BY <3>3 DEF EndsEarly
      <4>2. BehindText(t)' /\ s.after <= t.after
        BY <1>2, <2>2, <3>3, <4>1, BehindAll DEF EndsEarly, EndsAll
      <4>3. QED BY <4>1, <4>2
    <3>4. QED BY <2>1, <3>1, <3>2, <3>3 DEF Advances
  <2>5. QED BY <2>2, <2>4 DEF LastStopInv, LastStopAfterText
<1>3. LastStopInv => LastStopAfterText
  BY DEF LastStopInv
<1>4. QED BY <1>1, <1>2, <1>3, TypeCorrect, PTL DEF Spec

-----------------------------------------------------------------------------
(* Blocks.                                                                 *)

\* Nothing is written beyond the boundary, and the withheld tail belongs to the
\* block the provider is in, which is the block of the stored template: a tail
\* never outlives its block.
TailInBlock ==
  /\ \A i \in 1 .. Len(texts) : texts[i].hi <= cut
  /\ \A p \in Pos : cut < p /\ p <= fed => home[p] = block
  /\ cut < fed => template = block

ChannelInv == TextStaysInChannel /\ TailInBlock

\* The step appends what came in on channel ch behind the old boundary.
AppendsOwn(ch) ==
  /\ cut <= cut'
  /\ texts' = Write(texts, ch, cut + 1, cut')
  /\ \A p \in Pos : p <= cut => home'[p] = home[p]
  /\ \A p \in Pos : cut < p /\ p <= cut' => home'[p] = ch

\* The characters of a delta are in the channel of the delta.
InPlace(item, h) == \A p \in Pos : item.lo <= p /\ p <= item.hi => h[p] = item.chan

\* InPlace, with the positions of the delta.
LEMMA InPlaceMeans ==
  ASSUME NEW item \in TextItem, NEW h
  PROVE  InPlace(item, h) <=> \A p \in item.lo .. item.hi : h[p] = item.chan
<1>1. item.lo \in Pos /\ item.hi \in Pos
  BY DEF TextItem
<1>2. QED BY <1>1, BoundsAssumption DEF InPlace, Pos

\* Every delta of the longer sequence is an old one or the new one.
Adds(items, more, e) ==
  \A i \in 1 .. Len(more) : (i \in 1 .. Len(items) /\ more[i] = items[i]) \/ more[i] = e

\* A slice that is written is the new delta.
LEMMA WriteAdds ==
  ASSUME NEW items \in Seq(TextItem), NEW ch \in Channel \cup {NoTemplate},
         NEW lo \in Nat, NEW hi \in Nat, 1 <= lo, hi <= TextLen
  PROVE  Adds(items, Write(items, ch, lo, hi), [chan |-> ch, lo |-> lo, hi |-> hi])
BY Written DEF Adds

\* Such a step keeps the delivered text in its channels.
LEMMA AppendStays ==
  ASSUME TypeOK, TypeOK', TextStaysInChannel, TailInBlock,
         NEW ch \in Channel \cup {NoTemplate}, AppendsOwn(ch)
  PROVE  TextStaysInChannel' /\ \A i \in 1 .. Len(texts') : texts'[i].hi <= cut'
<1>1. /\ texts \in Seq(TextItem) /\ cut \in Nat /\ cut' \in Nat /\ cut' <= TextLen
      /\ cut <= cut' /\ cut + 1 \in Nat /\ 1 <= cut + 1
  BY BoundsAssumption DEF TypeOK, AppendsOwn
<1>2. Adds(texts, texts', [chan |-> ch, lo |-> cut + 1, hi |-> cut'])
  BY <1>1, WriteAdds DEF AppendsOwn
<1>3. ASSUME NEW i \in 1 .. Len(texts')
      PROVE  texts'[i].hi <= cut' /\ InPlace(texts'[i], home')
  <2>1. CASE i \in 1 .. Len(texts) /\ texts'[i] = texts[i]
    <3>1. texts[i] \in TextItem /\ texts[i].hi <= cut /\ InPlace(texts[i], home)
      BY <1>1, <2>1, InPlaceMeans DEF TailInBlock, TextStaysInChannel
    <3>2. texts[i].lo \in Nat /\ texts[i].hi \in Nat
      BY <3>1, BoundsAssumption DEF TextItem, Pos
    <3>3. \A p \in Pos : p \in Nat
      BY BoundsAssumption DEF Pos
    <3>4. InPlace(texts[i], home')
      BY <1>1, <3>1, <3>2, <3>3 DEF InPlace, AppendsOwn
    <3>5. QED BY <1>1, <2>1, <3>1, <3>2, <3>4
  <2>2. CASE texts'[i] = [chan |-> ch, lo |-> cut + 1, hi |-> cut']
    <3>1. \A p \in Pos : p \in Nat
      BY BoundsAssumption DEF Pos
    <3>2. QED BY <1>1, <2>2, <3>1 DEF InPlace, AppendsOwn
  <2>3. QED BY <1>2, <2>1, <2>2 DEF Adds
<1>4. \A i \in 1 .. Len(texts') : texts'[i] \in TextItem
  BY DEF TypeOK
<1>5. QED BY <1>3, <1>4, InPlaceMeans DEF TextStaysInChannel

\* With anthropic, every character is delivered in the content block it was sent
\* in, although the end of one delta leaves in a clone of a later one.
THEOREM TextStaysInChannelHolds ==
  ASSUME Provider = "anthropic"
  PROVE  Spec => []TextStaysInChannel
<1>1. Init => ChannelInv
  BY BoundsAssumption DEF Init, ChannelInv, TextStaysInChannel, TailInBlock, Pos
<1>2. ASSUME TypeOK, TypeOK', ChannelInv, [Next]_vars PROVE ChannelInv'
  <2>0. /\ fed \in Nat /\ cut \in Nat /\ cut <= fed /\ fed' \in Nat /\ cut' \in Nat
        /\ template \in Channel \cup {NoTemplate}
        /\ \A p \in Pos : p \in Nat
    BY <1>2, BoundsAssumption DEF TypeOK, Pos
  <2>1. ASSUME NEW n \in 0 .. MaxDelta, NEW ch \in Channel, Delivers(n, ch)
        PROVE  ChannelInv'
    <3>1. /\ ch = block /\ fed' = fed + n /\ n \in Nat /\ cut <= cut' /\ cut' <= fed'
          /\ texts' = Write(texts, ch, cut + 1, cut')
      BY <2>1, BoundsAssumption, <2>0 DEF Delivers, CanAddress
    <3>2. template' = ch /\ block' = ch
      BY <2>1, <3>1 DEF Delivers
    <3>3. \A p \in Pos : home'[p] = IF fed < p /\ p <= fed + n THEN ch ELSE home[p]
      BY <2>1 DEF Delivers
    <3>4. \A p \in Pos : cut < p /\ p <= fed => home[p] = ch
      BY <1>2, <3>1 DEF ChannelInv, TailInBlock
    <3>5. /\ \A p \in Pos : p <= cut => home'[p] = home[p]
          /\ \A p \in Pos : cut < p /\ p <= fed' => home'[p] = ch
      BY <2>0, <3>1, <3>3, <3>4
    <3>6. AppendsOwn(ch)
      BY <2>0, <3>1, <3>5 DEF AppendsOwn
    <3>7. TextStaysInChannel' /\ \A i \in 1 .. Len(texts') : texts'[i].hi <= cut'
      BY <1>2, <3>6, AppendStays DEF ChannelInv
    <3>8. \A p \in Pos : cut' < p /\ p <= fed' => home'[p] = block'
      BY <2>0, <3>1, <3>2, <3>5
    <3>9. QED BY <3>2, <3>7, <3>8 DEF ChannelInv, TailInBlock
  <2>2. ASSUME NEW n \in 0 .. MaxDelta, NEW ch \in Channel, DeliversLast(n, ch)
        PROVE  FALSE
    BY <2>2 DEF DeliversLast
  <2>3. CASE Flushes
    <3>1. /\ fed' = fed /\ cut' = fed /\ home' = home
          /\ texts' = Write(texts, template, cut + 1, cut')
      BY <2>3 DEF Flushes
    <3>2. \A p \in Pos : cut < p /\ p <= cut' => home'[p] = template
      BY <1>2, <2>0, <3>1 DEF ChannelInv, TailInBlock
    <3>3. AppendsOwn(template)
      BY <2>0, <3>1, <3>2 DEF AppendsOwn
    <3>4. TextStaysInChannel' /\ \A i \in 1 .. Len(texts') : texts'[i].hi <= cut'
      BY <1>2, <2>0, <3>3, AppendStays DEF ChannelInv
    <3>5. QED BY <2>0, <3>1, <3>4 DEF ChannelInv, TailInBlock
  <2>4. CASE Still
    BY <1>2, <2>4 DEF Still, ChannelInv, TextStaysInChannel, TailInBlock
  <2>5. QED BY <1>2, <2>1, <2>2, <2>3, <2>4, DeliveryShapes
<1>3. ChannelInv => TextStaysInChannel
  BY DEF ChannelInv
<1>4. QED BY <1>1, <1>2, <1>3, TypeCorrect, PTL DEF Spec
-----------------------------------------------------------------------------
(* The window.                                                             *)

\* Why a boundary c is where it is when hi characters have arrived: the window
\* ends there, or a match begins behind it that reaches into the window or that
\* another match overlaps.
HeldFrom(c, hi) ==
  \/ hi - c <= Holdback
  \/ \E h \in Found(cut + 1, hi) :
       h.first = c + 1 /\ (h.last > hi - Holdback \/ ~ Isolated(h))

\* Scanning one more rule leaves a reason.
LEMMA RuleHasReason ==
  ASSUME hits \in HitSets, NEW r, NEW c \in Nat, NEW hi \in Nat, HeldFrom(c, hi)
  PROVE  HeldFrom(CutAfterRule(r, c, hi), hi)
<1>1. CASE CutAfterRule(r, c, hi) = c
  BY <1>1
<1>2. ASSUME NEW k \in Straddling(r, c, hi), CutAfterRule(r, c, hi) = k.first - 1
      PROVE  HeldFrom(k.first - 1, hi)
  <2>1. k \in Found(cut + 1, hi) /\ k \in hits /\ k.first <= c /\ c < EndIn(k, hi)
    BY DEF Straddling, Found, InForce
  <2>2. k.first \in Nat /\ k.last \in Nat /\ c < k.last
    BY <2>1, HitType, EndInBounds
  <2>3. Holdback \in Nat
    BY BoundsAssumption
  <2>4. CASE hi - c <= Holdback
    <3>1. k.last > hi - Holdback
      BY <2>2, <2>3, <2>4
    <3>2. QED
      BY <2>1, <2>2, <3>1 DEF HeldFrom
  <2>5. ASSUME NEW h \in Found(cut + 1, hi), h.first = c + 1
        PROVE  ~ Isolated(k)
    <3>1. h \in hits
      BY DEF Found, InForce
    <3>2. Meet(k, h) /\ h # k
      BY <2>1, <2>2, <2>5, <3>1, HitType DEF Meet
    <3>3. QED
      BY <3>1, <3>2 DEF Isolated
  <2>6. QED
    BY <1>2, <2>1, <2>2, <2>4, <2>5 DEF HeldFrom
<1>3. QED
  BY <1>1, <1>2, CutAfterRuleCases

\* The boundary feed computes has a reason.
LEMMA RunHasReason ==
  ASSUME TypeOK, NEW hi \in Nat, NEW c \in CutRuns(hi)
  PROVE  HeldFrom(c[Len(RuleOrder)], hi)
<1> DEFINE L == Len(RuleOrder)
           T == {j \in 0 .. L : ~ HeldFrom(c[j], hi)}
<1>1. L \in Nat /\ cut \in Nat /\ hits \in HitSets /\ Holdback \in Nat
  BY RuleAssumption, BoundsAssumption DEF TypeOK
<1>2. c \in [0 .. L -> cut .. hi] /\ CutRun(c, hi)
  BY DEF CutRuns
<1>3. \A j \in 0 .. L : c[j] \in Nat
  BY <1>1, <1>2
<1>4. ASSUME T # {} PROVE FALSE
  <2>1. T \subseteq Nat
    BY <1>1
  <2>2. PICK j \in T : \A i \in T : j <= i
    <3> HIDE DEF T
    <3> QED BY <1>4, <2>1, LeastNat
  <2>3. CASE j = 0
    <3>1. hi - c[0] <= Holdback
      BY <1>1, <1>2 DEF CutRun, WindowCut
    <3>2. QED
      BY <2>2, <2>3, <3>1 DEF HeldFrom
  <2>4. CASE j # 0
    <3>1. j \in 1 .. L /\ j - 1 \in 0 .. L /\ j - 1 \notin T
      BY <1>1, <2>2, <2>4
    <3>2. c[j] = CutAfterRule(RuleOrder[j], c[j-1], hi)
      BY <1>2, <3>1 DEF CutRun
    <3>3. HeldFrom(c[j], hi)
      BY <1>1, <1>3, <3>1, <3>2, RuleHasReason
    <3>4. QED
      BY <2>2, <3>3
  <2>5. QED
    BY <2>3, <2>4
<1>5. L \in 0 .. L /\ L \notin T
  BY <1>1, <1>4
<1>6. QED
  BY <1>5

\* After a delta the redactor withholds no more than the window, unless a match
\* that reaches into the window, or that overlaps another one, begins right at
\* the boundary: for every text, every set of rules and every state of the
\* registry.
THEOREM HeldForAReasonHolds == Spec => HeldForAReason
<1> DEFINE Reason == \/ fed' - cut' <= Holdback
                     \/ \E h \in InForce :
                          /\ h.first = cut' + 1 /\ h.core <= fed'
                          /\ \/ h.last > fed' - Holdback
                             \/ ~ Isolated(h)
<1>1. ASSUME TypeOK, [Next]_vars, fed' > fed PROVE Reason
  <2>0. fed \in Nat /\ cut \in Nat
    BY <1>1 DEF TypeOK
  <2>1. ASSUME NEW n \in 0 .. MaxDelta, NEW ch \in Channel, TextDelta(n, ch) PROVE Reason
    <3>1. Arrive(n, ch) /\ \E c \in CutRuns(fed + n) : cut' = c[Len(RuleOrder)]
      BY <2>1 DEF TextDelta
    <3>2. fed' = fed + n /\ fed' \in Nat
      BY <1>1, <3>1, ArriveType
    <3>3. HeldFrom(cut', fed')
      BY <1>1, <3>1, <3>2, RunHasReason
    <3>4. QED
      BY <3>3 DEF HeldFrom, Found
  <2>2. ASSUME NEW n \in 0 .. MaxDelta, NEW ch \in Channel, TerminalTextDelta(n, ch)
        PROVE  Reason
    <3>1. Arrive(n, ch) /\ cut' = fed + n
      BY <2>2 DEF TerminalTextDelta
    <3>2. fed' - cut' = 0 /\ Holdback \in Nat
      BY <1>1, <3>1, ArriveType, BoundsAssumption
    <3>3. QED
      BY <3>2
  <2>3. ASSUME fed' = fed PROVE FALSE
    BY <1>1, <2>0, <2>3
  <2>4. CASE BlockStop \/ OtherEvent \/ UnframedRead \/ UpstreamEnd \/ UpstreamError
    BY <2>3, <2>4 DEF BlockStop, OtherEvent, UnframedRead, UpstreamEnd, UpstreamError, channel
  <2>5. ASSUME NEW ch, Terminal(ch) PROVE FALSE
    BY <2>3, <2>5 DEF Terminal
  <2>6. ASSUME NEW found, MalformedEvent(found) \/ UnframedOverflow(found) PROVE FALSE
    BY <2>3, <2>6 DEF MalformedEvent, UnframedOverflow, channel
  <2>7. ASSUME NEW r, SetRuleEnabled(r) \/ SetAllowlisted(r) PROVE FALSE
    BY <2>3, <2>7 DEF SetRuleEnabled, SetAllowlisted, channel
  <2>8. CASE UNCHANGED vars
    BY <2>3, <2>8 DEF vars
  <2>9. QED
    BY <1>1, <2>1, <2>2, <2>4, <2>5, <2>6, <2>7, <2>8 DEF Next
<1>2. TypeOK /\ [Next]_vars => [fed' > fed => Reason]_vars
  BY <1>1
<1>3. QED
  BY <1>2, TypeCorrect, PTL DEF Spec, HeldForAReason

-----------------------------------------------------------------------------
(* The counts.                                                             *)

\* The matches of rule r that end in the first c characters of the text.
Ended(r, c) == {h \in hits : h.rule = r /\ h.last <= c}

\* The slice a+1..b cuts no match, and no two of its matches overlap: every match
\* that ends in it is in force.
WholeMatches(a, b) ==
  \A h \in hits :
    /\ Isolated(h)
    /\ ~ (h.first <= a /\ a < h.last) /\ ~ (h.first <= b /\ b < h.last)
    /\ h \in InForce \/ h.first > b \/ h.last <= a

\* The scrub of such a slice counts each of its matches once.
LEMMA SliceCounts ==
  ASSUME hits \in HitSets, NEW a \in Nat, NEW b \in Nat, a <= b,
         NEW kept \in KeptSets(a + 1, b), WholeMatches(a, b), NEW r
  PROVE  Cardinality(Ended(r, b)) = Cardinality(Ended(r, a)) + CountOf(kept, r)
<1> DEFINE K == {h \in kept : h.rule = r}
<1>1. IsFiniteSet(hits) /\ kept \subseteq Found(a + 1, b) /\ Found(a + 1, b) \subseteq hits
  BY HitAssumption DEF KeptSets, Found, InForce
<1>2. \A h \in Found(a + 1, b) : h \in kept
  BY <1>1, IsolatedIsKept DEF WholeMatches
<1>3. ASSUME NEW h \in hits
      PROVE  h \in kept <=> a < h.last /\ h.last <= b
  <2>1. /\ h.first \in Nat /\ h.core \in Nat /\ h.last \in Nat
        /\ h.first <= h.core /\ h.core <= h.last
    BY HitType
  <2>2. /\ ~ (h.first <= a /\ a < h.last) /\ ~ (h.first <= b /\ b < h.last)
        /\ h \in InForce \/ h.first > b \/ h.last <= a
    BY DEF WholeMatches
  <2>3. h \in Found(a + 1, b) <=> h \in InForce /\ a + 1 <= h.first /\ h.core <= b
    BY DEF Found
  <2>4. h \in Found(a + 1, b) <=> a < h.last /\ h.last <= b
    BY <2>1, <2>2, <2>3
  <2>5. QED
    BY <1>1, <1>2, <2>4
<1>4. Ended(r, b) = Ended(r, a) \cup K /\ Ended(r, a) \cap K = {}
  <2>1. \A h \in hits : h.last \in Nat
    BY HitType
  <2>2. QED
    BY <1>1, <1>3, <2>1 DEF Ended
<1>5. IsFiniteSet(Ended(r, a)) /\ IsFiniteSet(K)
  BY <1>1, FS_Subset DEF Ended
<1>6. Cardinality(Ended(r, a) \cup K)
        = Cardinality(Ended(r, a)) + Cardinality(K) - Cardinality(Ended(r, a) \cap K)
  BY <1>5, FS_Union
<1>7. /\ Cardinality(Ended(r, a)) \in Nat /\ Cardinality(K) \in Nat
      /\ Cardinality(Ended(r, a) \cap K) = 0
  BY <1>4, <1>5, FS_CardinalityType, FS_EmptySet
<1>8. QED
  BY <1>4, <1>6, <1>7 DEF CountOf

\* The matches that have ended can be counted.
LEMMA EndedType ==
  ASSUME TypeOK, NEW r, NEW c
  PROVE  Cardinality(Ended(r, c)) \in Nat
<1>1. IsFiniteSet(hits)
  BY HitAssumption DEF TypeOK
<1>2. IsFiniteSet(Ended(r, c))
  BY <1>1, FS_Subset DEF Ended
<1>3. QED
  BY <1>2, FS_CardinalityType

\* The text so far has no overlaps and met no registry that was switched.
Undisturbed == lapsed = {} /\ \A h \in hits : Covered(h)

Counted == \A r \in Rules : matched[r] = aside[r] + Cardinality(Ended(r, cut))

\* A text that is undisturbed after a step was so before: its matches begin and
\* end on the same side of each boundary, and they were in force.
LEMMA UndisturbedBefore ==
  ASSUME TypeOK, CleanInv, CleanInv', hits' = hits, breaks \subseteq breaks',
         lapsed \subseteq lapsed', Undisturbed'
  PROVE  /\ Undisturbed
         /\ \A h \in hits : /\ Isolated(h)
                            /\ ~ (h.first <= cut /\ cut < h.last)
                            /\ ~ (h.first <= cut' /\ cut' < h.last)
                            /\ \A b \in breaks' : ~ (h.first <= b /\ b < h.last)
                            /\ h.core - h.first <= Holdback
                            /\ Holdback = 0 => h.core = h.last
<1>1. ASSUME NEW h \in hits PROVE Covered(h) /\ Covered(h)'
  BY CoveredBefore DEF Undisturbed
<1>2. ASSUME NEW h \in hits PROVE Clean(h) /\ Clean(h)'
  BY <1>1 DEF CleanInv
<1>3. lapsed = {}
  BY DEF Undisturbed
<1>4. QED
  BY <1>1, <1>2, <1>3 DEF Undisturbed, Covered, Clean
\* What has not lapsed when the channel up to hi was scrubbed was in force, as far
\* as the scrub reached.
LEMMA NoneLapsed ==
  ASSUME TypeOK, NEW hi \in Nat, lapsed' = lapsed \cup Lapsing(hi), Undisturbed'
  PROVE  \A h \in hits : h \in InForce \/ h.first > hi \/ h.last <= cut
<1>1. ASSUME NEW h \in hits PROVE h \notin Lapsing(hi)
  BY DEF Undisturbed
<1>2. QED
  BY <1>1, NotLapsing DEF TypeOK

\* A step that releases such a slice keeps the counts exact.
LEMMA SliceCounted ==
  ASSUME TypeOK, Counted, hits' = hits, aside' = aside, cut' \in Nat, cut <= cut',
         WholeMatches(cut, cut'), NEW kept \in KeptSets(cut + 1, cut'), matched' = Merged(kept)
  PROVE  Counted'
<1>1. cut \in Nat /\ hits \in HitSets
  BY DEF TypeOK
<1>2. ASSUME NEW r \in Rules
      PROVE  matched'[r] = aside'[r] + Cardinality(Ended(r, cut'))
  <2>1. Cardinality(Ended(r, cut')) = Cardinality(Ended(r, cut)) + CountOf(kept, r)
    BY <1>1, SliceCounts
  <2>2. matched'[r] = matched[r] + CountOf(kept, r)
    BY DEF Merged
  <2>3. CountOf(kept, r) \in Nat /\ aside[r] \in Nat
    BY KeptType, BoundsAssumption DEF TypeOK
  <2>4. Cardinality(Ended(r, cut)) \in Nat
    BY EndedType
  <2>5. matched[r] = aside[r] + Cardinality(Ended(r, cut))
    BY DEF Counted
  <2>6. QED
    BY <2>1, <2>2, <2>3, <2>4, <2>5
<1>3. QED
  BY <1>2 DEF Counted, Ended

\* Releasing the whole tail keeps the counts exact.
LEMMA FlushCounts ==
  ASSUME TypeOK, CleanInv, CleanInv', Undisturbed', Counted,
         FlushPending, hits' = hits, aside' = aside
  PROVE  Counted'
<1>1. PICK kept \in KeptSets(cut + 1, fed) :
        /\ cut' = fed /\ matched' = Merged(kept)
        /\ lapsed' = lapsed \cup Lapsing(fed) /\ breaks' = breaks \cup {fed}
  BY DEF FlushPending
<1>2. fed \in Nat /\ cut \in Nat /\ cut <= fed /\ hits \in HitSets
  BY BoundsAssumption DEF TypeOK
<1>3. WholeMatches(cut, fed)
  <2>1. \A h \in hits : h \in InForce \/ h.first > fed \/ h.last <= cut
    BY <1>1, <1>2, NoneLapsed
  <2>2. \A h \in hits : /\ Isolated(h) /\ ~ (h.first <= cut /\ cut < h.last)
                        /\ ~ (h.first <= cut' /\ cut' < h.last)
    BY <1>1, UndisturbedBefore
  <2>3. QED
    BY <1>1, <2>1, <2>2 DEF WholeMatches
<1>4. QED
  BY <1>1, <1>2, <1>3, SliceCounted

\* A step that releases nothing and counts nothing, or counts what was redacted
\* outside the channel, keeps the counts exact.
LEMMA QuietCounts ==
  ASSUME TypeOK, Counted, UNCHANGED <<hits, cut>>,
         \/ UNCHANGED <<matched, aside>>
         \/ \E found : ScrubAside(found)
  PROVE  Counted'
<1>1. ASSUME NEW r \in Rules
      PROVE  matched'[r] = aside'[r] + Cardinality(Ended(r, cut))
  <2>1. matched[r] = aside[r] + Cardinality(Ended(r, cut))
    BY DEF Counted
  <2>2. Cardinality(Ended(r, cut)) \in Nat /\ aside[r] \in Nat
    BY EndedType, BoundsAssumption DEF TypeOK
  <2>3. CASE UNCHANGED <<matched, aside>>
    BY <2>1, <2>3
  <2>4. ASSUME NEW found, ScrubAside(found)
        PROVE  \E d \in Nat : matched'[r] = matched[r] + d /\ aside'[r] = aside[r] + d
    <3>1. CASE r \in found
      BY <2>4, <3>1 DEF ScrubAside
    <3>2. CASE r \notin found
      BY <2>4, <3>2 DEF ScrubAside
    <3>3. QED
      BY <3>1, <3>2
  <2>5. QED
    BY <2>1, <2>2, <2>3, <2>4
<1>2. QED
  BY <1>1 DEF Counted, Ended

\* A step keeps the counts exact as long as the text stays undisturbed.
LEMMA CountsNext ==
  ASSUME TypeOK, TypeOK', CleanInv, CleanInv', Undisturbed', Counted, [Next]_vars
  PROVE  Counted'
<1> USE DEF registry, channel
<1>0. hits \in HitSets /\ cut \in Nat /\ fed \in Nat /\ cut <= fed
  BY BoundsAssumption DEF TypeOK
<1>1. ASSUME NEW n \in 0 .. MaxDelta, NEW ch \in Channel, TextDelta(n, ch) PROVE Counted'
  <2> DEFINE hi == fed + n
  <2>1. PICK c \in CutRuns(hi) : \E kept \in KeptSets(cut + 1, c[Len(RuleOrder)]) :
          cut' = c[Len(RuleOrder)] /\ matched' = Merged(kept)
    BY <1>1 DEF TextDelta
  <2>2. PICK kept \in KeptSets(cut + 1, cut') : matched' = Merged(kept)
    BY <2>1
  <2>3. /\ hits' = hits /\ breaks' = breaks /\ aside' = aside /\ Arrive(n, ch)
        /\ lapsed' = lapsed \cup Lapsing(hi)
    BY <1>1 DEF TextDelta, Arrive
  <2>4. hi \in Nat
    BY <2>3, ArriveType
  <2>5. cut' \in Nat /\ cut <= cut' /\ cut' <= hi
    <3>1. cut' \in cut .. hi
      BY <2>1, <2>4, RunLowers
    <3>2. QED
      BY <1>0, <2>4, <3>1
  <2>6. WholeMatches(cut, cut')
    <3>1. \A h \in hits : h \in InForce \/ h.first > hi \/ h.last <= cut
      BY <2>3, <2>4, NoneLapsed
    <3>2. \A h \in hits : /\ Isolated(h) /\ ~ (h.first <= cut /\ cut < h.last)
                          /\ ~ (h.first <= cut' /\ cut' < h.last)
      BY <2>3, UndisturbedBefore
    <3>3. \A h \in hits : h.first \in Nat
      BY <1>0, HitType
    <3> HIDE DEF hi
    <3>4. QED
      BY <2>4, <2>5, <3>1, <3>2, <3>3 DEF WholeMatches
  <2>7. QED
    BY <1>0, <2>2, <2>3, <2>5, <2>6, SliceCounted
<1>2. ASSUME NEW n \in 0 .. MaxDelta, NEW ch \in Channel, TerminalTextDelta(n, ch)
      PROVE  Counted'
  <2> DEFINE hi == fed + n
  <2>1. PICK c \in CutRuns(hi) :
          \E kept \in KeptSets(cut + 1, c[Len(RuleOrder)]),
             tail \in KeptSets(c[Len(RuleOrder)] + 1, hi) :
            matched' = [r \in Rules |-> matched[r] + CountOf(kept, r) + CountOf(tail, r)]
    BY <1>2 DEF TerminalTextDelta
  <2> DEFINE new == c[Len(RuleOrder)]
  <2>2. PICK kept \in KeptSets(cut + 1, new), tail \in KeptSets(new + 1, hi) :
          matched' = [r \in Rules |-> matched[r] + CountOf(kept, r) + CountOf(tail, r)]
    BY <2>1
  <2>3. /\ hits' = hits /\ breaks' = breaks \cup {hi} /\ aside' = aside /\ Arrive(n, ch)
        /\ lapsed' = lapsed \cup Lapsing(hi) /\ cut' = hi
    BY <1>2 DEF TerminalTextDelta, Arrive
  <2>4. hi \in Nat
    BY <2>3, ArriveType
  <2>5. new \in Nat /\ cut <= new /\ new <= hi
    <3>1. new \in cut .. hi
      BY <2>4, RunLowers
    <3>2. QED
      BY <1>0, <2>4, <3>1
  <2>6. \A h \in hits : h \in InForce \/ h.first > hi \/ h.last <= cut
    BY <2>3, <2>4, NoneLapsed
  <2>7. \A h \in hits : /\ Isolated(h) /\ ~ (h.first <= cut /\ cut < h.last)
                        /\ ~ (h.first <= hi /\ hi < h.last)
                        /\ h.core - h.first <= Holdback
                        /\ Holdback = 0 => h.core = h.last
    BY <2>3, UndisturbedBefore
  <2>8. \A h \in hits : ~ (h.first <= new /\ new < h.last)
    BY <2>4, <2>6, <2>7, FeedAvoids
  <2>9. \A h \in hits : h.first \in Nat /\ h.last \in Nat
    BY <1>0, HitType
  <2> HIDE DEF hi, new
  <2>10. WholeMatches(cut, new) /\ WholeMatches(new, hi)
    BY <1>0, <2>4, <2>5, <2>6, <2>7, <2>8, <2>9 DEF WholeMatches
  <2>11. ASSUME NEW r \in Rules
         PROVE  matched'[r] = aside'[r] + Cardinality(Ended(r, hi))
    <3>1. /\ Cardinality(Ended(r, new)) = Cardinality(Ended(r, cut)) + CountOf(kept, r)
          /\ Cardinality(Ended(r, hi)) = Cardinality(Ended(r, new)) + CountOf(tail, r)
      BY <1>0, <2>4, <2>5, <2>10, SliceCounts
    <3>2. CountOf(kept, r) \in Nat /\ CountOf(tail, r) \in Nat /\ aside[r] \in Nat
      BY <1>0, KeptType, BoundsAssumption DEF TypeOK
    <3>3. Cardinality(Ended(r, cut)) \in Nat
      BY <1>0, EndedType
    <3>4. matched[r] = aside[r] + Cardinality(Ended(r, cut))
      BY DEF Counted
    <3>5. QED
      BY <2>2, <2>3, <3>1, <3>2, <3>3, <3>4
  <2>12. QED
    BY <2>3, <2>11 DEF Counted, Ended
<1>3. CASE BlockStop \/ UpstreamEnd
  BY <1>3, FlushCounts DEF BlockStop, UpstreamEnd
<1>4. ASSUME NEW ch \in Channel, Terminal(ch) PROVE Counted'
  BY <1>4, FlushCounts DEF Terminal
<1>5. CASE OtherEvent \/ UnframedRead \/ UpstreamError
  BY <1>5, QuietCounts DEF OtherEvent, UnframedRead, UpstreamError
<1>6. ASSUME NEW found, MalformedEvent(found) \/ UnframedOverflow(found) PROVE Counted'
  BY <1>6, QuietCounts DEF MalformedEvent, UnframedOverflow
<1>7. ASSUME NEW r \in Rules, SetRuleEnabled(r) PROVE Counted'
  BY <1>7, QuietCounts DEF SetRuleEnabled
<1>8. ASSUME NEW h \in hits, SetAllowlisted(h) PROVE Counted'
  BY <1>8, QuietCounts DEF SetAllowlisted
<1>9. CASE UNCHANGED vars
  BY <1>9, QuietCounts DEF vars
<1>10. QED
  BY <1>1, <1>2, <1>3, <1>4, <1>5, <1>6, <1>7, <1>8, <1>9 DEF Next

\* A text without overlaps stays undisturbed only if it was: blocks only end, and
\* hits only lapse.
LEMMA UndisturbedNext ==
  ASSUME TypeOK, CleanInv, CleanInv', [Next]_vars, Undisturbed'
  PROVE  Undisturbed
<1> USE DEF registry, channel
<1>1. hits' = hits /\ breaks \subseteq breaks' /\ lapsed \subseteq lapsed'
  <2>1. ASSUME NEW n, NEW ch, TextDelta(n, ch) \/ TerminalTextDelta(n, ch)
        PROVE  hits' = hits /\ breaks \subseteq breaks' /\ lapsed \subseteq lapsed'
    BY <2>1 DEF TextDelta, TerminalTextDelta, Arrive
  <2>2. CASE BlockStop \/ UpstreamEnd
    BY <2>2 DEF BlockStop, UpstreamEnd, FlushPending
  <2>3. ASSUME NEW ch, Terminal(ch)
        PROVE  hits' = hits /\ breaks \subseteq breaks' /\ lapsed \subseteq lapsed'
    BY <2>3 DEF Terminal, FlushPending
  <2>4. CASE OtherEvent \/ UnframedRead \/ UpstreamError
    BY <2>4 DEF OtherEvent, UnframedRead, UpstreamError
  <2>5. ASSUME NEW x, \/ MalformedEvent(x) \/ UnframedOverflow(x)
                      \/ SetRuleEnabled(x) \/ SetAllowlisted(x)
        PROVE  hits' = hits /\ breaks \subseteq breaks' /\ lapsed \subseteq lapsed'
    BY <2>5 DEF MalformedEvent, UnframedOverflow, SetRuleEnabled, SetAllowlisted
  <2>6. CASE UNCHANGED vars
    BY <2>6 DEF vars
  <2>7. QED
    BY <2>1, <2>2, <2>3, <2>4, <2>5, <2>6 DEF Next
<1>2. QED
  BY <1>1, UndisturbedBefore

\* Undisturbed, each match that ends in front of the boundary was counted.
CountsInv == Undisturbed => Counted

\* The reported counts are exact: for a text without overlaps, streamed while no
\* rule was switched, each match of the released text was counted once, however
\* the text was cut into deltas and wherever the window and the blocks ended.
THEOREM CountsAgreeHolds == Spec => []CountsAgree
<1>1. Init => CountsInv
  <2> SUFFICES ASSUME Init, NEW r \in Rules
               PROVE  matched[r] = aside[r] + Cardinality(Ended(r, cut))
    BY DEF CountsInv, Counted
  <2>1. \A h \in hits : h.last \in Nat /\ 1 <= h.last
    <3>1. \A h \in hits : h.last \in Pos
      BY HitType DEF Init
    <3>2. QED
      BY <3>1, BoundsAssumption DEF Pos
  <2>2. cut = 0 /\ matched[r] = 0 /\ aside[r] = 0
    BY DEF Init
  <2>3. Ended(r, cut) = {}
    BY <2>1, <2>2 DEF Ended
  <2>4. QED
    BY <2>2, <2>3, FS_EmptySet
<1>2. ASSUME TypeOK, TypeOK', CleanInv, CleanInv', CountsInv, [Next]_vars PROVE CountsInv'
  BY <1>2, UndisturbedNext, CountsNext DEF CountsInv
<1>3. Init => CleanInv
  BY CleanInit
<1>4. TypeOK /\ CleanInv /\ [Next]_vars => CleanInv'
  BY CleanNext
<1>5. CountsInv => CountsAgree
  BY DEF CountsInv, Counted, Undisturbed, Ended, CountsAgree
<1>6. QED
  BY <1>1, <1>2, <1>3, <1>4, <1>5, TypeCorrect, PTL DEF Spec
=============================================================================
