--------------------------- MODULE StreamRedactor ---------------------------
(***************************************************************************)
(* The outbound streaming redactor of the gateway (src/stream-redactor.ts  *)
(* together with the text scrubber of src/redaction.ts that it calls).     *)
(*                                                                         *)
(* A provider streams Server-Sent Events.  The text deltas of all events   *)
(* form ONE logical text channel.  The redactor withholds the tail of that *)
(* channel (the holdback window), pulls the emit boundary back in front of *)
(* a match that reaches into the window, redacts what it emits and         *)
(* releases the tail as a synthetic delta when a block or the message      *)
(* ends.                                                                   *)
(*                                                                         *)
(* Abstraction.  A character of the channel is its position 1..TextLen.    *)
(* What the regular expressions of the rules find in the text is a set of  *)
(* hits.  A hit is recognised in every slice of the text that holds its    *)
(* positions first..core and then extends, as a greedy pattern does, up to *)
(* `last` or to the end of the slice.  A slice that starts behind `first`  *)
(* does not recognise it.  Event bodies are reduced to their effect on the *)
(* channel.                                                                *)
(***************************************************************************)
EXTENDS Integers, Sequences, FiniteSets

CONSTANTS
  Provider,     \* wire format: "anthropic", "openai" or "gemini"
  Holdback,     \* STREAM_HOLDBACK_CHARS, the size of the window
  TextLen,      \* bound: number of characters the provider streams at most
  MaxDelta,     \* bound: number of characters of one delta
  MaxChannel,   \* bound: highest content block (anthropic) or choice index
  MaxUnframed,  \* MAX_UNFRAMED_BYTES, in units of one network read
  MaxAside,     \* bound: redactions per rule outside the text channel
  RuleOrder,    \* the rules in registry order, custom rules first
  HitSets       \* the texts considered, each one a set of hits

Pos     == 1 .. TextLen
Channel == 0 .. MaxChannel
Rules   == {RuleOrder[i] : i \in 1 .. Len(RuleOrder)}

\* What a rule matches: see the header.
Hit == [rule : Rules, first : Pos, core : Pos, last : Pos]

WellFormed(h) == h.first <= h.core /\ h.core <= h.last

\* Two hits share a position.
Meet(h, k) == h.first <= k.last /\ k.first <= h.last

ASSUME ProviderAssumption == Provider \in {"anthropic", "openai", "gemini"}
ASSUME BoundsAssumption   == /\ Holdback \in Nat    /\ TextLen \in Nat
                             /\ MaxDelta \in Nat    /\ MaxChannel \in Nat
                             /\ MaxUnframed \in Nat /\ MaxAside \in Nat
ASSUME RuleAssumption     == RuleOrder \in Seq(STRING)
ASSUME HitAssumption      ==
  \A hs \in HitSets :
    /\ hs \subseteq Hit /\ IsFiniteSet(hs)
    /\ \A h \in hs : WellFormed(h)
    \* one pass of a regular expression returns disjoint matches
    /\ \A h, k \in hs : h.rule = k.rule /\ Meet(h, k) => h = k

VARIABLES
  hits,     \* the matches the streamed text holds (fixed, unknown to the code)
  enabled,  \* rules enabled in the live registry
  allowed,  \* hits covered by an enabled allowlist entry
  raw,      \* this.raw: reads buffered without an event separator
  fed,      \* channel characters received so far
  cut,      \* channel characters released; this.textTail is cut+1..fed
  template, \* channel of this.lastDeltaTemplate, or NoTemplate
  block,    \* the provider's current content block (anthropic)
  matched,  \* this.matched: redactions reported per rule
  status,   \* "open", "ended" (upstream end) or "failed" (upstream error)
  texts,    \* text deltas written to the client, oldest first
  stops,    \* block and message ends written to the client
  clear,    \* history: positions written to the client unredacted
  home,     \* history: the channel each received position arrived in
  breaks,   \* history: values of fed at which a block or the message ended
  lapsed,   \* history: hits not in force when a scrub read part of them
  aside     \* history: redactions per rule outside the text channel

vars == <<hits, enabled, allowed, raw, fed, cut, template, block, matched,
          status, texts, stops, clear, home, breaks, lapsed, aside>>

registry == <<hits, enabled, allowed>>
channel  == <<fed, cut, template, block, texts, stops, clear, home, breaks,
              lapsed>>

NoTemplate == MaxChannel + 1

TextItem == [chan : Channel \cup {NoTemplate}, lo : Pos, hi : Pos]
StopItem == [chan : Channel, at : 0 .. TextLen, after : Nat]

-----------------------------------------------------------------------------
(* Redaction of one slice of the text: redactText.                         *)

\* Matches of an enabled rule that no allowlist entry covers.
InForce == {h \in hits : h.rule \in enabled /\ h \notin allowed}

\* The matches the rules find in the slice lo..hi.
Found(lo, hi) == {h \in InForce : lo <= h.first /\ h.core <= hi}

\* Where a match found in a slice that ends at hi ends.
EndIn(h, hi) == IF h.last < hi THEN h.last ELSE hi

RuleIndex(r) == CHOOSE i \in 1 .. Len(RuleOrder) : RuleOrder[i] = r

\* The order of matches.sort: by start, longest first, then registry order.
Before(h, k, hi) ==
  \/ h.first < k.first
  \/ h.first = k.first /\ EndIn(h, hi) > EndIn(k, hi)
  \/ /\ h.first = k.first
     /\ EndIn(h, hi) = EndIn(k, hi)
     /\ RuleIndex(h.rule) < RuleIndex(k.rule)

\* `kept` is what overlap resolution leaves of the matches of lo..hi: a match
\* is dropped exactly when an earlier one that is kept reaches into it.
Keeps(kept, lo, hi) ==
  \A h \in Found(lo, hi) :
    h \in kept <=> ~ \E k \in kept : Before(k, h, hi) /\ h.first <= EndIn(k, hi)

Masked(kept, hi) == UNION {h.first .. EndIn(h, hi) : h \in kept}

\* The (one) set of matches that overlap resolution keeps in lo..hi.
KeptSets(lo, hi) == {kept \in SUBSET Found(lo, hi) : Keeps(kept, lo, hi)}

\* What the client reads in the clear of the slice lo..hi.
Unmasked(kept, lo, hi) == (lo .. hi) \ Masked(kept, hi)

CountOf(kept, r) == Cardinality({h \in kept : h.rule = r})

\* mergeMatched
Merged(kept) == [r \in Rules |-> matched[r] + CountOf(kept, r)]

\* History: the hits a scrub of the channel up to hi reads but does not redact.
Lapsing(hi) == {h \in hits \ InForce : h.first <= hi /\ cut < h.last}

-----------------------------------------------------------------------------
(* The emit boundary: feed.                                                *)

\* The window alone: combined.length - holdback.
WindowCut(hi) == IF hi - Holdback > cut THEN hi - Holdback ELSE cut

\* The matches of rule r that reach over the boundary c.
Straddling(r, c, hi) ==
  {h \in Found(cut + 1, hi) : h.rule = r /\ h.first <= c /\ c < EndIn(h, hi)}

\* Mutant: the boundary is not deferred.
CutAfterRuleNotDeferred(r, c, hi) == c

\* Mutant: matches that end in front of the boundary defer it too.
CutAfterRuleTooEager(r, c, hi) ==
  LET ahead == {h \in Found(cut + 1, hi) : h.rule = r /\ h.first <= c}
  IN IF ahead = {} THEN c
     ELSE (CHOOSE h \in ahead : \A k \in ahead : h.first <= k.first).first - 1

\* Scanning all matches of one rule pulls the boundary in front of the one
\* that reaches over it (the matches of one rule are disjoint: at most one).
CutAfterRule(r, c, hi) ==
  IF Straddling(r, c, hi) = {}
  THEN c
  ELSE (CHOOSE h \in Straddling(r, c, hi) : TRUE).first - 1

\* The values of `cut` before the loop over the rules and after each of them.
CutRun(c, hi) ==
  /\ c[0] = WindowCut(hi)
  /\ \A i \in 1 .. Len(RuleOrder) : c[i] = CutAfterRule(RuleOrder[i], c[i-1], hi)

\* The boundaries feed can compute when the channel has received hi characters.
CutRuns(hi) == {c \in [0 .. Len(RuleOrder) -> cut .. hi] : CutRun(c, hi)}

-----------------------------------------------------------------------------
(* Events.  Every event consumes the unframed tail it completes (raw).     *)

\* A text delta is written unless the released part is empty.
Write(items, ch, lo, hi) ==
  IF lo > hi THEN items ELSE Append(items, [chan |-> ch, lo |-> lo, hi |-> hi])

\* Which channel an event can address: anthropic streams one block after the
\* other, gemini reads only candidates[0], openai may interleave its choices.
CanAddress(ch) == /\ Provider = "anthropic" => ch = block
                  /\ Provider = "gemini" => ch = 0

\* An event with n characters of text for channel ch reaches the redactor.
Arrive(n, ch) ==
  /\ status = "open"
  /\ CanAddress(ch)
  /\ fed + n <= TextLen
  /\ fed' = fed + n
  /\ home' = [p \in Pos |-> IF fed < p /\ p <= fed + n THEN ch ELSE home[p]]
  /\ template' = ch
  /\ lapsed' = lapsed \cup Lapsing(fed + n)
  /\ raw' = 0

\* processEvent: a text delta that does not end the message.
TextDelta(n, ch) ==
  /\ Arrive(n, ch)
  /\ \E c \in CutRuns(fed + n) :
       LET new == c[Len(RuleOrder)] IN
       \E kept \in KeptSets(cut + 1, new) :
         /\ cut' = new
         /\ texts' = Write(texts, ch, cut + 1, new)
         /\ clear' = clear \cup Unmasked(kept, cut + 1, new)
         /\ matched' = Merged(kept)
  /\ UNCHANGED <<registry, block, status, stops, breaks, aside>>

\* The ends that an event which ends the message and carries text writes.  The
\* event is stored as the template before the tail lo..hi is flushed, so the
\* clone that carries the tail is an end too, in front of the event itself.
TerminalStops(ch, lo, hi, more) ==
  {[chan |-> ch, at |-> hi, after |-> k] :
     k \in {Len(more)} \cup IF lo > hi THEN {} ELSE {Len(texts) + 1}}

\* processEvent: the event that ends the message carries text as well.  The
\* tail is flushed right before the event that holds the text ahead of it.
TerminalTextDelta(n, ch) ==
  /\ Provider # "anthropic"
  /\ Arrive(n, ch)
  /\ \E c \in CutRuns(fed + n) :
       LET new == c[Len(RuleOrder)] IN
       \E kept \in KeptSets(cut + 1, new), tail \in KeptSets(new + 1, fed + n) :
         /\ texts' = Write(Write(texts, ch, new + 1, fed + n), ch, cut + 1, new)
         /\ stops' = stops \cup TerminalStops(ch, new + 1, fed + n, texts')
         /\ clear' = clear \cup Unmasked(kept, cut + 1, new)
                          \cup Unmasked(tail, new + 1, fed + n)
         /\ matched' = [r \in Rules |-> matched[r] + CountOf(kept, r) + CountOf(tail, r)]
  /\ cut' = fed + n
  /\ breaks' = breaks \cup {fed + n}
  /\ UNCHANGED <<registry, block, status, aside>>

\* Mutant: the tail is written but stays in the buffer.
FlushKeepingTail ==
  \E kept \in KeptSets(cut + 1, fed) :
    /\ texts' = Write(texts, template, cut + 1, fed)
    /\ clear' = clear \cup Unmasked(kept, cut + 1, fed)
    /\ matched' = Merged(kept)
    /\ breaks' = breaks \cup {fed}
    /\ UNCHANGED <<cut, lapsed>>

\* Mutant: the flush does not merge its counts.
FlushUncounted ==
  \E kept \in KeptSets(cut + 1, fed) :
    /\ cut' = fed
    /\ texts' = Write(texts, template, cut + 1, fed)
    /\ clear' = clear \cup Unmasked(kept, cut + 1, fed)
    /\ lapsed' = lapsed \cup Lapsing(fed)
    /\ breaks' = breaks \cup {fed}
    /\ UNCHANGED matched

\* flushPending: release the tail as a clone of the last delta event.
FlushPending ==
  \E kept \in KeptSets(cut + 1, fed) :
    /\ cut' = fed
    /\ texts' = Write(texts, template, cut + 1, fed)
    /\ clear' = clear \cup Unmasked(kept, cut + 1, fed)
    /\ matched' = Merged(kept)
    /\ lapsed' = lapsed \cup Lapsing(fed)
    /\ breaks' = breaks \cup {fed}

\* Mutant: the end of a block leaves the withheld tail to the next block.
BlockStopUnflushed ==
  /\ Provider = "anthropic"
  /\ status = "open"
  /\ block < MaxChannel
  /\ template' = NoTemplate
  /\ block' = block + 1
  /\ raw' = 0
  /\ UNCHANGED <<registry, fed, cut, texts, stops, clear, breaks, lapsed, matched,
                 status, home, aside>>

\* processEvent: the end of a content block.
BlockStop ==
  /\ Provider = "anthropic"
  /\ status = "open"
  /\ block < MaxChannel
  /\ FlushPending
  /\ stops' = stops \cup {[chan |-> block, at |-> fed, after |-> Len(texts')]}
  /\ template' = NoTemplate
  /\ block' = block + 1
  /\ raw' = 0
  /\ UNCHANGED <<registry, fed, status, home, aside>>

\* Mutant: the terminal event passes without a flush.
TerminalUnflushed(ch) ==
  /\ status = "open"
  /\ CanAddress(ch)
  /\ stops' = stops \cup {[chan |-> ch, at |-> fed, after |-> Len(texts)]}
  /\ raw' = 0
  /\ UNCHANGED <<registry, fed, cut, template, block, texts, clear, breaks, lapsed,
                 matched, status, home, aside>>

\* processEvent: message_stop, finish_reason, finishReason or [DONE].
Terminal(ch) ==
  /\ status = "open"
  /\ CanAddress(ch)
  /\ FlushPending
  /\ stops' = stops \cup {[chan |-> ch, at |-> fed, after |-> Len(texts')]}
  /\ raw' = 0
  /\ UNCHANGED <<registry, fed, template, block, status, home, aside>>

\* processEvent: no text channel in the event (tool arguments, usage, ping); it
\* passes unchanged and overtakes the withheld text.
OtherEvent ==
  /\ status = "open"
  /\ raw' = 0
  /\ UNCHANGED <<registry, channel, matched, status, aside>>

\* A scrub of text outside the channel that finds one match of each rule of
\* `found`.
ScrubAside(found) ==
  /\ \A r \in found : aside[r] < MaxAside
  /\ matched' = [r \in Rules |-> matched[r] + IF r \in found THEN 1 ELSE 0]
  /\ aside' = [r \in Rules |-> aside[r] + IF r \in found THEN 1 ELSE 0]

\* processEvent: the data of the event is no JSON.
MalformedEvent(found) ==
  /\ status = "open"
  /\ ScrubAside(found)
  /\ raw' = 0
  /\ UNCHANGED <<registry, channel, status>>

\* Mutant: the unframed tail grows without limit.
UnframedReadUncapped ==
  /\ status = "open"
  /\ raw' = raw + 1
  /\ UNCHANGED <<registry, channel, matched, status, aside>>

\* push: a read without a separator is buffered,
UnframedRead ==
  /\ status = "open"
  /\ raw + 1 <= MaxUnframed
  /\ raw' = raw + 1
  /\ UNCHANGED <<registry, channel, matched, status, aside>>

\* ... or takes the buffer over the cap and releases it scrubbed as raw text.
UnframedOverflow(found) ==
  /\ status = "open"
  /\ raw + 1 > MaxUnframed
  /\ raw' = 0
  /\ ScrubAside(found)
  /\ UNCHANGED <<registry, channel, status>>

\* The upstream response ends: flush, then the client response ends.
UpstreamEnd ==
  /\ status = "open"
  /\ FlushPending
  /\ status' = "ended"
  /\ UNCHANGED <<registry, raw, fed, template, block, stops, home, aside>>

\* The upstream response breaks: the client response ends without a flush.
UpstreamError ==
  /\ status = "open"
  /\ status' = "failed"
  /\ UNCHANGED <<registry, channel, matched, raw, aside>>

\* The console switches a rule on or off ...
SetRuleEnabled(r) ==
  /\ enabled' = IF r \in enabled THEN enabled \ {r} ELSE enabled \cup {r}
  /\ UNCHANGED <<hits, allowed, channel, matched, raw, status, aside>>

\* ... or an allowlist entry that covers the hit h.
SetAllowlisted(h) ==
  /\ allowed' = IF h \in allowed THEN allowed \ {h} ELSE allowed \cup {h}
  /\ UNCHANGED <<hits, enabled, channel, matched, raw, status, aside>>

-----------------------------------------------------------------------------

Init ==
  /\ hits \in HitSets
  /\ enabled = Rules
  /\ allowed = {}
  /\ raw = 0
  /\ fed = 0
  /\ cut = 0
  /\ template = NoTemplate
  /\ block = 0
  /\ matched = [r \in Rules |-> 0]
  /\ status = "open"
  /\ texts = <<>>
  /\ stops = {}
  /\ clear = {}
  /\ home = [p \in Pos |-> 0]
  /\ breaks = {}
  /\ lapsed = {}
  /\ aside = [r \in Rules |-> 0]

\* What a string outside the channel can match: nothing or one enabled rule.
FoundAside == {{}} \cup {{r} : r \in enabled}

Next ==
  \/ \E n \in 0 .. MaxDelta, ch \in Channel : TextDelta(n, ch)
  \/ \E n \in 0 .. MaxDelta, ch \in Channel : TerminalTextDelta(n, ch)
  \/ BlockStop
  \/ \E ch \in Channel : Terminal(ch)
  \/ OtherEvent
  \/ \E found \in FoundAside : MalformedEvent(found)
  \/ UnframedRead
  \/ \E found \in FoundAside : UnframedOverflow(found)
  \/ UpstreamEnd
  \/ UpstreamError
  \/ \E r \in Rules : SetRuleEnabled(r)
  \/ \E h \in hits : SetAllowlisted(h)

Spec == Init /\ [][Next]_vars

-----------------------------------------------------------------------------
(* Properties.                                                             *)

\* Every variable keeps its type: positions stay inside the text, the released
\* prefix never overtakes the received one and the unframed buffer its cap.
TypeOK ==
  /\ hits \in HitSets
  /\ enabled \subseteq Rules
  /\ allowed \subseteq hits
  /\ raw \in 0 .. MaxUnframed
  /\ fed \in 0 .. TextLen
  /\ cut \in 0 .. fed
  /\ template \in Channel \cup {NoTemplate}
  /\ block \in Channel
  /\ matched \in [Rules -> Nat]
  /\ status \in {"open", "ended", "failed"}
  /\ texts \in Seq(TextItem)
  /\ stops \subseteq StopItem
  /\ clear \subseteq Pos
  /\ home \in [Pos -> Channel]
  /\ breaks \subseteq 0 .. TextLen
  /\ lapsed \subseteq hits
  /\ aside \in [Rules -> 0 .. MaxAside]

\* No other match shares a position with h.
Isolated(h) == \A k \in hits : Meet(h, k) => k = h

\* The window is wide enough to see a match before any of it must go out, the
\* whole match belongs to one block, its rule was in force at every scrub that
\* read it, and no other match shares a position with it.
Covered(h) ==
  /\ h.core - h.first <= Holdback
  /\ Holdback = 0 => h.core = h.last
  /\ \A b \in breaks : ~ (h.first <= b /\ b < h.last)
  /\ h \notin lapsed
  /\ Isolated(h)

\* However the provider cuts the text into deltas, and however far a greedy
\* match extends, no character of a covered match reaches the client.
NoLeak == \A h \in hits : Covered(h) => (h.first .. h.last) \cap clear = {}

\* Redacting the deltas hides whatever redacting the whole text would hide: the
\* outcome of overlap resolution does not depend on how the text was cut.
SameAsWhole ==
  (/\ lapsed = {} /\ InForce = hits
   /\ \A h \in hits : /\ h.core - h.first <= Holdback
                      /\ \A b \in breaks : ~ (h.first <= b /\ b < h.last)) =>
    \A whole \in KeptSets(1, TextLen) : Masked(whole, TextLen) \cap clear = {}

\* The client reads the channel in order, each character once: the written
\* deltas are consecutive slices that add up to the released prefix.
InOrderDelivery ==
  /\ \A i \in 1 .. Len(texts) :
       /\ texts[i].lo <= texts[i].hi
       /\ texts[i].lo = IF i = 1 THEN 1 ELSE texts[i-1].hi + 1
  /\ cut = IF texts = <<>> THEN 0 ELSE texts[Len(texts)].hi

\* The end s stands behind all the text received before it.
BehindText(s) ==
  /\ s.after <= Len(texts)
  /\ \A p \in 1 .. s.at : \E i \in 1 .. s.after : texts[i].lo <= p /\ p <= texts[i].hi

\* A block or message end reaches the client only behind all text received
\* before it: the withheld tail never trails its own end marker.  (It fails where
\* the terminal event carries text: the clone with the tail is an end as well.)
StopAfterText == \A s \in stops : BehindText(s)

\* A client that heeds the last end it was told misses nothing: where an end was
\* told too early, the same end is told again behind all the text.
LastStopAfterText ==
  \A s \in stops : \E t \in stops :
    t.chan = s.chan /\ t.at = s.at /\ s.after <= t.after /\ BehindText(t)

\* Text is delivered in the block (or choice) it was sent in, although the tail
\* of one delta leaves in a clone of a later one.
TextStaysInChannel ==
  \A i \in 1 .. Len(texts) :
    \A p \in texts[i].lo .. texts[i].hi : home[p] = texts[i].chan

\* A delta leaves no more than the window behind, unless a match that reaches
\* into the window (or that overlaps one that does) begins right at the boundary.
HeldForAReason ==
  [][fed' > fed =>
       \/ fed' - cut' <= Holdback
       \/ \E h \in InForce :
            /\ h.first = cut' + 1 /\ h.core <= fed'
            /\ \/ h.last > fed' - Holdback
               \/ ~ Isolated(h)]_vars

\* The reported counts are exact for a stream without overlaps or registry
\* changes: one redaction per match of the released text, however it arrived.
CountsAgree ==
  (lapsed = {} /\ \A h \in hits : Covered(h)) =>
    \A r \in Rules :
      matched[r] = aside[r] + Cardinality({h \in hits : h.rule = r /\ h.last <= cut})
=============================================================================
