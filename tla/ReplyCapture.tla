---------------------------- MODULE ReplyCapture ----------------------------
(***************************************************************************)
(* The capture of replies in a chat page (captureAndLogTurn of             *)
(* extension/src/content-main.js, with composer.js, response-capture.js    *)
(* and response-finder.js): after a message was sent again, an observer    *)
(* and two timers wait for the reply on the page to settle and file the    *)
(* turn.  Several captures may run at once, and the page goes on.          *)
(*                                                                         *)
(* Abstraction.  Messages are numbered in the order they leave, and a      *)
(* reply is the number of its message with how far it has come; the page   *)
(* shows the replies in the order of the messages and may skip one.  On a  *)
(* page with known selectors the capture reads the last reply on the page; *)
(* on one without it looks for a block that grew behind the message it     *)
(* sent (`byShape`), and may find none.  How long the quiet period is      *)
(* depends on isGenerating; here timers go off at any time.                *)
(***************************************************************************)
EXTENDS Naturals, Sequences

CONSTANTS
  Turns,        \* turns whose reply is captured, numbered in their order
  MaxMessages   \* bound: messages that leave the page

ASSUME TurnAssumption == Turns \subseteq Nat /\ MaxMessages \in Nat

VARIABLES
  byShape,  \* the page has no known selectors
  sent,     \* messages that left the page
  view,     \* the last reply on the page
  watch,    \* per turn: its capture
  rows      \* per turn: what finish handed to the bridge

captureVars == <<byShape, sent, view, watch, rows>>

\* How far a reply has come: a loading line, a part, all of it.
Stages == {"loading", "part", "whole"}
NoReply == [of |-> 0, stage |-> "loading"]

\* base: baselineReply; quiet: settleTimer runs. History: own, the message of the turn,
\* 0 if none left; before, the last reply on the page when the capture began. A row holds
\* reply, before, own, the messages sent so far, and how: "settled" or "timeout".
Unwatched == [at |-> "unused", base |-> NoReply, quiet |-> FALSE, own |-> 0, before |-> NoReply]

CaptureInit ==
  /\ byShape \in BOOLEAN
  /\ sent = 0
  /\ view = NoReply
  /\ watch = [t \in Turns |-> Unwatched]
  /\ rows = [t \in Turns |-> <<>>]

\* replyText for a turn whose message is number own, when the page shows v: nothing
\* while the reply is a placeholder; by shape only what follows the message.
Reading(v, own) ==
  IF v.stage = "loading" \/ (byShape /\ (own = 0 \/ v.of < own)) THEN NoReply ELSE v

\* What finish may read: the shape of the page may have become untrustworthy.
Readings(own) == {Reading(view, own)} \cup {r \in {NoReply} : byShape}

\* A message the extension does not watch leaves: its submit was let through.
OtherMessage ==
  /\ sent < MaxMessages
  /\ sent' = sent + 1
  /\ UNCHANGED <<byShape, view, watch, rows>>

\* Mutant: what the page shows at the start is not set apart.
BaselineForgotten(own) == NoReply

\* The reply on the page before this turn's reply can be there.
Baseline(own) == Reading(view, own)

\* captureAndLogTurn: the message was sent again; or it was not, because the tripwire
\* aborted it or the page ignored the synthetic event.
Capture(t) ==
  /\ watch[t].at = "unused"
  /\ \A u \in Turns : u < t => watch[u].at # "unused"
  /\ \E own \in {0, sent + 1} :
       /\ own <= MaxMessages
       /\ sent' = IF own = 0 THEN sent ELSE own
       /\ watch' = [watch EXCEPT ![t] =
            [at |-> "watching", base |-> Baseline(own), quiet |-> FALSE, own |-> own, before |-> view]]
  /\ UNCHANGED <<byShape, view, rows>>

\* The observer of a capture sees v: a new reply starts the quiet period, or starts
\* it again.
Observed(w, v) ==
  IF w.at = "watching" /\ Reading(v, w.own) \notin {NoReply, w.base}
  THEN [w EXCEPT !.quiet = TRUE] ELSE w

\* The page changes, and with it the reply it shows, or not: there is more of the reply,
\* or a later one.
PageChanges(v) ==
  /\ \/ v = view
     \/ v.of = view.of /\ <<view.stage, v.stage>> \in {<<"loading", "part">>, <<"part", "whole">>}
     \/ v.of \in (view.of + 1)..sent /\ v.stage = "loading"
  /\ v.of # 0
  /\ view' = v
  /\ watch' = [t \in Turns |-> Observed(watch[t], v)]
  /\ UNCHANGED <<byShape, sent, rows>>

\* finish: the turn is filed with what can be read now.
Filed(t, how) ==
  \E r \in Readings(watch[t].own) :
    rows' = [rows EXCEPT ![t] = Append(@,
      [reply |-> r, before |-> watch[t].before, own |-> watch[t].own, sent |-> sent, how |-> how])]

\* Mutant: finish does not look at done.
SettleUnchecked(t) ==
  /\ watch[t].quiet
  /\ Filed(t, "settled")
  /\ watch' = [watch EXCEPT ![t].at = "over", ![t].quiet = FALSE]
  /\ UNCHANGED <<byShape, sent, view>>

\* settleTimer goes off: the reply has not changed for a while. The hard timeout does
\* not clear it; then finish finds the turn done.
Settle(t) ==
  /\ watch[t].quiet
  /\ IF watch[t].at = "watching" THEN Filed(t, "settled") ELSE UNCHANGED rows
  /\ watch' = [watch EXCEPT ![t].at = "over", ![t].quiet = FALSE]
  /\ UNCHANGED <<byShape, sent, view>>

\* hardTimeout goes off: the turn is filed, settled or not.
HardTimeout(t) ==
  /\ watch[t].at = "watching"
  /\ Filed(t, "timeout")
  /\ watch' = [watch EXCEPT ![t].at = "over"]
  /\ UNCHANGED <<byShape, sent, view>>

CaptureNext ==
  \/ OtherMessage
  \/ \E v \in [of : 1..MaxMessages, stage : Stages] : PageChanges(v)
  \/ \E t \in Turns : Capture(t) \/ Settle(t) \/ HardTimeout(t)

\* Timers go off; the page owes nothing.
CaptureFairness == \A t \in Turns : WF_captureVars(HardTimeout(t))

CaptureSpec == CaptureInit /\ [][CaptureNext]_captureVars /\ CaptureFairness

-----------------------------------------------------------------------------
(* Properties.                                                             *)

\* The reply before message own was complete, or there was none to wait for.
AnsweredBefore(before, own) ==
  before.of + 1 = own /\ (before.of # 0 => before.stage = "whole")

\* captureAndLogTurn pairs a prompt with its own reply: when everything before its
\* message had been answered in full (or replies are found by shape) and nothing was
\* sent after it, a turn that settled holds the reply to its own message and no other.
OwnReplyFiled ==
  \A t \in Turns : \A i \in DOMAIN rows[t] :
    LET r == rows[t][i] IN
    /\ r.how = "settled" /\ r.reply # NoReply => r.reply # r.before
    /\ /\ r.how = "settled"
       /\ r.own # 0
       /\ r.sent = r.own
       /\ byShape \/ AnsweredBefore(r.before, r.own)
       => r.reply.of = r.own \/ (byShape /\ r.reply = NoReply)

\* By the settle timer or by the hard timeout, never by both and never by neither: the
\* capture of a turn files it exactly once.
EveryTurnFiledOnce ==
  \A t \in Turns : [](watch[t].at = "watching" => <>[](Len(rows[t]) = 1))
=============================================================================
