----------------------------- MODULE Interceptor -----------------------------
(***************************************************************************)
(* The browser extension in one frame of a chat page: the submit handler   *)
(* that kills the user's send, asks the gateway for the redacted text,     *)
(* writes it into the composer and sends again                             *)
(* (extension/src/content-main.js, interceptor-core.js), the bridge and    *)
(* the client it asks through (content-bridge.js, redact-client.js), the   *)
(* tripwire around fetch and XMLHttpRequest (tripwire.js), and the surface *)
(* policy polled from the gateway.  What follows a re-send, the capture of *)
(* the reply, does not depend on the texts: module ReplyCapture.           *)
(*                                                                         *)
(* JavaScript runs one handler at a time: an action is the code between    *)
(* two awaits or timers.  The user, the page, the gateway and the timers   *)
(* act in between.                                                         *)
(*                                                                         *)
(* Abstraction.  A text is a value; what redaction may make of it, by the  *)
(* rules of the moment, and whether the tripwire recognises it are         *)
(* constants.  The page is external: it keeps a copy of the composer       *)
(* (`page`), which it brings up to date after a script wrote into the      *)
(* composer, and sends that copy on a submit nobody killed, by fetch or    *)
(* XMLHttpRequest with a string body to an endpoint of the adapter's list, *)
(* which is what the tripwire inspects.                                    *)
(***************************************************************************)
EXTENDS Naturals, Sequences, FiniteSets

CONSTANTS
  Texts,       \* what the composer may hold
  NoText,      \* an empty composer
  Redactions,  \* Redactions[t]: what POST /redact may answer for t, t itself if no rule fits
  Seen,        \* texts for which bodyLooksRaw holds
  Submits,     \* the user's submits, numbered in their order
  MaxSent,     \* bound: messages that leave
  MaxChanges   \* bound: changes from outside (page, storage, administrator, gateway)

ASSUME TextAssumption ==
  /\ NoText \notin Texts
  /\ Redactions \in [Texts -> SUBSET Texts]
  /\ Seen \subseteq Texts
ASSUME BoundAssumption == Submits \subseteq Nat /\ MaxSent \in Nat /\ MaxChanges \in Nat

VARIABLES
  composer,  \* the text in the composer
  page,      \* the page's own copy of it, which is what it sends
  touched,   \* history: the user typed into a rewritten composer before the re-send
  visible,   \* findComposer finds the composer
  saw,       \* sawComposer
  enabled,   \* CONFIG.enabled
  guarded,   \* tripwireInstalled
  admin,     \* the mode of this surface in the gateway
  policy,    \* surfacePolicy
  up,        \* the gateway answers
  flow,      \* per submit: where its handler is, and the text it read
  left,      \* the messages that left the page
  changes    \* counts towards MaxChanges

outside == <<visible, enabled, guarded, admin, up, changes>>
interceptorVars ==
  <<composer, page, touched, saw, policy, flow, left, outside>>

Modes == {"redact", "off", "block"}

\* "asked": waits for the gateway; "written": the composer is rewritten, the
\* re-send is due; "over": re-sent, or refused.
Flow == [at : {"unused", "asked", "written", "over"}, text : Texts \cup {NoText}]

At(phase) == {s \in Submits : flow[s].at = phase}

\* The bound counts messages that left or may still leave.
Room == Len(left) + Cardinality(At("asked")) + Cardinality(At("written")) < MaxSent

InterceptorInit ==
  /\ composer = NoText
  /\ page = NoText
  /\ touched = FALSE
  /\ visible \in BOOLEAN
  /\ saw = FALSE
  /\ enabled = TRUE
  /\ guarded = FALSE
  /\ admin = "redact"
  /\ policy = "redact"
  /\ up = TRUE
  /\ flow = [s \in Submits |-> [at |-> "unused", text |-> NoText]]
  /\ left = <<>>
  /\ changes = 0

-----------------------------------------------------------------------------
(* The user and the page.                                                  *)

\* The user edits the composer; keystrokes go through the page's own editor.
Type(t) ==
  /\ t # composer
  /\ composer' = t
  /\ page' = t
  /\ touched' = (At("written") # {})
  /\ UNCHANGED <<saw, policy, flow, left, outside>>

\* The page takes over what a script wrote into the composer.
Absorb ==
  /\ page # composer
  /\ page' = composer
  /\ UNCHANGED <<composer, touched, saw, policy, flow, left, outside>>

\* bodyLooksRaw: an address, a number, a token or a key in the clear.
LooksRaw(t) == t \in Seen

\* The wrapped fetch and send: a recognised body is not sent.
Lands(t) == t # NoText /\ ~ (guarded /\ LooksRaw(t))

\* A submit the page gets to see: it sends its copy and clears the composer.
PageSends ==
  /\ left' = IF Lands(page) THEN Append(left, page) ELSE left
  /\ composer' = NoText
  /\ page' = NoText

-----------------------------------------------------------------------------
(* The submit handler, onSubmitEvent.                                      *)

\* It returns without killing the event: the extension is off, the frame never had
\* a composer, there is nothing to send, or the surface is not redacted.
SubmitPasses ==
  /\ Room
  /\ \/ ~ enabled
     \/ ~ visible /\ ~ saw
     \/ visible /\ (composer = NoText \/ policy = "off")
  /\ PageSends
  /\ saw' = (saw \/ (enabled /\ visible))
  /\ UNCHANGED <<touched, policy, flow, outside>>

\* It kills the event and tells the user why.
SubmitKilled ==
  /\ enabled
  /\ \/ ~ visible /\ saw
     \/ visible /\ composer # NoText /\ policy = "block"
  /\ saw' = TRUE
  /\ UNCHANGED <<composer, page, touched, policy, flow, left, outside>>

\* It kills the event and asks the gateway for the redaction of what it read.
SubmitTaken(s) ==
  /\ flow[s].at = "unused"
  /\ \A r \in Submits : r < s => flow[r].at # "unused"
  /\ Room
  /\ enabled
  /\ visible
  /\ composer # NoText
  /\ policy = "redact"
  /\ saw' = TRUE
  /\ flow' = [flow EXCEPT ![s] = [at |-> "asked", text |-> composer]]
  /\ UNCHANGED <<composer, page, touched, policy, left, outside>>

\* Mutant: the answer is not written into the composer before the re-send.
AnswerUnwritten(s) ==
  /\ flow[s].at = "asked"
  /\ up
  /\ touched' = FALSE
  /\ flow' = [flow EXCEPT ![s].at = "written"]
  /\ UNCHANGED <<composer, page, saw, policy, left, outside>>

\* The gateway answers in time: whatever the composer holds by now is replaced.
Answer(s) ==
  /\ flow[s].at = "asked"
  /\ up
  /\ composer' \in Redactions[flow[s].text]
  /\ touched' = FALSE
  /\ flow' = [flow EXCEPT ![s].at = "written"]
  /\ UNCHANGED <<page, saw, policy, left, outside>>

\* No answer, a failure or a late one: the message stays, the user is told.
Refuse(s) ==
  /\ flow[s].at = "asked"
  /\ flow' = [flow EXCEPT ![s].at = "over"]
  /\ UNCHANGED <<composer, page, touched, saw, policy, left, outside>>

\* fireSubmit clicks the send button, or presses Enter: the page may not react to a
\* synthetic event, and the handler does not catch it again.
FireSubmit == PageSends \/ UNCHANGED <<composer, page, left>>

\* 120 ms later the send is repeated.
Fire(s) ==
  /\ flow[s].at = "written"
  /\ flow' = [flow EXCEPT ![s].at = "over"]
  /\ touched' = (touched /\ At("written") # {s})
  /\ FireSubmit
  /\ UNCHANGED <<saw, policy, outside>>

-----------------------------------------------------------------------------
(* Configuration, policy and what else changes from outside.               *)

\* The bridge publishes what storage holds: the switch, and with the first event
\* that does not say otherwise the tripwire is installed, once and for good.
ConfigArrives(on, tripwire) ==
  /\ changes < MaxChanges
  /\ changes' = changes + 1
  /\ enabled' = on
  /\ guarded' = (guarded \/ tripwire)
  /\ UNCHANGED <<composer, page, touched, visible, saw, admin, policy, up, flow, left>>

\* Mutant: the policy is asked for when the page loads, and not again.
PollOnce ==
  /\ changes = 0
  /\ policy' = IF up THEN admin ELSE policy
  /\ UNCHANGED <<composer, page, touched, saw, flow, left, outside>>

\* Mutant: the result of a failed poll is applied.
PollUnchecked ==
  /\ policy' = IF up THEN admin ELSE "none"
  /\ UNCHANGED <<composer, page, touched, saw, flow, left, outside>>

\* Every 15 s the surface's policy is asked for; a failed poll changes nothing.
Poll ==
  /\ policy' = IF up THEN admin ELSE policy
  /\ UNCHANGED <<composer, page, touched, saw, flow, left, outside>>

\* Every 15 s the health check looks for the composer.
HealthCheck ==
  /\ saw' = (saw \/ visible)
  /\ UNCHANGED <<composer, page, touched, policy, flow, left, outside>>

\* The page is redesigned, the administrator changes the mode, or the gateway stops
\* or starts.
OutsideChanges ==
  /\ changes < MaxChanges
  /\ changes' = changes + 1
  /\ \/ visible' = ~ visible /\ UNCHANGED <<admin, up>>
     \/ admin' \in Modes \ {admin} /\ UNCHANGED <<visible, up>>
     \/ up' = ~ up /\ UNCHANGED <<visible, admin>>
  /\ UNCHANGED <<composer, page, touched, saw, enabled, guarded, policy, flow, left>>

InterceptorNext ==
  \/ \E t \in Texts \cup {NoText} : Type(t)
  \/ Absorb
  \/ SubmitPasses
  \/ SubmitKilled
  \/ \E s \in Submits : \/ SubmitTaken(s)
                        \/ Answer(s)
                        \/ Refuse(s)
                        \/ Fire(s)
  \/ \E on, tripwire \in BOOLEAN : ConfigArrives(on, tripwire)
  \/ Poll
  \/ HealthCheck
  \/ OutsideChanges

\* Timers go off, and a request is answered or times out. Users, pages and
\* administrators owe nothing.
InterceptorFairness ==
  /\ WF_interceptorVars(Poll)
  /\ \A s \in Submits : /\ WF_interceptorVars(Answer(s) \/ Refuse(s))
                        /\ WF_interceptorVars(Fire(s))

InterceptorSpec == InterceptorInit /\ [][InterceptorNext]_interceptorVars /\ InterceptorFairness

-----------------------------------------------------------------------------
(* Properties.                                                             *)

\* The variables hold what the code can put into them.
InterceptorTypeOK ==
  /\ composer \in Texts \cup {NoText}
  /\ page \in Texts \cup {NoText}
  /\ touched \in BOOLEAN /\ visible \in BOOLEAN /\ saw \in BOOLEAN
  /\ enabled \in BOOLEAN /\ guarded \in BOOLEAN /\ up \in BOOLEAN
  /\ admin \in Modes
  /\ policy \in Modes
  /\ flow \in [Submits -> Flow]
  /\ \A s \in Submits : flow[s].at # "unused" => flow[s].text \in Texts
  /\ left \in Seq(Texts)
  /\ changes \in Nat

\* What the extension promises (SendPromise), whatever the user types between the
\* kill and the re-send, and in whatever order two submits are answered: a message
\* that leaves is a redaction of a text it was asked to send, unless it let the
\* page send by itself, or the composer was edited (or not yet taken over by the page)
\* in the 120 ms between writeText and fireSubmit; and the tripwire lets no text pass
\* that it recognises.
Promise == INSTANCE SendPromise WITH
  asked     <- {flow[s].text : s \in Submits \ At("unused")},
  open      <- ~ enabled \/ policy = "off" \/ (~ visible /\ ~ saw),
  unsettled <- At("written") # {} /\ (touched \/ page # composer)

PromiseKept == Promise!PromiseSpec

\* When an administrator blocks the surface for good and the gateway stays up, the
\* frame comes to know, and no submit of before is on its way any more.
BlockLands ==
  <>[](admin = "block" /\ up) =>
    <>[](policy = "block" /\ At("asked") \cup At("written") = {})
=============================================================================
