----------------------------- MODULE SendPromise -----------------------------
(***************************************************************************)
(* What the extension promises for a chat page, without saying how: a      *)
(* message leaves as a redaction by the gateway of a text the user sent,   *)
(* unless the extension lets the page send by itself (`open`), or the      *)
(* composer no longer holds what was written into it (`unsettled`); and a  *)
(* text the tripwire recognises never leaves once the tripwire is in.      *)
(***************************************************************************)
EXTENDS Sequences

CONSTANTS
  Texts,      \* what a composer may hold
  Redactions, \* Redactions[t]: what the gateway may make of t
  Seen        \* texts in which the tripwire recognises personal data

VARIABLES
  asked,      \* texts the user sent and the extension took over
  open,       \* the extension leaves the page's own send alone
  unsettled,  \* a rewritten composer has been touched, or not taken over, since
  guarded,    \* the tripwire is installed
  left        \* the messages that left the page, in order

promiseVars == <<asked, open, unsettled, guarded, left>>

MayLeave(t) ==
  /\ (\E u \in asked : t \in Redactions[u]) \/ open \/ unsettled
  /\ guarded => t \notin Seen

PromiseInit ==
  /\ asked = {}
  /\ left = <<>>
  /\ ~ unsettled
  /\ ~ guarded
  /\ open \in BOOLEAN

PromiseNext ==
  /\ asked \subseteq asked'
  /\ guarded => guarded'
  /\ \/ left' = left
     \/ \E t \in Texts : MayLeave(t) /\ left' = Append(left, t)

PromiseSpec == PromiseInit /\ [][PromiseNext]_promiseVars
=============================================================================
