----------------------------- MODULE MCExtension -----------------------------
(* The three parts of the extension beside each other.  They share no state,   *)
(* so one of them moves in a behaviour (`focus`) and the others stay at their  *)
(* start.  Two submits of three texts: recognised by the tripwire (pii), with  *)
(* data it does not recognise (odd), clean (token); the redaction of the first *)
(* may fail to change it; two captures among two messages; an attachment of up *)
(* to two of four files.                                                       *)
EXTENDS Interceptor, ReplyCapture, UploadGuard, TLC

CONSTANTS pii, odd, token, notes, list, report, scan, Focus

VARIABLE focus

MCTexts      == {pii, odd, token}
MCSeen       == {pii}
MCRedactions == [t \in MCTexts |-> {token} \cup ({t} \cap MCSeen)]
MCFiles      == {notes, list, report, scan}
MCKind       == (notes :> "text") @@ (list :> "text") @@ (report :> "office") @@ (scan :> "none")
MCDirty      == {list, report}

vars == <<focus, interceptorVars, captureVars, uploadVars>>

Init ==
  /\ InterceptorInit /\ CaptureInit /\ UploadInit
  /\ focus \in Focus
  /\ focus # "send" => visible
  /\ focus # "reply" => ~ byShape
  /\ focus # "upload" => storage = "block"

Next ==
  \/ focus = "send" /\ InterceptorNext /\ UNCHANGED <<focus, captureVars, uploadVars>>
  \/ focus = "reply" /\ CaptureNext /\ UNCHANGED <<focus, interceptorVars, uploadVars>>
  \/ focus = "upload" /\ UploadNext /\ UNCHANGED <<focus, interceptorVars, captureVars>>

\* A part at its start owes nothing to its fairness: nothing of it is under way.
Spec == Init /\ [][Next]_vars /\ InterceptorFairness /\ CaptureFairness /\ UploadFairness
=============================================================================
