-------------------------- MODULE Extension_proofs --------------------------
(***************************************************************************)
(* Theorems about the three parts of the browser extension: the submit     *)
(* handler implements SendPromise (Interceptor), an attachment reaches the *)
(* page vetted and whole or not at all (UploadGuard), and a reply is filed *)
(* under its own prompt (ReplyCapture).                                    *)
(***************************************************************************)
EXTENDS Interceptor, UploadGuard, ReplyCapture, TLAPS

-----------------------------------------------------------------------------
(* The submit handler.                                                     *)

\* The variables hold what the code can put into them, for any number of texts,
\* submits and changes.
THEOREM InterceptorTypeCorrect == InterceptorSpec => []InterceptorTypeOK
<1>1. InterceptorInit => InterceptorTypeOK
  <2> SUFFICES ASSUME InterceptorInit PROVE InterceptorTypeOK
    OBVIOUS
  <2>1. flow \in [Submits -> Flow] /\ \A s \in Submits : flow[s].at = "unused"
    BY DEF InterceptorInit, Flow
  <2>2. left \in Seq(Texts) /\ changes \in Nat
    BY DEF InterceptorInit
  <2>3. QED
    BY <2>1, <2>2 DEF InterceptorInit, InterceptorTypeOK, Modes
<1>2. InterceptorTypeOK /\ [InterceptorNext]_interceptorVars => InterceptorTypeOK'
  <2> SUFFICES ASSUME InterceptorTypeOK, [InterceptorNext]_interceptorVars
               PROVE  InterceptorTypeOK'
    OBVIOUS
  <2> USE TextAssumption DEF InterceptorTypeOK, Flow, Modes, outside
  <2>1. CASE \E t \in Texts \cup {NoText} : Type(t)
    BY <2>1 DEF Type
  <2>2. CASE Absorb
    BY <2>2 DEF Absorb
  <2>3. CASE SubmitPasses
    <3>1. left' \in Seq(Texts)
      BY <2>3 DEF SubmitPasses, PageSends, Lands, LooksRaw
    <3>2. saw' \in BOOLEAN
      BY <2>3, Zenon DEF SubmitPasses
    <3>3. /\ composer' = NoText /\ page' = NoText
          /\ UNCHANGED <<touched, policy, flow, visible, enabled, guarded, admin, up, changes>>
      BY <2>3 DEF SubmitPasses, PageSends
    <3>4. QED
      BY <3>1, <3>2, <3>3
  <2>4. CASE SubmitKilled
    BY <2>4 DEF SubmitKilled
  <2>5. CASE \E s \in Submits : SubmitTaken(s)
    <3>1. PICK s \in Submits : SubmitTaken(s)
      BY <2>5
    <3>2. composer \in Texts
      BY <3>1 DEF SubmitTaken
    <3>3. flow' = [flow EXCEPT ![s] = [at |-> "asked", text |-> composer]]
      BY <3>1 DEF SubmitTaken
    <3>4. /\ saw' = TRUE
          /\ UNCHANGED <<composer, page, touched, policy, left, visible, enabled, guarded,
                         admin, up, changes>>
      BY <3>1 DEF SubmitTaken
    <3>5. QED
      BY <3>2, <3>3, <3>4
  <2>6. CASE \E s \in Submits : Answer(s)
    <3>1. PICK s \in Submits : Answer(s)
      BY <2>6
    <3>2. composer' \in Texts
      BY <3>1 DEF Answer
    <3>3. QED
      BY <3>1, <3>2 DEF Answer
  <2>7. CASE \E s \in Submits : Refuse(s)
    BY <2>7 DEF Refuse
  <2>8. CASE \E s \in Submits : Fire(s)
    <3>1. PICK s \in Submits : Fire(s)
      BY <2>8
    <3>2. left' \in Seq(Texts)
      BY <3>1 DEF Fire, FireSubmit, PageSends, Lands, LooksRaw
    <3>3. composer' \in Texts \cup {NoText} /\ page' \in Texts \cup {NoText}
      BY <3>1 DEF Fire, FireSubmit, PageSends
    <3>4. touched' \in BOOLEAN
      BY <3>1, Zenon DEF Fire, FireSubmit
    <3>5. /\ flow' \in [Submits -> Flow]
          /\ \A r \in Submits : flow'[r].at # "unused" => flow'[r].text \in Texts
      BY <3>1 DEF Fire, FireSubmit
    <3>6. UNCHANGED <<saw, policy, visible, enabled, guarded, admin, up, changes>>
      BY <3>1 DEF Fire, FireSubmit
    <3>7. QED
      BY <3>2, <3>3, <3>4, <3>5, <3>6
  <2>9. CASE \E on, tripwire \in BOOLEAN : ConfigArrives(on, tripwire)
    BY <2>9 DEF ConfigArrives
  <2>10. CASE Poll
    BY <2>10 DEF Poll
  <2>11. CASE HealthCheck
    BY <2>11 DEF HealthCheck
  <2>12. CASE OutsideChanges
    <3>1. visible' \in BOOLEAN /\ up' \in BOOLEAN
      BY <2>12, Zenon DEF OutsideChanges
    <3>2. admin' \in Modes /\ changes' \in Nat
      BY <2>12 DEF OutsideChanges
    <3>3. UNCHANGED <<composer, page, touched, saw, enabled, guarded, policy, flow, left>>
      BY <2>12 DEF OutsideChanges
    <3>4. QED
      BY <3>1, <3>2, <3>3
  <2>13. CASE UNCHANGED interceptorVars
    BY <2>13 DEF interceptorVars
  <2>14. QED
    BY <2>1, <2>2, <2>3, <2>4, <2>5, <2>6, <2>7, <2>8, <2>9, <2>10, <2>11, <2>12, <2>13
       DEF InterceptorNext
<1>3. QED
  BY <1>1, <1>2, PTL DEF InterceptorSpec

-----------------------------------------------------------------------------
(* What the composer holds while a re-send is due.                         *)

Used == Submits \ At("unused")

\* The redactions of the texts the extension was asked to send.
Answers == UNION {Redactions[flow[s].text] : s \in Used}

\* Between writeText and fireSubmit the composer holds a redaction of a text that was
\* sent, unless the user edited it; or another submit's re-send emptied it.
Rewritten == At("written") # {} /\ ~ touched => composer \in Answers \cup {NoText}

\* An empty composer is empty for the page too.
EmptyIsEmpty == composer = NoText => page = NoText

TextInv == Rewritten /\ EmptyIsEmpty

\* A submit that began stays begun, with the text it was asked to send.
LEMMA UsedGrows ==
  ASSUME InterceptorTypeOK, [InterceptorNext]_interceptorVars
  PROVE  /\ \A s \in Used : s \in Used' /\ flow'[s].text = flow[s].text
         /\ Answers \subseteq Answers'
<1>1. \A s \in Used : s \in Used' /\ flow'[s].text = flow[s].text
  <2> USE DEF Used, At, InterceptorTypeOK
  <2>1. CASE UNCHANGED flow
    BY <2>1
  <2>2. CASE \E s \in Submits : SubmitTaken(s)
    BY <2>2 DEF SubmitTaken
  <2>3. CASE \E s \in Submits : Answer(s)
    BY <2>3 DEF Answer
  <2>4. CASE \E s \in Submits : Refuse(s)
    BY <2>4 DEF Refuse
  <2>5. CASE \E s \in Submits : Fire(s)
    BY <2>5 DEF Fire, FireSubmit
  <2>6. QED
    BY <2>1, <2>2, <2>3, <2>4, <2>5
       DEF InterceptorNext, interceptorVars, Type, Absorb, SubmitPasses, SubmitKilled,
           ConfigArrives, Poll, HealthCheck, OutsideChanges
<1>2. QED
  BY <1>1 DEF Answers

\* TextInv holds in every state.
LEMMA TextInvInductive == InterceptorSpec => []TextInv
<1>1. InterceptorInit => TextInv
  BY DEF InterceptorInit, TextInv, Rewritten, EmptyIsEmpty, At
<1>2. ASSUME InterceptorTypeOK, TextInv, [InterceptorNext]_interceptorVars
      PROVE  TextInv'
  <2>1. Answers \subseteq Answers'
    BY <1>2, UsedGrows
  <2>2. CASE \E t \in Texts \cup {NoText} : Type(t)
    <3>1. At("written")' = At("written")
      BY <2>2 DEF Type, At
    <3>2. touched' = (At("written") # {}) /\ page' = composer'
      BY <2>2 DEF Type
    <3>3. QED
      BY <3>1, <3>2 DEF TextInv, Rewritten, EmptyIsEmpty
  <2>3. CASE Absorb
    <3>1. At("written")' = At("written") /\ UNCHANGED <<touched, composer>> /\ page' = composer
      BY <2>3 DEF Absorb, At
    <3>2. QED
      BY <1>2, <2>1, <3>1 DEF TextInv, Rewritten, EmptyIsEmpty
  <2>4. CASE SubmitPasses
    BY <2>4 DEF SubmitPasses, PageSends, TextInv, Rewritten, EmptyIsEmpty
  <2>5. CASE \E s \in Submits : SubmitTaken(s)
    <3>1. At("written")' = At("written")
      BY <1>2, <2>5 DEF SubmitTaken, At, InterceptorTypeOK
    <3>2. UNCHANGED <<touched, composer, page>>
      BY <2>5 DEF SubmitTaken
    <3>3. QED
      BY <1>2, <2>1, <3>1, <3>2 DEF TextInv, Rewritten, EmptyIsEmpty
  <2>6. CASE \E s \in Submits : Answer(s)
    <3>1. PICK s \in Submits : Answer(s)
      BY <2>6
    <3>2. s \in Used /\ flow[s].text \in Texts
      BY <1>2, <3>1 DEF Answer, Used, At, InterceptorTypeOK
    <3>3. s \in Used' /\ flow'[s].text = flow[s].text
      BY <1>2, <3>2, UsedGrows
    <3>4. composer' \in Answers' /\ composer' # NoText
      BY <3>1, <3>2, <3>3, TextAssumption DEF Answer, Answers
    <3>5. QED
      BY <3>4 DEF TextInv, Rewritten, EmptyIsEmpty
  <2>7. CASE \E s \in Submits : Refuse(s)
    <3>1. At("written")' = At("written")
      BY <1>2, <2>7 DEF Refuse, At, InterceptorTypeOK
    <3>2. UNCHANGED <<touched, composer, page>>
      BY <2>7 DEF Refuse
    <3>3. QED
      BY <1>2, <2>1, <3>1, <3>2 DEF TextInv, Rewritten, EmptyIsEmpty
  <2>8. CASE \E s \in Submits : Fire(s)
    <3>1. PICK s \in Submits : Fire(s)
      BY <2>8
    <3>2. At("written")' = At("written") \ {s}
      BY <1>2, <3>1 DEF Fire, FireSubmit, At, InterceptorTypeOK
    <3>3. touched' = (touched /\ At("written") # {s})
      BY <3>1 DEF Fire, FireSubmit
    <3>4. (composer' = NoText /\ page' = NoText) \/ UNCHANGED <<composer, page>>
      BY <3>1 DEF Fire, FireSubmit, PageSends
    <3>5. At("written")' # {} /\ ~ touched' => At("written") # {} /\ ~ touched
      BY <3>2, <3>3
    <3>6. QED
      BY <1>2, <2>1, <3>4, <3>5 DEF TextInv, Rewritten, EmptyIsEmpty
  <2>9. CASE UNCHANGED <<flow, touched, composer, page>>
    <3>1. At("written")' = At("written")
      BY <2>9 DEF At
    <3>2. QED
      BY <1>2, <2>1, <2>9, <3>1 DEF TextInv, Rewritten, EmptyIsEmpty
  <2>10. QED
    BY <1>2, <2>2, <2>3, <2>4, <2>5, <2>6, <2>7, <2>8, <2>9
       DEF InterceptorNext, interceptorVars, SubmitKilled, ConfigArrives, Poll, HealthCheck,
           OutsideChanges
<1>3. QED
  BY <1>1, <1>2, InterceptorTypeCorrect, PTL DEF InterceptorSpec

-----------------------------------------------------------------------------
(* Refinement.                                                             *)

Asked == {flow[s].text : s \in Used}
Open  == ~ enabled \/ policy = "off" \/ (~ visible /\ ~ saw)
Unsettled == At("written") # {} /\ (touched \/ page # composer)

\* What a step must show of the messages.
MayLeaveNow(t) ==
  /\ (\E u \in Asked : t \in Redactions[u]) \/ Open \/ Unsettled
  /\ guarded => t \notin Seen

\* When the page sends by itself, or on a synthetic event, the message is one the promise
\* allows.
LEMMA PageSendsKeepsPromise ==
  ASSUME InterceptorTypeOK, TextInv, PageSends,
         Open \/ page = NoText \/ At("written") # {}
  PROVE  left' = left \/ \E t \in Texts : MayLeaveNow(t) /\ left' = Append(left, t)
<1>1. CASE ~ Lands(page)
  BY <1>1 DEF PageSends
<1>2. CASE Lands(page)
  <2>1. page \in Texts /\ page # NoText /\ (guarded => page \notin Seen)
    BY <1>2 DEF Lands, LooksRaw, InterceptorTypeOK
  <2>2. left' = Append(left, page)
    BY <1>2 DEF PageSends
  <2>3. CASE Open
    BY <2>1, <2>2, <2>3 DEF MayLeaveNow
  <2>4. CASE At("written") # {} /\ (touched \/ page # composer)
    BY <2>1, <2>2, <2>4 DEF MayLeaveNow, Unsettled
  <2>5. CASE At("written") # {} /\ ~ touched /\ page = composer
    <3>1. page \in Answers
      BY <2>1, <2>5 DEF TextInv, Rewritten
    <3>2. \E u \in Asked : page \in Redactions[u]
      BY <3>1 DEF Answers, Asked
    <3>3. QED
      BY <2>1, <2>2, <3>2 DEF MayLeaveNow
  <2>6. QED
    BY <2>1, <2>3, <2>4, <2>5
<1>3. QED
  BY <1>1, <1>2

\* The extension implements its promise: what leaves the page is a redaction of a
\* text it was asked to send, unless it let the page send by itself or the rewritten
\* composer was touched or not taken over in time; and nothing the installed tripwire
\* recognises leaves.
THEOREM PromiseKeptHolds == InterceptorSpec => PromiseKept
<1>1. InterceptorInit => Promise!PromiseInit
  BY DEF InterceptorInit, Promise!PromiseInit, At
<1>2. ASSUME InterceptorTypeOK, TextInv, [InterceptorNext]_interceptorVars
      PROVE  [Promise!PromiseNext]_(Promise!promiseVars)
  <2>1. Asked \subseteq Asked'
    BY <1>2, UsedGrows DEF Asked
  <2>2. guarded => guarded'
    BY <1>2 DEF InterceptorNext, interceptorVars, outside, Type, Absorb, SubmitPasses,
                SubmitKilled, SubmitTaken, Answer, Refuse, Fire, FireSubmit, ConfigArrives, Poll,
                HealthCheck, OutsideChanges
  <2>3. left' = left \/ \E t \in Texts : MayLeaveNow(t) /\ left' = Append(left, t)
    <3>1. CASE SubmitPasses
      <4>1. Open \/ composer = NoText
        BY <3>1 DEF SubmitPasses, Open
      <4>2. Open \/ page = NoText
        BY <1>2, <4>1 DEF TextInv, EmptyIsEmpty
      <4>3. QED
        BY <1>2, <3>1, <4>2, PageSendsKeepsPromise DEF SubmitPasses
    <3>2. CASE \E s \in Submits : Fire(s)
      <4>1. PICK s \in Submits : Fire(s)
        BY <3>2
      <4>2. At("written") # {}
        BY <4>1 DEF Fire, FireSubmit, At
      <4>3. PageSends \/ left' = left
        BY <4>1 DEF Fire, FireSubmit
      <4>4. QED
        BY <1>2, <4>2, <4>3, PageSendsKeepsPromise
    <3>3. CASE left' = left
      BY <3>3
    <3>4. QED
      BY <1>2, <3>1, <3>2, <3>3
         DEF InterceptorNext, interceptorVars, Type, Absorb, SubmitKilled, SubmitTaken,
             Answer, Refuse, ConfigArrives, Poll, HealthCheck, OutsideChanges
  <2>4. QED
    BY <2>1, <2>2, <2>3
       DEF Promise!PromiseNext, Promise!MayLeave, MayLeaveNow, Asked, Open, Unsettled, Used
<1>3. QED
  BY <1>1, <1>2, InterceptorTypeCorrect, TextInvInductive, PTL
     DEF InterceptorSpec, PromiseKept, Promise!PromiseSpec

-----------------------------------------------------------------------------
(* The upload guard.                                                       *)

\* A step of one attachment leaves the others alone.
LEMMA PickUpdated ==
  ASSUME UploadTypeOK, NEW p \in Picks, NEW new \in Pick, pick' = [pick EXCEPT ![p] = new]
  PROVE  /\ pick' \in [Picks -> Pick]
         /\ pick'[p] = new
         /\ \A q \in Picks \ {p} : pick'[q] = pick[q]
BY DEF UploadTypeOK

\* The fields of an attachment, and their types.
LEMMA PickFields ==
  ASSUME UploadTypeOK, NEW p \in Picks
  PROVE  /\ pick[p] = [at |-> pick[p].at, way |-> pick[p].way, files |-> pick[p].files,
                       warned |-> pick[p].warned, outcomes |-> pick[p].outcomes,
                       given |-> pick[p].given]
         /\ pick[p].way \in Ways /\ pick[p].files \in Seq(Files) /\ pick[p].warned \in BOOLEAN
         /\ pick[p].outcomes \in Seq(Outcomes)
         /\ pick[p].given \in Seq({"original", "cleaned"})
         /\ pick[p].at \in {"unused", "deciding", "handed", "told", "lost"}
BY DEF UploadTypeOK, Pick

\* What is decided of a file is an outcome.
LEMMA OutcomesInRange == \A f \in Files : OutcomesOf(f) \subseteq Outcomes
BY DEF OutcomesOf, Outcomes, Blocked

\* What settle hands over for an attachment.
Given(p) == [i \in DOMAIN pick[p].files |->
               IF pick[p].outcomes[i] = "replace" THEN "cleaned" ELSE "original"]

\* What is handed over is a list of files, each the original or cleaned.
LEMMA GivenIsSequence ==
  ASSUME UploadTypeOK, NEW p \in Picks
  PROVE  Given(p) \in Seq({"original", "cleaned"})
<1>1. pick[p].files \in Seq(Files)
  BY PickFields
<1>2. \A n \in Nat : [i \in 1..n |-> IF pick[p].outcomes[i] = "replace" THEN "cleaned"
                                     ELSE "original"] \in Seq({"original", "cleaned"})
  OBVIOUS
<1>3. QED
  BY <1>1, <1>2 DEF Given

\* The audit names attachments and files.
LEMMA AuditTyped ==
  ASSUME UploadTypeOK, NEW p \in Picks, Decided(p), Audit(p)
  PROVE  audits' \subseteq Picks \X Files
<1>1. /\ DOMAIN pick[p].outcomes = 1..Len(pick[p].files)
      /\ \A i \in 1..Len(pick[p].files) : pick[p].files[i] \in Files
  <2>1. pick[p].files \in Seq(Files) /\ pick[p].outcomes \in Seq(Outcomes)
    BY PickFields
  <2>2. Len(pick[p].outcomes) = Len(pick[p].files)
    BY DEF Decided
  <2>3. QED
    BY <2>1, <2>2
<1>2. \A i \in LetThrough(p) : pick[p].files[i] \in Files
  BY <1>1 DEF LetThrough
<1>3. QED
  BY <1>2 DEF Audit, UploadTypeOK

\* The variables hold what the code can put into them.
THEOREM UploadTypeCorrect == UploadSpec => []UploadTypeOK
<1>1. UploadInit => UploadTypeOK
  <2> SUFFICES ASSUME UploadInit PROVE UploadTypeOK
    OBVIOUS
  <2>1. Unused \in Pick
    BY DEF Unused, Pick, Ways
  <2>2. QED
    BY <2>1 DEF UploadInit, UploadTypeOK, Policies
<1>2. ASSUME UploadTypeOK, [UploadNext]_uploadVars
      PROVE  UploadTypeOK'
  <2>1. CASE Boot
    BY <1>2, <2>1 DEF Boot, PolicyOf, UploadTypeOK, Policies
  <2>2. CASE \E u \in Policies : InstallDirect(u) \/ PolicyArrives(u)
    BY <1>2, <2>2 DEF InstallDirect, PolicyArrives, PolicyOf, UploadTypeOK, Policies
  <2>3. CASE \E p \in Picks : \E way \in Ways, files \in FileLists : Attach(p, way, files)
    <3>1. PICK p \in Picks, way \in Ways, files \in FileLists : Attach(p, way, files)
      BY <2>3
    <3>2. files \in Seq(Files)
      BY FileAssumption DEF FileLists
    <3> DEFINE new == [at |-> "deciding", way |-> way, files |-> files,
                       warned |-> (config = "warn"), outcomes |-> <<>>, given |-> <<>>]
    <3>3. new \in Pick
      <4>1. (config = "warn") \in BOOLEAN
        OBVIOUS
      <4>2. <<>> \in Seq(Outcomes) /\ <<>> \in Seq({"original", "cleaned"})
        OBVIOUS
      <4>3. QED
        BY <3>2, <4>1, <4>2, Zenon DEF Pick
    <3>4. pick' = [pick EXCEPT ![p] = new] /\ UNCHANGED <<storage, config, guard, audits>>
      BY <3>1 DEF Attach
    <3>5. QED
      BY <1>2, <3>3, <3>4, PickUpdated DEF UploadTypeOK
  <2>4. CASE \E p \in Picks : Decide(p)
    <3>1. PICK p \in Picks : Decide(p)
      BY <2>4
    <3>2. PICK o \in OutcomesOf(NextFile(p)) : pick' = [pick EXCEPT ![p].outcomes = Append(@, o)]
      BY <3>1 DEF Decide
    <3>3. NextFile(p) \in Files
      <4>1. pick[p].files \in Seq(Files) /\ pick[p].outcomes \in Seq(Outcomes)
        BY <1>2, PickFields
      <4>2. Len(pick[p].outcomes) < Len(pick[p].files)
        BY <3>1 DEF Decide, Undecided
      <4>3. QED
        BY <4>1, <4>2 DEF NextFile
    <3>4. o \in Outcomes
      BY <3>3, OutcomesInRange
    <3> DEFINE new == [pick[p] EXCEPT !.outcomes = Append(pick[p].outcomes, o)]
    <3>5. new \in Pick
      <4>1. Append(pick[p].outcomes, o) \in Seq(Outcomes)
        <5>1. pick[p].outcomes \in Seq(Outcomes)
          BY <1>2, PickFields
        <5>2. QED
          BY <3>4, <5>1
      <4>2. pick[p] \in Pick
        BY <1>2 DEF UploadTypeOK
      <4>3. QED
        BY <4>1, <4>2 DEF Pick
    <3>6. pick' = [pick EXCEPT ![p] = new] /\ UNCHANGED <<storage, config, guard, audits>>
      BY <3>1, <3>2 DEF Decide
    <3>7. QED
      BY <1>2, <3>5, <3>6, PickUpdated DEF UploadTypeOK
  <2>5. CASE \E p \in Picks : ScrubThrows(p)
    <3>1. PICK p \in Picks : ScrubThrows(p)
      BY <2>5
    <3>2. [pick[p] EXCEPT !.at = "lost"] \in Pick
      BY <1>2 DEF UploadTypeOK, Pick
    <3>3. pick' \in [Picks -> Pick]
      <4> DEFINE new == [pick[p] EXCEPT !.at = "lost"]
      <4>1. pick' = [pick EXCEPT ![p] = new]
        BY <3>1 DEF ScrubThrows
      <4> HIDE DEF new
      <4>2. new \in Pick
        BY <3>2 DEF new
      <4>3. QED
        BY <1>2, <4>1, <4>2 DEF UploadTypeOK
    <3>4. UNCHANGED <<storage, config, guard, audits>>
      BY <3>1 DEF ScrubThrows
    <3>5. QED
      BY <1>2, <3>3, <3>4 DEF UploadTypeOK
  <2>6. CASE \E p \in Picks : SettleRefused(p) \/ SettleUnfired(p)
    <3>1. PICK p \in Picks : SettleRefused(p) \/ SettleUnfired(p)
      BY <2>6
    <3>2. audits' \subseteq Picks \X Files
      BY <1>2, <3>1, AuditTyped DEF SettleRefused, SettleUnfired
    <3>3. pick' = [pick EXCEPT ![p].at = "told"] /\ UNCHANGED <<storage, config, guard>>
      BY <3>1 DEF SettleRefused, SettleUnfired
    <3>4. pick' \in [Picks -> Pick]
      BY <1>2, <3>3 DEF UploadTypeOK, Pick
    <3>5. QED
      BY <1>2, <3>2, <3>3, <3>4 DEF UploadTypeOK
  <2>7. CASE \E p \in Picks : SettleHanded(p)
    <3>1. PICK p \in Picks : SettleHanded(p)
      BY <2>7
    <3>2. audits' \subseteq Picks \X Files
      BY <1>2, <3>1, AuditTyped DEF SettleHanded
    <3>3. pick' = [pick EXCEPT ![p].at = "handed", ![p].given = Given(p)]
      BY <3>1 DEF SettleHanded, Given
    <3>4. Given(p) \in Seq({"original", "cleaned"})
      BY <1>2, GivenIsSequence
    <3>5. pick' \in [Picks -> Pick]
      <4> DEFINE new == [pick[p] EXCEPT !.at = "handed", !.given = Given(p)]
      <4>1. pick' = [pick EXCEPT ![p] = new]
        BY <3>3
      <4>2. new \in Pick
        BY <1>2, <3>4 DEF UploadTypeOK, Pick
      <4> HIDE DEF new
      <4>3. QED
        BY <1>2, <4>1, <4>2 DEF UploadTypeOK
    <3>6. QED
      BY <1>2, <3>1, <3>2, <3>5 DEF SettleHanded, UploadTypeOK
  <2>8. CASE UNCHANGED uploadVars
    BY <1>2, <2>8 DEF uploadVars, UploadTypeOK
  <2>9. QED
    BY <1>2, <2>1, <2>2, <2>3, <2>4, <2>5, <2>6, <2>7, <2>8 DEF UploadNext
<1>3. QED
  BY <1>1, <1>2, PTL DEF UploadSpec

-----------------------------------------------------------------------------
(* What is handed over.                                                    *)

\* Every decision is one that may be taken of its file.
DecidedWell(q) ==
  /\ Len(q.outcomes) <= Len(q.files)
  /\ \A i \in 1..Len(q.outcomes) : q.outcomes[i] \in OutcomesOf(q.files[i])

\* An attachment that was handed over was decided to its end, and nothing in it was
\* refused or kept from the audit.
HandedWell(p, q, kept, filed) ==
  /\ Len(q.outcomes) = Len(q.files)
  /\ \A i \in 1..Len(q.files) :
       /\ q.outcomes[i] \in Blocked =>
            kept = "warn" /\ q.outcomes[i] = "upload-unscannable" /\ <<p, q.files[i]>> \in filed
       /\ q.given[i] = IF q.outcomes[i] = "replace" THEN "cleaned" ELSE "original"
  /\ DOMAIN q.given = DOMAIN q.files

VettedInv ==
  \A p \in Picks :
    /\ pick[p].at # "unused" => guard # "none"
    /\ DecidedWell(pick[p])
    /\ pick[p].at = "handed" => HandedWell(p, pick[p], guard, audits)

\* VettedInv holds in every state.
LEMMA VettedInvInductive == UploadSpec => []VettedInv
<1>1. UploadInit => VettedInv
  BY DEF UploadInit, VettedInv, DecidedWell, Unused
<1>2. ASSUME UploadTypeOK, VettedInv, [UploadNext]_uploadVars
      PROVE  VettedInv'
  <2> SUFFICES ASSUME NEW q \in Picks
               PROVE  /\ pick'[q].at # "unused" => guard' # "none"
                      /\ DecidedWell(pick'[q])
                      /\ pick'[q].at = "handed" => HandedWell(q, pick'[q], guard', audits')
    BY DEF VettedInv
  <2>1. /\ pick[q].at # "unused" => guard # "none"
        /\ DecidedWell(pick[q])
        /\ pick[q].at = "handed" => HandedWell(q, pick[q], guard, audits)
    BY <1>2 DEF VettedInv
  <2>2. audits \subseteq audits'
    BY <1>2 DEF UploadNext, uploadVars, Boot, InstallDirect, PolicyArrives, Attach, Decide,
                ScrubThrows, SettleRefused, SettleHanded, SettleUnfired, Audit
  <2>3. CASE pick'[q] = pick[q] /\ guard' = guard
    BY <2>1, <2>2, <2>3 DEF HandedWell
  <2>4. CASE guard = "none" /\ guard' # "none" /\ pick' = pick
    BY <2>1, <2>4
  <2>5. CASE \E way \in Ways, files \in FileLists : Attach(q, way, files)
    <3>1. PICK way \in Ways, files \in FileLists : Attach(q, way, files)
      BY <2>5
    <3>2. files \in Seq(Files)
      BY FileAssumption DEF FileLists
    <3>3. /\ pick'[q].at = "deciding" /\ pick'[q].outcomes = <<>> /\ pick'[q].files = files
          /\ guard' # "none"
      BY <1>2, <3>1 DEF Attach, Unused, UploadTypeOK
    <3>4. DecidedWell(pick'[q])
      BY <3>2, <3>3 DEF DecidedWell
    <3>5. QED
      BY <3>3, <3>4
  <2>6. CASE Decide(q)
    <3>1. PICK o \in OutcomesOf(NextFile(q)) : pick' = [pick EXCEPT ![q].outcomes = Append(@, o)]
      BY <2>6 DEF Decide
    <3>2. /\ pick'[q].at = "deciding" /\ pick'[q].files = pick[q].files /\ guard' = guard
          /\ pick'[q].outcomes = Append(pick[q].outcomes, o)
      BY <1>2, <2>6, <3>1, PickFields DEF Decide, Undecided, UploadTypeOK
    <3>3. /\ Len(pick[q].outcomes) < Len(pick[q].files) /\ pick[q].at = "deciding"
          /\ NextFile(q) = pick[q].files[Len(pick[q].outcomes) + 1]
      BY <2>6 DEF Decide, Undecided, NextFile
    <3>4. DecidedWell(pick'[q])
      BY <1>2, <2>1, <3>1, <3>2, <3>3, PickFields DEF DecidedWell
    <3>5. QED
      BY <2>1, <3>2, <3>3, <3>4
  <2>7. CASE ScrubThrows(q) \/ SettleRefused(q) \/ SettleUnfired(q)
    <3>1. /\ pick'[q].at \notin {"unused", "handed"} /\ pick'[q].files = pick[q].files
          /\ pick'[q].outcomes = pick[q].outcomes /\ guard' = guard /\ pick[q].at = "deciding"
      BY <1>2, <2>7, PickFields
         DEF ScrubThrows, SettleRefused, SettleUnfired, Undecided, Decided, UploadTypeOK
    <3>2. QED
      BY <2>1, <3>1 DEF DecidedWell
  <2>8. CASE SettleHanded(q)
    <3>1. /\ pick'[q].files = pick[q].files /\ pick'[q].outcomes = pick[q].outcomes
          /\ pick'[q].given = Given(q) /\ pick'[q].at = "handed" /\ guard' = guard
      BY <1>2, <2>8, PickFields DEF SettleHanded, Given, UploadTypeOK
    <3>2. Len(pick[q].outcomes) = Len(pick[q].files) /\ pick[q].at = "deciding"
      BY <2>8 DEF SettleHanded, Decided
    <3>3. DOMAIN pick[q].files = 1..Len(pick[q].files) /\ DOMAIN pick[q].outcomes = 1..Len(pick[q].files)
      BY <1>2, <3>2, PickFields
    <3>4. ASSUME NEW i \in 1..Len(pick[q].files), pick[q].outcomes[i] \in Blocked
          PROVE  guard = "warn" /\ pick[q].outcomes[i] = "upload-unscannable"
                 /\ <<q, pick[q].files[i]>> \in audits'
      <4>1. i \in LetThrough(q)
        BY <2>8, <3>3, <3>4 DEF SettleHanded, Refused
      <4>2. QED
        BY <2>8, <4>1 DEF SettleHanded, LetThrough, Audit
    <3>5. \A i \in 1..Len(pick[q].files) :
            Given(q)[i] = IF pick[q].outcomes[i] = "replace" THEN "cleaned" ELSE "original"
      BY <3>3 DEF Given
    <3>6. DOMAIN Given(q) = DOMAIN pick[q].files
      BY DEF Given
    <3>7. HandedWell(q, pick'[q], guard', audits')
      BY <3>1, <3>2, <3>4, <3>5, <3>6 DEF HandedWell
    <3>8. QED
      BY <2>1, <3>1, <3>2, <3>7 DEF DecidedWell
  <2>9. QED
    <3>1. CASE Boot \/ \E u \in Policies : InstallDirect(u) \/ PolicyArrives(u)
      BY <2>3, <2>4, <3>1 DEF Boot, InstallDirect, PolicyArrives, PolicyOf
    <3>2. CASE \E p \in Picks \ {q} : \/ \E way \in Ways, files \in FileLists : Attach(p, way, files)
                                      \/ Decide(p) \/ ScrubThrows(p)
                                      \/ SettleRefused(p) \/ SettleHanded(p) \/ SettleUnfired(p)
      <4>1. pick'[q] = pick[q] /\ guard' = guard
        BY <1>2, <3>2
           DEF Attach, Decide, ScrubThrows, SettleRefused, SettleHanded, SettleUnfired, UploadTypeOK
      <4>2. QED
        BY <2>3, <4>1
    <3>3. CASE UNCHANGED uploadVars
      BY <2>3, <3>3 DEF uploadVars
    <3>4. QED
      BY <1>2, <2>5, <2>6, <2>7, <2>8, <3>1, <3>2, <3>3 DEF UploadNext
<1>3. QED
  BY <1>1, <1>2, UploadTypeCorrect, PTL DEF UploadSpec

\* All files of an attachment or none, each vetted by the gateway and cleaned where it
\* found something, or let through by policy with an audit row.
THEOREM HandedOverIsVettedHolds == UploadSpec => []HandedOverIsVetted
<1>1. ASSUME UploadTypeOK, VettedInv PROVE HandedOverIsVetted
  <2> SUFFICES ASSUME NEW p \in Picks, pick[p].at = "handed"
               PROVE  /\ DOMAIN pick[p].given = DOMAIN pick[p].files
                      /\ \A i \in DOMAIN pick[p].files :
                           IF Kind[pick[p].files[i]] = "none"
                           THEN guard = "warn" /\ <<p, pick[p].files[i]>> \in audits
                           ELSE pick[p].given[i] =
                                  IF pick[p].files[i] \in Dirty THEN "cleaned" ELSE "original"
    BY DEF HandedOverIsVetted
  <2>1. HandedWell(p, pick[p], guard, audits) /\ DecidedWell(pick[p])
    BY <1>1 DEF VettedInv
  <2>2. DOMAIN pick[p].files = 1..Len(pick[p].files)
    BY <1>1, PickFields
  <2>3. ASSUME NEW i \in 1..Len(pick[p].files)
        PROVE  IF Kind[pick[p].files[i]] = "none"
               THEN guard = "warn" /\ <<p, pick[p].files[i]>> \in audits
               ELSE pick[p].given[i] = IF pick[p].files[i] \in Dirty THEN "cleaned" ELSE "original"
    <3>1. pick[p].outcomes[i] \in OutcomesOf(pick[p].files[i])
      BY <2>1 DEF HandedWell, DecidedWell
    <3>2. /\ pick[p].outcomes[i] \in Blocked =>
               /\ guard = "warn" /\ pick[p].outcomes[i] = "upload-unscannable"
               /\ <<p, pick[p].files[i]>> \in audits
          /\ pick[p].given[i] = IF pick[p].outcomes[i] = "replace" THEN "cleaned" ELSE "original"
      BY <2>1 DEF HandedWell
    <3>3. QED
      BY <3>1, <3>2 DEF OutcomesOf, Blocked
  <2>4. QED
    BY <2>1, <2>2, <2>3 DEF HandedWell
<1>2. QED
  BY <1>1, UploadTypeCorrect, VettedInvInductive, PTL

\* An attachment is lost without a word only to an Office document that makes scrubOoxml
\* throw, before the files behind it were decided: the safety part of AttachmentsEnd.
LostToOffice ==
  \A p \in Picks : pick[p].at = "lost" =>
    /\ Len(pick[p].outcomes) < Len(pick[p].files)
    /\ Kind[NextFile(p)] = "office"

\* Whatever fails in whichever file, no attachment is lost without a word in another way.
THEOREM LostToOfficeHolds == UploadSpec => []LostToOffice
<1>1. UploadInit => LostToOffice
  BY DEF UploadInit, LostToOffice, Unused
<1>2. ASSUME UploadTypeOK, LostToOffice, [UploadNext]_uploadVars
      PROVE  LostToOffice'
  <2> SUFFICES ASSUME NEW q \in Picks, pick'[q].at = "lost"
               PROVE  /\ Len(pick'[q].outcomes) < Len(pick'[q].files)
                      /\ Kind[pick'[q].files[Len(pick'[q].outcomes) + 1]] = "office"
    BY DEF LostToOffice, NextFile
  <2>1. CASE pick'[q] = pick[q]
    BY <1>2, <2>1 DEF LostToOffice, NextFile
  <2>2. CASE ScrubThrows(q)
    BY <1>2, <2>2, PickFields DEF ScrubThrows, Undecided, NextFile, UploadTypeOK
  <2>3. ASSUME pick'[q].at \in {"deciding", "told", "handed"} PROVE FALSE
    BY <2>3
  <2>4. CASE Decide(q) \/ SettleRefused(q) \/ SettleHanded(q) \/ SettleUnfired(q)
    BY <1>2, <2>3, <2>4, PickFields
       DEF Decide, Undecided, SettleRefused, SettleHanded, SettleUnfired, Decided, UploadTypeOK
  <2>5. CASE \E way \in Ways, files \in FileLists : Attach(q, way, files)
    BY <1>2, <2>3, <2>5 DEF Attach, UploadTypeOK
  <2>6. CASE \E p \in Picks \ {q} : \/ \E way \in Ways, files \in FileLists : Attach(p, way, files)
                                    \/ Decide(p) \/ ScrubThrows(p)
                                    \/ SettleRefused(p) \/ SettleHanded(p) \/ SettleUnfired(p)
    BY <1>2, <2>1, <2>6
       DEF Attach, Decide, ScrubThrows, SettleRefused, SettleHanded, SettleUnfired, UploadTypeOK
  <2>7. CASE Boot \/ \E u \in Policies : InstallDirect(u) \/ PolicyArrives(u)
    BY <2>1, <2>7 DEF Boot, InstallDirect, PolicyArrives
  <2>8. CASE UNCHANGED uploadVars
    BY <2>1, <2>8 DEF uploadVars
  <2>9. QED
    BY <1>2, <2>2, <2>4, <2>5, <2>6, <2>7, <2>8 DEF UploadNext
<1>3. QED
  BY <1>1, <1>2, UploadTypeCorrect, PTL DEF UploadSpec

-----------------------------------------------------------------------------
(* The capture of replies.                                                 *)

View  == [of : Nat, stage : Stages]
Watch == [at : {"unused", "watching", "over"}, base : View, quiet : BOOLEAN, own : Nat,
          before : View]
Row   == [reply : View, before : View, own : Nat, sent : Nat, how : {"settled", "timeout"}]

CaptureTypeOK ==
  /\ byShape \in BOOLEAN
  /\ sent \in Nat
  /\ view \in View
  /\ watch \in [Turns -> Watch]
  /\ rows \in [Turns -> Seq(Row)]

\* The page went from v to w, or may have.
Follows(v, w) ==
  \/ v.of < w.of
  \/ /\ v.of = w.of
     /\ \/ v.stage = w.stage
        \/ v.stage = "loading"
        \/ w.stage = "whole"

\* What can be read of a page v (Reading), as a function of the page's shape.
Legible(shape, v, own) == v.stage # "loading" /\ (shape => own # 0 /\ v.of >= own)

\* A quiet period began when the page showed something new that could be read.
NewSeen(w, shape, now) ==
  \E v \in View : /\ v.of # 0 /\ v # w.before /\ Follows(w.before, v) /\ Follows(v, now)
                  /\ Legible(shape, v, w.own)

\* A capture on a page of this shape that shows `now`, with n messages sent.
WatchInv(w, shape, now, n) ==
  /\ w.at = "unused" => ~ w.quiet
  /\ w.at = "watching" =>
       /\ w.base = IF Legible(shape, w.before, w.own) THEN w.before ELSE NoReply
       /\ Follows(w.before, now)
       /\ w.own <= n
       /\ w.quiet => NewSeen(w, shape, now)

\* No reply is ahead of its message, and before the first there is none.
ViewInv == view.of <= sent /\ (view.of = 0 => view = NoReply)

\* What the captures under way know of the page.
CaptureInv == CaptureTypeOK /\ ViewInv /\ \A t \in Turns : WatchInv(watch[t], byShape, view, sent)

\* What OwnReplyFiled asks of a row.
FiledWell(r) ==
  /\ r.how = "settled" /\ r.reply # NoReply => r.reply # r.before
  /\ /\ r.how = "settled"
     /\ r.own # 0
     /\ r.sent = r.own
     /\ byShape \/ AnsweredBefore(r.before, r.own)
     => r.reply.of = r.own \/ (byShape /\ r.reply = NoReply)

\* No reply is a view of the page.
LEMMA NoReplyIsView == NoReply \in View /\ NoReply.of = 0 /\ NoReply.stage = "loading"
BY DEF NoReply, View, Stages

\* The fields of a view, and their types.
LEMMA ViewFields ==
  ASSUME NEW v \in View
  PROVE  v.of \in Nat /\ v.stage \in {"loading", "part", "whole"}
BY DEF View, Stages

\* A view is its fields.
LEMMA SameView ==
  ASSUME NEW v \in View, NEW w \in View, v.of = w.of, v.stage = w.stage
  PROVE  v = w
BY DEF View

\* The fields of a capture, and their types.
LEMMA WatchFields ==
  ASSUME NEW w \in Watch
  PROVE  /\ w.at \in {"unused", "watching", "over"} /\ w.quiet \in BOOLEAN /\ w.own \in Nat
         /\ w.base \in View /\ w.before \in View
BY DEF Watch

\* What follows a later state of the page follows the earlier ones.
LEMMA FollowsIsTransitive ==
  ASSUME NEW u \in View, NEW v \in View, NEW w \in View, Follows(u, v), Follows(v, w)
  PROVE  Follows(u, w)
BY ViewFields DEF Follows

\* A page that shows something else does not go back.
LEMMA FollowsIsAntisymmetric ==
  ASSUME NEW v \in View, NEW w \in View, Follows(v, w), Follows(w, v)
  PROVE  v = w
BY ViewFields, SameView DEF Follows

\* What is read is the view, or nothing if it cannot be read.
LEMMA ReadingIs ==
  ASSUME NEW v \in View, NEW own \in Nat, byShape \in BOOLEAN
  PROVE  Reading(v, own) = IF Legible(byShape, v, own) THEN v ELSE NoReply
<1>1. CASE byShape = TRUE
  BY <1>1, ViewFields DEF Reading, Legible
<1>2. CASE byShape = FALSE
  BY <1>2, ViewFields DEF Reading, Legible
<1>3. QED
  BY <1>1, <1>2

\* A capture whose quiet period runs out reads something the page did not show when the
\* capture began; and the reply to its own message, if that was the only new one.
LEMMA SettledWell ==
  ASSUME CaptureInv, NEW t \in Turns, watch[t].at = "watching", watch[t].quiet,
         NEW r \in Readings(watch[t].own)
  PROVE  FiledWell([reply |-> r, before |-> watch[t].before, own |-> watch[t].own, sent |-> sent,
                    how |-> "settled"])
<1> DEFINE w == watch[t]
<1>1. /\ w \in Watch /\ WatchInv(w, byShape, view, sent) /\ view \in View /\ sent \in Nat
      /\ ViewInv /\ w.at = "watching" /\ w.quiet /\ byShape \in BOOLEAN
  BY DEF CaptureInv, CaptureTypeOK
<1> HIDE DEF w
<1>2. w.own \in Nat /\ w.before \in View
  BY <1>1, WatchFields
<1>3. PICK v \in View : /\ v.of # 0 /\ v # w.before /\ Follows(w.before, v) /\ Follows(v, view)
                        /\ Legible(byShape, v, w.own)
  BY <1>1 DEF WatchInv, NewSeen
<1>4. v.stage # "loading" /\ (byShape => w.own # 0 /\ v.of >= w.own)
  BY <1>3 DEF Legible
<1>5. view # w.before
  BY <1>1, <1>2, <1>3, FollowsIsAntisymmetric
<1>6. (r = NoReply /\ byShape) \/ r = Reading(view, w.own)
  BY DEF Readings, w
<1>7. r \in {NoReply, view} /\ (r # NoReply => Legible(byShape, view, w.own))
  BY <1>1, <1>2, <1>6, ReadingIs
<1>8. ASSUME w.own # 0, sent = w.own, byShape \/ AnsweredBefore(w.before, w.own)
      PROVE  r.of = w.own \/ (byShape /\ r = NoReply)
  <2>1. CASE byShape
    <3>1. CASE r # NoReply
      BY <1>1, <1>2, <1>7, <1>8, <2>1, <3>1, ViewFields DEF ViewInv, Legible
    <3>2. QED
      BY <2>1, <3>1
  <2>2. CASE ~ byShape
    <3>1. w.before.of + 1 = w.own /\ (w.before.of # 0 => w.before.stage = "whole")
      BY <1>8, <2>2 DEF AnsweredBefore
    <3>3. w.before.of < v.of
      <4>1. CASE w.before.of = 0
        BY <1>3, <4>1, ViewFields
      <4>2. CASE w.before.of # 0
        BY <1>2, <1>3, <3>1, <4>2, ViewFields, SameView DEF Follows
      <4>3. QED
        BY <4>1, <4>2
    <3>4. v.of = w.own /\ view.of = w.own
      BY <1>1, <1>2, <1>3, <1>8, <3>1, <3>3, ViewFields DEF Follows, ViewInv
    <3>5. view.stage # "loading"
      BY <1>1, <1>3, <1>4, <3>4, ViewFields DEF Follows
    <3>6. QED
      BY <1>1, <1>2, <1>6, <2>2, <3>4, <3>5, ReadingIs DEF Legible
  <2>3. QED
    BY <2>1, <2>2
<1>9. QED
  BY <1>5, <1>7, <1>8 DEF FiledWell, w

\* Whatever a capture has seen it has seen still, when the page moves on.
LEMMA WatchKept ==
  ASSUME NEW w \in Watch, NEW shape \in BOOLEAN, NEW v \in View, NEW n \in Nat,
         WatchInv(w, shape, v, n), NEW u \in View, NEW m \in Nat, n <= m, Follows(v, u)
  PROVE  WatchInv(w, shape, u, m)
<1>1. w.before \in View /\ w.own \in Nat
  BY WatchFields
<1>2. w.at = "watching" => Follows(w.before, u)
  BY <1>1, FollowsIsTransitive DEF WatchInv
<1>3. NewSeen(w, shape, v) => NewSeen(w, shape, u)
  BY FollowsIsTransitive DEF NewSeen
<1>4. QED
  BY <1>1, <1>2, <1>3 DEF WatchInv

\* A page that does not change follows itself.
LEMMA ViewStays ==
  ASSUME NEW v \in View
  PROVE  Follows(v, v)
BY DEF Follows

\* CaptureInv holds in every state.
LEMMA CaptureInvInductive == CaptureSpec => []CaptureInv
<1>1. CaptureInit => CaptureInv
  <2> SUFFICES ASSUME CaptureInit PROVE CaptureInv
    OBVIOUS
  <2>1. Unwatched \in Watch /\ Unwatched.at = "unused" /\ ~ Unwatched.quiet
    BY NoReplyIsView DEF Unwatched, Watch
  <2>2. \A t \in Turns : WatchInv(watch[t], byShape, view, sent)
    BY <2>1 DEF CaptureInit, WatchInv
  <2>3. QED
    BY <2>1, <2>2, NoReplyIsView DEF CaptureInit, CaptureInv, CaptureTypeOK, ViewInv
<1>2. ASSUME CaptureInv, [CaptureNext]_captureVars
      PROVE  CaptureInv'
  <2>0. /\ byShape \in BOOLEAN /\ sent \in Nat /\ view \in View /\ watch \in [Turns -> Watch]
        /\ rows \in [Turns -> Seq(Row)] /\ ViewInv
        /\ \A t \in Turns : WatchInv(watch[t], byShape, view, sent)
    BY <1>2 DEF CaptureInv, CaptureTypeOK
  <2>1. CASE OtherMessage
    <3>1. sent' = sent + 1 /\ UNCHANGED <<byShape, view, watch, rows>>
      BY <2>1 DEF OtherMessage
    <3>2. \A t \in Turns : WatchInv(watch[t], byShape, view, sent')
      BY <2>0, <3>1, WatchKept, ViewStays
    <3>3. QED
      BY <2>0, <3>1, <3>2, ViewFields DEF CaptureInv, CaptureTypeOK, ViewInv
  <2>2. ASSUME NEW v \in [of : 1..MaxMessages, stage : Stages], PageChanges(v)
        PROVE  CaptureInv'
    <3>1. /\ v \in View /\ view' = v /\ v.of # 0
          /\ UNCHANGED <<byShape, sent, rows>>
          /\ watch' = [t \in Turns |-> Observed(watch[t], v)]
      BY <2>2, TurnAssumption DEF PageChanges, View
    <3>2. Follows(view, v) /\ v.of <= sent
      BY <2>0, <2>2, <3>1, ViewFields DEF PageChanges, Follows, ViewInv
    <3>3. ASSUME NEW t \in Turns
          PROVE  watch'[t] \in Watch /\ WatchInv(watch'[t], byShape, v, sent)
      <4> DEFINE w == watch[t]
      <4>1. /\ w \in Watch /\ watch'[t] = Observed(w, v)
            /\ WatchInv(w, byShape, view, sent) /\ WatchInv(w, byShape, v, sent)
        BY <2>0, <3>1, <3>2, WatchKept
      <4> HIDE DEF w
      <4>2. w.before \in View /\ w.own \in Nat
        BY <4>1, WatchFields
      <4>3. CASE w.at = "watching" /\ Reading(v, w.own) \notin {NoReply, w.base}
        <5>1. watch'[t] = [w EXCEPT !.quiet = TRUE]
          BY <4>1, <4>3 DEF Observed
        <5>2. /\ watch'[t] \in Watch /\ watch'[t].at = "watching" /\ watch'[t].before = w.before
              /\ watch'[t].own = w.own /\ watch'[t].base = w.base
          BY <4>1, <4>3, <5>1 DEF Watch
        <5>3. Legible(byShape, v, w.own) /\ v # w.before
          BY <2>0, <3>1, <4>1, <4>2, <4>3, ReadingIs DEF WatchInv
        <5>4. Follows(w.before, v)
          BY <4>1, <4>3 DEF WatchInv
        <5>5. NewSeen(watch'[t], byShape, v)
          BY <3>1, <5>2, <5>3, <5>4, ViewStays DEF NewSeen
        <5>6. QED
          BY <4>1, <4>3, <5>2, <5>5 DEF WatchInv
      <4>4. CASE ~ (w.at = "watching" /\ Reading(v, w.own) \notin {NoReply, w.base})
        BY <4>1, <4>4 DEF Observed
      <4>5. QED
        BY <4>3, <4>4
    <3>4. QED
      BY <2>0, <3>1, <3>2, <3>3 DEF CaptureInv, CaptureTypeOK, ViewInv
  <2>3. ASSUME NEW t \in Turns, Capture(t) PROVE CaptureInv'
    <3>1. PICK own \in {0, sent + 1} :
            /\ sent' = IF own = 0 THEN sent ELSE own
            /\ watch' = [watch EXCEPT ![t] = [at |-> "watching", base |-> Baseline(own),
                 quiet |-> FALSE, own |-> own, before |-> view]]
      BY <2>3 DEF Capture
    <3> DEFINE w == [at |-> "watching", base |-> Baseline(own), quiet |-> FALSE, own |-> own,
                     before |-> view]
    <3>2. /\ own \in Nat /\ sent' \in Nat /\ sent <= sent' /\ own <= sent'
          /\ UNCHANGED <<byShape, view, rows>>
      BY <2>0, <2>3, <3>1 DEF Capture
    <3>3. /\ Baseline(own) \in View
          /\ Baseline(own) = IF Legible(byShape, view, own) THEN view ELSE NoReply
      BY <2>0, <3>2, ReadingIs, NoReplyIsView DEF Baseline
    <3>4. w \in Watch /\ WatchInv(w, byShape, view, sent')
      BY <2>0, <3>2, <3>3, ViewStays DEF Watch, WatchInv
    <3>5. watch' = [watch EXCEPT ![t] = w]
      BY <3>1
    <3> HIDE DEF w
    <3>6. \A u \in Turns : watch'[u] \in Watch /\ WatchInv(watch'[u], byShape, view, sent')
      <4>1. ASSUME NEW u \in Turns, u # t
            PROVE  watch'[u] = watch[u] /\ WatchInv(watch[u], byShape, view, sent')
        BY <2>0, <3>2, <3>5, <4>1, WatchKept, ViewStays
      <4>2. watch'[t] = w
        BY <2>0, <3>5
      <4>3. QED
        BY <2>0, <3>4, <4>1, <4>2
    <3>7. watch' \in [Turns -> Watch]
      BY <2>0, <3>4, <3>5
    <3>8. ViewInv'
      BY <2>0, <3>2, ViewFields DEF ViewInv
    <3>9. QED
      BY <2>0, <3>2, <3>6, <3>7, <3>8 DEF CaptureInv, CaptureTypeOK
  <2>4. ASSUME NEW t \in Turns, Settle(t) \/ HardTimeout(t) PROVE CaptureInv'
    <3>1. /\ UNCHANGED <<byShape, sent, view>>
          /\ \/ watch' = [watch EXCEPT ![t].at = "over", ![t].quiet = FALSE]
             \/ watch' = [watch EXCEPT ![t].at = "over"]
      BY <2>4 DEF Settle, HardTimeout
    <3>2. rows' = rows \/ \E how \in {"settled", "timeout"} : Filed(t, how)
      BY <2>4 DEF Settle, HardTimeout
    <3>3. rows' \in [Turns -> Seq(Row)]
      <4>1. ASSUME NEW how \in {"settled", "timeout"}, Filed(t, how)
            PROVE  rows' \in [Turns -> Seq(Row)]
        <5>1. PICK r \in Readings(watch[t].own) :
                rows' = [rows EXCEPT ![t] = Append(@,
                  [reply |-> r, before |-> watch[t].before, own |-> watch[t].own, sent |-> sent,
                   how |-> how])]
          BY <4>1 DEF Filed
        <5>2. watch[t].own \in Nat /\ watch[t].before \in View
          BY <2>0, WatchFields
        <5>3. r \in View
          BY <2>0, <5>2, ReadingIs, NoReplyIsView DEF Readings
        <5> DEFINE row == [reply |-> r, before |-> watch[t].before, own |-> watch[t].own,
                           sent |-> sent, how |-> how]
        <5>4. row \in Row
          BY <2>0, <5>2, <5>3 DEF Row
        <5> HIDE DEF row
        <5>5. rows' = [rows EXCEPT ![t] = Append(@, row)]
          BY <5>1 DEF row
        <5>6. QED
          BY <2>0, <5>4, <5>5
      <4>2. QED
        BY <2>0, <3>2, <4>1
    <3>4. ASSUME NEW u \in Turns
          PROVE  watch'[u] \in Watch /\ WatchInv(watch'[u], byShape, view, sent)
      <4>1. CASE u # t
        <5>1. watch'[u] = watch[u]
          BY <2>0, <3>1, <4>1
        <5>2. QED
          BY <2>0, <5>1
      <4>2. CASE u = t
        <5>1. watch'[t] \in Watch /\ watch'[t].at = "over"
          <6>1. watch'[t] = [watch[t] EXCEPT !.at = "over", !.quiet = FALSE]
                  \/ watch'[t] = [watch[t] EXCEPT !.at = "over"]
            BY <2>0, <3>1
          <6>2. watch[t] \in Watch
            BY <2>0
          <6>3. QED
            BY <6>1, <6>2 DEF Watch
        <5>2. QED
          BY <4>2, <5>1 DEF WatchInv
      <4>3. QED
        BY <4>1, <4>2
    <3>5. watch' \in [Turns -> Watch]
      <4>1. DOMAIN watch' = Turns /\ watch' = [u \in Turns |-> watch'[u]]
        BY <2>0, <3>1
      <4>2. QED
        BY <3>4, <4>1
    <3>6. QED
      BY <2>0, <3>1, <3>3, <3>4, <3>5 DEF CaptureInv, CaptureTypeOK, ViewInv
  <2>5. CASE UNCHANGED captureVars
    BY <2>0, <2>5, WatchKept, ViewStays DEF captureVars, CaptureInv, CaptureTypeOK, ViewInv
  <2>6. QED
    BY <1>2, <2>1, <2>2, <2>3, <2>4, <2>5 DEF CaptureNext
<1>3. QED
  BY <1>1, <1>2, PTL DEF CaptureSpec

\* A capture that settled filed something new on the page; and if its message was sent,
\* nothing was sent after it, and what came before it was answered in full (or replies are
\* found by shape), it filed the reply to its own message or, found by shape, none.
THEOREM OwnReplyFiledHolds == CaptureSpec => []OwnReplyFiled
<1>1. CaptureInit => OwnReplyFiled
  BY DEF CaptureInit, OwnReplyFiled
<1>2. ASSUME CaptureInv, OwnReplyFiled, [CaptureNext]_captureVars
      PROVE  OwnReplyFiled'
  <2>1. \A u \in Turns : \A i \in DOMAIN rows[u] : FiledWell(rows[u][i])
    BY <1>2 DEF OwnReplyFiled, FiledWell
  <2>2. UNCHANGED byShape
    BY <1>2 DEF CaptureNext, captureVars, OtherMessage, PageChanges, Capture, Settle, HardTimeout
  <2>3. CASE UNCHANGED rows
    BY <2>1, <2>2, <2>3 DEF OwnReplyFiled, FiledWell
  <2>4. ASSUME NEW t \in Turns, NEW how \in {"settled", "timeout"}, Filed(t, how),
               how = "settled" => watch[t].at = "watching" /\ watch[t].quiet
        PROVE  OwnReplyFiled'
    <3>1. PICK r \in Readings(watch[t].own) :
            rows' = [rows EXCEPT ![t] = Append(@,
              [reply |-> r, before |-> watch[t].before, own |-> watch[t].own, sent |-> sent,
               how |-> how])]
      BY <2>4 DEF Filed
    <3> DEFINE row == [reply |-> r, before |-> watch[t].before, own |-> watch[t].own,
                       sent |-> sent, how |-> how]
    <3>2. FiledWell(row)
      <4>1. CASE how = "settled"
        BY <1>2, <2>4, <4>1, SettledWell
      <4>2. CASE how # "settled"
        BY <4>2 DEF FiledWell
      <4>3. QED
        BY <4>1, <4>2
    <3>3. rows' = [rows EXCEPT ![t] = Append(@, row)]
      BY <3>1
    <3> HIDE DEF row
    <3>4. rows \in [Turns -> Seq(Row)]
      BY <1>2 DEF CaptureInv, CaptureTypeOK
    <3>5. ASSUME NEW u \in Turns, NEW i \in DOMAIN rows'[u] PROVE FiledWell(rows'[u][i])
      <4>1. CASE u # t
        BY <2>1, <3>3, <3>4, <4>1
      <4>2. CASE u = t
        <5>1. rows'[t] = Append(rows[t], row) /\ rows[t] \in Seq(Row)
          BY <3>3, <3>4
        <5>2. \/ i \in 1 .. Len(rows[t]) /\ rows'[t][i] = rows[t][i]
              \/ rows'[t][i] = row
          BY <4>2, <5>1
        <5>3. QED
          BY <2>1, <3>2, <3>4, <4>2, <5>2
      <4>3. QED
        BY <4>1, <4>2
    <3>6. QED
      BY <2>2, <3>5 DEF OwnReplyFiled, FiledWell
  <2>5. QED
    BY <1>2, <2>3, <2>4
       DEF CaptureNext, captureVars, OtherMessage, PageChanges, Capture, Settle, HardTimeout
<1>3. QED
  BY <1>1, <1>2, CaptureInvInductive, PTL DEF CaptureSpec

\* A capture that is over has filed its turn once, and no other has filed: the safety part
\* of EveryTurnFiledOnce.
FiledWhenOver == \A t \in Turns : Len(rows[t]) = IF watch[t].at = "over" THEN 1 ELSE 0

\* The settle timer and the hard timeout, of which neither clears the other, never both
\* file a turn.
THEOREM FiledWhenOverHolds == CaptureSpec => []FiledWhenOver
<1>1. CaptureInit => FiledWhenOver
  BY DEF CaptureInit, FiledWhenOver, Unwatched
<1>2. ASSUME CaptureInv, FiledWhenOver, [CaptureNext]_captureVars
      PROVE  FiledWhenOver'
  <2>0. watch \in [Turns -> Watch] /\ rows \in [Turns -> Seq(Row)]
    BY <1>2 DEF CaptureInv, CaptureTypeOK
  <2> SUFFICES ASSUME NEW u \in Turns
               PROVE  Len(rows'[u]) = IF watch'[u].at = "over" THEN 1 ELSE 0
    BY DEF FiledWhenOver
  <2>1. Len(rows[u]) = IF watch[u].at = "over" THEN 1 ELSE 0
    BY <1>2 DEF FiledWhenOver
  <2>2. CASE rows'[u] = rows[u] /\ watch'[u].at = watch[u].at
    BY <2>1, <2>2
  <2>3. ASSUME NEW t \in Turns, NEW how, Filed(t, how), watch[t].at = "watching",
               \/ watch' = [watch EXCEPT ![t].at = "over", ![t].quiet = FALSE]
               \/ watch' = [watch EXCEPT ![t].at = "over"]
        PROVE  Len(rows'[u]) = IF watch'[u].at = "over" THEN 1 ELSE 0
    <3>1. PICK row : rows' = [rows EXCEPT ![t] = Append(@, row)]
      BY <2>3 DEF Filed
    <3>2. CASE u # t
      BY <2>0, <2>2, <2>3, <3>1, <3>2
    <3>3. CASE u = t
      <4>1. rows'[u] = Append(rows[u], row) /\ rows[u] \in Seq(Row)
        BY <2>0, <3>1, <3>3
      <4>2. Len(rows'[u]) = Len(rows[u]) + 1
        BY <4>1
      <4>3. watch'[u].at = "over"
        <5>1. watch[t] \in Watch
          BY <2>0
        <5>2. [watch[t] EXCEPT !.at = "over", !.quiet = FALSE].at = "over"
          BY <5>1 DEF Watch
        <5>3. [watch[t] EXCEPT !.at = "over"].at = "over"
          BY <5>1 DEF Watch
        <5>4. \/ watch'[t] = [watch[t] EXCEPT !.at = "over", !.quiet = FALSE]
              \/ watch'[t] = [watch[t] EXCEPT !.at = "over"]
          BY <2>0, <2>3
        <5>5. QED
          BY <3>3, <5>2, <5>3, <5>4
      <4>4. QED
        BY <2>1, <2>3, <3>3, <4>2, <4>3
    <3>4. QED
      BY <3>2, <3>3
  <2>4. ASSUME NEW t \in Turns, Settle(t)
        PROVE  Len(rows'[u]) = IF watch'[u].at = "over" THEN 1 ELSE 0
    <3>1. CASE watch[t].at = "watching"
      BY <2>3, <2>4, <3>1 DEF Settle
    <3>2. CASE watch[t].at # "watching"
      <4>1. rows' = rows /\ watch' = [watch EXCEPT ![t].at = "over", ![t].quiet = FALSE]
            /\ watch[t].quiet
        BY <2>4, <3>2 DEF Settle
      <4>2. watch[t].at = "over"
        <5>1. WatchInv(watch[t], byShape, view, sent) /\ watch[t] \in Watch
          BY <1>2, <2>0 DEF CaptureInv
        <5>2. QED
          BY <3>2, <4>1, <5>1 DEF WatchInv, Watch
      <4>3. watch'[u].at = watch[u].at
        BY <2>0, <4>1, <4>2
      <4>4. QED
        BY <2>2, <4>1, <4>3
    <3>3. QED
      BY <3>1, <3>2
  <2>5. ASSUME NEW t \in Turns, HardTimeout(t)
        PROVE  Len(rows'[u]) = IF watch'[u].at = "over" THEN 1 ELSE 0
    BY <2>3, <2>5 DEF HardTimeout
  <2>6. ASSUME NEW t \in Turns, Capture(t)
        PROVE  rows'[u] = rows[u] /\ (watch[u].at = "over" <=> watch'[u].at = "over")
    BY <2>0, <2>6 DEF Capture
  <2>7. ASSUME NEW v, PageChanges(v)
        PROVE  rows'[u] = rows[u] /\ watch'[u].at = watch[u].at
    BY <2>0, <2>7 DEF PageChanges, Observed, Watch
  <2>8. CASE OtherMessage \/ UNCHANGED captureVars
    BY <2>2, <2>8 DEF OtherMessage, captureVars
  <2>9. QED
    BY <1>2, <2>1, <2>2, <2>4, <2>5, <2>6, <2>7, <2>8 DEF CaptureNext
<1>3. QED
  BY <1>1, <1>2, CaptureInvInductive, PTL DEF CaptureSpec
=============================================================================
