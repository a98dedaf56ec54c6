------------------------ MODULE ProxyPipeline_proofs ------------------------
(***************************************************************************)
(* Theorems about ProxyPipeline for every number of concurrent requests,   *)
(* every model policy and every capacity of the logs and the cache.        *)
(***************************************************************************)
EXTENDS ProxyPipeline, SequenceTheorems, TLAPS

-----------------------------------------------------------------------------
(* Bounded stores.                                                         *)

\* `new` is `log` with e behind it and without its d oldest entries.
ShiftedBy(d, new, log, e) ==
  /\ Len(new) = Len(log) + 1 - d
  /\ \A i \in 1 .. Len(new) : new[i] = IF i + d <= Len(log) THEN log[i + d] ELSE e

\* A push keeps type and bound and drops at most the oldest entry.
LEMMA PushedIs ==
  ASSUME NEW T, NEW log \in Seq(T), NEW cap \in Nat \ {0}, Len(log) <= cap,
         NEW e \in T
  PROVE  /\ Pushed(log, cap, e) \in Seq(T)
         /\ Len(Pushed(log, cap, e)) <= cap
         /\ \E d \in {0, 1} : ShiftedBy(d, Pushed(log, cap, e), log, e)
<1> DEFINE longer == Append(log, e)
<1>1. /\ longer \in Seq(T) /\ Len(longer) = Len(log) + 1 /\ longer # <<>>
      /\ \A i \in 1 .. Len(longer) : longer[i] = IF i <= Len(log) THEN log[i] ELSE e
  OBVIOUS
<1>2. Len(log) \in Nat /\ Len(longer) \in Nat
  OBVIOUS
<1>3. CASE Len(longer) > cap
  <2>1. Pushed(log, cap, e) = Tail(longer)
    BY <1>3 DEF Pushed
  <2>2. /\ Tail(longer) \in Seq(T) /\ Len(Tail(longer)) = Len(longer) - 1
        /\ \A i \in 1 .. Len(Tail(longer)) : Tail(longer)[i] = longer[i + 1]
    <3> HIDE DEF longer
    <3> QED BY <1>1, HeadTailProperties
  <2>3. \A i \in 1 .. Len(Tail(longer)) :
          Tail(longer)[i] = IF i + 1 <= Len(log) THEN log[i + 1] ELSE e
    <3> HIDE DEF longer
    <3> QED BY <1>1, <1>2, <2>2
  <2>4. Len(Tail(longer)) = Len(log) + 1 - 1
    <3> HIDE DEF longer
    <3> QED BY <1>1, <1>2, <2>2
  <2>5. Len(Tail(longer)) <= cap
    BY <1>2, <2>4
  <2>6. ShiftedBy(1, Tail(longer), log, e)
    BY <2>3, <2>4 DEF ShiftedBy
  <2>7. QED BY <2>1, <2>2, <2>5, <2>6
<1>4. CASE ~ (Len(longer) > cap)
  <2>1. Pushed(log, cap, e) = longer
    BY <1>4 DEF Pushed
  <2>2. /\ Len(longer) = Len(log) + 1 - 0 /\ Len(longer) <= cap
        /\ \A i \in 1 .. Len(longer) : longer[i] = IF i + 0 <= Len(log) THEN log[i + 0] ELSE e
    <3> HIDE DEF longer
    <3> QED BY <1>1, <1>2, <1>4
  <2>3. ShiftedBy(0, longer, log, e)
    BY <2>2 DEF ShiftedBy
  <2>4. QED BY <1>1, <2>1, <2>2, <2>3
<1>5. QED BY <1>3, <1>4

\* An entry of the store after a push is the new one or an old one.
LEMMA PushedEntry ==
  ASSUME NEW T, NEW log \in Seq(T), NEW cap \in Nat \ {0}, Len(log) <= cap,
         NEW e \in T, NEW i \in 1 .. Len(Pushed(log, cap, e))
  PROVE  \/ Pushed(log, cap, e)[i] = e
         \/ \E j \in 1 .. Len(log) : Pushed(log, cap, e)[i] = log[j]
<1>1. PICK d \in {0, 1} : ShiftedBy(d, Pushed(log, cap, e), log, e)
  BY PushedIs
<1>2. Len(log) \in Nat
  OBVIOUS
<1>3. QED BY <1>1, <1>2 DEF ShiftedBy

\* A function on 1..n is a sequence of length n.
LEMMA FunctionIsSeq ==
  ASSUME NEW T, NEW n \in Nat, NEW f \in [1 .. n -> T]
  PROVE  f \in Seq(T) /\ Len(f) = n
<1>1. f \in Seq(T)
  BY SeqDef
<1>2. QED BY <1>1, LenProperties

\* The back-fill changes nothing but the response of rows.
LEMMA BackFilledIs ==
  ASSUME NEW log \in Seq(SecurityEntry), NEW r \in Requests
  PROVE  /\ BackFilled(log, r) \in Seq(SecurityEntry)
         /\ Len(BackFilled(log, r)) = Len(log)
         /\ \A i \in 1 .. Len(log) :
              BackFilled(log, r)[i] =
                IF log[i].req = r THEN [log[i] EXCEPT !.response = r] ELSE log[i]
<1>1. Len(log) \in Nat /\ \A i \in 1 .. Len(log) : log[i] \in SecurityEntry
  OBVIOUS
<1>2. \A e \in SecurityEntry : [e EXCEPT !.response = r] \in SecurityEntry
  BY DEF SecurityEntry
<1>3. BackFilled(log, r) \in [1 .. Len(log) -> SecurityEntry]
  BY <1>1, <1>2 DEF BackFilled
<1>4. BackFilled(log, r) \in Seq(SecurityEntry) /\ Len(BackFilled(log, r)) = Len(log)
  BY <1>1, <1>3, FunctionIsSeq
<1>5. QED BY <1>4 DEF BackFilled

-----------------------------------------------------------------------------
(* Type correctness.                                                       *)

\* A request waits for the classifier only if it has a prompt to classify.  This
\* makes the types inductive: a flagged prompt is a prompt.
AnalyzedHasPrompt == \A r \in Requests : pc[r] = "analyzing" => req[r].prompt \in Prompts

TypeInv == TypeOK /\ AnalyzedHasPrompt

\* The stores with their bounds.
StoresOK ==
  /\ trafficLog \in Seq(TrafficEntry) /\ Len(trafficLog) <= TrafficCap
  /\ securityLog \in Seq(SecurityEntry) /\ Len(securityLog) <= SecurityCap
  /\ recorded \in [Requests -> Nat]

\* Logging a request keeps the types of what it changes.
LEMMA RecordType ==
  ASSUME TypeOK, NEW r \in Requests, NEW status \in Statuses,
         NEW log \in Seq(SecurityEntry), Len(log) <= SecurityCap,
         Record(r, status, log)
  PROVE  StoresOK'
<1>1. [req |-> r, status |-> status] \in TrafficEntry
  BY DEF TrafficEntry
<1>2. trafficLog' \in Seq(TrafficEntry) /\ Len(trafficLog') <= TrafficCap
  BY <1>1, PushedIs, CapAssumption DEF Record, TypeOK
<1>3. securityLog' \in Seq(SecurityEntry) /\ Len(securityLog') <= SecurityCap
  BY BackFilledIs DEF Record
<1>4. recorded' \in [Requests -> Nat]
  BY DEF Record, TypeOK
<1>5. QED BY <1>2, <1>3, <1>4 DEF StoresOK

\* Ending a request keeps the types of what it changes.
LEMMA FinishType ==
  ASSUME TypeOK, NEW r \in Requests, NEW status \in Statuses, Finish(r, status)
  PROVE  StoresOK' /\ reply' \in [Requests -> Statuses \cup {0}] /\ pc' = [pc EXCEPT ![r] = "done"]
<1>1. StoresOK'
  BY RecordType DEF Finish, TypeOK
<1>2. QED BY <1>1 DEF Finish, TypeOK

\* The rows with which a request goes on after its verdict.
LEMMA FlaggedType ==
  ASSUME TypeOK, NEW r \in Requests, NEW q \in Arrival, NEW verdict,
         verdict = "inject" => q.prompt \in Prompts
  PROVE  Flagged(r, q, verdict) \in Seq(SecurityEntry) /\ Len(Flagged(r, q, verdict)) <= SecurityCap
<1> DEFINE e == [req |-> r, prompt |-> q.prompt, response |-> NoRequest]
<1>1. securityLog \in Seq(SecurityEntry) /\ Len(securityLog) <= SecurityCap
  BY DEF TypeOK
<1>2. CASE verdict = "inject"
  <2>1. e \in SecurityEntry
    BY <1>2 DEF SecurityEntry
  <2>2. Flagged(r, q, verdict) = Pushed(securityLog, SecurityCap, e)
    BY <1>2 DEF Flagged
  <2> HIDE DEF e
  <2>3. Pushed(securityLog, SecurityCap, e) \in Seq(SecurityEntry)
        /\ Len(Pushed(securityLog, SecurityCap, e)) <= SecurityCap
    BY <1>1, <2>1, PushedIs, CapAssumption
  <2>4. QED BY <2>2, <2>3
<1>3. CASE verdict # "inject"
  BY <1>1, <1>3 DEF Flagged
<1>4. QED BY <1>2, <1>3

\* Refusing or forwarding a request keeps the types of what it changes.
LEMMA ConcludeType ==
  ASSUME TypeOK, NEW r \in Requests, NEW q \in Arrival, NEW verdict,
         verdict = "inject" => q.prompt \in Prompts,
         Conclude(r, q, verdict)
  PROVE  /\ StoresOK'
         /\ reply' \in [Requests -> Statuses \cup {0}]
         /\ left' \in [Requests -> SUBSET {"classify", "forward"}]
         /\ pc' = [pc EXCEPT ![r] = "done"] \/ pc' = [pc EXCEPT ![r] = "forwarding"]
<1>1. CASE Refuse(r, q, verdict)
  <2>1. StoresOK'
    BY <1>1, FlaggedType, RecordType DEF Refuse, Statuses
  <2>2. QED BY <1>1, <2>1 DEF Refuse, Statuses, TypeOK
<1>2. CASE Forward(r, q, verdict)
  <2>1. StoresOK'
    BY <1>2, FlaggedType DEF Forward, StoresOK, TypeOK
  <2>2. left' \in [Requests -> SUBSET {"classify", "forward"}]
    BY <1>2 DEF Forward, TypeOK
  <2>3. QED BY <1>2, <2>1, <2>2 DEF Forward, TypeOK
<1>3. QED BY <1>1, <1>2 DEF Conclude

\* Caching a verdict keeps type and bound of the cache.
LEMMA CachePutType ==
  ASSUME TypeOK, NEW p \in Prompts, NEW v \in Verdict
  PROVE  /\ CachePut(p, v) \in Seq([prompt : Prompts, verdict : Verdict])
         /\ Len(CachePut(p, v)) <= CacheMax
<1> DEFINE T == [prompt : Prompts, verdict : Verdict]
           e == [prompt |-> p, verdict |-> v]
           set == [i \in 1 .. Len(cache) |-> IF i \in CacheHits(p) THEN e ELSE cache[i]]
<1>1. cache \in Seq(T) /\ Len(cache) <= CacheMax /\ Len(cache) \in Nat /\ e \in T
  BY DEF TypeOK
<1>2. CASE CacheHits(p) = {}
  <2>1. CachePut(p, v) = Pushed(cache, CacheMax, e)
    BY <1>2 DEF CachePut
  <2> HIDE DEF T, e
  <2>2. Pushed(cache, CacheMax, e) \in Seq(T) /\ Len(Pushed(cache, CacheMax, e)) <= CacheMax
    BY <1>1, PushedIs, CapAssumption
  <2>3. QED BY <2>1, <2>2 DEF T
<1>3. CASE CacheHits(p) # {}
  <2>1. CachePut(p, v) = set
    BY <1>3 DEF CachePut
  <2> HIDE DEF T, e
  <2>2. \A i \in 1 .. Len(cache) : cache[i] \in T
    BY <1>1, ElementOfSeq
  <2>3. set \in [1 .. Len(cache) -> T]
    BY <1>1, <2>2
  <2> HIDE DEF set
  <2>4. set \in Seq(T) /\ Len(set) = Len(cache)
    BY <1>1, <2>3, FunctionIsSeq
  <2>5. QED BY <1>1, <2>1, <2>4 DEF T
<1>4. QED BY <1>2, <1>3

\* The handlers start with every variable of its type.
THEOREM TypeInit == Init => TypeInv
<1> SUFFICES ASSUME Init PROVE TypeInv
  OBVIOUS
<1>1. /\ cache \in Seq([prompt : Prompts, verdict : Verdict]) /\ Len(cache) <= CacheMax
      /\ trafficLog \in Seq(TrafficEntry) /\ Len(trafficLog) <= TrafficCap
      /\ securityLog \in Seq(SecurityEntry) /\ Len(securityLog) <= SecurityCap
  BY CapAssumption, EmptySeq DEF Init
<1>2. TypeOK
  BY <1>1, CapAssumption DEF Init, TypeOK
<1>3. AnalyzedHasPrompt
  BY DEF Init, AnalyzedHasPrompt
<1>4. QED BY <1>2, <1>3 DEF TypeInv

\* A verdict reached without the classifier flags only real prompts.
LEMMA ImmediateFlagsPrompts ==
  ASSUME TypeOK, NEW q \in Arrival, Immediate(q) = "inject"
  PROVE  q.prompt \in Prompts
<1>1. CASE q.prompt \in Known \ Trivial
  BY <1>1, PromptAssumption
<1>2. CASE q.prompt \notin Known \ Trivial
  <2>1. CacheHits(q.prompt) # {}
    BY <1>2 DEF Immediate
  <2>2. PICK i \in 1 .. Len(cache) : cache[i].prompt = q.prompt
    BY <2>1 DEF CacheHits
  <2>3. cache[i] \in [prompt : Prompts, verdict : Verdict]
    BY ElementOfSeq DEF TypeOK
  <2>4. QED BY <2>2, <2>3
<1>3. QED BY <1>1, <1>2

\* What a request asks for.
LEMMA ReqType ==
  ASSUME TypeOK, NEW r \in Requests
  PROVE  req[r] \in Arrival
BY ArrivalAssumption DEF TypeOK

\* A step of a handler, an upstream, a client or the console keeps every type.
THEOREM TypeNext == TypeInv /\ [Next]_vars => TypeInv'
<1> SUFFICES ASSUME TypeInv, [Next]_vars PROVE TypeInv'
  OBVIOUS
<1> USE DEF TypeInv
<1>1. ASSUME NEW r \in Requests, Arrive(r) PROVE TypeInv'
  <2>1. req[r] \in Arrival
    BY ReqType
  <2>2. CASE ArriveMalformed(r, req[r])
    <3>1. StoresOK' /\ reply' \in [Requests -> Statuses \cup {0}] /\ pc' = [pc EXCEPT ![r] = "done"]
      BY <2>2, FinishType DEF ArriveMalformed, Statuses
    <3>2. TypeOK'
      BY <1>1, <2>2, <3>1 DEF Arrive, ArriveMalformed, StoresOK, TypeOK, policy
    <3>3. AnalyzedHasPrompt'
      BY <1>1, <3>1 DEF Arrive, AnalyzedHasPrompt, TypeOK
    <3>4. QED BY <3>2, <3>3
  <2>3. CASE ArriveClassify(r, req[r])
    <3>1. TypeOK'
      BY <1>1, <2>3 DEF Arrive, ArriveClassify, TypeOK, policy
    <3>2. AnalyzedHasPrompt'
      BY <1>1, <2>3 DEF Arrive, ArriveClassify, NeedsClassifier, AnalyzedHasPrompt, TypeOK
    <3>3. QED BY <3>1, <3>2
  <2>4. CASE ArriveDecided(r, req[r])
    <3>1. Conclude(r, req[r], Immediate(req[r]))
      BY <2>4 DEF ArriveDecided
    <3>2. Immediate(req[r]) = "inject" => req[r].prompt \in Prompts
      BY <2>1, ImmediateFlagsPrompts
    <3>3. /\ StoresOK'
          /\ reply' \in [Requests -> Statuses \cup {0}]
          /\ left' \in [Requests -> SUBSET {"classify", "forward"}]
          /\ pc' = [pc EXCEPT ![r] = "done"] \/ pc' = [pc EXCEPT ![r] = "forwarding"]
      BY <2>1, <3>1, <3>2, ConcludeType
    <3>4. TypeOK'
      BY <1>1, <3>3 DEF Arrive, StoresOK, TypeOK, policy
    <3>5. AnalyzedHasPrompt'
      BY <1>1, <3>3 DEF Arrive, AnalyzedHasPrompt, TypeOK
    <3>6. QED BY <3>4, <3>5
  <2>5. QED BY <1>1, <2>2, <2>3, <2>4 DEF Arrive
<1>2. ASSUME NEW r \in Requests, NEW verdict \in Verdict, ClassifierAnswers(r, verdict)
      PROVE  TypeInv'
  <2>1. req[r] \in Arrival /\ req[r].prompt \in Prompts
    BY <1>2, ReqType DEF ClassifierAnswers, AnalyzedHasPrompt
  <2>2. Conclude(r, req[r], verdict)
    BY <1>2 DEF ClassifierAnswers
  <2>3. /\ StoresOK'
        /\ reply' \in [Requests -> Statuses \cup {0}]
        /\ left' \in [Requests -> SUBSET {"classify", "forward"}]
        /\ pc' = [pc EXCEPT ![r] = "done"] \/ pc' = [pc EXCEPT ![r] = "forwarding"]
    BY <2>1, <2>2, ConcludeType
  <2>4. /\ cache' \in Seq([prompt : Prompts, verdict : Verdict]) /\ Len(cache') <= CacheMax
    BY <1>2, <2>1, CachePutType DEF ClassifierAnswers
  <2>5. answers' \subseteq Prompts \X Verdict
    BY <1>2, <2>1 DEF ClassifierAnswers, TypeOK
  <2>6. TypeOK'
    BY <1>2, <2>3, <2>4, <2>5 DEF ClassifierAnswers, StoresOK, TypeOK, policy
  <2>7. AnalyzedHasPrompt'
    BY <1>2, <2>3 DEF ClassifierAnswers, AnalyzedHasPrompt, TypeOK
  <2>8. QED BY <2>6, <2>7
<1>3. ASSUME NEW r \in Requests, ClassifierFails(r) PROVE TypeInv'
  <2>1. req[r] \in Arrival /\ Conclude(r, req[r], "allow")
    BY <1>3, ReqType DEF ClassifierFails
  <2>2. /\ StoresOK'
        /\ reply' \in [Requests -> Statuses \cup {0}]
        /\ left' \in [Requests -> SUBSET {"classify", "forward"}]
        /\ pc' = [pc EXCEPT ![r] = "done"] \/ pc' = [pc EXCEPT ![r] = "forwarding"]
    BY <2>1, ConcludeType
  <2>3. TypeOK'
    BY <1>3, <2>2 DEF ClassifierFails, StoresOK, TypeOK, policy
  <2>4. AnalyzedHasPrompt'
    BY <1>3, <2>2 DEF ClassifierFails, AnalyzedHasPrompt, TypeOK
  <2>5. QED BY <2>3, <2>4
<1>4. ASSUME NEW r \in Requests, UpstreamStreams(r) \/ UpstreamBuffers(r) PROVE TypeInv'
  <2>1. /\ pc' = [pc EXCEPT ![r] = "streaming"] \/ pc' = [pc EXCEPT ![r] = "buffering"]
        /\ reply' = [reply EXCEPT ![r] = 200] \/ reply' = reply
        /\ UNCHANGED <<quiet, buffered, trafficLog, securityLog, recorded>>
    BY <1>4 DEF UpstreamStreams, UpstreamBuffers
  <2>2. pc' \in [Requests -> {"idle", "analyzing", "forwarding", "streaming", "buffering", "done"}]
    BY <2>1 DEF TypeOK
  <2>3. reply' \in [Requests -> Statuses \cup {0}]
    BY <2>1 DEF TypeOK, Statuses
  <2>4. TypeOK'
    BY <2>1, <2>2, <2>3 DEF quiet, policy, TypeOK
  <2>5. AnalyzedHasPrompt'
    BY <2>1 DEF quiet, AnalyzedHasPrompt, TypeOK
  <2>6. QED BY <2>4, <2>5
<1>5. ASSUME NEW r \in Requests, UpstreamData(r) PROVE TypeInv'
  <2>1. buffered' \in [Requests -> 0 .. ResponseCap]
    BY <1>5, CapAssumption DEF UpstreamData, TypeOK
  <2>2. TypeOK'
    BY <1>5, <2>1 DEF UpstreamData, quiet, policy, TypeOK
  <2>3. AnalyzedHasPrompt'
    BY <1>5 DEF UpstreamData, quiet, AnalyzedHasPrompt
  <2>4. QED BY <2>2, <2>3
<1>6. ASSUME NEW r \in Requests, NEW status \in Statuses, Finish(r, status),
             UNCHANGED <<quiet, buffered>>
      PROVE  TypeInv'
  <2>1. StoresOK' /\ reply' \in [Requests -> Statuses \cup {0}] /\ pc' = [pc EXCEPT ![r] = "done"]
    BY <1>6, FinishType
  <2>2. TypeOK'
    BY <1>6, <2>1 DEF quiet, policy, StoresOK, TypeOK
  <2>3. AnalyzedHasPrompt'
    BY <1>6, <2>1 DEF quiet, AnalyzedHasPrompt, TypeOK
  <2>4. QED BY <2>2, <2>3
<1>7. ASSUME NEW r \in Requests, UpstreamStep(r) PROVE TypeInv'
  BY <1>4, <1>5, <1>6, <1>7
     DEF UpstreamStep, UpstreamFails, UpstreamTooLarge, UpstreamEnd, UpstreamBreaks, Statuses
<1>8. ASSUME NEW r \in Requests, ClientCloses(r) PROVE TypeInv'
  <2>1. TypeOK'
    BY <1>8 DEF ClientCloses, policy, TypeOK
  <2>2. AnalyzedHasPrompt'
    BY <1>8 DEF ClientCloses, AnalyzedHasPrompt
  <2>3. QED BY <2>1, <2>2
<1>9. ASSUME NEW m \in Models, SetModelBlocked(m) PROVE TypeInv'
  <2>1. TypeOK'
    BY <1>9, CapAssumption DEF SetModelBlocked, TypeOK
  <2>2. AnalyzedHasPrompt'
    BY <1>9 DEF SetModelBlocked, AnalyzedHasPrompt
  <2>3. QED BY <2>1, <2>2
<1>10. CASE UNCHANGED vars
  BY <1>10 DEF vars, TypeOK, AnalyzedHasPrompt
<1>11. QED
  BY <1>1, <1>2, <1>3, <1>7, <1>8, <1>9, <1>10 DEF Next

\* The types hold in every reachable state, and no store outgrows its capacity.
THEOREM TypeCorrect == Spec => []TypeOK
<1>1. TypeInv => TypeOK
  BY DEF TypeInv
<1>2. QED BY <1>1, TypeInit, TypeNext, PTL DEF Spec

-----------------------------------------------------------------------------
(* The logs.                                                               *)

\* The row a flagged request pushes, and the rows a step of r can start from.
Row(r) == [req |-> r, prompt |-> req[r].prompt, response |-> NoRequest]

Rows(r, log) ==
  \/ log = securityLog
  \/ log = Pushed(securityLog, SecurityCap, Row(r)) /\ Row(r) \in SecurityEntry

\* As to the logs, a step ends a request, takes it to another wait, or is silent.
Ends(r) ==
  /\ pc[r] # "done"
  /\ pc' = [pc EXCEPT ![r] = "done"]
  /\ \E status \in Statuses :
       /\ reply' = [reply EXCEPT ![r] = status]
       /\ \E log : Rows(r, log) /\ Record(r, status, log)

GoesOn(r) ==
  /\ pc[r] # "done"
  /\ \E wait \in {"analyzing", "forwarding", "streaming", "buffering"} :
       pc' = [pc EXCEPT ![r] = wait]
  /\ reply' = reply \/ reply' = [reply EXCEPT ![r] = 200]
  /\ Rows(r, securityLog')
  /\ UNCHANGED <<trafficLog, recorded>>

Silent == UNCHANGED <<pc, reply, trafficLog, securityLog, recorded>>

\* The rows after a verdict are the old ones, with the one of the request if it
\* is flagged.
LEMMA FlaggedRows ==
  ASSUME TypeOK, NEW r \in Requests, NEW verdict,
         verdict = "inject" => req[r].prompt \in Prompts
  PROVE  Rows(r, Flagged(r, req[r], verdict))
<1>1. CASE verdict = "inject"
  <2>1. Flagged(r, req[r], verdict) = Pushed(securityLog, SecurityCap, Row(r))
    BY <1>1 DEF Flagged, Row
  <2>2. Row(r) \in SecurityEntry
    BY <1>1 DEF Row, SecurityEntry
  <2>3. QED BY <2>1, <2>2 DEF Rows
<1>2. CASE verdict # "inject"
  BY <1>2 DEF Flagged, Rows
<1>3. QED BY <1>1, <1>2

\* The step that follows a verdict ends the request or forwards it.
LEMMA ConcludeShape ==
  ASSUME TypeOK, NEW r \in Requests, pc[r] # "done", NEW verdict,
         verdict = "inject" => req[r].prompt \in Prompts,
         Conclude(r, req[r], verdict)
  PROVE  Ends(r) \/ GoesOn(r)
<1>1. Rows(r, Flagged(r, req[r], verdict))
  BY FlaggedRows
<1>2. CASE Refuse(r, req[r], verdict)
  <2>1. /\ Record(r, 403, Flagged(r, req[r], verdict))
        /\ reply' = [reply EXCEPT ![r] = 403]
        /\ pc' = [pc EXCEPT ![r] = "done"]
    BY <1>2 DEF Refuse
  <2>2. 403 \in Statuses
    BY DEF Statuses
  <2>3. QED BY <1>1, <2>1, <2>2 DEF Ends
<1>3. CASE Forward(r, req[r], verdict)
  BY <1>1, <1>3 DEF Forward, GoesOn
<1>4. QED BY <1>2, <1>3 DEF Conclude

\* Finish ends the request with the rows there are.
LEMMA FinishEnds ==
  ASSUME NEW r \in Requests, NEW status \in Statuses, pc[r] # "done", Finish(r, status)
  PROVE  Ends(r)
<1>1. Rows(r, securityLog)
  BY DEF Rows
<1>2. QED BY <1>1 DEF Finish, Ends

\* Every step has one of the three shapes, and no step changes what a request
\* asks for.
LEMMA Shapes ==
  ASSUME TypeInv, [Next]_vars
  PROVE  req' = req /\ (Silent \/ \E r \in Requests : Ends(r) \/ GoesOn(r))
<1> USE DEF TypeInv
<1>1. ASSUME NEW r \in Requests, Arrive(r)
      PROVE  req' = req /\ (Ends(r) \/ GoesOn(r))
  <2>1. pc[r] # "done" /\ req' = req
    BY <1>1 DEF Arrive
  <2>2. CASE ArriveMalformed(r, req[r])
    BY <2>1, <2>2, FinishEnds DEF ArriveMalformed, Statuses
  <2>3. CASE ArriveClassify(r, req[r])
    BY <2>1, <2>3 DEF ArriveClassify, GoesOn, Rows
  <2>4. CASE ArriveDecided(r, req[r])
    <3>1. Immediate(req[r]) = "inject" => req[r].prompt \in Prompts
      BY ReqType, ImmediateFlagsPrompts
    <3>2. Conclude(r, req[r], Immediate(req[r]))
      BY <2>4 DEF ArriveDecided
    <3>3. QED BY <2>1, <3>1, <3>2, ConcludeShape
  <2>5. QED BY <1>1, <2>1, <2>2, <2>3, <2>4 DEF Arrive
<1>2. ASSUME NEW r \in Requests, NEW verdict \in Verdict, ClassifierAnswers(r, verdict)
      PROVE  req' = req /\ (Ends(r) \/ GoesOn(r))
  <2>1. /\ req' = req /\ pc[r] = "analyzing" /\ Conclude(r, req[r], verdict)
    BY <1>2 DEF ClassifierAnswers
  <2>2. req[r].prompt \in Prompts
    BY <2>1 DEF AnalyzedHasPrompt
  <2>3. QED BY <2>1, <2>2, ConcludeShape
<1>3. ASSUME NEW r \in Requests, ClassifierFails(r)
      PROVE  req' = req /\ (Ends(r) \/ GoesOn(r))
  <2>1. /\ req' = req /\ pc[r] = "analyzing" /\ Conclude(r, req[r], "allow")
    BY <1>3 DEF ClassifierFails
  <2>2. QED BY <2>1, ConcludeShape
<1>4. ASSUME NEW r \in Requests, UpstreamStep(r)
      PROVE  req' = req /\ (Silent \/ Ends(r) \/ GoesOn(r))
  <2>1. CASE UpstreamStreams(r) \/ UpstreamBuffers(r)
    BY <2>1 DEF UpstreamStreams, UpstreamBuffers, quiet, GoesOn, Rows
  <2>2. CASE UpstreamData(r)
    BY <2>2 DEF UpstreamData, quiet, Silent
  <2>3. CASE UpstreamFails(r) \/ UpstreamTooLarge(r) \/ UpstreamEnd(r) \/ UpstreamBreaks(r)
    <3>1. PICK status \in Statuses : Finish(r, status)
      BY <2>3 DEF UpstreamFails, UpstreamTooLarge, UpstreamEnd, UpstreamBreaks, Statuses
    <3>2. pc[r] # "done" /\ req' = req
      BY <2>3 DEF UpstreamFails, UpstreamTooLarge, UpstreamEnd, UpstreamBreaks, quiet
    <3>3. QED BY <3>1, <3>2, FinishEnds
  <2>4. QED BY <1>4, <2>1, <2>2, <2>3 DEF UpstreamStep
<1>5. ASSUME NEW r \in Requests, ClientCloses(r) PROVE req' = req /\ Silent
  BY <1>5 DEF ClientCloses, Silent
<1>6. ASSUME NEW m \in Models, SetModelBlocked(m) PROVE req' = req /\ Silent
  BY <1>6 DEF SetModelBlocked, Silent
<1>7. CASE UNCHANGED vars
  BY <1>7 DEF vars, Silent
<1>8. QED
  BY <1>1, <1>2, <1>3, <1>4, <1>5, <1>6, <1>7 DEF Next

\* The log holds no request that has not ended: with this, a status line that is
\* written later cannot belong to a logged request.
LoggedIsDone == \A i \in 1 .. Len(trafficLog) : pc[trafficLog[i].req] = "done"

LogInv == OneRecordPerRequest /\ LogMatchesReply /\ LoggedIsDone

\* Nothing is logged before the first request.
THEOREM LogInit == Init => LogInv
<1> SUFFICES ASSUME Init PROVE LogInv
  OBVIOUS
<1>1. trafficLog = <<>> /\ Len(trafficLog) = 0
  BY EmptySeq DEF Init
<1>2. OneRecordPerRequest
  BY DEF Init, OneRecordPerRequest
<1>3. LogMatchesReply /\ LoggedIsDone
  BY <1>1 DEF LogMatchesReply, LoggedIsDone
<1>4. QED BY <1>2, <1>3 DEF LogInv

\* A step logs the request it ends, with the status it is answered with, and
\* leaves the entries of all others as they are.
THEOREM LogNext == TypeInv /\ LogInv /\ [Next]_vars => LogInv'
<1> SUFFICES ASSUME TypeInv, LogInv, [Next]_vars PROVE LogInv'
  OBVIOUS
<1> USE DEF LogInv
<1>1. /\ pc \in [Requests -> {"idle", "analyzing", "forwarding", "streaming", "buffering", "done"}]
      /\ reply \in [Requests -> Statuses \cup {0}]
      /\ recorded \in [Requests -> Nat]
      /\ trafficLog \in Seq(TrafficEntry) /\ Len(trafficLog) <= TrafficCap
  BY DEF TypeInv, TypeOK
<1>2. ASSUME NEW i \in 1 .. Len(trafficLog)
      PROVE  /\ trafficLog[i].req \in Requests
             /\ pc[trafficLog[i].req] = "done"
             /\ reply[trafficLog[i].req] = trafficLog[i].status
  <2>1. trafficLog[i] \in TrafficEntry
    BY <1>1, ElementOfSeq
  <2>2. QED BY <2>1 DEF TrafficEntry, LogMatchesReply, LoggedIsDone
<1>3. CASE Silent
  BY <1>3 DEF Silent, OneRecordPerRequest, LogMatchesReply, LoggedIsDone
<1>4. ASSUME NEW r \in Requests, GoesOn(r) PROVE LogInv'
  <2>1. OneRecordPerRequest'
    BY <1>1, <1>4 DEF GoesOn, OneRecordPerRequest
  <2>2. LogMatchesReply' /\ LoggedIsDone'
    BY <1>1, <1>2, <1>4 DEF GoesOn, LogMatchesReply, LoggedIsDone
  <2>3. QED BY <2>1, <2>2
<1>5. ASSUME NEW r \in Requests, Ends(r) PROVE LogInv'
  <2>1. PICK status \in Statuses :
          /\ reply' = [reply EXCEPT ![r] = status]
          /\ trafficLog' = Pushed(trafficLog, TrafficCap, [req |-> r, status |-> status])
    BY <1>5 DEF Ends, Record
  <2>2. pc[r] # "done" /\ pc' = [pc EXCEPT ![r] = "done"] /\ recorded' = [recorded EXCEPT ![r] = @ + 1]
    BY <1>5 DEF Ends, Record
  <2>3. OneRecordPerRequest'
    BY <1>1, <2>2 DEF OneRecordPerRequest
  <2> DEFINE e == [req |-> r, status |-> status]
  <2>4. e \in TrafficEntry
    BY DEF TrafficEntry
  <2>5. ASSUME NEW i \in 1 .. Len(trafficLog')
        PROVE  reply'[trafficLog'[i].req] = trafficLog'[i].status /\ pc'[trafficLog'[i].req] = "done"
    <3>1. trafficLog'[i] = e \/ \E j \in 1 .. Len(trafficLog) : trafficLog'[i] = trafficLog[j]
      <4> HIDE DEF e
      <4>1. trafficLog' = Pushed(trafficLog, TrafficCap, e)
        BY <2>1 DEF e
      <4>2. TrafficCap \in Nat \ {0} /\ Len(trafficLog) <= TrafficCap
        BY <1>1, CapAssumption
      <4>3. \A k \in 1 .. Len(Pushed(trafficLog, TrafficCap, e)) :
              \/ Pushed(trafficLog, TrafficCap, e)[k] = e
              \/ \E j \in 1 .. Len(trafficLog) :
                   Pushed(trafficLog, TrafficCap, e)[k] = trafficLog[j]
        <5>1. trafficLog \in Seq(TrafficEntry)
          BY <1>1
        <5>2. QED BY <2>4, <4>2, <5>1, PushedEntry
      <4>4. QED BY <2>5, <4>1, <4>3
    <3>2. CASE trafficLog'[i] = e
      BY <1>1, <2>1, <2>2, <3>2
    <3>3. CASE \E j \in 1 .. Len(trafficLog) : trafficLog'[i] = trafficLog[j]
      BY <1>1, <1>2, <2>1, <2>2, <3>3
    <3>4. QED BY <3>1, <3>2, <3>3
  <2>6. QED BY <2>3, <2>5 DEF LogMatchesReply, LoggedIsDone
<1>6. QED BY <1>3, <1>4, <1>5, Shapes

\* Every request that ended left exactly one entry, and no other did, however
\* many requests run and however they end.
THEOREM OneRecordPerRequestHolds == Spec => []OneRecordPerRequest
<1>1. LogInv => OneRecordPerRequest
  BY DEF LogInv
<1>2. QED BY <1>1, TypeInit, TypeNext, LogInit, LogNext, PTL DEF Spec

\* What the log says of a request is what its client was answered with.
THEOREM LogMatchesReplyHolds == Spec => []LogMatchesReply
<1>1. LogInv => LogMatchesReply
  BY DEF LogInv
<1>2. QED BY <1>1, TypeInit, TypeNext, LogInit, LogNext, PTL DEF Spec

-----------------------------------------------------------------------------
(* The replies in the security log.                                        *)

\* One row shows the reply to its own prompt once that request has ended: `at`
\* tells where each request is.
RowPaired(at, e) ==
  /\ e.prompt = req[e.req].prompt
  /\ e.response = IF at[e.req] = "done" THEN e.req ELSE NoRequest

\* Rows before the back-fill: the row of a request that ends now still waits.
LEMMA RowsPaired ==
  ASSUME TypeOK, ResponsePaired, NEW r \in Requests, pc[r] # "done", NEW log, Rows(r, log)
  PROVE  /\ log \in Seq(SecurityEntry)
         /\ \A i \in 1 .. Len(log) : log[i] \in SecurityEntry /\ RowPaired(pc, log[i])
<1>1. securityLog \in Seq(SecurityEntry) /\ Len(securityLog) <= SecurityCap
  BY DEF TypeOK
<1>2. \A i \in 1 .. Len(securityLog) : securityLog[i] \in SecurityEntry /\ RowPaired(pc, securityLog[i])
  BY <1>1, ElementOfSeq DEF ResponsePaired, RowPaired
<1>3. CASE log = securityLog
  BY <1>1, <1>2, <1>3
<1>4. CASE log = Pushed(securityLog, SecurityCap, Row(r)) /\ Row(r) \in SecurityEntry
  <2>1. log \in Seq(SecurityEntry)
    BY <1>1, <1>4, PushedIs, CapAssumption
  <2>2. RowPaired(pc, Row(r))
    BY DEF Row, RowPaired
  <2>3. ASSUME NEW i \in 1 .. Len(log) PROVE log[i] \in SecurityEntry /\ RowPaired(pc, log[i])
    <3>1. log[i] = Row(r) \/ \E j \in 1 .. Len(securityLog) : log[i] = securityLog[j]
      BY <1>1, <1>4, <2>3, PushedEntry, CapAssumption
    <3>2. QED BY <1>2, <1>4, <2>2, <3>1
  <2>4. QED BY <2>1, <2>3
<1>5. QED BY <1>3, <1>4 DEF Rows

\* There are no rows at the beginning.
THEOREM PairInit == Init => ResponsePaired
<1> SUFFICES ASSUME Init PROVE ResponsePaired
  OBVIOUS
<1>1. securityLog = <<>> /\ Len(securityLog) = 0
  BY EmptySeq DEF Init
<1>2. QED BY <1>1 DEF ResponsePaired

\* A step keeps every row paired: a request that ends fills its own row, the
\* others keep what they have.
THEOREM PairNext == TypeInv /\ ResponsePaired /\ [Next]_vars => ResponsePaired'
<1> SUFFICES ASSUME TypeInv, ResponsePaired, [Next]_vars PROVE ResponsePaired'
  OBVIOUS
<1>1. TypeOK /\ pc \in [Requests -> {"idle", "analyzing", "forwarding", "streaming", "buffering", "done"}]
  BY DEF TypeInv, TypeOK
<1>2. req' = req
  BY Shapes
<1>3. CASE Silent
  BY <1>2, <1>3 DEF Silent, ResponsePaired
<1>4. ASSUME NEW r \in Requests, GoesOn(r) PROVE ResponsePaired'
  <2>1. pc[r] # "done" /\ Rows(r, securityLog')
    BY <1>4 DEF GoesOn
  <2>2. PICK wait \in {"analyzing", "forwarding", "streaming", "buffering"} :
          pc' = [pc EXCEPT ![r] = wait]
    BY <1>4 DEF GoesOn
  <2>3. \A i \in 1 .. Len(securityLog') :
          securityLog'[i] \in SecurityEntry /\ RowPaired(pc, securityLog'[i])
    BY <1>1, <2>1, RowsPaired
  <2>4. \A e \in SecurityEntry : RowPaired(pc, e) => RowPaired(pc', e)
    BY <1>1, <1>2, <2>1, <2>2 DEF RowPaired, SecurityEntry
  <2>5. QED BY <1>2, <2>3, <2>4 DEF ResponsePaired, RowPaired
<1>5. ASSUME NEW r \in Requests, Ends(r) PROVE ResponsePaired'
  <2>1. pc[r] # "done" /\ pc' = [pc EXCEPT ![r] = "done"]
    BY <1>5 DEF Ends
  <2>2. PICK log : Rows(r, log) /\ securityLog' = BackFilled(log, r)
    BY <1>5 DEF Ends, Record
  <2>3. /\ log \in Seq(SecurityEntry)
        /\ \A i \in 1 .. Len(log) : log[i] \in SecurityEntry /\ RowPaired(pc, log[i])
    BY <1>1, <2>1, <2>2, RowsPaired
  <2>4. /\ Len(securityLog') = Len(log)
        /\ \A i \in 1 .. Len(log) :
             securityLog'[i] =
               IF log[i].req = r THEN [log[i] EXCEPT !.response = r] ELSE log[i]
    BY <2>2, <2>3, BackFilledIs
  <2>5. \A e \in SecurityEntry : RowPaired(pc, e) /\ e.req = r => RowPaired(pc', [e EXCEPT !.response = r])
    BY <1>1, <1>2, <2>1 DEF RowPaired, SecurityEntry
  <2>6. \A e \in SecurityEntry : RowPaired(pc, e) /\ e.req # r => RowPaired(pc', e)
    BY <1>1, <1>2, <2>1 DEF RowPaired, SecurityEntry
  <2>7. \A i \in 1 .. Len(securityLog') : RowPaired(pc', securityLog'[i])
    BY <2>3, <2>4, <2>5, <2>6
  <2>8. QED BY <1>2, <2>7 DEF ResponsePaired, RowPaired
<1>6. QED BY <1>3, <1>4, <1>5, Shapes

\* The security team reads each reply next to the prompt it answers, for every
\* order in which requests end and every size of the ring.
THEOREM ResponsePairedHolds == Spec => []ResponsePaired
BY TypeInit, TypeNext, PairInit, PairNext, PTL DEF Spec

-----------------------------------------------------------------------------
(* The model policy.                                                       *)

\* The step of ForwardedModelAllowed: what is forwarded now is allowed now.
ForwardsAllowed ==
  \A r \in Requests :
    "forward" \in left'[r] \ left[r] =>
      (IF Translating(req[r]) THEN Resolve[req[r].model] ELSE req[r].model) \notin blocked

\* The step that follows a verdict forwards the request itself, if its model is
\* allowed, and no other one.
LEMMA ConcludeAllowed ==
  ASSUME TypeOK, NEW r \in Requests, NEW verdict, Conclude(r, req[r], verdict)
  PROVE  ForwardsAllowed
<1>1. left \in [Requests -> SUBSET {"classify", "forward"}]
  BY DEF TypeOK
<1>2. CASE Refuse(r, req[r], verdict)
  BY <1>2 DEF Refuse, ForwardsAllowed
<1>3. CASE Forward(r, req[r], verdict)
  BY <1>1, <1>3 DEF Forward, ForwardsAllowed, ResolvedModel
<1>4. QED BY <1>2, <1>3 DEF Conclude

\* No step forwards a request whose model is blocked in the state it is taken in.
THEOREM PolicyNext == TypeOK /\ [Next]_vars => ForwardsAllowed
<1> SUFFICES ASSUME TypeOK, [Next]_vars PROVE ForwardsAllowed
  OBVIOUS
<1>1. ASSUME NEW r \in Requests, Arrive(r) PROVE ForwardsAllowed
  <2>1. CASE ArriveMalformed(r, req[r])
    BY <2>1 DEF ArriveMalformed, ForwardsAllowed
  <2>2. CASE ArriveClassify(r, req[r])
    BY <2>2 DEF ArriveClassify, ForwardsAllowed, TypeOK
  <2>3. CASE ArriveDecided(r, req[r])
    BY <2>3, ConcludeAllowed DEF ArriveDecided
  <2>4. QED BY <1>1, <2>1, <2>2, <2>3 DEF Arrive
<1>2. ASSUME NEW r \in Requests, NEW verdict \in Verdict, ClassifierAnswers(r, verdict)
      PROVE  ForwardsAllowed
  BY <1>2, ConcludeAllowed DEF ClassifierAnswers
<1>3. ASSUME NEW r \in Requests, ClassifierFails(r) PROVE ForwardsAllowed
  BY <1>3, ConcludeAllowed DEF ClassifierFails
<1>4. CASE left' = left
  BY <1>4 DEF ForwardsAllowed
<1>5. ASSUME NEW r \in Requests, UpstreamStep(r) \/ ClientCloses(r) PROVE left' = left
  BY <1>5 DEF UpstreamStep, UpstreamStreams, UpstreamBuffers, UpstreamFails, UpstreamData,
              UpstreamTooLarge, UpstreamEnd, UpstreamBreaks, quiet, ClientCloses
<1>6. ASSUME NEW m \in Models, SetModelBlocked(m) PROVE left' = left
  BY <1>6 DEF SetModelBlocked
<1>7. CASE UNCHANGED vars
  BY <1>4, <1>7 DEF vars
<1>8. QED
  BY <1>1, <1>2, <1>3, <1>4, <1>5, <1>6, <1>7 DEF Next

\* A request goes only to a model the policy allows at that moment, under an
\* alias or not, and whatever happened while its prompt was being classified.
THEOREM ForwardedModelAllowedHolds == Spec => ForwardedModelAllowed
<1>1. TypeOK /\ [Next]_vars => [ForwardsAllowed]_vars
  BY PolicyNext
<1>2. Spec => [][ForwardsAllowed]_vars
  BY <1>1, TypeCorrect, PTL DEF Spec
<1>3. QED BY <1>2 DEF ForwardedModelAllowed, ForwardsAllowed

-----------------------------------------------------------------------------
(* The verdict cache.                                                      *)

\* The cache is empty at the beginning.
THEOREM CacheInit == Init => CacheHoldsAnswers
<1> SUFFICES ASSUME Init PROVE CacheHoldsAnswers
  OBVIOUS
<1>1. cache = <<>> /\ Len(cache) = 0
  BY EmptySeq DEF Init
<1>2. QED BY <1>1 DEF CacheHoldsAnswers

\* Caching an answer keeps one entry per prompt, each one an answer.
LEMMA CachePutAnswers ==
  ASSUME TypeOK, CacheHoldsAnswers, NEW p \in Prompts, NEW v \in Verdict,
         cache' = CachePut(p, v), answers' = answers \cup {<<p, v>>}
  PROVE  CacheHoldsAnswers'
<1> DEFINE T == [prompt : Prompts, verdict : Verdict]
           e == [prompt |-> p, verdict |-> v]
<1>1. cache \in Seq(T) /\ Len(cache) <= CacheMax /\ Len(cache) \in Nat /\ e \in T
  BY DEF TypeOK
<1>2. /\ \A i \in 1 .. Len(cache) : <<cache[i].prompt, cache[i].verdict>> \in answers
      /\ \A i, j \in 1 .. Len(cache) : cache[i].prompt = cache[j].prompt => i = j
  BY DEF CacheHoldsAnswers
<1>3. CASE CacheHits(p) = {}
  <2>1. \A i \in 1 .. Len(cache) : cache[i].prompt # p
    BY <1>3 DEF CacheHits
  <2>2. cache' = Pushed(cache, CacheMax, e)
    BY <1>3 DEF CachePut
  <2>3. e.prompt = p /\ e.verdict = v
    OBVIOUS
  <2> HIDE DEF T, e
  <2>4. PICK d \in {0, 1} : ShiftedBy(d, cache', cache, e)
    BY <1>1, <2>2, PushedIs, CapAssumption
  <2>5. Len(cache') = Len(cache) + 1 - d
    BY <2>4 DEF ShiftedBy
  <2>6. ASSUME NEW i \in 1 .. Len(cache')
        PROVE  /\ i + d \in 1 .. Len(cache) => cache'[i] = cache[i + d]
               /\ i + d \notin 1 .. Len(cache) => cache'[i] = e /\ i + d = Len(cache) + 1
    <3>1. cache'[i] = IF i + d <= Len(cache) THEN cache[i + d] ELSE e
      BY <2>4 DEF ShiftedBy
    <3>2. QED BY <1>1, <2>5, <3>1
  <2>7. ASSUME NEW i \in 1 .. Len(cache')
        PROVE  <<cache'[i].prompt, cache'[i].verdict>> \in answers'
    BY <1>2, <2>3, <2>6
  <2>8. ASSUME NEW i \in 1 .. Len(cache'), NEW j \in 1 .. Len(cache'),
               cache'[i].prompt = cache'[j].prompt
        PROVE  i = j
    <3>1. d \in {0, 1} /\ Len(cache) \in Nat /\ i \in Nat /\ j \in Nat
      BY <1>1, <2>5
    <3>2. CASE i + d \in 1 .. Len(cache) /\ j + d \in 1 .. Len(cache)
      <4>1. cache[i + d].prompt = cache[j + d].prompt
        BY <2>6, <2>8, <3>2
      <4>2. i + d = j + d
        BY <1>2, <3>2, <4>1
      <4>3. QED BY <3>1, <4>2
    <3>3. CASE i + d \notin 1 .. Len(cache) /\ j + d \notin 1 .. Len(cache)
      BY <2>6, <3>1, <3>3
    <3>4. CASE i + d \in 1 .. Len(cache) /\ j + d \notin 1 .. Len(cache)
      BY <2>1, <2>3, <2>6, <2>8, <3>4
    <3>5. CASE i + d \notin 1 .. Len(cache) /\ j + d \in 1 .. Len(cache)
      BY <2>1, <2>3, <2>6, <2>8, <3>5
    <3>6. QED BY <3>2, <3>3, <3>4, <3>5
  <2>9. QED BY <2>7, <2>8 DEF CacheHoldsAnswers
<1>4. CASE CacheHits(p) # {}
  <2>1. cache' = [i \in 1 .. Len(cache) |-> IF i \in CacheHits(p) THEN e ELSE cache[i]]
    BY <1>4 DEF CachePut
  <2>2. Len(cache') = Len(cache)
    <3>1. cache' \in [1 .. Len(cache) -> T]
      <4> HIDE DEF T, e
      <4>1. \A i \in 1 .. Len(cache) : cache[i] \in T
        BY <1>1, ElementOfSeq
      <4>2. QED BY <1>1, <2>1, <4>1
    <3>2. QED BY <1>1, <3>1, FunctionIsSeq
  <2>3. \A i \in 1 .. Len(cache) : i \in CacheHits(p) <=> cache[i].prompt = p
    BY DEF CacheHits
  <2>4. \A i \in 1 .. Len(cache') :
          /\ cache'[i].prompt = cache[i].prompt
          /\ <<cache'[i].prompt, cache'[i].verdict>> \in answers'
    BY <1>2, <2>1, <2>2, <2>3
  <2>5. ASSUME NEW i \in 1 .. Len(cache'), NEW j \in 1 .. Len(cache'),
               cache'[i].prompt = cache'[j].prompt
        PROVE  i = j
    BY <1>2, <2>2, <2>4, <2>5
  <2>6. QED BY <2>4, <2>5 DEF CacheHoldsAnswers
<1>5. QED BY <1>3, <1>4

\* Only an answer of the classifier changes the cache.
THEOREM CacheNext == TypeInv /\ CacheHoldsAnswers /\ [Next]_vars => CacheHoldsAnswers'
<1> SUFFICES ASSUME TypeInv, CacheHoldsAnswers, [Next]_vars PROVE CacheHoldsAnswers'
  OBVIOUS
<1>1. ASSUME NEW r \in Requests, NEW verdict \in Verdict, ClassifierAnswers(r, verdict)
      PROVE  CacheHoldsAnswers'
  <2>1. TypeOK /\ req[r].prompt \in Prompts
    BY <1>1 DEF ClassifierAnswers, TypeInv, AnalyzedHasPrompt
  <2>2. QED BY <1>1, <2>1, CachePutAnswers DEF ClassifierAnswers
<1>2. CASE UNCHANGED <<cache, answers>>
  BY <1>2 DEF CacheHoldsAnswers
<1>3. ASSUME NEW r \in Requests,
             Arrive(r) \/ ClassifierFails(r) \/ UpstreamStep(r) \/ ClientCloses(r)
      PROVE  UNCHANGED <<cache, answers>>
  BY <1>3 DEF Arrive, ClassifierFails, UpstreamStep, UpstreamStreams, UpstreamBuffers,
              UpstreamFails, UpstreamData, UpstreamTooLarge, UpstreamEnd, UpstreamBreaks, quiet,
              ClientCloses
<1>4. ASSUME NEW m \in Models, SetModelBlocked(m) PROVE UNCHANGED <<cache, answers>>
  BY <1>4 DEF SetModelBlocked
<1>5. CASE UNCHANGED vars
  BY <1>2, <1>5 DEF vars
<1>6. QED
  BY <1>1, <1>2, <1>3, <1>4, <1>5 DEF Next

\* An outage of the classifier is never cached as a verdict, and no prompt has
\* two entries, for every capacity and however many requests miss at once.
THEOREM CacheHoldsAnswersHolds == Spec => []CacheHoldsAnswers
BY TypeInit, TypeNext, CacheInit, CacheNext, PTL DEF Spec
=============================================================================
