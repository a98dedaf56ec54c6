---------------------------- MODULE ProxyPipeline ----------------------------
(***************************************************************************)
(* The life of proxied requests (proxyRequest in src/proxy.ts) with the    *)
(* prompt analyzer and its verdict cache, the model policy, the traffic    *)
(* log and the security log.                                               *)
(*                                                                         *)
(* Requests run concurrently on one event loop.  Code between two waits is *)
(* one step: a request waits for the classifier (if its prompt needs one), *)
(* for the upstream response and for the upstream body.  What happens in   *)
(* between (other requests, the client closing, the console blocking a     *)
(* model) interleaves at these points only.                                *)
(*                                                                         *)
(* Abstraction.  A prompt is a model value; what the classifier says of it *)
(* is nondeterministic.  Bodies, headers and the redaction of bodies are   *)
(* left out (StreamRedactor models redaction).  The reserved "block"       *)
(* verdict is left out: no category of src/guidance.ts has that action.    *)
(***************************************************************************)
EXTENDS Integers, Sequences, FiniteSets

CONSTANTS
  Requests,         \* bound: the requests that arrive
  NoRequest,        \* a response slot not yet filled
  Arrivals,         \* what a request may ask for
  Models,           \* model ids
  TranslateModels,  \* ids shouldTranslate selects: "claude-*" and the aliases
  Resolve,          \* resolveModel: id asked for -> id of the upstream model
  Prompts,          \* user texts
  NoPrompt,         \* a body without a user text
  Trivial,          \* prompts tier 1 skips
  Known,            \* prompts with a known injection signature
  CacheMax,         \* CACHE_MAX of the verdict cache
  TrafficCap,       \* CAP of the traffic log
  SecurityCap,      \* CAP of the security log
  ResponseCap,      \* responseCapBytes, in chunks
  MaxToggles        \* bound: changes of the model policy

Arrival == [route  : {"anthropic", "openai"},
            model  : Models,
            prompt : Prompts \cup {NoPrompt},
            valid  : BOOLEAN]            \* the body has the route's JSON shape

ASSUME RequestAssumption == NoRequest \notin Requests
ASSUME ArrivalAssumption == Arrivals \subseteq Arrival
ASSUME ModelAssumption   == /\ TranslateModels \subseteq Models
                            /\ Resolve \in [Models -> Models]
ASSUME PromptAssumption  == /\ Trivial \subseteq Prompts
                            /\ Known \subseteq Prompts
                            /\ NoPrompt \notin Prompts
ASSUME CapAssumption     == /\ CacheMax \in Nat \ {0}   /\ TrafficCap \in Nat \ {0}
                            /\ SecurityCap \in Nat \ {0} /\ ResponseCap \in Nat
                            /\ MaxToggles \in Nat

VARIABLES
  req,         \* what each request asks for (fixed when it is sent)
  pc,          \* where proxyRequest waits for each request
  client,      \* "waiting", or "gone" once it closed before the response ended
  aborted,     \* call.req.destroy() was called
  buffered,    \* chunks of a buffered response
  reply,       \* the status line written to the client, 0 before
  blocked,     \* models blocked by policy (real ids)
  cache,       \* verdictCache, oldest first
  trafficLog,  \* ring of finished requests, oldest first
  securityLog, \* ring of flagged prompts, oldest first
  toggles,     \* policy changes so far
  left,        \* history: why bytes of a request left the machine
  answers,     \* history: the answers the classifier gave in time
  recorded     \* history: log entries pushed per request

vars == <<req, pc, client, aborted, buffered, reply, blocked, cache, trafficLog,
          securityLog, toggles, left, answers, recorded>>

policy == <<blocked, toggles>>

Verdict  == {"allow", "inject"}
Statuses == {200, 400, 403, 502}

-----------------------------------------------------------------------------
(* Routing.                                                                *)

Translating(q) == q.route = "openai" /\ q.model \in TranslateModels

\* Mutant: the policy tests the id the client sent.
ClientModel(q) == q.model

\* `model` after the translate preamble: the alias is resolved.
ResolvedModel(q) == IF Translating(q) THEN Resolve[q.model] ELSE q.model

UpstreamOf(q) == IF Translating(q) THEN "anthropic" ELSE q.route

-----------------------------------------------------------------------------
(* Bounded stores.                                                         *)

\* Mutant: the store never drops its oldest entry.
PushedUncapped(log, cap, entry) == Append(log, entry)

\* push, then shift beyond the cap
Pushed(log, cap, entry) ==
  LET longer == Append(log, entry)
  IN IF Len(longer) > cap THEN Tail(longer) ELSE longer

CacheHits(p) == {i \in 1 .. Len(cache) : cache[i].prompt = p}

\* cachePut: a key keeps its place in the order when it is set again
CachePut(p, v) ==
  IF CacheHits(p) = {}
  THEN Pushed(cache, CacheMax, [prompt |-> p, verdict |-> v])
  ELSE [i \in 1 .. Len(cache) |->
          IF i \in CacheHits(p) THEN [prompt |-> p, verdict |-> v] ELSE cache[i]]

\* Mutant: the reply goes to the newest row of the security log.
BackFilledNewest(log, r) ==
  [i \in 1 .. Len(log) |->
     IF i = Len(log) THEN [log[i] EXCEPT !.response = r] ELSE log[i]]

\* recordEntry: the reply of r goes to the row r pushed, if it pushed one; the
\* row is held by reference, and one the ring has dropped is out of sight.
BackFilled(log, r) ==
  [i \in 1 .. Len(log) |->
     IF log[i].req = r THEN [log[i] EXCEPT !.response = r] ELSE log[i]]

\* recordEntry, for a security log that has the rows of `log`.
Record(r, status, log) ==
  /\ trafficLog' = Pushed(trafficLog, TrafficCap, [req |-> r, status |-> status])
  /\ securityLog' = BackFilled(log, r)
  /\ recorded' = [recorded EXCEPT ![r] = @ + 1]

\* The handler is through with r: log it and answer with the same status.
Finish(r, status) ==
  /\ Record(r, status, securityLog)
  /\ reply' = [reply EXCEPT ![r] = status]
  /\ pc' = [pc EXCEPT ![r] = "done"]

-----------------------------------------------------------------------------
(* From the verdict to the upstream call.                                  *)

\* Rows of the security log once the verdict on r is known.
Flagged(r, q, verdict) ==
  IF verdict = "inject"
  THEN Pushed(securityLog, SecurityCap,
              [req |-> r, prompt |-> q.prompt, response |-> NoRequest])
  ELSE securityLog

\* The policy check of the model that would serve the request.
Refuse(r, q, verdict) ==
  /\ ResolvedModel(q) \in blocked
  /\ Record(r, 403, Flagged(r, q, verdict))
  /\ reply' = [reply EXCEPT ![r] = 403]
  /\ pc' = [pc EXCEPT ![r] = "done"]
  /\ UNCHANGED left

Forward(r, q, verdict) ==
  /\ ResolvedModel(q) \notin blocked
  /\ securityLog' = Flagged(r, q, verdict)
  /\ pc' = [pc EXCEPT ![r] = "forwarding"]
  /\ left' = [left EXCEPT ![r] = @ \cup {"forward"}]
  /\ UNCHANGED <<reply, trafficLog, recorded>>

Conclude(r, q, verdict) == Refuse(r, q, verdict) \/ Forward(r, q, verdict)

\* analyze: what is known without a call to the classifier.
Immediate(q) ==
  IF q.prompt \in Known \ Trivial THEN "inject"
  ELSE IF UpstreamOf(q) = "anthropic" /\ CacheHits(q.prompt) # {} /\ q.prompt \notin Trivial
  THEN cache[CHOOSE i \in CacheHits(q.prompt) : TRUE].verdict
  ELSE "allow"

\* analyze: tier 2 has a classifier for anthropic upstreams only.
NeedsClassifier(q) ==
  /\ q.prompt \in Prompts \ (Trivial \cup Known)
  /\ UpstreamOf(q) = "anthropic"
  /\ CacheHits(q.prompt) = {}

Malformed(q) == Translating(q) /\ ~ q.valid

\* A request reaches proxyRequest.
ArriveMalformed(r, q) ==
  /\ Malformed(q)
  /\ Finish(r, 400)
  /\ UNCHANGED left

ArriveClassify(r, q) ==
  /\ ~ Malformed(q)
  /\ NeedsClassifier(q)
  /\ pc' = [pc EXCEPT ![r] = "analyzing"]
  /\ left' = [left EXCEPT ![r] = @ \cup {"classify"}]
  /\ UNCHANGED <<reply, trafficLog, securityLog, recorded>>

ArriveDecided(r, q) ==
  /\ ~ Malformed(q)
  /\ ~ NeedsClassifier(q)
  /\ Conclude(r, q, Immediate(q))

Arrive(r) ==
  /\ pc[r] = "idle"
  /\ \/ ArriveMalformed(r, req[r])
     \/ ArriveClassify(r, req[r])
     \/ ArriveDecided(r, req[r])
  /\ UNCHANGED <<req, client, aborted, buffered, policy, cache, answers>>

\* The classifier answers in time; a real answer is cached.
ClassifierAnswers(r, verdict) ==
  /\ pc[r] = "analyzing"
  /\ cache' = CachePut(req[r].prompt, verdict)
  /\ answers' = answers \cup {<<req[r].prompt, verdict>>}
  /\ Conclude(r, req[r], verdict)
  /\ UNCHANGED <<req, client, aborted, buffered, policy>>

\* Mutant: the verdict of a failed call is cached like an answer.
ClassifierFailsCached(r) ==
  /\ pc[r] = "analyzing"
  /\ cache' = CachePut(req[r].prompt, "allow")
  /\ Conclude(r, req[r], "allow")
  /\ UNCHANGED <<req, client, aborted, buffered, policy, answers>>

\* The classifier errs, answers nothing usable or exceeds the timeout: fail open.
\* A later answer of the same call is dropped.
ClassifierFails(r) ==
  /\ pc[r] = "analyzing"
  /\ Conclude(r, req[r], "allow")
  /\ UNCHANGED <<req, client, aborted, buffered, policy, cache, answers>>

-----------------------------------------------------------------------------
(* The upstream call.                                                      *)

quiet == <<req, client, aborted, policy, cache, left, answers>>

\* Response headers arrive: an event stream is answered at once.
UpstreamStreams(r) ==
  /\ pc[r] = "forwarding"
  /\ ~ aborted[r]
  /\ pc' = [pc EXCEPT ![r] = "streaming"]
  /\ reply' = [reply EXCEPT ![r] = 200]
  /\ UNCHANGED <<quiet, buffered, trafficLog, securityLog, recorded>>

\* ... any other response is collected first.
UpstreamBuffers(r) ==
  /\ pc[r] = "forwarding"
  /\ ~ aborted[r]
  /\ pc' = [pc EXCEPT ![r] = "buffering"]
  /\ UNCHANGED <<quiet, buffered, reply, trafficLog, securityLog, recorded>>

\* Mutant: the error of the upstream call is not caught.
UpstreamFailsUncaught(r) ==
  /\ pc[r] = "forwarding"
  /\ UNCHANGED vars

\* No response: connection error, timeout, or the call was aborted.
UpstreamFails(r) ==
  /\ pc[r] = "forwarding"
  /\ Finish(r, 502)
  /\ UNCHANGED <<quiet, buffered>>

UpstreamData(r) ==
  /\ pc[r] = "buffering"
  /\ ~ aborted[r]
  /\ buffered[r] + 1 <= ResponseCap
  /\ buffered' = [buffered EXCEPT ![r] = @ + 1]
  /\ UNCHANGED <<quiet, pc, reply, trafficLog, securityLog, recorded>>

\* Mutant: overCap is not remembered, later chunks are handled again.
UpstreamTooLargeForgotten(r) ==
  /\ pc[r] = "buffering"
  /\ ~ aborted[r]
  /\ buffered[r] + 1 > ResponseCap
  /\ recorded[r] < 2
  /\ Record(r, 502, securityLog)
  /\ reply' = [reply EXCEPT ![r] = 502]
  /\ UNCHANGED <<quiet, buffered, pc>>

\* The cap is passed: drop the upstream and answer 502; nothing follows.
UpstreamTooLarge(r) ==
  /\ pc[r] = "buffering"
  /\ ~ aborted[r]
  /\ buffered[r] + 1 > ResponseCap
  /\ Finish(r, 502)
  /\ UNCHANGED <<quiet, buffered>>

UpstreamEnd(r) ==
  /\ pc[r] \in {"streaming", "buffering"}
  /\ ~ aborted[r]
  /\ Finish(r, 200)
  /\ UNCHANGED <<quiet, buffered>>

\* Mutant: a broken body is logged as 502 however far the answer got.
UpstreamBreaksAs502(r) ==
  /\ pc[r] \in {"streaming", "buffering"}
  /\ Record(r, 502, securityLog)
  /\ reply' = [reply EXCEPT ![r] = IF pc[r] = "buffering" THEN 502 ELSE @]
  /\ pc' = [pc EXCEPT ![r] = "done"]
  /\ UNCHANGED <<quiet, buffered>>

\* The body breaks (connection error, timeout, abort): a stream just ends under
\* the status it began with, a collected response becomes a 502.
UpstreamBreaks(r) ==
  /\ pc[r] \in {"streaming", "buffering"}
  /\ Finish(r, IF pc[r] = "streaming" THEN 200 ELSE 502)
  /\ UNCHANGED <<quiet, buffered>>

-----------------------------------------------------------------------------
(* The environment of the handlers.                                        *)

\* The client closes before its response ended.  The listener that aborts the
\* upstream call exists from the call on.
ClientCloses(r) ==
  /\ pc[r] \in {"analyzing", "forwarding", "streaming", "buffering"}
  /\ client[r] = "waiting"
  /\ client' = [client EXCEPT ![r] = "gone"]
  /\ aborted' = [aborted EXCEPT ![r] = pc[r] # "analyzing"]
  /\ UNCHANGED <<req, pc, buffered, reply, policy, cache, trafficLog, securityLog,
                 left, answers, recorded>>

\* setModelBlocked from the console.
SetModelBlocked(m) ==
  /\ toggles < MaxToggles
  /\ toggles' = toggles + 1
  /\ blocked' = IF m \in blocked THEN blocked \ {m} ELSE blocked \cup {m}
  /\ UNCHANGED <<req, pc, client, aborted, buffered, reply, cache, trafficLog,
                 securityLog, left, answers, recorded>>

-----------------------------------------------------------------------------

Init ==
  /\ req \in [Requests -> Arrivals]
  /\ pc = [r \in Requests |-> "idle"]
  /\ client = [r \in Requests |-> "waiting"]
  /\ aborted = [r \in Requests |-> FALSE]
  /\ buffered = [r \in Requests |-> 0]
  /\ reply = [r \in Requests |-> 0]
  /\ blocked = {}
  /\ cache = <<>>
  /\ trafficLog = <<>>
  /\ securityLog = <<>>
  /\ toggles = 0
  /\ left = [r \in Requests |-> {}]
  /\ answers = {}
  /\ recorded = [r \in Requests |-> 0]

UpstreamStep(r) ==
  \/ UpstreamStreams(r)
  \/ UpstreamBuffers(r)
  \/ UpstreamFails(r)
  \/ UpstreamData(r)
  \/ UpstreamTooLarge(r)
  \/ UpstreamEnd(r)
  \/ UpstreamBreaks(r)

Next ==
  \/ \E r \in Requests :
       \/ Arrive(r)
       \/ \E verdict \in Verdict : ClassifierAnswers(r, verdict)
       \/ ClassifierFails(r)
       \/ UpstreamStep(r)
       \/ ClientCloses(r)
  \/ \E m \in Models : SetModelBlocked(m)

\* The analyzer's timer fires; the upstream answers, breaks or falls silent for
\* upstreamTimeoutMs, and its responses do not go on for ever.
Fairness ==
  \A r \in Requests :
    /\ WF_vars(ClassifierFails(r))
    /\ WF_vars(UpstreamStep(r))

Spec == Init /\ [][Next]_vars /\ Fairness

-----------------------------------------------------------------------------
(* Properties.                                                             *)

TrafficEntry  == [req : Requests, status : Statuses]
SecurityEntry == [req : Requests, prompt : Prompts, response : Requests \cup {NoRequest}]

\* Every variable keeps its type and every store its bound.
TypeOK ==
  /\ req \in [Requests -> Arrivals]
  /\ pc \in [Requests -> {"idle", "analyzing", "forwarding", "streaming", "buffering", "done"}]
  /\ client \in [Requests -> {"waiting", "gone"}]
  /\ aborted \in [Requests -> BOOLEAN]
  /\ buffered \in [Requests -> 0 .. ResponseCap]
  /\ reply \in [Requests -> Statuses \cup {0}]
  /\ blocked \subseteq Models
  /\ cache \in Seq([prompt : Prompts, verdict : Verdict]) /\ Len(cache) <= CacheMax
  /\ trafficLog \in Seq(TrafficEntry) /\ Len(trafficLog) <= TrafficCap
  /\ securityLog \in Seq(SecurityEntry) /\ Len(securityLog) <= SecurityCap
  /\ toggles \in 0 .. MaxToggles
  /\ left \in [Requests -> SUBSET {"classify", "forward"}]
  /\ answers \subseteq Prompts \X Verdict
  /\ recorded \in [Requests -> Nat]

\* Whatever way a request ends (refused, failed, cut off, abandoned), it leaves
\* exactly one entry in the traffic log, and none before it ends.
OneRecordPerRequest ==
  \A r \in Requests : recorded[r] = IF pc[r] = "done" THEN 1 ELSE 0

\* The log tells the status the client was answered with.
LogMatchesReply ==
  \A i \in 1 .. Len(trafficLog) : reply[trafficLog[i].req] = trafficLog[i].status

\* A row of the security log shows the reply to its own prompt, from the moment
\* that request ended, however requests overtake each other.
ResponsePaired ==
  \A i \in 1 .. Len(securityLog) :
    LET e == securityLog[i]
    IN /\ e.prompt = req[e.req].prompt
       /\ e.response = IF pc[e.req] = "done" THEN e.req ELSE NoRequest

\* The cache repeats only what the classifier said: an outage is never cached,
\* and no prompt is cached twice.
CacheHoldsAnswers ==
  /\ \A i \in 1 .. Len(cache) : <<cache[i].prompt, cache[i].verdict>> \in answers
  /\ \A i, j \in 1 .. Len(cache) : cache[i].prompt = cache[j].prompt => i = j

\* No request goes to a model that is blocked when it goes out: neither under an
\* alias, nor when the model was blocked while the prompt was being classified.
ForwardedModelAllowed ==
  [][\A r \in Requests :
       "forward" \in left'[r] \ left[r] =>
         (IF Translating(req[r]) THEN Resolve[req[r].model] ELSE req[r].model)
           \notin blocked]_vars

\* Every request that reached the handler is answered and logged in the end.
EveryRequestRecorded ==
  \A r \in Requests : pc[r] # "idle" ~> recorded[r] > 0

\* Nothing of a request leaves the machine while its model is blocked.
BlockedStaysOnMachine ==
  [][\A r \in Requests : left'[r] # left[r] => ResolvedModel(req[r]) \notin blocked]_vars

\* No upstream work is done for a client that is gone.
AbandonedIsAborted ==
  \A r \in Requests :
    pc[r] \in {"forwarding", "streaming", "buffering"} /\ client[r] = "gone" => aborted[r]
=============================================================================
