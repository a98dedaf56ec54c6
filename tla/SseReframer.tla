----------------------------- MODULE SseReframer -----------------------------
(***************************************************************************)
(* A streamed answer on the Cursor path: the redactor's Anthropic events   *)
(* become OpenAI chunks (AnthropicToOpenAISSE in                           *)
(* src/openai-anthropic-shim.ts, driven by src/proxy.ts).                  *)
(*                                                                         *)
(* Abstraction.  Of the redactor (module StreamRedactor) only its delay is *)
(* kept: the texts sent so far are 1..sent, those it let go are            *)
(* 1..released, and the rest comes when a block, the message or the stream *)
(* ends.  It writes complete events only.  Events without an output        *)
(* (thinking, ping, starts of blocks, errors the provider reports inside   *)
(* the stream) are left out, and so are text chunks that hold no text: an  *)
(* event from which the redactor withheld everything is told as its role   *)
(* chunk at most.                                                          *)
(*                                                                         *)
(* The code accepts the events in any order, and so does the model.  The   *)
(* order Anthropic documents (one message_start, in front of all text,     *)
(* and no text behind message_stop) is a history variable, `orderly`.      *)
(***************************************************************************)
EXTENDS Naturals, Sequences, SequencesExt

CONSTANTS
  Reasons,     \* stop reasons of the provider
  StopMap,     \* STOP_MAP with its default: StopMap[r] is what the client is told
  MaxStarts,   \* bound: message_start events
  MaxSent      \* bound: text deltas

ASSUME ReframerAssumption ==
  MaxStarts \in Nat /\ MaxSent \in Nat /\ DOMAIN StopMap = Reasons

VARIABLES
  upstream,  \* "open", "ended" or "failed"
  sent,      \* texts received from the provider
  released,  \* texts the redactor has let go
  started,   \* this.started
  finish,    \* this.finish
  done,      \* this.done
  out,       \* the chunks written to the client
  starts,    \* history: message_start events so far
  reason,    \* history: the last stop reason in front of the end, if any
  orderly    \* history: the events came in the documented order

reframerVars == <<upstream, sent, released, started, finish, done, out, starts,
                  reason, orderly>>

Role         == [what |-> "role"]
TextOf(i, j) == [what |-> "text", from |-> i, to |-> j]
Finish(why)  == [what |-> "finish", why |-> why]
Done         == [what |-> "[DONE]"]

ReframerInit ==
  /\ upstream = "open"
  /\ sent = 0 /\ released = 0
  /\ started = FALSE
  /\ finish = "stop"
  /\ done = FALSE
  /\ out = <<>>
  /\ starts = 0
  /\ reason = {}
  /\ orderly = TRUE

-----------------------------------------------------------------------------
(* What each event adds.                                                   *)

\* Mutant: the role goes out with every text.
RoleAlways == <<Role>>

\* The role, if it has not been told.
RoleOnce == IF started THEN <<>> ELSE <<Role>>

\* The texts up to n that were not yet let go.
TextUpTo(n) == IF n = released THEN <<>> ELSE <<TextOf(released + 1, n)>>

\* The synthetic content_block_delta with the withheld rest, if there is any.
Rest == IF sent = released THEN <<>> ELSE RoleOnce \o TextUpTo(sent)
StartedByRest == started \/ sent # released

\* Mutant: the end of the stream does not look whether the message has ended.
FinalizedAgain(isStarted) ==
  (IF isStarted THEN <<>> ELSE <<Role>>) \o <<Finish(finish), Done>>

\* finalize: at most once.
Finalized(isStarted) ==
  IF done THEN <<>> ELSE (IF isStarted THEN <<>> ELSE <<Role>>) \o <<Finish(finish), Done>>

\* message_start: the role, whether or not it was told before.
MessageStart ==
  /\ upstream = "open"
  /\ starts < MaxStarts
  /\ started' = TRUE
  /\ out' = Append(out, Role)
  /\ starts' = starts + 1
  /\ orderly' = (orderly /\ starts = 0 /\ sent = 0 /\ ~ done)
  /\ UNCHANGED <<upstream, sent, released, finish, done, reason>>

\* content_block_delta with a text; the redactor lets some of what it holds go.
Delta ==
  /\ upstream = "open"
  /\ sent < MaxSent
  /\ sent' = sent + 1
  /\ released' \in released .. sent'
  /\ out' = out \o RoleOnce \o TextUpTo(released')
  /\ started' = TRUE
  /\ orderly' = (orderly /\ ~ done)
  /\ UNCHANGED <<upstream, finish, done, starts, reason>>

\* content_block_stop: the redactor lets the rest go.
BlockStop ==
  /\ upstream = "open"
  /\ released' = sent
  /\ out' = out \o Rest
  /\ started' = StartedByRest
  /\ UNCHANGED <<upstream, sent, finish, done, starts, reason, orderly>>

\* message_delta; behind the end of the message it changes nothing the client is told.
MessageDelta(r) ==
  /\ upstream = "open"
  /\ finish' = StopMap[r]
  /\ reason' = IF done THEN reason ELSE {r}
  /\ UNCHANGED <<upstream, sent, released, started, done, out, starts, orderly>>

\* The redactor lets the rest go, and the end is told.
Ending ==
  /\ released' = sent
  /\ out' = out \o Rest \o Finalized(StartedByRest)
  /\ started' = StartedByRest
  /\ done' = TRUE
  /\ UNCHANGED <<sent, finish, starts, reason, orderly>>

\* message_stop; the stream goes on.
MessageStop ==
  /\ upstream = "open"
  /\ Ending
  /\ UNCHANGED upstream

\* The upstream ends, after message_stop or without it: both flush, the redactor first.
StreamEnds ==
  /\ upstream = "open"
  /\ Ending
  /\ upstream' = "ended"

\* The upstream breaks: nothing is flushed.
StreamBreaks ==
  /\ upstream = "open"
  /\ upstream' = "failed"
  /\ UNCHANGED <<sent, released, started, finish, done, out, starts, reason, orderly>>

ReframerNext ==
  \/ MessageStart
  \/ Delta
  \/ BlockStop
  \/ \E r \in Reasons : MessageDelta(r)
  \/ MessageStop
  \/ StreamEnds
  \/ StreamBreaks

ReframerSpec == ReframerInit /\ [][ReframerNext]_reframerVars

-----------------------------------------------------------------------------
(* Properties.                                                             *)

\* The variables hold what the code can put into them.
ReframerTypeOK ==
  /\ upstream \in {"open", "ended", "failed"}
  /\ sent \in 0 .. MaxSent /\ released \in 0 .. sent
  /\ started \in BOOLEAN /\ done \in BOOLEAN
  /\ finish \in Range(StopMap) \cup {"stop"}
  /\ starts \in 0 .. MaxStarts
  /\ reason \subseteq Reasons
  /\ orderly \in BOOLEAN

\* Where the chunks s hold one of this kind.
Places(s, kind) == {i \in 1 .. Len(s) : s[i].what = kind}

\* The chunks s tell the texts 1..n, in order and each once.
TellsTexts(s, n) ==
  /\ \A i \in Places(s, "text") : 1 <= s[i].from /\ s[i].from <= s[i].to /\ s[i].to <= n
  /\ \A i, j \in Places(s, "text") : i < j => s[i].to < s[j].from
  /\ \A p \in 1 .. n : \E i \in Places(s, "text") : s[i].from <= p /\ p <= s[i].to

\* They tell the end, if it is told: once, with the reason and [DONE] right behind it.
TellsEnd(s, ended, why) ==
  IF ended THEN \E e \in 1 .. Len(s) : /\ Places(s, "finish") = {e} /\ s[e] = Finish(why)
                                        /\ Places(s, "[DONE]") = {e + 1}
           ELSE Places(s, "finish") = {} /\ Places(s, "[DONE]") = {}

\* The client's word for the last stop reason of the provider.
LastReason == IF reason = {} THEN "stop" ELSE StopMap[CHOOSE r \in reason : TRUE]

\* Whatever order the events come in and however the stream ends - with message_stop,
\* without it, without any message, with text still withheld - the client reads a role
\* first, all the text in order and once, and one finish chunk with the provider's last
\* reason in front of one [DONE]; and a stream that ended was told to be finished.
ReframedOnce ==
  /\ out # <<>> => out[1] = Role
  /\ TellsTexts(out, released)
  /\ TellsEnd(out, done, LastReason)
  /\ upstream = "ended" => done /\ released = sent

\* If the provider keeps the documented order, what the client reads is one message: one
\* role, and once the end is told all the text stands in front of it and nothing behind.
OneMessage ==
  orderly =>
    /\ Places(out, "role") \subseteq {1}
    /\ done => Places(out, "[DONE]") = {Len(out)} /\ released = sent
=============================================================================
