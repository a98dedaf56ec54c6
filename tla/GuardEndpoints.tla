---------------------------- MODULE GuardEndpoints ----------------------------
(***************************************************************************)
(* The hooks that ask the gateway before an editor goes on (scripts/       *)
(* *-guard-hook.mjs, cursor-tool-redact-hook.mjs, cursor-redact-hook.mjs   *)
(* for file reads, cursor-gateway-hook.mjs) and the endpoints that answer  *)
(* them (src/server.ts).  A hook is a process of one call: it reads its    *)
(* input, asks, and tells the editor what to do.  What it does when it     *)
(* cannot know differs: a command, a read or a tool call must not go on, a *)
(* prompt must.                                                            *)
(*                                                                         *)
(* Abstraction.  A content is what the pattern tables say of it.  A hook   *)
(* cuts a long input before it asks; what is behind the cut is left out.   *)
(***************************************************************************)
CONSTANTS
  Calls,    \* hook processes
  GuardOn   \* config.commandGuardEnabled

ASSUME GuardAssumption == GuardOn \in BOOLEAN

VARIABLES
  call,     \* per hook process: its input and how far it is
  recognise \* the rules that recognise a bad content are enabled

guardVars == <<call, recognise>>

Commands == {"cursorCommand", "claudeCommand"}  \* beforeShellExecution; PreToolUse(Bash)
Scrubbed == {"pre", "post"}                     \* preToolUse, postToolUse
Kinds    == Commands \cup Scrubbed \cup {"prompt", "read", "gate"}

\* doubtful: a command to confirm.  nothing: an empty input, or one of another tool or server.
Contents == {"unreadable", "nothing", "clean", "doubtful", "bad"}
ContentsOf(kind) ==
  CASE kind \in Commands -> Contents
    [] kind = "gate"     -> {"nothing", "clean"}
    [] OTHER             -> Contents \ {"doubtful"}

Decisions == {"none", "allow", "ask", "deny", "rewritten", "withheld", "silent"}
Answers   == {"none", "allow", "ask", "deny", "found", "refused"}

\* History: judged, the gateway judged the input; off, with the rules disabled; cut, the
\* connection broke inside the answer.
Call == [at : {"idle", "asking", "answered", "over"}, kind : Kinds, content : Contents,
         answer : Answers, decision : Decisions, judged : BOOLEAN, off : BOOLEAN,
         cut : BOOLEAN]
NoCall == [at |-> "idle", kind |-> "prompt", content |-> "nothing", answer |-> "none",
           decision |-> "none", judged |-> FALSE, off |-> FALSE, cut |-> FALSE]

GuardInit ==
  /\ call = [c \in Calls |-> NoCall]
  /\ recognise = TRUE

-----------------------------------------------------------------------------
(* The endpoints.                                                          *)

\* /command-guard, /prompt-guard (no category blocks), /detect and /redact, /healthz.
Judgement(kind, content) ==
  CASE kind \in Commands ->
         (CASE ~ GuardOn \/ content = "clean" -> "allow"
            [] content = "doubtful"           -> "ask"
            [] OTHER                          -> "deny")
    [] kind \in Scrubbed \cup {"read"} ->
         IF recognise /\ content = "bad" THEN "found" ELSE "allow"
    [] OTHER -> "allow"

Serve(c) ==
  /\ call[c].at = "asking"
  /\ call' = [call EXCEPT ![c] = [@ EXCEPT
       !.at = "answered", !.judged = TRUE,
       !.answer = Judgement(call[c].kind, call[c].content),
       !.off = IF call[c].kind \in Commands THEN ~ GuardOn ELSE ~ recognise]]
  /\ UNCHANGED recognise

\* An exception while a command is judged denies it, while a prompt is judged lets it pass.
ServeThrows(c) ==
  /\ call[c].at = "asking"
  /\ call[c].kind \in Commands \cup {"prompt"}
  /\ call' = [call EXCEPT ![c] = [@ EXCEPT
       !.at = "answered", !.answer = IF call[c].kind = "prompt" THEN "allow" ELSE "deny"]]
  /\ UNCHANGED recognise

\* 403, 413, 400, 404, 500, or no JSON: what handleRequest answers outside the endpoint.
Refused(c) ==
  /\ call[c].at = "asking"
  /\ call' = [call EXCEPT ![c] = [@ EXCEPT !.at = "answered", !.answer = "refused"]]
  /\ UNCHANGED recognise

-----------------------------------------------------------------------------
(* The hooks.                                                              *)

\* Mutant: whatever cannot be judged passes, as for prompts.
AtFailureOpen(kind) == "allow"

\* What a hook decides if it gets no answer that it can use.
AtFailure(kind) ==
  CASE kind = "prompt" -> "allow"
    [] kind = "post"   -> "withheld"
    [] OTHER           -> "deny"

\* What a hook makes of an answer.
Relayed(kind, answer) ==
  CASE answer = "refused" -> AtFailure(kind)
    [] answer = "found"   -> IF kind = "read" THEN "deny" ELSE "rewritten"
    [] OTHER              -> answer

Decides(c, decision) == call' = [call EXCEPT ![c] = [@ EXCEPT !.at = "over", !.decision = decision]]

\* The editor calls a hook. Some inputs need no question.
Invoke(c, kind, content) ==
  /\ call[c].at \in {"idle", "over"}
  /\ content \in ContentsOf(kind)
  /\ LET new == [NoCall EXCEPT !.kind = kind, !.content = content] IN
     call' = [call EXCEPT ![c] =
       CASE content = "nothing"    -> [new EXCEPT !.at = "over", !.decision = "allow"]
         [] content = "unreadable" -> [new EXCEPT !.at = "over", !.decision =
                                         IF kind \in Scrubbed THEN "withheld" ELSE AtFailure(kind)]
         [] OTHER                  -> [new EXCEPT !.at = "asking"]]
  /\ UNCHANGED recognise

\* The answer arrives.
Relay(c) ==
  /\ call[c].at = "answered"
  /\ Decides(c, Relayed(call[c].kind, call[c].answer))
  /\ UNCHANGED recognise

\* No connection, or no answer in time; what the gateway has done meanwhile is lost.
Unanswered(c) ==
  /\ call[c].at \in {"asking", "answered"}
  /\ Decides(c, AtFailure(call[c].kind))
  /\ UNCHANGED recognise

\* What the editor takes from a process that ends with no output: the Claude Code hook allows
\* a command in this very way, the hooks of Cursor end as crashed.
Silence(kind) == IF kind = "claudeCommand" THEN "allow" ELSE "silent"

\* The gateway's side closes the connection in the middle of the answer: postJson neither
\* resolves nor rejects, and the process ends without a word.
CutOff(c) ==
  /\ call[c].at = "answered"
  /\ call' = [call EXCEPT ![c] = [@ EXCEPT
       !.at = "over", !.cut = TRUE, !.decision = Silence(call[c].kind)]]
  /\ UNCHANGED recognise

\* The administrator switches the rules.
SwitchRules ==
  /\ recognise' = ~ recognise
  /\ UNCHANGED call

GuardNext ==
  \/ \E c \in Calls :
       \/ \E kind \in Kinds, content \in Contents : Invoke(c, kind, content)
       \/ Serve(c)
       \/ ServeThrows(c)
       \/ Refused(c)
       \/ Relay(c)
       \/ Unanswered(c)
       \/ CutOff(c)
  \/ SwitchRules

GuardSpec == GuardInit /\ [][GuardNext]_guardVars

-----------------------------------------------------------------------------
(* Properties.                                                             *)

\* The variables hold what the code can put into them.
GuardTypeOK ==
  /\ call \in [Calls -> Call]
  /\ recognise \in BOOLEAN

\* Whatever fails between the editor and the verdict - input, gateway, connection, clock -
\* nothing goes on unchanged unless it was judged harmless, or the gateway was told not to
\* judge - with one exception, a command of Claude Code whose answer is cut off, although its
\* hook means to deny on any error; and a prompt always goes on. (Cursor treats a silent hook
\* as crashed, and what that means is set per hook.)
AllowedWasJudged ==
  \A c \in Calls : LET k == call[c] IN
    k.at = "over" =>
      /\ k.decision = "allow" /\ k.kind # "prompt" /\ k.content # "nothing" =>
           \/ k.judged /\ (k.content = "clean" \/ k.off)
           \/ k.kind = "claudeCommand" /\ k.cut
      /\ k.decision = "ask" => k.content = "doubtful"
      /\ k.kind = "prompt" => k.decision \in {"allow", "silent"}
=============================================================================
