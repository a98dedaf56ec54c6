----------------------------- MODULE EditorHooks -----------------------------
(***************************************************************************)
(* Cursor's prompt hook and turn-log hook (scripts/cursor-redact-hook.mjs, *)
(* cursor-turn-log-hook.mjs) with the two files they share and the         *)
(* gateway's endpoints /detect and /log-turn (src/server.ts).  Before a    *)
(* prompt goes out, the prompt hook lets it pass or denies it, and notes   *)
(* what it let pass in a ledger; after a turn the turn-log hook files the  *)
(* turns of the transcript it has not filed before, and says of each       *)
(* whether the prompt hook had seen it.  Every hook is a process: those of *)
(* several chats, and two of one chat, overlap.                            *)
(*                                                                         *)
(* Abstraction.  A text is the words of a message, a reply or the content  *)
(* of a file, and its own hash.  A message carries its words and the files *)
(* they mention (@name).  The prompt hook reads the files of the prompt it *)
(* is called for; of all other messages, and in ledger, transcript and log,*)
(* there are only the words.  The editor is external, as the hooks         *)
(* describe it: a denied message stays in the chat and goes out with the   *)
(* next one that passes; a message typed while the agent is at work skips  *)
(* the hook; old turns disappear when the transcript is compacted.  What a *)
(* text holds beyond the size the hook scans is left out.                  *)
(***************************************************************************)
EXTENDS Naturals, Sequences, Functions

CONSTANTS
  Chats,       \* transcripts
  Texts,       \* words of messages, replies, contents of files
  Mentioning,  \* words that mention files
  Files,       \* contents of the files they may resolve to
  NoText,      \* no attachment
  Dirty,       \* texts in which a rule finds personal data, while it is enabled
  Extras,      \* what the editor may attach to a turn of itself
  ReplyOf,     \* ReplyOf[n]: the reply in the n-th turn
  Runs,        \* runs of the turn-log hook, numbered in their order
  Approvals,   \* APPROVED_CAP
  MaxHashes,   \* MAX_TURN_HASHES
  Counts,      \* counters an earlier version of the hook may have left
  MaxMessages, \* bound: messages typed
  MaxTurns,    \* bound: turns
  MaxFlips     \* bound: changes of the rule

ASSUME HookTextAssumption ==
  /\ Chats # {}
  /\ NoText \notin Texts
  /\ Dirty \subseteq Texts /\ Files \subseteq Texts
  /\ Extras \subseteq Texts \cup {NoText}
  /\ ReplyOf \in [1..MaxTurns -> Texts]
ASSUME HookBoundAssumption ==
  /\ Runs \subseteq Nat /\ Counts \subseteq Nat
  /\ Approvals \in Nat \ {0} /\ MaxHashes \in Nat \ {0}
  /\ MaxMessages \in Nat /\ MaxTurns \in Nat /\ MaxFlips \in Nat

VARIABLES
  armed,      \* the rule that recognises Dirty is enabled in the gateway
  chat,       \* per chat: the user's messages since the last turn ended
  busy,       \* per chat: "no", or the agent is at work on a prompt that was scanned
              \* how: "checked"; "disarmed", the rule being off; "unread", without
              \* the messages that were pending
  gate,       \* per chat: the prompt hook
  ledger,     \* cursor-approved-prompts.json
  allowed,    \* history: what the prompt hook let pass
  made,       \* history: all turns
  shown,      \* per chat: the turns in its transcript, by number
  state,      \* cursor-turnlog-state.json: per chat what was filed
  run,        \* per run of the turn-log hook: how far it is
  rows,       \* the turns filed in the traffic log
  disturbed,  \* history: two runs overlapped, one was killed, or an answer was lost
  typed,      \* counts towards MaxMessages
  flips       \* counts towards MaxFlips

promptVars == <<chat, busy, gate, ledger, allowed, typed>>
turnVars   == <<made, shown>>
logVars    == <<state, run, rows, disturbed>>
ruleVars   == <<armed, flips>>
hooksVars  == <<promptVars, turnVars, logVars, ruleVars>>

Message == [text : Texts, files : SUBSET Texts, how : {"gated", "queued", "denied"}]

\* prompt: the words of the messages.
Turn == [chat : Chats, prompt : Seq(Texts), extra : Extras]

\* text, files: the prompt; todo: what is still to be scanned; read: the transcript could be
\* read; scanned: the rule was enabled at every scan; noted: the ledger as it was read.
Gate == [at : {"idle", "asking", "noting"}, text : Texts \cup {NoText}, files : SUBSET Texts,
         todo : SUBSET Texts, read : BOOLEAN, scanned : BOOLEAN, noted : Seq(Texts)]
Idle == [at |-> "idle", text |-> NoText, files |-> {}, todo |-> {}, read |-> TRUE,
         scanned |-> TRUE, noted |-> <<>>]

\* The identity of a turn: turnHash of its prompt and its response.
HashOf(n) == <<made[n].prompt, ReplyOf[n]>>
Hash      == Seq(Texts) \X Texts

\* count: the positional counter of an earlier version; 0 once there are hashes.
Record == [count : Nat, logged : Seq(Hash)]
NoRecord == [count |-> 0, logged |-> <<>>]

\* file: the state file as it was read; turns, approved: the transcript and the ledger;
\* presumed: how many turns were taken as filed because of the counter.
Run == [at : {"unused", "posting", "failed", "over"}, chat : Chats, file : [Chats -> Record],
        turns : Seq(Nat), approved : SUBSET Texts, presumed : Nat, known : Seq(Hash),
        clean : BOOLEAN]
Unrun(c) == [at |-> "unused", chat |-> c, file |-> [d \in Chats |-> NoRecord], turns |-> <<>>,
             approved |-> {}, presumed |-> 0, known |-> <<>>, clean |-> FALSE]

\* Mutant: nothing is dropped.
AllKept(s, cap) == s

\* What slice(-cap) leaves.
Newest(s, cap) == IF Len(s) > cap THEN SubSeq(s, Len(s) - cap + 1, Len(s)) ELSE s

TextsIn(messages) == {m.text : m \in Range(messages)}

HooksInit ==
  /\ armed = TRUE
  /\ chat = [c \in Chats |-> <<>>]
  /\ busy = [c \in Chats |-> "no"]
  /\ gate = [c \in Chats |-> Idle]
  /\ ledger = <<>>
  /\ allowed = {}
  /\ made = <<>>
  /\ shown = [c \in Chats |-> <<>>]
  /\ state \in [Chats -> {[NoRecord EXCEPT !.count = n] : n \in Counts}]
  /\ run = [r \in Runs |-> Unrun(CHOOSE c \in Chats : TRUE)]
  /\ rows = <<>>
  /\ disturbed = FALSE
  /\ typed = 0
  /\ flips = 0

-----------------------------------------------------------------------------
(* The prompt hook.                                                        *)

\* Mutant: what is pending in the chat is not looked at.
PendingIgnored(c, t) == {}

\* pendingUserMessages: the words of the messages since the last turn, this prompt excepted.
Pending(c, t) == TextsIn(chat[c]) \ {t}

\* resolveMentions: the contents of the files found for the mentions of a prompt.
Resolved(t) == IF t \in Mentioning THEN SUBSET Files ELSE {{}}

\* The user sends a prompt and the hook starts: what it will scan are the words of the
\* prompt, its files, and the words of what is pending. A transcript that cannot be read
\* is taken as one without pending messages.
Submit(c, t) ==
  /\ busy[c] = "no"
  /\ gate[c].at = "idle"
  /\ typed < MaxMessages
  /\ typed' = typed + 1
  /\ \E files \in Resolved(t), read \in BOOLEAN :
       gate' = [gate EXCEPT ![c] =
         [Idle EXCEPT !.at = "asking", !.text = t, !.files = files, !.read = read,
                      !.todo = {t} \cup files \cup IF read THEN Pending(c, t) ELSE {}]]
  /\ UNCHANGED <<chat, busy, ledger, allowed, turnVars, logVars, ruleVars>>

\* Something was found, or the gateway did not answer, or a file could not be read: the
\* prompt is denied. The editor keeps it in the chat.
Deny(c) ==
  /\ gate[c].at = "asking"
  /\ chat' = [chat EXCEPT ![c] = Append(@, [text |-> gate[c].text, files |-> gate[c].files,
                                          how |-> "denied"])]
  /\ gate' = [gate EXCEPT ![c] = Idle]
  /\ UNCHANGED <<busy, ledger, allowed, typed, turnVars, logVars, ruleVars>>

\* /detect finds nothing in one of the texts. The rule may be switched before the next.
Pass(c, t) ==
  /\ gate[c].at = "asking"
  /\ t \in gate[c].todo
  /\ armed => t \notin Dirty
  /\ gate' = [gate EXCEPT ![c].todo = @ \ {t}, ![c].scanned = @ /\ armed]
  /\ UNCHANGED <<chat, busy, ledger, allowed, typed, turnVars, logVars, ruleVars>>

\* Nothing was found: rememberApproved reads the ledger, and finds it empty while another
\* hook is writing it.
Approve(c) ==
  /\ gate[c].at = "asking"
  /\ gate[c].todo = {}
  /\ \E noted \in {ledger} \cup {<<>> : d \in {d \in Chats : gate[d].at = "noting"}} :
       gate' = [gate EXCEPT ![c].at = "noting", ![c].noted = noted]
  /\ UNCHANGED <<chat, busy, ledger, allowed, typed, turnVars, logVars, ruleVars>>

\* The ledger with one more hash: that of the words, whatever the files hold.
Noted(c) ==
  IF gate[c].text \in Range(gate[c].noted) THEN gate[c].noted
  ELSE Newest(Append(gate[c].noted, gate[c].text), Approvals)

\* rememberApproved writes the ledger, or fails to; the prompt passes, and with it what
\* is pending.
Send(c) ==
  /\ gate[c].at = "noting"
  /\ ledger' \in {ledger, Noted(c)}
  /\ allowed' = allowed \cup {gate[c].text}
  /\ chat' = [chat EXCEPT ![c] = Append(@, [text |-> gate[c].text, files |-> gate[c].files,
                                          how |-> "gated"])]
  /\ busy' = [busy EXCEPT ![c] = IF ~ gate[c].scanned THEN "disarmed"
                                 ELSE IF gate[c].read THEN "checked" ELSE "unread"]
  /\ gate' = [gate EXCEPT ![c] = Idle]
  /\ UNCHANGED <<typed, turnVars, logVars, ruleVars>>

\* The user sends while the agent is at work: no hook is called.
QueueMessage(c, t) ==
  /\ busy[c] # "no"
  /\ typed < MaxMessages
  /\ typed' = typed + 1
  /\ \E files \in Resolved(t) :
       chat' = [chat EXCEPT ![c] = Append(@, [text |-> t, files |-> files, how |-> "queued"])]
  /\ UNCHANGED <<busy, gate, ledger, allowed, turnVars, logVars, ruleVars>>

\* The user deletes what was denied.
Discard(c) ==
  /\ busy[c] = "no"
  /\ gate[c].at = "idle"
  /\ chat[c] # <<>>
  /\ chat' = [chat EXCEPT ![c] = <<>>]
  /\ UNCHANGED <<busy, gate, ledger, allowed, typed, turnVars, logVars, ruleVars>>

-----------------------------------------------------------------------------
(* The transcript.                                                         *)

\* The agent is done. `extra`: a file the transcript shows as attached, which the editor did
\* of itself, or for a mention.
TurnEnds(c, extra) ==
  /\ busy[c] # "no"
  /\ Len(made) < MaxTurns
  /\ made' = Append(made, [chat |-> c, extra |-> extra,
                           prompt |-> [i \in DOMAIN chat[c] |-> chat[c][i].text]])
  /\ shown' = [shown EXCEPT ![c] = Append(@, Len(made) + 1)]
  /\ chat' = [chat EXCEPT ![c] = <<>>]
  /\ busy' = [busy EXCEPT ![c] = "no"]
  /\ UNCHANGED <<gate, ledger, allowed, typed, logVars, ruleVars>>

\* The editor compacts the transcript.
Compact(c) ==
  /\ Len(shown[c]) > 1
  /\ shown' = [shown EXCEPT ![c] = Tail(@)]
  /\ UNCHANGED <<made, promptVars, logVars, ruleVars>>

-----------------------------------------------------------------------------
(* The turn-log hook.                                                      *)

Under(phases) == {r \in Runs : run[r].at \in phases}

\* Mutant: the legacy counter is taken at its word.
PresumedAll(count, turns) == IF count < Len(turns) THEN count ELSE Len(turns)

\* How many turns a legacy counter stands for: never the newest.
Presumed(count, turns) ==
  IF count < Len(turns) THEN count ELSE IF turns = <<>> THEN 0 ELSE Len(turns) - 1

\* The run reads transcript, ledger and state; a file another process is writing is
\* found empty.
StopHook(r, c) ==
  /\ run[r].at = "unused"
  /\ \A q \in Runs : q < r => run[q].at # "unused"
  /\ shown[c] # <<>>
  /\ \E file \in {state} \cup {[d \in Chats |-> NoRecord] : q \in Under({"posting", "failed"})},
        approved \in {Range(ledger)} \cup {{} : d \in {d \in Chats : gate[d].at = "noting"}} :
       LET presumed == Presumed(file[c].count, shown[c]) IN
       run' = [run EXCEPT ![r] =
         [at |-> "posting", chat |-> c, file |-> file, turns |-> shown[c], approved |-> approved,
          presumed |-> presumed,
          known |-> file[c].logged \o [i \in 1..presumed |-> HashOf(shown[c][i])],
          clean |-> FALSE]]
  /\ disturbed' = (disturbed \/ Under({"posting", "failed"}) # {})
  /\ UNCHANGED <<state, rows, promptVars, turnVars, ruleVars>>

\* The turns of its transcript that the run does not know as filed.
Unfiled(r) == {i \in DOMAIN run[r].turns : HashOf(run[r].turns[i]) \notin Range(run[r].known)}
NextTurn(r) == run[r].turns[CHOOSE i \in Unfiled(r) : \A j \in Unfiled(r) : i <= j]

Found(texts) == armed /\ texts \cap Dirty # {}

\* Mutant: what was attached does not count.
RowOfPrompt(r, n) ==
  LET t == made[n]
      unchecked == run[r].approved # {} /\ ~ (Range(t.prompt) \subseteq run[r].approved)
      pii == Found(Range(t.prompt) \cup {ReplyOf[n]})
  IN [turn |-> n, blind |-> run[r].approved = {}, armed |-> armed, unchecked |-> unchecked,
      alarm |-> (unchecked \/ t.extra # NoText) /\ pii]

\* What /log-turn files of a turn, and whether isConfirmedLeak holds of its answer. History:
\* whether the ledger was found empty, and the rule enabled.
RowOf(r, n) ==
  LET t == made[n]
      unchecked == run[r].approved # {} /\ ~ (Range(t.prompt) \subseteq run[r].approved)
      pii == Found(Range(t.prompt) \cup {t.extra, ReplyOf[n]})
  IN [turn |-> n, blind |-> run[r].approved = {}, armed |-> armed,
      unchecked |-> unchecked \/ Found({t.extra}),
      alarm |-> (unchecked \/ t.extra # NoText) /\ pii]

\* A turn is posted and answered.
PostTurn(r) ==
  /\ run[r].at = "posting"
  /\ Unfiled(r) # {}
  /\ rows' = Append(rows, RowOf(r, NextTurn(r)))
  /\ run' = [run EXCEPT ![r].known = Append(@, HashOf(NextTurn(r)))]
  /\ UNCHANGED <<state, disturbed, promptVars, turnVars, ruleVars>>

\* The post fails, and the rest is left for the next run. The turn may have been filed all
\* the same, if the answer was too late.
PostFails(r) ==
  /\ run[r].at = "posting"
  /\ Unfiled(r) # {}
  /\ run' = [run EXCEPT ![r].at = "failed"]
  /\ \/ UNCHANGED <<rows, disturbed>>
     \/ /\ rows' = Append(rows, RowOf(r, NextTurn(r)))
        /\ disturbed' = TRUE
  /\ UNCHANGED <<state, promptVars, turnVars, ruleVars>>

\* The process ends. History: which turns it read, and whether nothing failed.
Over(r, clean) ==
  [Unrun(run[r].chat) EXCEPT !.at = "over", !.turns = run[r].turns,
                             !.presumed = run[r].presumed, !.clean = clean]

\* Mutant: the turns of this transcript that were known before are forgotten.
SaveForgetful(r) ==
  /\ run[r].at \in {"posting", "failed"}
  /\ run[r].at = "posting" => Unfiled(r) = {}
  /\ state' = [run[r].file EXCEPT ![run[r].chat] = NoRecord]
  /\ run' = [run EXCEPT ![r] = Over(r, run[r].at = "posting")]
  /\ UNCHANGED <<rows, disturbed, promptVars, turnVars, ruleVars>>

\* The run writes the whole state file and ends.
Save(r) ==
  /\ run[r].at \in {"posting", "failed"}
  /\ run[r].at = "posting" => Unfiled(r) = {}
  /\ state' = [run[r].file EXCEPT ![run[r].chat] =
       [count |-> 0, logged |-> Newest(run[r].known, MaxHashes)]]
  /\ run' = [run EXCEPT ![r] = Over(r, run[r].at = "posting")]
  /\ UNCHANGED <<rows, disturbed, promptVars, turnVars, ruleVars>>

\* The run is killed, or the file cannot be written.
Killed(r) ==
  /\ run[r].at \in {"posting", "failed"}
  /\ run' = [run EXCEPT ![r] = Over(r, FALSE)]
  /\ disturbed' = TRUE
  /\ UNCHANGED <<state, rows, promptVars, turnVars, ruleVars>>

-----------------------------------------------------------------------------

\* The administrator switches the rule.
Flip ==
  /\ flips < MaxFlips
  /\ flips' = flips + 1
  /\ armed' = ~ armed
  /\ UNCHANGED <<promptVars, turnVars, logVars>>

HooksNext ==
  \/ \E c \in Chats :
       \/ \E t \in Texts : Submit(c, t) \/ Pass(c, t) \/ QueueMessage(c, t)
       \/ Deny(c)
       \/ Approve(c)
       \/ Send(c)
       \/ Discard(c)
       \/ \E extra \in Extras : TurnEnds(c, extra)
       \/ Compact(c)
       \/ \E r \in Runs : StopHook(r, c)
  \/ \E r \in Runs : PostTurn(r) \/ PostFails(r) \/ Save(r) \/ Killed(r)
  \/ Flip

HooksSpec == HooksInit /\ [][HooksNext]_hooksVars

-----------------------------------------------------------------------------
(* Properties.                                                             *)

\* The variables hold what the code can put into them.
HooksTypeOK ==
  /\ armed \in BOOLEAN /\ disturbed \in BOOLEAN
  /\ chat \in [Chats -> Seq(Message)]
  /\ busy \in [Chats -> {"no", "checked", "disarmed", "unread"}]
  /\ gate \in [Chats -> Gate]
  /\ ledger \in Seq(Texts) /\ Len(ledger) <= Approvals
  /\ allowed \subseteq Texts
  /\ made \in Seq(Turn)
  /\ shown \in [Chats -> Seq(Nat)]
  /\ \A c \in Chats : Range(shown[c]) \subseteq DOMAIN made
  /\ state \in [Chats -> Record]
  /\ \A c \in Chats : Len(state[c].logged) <= MaxHashes
  /\ run \in [Runs -> Run]
  /\ rows \in Seq([turn : Nat, blind : BOOLEAN, armed : BOOLEAN, unchecked : BOOLEAN,
                   alarm : BOOLEAN])
  /\ Range([i \in DOMAIN rows |-> rows[i].turn]) \subseteq DOMAIN made
  /\ typed \in Nat /\ flips \in Nat

\* A denied message stays in the chat and goes out with the next prompt that passes: so
\* when a prompt passed scans that had the transcript and the rule enabled, there is nothing
\* the rule recognises in the prompt, in its files, and in the words of what goes out with
\* it, messages that skipped the hook excepted. (The files of those others were not looked
\* at: a prompt denied for its file goes out, with the file, behind a clean one.)
PendingHeldBack ==
  \A c \in Chats : busy[c] = "checked" =>
    \A m \in Range(chat[c]) :
      /\ m.how # "queued" => m.text \notin Dirty
      /\ m.how = "gated" => m.files \cap Dirty = {}

\* The only trace of a message that skipped the hook is the log: a turn with personal data
\* in words the hook never let pass, or in a file the transcript shows as attached, is filed
\* as unchecked and the user is alarmed, when the rule is enabled and (for words) the ledger
\* was not found empty.
FlaggedWhenLeaked ==
  \A i \in DOMAIN rows :
    LET r == rows[i]
        t == made[r.turn]
    IN r.armed /\ (\/ t.extra \in Dirty
                   \/ ~ r.blind /\ (Range(t.prompt) \cap Dirty) \ allowed # {})
       => r.unchecked /\ r.alarm

FiledHashes == {HashOf(rows[i].turn) : i \in DOMAIN rows}

\* A run that met no failure leaves every turn of its transcript filed, but for those an
\* old counter stood for; and the counter never stands for the newest turn, however the
\* transcript was compacted since.
CleanRunCatchesUp ==
  \A r \in Runs : run[r].at = "over" /\ run[r].clean =>
    /\ run[r].presumed < Len(run[r].turns)
    /\ \A n \in Range(run[r].turns) :
         \/ HashOf(n) \in FiledHashes
         \/ \E q \in Runs : \E i \in 1..run[q].presumed : HashOf(run[q].turns[i]) = HashOf(n)

\* A re-fire or a later event of the session never files a turn twice, as long as runs
\* neither overlap nor are killed, no answer is lost, and a transcript has no more
\* different turns than the state file keeps.
LoggedOnceUndisturbed ==
  ~ disturbed /\ MaxTurns <= MaxHashes =>
    \A i, j \in DOMAIN rows :
      /\ HashOf(rows[i].turn) = HashOf(rows[j].turn)
      /\ made[rows[i].turn].chat = made[rows[j].turn].chat
      => i = j
=============================================================================
