---------------------------- MODULE Hooks_proofs ----------------------------
(***************************************************************************)
(* Theorems about the prompt hook and the rows of the turn-log hook        *)
(* (EditorHooks): what is pending in a chat is held back with its prompt;  *)
(* ledger, state file and rows keep their types and caps; and the turns    *)
(* that went past the prompt hook are flagged.                             *)
(***************************************************************************)
EXTENDS EditorHooks, SequenceTheorems, WellFoundedInduction, TLAPS

-----------------------------------------------------------------------------
(* Facts about sequences and numbers.                                      *)

\* What joins a sequence joins its elements.
LEMMA AppendRange ==
  ASSUME NEW S, NEW s \in Seq(S), NEW e \in S
  PROVE  /\ Append(s, e) \in Seq(S)
         /\ Len(Append(s, e)) = Len(s) + 1
         /\ Range(Append(s, e)) = Range(s) \cup {e}
<1>1. /\ Append(s, e) \in Seq(S) /\ Len(Append(s, e)) = Len(s) + 1 /\ Len(s) \in Nat
      /\ DOMAIN s = 1 .. Len(s) /\ DOMAIN Append(s, e) = 1 .. Len(s) + 1
      /\ \A i \in 1 .. Len(s) : Append(s, e)[i] = s[i]
      /\ Append(s, e)[Len(s) + 1] = e
  OBVIOUS
<1>2. Range(Append(s, e)) \subseteq Range(s) \cup {e}
  BY <1>1 DEF Range
<1>3. Range(s) \subseteq Range(Append(s, e))
  BY <1>1 DEF Range
<1>4. e \in Range(Append(s, e))
  <2>1. Len(s) + 1 \in DOMAIN Append(s, e)
    BY <1>1
  <2>2. QED
    BY <1>1, <2>1 DEF Range
<1>5. QED
  BY <1>1, <1>2, <1>3, <1>4

\* Newest keeps elements of the sequence, no more than the cap, and all of them when there
\* are no more.
LEMMA NewestKeeps ==
  ASSUME NEW S, NEW s \in Seq(S), NEW cap \in Nat \ {0}
  PROVE  /\ Newest(s, cap) \in Seq(S)
         /\ Len(Newest(s, cap)) <= cap
         /\ Range(Newest(s, cap)) \subseteq Range(s)
         /\ Len(s) <= cap => Newest(s, cap) = s
<1>1. CASE Len(s) > cap
  <2> DEFINE m == Len(s) - cap + 1
  <2>1. /\ m \in Int /\ Len(s) \in Nat /\ m >= 1 /\ m <= Len(s) /\ DOMAIN s = 1 .. Len(s)
        /\ Len(s) - m + 1 = cap
    BY <1>1
  <2>2. Newest(s, cap) = SubSeq(s, m, Len(s))
    BY <1>1 DEF Newest
  <2> HIDE DEF m
  <2>3. \A i \in m .. Len(s) : s[i] \in S
    BY <2>1
  <2>4. /\ SubSeq(s, m, Len(s)) \in Seq(S)
        /\ Len(SubSeq(s, m, Len(s))) = cap
        /\ \A i \in 1 .. cap : SubSeq(s, m, Len(s))[i] = s[m + i - 1]
    BY <2>1, <2>3, SubSeqProperties
  <2>5. DOMAIN SubSeq(s, m, Len(s)) = 1 .. cap
    BY <2>4
  <2>6. \A i \in 1 .. cap : m + i - 1 \in DOMAIN s
    BY <2>1
  <2>7. Range(SubSeq(s, m, Len(s))) \subseteq Range(s)
    BY <2>4, <2>5, <2>6 DEF Range
  <2>8. QED
    BY <1>1, <2>1, <2>2, <2>4, <2>7
<1>2. CASE ~ (Len(s) > cap)
  BY <1>2 DEF Newest
<1>3. QED
  BY <1>1, <1>2

\* A nonempty set of numbers has a least element.
LEMMA LeastNumber ==
  ASSUME NEW T, T \subseteq Nat, T # {}
  PROVE  \E x \in T : \A y \in T : x <= y
<1>1. PICK x \in T : \A y \in T : <<y, x>> \notin OpToRel(<, Nat)
  BY NatLessThanWellFounded, WFMin
<1>2. \A y \in T : ~ (y < x)
  BY <1>1 DEF OpToRel
<1>3. QED
  BY <1>2

-----------------------------------------------------------------------------
(* The prompt hook.                                                        *)

PromptTypeOK ==
  /\ armed \in BOOLEAN
  /\ chat \in [Chats -> Seq(Message)]
  /\ busy \in [Chats -> {"no", "checked", "disarmed", "unread"}]
  /\ gate \in [Chats -> Gate]
  /\ ledger \in Seq(Texts)

\* While the hook asks, the agent of the chat rests, so nothing can join what is pending;
\* and of what would go out, whatever the rule recognises is still to be scanned, if the
\* hook has the transcript and the rule was enabled at every scan so far.
GateInv(c) ==
  gate[c].at # "idle" =>
    /\ busy[c] = "no"
    /\ gate[c].text \in Texts
    /\ gate[c].at = "noting" => gate[c].todo = {}
    /\ gate[c].scanned /\ gate[c].read =>
         (TextsIn(chat[c]) \cup {gate[c].text}) \cap Dirty \subseteq gate[c].todo
    /\ gate[c].scanned => gate[c].files \cap Dirty \subseteq gate[c].todo

\* While the agent rests, nothing in the chat has passed the hook: so the one prompt that has
\* passed it while the agent is at work is the one whose files were scanned.
SentInv(c) ==
  \A i \in 1 .. Len(chat[c]) :
    /\ busy[c] = "no" => chat[c][i].how # "gated"
    /\ busy[c] = "checked" =>
         /\ chat[c][i].how # "queued" => chat[c][i].text \notin Dirty
         /\ chat[c][i].how = "gated" => chat[c][i].files \cap Dirty = {}

PromptInv == PromptTypeOK /\ \A c \in Chats : GateInv(c) /\ SentInv(c)

\* A message joins a chat.
LEMMA MessageJoins ==
  ASSUME NEW s \in Seq(Message), NEW m \in Message
  PROVE  /\ Append(s, m) \in Seq(Message)
         /\ Len(Append(s, m)) = Len(s) + 1
         /\ \A i \in 1 .. Len(s) : Append(s, m)[i] = s[i]
         /\ Append(s, m)[Len(s) + 1] = m
OBVIOUS

\* A hook that does not run is one.
LEMMA IdleIsGate == Idle \in Gate
BY DEF Idle, Gate

\* The fields of a gate, and their types.
LEMMA GateFields ==
  ASSUME PromptTypeOK, NEW c \in Chats
  PROVE  /\ gate[c].at \in {"idle", "asking", "noting"}
         /\ gate[c].text \in Texts \cup {NoText}
         /\ gate[c].files \in SUBSET Texts /\ gate[c].todo \in SUBSET Texts
         /\ gate[c].read \in BOOLEAN /\ gate[c].scanned \in BOOLEAN
         /\ gate[c].noted \in Seq(Texts)
BY DEF PromptTypeOK, Gate

\* If a step leaves chat, agent and gate of a chat alone, its invariants hold.
LEMMA OthersKept ==
  ASSUME NEW c \in Chats, GateInv(c), SentInv(c),
         chat'[c] = chat[c], busy'[c] = busy[c], gate'[c] = gate[c]
  PROVE  GateInv(c)' /\ SentInv(c)'
BY DEF GateInv, SentInv

\* The messages of a chat are texts.
LEMMA MessagesAreTexts ==
  ASSUME NEW s \in Seq(Message)
  PROVE  TextsIn(s) \subseteq Texts
<1>1. Range(s) \subseteq Message
  BY DEF Range
<1>2. QED
  BY <1>1 DEF TextsIn, Message

\* The files of a message are texts.
LEMMA FilesAreTexts ==
  ASSUME NEW t, NEW files \in Resolved(t)
  PROVE  files \in SUBSET Texts
BY HookTextAssumption DEF Resolved

\* A prompt that is submitted keeps PromptInv: the prompt, its files and all that is pending
\* are to be scanned.
LEMMA SubmitKeeps ==
  ASSUME PromptInv, NEW c \in Chats, NEW t \in Texts, Submit(c, t)
  PROVE  PromptInv'
<1>1. PICK files \in Resolved(t), read \in BOOLEAN :
        gate' = [gate EXCEPT ![c] =
          [Idle EXCEPT !.at = "asking", !.text = t, !.files = files, !.read = read,
                       !.todo = {t} \cup files \cup IF read THEN Pending(c, t) ELSE {}]]
  BY DEF Submit
<1> DEFINE todo == {t} \cup files \cup IF read THEN Pending(c, t) ELSE {}
           new == [Idle EXCEPT !.at = "asking", !.text = t, !.files = files, !.read = read,
                               !.todo = todo]
<1>2. gate' = [gate EXCEPT ![c] = new]
  BY <1>1
<1>3. TextsIn(chat[c]) \subseteq Texts
  BY MessagesAreTexts DEF PromptInv, PromptTypeOK
<1>4. /\ files \in SUBSET Texts /\ todo \in SUBSET Texts
      /\ files \subseteq todo /\ (read => (TextsIn(chat[c]) \cup {t}) \subseteq todo)
  BY <1>3, FilesAreTexts DEF Pending
<1> HIDE DEF todo
<1>5. /\ new.at = "asking" /\ new.text = t /\ new.files = files /\ new.read = read
      /\ new.todo = todo
  BY DEF Idle
<1>6. new \in Gate
  BY <1>4, IdleIsGate DEF Gate
<1> HIDE DEF new
<1>7. chat' = chat /\ busy' = busy /\ busy[c] = "no" /\ armed' = armed /\ ledger' = ledger
  BY DEF Submit, ruleVars
<1>8. PromptTypeOK' /\ gate'[c] = new
  BY <1>2, <1>6, <1>7 DEF PromptInv, PromptTypeOK
<1>9. GateInv(c)'
  BY <1>4, <1>5, <1>7, <1>8 DEF GateInv
<1>10. SentInv(c)'
  BY <1>7 DEF PromptInv, SentInv
<1>11. ASSUME NEW d \in Chats \ {c} PROVE GateInv(d)' /\ SentInv(d)'
  <2>1. gate'[d] = gate[d] /\ chat'[d] = chat[d] /\ busy'[d] = busy[d]
    BY <1>2, <1>7 DEF PromptInv, PromptTypeOK
  <2>2. QED
    BY <2>1, OthersKept DEF PromptInv
<1>12. QED
  BY <1>8, <1>9, <1>10, <1>11 DEF PromptInv

\* A prompt that is denied keeps PromptInv: it joins what is pending, and no hook runs in its
\* chat then.
LEMMA DenyKeeps ==
  ASSUME PromptInv, NEW c \in Chats, Deny(c)
  PROVE  PromptInv'
<1> DEFINE m == [text |-> gate[c].text, files |-> gate[c].files, how |-> "denied"]
<1>1. busy[c] = "no" /\ busy' = busy /\ gate[c].text \in Texts /\ gate[c].files \in SUBSET Texts
  BY GateFields DEF Deny, PromptInv, GateInv
<1>2. m \in Message /\ m.how = "denied"
  BY <1>1 DEF Message
<1>3. PromptTypeOK'
  <2>1. Append(chat[c], m) \in Seq(Message)
    BY <1>2 DEF PromptInv, PromptTypeOK
  <2>2. chat' = [chat EXCEPT ![c] = Append(chat[c], m)]
    BY DEF Deny
  <2> HIDE DEF m
  <2>3. chat' \in [Chats -> Seq(Message)]
    BY <2>1, <2>2 DEF PromptInv, PromptTypeOK
  <2>4. QED
    BY <2>3, IdleIsGate DEF Deny, PromptInv, PromptTypeOK, ruleVars
<1>4. gate'[c].at = "idle"
  BY DEF Deny, PromptInv, PromptTypeOK, Idle
<1>5. GateInv(c)' /\ SentInv(c)'
  <2>1. chat[c] \in Seq(Message) /\ chat'[c] = Append(chat[c], m)
    BY DEF Deny, PromptInv, PromptTypeOK
  <2>2. SentInv(c)
    BY DEF PromptInv
  <2> HIDE DEF m
  <2>3. ASSUME NEW i \in 1 .. Len(Append(chat[c], m))
        PROVE  Append(chat[c], m)[i].how # "gated"
    <3>1. CASE i = Len(chat[c]) + 1
      BY <1>2, <2>1, <3>1, MessageJoins
    <3>2. CASE i # Len(chat[c]) + 1
      <4>1. i \in 1 .. Len(chat[c]) /\ Append(chat[c], m)[i] = chat[c][i]
        BY <1>2, <2>1, <3>2, MessageJoins
      <4>2. QED
        BY <1>1, <2>2, <4>1 DEF SentInv
    <3>3. QED
      BY <3>1, <3>2
  <2>4. SentInv(c)'
    BY <1>1, <2>1, <2>3 DEF SentInv
  <2>5. QED
    BY <1>4, <2>4 DEF GateInv
<1>6. ASSUME NEW d \in Chats \ {c} PROVE GateInv(d)' /\ SentInv(d)'
  <2>1. gate'[d] = gate[d] /\ chat'[d] = chat[d] /\ busy'[d] = busy[d]
    BY DEF Deny, PromptInv, PromptTypeOK
  <2>2. QED
    BY <2>1, OthersKept DEF PromptInv
<1>7. QED
  BY <1>3, <1>5, <1>6 DEF PromptInv

\* A scan that finds nothing keeps PromptInv: only clean texts leave what is to be scanned.
LEMMA PassKeeps ==
  ASSUME PromptInv, NEW c \in Chats, NEW t \in Texts, Pass(c, t)
  PROVE  PromptInv'
<1> DEFINE g == gate[c]
           todo == g.todo \ {t}
           scanned == g.scanned /\ armed
           new == [g EXCEPT !.todo = todo, !.scanned = scanned]
<1>1. g \in Gate /\ todo \in SUBSET Texts /\ scanned \in BOOLEAN
  <2>1. g \in Gate
    BY DEF PromptInv, PromptTypeOK
  <2>2. QED
    BY <2>1 DEF Gate
<1>2. gate' = [gate EXCEPT ![c] = new]
  BY DEF Pass
<1>3. scanned <=> g.scanned /\ armed
  OBVIOUS
<1>4. todo = g.todo \ {t}
  OBVIOUS
<1> HIDE DEF todo, scanned
<1>5. /\ new \in Gate /\ new.at = g.at /\ new.text = g.text /\ new.files = g.files
      /\ new.read = g.read /\ new.todo = todo /\ new.scanned = scanned
  <2> HIDE DEF g
  <2>1. new.at = g.at /\ new.text = g.text /\ new.files = g.files /\ new.read = g.read
    BY <1>1 DEF Gate
  <2>2. new.todo = todo /\ new.scanned = scanned
    BY <1>1 DEF Gate
  <2>3. new \in Gate
    BY <1>1 DEF Gate
  <2>4. QED
    BY <2>1, <2>2, <2>3
<1> HIDE DEF new
<1>6. chat' = chat /\ busy' = busy /\ armed' = armed /\ ledger' = ledger
  BY DEF Pass, ruleVars
<1>7. PromptTypeOK' /\ gate'[c] = new
  BY <1>2, <1>5, <1>6 DEF PromptInv, PromptTypeOK
<1>8. GateInv(c)'
  <2>1. armed => t \notin Dirty
    BY DEF Pass
  <2>2. g.at = "asking" /\ GateInv(c)
    BY DEF Pass, PromptInv
  <2>3. QED
    BY <1>3, <1>4, <1>5, <1>6, <1>7, <2>1, <2>2 DEF GateInv
<1>9. SentInv(c)'
  BY <1>6 DEF PromptInv, SentInv
<1>10. ASSUME NEW d \in Chats \ {c} PROVE GateInv(d)' /\ SentInv(d)'
  <2>1. gate'[d] = gate[d] /\ chat'[d] = chat[d] /\ busy'[d] = busy[d]
    BY <1>2, <1>6 DEF PromptInv, PromptTypeOK
  <2>2. QED
    BY <2>1, OthersKept DEF PromptInv
<1>11. QED
  BY <1>7, <1>8, <1>9, <1>10 DEF PromptInv

\* The end of the scans keeps PromptInv: nothing is left to be scanned when the ledger is read.
LEMMA ApproveKeeps ==
  ASSUME PromptInv, NEW c \in Chats, Approve(c)
  PROVE  PromptInv'
<1>1. PICK noted \in {ledger} \cup {<<>> : d \in {d \in Chats : gate[d].at = "noting"}} :
        gate' = [gate EXCEPT ![c].at = "noting", ![c].noted = noted]
  BY DEF Approve
<1> DEFINE g == gate[c]
           new == [g EXCEPT !.at = "noting", !.noted = noted]
<1>2. g \in Gate /\ noted \in Seq(Texts)
  <2>1. noted = ledger \/ noted = <<>>
    OBVIOUS
  <2>2. g \in Gate /\ ledger \in Seq(Texts) /\ <<>> \in Seq(Texts)
    BY DEF PromptInv, PromptTypeOK
  <2>3. QED
    BY <2>1, <2>2
<1>3. gate' = [gate EXCEPT ![c] = new]
  BY <1>1
<1>4. /\ new \in Gate /\ new.at = "noting" /\ new.text = g.text /\ new.files = g.files
      /\ new.read = g.read /\ new.todo = g.todo /\ new.scanned = g.scanned
  <2> HIDE DEF g
  <2>1. /\ new.text = g.text /\ new.files = g.files /\ new.read = g.read
        /\ new.todo = g.todo /\ new.scanned = g.scanned
    BY <1>2 DEF Gate
  <2>2. new.at = "noting" /\ new \in Gate
    BY <1>2 DEF Gate
  <2>3. QED
    BY <2>1, <2>2
<1> HIDE DEF new
<1>5. chat' = chat /\ busy' = busy /\ armed' = armed /\ ledger' = ledger
  BY DEF Approve, ruleVars
<1>6. PromptTypeOK' /\ gate'[c] = new
  BY <1>3, <1>4, <1>5 DEF PromptInv, PromptTypeOK
<1>7. GateInv(c)'
  <2>1. g.at = "asking" /\ g.todo = {} /\ GateInv(c)
    BY DEF Approve, PromptInv
  <2>2. QED
    BY <1>4, <1>5, <1>6, <2>1 DEF GateInv
<1>8. SentInv(c)'
  BY <1>5 DEF PromptInv, SentInv
<1>9. ASSUME NEW d \in Chats \ {c} PROVE GateInv(d)' /\ SentInv(d)'
  <2>1. gate'[d] = gate[d] /\ chat'[d] = chat[d] /\ busy'[d] = busy[d]
    BY <1>3, <1>5 DEF PromptInv, PromptTypeOK
  <2>2. QED
    BY <2>1, OthersKept DEF PromptInv
<1>10. QED
  BY <1>6, <1>7, <1>8, <1>9 DEF PromptInv

\* A prompt that goes out keeps PromptInv: nothing was left to be scanned.
LEMMA SendKeeps ==
  ASSUME PromptInv, NEW c \in Chats, Send(c)
  PROVE  PromptInv'
<1> DEFINE m == [text |-> gate[c].text, files |-> gate[c].files, how |-> "gated"]
           how == IF ~ gate[c].scanned THEN "disarmed"
                  ELSE IF gate[c].read THEN "checked" ELSE "unread"
<1>1. GateInv(c) /\ SentInv(c) /\ gate[c].at = "noting"
  BY DEF Send, PromptInv
<1>2. gate[c].text \in Texts /\ m \in Message
  BY <1>1, GateFields DEF PromptInv, GateInv, Message
<1>3. chat[c] \in Seq(Message)
  BY DEF PromptInv, PromptTypeOK
<1>4. /\ chat' = [chat EXCEPT ![c] = Append(chat[c], m)]
      /\ busy' = [busy EXCEPT ![c] = how]
      /\ gate' = [gate EXCEPT ![c] = Idle]
      /\ armed' = armed
  BY DEF Send, ruleVars
<1>5. ledger' \in Seq(Texts)
  <2>1. gate[c].noted \in Seq(Texts)
    BY GateFields DEF PromptInv
  <2>2. Append(gate[c].noted, gate[c].text) \in Seq(Texts)
    BY <1>2, <2>1
  <2>3. Noted(c) \in Seq(Texts)
    <3>1. Newest(Append(gate[c].noted, gate[c].text), Approvals) \in Seq(Texts)
      BY <2>2, NewestKeeps, HookBoundAssumption
    <3>2. QED
      BY <2>1, <3>1 DEF Noted
  <2>4. QED
    BY <2>3 DEF Send, PromptInv, PromptTypeOK
<1>6. how \in {"no", "checked", "disarmed", "unread"}
  OBVIOUS
<1>7. how = "checked" => gate[c].scanned /\ gate[c].read
  OBVIOUS
<1>8. m.text = gate[c].text /\ m.files = gate[c].files
  OBVIOUS
<1> HIDE DEF m, how
<1>9. /\ chat'[c] = Append(chat[c], m) /\ busy'[c] = how /\ gate'[c].at = "idle"
      /\ chat' \in [Chats -> Seq(Message)]
  BY <1>2, <1>3, <1>4 DEF PromptInv, PromptTypeOK, Idle
<1>10. PromptTypeOK'
  BY <1>4, <1>5, <1>6, <1>9, IdleIsGate DEF PromptInv, PromptTypeOK
<1>11. GateInv(c)'
  BY <1>9 DEF GateInv
<1>12. SentInv(c)'
  <2>0. how # "no"
    BY DEF how
  <2> SUFFICES ASSUME how = "checked", NEW i \in 1 .. Len(Append(chat[c], m))
               PROVE  LET p == Append(chat[c], m)[i] IN
                      p.text \notin Dirty /\ (p.how = "gated" => p.files \cap Dirty = {})
    BY <1>9, <2>0 DEF SentInv
  <2>1. /\ (TextsIn(chat[c]) \cup {gate[c].text}) \cap Dirty = {}
        /\ gate[c].files \cap Dirty = {} /\ busy[c] = "no"
    BY <1>1, <1>7 DEF GateInv
  <2>2. CASE i = Len(chat[c]) + 1
    BY <1>2, <1>3, <1>8, <2>1, <2>2, MessageJoins
  <2>3. CASE i # Len(chat[c]) + 1
    <3>1. i \in 1 .. Len(chat[c]) /\ Append(chat[c], m)[i] = chat[c][i]
      BY <1>2, <1>3, <2>3, MessageJoins
    <3>2. chat[c][i].text \in TextsIn(chat[c])
      BY <1>3, <3>1 DEF TextsIn, Range
    <3>3. chat[c][i].how # "gated"
      BY <1>1, <2>1, <3>1 DEF SentInv
    <3>4. QED
      BY <2>1, <3>1, <3>2, <3>3
  <2>4. QED
    BY <2>2, <2>3
<1>13. ASSUME NEW d \in Chats \ {c} PROVE GateInv(d)' /\ SentInv(d)'
  <2>1. gate'[d] = gate[d] /\ chat'[d] = chat[d] /\ busy'[d] = busy[d]
    BY <1>4 DEF PromptInv, PromptTypeOK
  <2>2. QED
    BY <2>1, OthersKept DEF PromptInv
<1>14. QED
  BY <1>10, <1>11, <1>12, <1>13 DEF PromptInv

\* A message that is queued behind a working agent keeps PromptInv.
LEMMA QueueKeeps ==
  ASSUME PromptInv, NEW c \in Chats, NEW t \in Texts, QueueMessage(c, t)
  PROVE  PromptInv'
<1>0. PICK files \in Resolved(t) :
        chat' = [chat EXCEPT ![c] = Append(@, [text |-> t, files |-> files, how |-> "queued"])]
  BY DEF QueueMessage
<1> DEFINE m == [text |-> t, files |-> files, how |-> "queued"]
<1>1. m \in Message /\ m.how = "queued"
  BY FilesAreTexts DEF Message
<1>2. /\ chat' = [chat EXCEPT ![c] = Append(chat[c], m)]
      /\ busy' = busy /\ busy[c] # "no" /\ gate' = gate /\ armed' = armed /\ ledger' = ledger
  BY <1>0 DEF QueueMessage, ruleVars
<1>3. chat[c] \in Seq(Message)
  BY DEF PromptInv, PromptTypeOK
<1> HIDE DEF m
<1>4. chat'[c] = Append(chat[c], m) /\ chat' \in [Chats -> Seq(Message)]
  BY <1>1, <1>2, <1>3 DEF PromptInv, PromptTypeOK
<1>5. PromptTypeOK'
  BY <1>2, <1>4 DEF PromptInv, PromptTypeOK
<1>6. GateInv(c)'
  BY <1>2 DEF PromptInv, GateInv
<1>7. SentInv(c)'
  <2> SUFFICES ASSUME busy[c] = "checked", NEW i \in 1 .. Len(Append(chat[c], m)),
                      Append(chat[c], m)[i].how # "queued"
               PROVE  LET p == Append(chat[c], m)[i] IN
                      p.text \notin Dirty /\ (p.how = "gated" => p.files \cap Dirty = {})
    BY <1>2, <1>4 DEF SentInv
  <2>1. i # Len(chat[c]) + 1
    BY <1>1, <1>3, MessageJoins
  <2>2. i \in 1 .. Len(chat[c]) /\ Append(chat[c], m)[i] = chat[c][i]
    BY <1>1, <1>3, <2>1, MessageJoins
  <2>3. SentInv(c)
    BY DEF PromptInv
  <2>4. QED
    BY <2>2, <2>3 DEF SentInv
<1>8. ASSUME NEW d \in Chats \ {c} PROVE GateInv(d)' /\ SentInv(d)'
  <2>1. gate'[d] = gate[d] /\ chat'[d] = chat[d] /\ busy'[d] = busy[d]
    BY <1>2 DEF PromptInv, PromptTypeOK
  <2>2. QED
    BY <2>1, OthersKept DEF PromptInv
<1>9. QED
  BY <1>5, <1>6, <1>7, <1>8 DEF PromptInv

\* The chat is emptied while no hook asks for it: by Discard, and at the end of a turn.
LEMMA EmptiedKeeps ==
  ASSUME PromptInv, NEW c \in Chats, chat' = [chat EXCEPT ![c] = <<>>],
         gate[c].at = "idle", gate' = gate, armed' = armed, ledger' = ledger,
         busy' \in {busy, [busy EXCEPT ![c] = "no"]}
  PROVE  PromptInv'
<1>1. PromptTypeOK'
  <2>1. <<>> \in Seq(Message)
    OBVIOUS
  <2>2. chat' \in [Chats -> Seq(Message)]
    BY <2>1 DEF PromptInv, PromptTypeOK
  <2>3. busy' \in [Chats -> {"no", "checked", "disarmed", "unread"}]
    BY DEF PromptInv, PromptTypeOK
  <2>4. QED
    BY <2>2, <2>3 DEF PromptInv, PromptTypeOK
<1>2. chat'[c] = <<>>
  BY DEF PromptInv, PromptTypeOK
<1>3. GateInv(c)' /\ SentInv(c)'
  BY <1>2 DEF GateInv, SentInv
<1>4. ASSUME NEW d \in Chats \ {c} PROVE GateInv(d)' /\ SentInv(d)'
  <2>1. gate'[d] = gate[d] /\ chat'[d] = chat[d] /\ busy'[d] = busy[d]
    BY DEF PromptInv, PromptTypeOK
  <2>2. QED
    BY <2>1, OthersKept DEF PromptInv
<1>5. QED
  BY <1>1, <1>3, <1>4 DEF PromptInv

\* The end of a turn keeps PromptInv.
LEMMA TurnEndsKeeps ==
  ASSUME PromptInv, NEW c \in Chats, NEW extra \in Extras, TurnEnds(c, extra)
  PROVE  PromptInv'
<1>1. busy[c] # "no" /\ GateInv(c)
  BY DEF TurnEnds, PromptInv
<1>2. gate[c].at = "idle"
  BY <1>1 DEF GateInv
<1>3. /\ chat' = [chat EXCEPT ![c] = <<>>] /\ busy' = [busy EXCEPT ![c] = "no"]
      /\ gate' = gate /\ armed' = armed /\ ledger' = ledger
  BY DEF TurnEnds, ruleVars
<1>4. QED
  BY <1>2, <1>3, EmptiedKeeps

\* Whatever the rule recognises in a chat is, for a prompt under scan, still to be scanned,
\* in every state.
THEOREM PromptInvInductive == HooksSpec => []PromptInv
<1>1. HooksInit => PromptInv
  <2> SUFFICES ASSUME HooksInit PROVE PromptInv
    OBVIOUS
  <2>1. PromptTypeOK
    BY IdleIsGate DEF HooksInit, PromptTypeOK
  <2>2. ASSUME NEW c \in Chats PROVE GateInv(c) /\ SentInv(c)
    BY DEF HooksInit, GateInv, SentInv, Idle
  <2>3. QED
    BY <2>1, <2>2 DEF PromptInv
<1>2. ASSUME PromptInv, [HooksNext]_hooksVars
      PROVE  PromptInv'
  <2>1. CASE /\ UNCHANGED <<chat, busy, gate, ledger>>
             /\ armed' \in BOOLEAN
    <3>1. PromptTypeOK'
      BY <1>2, <2>1 DEF PromptInv, PromptTypeOK
    <3>2. ASSUME NEW d \in Chats PROVE GateInv(d)' /\ SentInv(d)'
      BY <1>2, <2>1, OthersKept DEF PromptInv
    <3>3. QED
      BY <3>1, <3>2 DEF PromptInv
  <2>2. armed \in BOOLEAN
    BY <1>2 DEF PromptInv, PromptTypeOK
  <2>3. ASSUME NEW c \in Chats, NEW t \in Texts, Submit(c, t) \/ Pass(c, t) \/ QueueMessage(c, t)
        PROVE  PromptInv'
    BY <1>2, <2>3, SubmitKeeps, PassKeeps, QueueKeeps
  <2>4. ASSUME NEW c \in Chats, Deny(c) \/ Approve(c) \/ Send(c)
        PROVE  PromptInv'
    BY <1>2, <2>4, DenyKeeps, ApproveKeeps, SendKeeps
  <2>5. ASSUME NEW c \in Chats, Discard(c)
        PROVE  PromptInv'
    <3>1. /\ chat' = [chat EXCEPT ![c] = <<>>] /\ gate[c].at = "idle"
          /\ busy' = busy /\ gate' = gate /\ armed' = armed /\ ledger' = ledger
      BY <2>5 DEF Discard, ruleVars
    <3>2. QED
      BY <1>2, <3>1, EmptiedKeeps
  <2>6. ASSUME NEW c \in Chats, NEW extra \in Extras, TurnEnds(c, extra)
        PROVE  PromptInv'
    BY <1>2, <2>6, TurnEndsKeeps
  <2>7. ASSUME NEW c \in Chats, Compact(c) \/ \E r \in Runs : StopHook(r, c)
        PROVE  PromptInv'
    BY <2>1, <2>2, <2>7 DEF Compact, StopHook, promptVars, ruleVars
  <2>8. ASSUME NEW r \in Runs, PostTurn(r) \/ PostFails(r) \/ Save(r) \/ Killed(r)
        PROVE  PromptInv'
    BY <2>1, <2>2, <2>8 DEF PostTurn, PostFails, Save, Killed, promptVars, ruleVars
  <2>9. CASE Flip
    BY <2>1, <2>2, <2>9 DEF Flip, promptVars
  <2>10. CASE UNCHANGED hooksVars
    BY <2>1, <2>2, <2>10 DEF hooksVars, promptVars, ruleVars
  <2>11. QED
    BY <1>2, <2>3, <2>4, <2>5, <2>6, <2>7, <2>8, <2>9, <2>10, Zenon DEF HooksNext
<1>3. QED
  BY <1>1, <1>2, PTL DEF HooksSpec

\* When a prompt passed scans that had the transcript and the rule enabled, there is nothing
\* that the rule recognises in the prompt, its files and the words of what goes out with it,
\* messages that skipped the hook excepted.
THEOREM PendingHeldBackHolds == HooksSpec => []PendingHeldBack
<1>1. PromptInv => PendingHeldBack
  <2> SUFFICES ASSUME PromptInv, NEW c \in Chats, busy[c] = "checked",
                      NEW m \in Range(chat[c])
               PROVE  /\ m.how # "queued" => m.text \notin Dirty
                      /\ m.how = "gated" => m.files \cap Dirty = {}
    BY DEF PendingHeldBack
  <2>1. chat[c] \in Seq(Message)
    BY DEF PromptInv, PromptTypeOK
  <2>2. PICK i \in 1 .. Len(chat[c]) : m = chat[c][i]
    BY <2>1 DEF Range
  <2>3. SentInv(c)
    BY DEF PromptInv
  <2>4. QED
    BY <2>2, <2>3 DEF SentInv
<1>2. QED
  BY <1>1, PromptInvInductive, PTL

-----------------------------------------------------------------------------
(* The ledger.                                                             *)

\* The ledger, and every copy of it that a hook is about to write, is short and holds only
\* what the hook let pass.
LedgerInv ==
  /\ allowed \subseteq Texts
  /\ Len(ledger) <= Approvals /\ Range(ledger) \subseteq allowed
  /\ \A c \in Chats : Len(gate[c].noted) <= Approvals /\ Range(gate[c].noted) \subseteq allowed

\* What Send writes is short, and holds only what was let pass, this prompt included.
LEMMA NotedIsAllowed ==
  ASSUME PromptTypeOK, LedgerInv, NEW c \in Chats, gate[c].text \in Texts
  PROVE  /\ Len(Noted(c)) <= Approvals
         /\ Range(Noted(c)) \subseteq allowed \cup {gate[c].text}
<1>1. gate[c].noted \in Seq(Texts) /\ Approvals \in Nat \ {0}
  BY GateFields, HookBoundAssumption
<1>2. Len(gate[c].noted) <= Approvals /\ Range(gate[c].noted) \subseteq allowed
  BY DEF LedgerInv
<1>3. CASE gate[c].text \in Range(gate[c].noted)
  BY <1>2, <1>3 DEF Noted
<1>4. CASE gate[c].text \notin Range(gate[c].noted)
  <2> DEFINE s == Append(gate[c].noted, gate[c].text)
  <2>1. s \in Seq(Texts) /\ Range(s) = Range(gate[c].noted) \cup {gate[c].text}
    BY <1>1, AppendRange
  <2>2. Noted(c) = Newest(s, Approvals)
    BY <1>4 DEF Noted
  <2> HIDE DEF s
  <2>3. Len(Newest(s, Approvals)) <= Approvals /\ Range(Newest(s, Approvals)) \subseteq Range(s)
    BY <1>1, <2>1, NewestKeeps
  <2>4. QED
    BY <1>2, <2>1, <2>2, <2>3
<1>5. QED
  BY <1>3, <1>4

\* A gate with an empty copy of the ledger.
LEMMA IdleNotes == Idle.noted = <<>> /\ Len(<<>>) = 0 /\ Range(<<>>) = {}
BY DEF Idle, Range

\* LedgerInv holds in every state.
LEMMA LedgerInvInductive == HooksSpec => []LedgerInv
<1>0. Approvals \in Nat
  BY HookBoundAssumption
<1>1. HooksInit => LedgerInv
  BY <1>0, IdleNotes DEF HooksInit, LedgerInv
<1>2. ASSUME PromptInv, LedgerInv, [HooksNext]_hooksVars
      PROVE  LedgerInv'
  <2>0. gate \in [Chats -> Gate] /\ PromptTypeOK
    BY <1>2 DEF PromptInv, PromptTypeOK
  <2>1. ASSUME NEW c \in Chats, NEW t \in Texts, Submit(c, t)
        PROVE  LedgerInv'
    <3>1. PICK files \in Resolved(t), read \in BOOLEAN :
            gate' = [gate EXCEPT ![c] =
              [Idle EXCEPT !.at = "asking", !.text = t, !.files = files, !.read = read,
                           !.todo = {t} \cup files \cup IF read THEN Pending(c, t) ELSE {}]]
      BY <2>1 DEF Submit
    <3>2. gate'[c].noted = <<>> /\ \A d \in Chats \ {c} : gate'[d] = gate[d]
      BY <2>0, <3>1 DEF Idle
    <3>3. ledger' = ledger /\ allowed' = allowed
      BY <2>1 DEF Submit
    <3>4. QED
      BY <1>0, <1>2, <3>2, <3>3, IdleNotes DEF LedgerInv
  <2>2. ASSUME NEW c \in Chats, Deny(c)
        PROVE  LedgerInv'
    <3>1. gate'[c] = Idle /\ \A d \in Chats \ {c} : gate'[d] = gate[d]
      BY <2>0, <2>2 DEF Deny
    <3>2. ledger' = ledger /\ allowed' = allowed
      BY <2>2 DEF Deny
    <3>3. QED
      BY <1>0, <1>2, <3>1, <3>2, IdleNotes DEF LedgerInv
  <2>3. ASSUME NEW c \in Chats, NEW t \in Texts, Pass(c, t)
        PROVE  LedgerInv'
    <3>1. gate' = [gate EXCEPT ![c].todo = @ \ {t}, ![c].scanned = @ /\ armed]
      BY <2>3 DEF Pass
    <3>2. \A d \in Chats : gate'[d].noted = gate[d].noted
      BY <2>0, <3>1 DEF Gate
    <3>3. ledger' = ledger /\ allowed' = allowed
      BY <2>3 DEF Pass
    <3>4. QED
      BY <1>2, <3>2, <3>3 DEF LedgerInv
  <2>4. ASSUME NEW c \in Chats, Approve(c)
        PROVE  LedgerInv'
    <3>1. PICK noted \in {ledger} \cup {<<>> : d \in {d \in Chats : gate[d].at = "noting"}} :
            gate' = [gate EXCEPT ![c].at = "noting", ![c].noted = noted]
      BY <2>4 DEF Approve
    <3>2. gate'[c].noted = noted /\ \A d \in Chats \ {c} : gate'[d] = gate[d]
      BY <2>0, <3>1 DEF Gate
    <3>3. ledger' = ledger /\ allowed' = allowed
      BY <2>4 DEF Approve
    <3>4. Len(noted) <= Approvals /\ Range(noted) \subseteq allowed
      BY <1>0, <1>2, IdleNotes DEF LedgerInv
    <3>5. QED
      BY <1>2, <3>2, <3>3, <3>4 DEF LedgerInv
  <2>5. ASSUME NEW c \in Chats, Send(c)
        PROVE  LedgerInv'
    <3>1. gate[c].text \in Texts
      BY <1>2, <2>5 DEF Send, PromptInv, GateInv
    <3>2. ledger' \in {ledger, Noted(c)} /\ allowed' = allowed \cup {gate[c].text}
      BY <2>5 DEF Send
    <3>3. Len(ledger') <= Approvals /\ Range(ledger') \subseteq allowed'
      BY <1>2, <2>0, <3>1, <3>2, NotedIsAllowed DEF LedgerInv
    <3>4. gate'[c] = Idle /\ \A d \in Chats \ {c} : gate'[d] = gate[d]
      BY <2>0, <2>5 DEF Send
    <3>5. QED
      BY <1>0, <1>2, <3>1, <3>2, <3>3, <3>4, IdleNotes DEF LedgerInv
  <2>6. CASE UNCHANGED <<gate, ledger, allowed>>
    BY <1>2, <2>6 DEF LedgerInv
  <2>7. ASSUME NEW c \in Chats,
               (\E t \in Texts : QueueMessage(c, t)) \/ Discard(c)
               \/ (\E extra \in Extras : TurnEnds(c, extra)) \/ Compact(c)
               \/ \E r \in Runs : StopHook(r, c)
        PROVE  LedgerInv'
    BY <2>6, <2>7 DEF QueueMessage, Discard, TurnEnds, Compact, StopHook, promptVars
  <2>8. ASSUME NEW r \in Runs, PostTurn(r) \/ PostFails(r) \/ Save(r) \/ Killed(r)
        PROVE  LedgerInv'
    BY <2>6, <2>8 DEF PostTurn, PostFails, Save, Killed, promptVars
  <2>9. CASE Flip \/ UNCHANGED hooksVars
    BY <2>6, <2>9 DEF Flip, hooksVars, promptVars
  <2>10. QED
    BY <1>2, <2>1, <2>2, <2>3, <2>4, <2>5, <2>7, <2>8, <2>9, Zenon DEF HooksNext
<1>3. QED
  BY <1>1, <1>2, PromptInvInductive, PTL DEF HooksSpec

-----------------------------------------------------------------------------
(* The turns, the state file, the runs and the rows.                       *)

Row == [turn : Nat, blind : BOOLEAN, armed : BOOLEAN, unchecked : BOOLEAN, alarm : BOOLEAN]

\* The turns a transcript, a run or a row names exist.
TurnsTypeOK ==
  /\ made \in Seq(Turn) /\ Len(made) <= MaxTurns
  /\ shown \in [Chats -> Seq(Nat)]
  /\ \A c \in Chats : \A i \in 1 .. Len(shown[c]) : shown[c][i] \in 1 .. Len(made)

LogTypeOK ==
  /\ disturbed \in BOOLEAN /\ typed \in Nat /\ flips \in Nat
  /\ state \in [Chats -> Record] /\ \A c \in Chats : Len(state[c].logged) <= MaxHashes
  /\ run \in [Runs -> Run]
  /\ \A r \in Runs :
       /\ \A i \in 1 .. Len(run[r].turns) : run[r].turns[i] \in 1 .. Len(made)
       /\ \A c \in Chats : Len(run[r].file[c].logged) <= MaxHashes
  /\ rows \in Seq(Row) /\ \A i \in 1 .. Len(rows) : rows[i].turn \in 1 .. Len(made)

HashesInv == TurnsTypeOK /\ LogTypeOK

\* A chat without a record in the state file has an empty one.
LEMMA NoRecordIsRecord == NoRecord \in Record /\ NoRecord.logged = <<>> /\ NoRecord.count = 0
BY DEF NoRecord, Record

\* The fields of a run, and their types.
LEMMA RunFields ==
  ASSUME NEW k \in Run
  PROVE  /\ k.at \in {"unused", "posting", "failed", "over"} /\ k.chat \in Chats
         /\ k.file \in [Chats -> Record] /\ k.turns \in Seq(Nat) /\ k.approved \in SUBSET Texts
         /\ k.presumed \in Nat /\ k.known \in Seq(Hash) /\ k.clean \in BOOLEAN
BY DEF Run

\* A run that has not begun is one.
LEMMA UnrunIsRun ==
  ASSUME NEW c \in Chats
  PROVE  Unrun(c) \in Run
<1>1. [d \in Chats |-> NoRecord] \in [Chats -> Record]
  BY NoRecordIsRecord
<1>2. QED
  BY <1>1 DEF Unrun, Run

\* What is left of a run.
LEMMA OverIsRun ==
  ASSUME NEW r \in Runs, run[r] \in Run, NEW clean \in BOOLEAN
  PROVE  /\ Over(r, clean) \in Run
         /\ Over(r, clean).at = "over" /\ Over(r, clean).clean = clean
         /\ Over(r, clean).turns = run[r].turns /\ Over(r, clean).presumed = run[r].presumed
         /\ Over(r, clean).known = <<>> /\ Over(r, clean).approved = {}
         /\ Over(r, clean).file = [d \in Chats |-> NoRecord]
         /\ Over(r, clean).chat = run[r].chat
<1> DEFINE k == run[r]
           u == Unrun(k.chat)
<1>1. k.chat \in Chats /\ k.turns \in Seq(Nat) /\ k.presumed \in Nat
  BY RunFields
<1>2. u \in Run
  BY <1>1, UnrunIsRun
<1>3. /\ u.known = <<>> /\ u.approved = {} /\ u.file = [d \in Chats |-> NoRecord]
      /\ u.chat = k.chat
  BY DEF Unrun
<1>4. Over(r, clean) = [u EXCEPT !.at = "over", !.turns = k.turns, !.presumed = k.presumed,
                                 !.clean = clean]
  BY DEF Over
<1> HIDE DEF k, u
<1>5. QED
  BY <1>1, <1>2, <1>3, <1>4 DEF Run, k

\* The hash of a turn.
LEMMA HashIsHash ==
  ASSUME TurnsTypeOK, NEW n \in 1 .. Len(made)
  PROVE  HashOf(n) \in Hash /\ n \in Nat
<1>1. made[n] \in Turn /\ Len(made) \in Nat
  BY DEF TurnsTypeOK
<1>2. made[n].prompt \in Seq(Texts)
  BY <1>1 DEF Turn
<1>3. n \in 1 .. MaxTurns
  BY <1>1, HookBoundAssumption DEF TurnsTypeOK
<1>4. ReplyOf[n] \in Texts
  BY <1>3, HookTextAssumption
<1>5. QED
  BY <1>2, <1>3, <1>4 DEF HashOf, Hash

\* What /log-turn files.
LEMMA RowIsRow ==
  ASSUME NEW r \in Runs, NEW n \in Nat, armed \in BOOLEAN
  PROVE  RowOf(r, n) \in Row /\ RowOf(r, n).turn = n
<1> DEFINE t == made[n]
           unchecked == run[r].approved # {} /\ ~ (Range(t.prompt) \subseteq run[r].approved)
           pii == Found(Range(t.prompt) \cup {t.extra, ReplyOf[n]})
           row == [turn |-> n, blind |-> run[r].approved = {}, armed |-> armed,
                   unchecked |-> unchecked \/ Found({t.extra}),
                   alarm |-> (unchecked \/ t.extra # NoText) /\ pii]
<1>1. RowOf(r, n) = row
  BY DEF RowOf
<1>2. row \in Row /\ row.turn = n
  BY DEF Row
<1>3. QED
  BY <1>1, <1>2

\* The next turn that a run files is one of its transcript, and it does not know it as filed.
LEMMA NextTurnIsUnfiled ==
  ASSUME LogTypeOK, NEW r \in Runs, Unfiled(r) # {}
  PROVE  /\ \E i \in 1 .. Len(run[r].turns) : NextTurn(r) = run[r].turns[i]
         /\ NextTurn(r) \in 1 .. Len(made)
         /\ HashOf(NextTurn(r)) \notin Range(run[r].known)
<1>1. run[r].turns \in Seq(Nat)
  BY RunFields DEF LogTypeOK
<1>2. Unfiled(r) \subseteq 1 .. Len(run[r].turns) /\ Unfiled(r) \subseteq Nat
  BY <1>1 DEF Unfiled
<1>3. \E i \in Unfiled(r) : \A j \in Unfiled(r) : i <= j
  BY <1>2, LeastNumber
<1> DEFINE i == CHOOSE i \in Unfiled(r) : \A j \in Unfiled(r) : i <= j
<1>4. i \in Unfiled(r)
  BY <1>3
<1>5. NextTurn(r) = run[r].turns[i]
  BY DEF NextTurn
<1> HIDE DEF i
<1>6. i \in 1 .. Len(run[r].turns) /\ run[r].turns[i] \in 1 .. Len(made)
  BY <1>2, <1>4 DEF LogTypeOK
<1>7. QED
  BY <1>4, <1>5, <1>6 DEF Unfiled

\* A turn that ends joins the turns, and those that were made keep their hashes.
LEMMA TurnJoins ==
  ASSUME HashesInv, PromptTypeOK, NEW c \in Chats, NEW extra \in Extras, TurnEnds(c, extra)
  PROVE  /\ made' \in Seq(Turn) /\ Len(made') = Len(made) + 1 /\ Len(made) \in Nat
         /\ Len(made') <= MaxTurns
         /\ \A n \in 1 .. Len(made) : made'[n] = made[n] /\ HashOf(n)' = HashOf(n)
         /\ made'[Len(made) + 1].chat = c
         /\ shown' = [shown EXCEPT ![c] = Append(shown[c], Len(made) + 1)]
<1> DEFINE prompt == [i \in DOMAIN chat[c] |-> chat[c][i].text]
           t == [chat |-> c, extra |-> extra, prompt |-> prompt]
<1>1. made' = Append(made, t) /\ Len(made) < MaxTurns
  BY DEF TurnEnds
<1>2. shown' = [shown EXCEPT ![c] = Append(shown[c], Len(made) + 1)]
  BY DEF TurnEnds
<1>3. chat[c] \in Seq(Message)
  BY DEF PromptTypeOK
<1>4. prompt \in Seq(Texts)
  <2>1. \A i \in DOMAIN chat[c] : chat[c][i].text \in Texts
    <3>1. \A i \in DOMAIN chat[c] : chat[c][i] \in Message
      BY <1>3
    <3>2. QED
      BY <3>1 DEF Message
  <2>2. QED
    BY <1>3, <2>1
<1> HIDE DEF prompt
<1>5. t \in Turn /\ t.chat = c
  BY <1>4 DEF Turn
<1> HIDE DEF t
<1>6. /\ made' \in Seq(Turn) /\ Len(made') = Len(made) + 1 /\ Len(made) \in Nat
      /\ \A n \in 1 .. Len(made) : made'[n] = made[n]
      /\ made'[Len(made) + 1] = t
  BY <1>1, <1>5 DEF HashesInv, TurnsTypeOK
<1>7. \A n \in 1 .. Len(made) : HashOf(n)' = HashOf(n)
  BY <1>6 DEF HashOf
<1>8. Len(made') <= MaxTurns
  BY <1>1, <1>6, HookBoundAssumption
<1>9. QED
  BY <1>2, <1>5, <1>6, <1>7, <1>8

\* What a transcript shows after a turn, and after a compaction.
LEMMA ShownAfterTurn ==
  ASSUME TurnsTypeOK, NEW c \in Chats,
         shown' = [shown EXCEPT ![c] = Append(shown[c], Len(made) + 1)]
  PROVE  /\ shown' \in [Chats -> Seq(Nat)]
         /\ \A d \in Chats \ {c} : shown'[d] = shown[d]
         /\ Len(shown'[c]) = Len(shown[c]) + 1 /\ Len(shown[c]) \in Nat
         /\ \A i \in 1 .. Len(shown[c]) : shown'[c][i] = shown[c][i]
         /\ shown'[c][Len(shown[c]) + 1] = Len(made) + 1
<1>1. shown[c] \in Seq(Nat) /\ Len(made) + 1 \in Nat
  BY DEF TurnsTypeOK
<1> DEFINE s == Append(shown[c], Len(made) + 1)
<1>2. /\ s \in Seq(Nat) /\ Len(s) = Len(shown[c]) + 1 /\ Len(shown[c]) \in Nat
      /\ \A i \in 1 .. Len(shown[c]) : s[i] = shown[c][i]
      /\ s[Len(shown[c]) + 1] = Len(made) + 1
  BY <1>1
<1> HIDE DEF s
<1>3. shown' = [shown EXCEPT ![c] = s]
  BY DEF s
<1>4. shown' \in [Chats -> Seq(Nat)] /\ shown'[c] = s /\ \A d \in Chats \ {c} : shown'[d] = shown[d]
  BY <1>2, <1>3 DEF TurnsTypeOK
<1>5. QED
  BY <1>2, <1>4

\* A transcript that is compacted loses its first turn.
LEMMA ShownAfterCompact ==
  ASSUME TurnsTypeOK, NEW c \in Chats, Compact(c)
  PROVE  /\ shown' \in [Chats -> Seq(Nat)]
         /\ \A d \in Chats \ {c} : shown'[d] = shown[d]
         /\ Len(shown'[c]) = Len(shown[c]) - 1 /\ Len(shown[c]) \in Nat
         /\ \A i \in 1 .. Len(shown'[c]) : shown'[c][i] = shown[c][i + 1] /\ i + 1 \in 1 .. Len(shown[c])
<1>1. shown[c] \in Seq(Nat) /\ Len(shown[c]) > 1
  BY DEF TurnsTypeOK, Compact
<1>2. shown[c] # <<>>
  BY <1>1
<1> DEFINE s == Tail(shown[c])
<1>3. /\ s \in Seq(Nat) /\ Len(s) = Len(shown[c]) - 1 /\ Len(shown[c]) \in Nat
      /\ \A i \in 1 .. Len(s) : s[i] = shown[c][i + 1]
  BY <1>1, <1>2, HeadTailProperties
<1> HIDE DEF s
<1>4. shown' = [shown EXCEPT ![c] = s]
  BY DEF Compact, s
<1>5. shown' \in [Chats -> Seq(Nat)] /\ shown'[c] = s /\ \A d \in Chats \ {c} : shown'[d] = shown[d]
  BY <1>3, <1>4 DEF TurnsTypeOK
<1>6. QED
  BY <1>3, <1>5

\* How many turns a counter stands for: none if there was none, and never the newest.
LEMMA PresumedBound ==
  ASSUME NEW count \in Nat, NEW turns \in Seq(Nat), turns # <<>>
  PROVE  /\ Presumed(count, turns) \in Nat /\ Presumed(count, turns) < Len(turns)
         /\ count = 0 => Presumed(count, turns) = 0
<1>1. Len(turns) \in Nat \ {0}
  BY EmptySeq
<1>2. QED
  BY <1>1 DEF Presumed

\* A run that starts.
LEMMA RunStarts ==
  ASSUME HashesInv, PromptTypeOK, NEW r \in Runs, NEW c \in Chats, StopHook(r, c)
  PROVE  \E file \in [Chats -> Record], approved \in {Range(ledger), {}}, presumed \in Nat,
            old \in Seq(Hash) :
           /\ file = state \/ (file = [d \in Chats |-> NoRecord] /\ Under({"posting", "failed"}) # {})
           /\ presumed = Presumed(file[c].count, shown[c])
           /\ old = [i \in 1..presumed |-> HashOf(shown[c][i])]
           /\ shown[c] \in Seq(Nat) /\ shown[c] # <<>>
           /\ run[r].at = "unused"
           /\ run' \in [Runs -> Run] /\ \A q \in Runs \ {r} : run'[q] = run[q]
           /\ run'[r] = [at |-> "posting", chat |-> c, file |-> file, turns |-> shown[c],
                         approved |-> approved, presumed |-> presumed,
                         known |-> file[c].logged \o old, clean |-> FALSE]
<1>1. PICK file \in {state} \cup {[d \in Chats |-> NoRecord] : q \in Under({"posting", "failed"})},
           approved \in {Range(ledger)} \cup {{} : d \in {d \in Chats : gate[d].at = "noting"}} :
        LET presumed == Presumed(file[c].count, shown[c]) IN
        run' = [run EXCEPT ![r] =
          [at |-> "posting", chat |-> c, file |-> file, turns |-> shown[c], approved |-> approved,
           presumed |-> presumed,
           known |-> file[c].logged \o [i \in 1..presumed |-> HashOf(shown[c][i])],
           clean |-> FALSE]]
  BY DEF StopHook
<1> DEFINE presumed == Presumed(file[c].count, shown[c])
           old == [i \in 1..presumed |-> HashOf(shown[c][i])]
           k == [at |-> "posting", chat |-> c, file |-> file, turns |-> shown[c],
                 approved |-> approved, presumed |-> presumed, known |-> file[c].logged \o old,
                 clean |-> FALSE]
<1>2. run' = [run EXCEPT ![r] = k]
  BY <1>1
<1>3. file \in [Chats -> Record]
  BY NoRecordIsRecord DEF HashesInv, LogTypeOK
<1>4. approved \in SUBSET Texts /\ approved \in {Range(ledger), {}}
  BY DEF PromptTypeOK, Range
<1>5. shown[c] \in Seq(Nat) /\ shown[c] # <<>> /\ run[r].at = "unused"
  BY DEF StopHook, HashesInv, TurnsTypeOK
<1>6. file[c].count \in Nat /\ file[c].logged \in Seq(Hash)
  BY <1>3 DEF Record
<1>7. presumed \in Nat /\ presumed < Len(shown[c])
  BY <1>5, <1>6, PresumedBound
<1> HIDE DEF presumed
<1>8. old \in Seq(Hash)
  <2>1. ASSUME NEW i \in 1 .. presumed PROVE HashOf(shown[c][i]) \in Hash
    <3>1. i \in 1 .. Len(shown[c])
      BY <1>5, <1>7
    <3>2. QED
      BY <3>1, HashIsHash DEF HashesInv, TurnsTypeOK
  <2>2. QED
    BY <1>7, <2>1
<1> HIDE DEF old
<1>9. file[c].logged \o old \in Seq(Hash)
  BY <1>6, <1>8
<1>10. k \in Run
  BY <1>3, <1>4, <1>5, <1>7, <1>9 DEF Run
<1> HIDE DEF k
<1>11. run' \in [Runs -> Run] /\ run'[r] = k /\ \A q \in Runs \ {r} : run'[q] = run[q]
  BY <1>2, <1>10 DEF HashesInv, LogTypeOK
<1>12. file = state \/ (file = [d \in Chats |-> NoRecord] /\ Under({"posting", "failed"}) # {})
  <2>1. CASE file # state
    <3>1. PICK q \in Under({"posting", "failed"}) : file = [d \in Chats |-> NoRecord]
      BY <2>1
    <3>2. QED
      BY <3>1
  <2>2. QED
    BY <2>1
<1>13. presumed = Presumed(file[c].count, shown[c])
  BY DEF presumed
<1>14. old = [i \in 1..presumed |-> HashOf(shown[c][i])]
  BY DEF old
<1>15. k = [at |-> "posting", chat |-> c, file |-> file, turns |-> shown[c],
            approved |-> approved, presumed |-> presumed, known |-> file[c].logged \o old,
            clean |-> FALSE]
  BY DEF k
<1>16. QED
  <2> USE <1>3, <1>4, <1>7, <1>8
  <2> WITNESS file \in [Chats -> Record], approved \in {Range(ledger), {}}, presumed \in Nat,
              old \in Seq(Hash)
  <2>1. run' \in [Runs -> Run] /\ run'[r] = k /\ \A q \in Runs \ {r} : run'[q] = run[q]
    BY <1>11
  <2>2. QED
    BY <1>5, <1>12, <1>13, <1>14, <1>15, <2>1, Zenon

\* A run that goes on.
LEMMA RunFilesTurn ==
  ASSUME HashesInv, NEW r \in Runs, Unfiled(r) # {},
         run' = [run EXCEPT ![r].known = Append(@, HashOf(NextTurn(r)))]
  PROVE  /\ run' \in [Runs -> Run] /\ \A q \in Runs \ {r} : run'[q] = run[q]
         /\ run'[r].known = Append(run[r].known, HashOf(NextTurn(r)))
         /\ run'[r].at = run[r].at /\ run'[r].chat = run[r].chat /\ run'[r].file = run[r].file
         /\ run'[r].turns = run[r].turns /\ run'[r].approved = run[r].approved
         /\ run'[r].presumed = run[r].presumed /\ run'[r].clean = run[r].clean
<1> DEFINE known == Append(run[r].known, HashOf(NextTurn(r)))
           new == [run[r] EXCEPT !.known = known]
<1>1. run[r] \in Run
  BY DEF HashesInv, LogTypeOK
<1>2. known \in Seq(Hash)
  <2>1. run[r].known \in Seq(Hash)
    BY <1>1, RunFields
  <2>2. HashOf(NextTurn(r)) \in Hash
    BY NextTurnIsUnfiled, HashIsHash DEF HashesInv
  <2>3. QED
    BY <2>1, <2>2
<1>3. run' = [run EXCEPT ![r] = new]
  OBVIOUS
<1> HIDE DEF known
<1>4. /\ new \in Run /\ new.known = known /\ new.at = run[r].at /\ new.chat = run[r].chat
      /\ new.file = run[r].file /\ new.turns = run[r].turns /\ new.approved = run[r].approved
      /\ new.presumed = run[r].presumed /\ new.clean = run[r].clean
  BY <1>1, <1>2 DEF Run
<1> HIDE DEF new
<1>5. run' \in [Runs -> Run] /\ run'[r] = new /\ \A q \in Runs \ {r} : run'[q] = run[q]
  BY <1>3, <1>4 DEF HashesInv, LogTypeOK
<1>6. QED
  BY <1>4, <1>5 DEF known

\* A run whose post failed keeps everything but its place.
LEMMA RunFails ==
  ASSUME HashesInv, NEW r \in Runs, run' = [run EXCEPT ![r].at = "failed"]
  PROVE  /\ run' \in [Runs -> Run] /\ \A q \in Runs \ {r} : run'[q] = run[q]
         /\ run'[r].at = "failed" /\ run'[r].known = run[r].known
         /\ run'[r].chat = run[r].chat /\ run'[r].file = run[r].file
         /\ run'[r].turns = run[r].turns /\ run'[r].approved = run[r].approved
         /\ run'[r].presumed = run[r].presumed /\ run'[r].clean = run[r].clean
<1> DEFINE new == [run[r] EXCEPT !.at = "failed"]
<1>1. run[r] \in Run
  BY DEF HashesInv, LogTypeOK
<1>2. /\ new \in Run /\ new.known = run[r].known /\ new.at = "failed" /\ new.chat = run[r].chat
      /\ new.file = run[r].file /\ new.turns = run[r].turns /\ new.approved = run[r].approved
      /\ new.presumed = run[r].presumed /\ new.clean = run[r].clean
  BY <1>1 DEF Run
<1>3. run' = [run EXCEPT ![r] = new]
  OBVIOUS
<1> HIDE DEF new
<1>4. run' \in [Runs -> Run] /\ run'[r] = new /\ \A q \in Runs \ {r} : run'[q] = run[q]
  BY <1>2, <1>3 DEF HashesInv, LogTypeOK
<1>5. QED
  BY <1>2, <1>4

\* A run that ends.
LEMMA RunEnds ==
  ASSUME HashesInv, NEW r \in Runs, NEW clean \in BOOLEAN,
         run' = [run EXCEPT ![r] = Over(r, clean)]
  PROVE  /\ run' \in [Runs -> Run] /\ \A q \in Runs \ {r} : run'[q] = run[q]
         /\ run'[r].at = "over" /\ run'[r].clean = clean /\ run'[r].known = <<>>
         /\ run'[r].file = [d \in Chats |-> NoRecord] /\ run'[r].approved = {}
         /\ run'[r].turns = run[r].turns /\ run'[r].presumed = run[r].presumed
         /\ run'[r].chat = run[r].chat
<1>1. run[r] \in Run
  BY DEF HashesInv, LogTypeOK
<1>2. Over(r, clean) \in Run
  BY <1>1, OverIsRun
<1>3. run' \in [Runs -> Run] /\ run'[r] = Over(r, clean) /\ \A q \in Runs \ {r} : run'[q] = run[q]
  BY <1>2 DEF HashesInv, LogTypeOK
<1>4. QED
  BY <1>1, <1>3, OverIsRun

\* The rows, when a turn is filed.
LEMMA RowJoins ==
  ASSUME HashesInv, armed \in BOOLEAN, NEW r \in Runs, Unfiled(r) # {},
         rows' = Append(rows, RowOf(r, NextTurn(r)))
  PROVE  /\ rows' \in Seq(Row) /\ Len(rows') = Len(rows) + 1 /\ Len(rows) \in Nat
         /\ \A i \in 1 .. Len(rows) : rows'[i] = rows[i]
         /\ rows'[Len(rows) + 1] = RowOf(r, NextTurn(r))
         /\ rows'[Len(rows) + 1].turn = NextTurn(r)
<1>1. NextTurn(r) \in Nat
  BY NextTurnIsUnfiled, HashIsHash DEF HashesInv
<1>2. RowOf(r, NextTurn(r)) \in Row /\ RowOf(r, NextTurn(r)).turn = NextTurn(r)
  BY <1>1, RowIsRow
<1>3. rows \in Seq(Row)
  BY DEF HashesInv, LogTypeOK
<1>4. QED
  BY <1>2, <1>3

\* If no turn is lost, what the log names still exists.
LEMMA LogNamesTurns ==
  ASSUME HashesInv, made' \in Seq(Turn), Len(made') \in Nat, Len(made) <= Len(made'),
         Len(made') <= MaxTurns,
         UNCHANGED <<state, run, rows, disturbed>>, typed' \in Nat, flips' \in Nat
  PROVE  LogTypeOK'
<1>1. 1 .. Len(made) \subseteq 1 .. Len(made')
  BY DEF HashesInv, TurnsTypeOK
<1>2. QED
  BY <1>1 DEF HashesInv, LogTypeOK

\* HashesInv holds in every state.
LEMMA HashesInvInductive == HooksSpec => []HashesInv
<1>1. HooksInit => HashesInv
  <2> SUFFICES ASSUME HooksInit PROVE HashesInv
    OBVIOUS
  <2>1. TurnsTypeOK
    BY HookBoundAssumption DEF HooksInit, TurnsTypeOK
  <2>2. state \in [Chats -> Record] /\ \A c \in Chats : Len(state[c].logged) <= MaxHashes
    <3>1. ASSUME NEW n \in Counts
          PROVE  /\ [NoRecord EXCEPT !.count = n] \in Record
                 /\ [NoRecord EXCEPT !.count = n].logged = <<>>
      <4>1. n \in Nat
        BY HookBoundAssumption
      <4>2. [NoRecord EXCEPT !.count = n] = [count |-> n, logged |-> <<>>]
        BY DEF NoRecord
      <4>3. <<>> \in Seq(Hash)
        OBVIOUS
      <4>4. QED
        BY <4>1, <4>2, <4>3 DEF Record
    <3>2. state \in [Chats -> {[NoRecord EXCEPT !.count = n] : n \in Counts}]
      BY DEF HooksInit
    <3>3. ASSUME NEW c \in Chats PROVE state[c] \in Record /\ state[c].logged = <<>>
      <4>1. PICK n \in Counts : state[c] = [NoRecord EXCEPT !.count = n]
        BY <3>2
      <4>2. QED
        BY <3>1, <4>1
    <3>4. state = [c \in Chats |-> state[c]]
      BY <3>2
    <3>5. Len(<<>>) <= MaxHashes
      BY HookBoundAssumption
    <3>6. QED
      BY <3>3, <3>4, <3>5
  <2>3. /\ run \in [Runs -> Run]
        /\ \A r \in Runs : run[r].turns = <<>> /\ run[r].file = [d \in Chats |-> NoRecord]
    <3>1. (CHOOSE c \in Chats : TRUE) \in Chats
      BY HookTextAssumption
    <3>2. Unrun(CHOOSE c \in Chats : TRUE) \in Run
      BY <3>1, UnrunIsRun
    <3>3. /\ Unrun(CHOOSE c \in Chats : TRUE).turns = <<>>
          /\ Unrun(CHOOSE c \in Chats : TRUE).file = [d \in Chats |-> NoRecord]
      BY DEF Unrun
    <3>4. QED
      BY <3>2, <3>3 DEF HooksInit
  <2>4. LogTypeOK
    <3>1. \A c \in Chats : Len([d \in Chats |-> NoRecord][c].logged) <= MaxHashes
      BY NoRecordIsRecord, HookBoundAssumption
    <3>2. disturbed \in BOOLEAN /\ typed \in Nat /\ flips \in Nat /\ rows = <<>>
      BY DEF HooksInit
    <3>3. rows \in Seq(Row) /\ \A i \in 1 .. Len(rows) : rows[i].turn \in 1 .. Len(made)
      BY <3>2
    <3>4. QED
      BY <2>2, <2>3, <3>1, <3>2, <3>3 DEF LogTypeOK
  <2>5. QED
    BY <2>1, <2>4 DEF HashesInv
<1>2. ASSUME PromptInv, HashesInv, [HooksNext]_hooksVars
      PROVE  HashesInv'
  <2>0. PromptTypeOK /\ armed \in BOOLEAN /\ Len(made) \in Nat
    BY <1>2 DEF PromptInv, PromptTypeOK, HashesInv, TurnsTypeOK
  <2>18. \A c \in Chats : Len([d \in Chats |-> NoRecord][c].logged) <= MaxHashes
    BY NoRecordIsRecord, HookBoundAssumption
  <2>1. CASE UNCHANGED <<turnVars, logVars>> /\ typed' \in Nat /\ flips' \in Nat
    BY <1>2, <2>1 DEF HashesInv, TurnsTypeOK, LogTypeOK, turnVars, logVars
  <2>2. typed + 1 \in Nat /\ flips + 1 \in Nat /\ typed \in Nat /\ flips \in Nat
    BY <1>2 DEF HashesInv, LogTypeOK
  <2>3. ASSUME NEW c \in Chats, NEW t \in Texts, Submit(c, t) \/ Pass(c, t) \/ QueueMessage(c, t)
        PROVE  HashesInv'
    BY <2>1, <2>2, <2>3 DEF Submit, Pass, QueueMessage, ruleVars
  <2>4. ASSUME NEW c \in Chats, Deny(c) \/ Approve(c) \/ Send(c) \/ Discard(c)
        PROVE  HashesInv'
    BY <2>1, <2>2, <2>4 DEF Deny, Approve, Send, Discard, ruleVars
  <2>5. CASE Flip \/ UNCHANGED hooksVars
    BY <2>1, <2>2, <2>5 DEF Flip, hooksVars, promptVars, ruleVars
  <2>6. ASSUME NEW c \in Chats, NEW extra \in Extras, TurnEnds(c, extra)
        PROVE  HashesInv'
    <3>1. /\ made' \in Seq(Turn) /\ Len(made') = Len(made) + 1 /\ Len(made') <= MaxTurns
          /\ shown' = [shown EXCEPT ![c] = Append(shown[c], Len(made) + 1)]
      BY <1>2, <2>0, <2>6, TurnJoins
    <3>2. LogTypeOK'
      BY <1>2, <2>0, <2>2, <2>6, <3>1, LogNamesTurns DEF TurnEnds, logVars, ruleVars
    <3>3. /\ shown' \in [Chats -> Seq(Nat)]
          /\ \A d \in Chats \ {c} : shown'[d] = shown[d]
          /\ Len(shown'[c]) = Len(shown[c]) + 1 /\ Len(shown[c]) \in Nat
          /\ \A i \in 1 .. Len(shown[c]) : shown'[c][i] = shown[c][i]
          /\ shown'[c][Len(shown[c]) + 1] = Len(made) + 1
      BY <1>2, <3>1, ShownAfterTurn DEF HashesInv
    <3>4. ASSUME NEW d \in Chats, NEW i \in 1 .. Len(shown'[d])
          PROVE  shown'[d][i] \in 1 .. Len(made')
      <4>1. \A j \in 1 .. Len(shown[d]) : shown[d][j] \in 1 .. Len(made')
        BY <1>2, <2>0, <3>1 DEF HashesInv, TurnsTypeOK
      <4>2. CASE d # c
        BY <3>3, <4>1, <4>2
      <4>3. CASE d = c /\ i = Len(shown[c]) + 1
        BY <2>0, <3>1, <3>3, <4>3
      <4>4. CASE d = c /\ i # Len(shown[c]) + 1
        <5>1. i \in 1 .. Len(shown[c])
          BY <3>3, <4>4
        <5>2. QED
          BY <3>3, <4>1, <4>4, <5>1
      <4>5. QED
        BY <4>2, <4>3, <4>4
    <3>5. QED
      BY <3>1, <3>2, <3>3, <3>4 DEF HashesInv, TurnsTypeOK
  <2>7. ASSUME NEW c \in Chats, Compact(c)
        PROVE  HashesInv'
    <3>1. made' = made /\ UNCHANGED <<logVars, typed, flips>>
      BY <2>7 DEF Compact, promptVars, ruleVars
    <3>2. LogTypeOK'
      BY <1>2, <3>1 DEF HashesInv, LogTypeOK, logVars
    <3>3. /\ shown' \in [Chats -> Seq(Nat)]
          /\ \A d \in Chats \ {c} : shown'[d] = shown[d]
          /\ \A i \in 1 .. Len(shown'[c]) :
               shown'[c][i] = shown[c][i + 1] /\ i + 1 \in 1 .. Len(shown[c])
      BY <1>2, <2>7, ShownAfterCompact DEF HashesInv
    <3>4. QED
      BY <1>2, <3>1, <3>2, <3>3 DEF HashesInv, TurnsTypeOK
  <2>8. ASSUME NEW r \in Runs, turnVars' = turnVars, UNCHANGED <<typed, flips>>,
               run' \in [Runs -> Run], \A q \in Runs \ {r} : run'[q] = run[q],
               \A i \in 1 .. Len(run'[r].turns) : run'[r].turns[i] \in 1 .. Len(made),
               \A c \in Chats : Len(run'[r].file[c].logged) <= MaxHashes,
               rows' \in Seq(Row), \A i \in 1 .. Len(rows') : rows'[i].turn \in 1 .. Len(made),
               state' \in [Chats -> Record], \A c \in Chats : Len(state'[c].logged) <= MaxHashes,
               disturbed' \in BOOLEAN
        PROVE  HashesInv'
    BY <1>2, <2>8 DEF HashesInv, TurnsTypeOK, LogTypeOK, turnVars
  <2>9. \A q \in Runs :
          /\ \A i \in 1 .. Len(run[q].turns) : run[q].turns[i] \in 1 .. Len(made)
          /\ \A c \in Chats : Len(run[q].file[c].logged) <= MaxHashes
    BY <1>2 DEF HashesInv, LogTypeOK
  <2>10. /\ rows \in Seq(Row) /\ \A i \in 1 .. Len(rows) : rows[i].turn \in 1 .. Len(made)
         /\ state \in [Chats -> Record] /\ \A c \in Chats : Len(state[c].logged) <= MaxHashes
         /\ disturbed \in BOOLEAN
    BY <1>2 DEF HashesInv, LogTypeOK
  <2>11. ASSUME NEW c \in Chats, NEW r \in Runs, StopHook(r, c)
         PROVE  HashesInv'
    <3>1. /\ run' \in [Runs -> Run] /\ \A q \in Runs \ {r} : run'[q] = run[q]
          /\ run'[r].turns = shown[c]
          /\ run'[r].file \in {state, [d \in Chats |-> NoRecord]}
      <4>1. PICK file \in [Chats -> Record], approved \in {Range(ledger), {}}, presumed \in Nat,
                 old \in Seq(Hash) :
              /\ \/ file = state
                 \/ file = [d \in Chats |-> NoRecord] /\ Under({"posting", "failed"}) # {}
              /\ presumed = Presumed(file[c].count, shown[c])
              /\ old = [i \in 1..presumed |-> HashOf(shown[c][i])]
              /\ shown[c] \in Seq(Nat) /\ shown[c] # <<>>
              /\ run[r].at = "unused"
              /\ run' \in [Runs -> Run] /\ \A q \in Runs \ {r} : run'[q] = run[q]
              /\ run'[r] = [at |-> "posting", chat |-> c, file |-> file, turns |-> shown[c],
                            approved |-> approved, presumed |-> presumed,
                            known |-> file[c].logged \o old, clean |-> FALSE]
        BY <1>2, <2>0, <2>11, RunStarts, Zenon
      <4>2. run'[r].turns = shown[c] /\ run'[r].file = file
        BY <4>1
      <4>3. QED
        BY <4>1, <4>2
    <3>2. \A i \in 1 .. Len(shown[c]) : shown[c][i] \in 1 .. Len(made)
      BY <1>2 DEF HashesInv, TurnsTypeOK
    <3>3. UNCHANGED <<turnVars, typed, flips, state, rows>> /\ disturbed' \in BOOLEAN
      BY <2>10, <2>11 DEF StopHook, promptVars, ruleVars
    <3>4. QED
      BY <2>18, <2>8, <2>10, <3>1, <3>2, <3>3
  <2>12. ASSUME NEW r \in Runs, Unfiled(r) # {}, rows' = Append(rows, RowOf(r, NextTurn(r)))
         PROVE  rows' \in Seq(Row) /\ \A i \in 1 .. Len(rows') : rows'[i].turn \in 1 .. Len(made)
    <3>1. /\ rows' \in Seq(Row) /\ Len(rows') = Len(rows) + 1 /\ Len(rows) \in Nat
          /\ \A i \in 1 .. Len(rows) : rows'[i] = rows[i]
          /\ rows'[Len(rows) + 1].turn = NextTurn(r)
      BY <1>2, <2>0, <2>12, RowJoins
    <3>2. NextTurn(r) \in 1 .. Len(made)
      BY <1>2, <2>12, NextTurnIsUnfiled DEF HashesInv
    <3>3. ASSUME NEW i \in 1 .. Len(rows') PROVE rows'[i].turn \in 1 .. Len(made)
      BY <2>10, <3>1, <3>2
    <3>4. QED
      BY <3>1, <3>3
  <2>13. ASSUME NEW r \in Runs, PostTurn(r)
         PROVE  HashesInv'
    <3>1. /\ Unfiled(r) # {} /\ rows' = Append(rows, RowOf(r, NextTurn(r)))
          /\ run' = [run EXCEPT ![r].known = Append(@, HashOf(NextTurn(r)))]
          /\ UNCHANGED <<turnVars, typed, flips, state, disturbed>>
      BY <2>13 DEF PostTurn, promptVars, ruleVars
    <3>2. /\ run' \in [Runs -> Run] /\ \A q \in Runs \ {r} : run'[q] = run[q]
          /\ run'[r].turns = run[r].turns /\ run'[r].file = run[r].file
      BY <1>2, <3>1, RunFilesTurn
    <3>3. QED
      BY <2>8, <2>9, <2>10, <2>12, <3>1, <3>2
  <2>14. ASSUME NEW r \in Runs, PostFails(r)
         PROVE  HashesInv'
    <3>1. /\ Unfiled(r) # {} /\ run' = [run EXCEPT ![r].at = "failed"]
          /\ UNCHANGED <<turnVars, typed, flips, state>> /\ disturbed' \in BOOLEAN
          /\ rows' = rows \/ rows' = Append(rows, RowOf(r, NextTurn(r)))
      BY <2>10, <2>14 DEF PostFails, promptVars, ruleVars
    <3>2. /\ run' \in [Runs -> Run] /\ \A q \in Runs \ {r} : run'[q] = run[q]
          /\ run'[r].turns = run[r].turns /\ run'[r].file = run[r].file
      BY <1>2, <3>1, RunFails
    <3>3. QED
      BY <2>8, <2>9, <2>10, <2>12, <3>1, <3>2
  <2>15. ASSUME NEW r \in Runs, Save(r)
         PROVE  HashesInv'
    <3> DEFINE new == [count |-> 0, logged |-> Newest(run[r].known, MaxHashes)]
               c == run[r].chat
               clean == run[r].at = "posting"
    <3>1. /\ state' = [run[r].file EXCEPT ![c] = new]
          /\ run' = [run EXCEPT ![r] = Over(r, clean)]
          /\ UNCHANGED <<turnVars, typed, flips, rows, disturbed>>
      BY <2>15 DEF Save, promptVars, ruleVars
    <3>2. run[r].file \in [Chats -> Record] /\ c \in Chats /\ run[r].known \in Seq(Hash)
      BY <1>2, RunFields DEF HashesInv, LogTypeOK
    <3>3. /\ Newest(run[r].known, MaxHashes) \in Seq(Hash)
          /\ Len(Newest(run[r].known, MaxHashes)) <= MaxHashes
      BY <3>2, NewestKeeps, HookBoundAssumption
    <3>4. new \in Record /\ Len(new.logged) <= MaxHashes
      BY <3>3 DEF Record
    <3> HIDE DEF new
    <3>5. state' \in [Chats -> Record] /\ \A d \in Chats : Len(state'[d].logged) <= MaxHashes
      BY <2>9, <3>1, <3>2, <3>4
    <3>6. /\ run' \in [Runs -> Run] /\ \A q \in Runs \ {r} : run'[q] = run[q]
          /\ run'[r].turns = run[r].turns /\ run'[r].file = [d \in Chats |-> NoRecord]
      BY <1>2, <3>1, RunEnds
    <3>7. QED
      BY <2>18, <2>8, <2>9, <2>10, <3>1, <3>5, <3>6
  <2>16. ASSUME NEW r \in Runs, Killed(r)
         PROVE  HashesInv'
    <3>1. /\ run' = [run EXCEPT ![r] = Over(r, FALSE)]
          /\ UNCHANGED <<turnVars, typed, flips, rows, state>> /\ disturbed' \in BOOLEAN
      BY <2>16 DEF Killed, promptVars, ruleVars
    <3>2. /\ run' \in [Runs -> Run] /\ \A q \in Runs \ {r} : run'[q] = run[q]
          /\ run'[r].turns = run[r].turns /\ run'[r].file = [d \in Chats |-> NoRecord]
      BY <1>2, <3>1, RunEnds
    <3>3. QED
      BY <2>18, <2>8, <2>9, <2>10, <3>1, <3>2
  <2>17. QED
    BY <1>2, <2>3, <2>4, <2>5, <2>6, <2>7, <2>11, <2>13, <2>14, <2>15, <2>16, Zenon DEF HooksNext
<1>3. QED
  BY <1>1, <1>2, PromptInvInductive, PTL DEF HooksSpec

\* The variables of the hooks hold what the code can put into them: the ledger and the
\* state file stay within their caps, and transcripts and rows name turns that were made.
THEOREM HooksTypeOKHolds == HooksSpec => []HooksTypeOK
<1>1. PromptInv /\ LedgerInv /\ HashesInv => HooksTypeOK
  <2> SUFFICES ASSUME PromptInv, LedgerInv, HashesInv PROVE HooksTypeOK
    OBVIOUS
  <2>1. \A c \in Chats : Range(shown[c]) \subseteq DOMAIN made
    <3> SUFFICES ASSUME NEW c \in Chats PROVE Range(shown[c]) \subseteq DOMAIN made
      OBVIOUS
    <3>1. /\ shown[c] \in Seq(Nat) /\ made \in Seq(Turn)
          /\ \A i \in 1 .. Len(shown[c]) : shown[c][i] \in 1 .. Len(made)
      BY DEF HashesInv, TurnsTypeOK
    <3>2. DOMAIN shown[c] = 1 .. Len(shown[c]) /\ DOMAIN made = 1 .. Len(made)
      BY <3>1
    <3>3. QED
      BY <3>1, <3>2 DEF Range
  <2>2. Range([i \in DOMAIN rows |-> rows[i].turn]) \subseteq DOMAIN made
    <3>1. /\ rows \in Seq(Row) /\ made \in Seq(Turn)
          /\ \A i \in 1 .. Len(rows) : rows[i].turn \in 1 .. Len(made)
      BY DEF HashesInv, TurnsTypeOK, LogTypeOK
    <3>2. DOMAIN rows = 1 .. Len(rows) /\ DOMAIN made = 1 .. Len(made)
      BY <3>1
    <3>3. QED
      BY <3>1, <3>2 DEF Range
  <2>3. QED
    BY <2>1, <2>2
       DEF HooksTypeOK, PromptInv, PromptTypeOK, LedgerInv, HashesInv, TurnsTypeOK, LogTypeOK, Row
<1>2. QED
  BY <1>1, PromptInvInductive, LedgerInvInductive, HashesInvInductive, PTL

-----------------------------------------------------------------------------
(* What is filed as unchecked.                                             *)

\* A row flags the turn it files, if it has to.
Flags(row, turn) ==
  row.armed /\ (\/ turn.extra \in Dirty
                \/ ~ row.blind /\ (Range(turn.prompt) \cap Dirty) \ allowed # {})
  => row.unchecked /\ row.alarm

\* The copies of the ledger that runs hold are no wider than what the hook let pass.
FlagInv ==
  /\ \A r \in Runs : run[r].approved \subseteq allowed
  /\ \A i \in 1 .. Len(rows) : Flags(rows[i], made[rows[i].turn])

\* A turn with personal data in what was attached, or in a message that is in no copy of the
\* ledger, is flagged when it is filed.
LEMMA RowFlags ==
  ASSUME NEW r \in Runs, NEW n \in 1 .. Len(made), run[r].approved \subseteq allowed
  PROVE  Flags(RowOf(r, n), made[n])
<1> DEFINE t == made[n]
           unchecked == run[r].approved # {} /\ ~ (Range(t.prompt) \subseteq run[r].approved)
           pii == Found(Range(t.prompt) \cup {t.extra, ReplyOf[n]})
           row == [turn |-> n, blind |-> run[r].approved = {}, armed |-> armed,
                   unchecked |-> unchecked \/ Found({t.extra}),
                   alarm |-> (unchecked \/ t.extra # NoText) /\ pii]
<1>1. RowOf(r, n) = row
  BY DEF RowOf
<1>2. /\ row.armed <=> armed
      /\ row.blind <=> run[r].approved = {}
      /\ row.unchecked <=> unchecked \/ Found({t.extra})
      /\ row.alarm <=> (unchecked \/ t.extra # NoText) /\ pii
  OBVIOUS
<1>3. CASE armed /\ t.extra \in Dirty
  <2>1. Found({t.extra}) /\ pii
    BY <1>3 DEF Found
  <2>2. t.extra # NoText
    BY <1>3, HookTextAssumption
  <2>3. row.unchecked /\ row.alarm
    BY <1>2, <2>1, <2>2
  <2>4. QED
    BY <1>1, <2>3 DEF Flags
<1>4. CASE armed /\ run[r].approved # {} /\ (Range(t.prompt) \cap Dirty) \ allowed # {}
  <2>1. unchecked /\ pii
    BY <1>4 DEF Found
  <2>2. row.unchecked /\ row.alarm
    BY <1>2, <2>1
  <2>3. QED
    BY <1>1, <2>2 DEF Flags
<1>5. QED
  <2> HIDE DEF row, unchecked, pii
  <2>1. ~ armed => Flags(row, t)
    BY <1>2 DEF Flags
  <2>2. QED
    BY <1>1, <1>2, <1>3, <1>4, <2>1 DEF Flags

\* FlagInv holds in every state.
LEMMA FlagInvInductive == HooksSpec => []FlagInv
<1>1. HooksInit => FlagInv
  <2> SUFFICES ASSUME HooksInit PROVE FlagInv
    OBVIOUS
  <2>1. \A r \in Runs : run[r].approved = {}
    BY DEF HooksInit, Unrun
  <2>2. rows = <<>>
    BY DEF HooksInit
  <2>3. QED
    BY <2>1, <2>2 DEF FlagInv
<1>2. ASSUME PromptInv, LedgerInv, HashesInv, HashesInv', FlagInv, [HooksNext]_hooksVars
      PROVE  FlagInv'
  <2>0. /\ PromptTypeOK /\ armed \in BOOLEAN /\ made \in Seq(Turn) /\ run \in [Runs -> Run]
        /\ \A i \in 1 .. Len(rows) : rows[i].turn \in 1 .. Len(made)
    BY <1>2 DEF PromptInv, PromptTypeOK, HashesInv, TurnsTypeOK, LogTypeOK
  <2>1. ASSUME allowed \subseteq allowed', UNCHANGED <<run, rows>>,
               \A n \in 1 .. Len(made) : made'[n] = made[n]
        PROVE  FlagInv'
    <3>1. ASSUME NEW i \in 1 .. Len(rows) PROVE Flags(rows[i], made[rows[i].turn])'
      <4>1. Flags(rows[i], made[rows[i].turn])
        BY <1>2 DEF FlagInv
      <4>2. made'[rows[i].turn] = made[rows[i].turn]
        BY <2>0, <2>1
      <4>3. QED
        BY <2>1, <4>1, <4>2 DEF Flags
    <3>2. QED
      BY <1>2, <2>1, <3>1 DEF FlagInv
  <2>2. ASSUME NEW c \in Chats, NEW t \in Texts, Submit(c, t) \/ Pass(c, t) \/ QueueMessage(c, t)
        PROVE  FlagInv'
    BY <2>1, <2>2 DEF Submit, Pass, QueueMessage, turnVars, logVars
  <2>3. ASSUME NEW c \in Chats, Deny(c) \/ Approve(c) \/ Send(c) \/ Discard(c)
        PROVE  FlagInv'
    BY <2>1, <2>3 DEF Deny, Approve, Send, Discard, turnVars, logVars
  <2>4. CASE Flip \/ UNCHANGED hooksVars
    BY <2>1, <2>4 DEF Flip, hooksVars, promptVars, turnVars, logVars
  <2>5. ASSUME NEW c \in Chats, (\E extra \in Extras : TurnEnds(c, extra)) \/ Compact(c)
        PROVE  FlagInv'
    <3>1. \A n \in 1 .. Len(made) : made'[n] = made[n]
      BY <1>2, <2>0, <2>5, TurnJoins DEF Compact
    <3>2. QED
      BY <2>1, <2>5, <3>1 DEF TurnEnds, Compact, promptVars, logVars
  <2>6. ASSUME NEW r \in Runs, \A q \in Runs \ {r} : run'[q] = run[q],
               run'[r].approved \subseteq allowed, UNCHANGED <<made, allowed>>,
               \/ rows' = rows
               \/ rows' = Append(rows, RowOf(r, NextTurn(r))) /\ Unfiled(r) # {}
        PROVE  FlagInv'
    <3>1. \A q \in Runs : run'[q].approved \subseteq allowed'
      BY <1>2, <2>6 DEF FlagInv
    <3>2. \A row, n : Flags(row, made[n])' <=> Flags(row, made[n])
      BY <2>6 DEF Flags
    <3>3. CASE rows' = rows
      BY <1>2, <3>1, <3>3, <2>6 DEF FlagInv, Flags
    <3>4. CASE rows' = Append(rows, RowOf(r, NextTurn(r))) /\ Unfiled(r) # {}
      <4>1. /\ rows' \in Seq(Row) /\ Len(rows') = Len(rows) + 1 /\ Len(rows) \in Nat
            /\ \A i \in 1 .. Len(rows) : rows'[i] = rows[i]
            /\ rows'[Len(rows) + 1] = RowOf(r, NextTurn(r))
            /\ rows'[Len(rows) + 1].turn = NextTurn(r)
        BY <1>2, <2>0, <3>4, RowJoins
      <4>2. NextTurn(r) \in 1 .. Len(made)
        BY <1>2, <3>4, NextTurnIsUnfiled DEF HashesInv
      <4>3. Flags(RowOf(r, NextTurn(r)), made[NextTurn(r)])
        BY <1>2, <4>2, RowFlags DEF FlagInv
      <4>4. ASSUME NEW i \in 1 .. Len(rows') PROVE Flags(rows[i], made[rows[i].turn])'
        <5>1. CASE i = Len(rows) + 1
          BY <2>6, <4>1, <4>3, <5>1 DEF Flags
        <5>2. CASE i # Len(rows) + 1
          <6>1. i \in 1 .. Len(rows) /\ rows'[i] = rows[i]
            BY <4>1, <5>2
          <6>2. Flags(rows[i], made[rows[i].turn])
            BY <1>2, <6>1 DEF FlagInv
          <6>3. QED
            BY <2>6, <6>1, <6>2 DEF Flags
        <5>3. QED
          BY <5>1, <5>2
      <4>5. QED
        BY <3>1, <4>4 DEF FlagInv
    <3>5. QED
      BY <2>6, <3>3, <3>4
  <2>7. \A q \in Runs : run[q].approved \subseteq allowed
    BY <1>2 DEF FlagInv
  <2>8. ASSUME NEW c \in Chats, NEW r \in Runs, StopHook(r, c)
        PROVE  FlagInv'
    <3>1. PICK file \in [Chats -> Record], approved \in {Range(ledger), {}}, presumed \in Nat,
               old \in Seq(Hash) :
            /\ \/ file = state
               \/ file = [d \in Chats |-> NoRecord] /\ Under({"posting", "failed"}) # {}
            /\ presumed = Presumed(file[c].count, shown[c])
            /\ old = [i \in 1..presumed |-> HashOf(shown[c][i])]
            /\ shown[c] \in Seq(Nat) /\ shown[c] # <<>>
            /\ run[r].at = "unused"
            /\ run' \in [Runs -> Run] /\ \A q \in Runs \ {r} : run'[q] = run[q]
            /\ run'[r] = [at |-> "posting", chat |-> c, file |-> file, turns |-> shown[c],
                          approved |-> approved, presumed |-> presumed,
                          known |-> file[c].logged \o old, clean |-> FALSE]
      BY <1>2, <2>0, <2>8, RunStarts, Zenon
    <3>2. run'[r].approved \subseteq allowed
      BY <1>2, <3>1 DEF LedgerInv
    <3>3. UNCHANGED <<made, allowed, rows>>
      BY <2>8 DEF StopHook, promptVars, turnVars
    <3>4. QED
      BY <2>6, <3>1, <3>2, <3>3
  <2>9. ASSUME NEW r \in Runs, PostTurn(r)
        PROVE  FlagInv'
    <3>1. /\ Unfiled(r) # {} /\ rows' = Append(rows, RowOf(r, NextTurn(r)))
          /\ run' = [run EXCEPT ![r].known = Append(@, HashOf(NextTurn(r)))]
          /\ UNCHANGED <<made, allowed>>
      BY <2>9 DEF PostTurn, promptVars, turnVars
    <3>2. run'[r].approved = run[r].approved /\ \A q \in Runs \ {r} : run'[q] = run[q]
      BY <1>2, <3>1, RunFilesTurn
    <3>3. QED
      BY <2>6, <2>7, <3>1, <3>2
  <2>10. ASSUME NEW r \in Runs, PostFails(r)
         PROVE  FlagInv'
    <3>1. /\ Unfiled(r) # {} /\ run' = [run EXCEPT ![r].at = "failed"]
          /\ UNCHANGED <<made, allowed>>
          /\ rows' = rows \/ rows' = Append(rows, RowOf(r, NextTurn(r)))
      BY <2>10 DEF PostFails, promptVars, turnVars
    <3>2. run'[r].approved = run[r].approved /\ \A q \in Runs \ {r} : run'[q] = run[q]
      BY <1>2, <3>1, RunFails
    <3>3. QED
      BY <2>6, <2>7, <3>1, <3>2
  <2>11. ASSUME NEW r \in Runs, Save(r) \/ Killed(r)
         PROVE  FlagInv'
    <3>1. /\ \E clean \in BOOLEAN : run' = [run EXCEPT ![r] = Over(r, clean)]
          /\ UNCHANGED <<made, allowed, rows>>
      BY <2>11 DEF Save, Killed, promptVars, turnVars
    <3>2. run'[r].approved = {} /\ \A q \in Runs \ {r} : run'[q] = run[q]
      BY <1>2, <3>1, RunEnds
    <3>3. QED
      BY <2>6, <3>1, <3>2
  <2>12. QED
    BY <1>2, <2>2, <2>3, <2>4, <2>5, <2>8, <2>9, <2>10, <2>11, Zenon DEF HooksNext
<1>3. QED
  BY <1>1, <1>2, PromptInvInductive, LedgerInvInductive, HashesInvInductive, PTL DEF HooksSpec

\* The only trace of a message that skipped the prompt hook is the log: while the rule is
\* enabled, a turn with personal data in what the editor attached, or in a message that the
\* hook never let pass and with a ledger that was not found empty, is filed as unchecked and
\* alarms the user.
THEOREM FlaggedWhenLeakedHolds == HooksSpec => []FlaggedWhenLeaked
<1>1. HashesInv /\ FlagInv => FlaggedWhenLeaked
  <2> SUFFICES ASSUME HashesInv, FlagInv, NEW i \in DOMAIN rows
               PROVE  Flags(rows[i], made[rows[i].turn])
    BY DEF FlaggedWhenLeaked, Flags
  <2>1. i \in 1 .. Len(rows)
    BY DEF HashesInv, LogTypeOK
  <2>2. QED
    BY <2>1 DEF FlagInv
<1>2. QED
  BY <1>1, HashesInvInductive, FlagInvInductive, PTL
=============================================================================
