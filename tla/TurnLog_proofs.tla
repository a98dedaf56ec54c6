--------------------------- MODULE TurnLog_proofs ---------------------------
(***************************************************************************)
(* Theorems about the state file of the turn-log hook (EditorHooks): a run *)
(* without failure leaves no turn unfiled, whatever other runs do, and runs *)
(* that nothing disturbs file no turn twice.                               *)
(***************************************************************************)
EXTENDS Hooks_proofs, FiniteSetTheorems

-----------------------------------------------------------------------------
(* Nothing is left out.                                                    *)

\* A hash that was filed, or that an old counter stood for when a run began.
Accounted(h) ==
  \/ \E i \in 1 .. Len(rows) : HashOf(rows[i].turn) = h
  \/ \E q \in Runs : \E i \in 1 .. run[q].presumed : HashOf(run[q].turns[i]) = h

RunAccounts(r) ==
  /\ run[r].at = "unused" => run[r].presumed = 0
  /\ run[r].at # "unused" => run[r].presumed < Len(run[r].turns)
  /\ \A h \in Range(run[r].known) : Accounted(h)
  /\ \A c \in Chats : \A h \in Range(run[r].file[c].logged) : Accounted(h)
  /\ run[r].at = "over" /\ run[r].clean =>
       \A i \in 1 .. Len(run[r].turns) : Accounted(HashOf(run[r].turns[i]))

\* Whatever the state file, a copy of it or a run takes as filed is accounted for.
AccountInv ==
  /\ \A c \in Chats : \A h \in Range(state[c].logged) : Accounted(h)
  /\ \A r \in Runs : RunAccounts(r)

\* The elements of two sequences together.
LEMMA ConcatRange ==
  ASSUME NEW S, NEW s \in Seq(S), NEW t \in Seq(S)
  PROVE  s \o t \in Seq(S) /\ Range(s \o t) \subseteq Range(s) \cup Range(t)
<1>1. /\ s \o t \in Seq(S) /\ Len(s \o t) = Len(s) + Len(t)
      /\ \A i \in 1 .. Len(s) + Len(t) : (s \o t)[i] = IF i <= Len(s) THEN s[i] ELSE t[i - Len(s)]
  BY ConcatProperties
<1>2. /\ DOMAIN s = 1 .. Len(s) /\ DOMAIN t = 1 .. Len(t) /\ DOMAIN (s \o t) = 1 .. Len(s) + Len(t)
      /\ Len(s) \in Nat /\ Len(t) \in Nat
  BY <1>1
<1>3. ASSUME NEW i \in 1 .. Len(s) + Len(t) PROVE (s \o t)[i] \in Range(s) \cup Range(t)
  <2>1. CASE i <= Len(s)
    BY <1>1, <1>2, <2>1 DEF Range
  <2>2. CASE ~ (i <= Len(s))
    <3>1. i - Len(s) \in 1 .. Len(t) /\ (s \o t)[i] = t[i - Len(s)]
      BY <1>1, <1>2, <2>2
    <3>2. QED
      BY <1>2, <3>1 DEF Range
  <2>3. QED
    BY <2>1, <2>2
<1>4. QED
  BY <1>1, <1>2, <1>3 DEF Range

\* What is accounted for stays so, if no row is lost, no turn changes, and every run that
\* stood for something goes on standing for it.
LEMMA AccountedStays ==
  ASSUME HashesInv, AccountInv, NEW h, Accounted(h), Len(rows') \in Nat, Len(rows) <= Len(rows'),
         \A i \in 1 .. Len(rows) : rows'[i] = rows[i],
         \A n \in 1 .. Len(made) : HashOf(n)' = HashOf(n),
         \A q \in Runs : \/ run[q].presumed = 0
                         \/ /\ run'[q].presumed = run[q].presumed
                            /\ run'[q].turns = run[q].turns
  PROVE  Accounted(h)'
<1>1. CASE \E i \in 1 .. Len(rows) : HashOf(rows[i].turn) = h
  <2>1. PICK i \in 1 .. Len(rows) : HashOf(rows[i].turn) = h
    BY <1>1
  <2>2. i \in 1 .. Len(rows') /\ rows'[i] = rows[i] /\ rows[i].turn \in 1 .. Len(made)
    BY DEF HashesInv, LogTypeOK
  <2>3. HashOf(rows[i].turn)' = h
    <3> DEFINE n == rows[i].turn
    <3>1. HashOf(n) = h /\ n \in 1 .. Len(made)
      BY <2>1, <2>2
    <3>2. \A m \in 1 .. Len(made) : <<made'[m].prompt, ReplyOf[m]>> = HashOf(m)
      BY DEF HashOf
    <3>3. <<made'[n].prompt, ReplyOf[n]>> = h
      BY <3>1, <3>2
    <3>4. QED
      BY <2>2, <3>3 DEF HashOf
  <2>4. QED
    BY <2>2, <2>3 DEF Accounted
<1>2. CASE \E q \in Runs : \E i \in 1 .. run[q].presumed : HashOf(run[q].turns[i]) = h
  <2>1. PICK q \in Runs : \E i \in 1 .. run[q].presumed : HashOf(run[q].turns[i]) = h
    BY <1>2
  <2>2. PICK i \in 1 .. run[q].presumed : HashOf(run[q].turns[i]) = h
    BY <2>1
  <2>3. run[q] \in Run
    BY DEF HashesInv, LogTypeOK
  <2>4. run[q].presumed \in Nat /\ run[q].turns \in Seq(Nat)
    BY <2>3, RunFields
  <2>5. run[q].presumed # 0
    BY <2>2, <2>4
  <2>6. RunAccounts(q)
    BY DEF AccountInv
  <2>7. run[q].presumed < Len(run[q].turns)
    BY <2>5, <2>6 DEF RunAccounts
  <2>8. i \in 1 .. Len(run[q].turns)
    BY <2>2, <2>4, <2>7
  <2>9. run[q].turns[i] \in 1 .. Len(made)
    BY <2>8 DEF HashesInv, LogTypeOK
  <2>10. run'[q].presumed = run[q].presumed /\ run'[q].turns = run[q].turns
    BY <2>5
  <2>11. \A m \in 1 .. Len(made) : <<made'[m].prompt, ReplyOf[m]>> = HashOf(m)
    BY DEF HashOf
  <2>12. <<made'[run[q].turns[i]].prompt, ReplyOf[run[q].turns[i]]>> = h
    BY <2>2, <2>9, <2>11
  <2>13. HashOf(run[q].turns[i])' = h
    BY <2>10, <2>12 DEF HashOf
  <2>14. i \in 1 .. run'[q].presumed
    BY <2>10
  <2>15. QED
    BY <2>13, <2>14 DEF Accounted
<1>3. QED
  BY <1>1, <1>2 DEF Accounted

\* A run that does not move, in a step that keeps what is accounted for.
LEMMA RunAccountsStays ==
  ASSUME HashesInv, NEW r \in Runs, RunAccounts(r), run'[r] = run[r],
         \A h : Accounted(h) => Accounted(h)',
         \A n \in 1 .. Len(made) : HashOf(n)' = HashOf(n)
  PROVE  RunAccounts(r)'
<1>1. \A m \in 1 .. Len(made) : <<made'[m].prompt, ReplyOf[m]>> = HashOf(m)
  BY DEF HashOf
<1>2. ASSUME run[r].at = "over" /\ run[r].clean, NEW i \in 1 .. Len(run[r].turns)
      PROVE  Accounted(HashOf(run[r].turns[i]))'
  <2>1. run[r].turns[i] \in 1 .. Len(made)
    BY DEF HashesInv, LogTypeOK
  <2>2. HashOf(run[r].turns[i])' = HashOf(run[r].turns[i])
    BY <1>1, <2>1 DEF HashOf
  <2>3. Accounted(HashOf(run[r].turns[i]))
    BY <1>2 DEF RunAccounts
  <2> DEFINE h == HashOf(run[r].turns[i])
  <2>4. h' = h
    BY <2>2
  <2>5. Accounted(h)
    BY <2>3
  <2>6. PICK g : g = h
    OBVIOUS
  <2>7. Accounted(g)'
    BY <2>5, <2>6
  <2>8. QED
    BY <2>4, <2>6, <2>7 DEF Accounted
<1>3. QED
  BY <1>2 DEF RunAccounts

\* A step in which one run moves.
LEMMA OneRunAccounts ==
  ASSUME HashesInv, AccountInv, NEW r \in Runs,
         \A q \in Runs \ {r} : run'[q] = run[q],
         made' = made, Len(rows') \in Nat, Len(rows) <= Len(rows'),
         \A i \in 1 .. Len(rows) : rows'[i] = rows[i],
         \/ run[r].presumed = 0
         \/ run'[r].presumed = run[r].presumed /\ run'[r].turns = run[r].turns
  PROVE  /\ \A h : Accounted(h) => Accounted(h)'
         /\ \A q \in Runs \ {r} : RunAccounts(q)'
         /\ \A n : HashOf(n)' = HashOf(n)
<1>1. \A n : HashOf(n)' = HashOf(n)
  BY DEF HashOf
<1>2. \A h : Accounted(h) => Accounted(h)'
  BY <1>1, AccountedStays
<1>3. ASSUME NEW q \in Runs \ {r} PROVE RunAccounts(q)'
  <2>1. RunAccounts(q)
    BY DEF AccountInv
  <2>2. QED
    BY <1>1, <1>2, <2>1, RunAccountsStays
<1>4. QED
  BY <1>1, <1>2, <1>3

\* A run that begins takes as filed what the state file accounts for, or presumes it.
LEMMA StartAccounts ==
  ASSUME PromptInv, HashesInv, AccountInv, NEW r \in Runs, NEW c \in Chats, StopHook(r, c)
  PROVE  AccountInv'
<1>0. PromptTypeOK
  BY DEF PromptInv
<1>1. PICK file \in [Chats -> Record], approved \in {Range(ledger), {}}, presumed \in Nat,
           old \in Seq(Hash) :
        /\ \/ file = state
           \/ file = [d \in Chats |-> NoRecord] /\ Under({"posting", "failed"}) # {}
        /\ presumed = Presumed(file[c].count, shown[c])
        /\ old = [i \in 1..presumed |-> HashOf(shown[c][i])]
        /\ shown[c] \in Seq(Nat) /\ shown[c] # <<>>
        /\ run[r].at = "unused"
        /\ run' \in [Runs -> Run] /\ \A q \in Runs \ {r} : run'[q] = run[q]
        /\ run'[r] = [at |-> "posting", chat |-> c, file |-> file, turns |-> shown[c],
                      approved |-> approved, presumed |-> presumed,
                      known |-> file[c].logged \o old, clean |-> FALSE]
  BY <1>0, RunStarts, Zenon
<1>2. UNCHANGED <<state, rows, made>>
  BY DEF StopHook, turnVars
<1>3. run[r].presumed = 0
  BY <1>1 DEF AccountInv, RunAccounts
<1>4. /\ Len(rows') \in Nat /\ Len(rows) <= Len(rows') /\ made' = made
      /\ \A i \in 1 .. Len(rows) : rows'[i] = rows[i]
      /\ \A q \in Runs \ {r} : run'[q] = run[q]
  <2>1. Len(rows) \in Nat
    BY DEF HashesInv, LogTypeOK
  <2>2. QED
    BY <1>1, <1>2, <2>1
<1>5. /\ \A h : Accounted(h) => Accounted(h)'
      /\ \A q \in Runs \ {r} : RunAccounts(q)'
      /\ \A n : HashOf(n)' = HashOf(n)
  BY <1>3, <1>4, OneRunAccounts
<1>6. /\ run'[r].at = "posting" /\ run'[r].turns = shown[c] /\ run'[r].presumed = presumed
      /\ run'[r].known = file[c].logged \o old /\ run'[r].file = file
  BY <1>1
<1>7. file[c].count \in Nat /\ file[c].logged \in Seq(Hash)
  BY DEF Record
<1>8. presumed < Len(shown[c])
  BY <1>1, <1>7, PresumedBound
<1>9. \A d \in Chats : \A h \in Range(file[d].logged) : Accounted(h)
  <2>1. \A d \in Chats : Range([e \in Chats |-> NoRecord][d].logged) = {}
    BY NoRecordIsRecord DEF Range
  <2>2. QED
    BY <1>1, <2>1 DEF AccountInv
<1>10. ASSUME NEW h \in Range(old) PROVE Accounted(h)'
  <2>1. PICK i \in 1 .. presumed : h = HashOf(shown[c][i])
    BY <1>1 DEF Range
  <2>2. HashOf(run[r].turns[i])' = h
    BY <1>2, <1>6, <2>1 DEF HashOf
  <2>3. i \in 1 .. run'[r].presumed
    BY <1>6
  <2>4. QED
    BY <2>2, <2>3 DEF Accounted
<1>11. \A h \in Range(file[c].logged \o old) : Accounted(h)'
  BY <1>5, <1>7, <1>9, <1>10, ConcatRange
<1>12. RunAccounts(r)'
  BY <1>5, <1>6, <1>8, <1>9, <1>11 DEF RunAccounts
<1>13. \A d \in Chats : \A h \in Range(state'[d].logged) : Accounted(h)'
  BY <1>2, <1>5 DEF AccountInv
<1>14. QED
  BY <1>5, <1>12, <1>13 DEF AccountInv

\* A turn that is posted is accounted for by its row.
LEMMA PostAccounts ==
  ASSUME PromptInv, HashesInv, AccountInv, NEW r \in Runs, PostTurn(r)
  PROVE  AccountInv'
<1> DEFINE n == NextTurn(r)
<1>1. /\ run[r].at = "posting" /\ Unfiled(r) # {} /\ rows' = Append(rows, RowOf(r, n))
      /\ run' = [run EXCEPT ![r].known = Append(@, HashOf(n))]
      /\ made' = made /\ state' = state
  BY DEF PostTurn, turnVars
<1>2. /\ run' \in [Runs -> Run] /\ \A q \in Runs \ {r} : run'[q] = run[q]
      /\ run'[r].known = Append(run[r].known, HashOf(n))
      /\ run'[r].at = run[r].at /\ run'[r].chat = run[r].chat /\ run'[r].file = run[r].file
      /\ run'[r].turns = run[r].turns /\ run'[r].approved = run[r].approved
      /\ run'[r].presumed = run[r].presumed /\ run'[r].clean = run[r].clean
  BY <1>1, RunFilesTurn
<1>3. armed \in BOOLEAN
  BY DEF PromptInv, PromptTypeOK
<1>4. /\ rows' \in Seq(Row) /\ Len(rows') = Len(rows) + 1 /\ Len(rows) \in Nat
      /\ \A i \in 1 .. Len(rows) : rows'[i] = rows[i]
      /\ rows'[Len(rows) + 1].turn = n
  BY <1>1, <1>3, RowJoins
<1>5. /\ \A h : Accounted(h) => Accounted(h)'
      /\ \A q \in Runs \ {r} : RunAccounts(q)'
      /\ \A m : HashOf(m)' = HashOf(m)
  BY <1>1, <1>2, <1>4, OneRunAccounts
<1>6. n \in 1 .. Len(made) /\ HashOf(n) \in Hash /\ run[r].known \in Seq(Hash)
  BY <1>1, NextTurnIsUnfiled, HashIsHash, RunFields DEF HashesInv, LogTypeOK
<1>7. ASSUME NEW h, h = HashOf(n) PROVE Accounted(h)'
  <2>1. \A i : i = Len(rows) + 1 => HashOf(rows[i].turn)' = h
    BY <1>1, <1>4, <1>7 DEF HashOf
  <2>2. PICK i : i = Len(rows) + 1
    OBVIOUS
  <2>3. i \in 1 .. Len(rows')
    BY <1>4, <2>2
  <2>4. QED
    BY <2>1, <2>2, <2>3 DEF Accounted
<1> HIDE DEF n
<1>8. Range(run'[r].known) = Range(run[r].known) \cup {HashOf(n)}
  BY <1>2, <1>6, AppendRange
<1>9. RunAccounts(r)
  BY DEF AccountInv
<1>10. \A h \in Range(run'[r].known) : Accounted(h)'
  BY <1>5, <1>7, <1>8, <1>9 DEF RunAccounts
<1>11. RunAccounts(r)'
  BY <1>1, <1>2, <1>5, <1>9, <1>10 DEF RunAccounts
<1>12. QED
  BY <1>1, <1>5, <1>11 DEF AccountInv

\* A run whose post fails takes nothing new as filed, though the turn may be in a row.
LEMMA FailAccounts ==
  ASSUME PromptInv, HashesInv, AccountInv, NEW r \in Runs, PostFails(r)
  PROVE  AccountInv'
<1>1. /\ run[r].at = "posting" /\ Unfiled(r) # {} /\ run' = [run EXCEPT ![r].at = "failed"]
      /\ rows' = rows \/ rows' = Append(rows, RowOf(r, NextTurn(r)))
      /\ made' = made /\ state' = state
  BY DEF PostFails, turnVars
<1>2. /\ run' \in [Runs -> Run] /\ \A q \in Runs \ {r} : run'[q] = run[q]
      /\ run'[r].at = "failed" /\ run'[r].known = run[r].known
      /\ run'[r].chat = run[r].chat /\ run'[r].file = run[r].file
      /\ run'[r].turns = run[r].turns /\ run'[r].approved = run[r].approved
      /\ run'[r].presumed = run[r].presumed /\ run'[r].clean = run[r].clean
  BY <1>1, RunFails
<1>3. armed \in BOOLEAN /\ Len(rows) \in Nat
  BY DEF PromptInv, PromptTypeOK, HashesInv, LogTypeOK
<1>4. /\ Len(rows') \in Nat /\ Len(rows) <= Len(rows')
      /\ \A i \in 1 .. Len(rows) : rows'[i] = rows[i]
  BY <1>1, <1>3, RowJoins
<1>5. /\ \A h : Accounted(h) => Accounted(h)'
      /\ \A q \in Runs \ {r} : RunAccounts(q)'
  BY <1>1, <1>2, <1>4, OneRunAccounts
<1>6. RunAccounts(r)
  BY DEF AccountInv
<1>7. RunAccounts(r)'
  BY <1>1, <1>2, <1>5, <1>6 DEF RunAccounts
<1>8. QED
  BY <1>1, <1>5, <1>7 DEF AccountInv

\* A run that ends knows every turn of its transcript as filed, unless something failed.
LEMMA EndAccounts ==
  ASSUME PromptInv, HashesInv, AccountInv, NEW r \in Runs, Save(r) \/ Killed(r)
  PROVE  AccountInv'
<1>1. PICK clean \in BOOLEAN :
        /\ run' = [run EXCEPT ![r] = Over(r, clean)]
        /\ clean => Unfiled(r) = {}
        /\ run[r].at # "unused" /\ UNCHANGED <<made, rows>>
        /\ state' = state \/ state' = [run[r].file EXCEPT ![run[r].chat] =
                                         [count |-> 0, logged |-> Newest(run[r].known, MaxHashes)]]
  <2>1. CASE Save(r)
    <3>1. /\ run' = [run EXCEPT ![r] = Over(r, run[r].at = "posting")]
          /\ run[r].at = "posting" => Unfiled(r) = {}
          /\ run[r].at \in {"posting", "failed"} /\ UNCHANGED <<made, rows>>
          /\ state' = [run[r].file EXCEPT ![run[r].chat] =
                         [count |-> 0, logged |-> Newest(run[r].known, MaxHashes)]]
      BY <2>1 DEF Save, turnVars
    <3>2. (run[r].at = "posting") \in BOOLEAN
      OBVIOUS
    <3>3. QED
      BY <3>1, <3>2
  <2>2. CASE Killed(r)
    BY <2>2 DEF Killed, turnVars
  <2>3. QED
    BY <2>1, <2>2
<1>2. /\ run' \in [Runs -> Run] /\ \A q \in Runs \ {r} : run'[q] = run[q]
      /\ run'[r].at = "over" /\ run'[r].clean = clean /\ run'[r].known = <<>>
      /\ run'[r].file = [d \in Chats |-> NoRecord] /\ run'[r].approved = {}
      /\ run'[r].turns = run[r].turns /\ run'[r].presumed = run[r].presumed
  BY <1>1, RunEnds
<1>3. Len(rows) \in Nat /\ run[r] \in Run
  BY DEF HashesInv, LogTypeOK
<1>4. /\ \A h : Accounted(h) => Accounted(h)'
      /\ \A q \in Runs \ {r} : RunAccounts(q)'
      /\ \A n : HashOf(n)' = HashOf(n)
  BY <1>1, <1>2, <1>3, OneRunAccounts
<1>5. RunAccounts(r)
  BY DEF AccountInv
<1>6. ASSUME clean, NEW i \in 1 .. Len(run[r].turns) PROVE Accounted(HashOf(run[r].turns[i]))'
  <2>1. DOMAIN run[r].turns = 1 .. Len(run[r].turns)
    BY <1>3, RunFields
  <2>2. HashOf(run[r].turns[i]) \in Range(run[r].known)
    BY <1>1, <1>6, <2>1 DEF Unfiled
  <2>3. Accounted(HashOf(run[r].turns[i]))
    BY <1>5, <2>2 DEF RunAccounts
  <2> DEFINE h == HashOf(run[r].turns[i])
  <2>4. h' = h
    BY <1>1, <1>2 DEF HashOf
  <2>5. PICK g : g = h
    OBVIOUS
  <2>6. Accounted(g)'
    BY <1>4, <2>3, <2>5
  <2>7. QED
    BY <2>4, <2>5, <2>6 DEF Accounted
<1>7. RunAccounts(r)'
  <2>1. Range(<<>>) = {}
    BY DEF Range
  <2>2. \A d \in Chats : Range([e \in Chats |-> NoRecord][d].logged) = {}
    BY <2>1, NoRecordIsRecord
  <2>3. run'[r].presumed < Len(run'[r].turns)
    BY <1>1, <1>2, <1>5 DEF RunAccounts
  <2>4. \A h \in Range(run'[r].known) : Accounted(h)'
    BY <1>2, <2>1
  <2>5. \A d \in Chats : \A h \in Range(run'[r].file[d].logged) : Accounted(h)'
    BY <1>2, <2>2
  <2>6. run'[r].at # "unused"
    BY <1>2
  <2>7. run'[r].clean => \A i \in 1 .. Len(run'[r].turns) : Accounted(HashOf(run[r].turns[i]))'
    BY <1>2, <1>6
  <2>8. QED
    BY <2>3, <2>4, <2>5, <2>6, <2>7 DEF RunAccounts
<1>8. ASSUME NEW d \in Chats, NEW h \in Range(state'[d].logged) PROVE Accounted(h)
  <2> DEFINE new == [count |-> 0, logged |-> Newest(run[r].known, MaxHashes)]
  <2>1. CASE state' = state
    BY <1>8, <2>1 DEF AccountInv
  <2>2. CASE state' = [run[r].file EXCEPT ![run[r].chat] = new]
    <3>1. run[r].file \in [Chats -> Record] /\ run[r].known \in Seq(Hash)
      BY <1>3, RunFields
    <3>2. new.logged = Newest(run[r].known, MaxHashes)
      OBVIOUS
    <3> HIDE DEF new
    <3>3. CASE d = run[r].chat
      <4>1. state'[d].logged = Newest(run[r].known, MaxHashes)
        BY <2>2, <3>1, <3>2, <3>3
      <4>2. Range(Newest(run[r].known, MaxHashes)) \subseteq Range(run[r].known)
        BY <3>1, NewestKeeps, HookBoundAssumption
      <4>3. QED
        BY <1>5, <1>8, <4>1, <4>2 DEF RunAccounts
    <3>4. CASE d # run[r].chat
      BY <1>5, <1>8, <2>2, <3>1, <3>4 DEF RunAccounts
    <3>5. QED
      BY <3>3, <3>4
  <2>3. QED
    BY <1>1, <2>1, <2>2
<1>9. QED
  BY <1>4, <1>7, <1>8 DEF AccountInv

\* AccountInv holds in every state.
LEMMA AccountInvInductive == HooksSpec => []AccountInv
<1>1. HooksInit => AccountInv
  <2> SUFFICES ASSUME HooksInit PROVE AccountInv
    OBVIOUS
  <2>1. Range(<<>>) = {}
    BY DEF Range
  <2>2. ASSUME NEW c \in Chats PROVE state[c].logged = <<>>
    <3>1. PICK n \in Counts : state[c] = [NoRecord EXCEPT !.count = n]
      BY DEF HooksInit
    <3>2. QED
      BY <3>1 DEF NoRecord
  <2>3. ASSUME NEW r \in Runs
        PROVE  /\ run[r].at = "unused" /\ run[r].presumed = 0 /\ run[r].known = <<>>
               /\ run[r].file = [d \in Chats |-> NoRecord]
    BY DEF HooksInit, Unrun
  <2>4. ASSUME NEW r \in Runs PROVE RunAccounts(r)
    BY <2>1, <2>3, NoRecordIsRecord DEF RunAccounts
  <2>5. QED
    BY <2>1, <2>2, <2>4 DEF AccountInv
<1>2. ASSUME PromptInv, HashesInv, AccountInv, [HooksNext]_hooksVars
      PROVE  AccountInv'
  <2>0. PromptTypeOK /\ Len(rows) \in Nat
    BY <1>2 DEF PromptInv, HashesInv, LogTypeOK
  <2>1. ASSUME UNCHANGED <<state, run, rows>>,
               \A n \in 1 .. Len(made) : HashOf(n)' = HashOf(n)
        PROVE  AccountInv'
    <3>1. \A h : Accounted(h) => Accounted(h)'
      BY <1>2, <2>0, <2>1, AccountedStays
    <3>2. ASSUME NEW r \in Runs PROVE RunAccounts(r)'
      BY <1>2, <2>1, <3>1, RunAccountsStays DEF AccountInv
    <3>3. QED
      BY <1>2, <2>1, <3>1, <3>2 DEF AccountInv
  <2>2. made' = made => \A n \in 1 .. Len(made) : HashOf(n)' = HashOf(n)
    BY DEF HashOf
  <2>3. ASSUME NEW c \in Chats, NEW t \in Texts, Submit(c, t) \/ Pass(c, t) \/ QueueMessage(c, t)
        PROVE  AccountInv'
    BY <2>1, <2>2, <2>3 DEF Submit, Pass, QueueMessage, turnVars, logVars
  <2>4. ASSUME NEW c \in Chats, Deny(c) \/ Approve(c) \/ Send(c) \/ Discard(c) \/ Compact(c)
        PROVE  AccountInv'
    BY <2>1, <2>2, <2>4 DEF Deny, Approve, Send, Discard, Compact, turnVars, logVars
  <2>5. CASE Flip \/ UNCHANGED hooksVars
    BY <2>1, <2>2, <2>5 DEF Flip, hooksVars, turnVars, logVars
  <2>6. ASSUME NEW c \in Chats, NEW extra \in Extras, TurnEnds(c, extra)
        PROVE  AccountInv'
    <3>1. \A n \in 1 .. Len(made) : HashOf(n)' = HashOf(n)
      BY <1>2, <2>0, <2>6, TurnJoins
    <3>2. QED
      BY <2>1, <2>6, <3>1 DEF TurnEnds, logVars
  <2>7. ASSUME NEW r \in Runs,
               (\E c \in Chats : StopHook(r, c)) \/ PostTurn(r) \/ PostFails(r) \/ Save(r) \/ Killed(r)
        PROVE  AccountInv'
    BY <1>2, <2>7, StartAccounts, PostAccounts, FailAccounts, EndAccounts
  <2>8. QED
    BY <1>2, <2>3, <2>4, <2>5, <2>6, <2>7, Zenon DEF HooksNext
<1>3. QED
  BY <1>1, <1>2, PromptInvInductive, HashesInvInductive, PTL DEF HooksSpec

\* A run of the turn-log hook that met no failure leaves every turn of its transcript filed,
\* but for those a counter of an earlier version stood for; and the counter never stands for
\* the newest turn, however the transcript was compacted and the runs overlapped.
THEOREM CleanRunCatchesUpHolds == HooksSpec => []CleanRunCatchesUp
<1>1. HashesInv /\ AccountInv => CleanRunCatchesUp
  <2> SUFFICES ASSUME HashesInv, AccountInv, NEW r \in Runs, run[r].at = "over", run[r].clean
               PROVE  /\ run[r].presumed < Len(run[r].turns)
                      /\ \A n \in Range(run[r].turns) :
                           \/ HashOf(n) \in FiledHashes
                           \/ \E q \in Runs : \E i \in 1..run[q].presumed :
                                HashOf(run[q].turns[i]) = HashOf(n)
    BY DEF CleanRunCatchesUp
  <2>1. RunAccounts(r)
    BY DEF AccountInv
  <2>2. run[r].turns \in Seq(Nat) /\ rows \in Seq(Row)
    BY RunFields DEF HashesInv, LogTypeOK
  <2>3. ASSUME NEW n \in Range(run[r].turns)
        PROVE  \/ HashOf(n) \in FiledHashes
               \/ \E q \in Runs : \E i \in 1..run[q].presumed : HashOf(run[q].turns[i]) = HashOf(n)
    <3>1. PICK i \in 1 .. Len(run[r].turns) : n = run[r].turns[i]
      BY <2>2 DEF Range
    <3>2. Accounted(HashOf(n))
      BY <2>1, <3>1 DEF RunAccounts
    <3>3. QED
      BY <2>2, <3>2 DEF Accounted, FiledHashes
  <2>4. QED
    BY <2>1, <2>3 DEF RunAccounts
<1>2. QED
  BY <1>1, HashesInvInductive, AccountInvInductive, PTL

-----------------------------------------------------------------------------
(* Nothing is filed twice.                                                 *)

\* HashOf, of the n-th of some turns; and what a row that files it must not repeat.
HashIn(turns, n) == <<turns[n].prompt, ReplyOf[n]>>
KeyIn(turns, n)  == <<turns[n].chat, HashIn(turns, n)>>

\* Each hash of a list is that of a turn of its own.
Matched(hashes, turns) ==
  \E f \in Injection(1 .. Len(hashes), 1 .. Len(turns)) :
    \A i \in 1 .. Len(hashes) : HashIn(turns, f[i]) = hashes[i]

\* A run is under way.
UnderWay(k) == k.at \in {"posting", "failed"}

\* The state file, or a run that is under way, takes the turn as filed.
Taken(key, file, k) ==
  \/ key[2] \in Range(file[key[1]].logged)
  \/ \E r \in Runs : UnderWay(k[r]) /\ k[r].chat = key[1] /\ key[2] \in Range(k[r].known)

\* A transcript shows turns of its chat, and each once.
ShownInv ==
  /\ \A c \in Chats :
       /\ \A i, j \in 1 .. Len(shown[c]) : shown[c][i] = shown[c][j] => i = j
       /\ \A i \in 1 .. Len(shown[c]) : made[shown[c][i]].chat = c
  /\ \A r \in Runs : \A i \in 1 .. Len(run[r].turns) : made[run[r].turns[i]].chat = run[r].chat

\* The state file takes each turn as filed at most once, so that no cap cuts it off.
FileInv == \A c \in Chats : /\ Matched(state[c].logged, made)
                            /\ state[c].count > 0 => state[c].logged = <<>>

\* One run is under way, it works on the file as it is, and knows what the file says.
AloneInv ==
  /\ \A q, r \in Runs : UnderWay(run[q]) /\ UnderWay(run[r]) => q = r
  /\ \A r \in Runs : UnderWay(run[r]) =>
       /\ run[r].file = state
       /\ Range(state[run[r].chat].logged) \subseteq Range(run[r].known)
       /\ Matched(run[r].known, made)

\* What was filed is taken as filed, and was filed once.
FiledInv ==
  /\ \A i \in 1 .. Len(rows) : Taken(KeyIn(made, rows[i].turn), state, run)
  /\ \A i, j \in 1 .. Len(rows) : KeyIn(made, rows[i].turn) = KeyIn(made, rows[j].turn) => i = j

Undisturbed == ~ disturbed /\ MaxTurns <= MaxHashes

OnceInv == Undisturbed => FileInv /\ AloneInv /\ FiledInv

-----------------------------------------------------------------------------

\* A list in which each hash has a turn of its own is no longer than there are turns.
LEMMA MatchedIsShort ==
  ASSUME NEW s \in Seq(Hash), NEW turns, Len(turns) \in Nat, Matched(s, turns)
  PROVE  Len(s) <= Len(turns)
<1>1. PICK f \in Injection(1 .. Len(s), 1 .. Len(turns)) : TRUE
  BY DEF Matched
<1>2. Len(s) \in Nat
  OBVIOUS
<1>3. /\ IsFiniteSet(1 .. Len(turns))
      /\ Cardinality(1 .. Len(s)) = Len(s) /\ Cardinality(1 .. Len(turns)) = Len(turns)
  <2>1. ASSUME NEW n \in Nat PROVE IsFiniteSet(1 .. n) /\ Cardinality(1 .. n) = n
    <3>1. 1 \in Int /\ n \in Int
      OBVIOUS
    <3>2. /\ IsFiniteSet(1 .. n)
          /\ Cardinality(1 .. n) = IF 1 > n THEN 0 ELSE n - 1 + 1
      BY <3>1, FS_Interval, Zenon
    <3>3. QED
      BY <3>2
  <2>2. QED
    BY <1>2, <2>1
<1>4. Cardinality(1 .. Len(s)) <= Cardinality(1 .. Len(turns))
  BY <1>3, FS_Injection
<1>5. QED
  BY <1>3, <1>4

\* It grows by the hash of a turn that none of its hashes has.
LEMMA MatchedGrows ==
  ASSUME NEW s \in Seq(Hash), NEW turns, Len(turns) \in Nat, Matched(s, turns),
         NEW n \in 1 .. Len(turns), HashIn(turns, n) \in Hash, HashIn(turns, n) \notin Range(s)
  PROVE  Matched(Append(s, HashIn(turns, n)), turns)
<1> DEFINE h == HashIn(turns, n)
           m == Len(s)
<1>1. PICK f \in Injection(1 .. Len(s), 1 .. Len(turns)) :
        \A i \in 1 .. Len(s) : HashIn(turns, f[i]) = s[i]
  BY DEF Matched
<1>2. f \in [1 .. m -> 1 .. Len(turns)] /\ \A i, j \in 1 .. m : f[i] = f[j] => i = j
  BY DEF Injection, IsInjective
<1>3. h \in Hash
  OBVIOUS
<1>4. \A i \in 1 .. m : f[i] # n
  <2>1. \A i \in 1 .. m : s[i] \in Range(s)
    BY DEF Range
  <2>2. QED
    BY <1>1, <2>1
<1> HIDE DEF h
<1>5. /\ Append(s, h) \in Seq(Hash) /\ Len(Append(s, h)) = m + 1 /\ m \in Nat
      /\ \A i \in 1 .. m : Append(s, h)[i] = s[i]
      /\ Append(s, h)[m + 1] = h
  BY <1>3
<1> HIDE DEF m
<1> DEFINE g == [i \in 1 .. m + 1 |-> IF i = m + 1 THEN n ELSE f[i]]
<1>6. \A i \in 1 .. m + 1 : i # m + 1 => i \in 1 .. m
  BY <1>5
<1>7. g \in [1 .. m + 1 -> 1 .. Len(turns)]
  BY <1>2, <1>6
<1>8. \A i \in 1 .. m + 1 : g[i] = IF i = m + 1 THEN n ELSE f[i]
  OBVIOUS
<1> HIDE DEF g
<1>9. \A i, j \in 1 .. m + 1 : g[i] = g[j] => i = j
  BY <1>2, <1>4, <1>6, <1>8
<1>10. g \in Injection(1 .. m + 1, 1 .. Len(turns))
  BY <1>7, <1>9 DEF Injection, IsInjective
<1>11. \A i \in 1 .. m + 1 : HashIn(turns, g[i]) = Append(s, h)[i]
  <2>1. HashIn(turns, n) = h
    BY DEF h
  <2>2. QED
    BY <1>1, <1>5, <1>6, <1>8, <2>1 DEF m
<1>12. Matched(Append(s, h), turns)
  BY <1>5, <1>10, <1>11 DEF Matched
<1>13. QED
  BY <1>12 DEF h

\* It stays one when turns join.
LEMMA MatchedStays ==
  ASSUME NEW s \in Seq(Hash), NEW turns, NEW more, Len(turns) \in Nat, Len(more) \in Nat,
         Matched(s, turns), Len(turns) <= Len(more),
         \A n \in 1 .. Len(turns) : more[n] = turns[n]
  PROVE  Matched(s, more)
<1>1. PICK f \in Injection(1 .. Len(s), 1 .. Len(turns)) :
        \A i \in 1 .. Len(s) : HashIn(turns, f[i]) = s[i]
  BY DEF Matched
<1>2. f \in [1 .. Len(s) -> 1 .. Len(turns)] /\ \A i, j \in 1 .. Len(s) : f[i] = f[j] => i = j
  BY DEF Injection, IsInjective
<1>3. 1 .. Len(turns) \subseteq 1 .. Len(more)
  OBVIOUS
<1>4. f \in [1 .. Len(s) -> 1 .. Len(more)]
  BY <1>2, <1>3
<1>5. f \in Injection(1 .. Len(s), 1 .. Len(more))
  BY <1>2, <1>4 DEF Injection, IsInjective
<1>6. \A i \in 1 .. Len(s) : HashIn(more, f[i]) = s[i]
  BY <1>1, <1>2 DEF HashIn
<1>7. QED
  BY <1>5, <1>6 DEF Matched

\* The first turns of a transcript have turns of their own: themselves.
LEMMA ShownIsMatched ==
  ASSUME NEW s \in Seq(Nat), NEW turns, NEW m \in Nat, m <= Len(s),
         \A i, j \in 1 .. Len(s) : s[i] = s[j] => i = j,
         \A i \in 1 .. Len(s) : s[i] \in 1 .. Len(turns),
         [i \in 1 .. m |-> HashIn(turns, s[i])] \in Seq(Hash)
  PROVE  Matched([i \in 1 .. m |-> HashIn(turns, s[i])], turns)
<1> DEFINE old == [i \in 1 .. m |-> HashIn(turns, s[i])]
           f == [i \in 1 .. m |-> s[i]]
<1>1. Len(old) = m
  OBVIOUS
<1>2. \A i \in 1 .. m : i \in 1 .. Len(s)
  OBVIOUS
<1>3. f \in [1 .. m -> 1 .. Len(turns)] /\ \A i, j \in 1 .. m : f[i] = f[j] => i = j
  BY <1>2
<1>4. f \in Injection(1 .. m, 1 .. Len(turns))
  BY <1>3 DEF Injection, IsInjective
<1>5. \A i \in 1 .. m : HashIn(turns, f[i]) = old[i]
  OBVIOUS
<1> HIDE DEF f, old
<1>6. Matched(old, turns)
  BY <1>1, <1>4, <1>5 DEF Matched
<1>7. QED
  BY <1>6 DEF old

\* An empty list has a turn for each of its hashes.
LEMMA EmptyIsMatched ==
  ASSUME NEW turns
  PROVE  Matched(<<>>, turns)
<1> DEFINE f == [i \in 1 .. 0 |-> 0]
<1>1. Len(<<>>) = 0 /\ 1 .. 0 = {}
  OBVIOUS
<1>2. f \in Injection(1 .. 0, 1 .. Len(turns))
  BY <1>1 DEF Injection, IsInjective
<1> HIDE DEF f
<1>3. QED
  BY <1>1, <1>2 DEF Matched

\* Where transcripts and runs keep their turns.
LEMMA ShownInvInductive == HooksSpec => []ShownInv
<1>1. HooksInit => ShownInv
  <2> SUFFICES ASSUME HooksInit PROVE ShownInv
    OBVIOUS
  <2>1. /\ \A c \in Chats : shown[c] = <<>>
        /\ \A r \in Runs : run[r].turns = <<>>
    BY DEF HooksInit, Unrun
  <2>2. QED
    BY <2>1 DEF ShownInv
<1>2. ASSUME PromptInv, HashesInv, ShownInv, [HooksNext]_hooksVars
      PROVE  ShownInv'
  <2>0. /\ PromptTypeOK /\ Len(made) \in Nat /\ made \in Seq(Turn)
        /\ \A c \in Chats : \A i \in 1 .. Len(shown[c]) : shown[c][i] \in 1 .. Len(made)
        /\ \A r \in Runs : \A i \in 1 .. Len(run[r].turns) : run[r].turns[i] \in 1 .. Len(made)
    BY <1>2 DEF PromptInv, HashesInv, TurnsTypeOK, LogTypeOK
  <2>1. ASSUME UNCHANGED <<made, shown>>,
               \A r \in Runs : \A i \in 1 .. Len(run'[r].turns) :
                 made[run'[r].turns[i]].chat = run'[r].chat
        PROVE  ShownInv'
    BY <1>2, <2>1 DEF ShownInv
  <2>2. CASE UNCHANGED <<made, shown, run>>
    BY <1>2, <2>2 DEF ShownInv
  <2>3. ASSUME NEW c \in Chats, NEW t \in Texts, Submit(c, t) \/ Pass(c, t) \/ QueueMessage(c, t)
        PROVE  ShownInv'
    BY <2>2, <2>3 DEF Submit, Pass, QueueMessage, turnVars, logVars
  <2>4. ASSUME NEW c \in Chats, Deny(c) \/ Approve(c) \/ Send(c) \/ Discard(c)
        PROVE  ShownInv'
    BY <2>2, <2>4 DEF Deny, Approve, Send, Discard, turnVars, logVars
  <2>5. CASE Flip \/ UNCHANGED hooksVars
    BY <2>2, <2>5 DEF Flip, hooksVars, turnVars, logVars
  <2>6. ASSUME NEW c \in Chats, NEW extra \in Extras, TurnEnds(c, extra)
        PROVE  ShownInv'
    <3>1. /\ made' \in Seq(Turn) /\ Len(made') = Len(made) + 1
          /\ \A n \in 1 .. Len(made) : made'[n] = made[n]
          /\ made'[Len(made) + 1].chat = c
          /\ shown' = [shown EXCEPT ![c] = Append(shown[c], Len(made) + 1)]
      BY <1>2, <2>0, <2>6, TurnJoins
    <3>2. /\ \A d \in Chats \ {c} : shown'[d] = shown[d]
          /\ Len(shown'[c]) = Len(shown[c]) + 1 /\ Len(shown[c]) \in Nat
          /\ \A i \in 1 .. Len(shown[c]) : shown'[c][i] = shown[c][i]
          /\ shown'[c][Len(shown[c]) + 1] = Len(made) + 1
      BY <1>2, <3>1, ShownAfterTurn DEF HashesInv
    <3>3. run' = run
      BY <2>6 DEF TurnEnds, logVars
    <3>4. ASSUME NEW d \in Chats \ {c}, NEW i \in 1 .. Len(shown'[d])
          PROVE  made'[shown'[d][i]].chat = d
      <4>1. shown'[d][i] = shown[d][i] /\ shown[d][i] \in 1 .. Len(made)
        BY <2>0, <3>2
      <4>2. made[shown[d][i]].chat = d
        BY <1>2, <3>2 DEF ShownInv
      <4>3. QED
        BY <3>1, <4>1, <4>2
    <3>5. ASSUME NEW d \in Chats \ {c}, NEW i \in 1 .. Len(shown'[d]), NEW j \in 1 .. Len(shown'[d]),
                 shown'[d][i] = shown'[d][j]
          PROVE  i = j
      BY <1>2, <3>2, <3>5 DEF ShownInv
    <3>6. \A i \in 1 .. Len(shown'[c]) : i # Len(shown[c]) + 1 => i \in 1 .. Len(shown[c])
      BY <3>2
    <3>7. ASSUME NEW i \in 1 .. Len(shown'[c]) PROVE made'[shown'[c][i]].chat = c
      <4>1. CASE i = Len(shown[c]) + 1
        BY <3>1, <3>2, <4>1
      <4>2. CASE i # Len(shown[c]) + 1
        BY <1>2, <2>0, <3>1, <3>2, <3>6, <4>2 DEF ShownInv
      <4>3. QED
        BY <4>1, <4>2
    <3>8. ASSUME NEW i \in 1 .. Len(shown'[c]), NEW j \in 1 .. Len(shown'[c]),
                 shown'[c][i] = shown'[c][j]
          PROVE  i = j
      <4>1. \A k \in 1 .. Len(shown[c]) : shown'[c][k] # Len(made) + 1
        BY <2>0, <3>2
      <4>2. CASE i # Len(shown[c]) + 1 /\ j # Len(shown[c]) + 1
        <5>1. i \in 1 .. Len(shown[c]) /\ j \in 1 .. Len(shown[c])
          BY <3>6, <4>2
        <5>2. shown[c][i] = shown[c][j]
          BY <3>2, <3>8, <5>1
        <5>3. QED
          BY <1>2, <5>1, <5>2 DEF ShownInv
      <4>3. QED
        BY <3>2, <3>6, <3>8, <4>1, <4>2
    <3>9. \A r \in Runs : \A i \in 1 .. Len(run[r].turns) : made'[run[r].turns[i]].chat = run[r].chat
      BY <1>2, <2>0, <3>1 DEF ShownInv
    <3>10. ASSUME NEW d \in Chats
           PROVE  /\ \A i, j \in 1 .. Len(shown'[d]) : shown'[d][i] = shown'[d][j] => i = j
                  /\ \A i \in 1 .. Len(shown'[d]) : made'[shown'[d][i]].chat = d
      BY <3>4, <3>5, <3>7, <3>8
    <3>11. QED
      BY <3>3, <3>9, <3>10 DEF ShownInv
  <2>7. ASSUME NEW c \in Chats, Compact(c)
        PROVE  ShownInv'
    <3>1. /\ \A d \in Chats \ {c} : shown'[d] = shown[d]
          /\ Len(shown'[c]) = Len(shown[c]) - 1 /\ Len(shown[c]) \in Nat
          /\ \A i \in 1 .. Len(shown'[c]) :
               shown'[c][i] = shown[c][i + 1] /\ i + 1 \in 1 .. Len(shown[c])
      BY <1>2, <2>7, ShownAfterCompact DEF HashesInv
    <3>2. made' = made /\ run' = run
      BY <2>7 DEF Compact, logVars
    <3>3. ASSUME NEW i \in 1 .. Len(shown'[c]), NEW j \in 1 .. Len(shown'[c]),
                 shown'[c][i] = shown'[c][j]
          PROVE  i = j
      <4>1. i + 1 = j + 1
        BY <1>2, <3>1, <3>3 DEF ShownInv
      <4>2. QED
        BY <4>1
    <3>4. \A i \in 1 .. Len(shown'[c]) : made[shown'[c][i]].chat = c
      BY <1>2, <3>1 DEF ShownInv
    <3>5. ASSUME NEW d \in Chats
          PROVE  /\ \A i, j \in 1 .. Len(shown'[d]) : shown'[d][i] = shown'[d][j] => i = j
                 /\ \A i \in 1 .. Len(shown'[d]) : made[shown'[d][i]].chat = d
      <4>1. CASE d = c
        BY <3>3, <3>4, <4>1
      <4>2. CASE d # c
        BY <1>2, <3>1, <4>2 DEF ShownInv
      <4>3. QED
        BY <4>1, <4>2
    <3>6. QED
      BY <1>2, <3>2, <3>5 DEF ShownInv
  <2>8. ASSUME NEW c \in Chats, NEW r \in Runs, StopHook(r, c)
        PROVE  ShownInv'
    <3>1. PICK file \in [Chats -> Record], approved \in {Range(ledger), {}}, presumed \in Nat,
               old \in Seq(Hash) :
            /\ \/ file = state
               \/ file = [d \in Chats |-> NoRecord] /\ Under({"posting", "failed"}) # {}
            /\ presumed = Presumed(file[c].count, shown[c])
            /\ old = [i \in 1..presumed |-> HashOf(shown[c][i])]
            /\ shown[c] \in Seq(Nat) /\ shown[c] # <<>>
            /\ run[r].at = "unused"
            /\ run' \in [Runs -> Run] /\ \A q \in Runs \ {r} : run'[q] = run[q]
            /\ run'[r] = [at |-> "posting", chat |-> c, file |-> file, turns |-> shown[c],
                          approved |-> approved, presumed |-> presumed,
                          known |-> file[c].logged \o old, clean |-> FALSE]
      BY <1>2, <2>0, <2>8, RunStarts, Zenon
    <3>2. run'[r].turns = shown[c] /\ run'[r].chat = c
      BY <3>1
    <3>3. UNCHANGED <<made, shown>>
      BY <2>8 DEF StopHook, turnVars
    <3>4. \A i \in 1 .. Len(shown[c]) : made[shown[c][i]].chat = c
      BY <1>2 DEF ShownInv
    <3>5. ASSUME NEW q \in Runs, NEW i \in 1 .. Len(run'[q].turns)
          PROVE  made[run'[q].turns[i]].chat = run'[q].chat
      <4>1. CASE q = r
        BY <3>2, <3>4, <4>1
      <4>2. CASE q # r
        <5>1. run'[q] = run[q]
          BY <3>1, <4>2
        <5>2. QED
          BY <1>2, <5>1 DEF ShownInv
      <4>3. QED
        BY <4>1, <4>2
    <3>6. QED
      BY <2>1, <3>3, <3>5
  <2>9. ASSUME NEW r \in Runs, PostTurn(r) \/ PostFails(r) \/ Save(r) \/ Killed(r)
        PROVE  ShownInv'
    <3>1. UNCHANGED <<made, shown>>
      BY <2>9 DEF PostTurn, PostFails, Save, Killed, turnVars
    <3>2. /\ \A q \in Runs \ {r} : run'[q] = run[q]
          /\ run'[r].turns = run[r].turns /\ run'[r].chat = run[r].chat
      <4>1. CASE PostTurn(r)
        BY <1>2, <4>1, RunFilesTurn DEF PostTurn
      <4>2. CASE PostFails(r)
        BY <1>2, <4>2, RunFails DEF PostFails
      <4>3. CASE Save(r) \/ Killed(r)
        <5>1. \E clean \in BOOLEAN : run' = [run EXCEPT ![r] = Over(r, clean)]
          BY <4>3 DEF Save, Killed
        <5>2. QED
          BY <1>2, <5>1, RunEnds
      <4>4. QED
        BY <2>9, <4>1, <4>2, <4>3
    <3>3. QED
      BY <1>2, <2>1, <3>1, <3>2 DEF ShownInv
  <2>10. QED
    BY <1>2, <2>3, <2>4, <2>5, <2>6, <2>7, <2>8, <2>9, Zenon DEF HooksNext
<1>3. QED
  BY <1>1, <1>2, PromptInvInductive, HashesInvInductive, PTL DEF HooksSpec

\* The hash of a turn, as it is defined in the module of the hooks.
LEMMA HashInMade ==
  ASSUME NEW n
  PROVE  HashOf(n) = HashIn(made, n)
BY DEF HashOf, HashIn

\* A step of the chats or of the editor.
LEMMA OnceFramed ==
  ASSUME HashesInv, OnceInv, UNCHANGED <<state, run, rows, disturbed>>,
         Len(made') \in Nat, Len(made) <= Len(made'),
         \A n \in 1 .. Len(made) : made'[n] = made[n]
  PROVE  OnceInv'
<1> SUFFICES ASSUME Undisturbed' PROVE FileInv' /\ AloneInv' /\ FiledInv'
  BY DEF OnceInv
<1>0. FileInv /\ AloneInv /\ FiledInv
  BY DEF OnceInv, Undisturbed
<1>1. Len(made) \in Nat /\ state \in [Chats -> Record] /\ run \in [Runs -> Run]
  BY DEF HashesInv, TurnsTypeOK, LogTypeOK
<1>2. ASSUME NEW s \in Seq(Hash), Matched(s, made) PROVE Matched(s, made')
  BY <1>1, <1>2, MatchedStays
<1>3. FileInv'
  <2>1. \A c \in Chats : state[c].logged \in Seq(Hash)
    BY <1>1 DEF Record
  <2>2. QED
    BY <1>0, <1>2, <2>1 DEF FileInv
<1>4. AloneInv'
  <2>1. \A r \in Runs : run[r].known \in Seq(Hash)
    BY <1>1, RunFields
  <2>2. QED
    BY <1>0, <1>2, <2>1 DEF AloneInv
<1>5. FiledInv'
  <2>1. \A i \in 1 .. Len(rows) : KeyIn(made', rows[i].turn) = KeyIn(made, rows[i].turn)
    BY DEF HashesInv, LogTypeOK, KeyIn, HashIn
  <2>2. QED
    BY <1>0, <2>1 DEF FiledInv
<1>6. QED
  BY <1>3, <1>4, <1>5

\* What a run that starts alone takes as filed.
LEMMA KnownAtStart ==
  ASSUME HashesInv, ShownInv, FileInv, NEW c \in Chats, NEW presumed \in Nat, NEW old \in Seq(Hash),
         shown[c] \in Seq(Nat), shown[c] # <<>>,
         presumed = Presumed(state[c].count, shown[c]),
         old = [i \in 1 .. presumed |-> HashOf(shown[c][i])]
  PROVE  /\ Matched(state[c].logged \o old, made)
         /\ Range(state[c].logged) \subseteq Range(state[c].logged \o old)
<1>1. state[c].count \in Nat /\ state[c].logged \in Seq(Hash)
  <2>1. state[c] \in Record
    BY DEF HashesInv, LogTypeOK
  <2>2. QED
    BY <2>1 DEF Record
<1>2. presumed < Len(shown[c]) /\ (state[c].count = 0 => presumed = 0)
  BY <1>1, PresumedBound
<1>3. CASE state[c].count = 0
  <2>1. old = <<>>
    BY <1>2, <1>3
  <2>2. state[c].logged \o old = state[c].logged
    BY <1>1, <2>1, ConcatEmptySeq
  <2>3. QED
    BY <2>2 DEF FileInv
<1>4. CASE state[c].count # 0
  <2>1. state[c].logged = <<>>
    BY <1>1, <1>4 DEF FileInv
  <2>2. state[c].logged \o old = old
    BY <2>1, ConcatEmptySeq
  <2>3. old = [i \in 1 .. presumed |-> HashIn(made, shown[c][i])]
    BY HashInMade
  <2>4. /\ \A i, j \in 1 .. Len(shown[c]) : shown[c][i] = shown[c][j] => i = j
        /\ \A i \in 1 .. Len(shown[c]) : shown[c][i] \in 1 .. Len(made)
    BY DEF ShownInv, HashesInv, TurnsTypeOK
  <2>5. presumed <= Len(shown[c])
    BY <1>2
  <2>6. Matched([i \in 1 .. presumed |-> HashIn(made, shown[c][i])], made)
    BY <2>3, <2>4, <2>5, ShownIsMatched
  <2>7. Range(<<>>) = {}
    BY DEF Range
  <2>8. QED
    BY <2>1, <2>2, <2>3, <2>6, <2>7
<1>5. QED
  BY <1>3, <1>4

\* A run that begins alone works on the file as it is.
LEMMA StartKeepsOnce ==
  ASSUME PromptInv, HashesInv, ShownInv, OnceInv, NEW r \in Runs, NEW c \in Chats, StopHook(r, c)
  PROVE  OnceInv'
<1> SUFFICES ASSUME Undisturbed' PROVE FileInv' /\ AloneInv' /\ FiledInv'
  BY DEF OnceInv
<1>0. PromptTypeOK
  BY DEF PromptInv
<1>1. PICK file \in [Chats -> Record], approved \in {Range(ledger), {}}, presumed \in Nat,
           old \in Seq(Hash) :
        /\ \/ file = state
           \/ file = [d \in Chats |-> NoRecord] /\ Under({"posting", "failed"}) # {}
        /\ presumed = Presumed(file[c].count, shown[c])
        /\ old = [i \in 1..presumed |-> HashOf(shown[c][i])]
        /\ shown[c] \in Seq(Nat) /\ shown[c] # <<>>
        /\ run[r].at = "unused"
        /\ run' \in [Runs -> Run] /\ \A q \in Runs \ {r} : run'[q] = run[q]
        /\ run'[r] = [at |-> "posting", chat |-> c, file |-> file, turns |-> shown[c],
                      approved |-> approved, presumed |-> presumed,
                      known |-> file[c].logged \o old, clean |-> FALSE]
  BY <1>0, RunStarts, Zenon
<1>2. /\ Under({"posting", "failed"}) = {} /\ ~ disturbed
      /\ UNCHANGED <<made, state, rows>>
  BY DEF StopHook, turnVars, Undisturbed
<1>3. FileInv /\ AloneInv /\ FiledInv
  BY <1>2 DEF OnceInv, Undisturbed
<1>4. \A q \in Runs : ~ UnderWay(run[q])
  BY <1>2 DEF Under, UnderWay
<1>5. file = state
  BY <1>1, <1>2
<1>6. /\ Matched(state[c].logged \o old, made)
      /\ Range(state[c].logged) \subseteq Range(state[c].logged \o old)
  BY <1>1, <1>3, <1>5, KnownAtStart
<1>7. /\ run'[r].file = state /\ run'[r].chat = c /\ run'[r].known = state[c].logged \o old
      /\ run'[r].at = "posting"
  BY <1>1, <1>5
<1>8. \A q \in Runs : UnderWay(run'[q]) => q = r
  BY <1>1, <1>4
<1>9. FileInv'
  BY <1>2, <1>3 DEF FileInv
<1>10. AloneInv'
  BY <1>2, <1>6, <1>7, <1>8 DEF AloneInv
<1>11. \A key : Taken(key, state, run) => Taken(key, state', run')
  BY <1>2, <1>4 DEF Taken
<1>12. FiledInv'
  BY <1>2, <1>3, <1>11 DEF FiledInv
<1>13. QED
  BY <1>9, <1>10, <1>12

\* A run that posts files a turn that no row files, and then takes it as filed.
LEMMA PostKeepsOnce ==
  ASSUME PromptInv, HashesInv, ShownInv, OnceInv, NEW r \in Runs, PostTurn(r)
  PROVE  OnceInv'
<1> SUFFICES ASSUME Undisturbed' PROVE FileInv' /\ AloneInv' /\ FiledInv'
  BY DEF OnceInv
<1> DEFINE n == NextTurn(r)
           c == run[r].chat
           key == KeyIn(made, n)
<1>1. /\ run[r].at = "posting" /\ Unfiled(r) # {} /\ rows' = Append(rows, RowOf(r, n))
      /\ run' = [run EXCEPT ![r].known = Append(@, HashOf(n))]
      /\ UNCHANGED <<made, state, disturbed>>
  BY DEF PostTurn, turnVars
<1>2. FileInv /\ AloneInv /\ FiledInv
  BY <1>1 DEF OnceInv, Undisturbed
<1>3. /\ run' \in [Runs -> Run] /\ \A q \in Runs \ {r} : run'[q] = run[q]
      /\ run'[r].known = Append(run[r].known, HashOf(n))
      /\ run'[r].at = run[r].at /\ run'[r].chat = run[r].chat /\ run'[r].file = run[r].file
  BY <1>1, RunFilesTurn
<1>4. armed \in BOOLEAN /\ Len(made) \in Nat
  BY DEF PromptInv, PromptTypeOK, HashesInv, TurnsTypeOK
<1>5. /\ rows' \in Seq(Row) /\ Len(rows') = Len(rows) + 1 /\ Len(rows) \in Nat
      /\ \A i \in 1 .. Len(rows) : rows'[i] = rows[i]
      /\ rows'[Len(rows) + 1].turn = n
  BY <1>1, <1>4, RowJoins
<1>6. /\ n \in 1 .. Len(made) /\ HashOf(n) \in Hash /\ run[r].known \in Seq(Hash)
      /\ HashOf(n) \notin Range(run[r].known)
      /\ \E i \in 1 .. Len(run[r].turns) : n = run[r].turns[i]
  BY <1>1, NextTurnIsUnfiled, HashIsHash, RunFields DEF HashesInv, LogTypeOK
<1>7. HashOf(n) = HashIn(made, n)
  BY HashInMade
<1>8. key[1] = c /\ key[2] = HashOf(n)
  <2>1. made[n].chat = c
    BY <1>6 DEF ShownInv
  <2>2. QED
    BY <1>7, <2>1 DEF KeyIn
<1> HIDE DEF n, key
<1>9. Range(run'[r].known) = Range(run[r].known) \cup {HashOf(n)}
  BY <1>3, <1>6, AppendRange
<1>10. UnderWay(run[r]) /\ \A q \in Runs : UnderWay(run'[q]) <=> UnderWay(run[q])
  BY <1>1, <1>3 DEF UnderWay
<1>11. FileInv'
  BY <1>1, <1>2 DEF FileInv
<1>12. AloneInv'
  <2>1. Matched(run'[r].known, made)
    BY <1>2, <1>3, <1>4, <1>6, <1>7, <1>10, MatchedGrows DEF AloneInv
  <2>2. \A q \in Runs : UnderWay(run'[q]) => q = r
    BY <1>2, <1>10 DEF AloneInv
  <2>3. run'[r].file = state /\ Range(state[c].logged) \subseteq Range(run'[r].known)
    BY <1>2, <1>3, <1>9, <1>10 DEF AloneInv
  <2>4. QED
    BY <1>1, <1>3, <2>1, <2>2, <2>3 DEF AloneInv
<1>13. \A k : Taken(k, state, run) => Taken(k, state, run')
  BY <1>3, <1>9, <1>10 DEF Taken
<1>14. Taken(key, state, run')
  BY <1>3, <1>8, <1>9, <1>10 DEF Taken
<1>15. ~ Taken(key, state, run)
  <2>1. \A q \in Runs : UnderWay(run[q]) => q = r
    BY <1>2, <1>10 DEF AloneInv
  <2>2. Range(state[c].logged) \subseteq Range(run[r].known)
    BY <1>2, <1>10 DEF AloneInv
  <2>3. QED
    BY <1>6, <1>8, <2>1, <2>2 DEF Taken
<1>16. FiledInv'
  <2>1. \A i \in 1 .. Len(rows') : i # Len(rows) + 1 => i \in 1 .. Len(rows)
    BY <1>5
  <2>2. \A i \in 1 .. Len(rows) :
          /\ KeyIn(made, rows'[i].turn) = KeyIn(made, rows[i].turn)
          /\ Taken(KeyIn(made, rows'[i].turn), state, run)
    BY <1>2, <1>5 DEF FiledInv
  <2>3. KeyIn(made, rows'[Len(rows) + 1].turn) = key
    BY <1>5 DEF key
  <2>4. \A i \in 1 .. Len(rows) : KeyIn(made, rows'[i].turn) # key
    BY <1>15, <2>2
  <2>5. ASSUME NEW i \in 1 .. Len(rows') PROVE Taken(KeyIn(made, rows'[i].turn), state, run')
    <3>1. CASE i = Len(rows) + 1
      BY <1>14, <2>3, <3>1
    <3>2. CASE i # Len(rows) + 1
      BY <1>13, <2>1, <2>2, <3>2
    <3>3. QED
      BY <3>1, <3>2
  <2>6. ASSUME NEW i \in 1 .. Len(rows'), NEW j \in 1 .. Len(rows'),
               KeyIn(made, rows'[i].turn) = KeyIn(made, rows'[j].turn)
        PROVE  i = j
    <3>1. CASE i # Len(rows) + 1 /\ j # Len(rows) + 1
      <4>1. i \in 1 .. Len(rows) /\ j \in 1 .. Len(rows)
        BY <2>1, <3>1
      <4>2. KeyIn(made, rows[i].turn) = KeyIn(made, rows[j].turn)
        BY <2>2, <2>6, <4>1
      <4>3. QED
        BY <1>2, <4>1, <4>2 DEF FiledInv
    <3>2. CASE i = Len(rows) + 1 /\ j # Len(rows) + 1
      BY <2>1, <2>3, <2>4, <2>6, <3>2
    <3>3. CASE i # Len(rows) + 1 /\ j = Len(rows) + 1
      BY <2>1, <2>3, <2>4, <2>6, <3>3
    <3>4. QED
      BY <3>1, <3>2, <3>3
  <2>7. QED
    BY <1>1, <2>5, <2>6 DEF FiledInv
<1>17. QED
  BY <1>11, <1>12, <1>16

\* A run whose post fails has disturbed the log, or filed nothing.
LEMMA FailKeepsOnce ==
  ASSUME PromptInv, HashesInv, OnceInv, NEW r \in Runs, PostFails(r)
  PROVE  OnceInv'
<1> SUFFICES ASSUME Undisturbed' PROVE FileInv' /\ AloneInv' /\ FiledInv'
  BY DEF OnceInv
<1>1. /\ run[r].at = "posting" /\ run' = [run EXCEPT ![r].at = "failed"]
      /\ UNCHANGED <<made, state, rows, disturbed>>
  BY DEF PostFails, turnVars, Undisturbed
<1>2. FileInv /\ AloneInv /\ FiledInv
  BY <1>1 DEF OnceInv, Undisturbed
<1>3. /\ run' \in [Runs -> Run] /\ \A q \in Runs \ {r} : run'[q] = run[q]
      /\ run'[r].at = "failed" /\ run'[r].known = run[r].known
      /\ run'[r].chat = run[r].chat /\ run'[r].file = run[r].file
  BY <1>1, RunFails
<1>4. \A q \in Runs : /\ UnderWay(run'[q]) <=> UnderWay(run[q])
                      /\ run'[q].known = run[q].known /\ run'[q].chat = run[q].chat
                      /\ run'[q].file = run[q].file
  BY <1>1, <1>3 DEF UnderWay
<1>5. FileInv'
  BY <1>1, <1>2 DEF FileInv
<1>6. AloneInv'
  BY <1>1, <1>2, <1>4 DEF AloneInv
<1>7. \A key : Taken(key, state, run) => Taken(key, state, run')
  BY <1>4 DEF Taken
<1>8. FiledInv'
  BY <1>1, <1>2, <1>7 DEF FiledInv
<1>9. QED
  BY <1>5, <1>6, <1>8

\* The run that is alone writes back all that it knows, since that is no more than the turns.
LEMMA SaveKeepsOnce ==
  ASSUME PromptInv, HashesInv, OnceInv, NEW r \in Runs, Save(r)
  PROVE  OnceInv'
<1> SUFFICES ASSUME Undisturbed' PROVE FileInv' /\ AloneInv' /\ FiledInv'
  BY DEF OnceInv
<1> DEFINE c == run[r].chat
           new == [count |-> 0, logged |-> Newest(run[r].known, MaxHashes)]
<1>1. /\ UnderWay(run[r]) /\ state' = [run[r].file EXCEPT ![c] = new]
      /\ \E clean \in BOOLEAN : run' = [run EXCEPT ![r] = Over(r, clean)]
      /\ UNCHANGED <<made, rows, disturbed>>
  BY DEF Save, turnVars, UnderWay
<1>2. FileInv /\ AloneInv /\ FiledInv
  BY <1>1 DEF OnceInv, Undisturbed
<1>3. /\ run' \in [Runs -> Run] /\ \A q \in Runs \ {r} : run'[q] = run[q]
      /\ run'[r].at = "over"
  BY <1>1, RunEnds
<1>4. /\ run[r].known \in Seq(Hash) /\ c \in Chats /\ state \in [Chats -> Record]
      /\ Len(made) \in Nat /\ Len(made) <= MaxTurns
  BY RunFields DEF HashesInv, LogTypeOK, TurnsTypeOK
<1>5. /\ run[r].file = state /\ Matched(run[r].known, made)
      /\ Range(state[c].logged) \subseteq Range(run[r].known)
      /\ \A q \in Runs : UnderWay(run[q]) => q = r
  BY <1>1, <1>2 DEF AloneInv
<1>6. new.logged = run[r].known /\ new.count = 0
  <2>1. Len(run[r].known) <= Len(made)
    BY <1>4, <1>5, MatchedIsShort
  <2>2. Len(run[r].known) <= MaxHashes
    BY <1>4, <2>1, HookBoundAssumption DEF Undisturbed
  <2>3. Newest(run[r].known, MaxHashes) = run[r].known
    BY <1>4, <2>2, NewestKeeps, HookBoundAssumption
  <2>4. QED
    BY <2>3
<1> HIDE DEF new
<1>7. state'[c] = new /\ \A d \in Chats \ {c} : state'[d] = state[d]
  BY <1>1, <1>4, <1>5
<1>8. \A q \in Runs : ~ UnderWay(run'[q])
  BY <1>3, <1>5 DEF UnderWay
<1>9. FileInv'
  <2>1. ASSUME NEW d \in Chats
        PROVE  /\ Matched(state'[d].logged, made)
               /\ state'[d].count > 0 => state'[d].logged = <<>>
    <3>1. CASE d = c
      BY <1>5, <1>6, <1>7, <3>1
    <3>2. CASE d # c
      BY <1>2, <1>7, <3>2 DEF FileInv
    <3>3. QED
      BY <3>1, <3>2
  <2>2. QED
    BY <1>1, <2>1 DEF FileInv
<1>10. AloneInv'
  BY <1>8 DEF AloneInv
<1>11. ASSUME NEW key, Taken(key, state, run), key[1] \in Chats
       PROVE  Taken(key, state', run')
  <2>1. CASE key[1] = c
    <3>1. key[2] \in Range(run[r].known)
      BY <1>5, <1>11, <2>1 DEF Taken
    <3>2. QED
      BY <1>6, <1>7, <2>1, <3>1 DEF Taken
  <2>2. CASE key[1] # c
    <3>1. key[2] \in Range(state[key[1]].logged)
      BY <1>5, <1>11, <2>2 DEF Taken
    <3>2. QED
      BY <1>7, <1>11, <2>2, <3>1 DEF Taken
  <2>3. QED
    BY <2>1, <2>2
<1>12. \A i \in 1 .. Len(rows) : KeyIn(made, rows[i].turn)[1] \in Chats
  <2>1. ASSUME NEW i \in 1 .. Len(rows) PROVE KeyIn(made, rows[i].turn)[1] \in Chats
    <3>1. rows[i].turn \in 1 .. Len(made)
      BY DEF HashesInv, LogTypeOK
    <3>2. made[rows[i].turn] \in Turn
      BY <3>1 DEF HashesInv, TurnsTypeOK
    <3>3. QED
      BY <3>2 DEF Turn, KeyIn
  <2>2. QED
    BY <2>1
<1>13. FiledInv'
  BY <1>1, <1>2, <1>11, <1>12 DEF FiledInv
<1>14. QED
  BY <1>9, <1>10, <1>13

\* OnceInv holds in every state.
LEMMA OnceInvInductive == HooksSpec => []OnceInv
<1>1. HooksInit => OnceInv
  <2> SUFFICES ASSUME HooksInit PROVE FileInv /\ AloneInv /\ FiledInv
    BY DEF OnceInv
  <2>1. FileInv
    <3>1. ASSUME NEW c \in Chats PROVE state[c].logged = <<>>
      <4>1. PICK n \in Counts : state[c] = [NoRecord EXCEPT !.count = n]
        BY DEF HooksInit
      <4>2. QED
        BY <4>1 DEF NoRecord
    <3>2. QED
      BY <3>1, EmptyIsMatched DEF FileInv
  <2>2. \A r \in Runs : ~ UnderWay(run[r])
    BY DEF HooksInit, Unrun, UnderWay
  <2>3. rows = <<>>
    BY DEF HooksInit
  <2>4. QED
    BY <2>1, <2>2, <2>3 DEF AloneInv, FiledInv
<1>2. ASSUME PromptInv, HashesInv, ShownInv, OnceInv, [HooksNext]_hooksVars
      PROVE  OnceInv'
  <2>0. PromptTypeOK /\ Len(made) \in Nat
    BY <1>2 DEF PromptInv, HashesInv, TurnsTypeOK
  <2>1. ASSUME UNCHANGED <<made, state, run, rows, disturbed>>
        PROVE  OnceInv'
    BY <1>2, <2>0, <2>1, OnceFramed
  <2>2. ASSUME NEW c \in Chats, NEW t \in Texts, Submit(c, t) \/ Pass(c, t) \/ QueueMessage(c, t)
        PROVE  OnceInv'
    BY <2>1, <2>2 DEF Submit, Pass, QueueMessage, turnVars, logVars
  <2>3. ASSUME NEW c \in Chats, Deny(c) \/ Approve(c) \/ Send(c) \/ Discard(c) \/ Compact(c)
        PROVE  OnceInv'
    BY <2>1, <2>3 DEF Deny, Approve, Send, Discard, Compact, turnVars, logVars
  <2>4. CASE Flip \/ UNCHANGED hooksVars
    BY <2>1, <2>4 DEF Flip, hooksVars, turnVars, logVars
  <2>5. ASSUME NEW c \in Chats, NEW extra \in Extras, TurnEnds(c, extra)
        PROVE  OnceInv'
    <3>1. /\ Len(made') = Len(made) + 1 /\ \A n \in 1 .. Len(made) : made'[n] = made[n]
      BY <1>2, <2>0, <2>5, TurnJoins
    <3>2. Len(made') \in Nat /\ Len(made) <= Len(made')
      BY <2>0, <3>1
    <3>3. QED
      BY <1>2, <2>5, <3>1, <3>2, OnceFramed DEF TurnEnds, logVars
  <2>6. ASSUME NEW r \in Runs, Killed(r)
        PROVE  OnceInv'
    BY <2>6 DEF Killed, OnceInv, Undisturbed
  <2>7. ASSUME NEW r \in Runs,
               (\E c \in Chats : StopHook(r, c)) \/ PostTurn(r) \/ PostFails(r) \/ Save(r)
        PROVE  OnceInv'
    BY <1>2, <2>7, StartKeepsOnce, PostKeepsOnce, FailKeepsOnce, SaveKeepsOnce
  <2>8. QED
    BY <1>2, <2>2, <2>3, <2>4, <2>5, <2>6, <2>7, Zenon DEF HooksNext
<1>3. QED
  BY <1>1, <1>2, PromptInvInductive, HashesInvInductive, ShownInvInductive, PTL DEF HooksSpec

\* A re-fire of the hook or a later event of the session never files a turn twice, as long as
\* runs neither overlap nor are killed, no answer is lost, and there are no more turns than
\* the state file keeps hashes for a chat.
THEOREM LoggedOnceUndisturbedHolds == HooksSpec => []LoggedOnceUndisturbed
<1>1. HashesInv /\ OnceInv => LoggedOnceUndisturbed
  <2> SUFFICES ASSUME HashesInv, OnceInv, Undisturbed, NEW i \in DOMAIN rows, NEW j \in DOMAIN rows,
                      HashOf(rows[i].turn) = HashOf(rows[j].turn),
                      made[rows[i].turn].chat = made[rows[j].turn].chat
               PROVE  i = j
    BY DEF LoggedOnceUndisturbed, Undisturbed
  <2>1. i \in 1 .. Len(rows) /\ j \in 1 .. Len(rows)
    BY DEF HashesInv, LogTypeOK
  <2>2. KeyIn(made, rows[i].turn) = KeyIn(made, rows[j].turn)
    BY HashInMade DEF KeyIn
  <2>3. QED
    BY <2>1, <2>2 DEF OnceInv, FiledInv
<1>2. QED
  BY <1>1, HashesInvInductive, OnceInvInductive, PTL
=============================================================================
