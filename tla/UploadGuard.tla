----------------------------- MODULE UploadGuard -----------------------------
(***************************************************************************)
(* Files attached in a chat page (extension/src/upload-guard.js,           *)
(* upload-core.js, installed by content-main.js): the change, drop or      *)
(* paste event is killed, every file is read and checked by the gateway,   *)
(* one after the other, and then all of them are handed to the page in a   *)
(* synthetic event, cleaned where needed, or none is.                      *)
(*                                                                         *)
(* Abstraction.  A file has a kind (what classifyFile says of it), and the *)
(* gateway finds personal data in it or not.  Reading it, asking the       *)
(* gateway and rebuilding an Office document may fail at any file.  Bytes, *)
(* archives and paragraphs are left out.                                   *)
(***************************************************************************)
EXTENDS Naturals, Sequences

CONSTANTS
  Files,       \* files a user may attach
  Kind,        \* Kind[f]: "text", "office", or "none" for what cannot be scanned
  Dirty,       \* files in which the gateway finds personal data
  Picks,       \* attachments the user makes
  MaxFiles,    \* bound: files of one attachment
  Installers   \* who installs the guard: "boot", content-main.js; "direct", a caller
               \* of installUploadGuard that passes a policy of its own

ASSUME FileAssumption ==
  /\ Kind \in [Files -> {"text", "office", "none"}]
  /\ Dirty \subseteq Files
  /\ MaxFiles \in Nat
  /\ Installers \subseteq {"boot", "direct"}

VARIABLES
  storage,  \* uploadPolicy in the extension's storage
  config,   \* CONFIG.uploadPolicy
  guard,    \* the policy of the installed guard; "none" before
  pick,     \* per attachment: how far it is
  audits    \* attachments and files of which an `unchecked` row was filed

uploadVars == <<storage, config, guard, pick, audits>>

Policies == {"block", "warn"}
Ways     == {"change", "drop", "paste"}

\* decideUpload and scrubOoxml: allow as it is, replace by what was cleaned, or block.
Blocked  == {"upload-unscannable", "upload-unreadable", "gateway-unreachable"}
Outcomes == {"allow", "replace"} \cup Blocked

\* "lost": decideAll was rejected, and nobody learns.
Pick == [at : {"unused", "deciding", "handed", "told", "lost"},
         way : Ways, files : Seq(Files),
         warned : BOOLEAN,            \* history: CONFIG said "warn" when it was made
         outcomes : Seq(Outcomes),    \* decisions so far
         given : Seq({"original", "cleaned"})]

Unused == [at |-> "unused", way |-> "change", files |-> <<>>, warned |-> FALSE,
           outcomes |-> <<>>, given |-> <<>>]

UploadInit ==
  /\ storage \in Policies
  /\ config = "unset"
  /\ guard = "none"
  /\ pick = [p \in Picks |-> Unused]
  /\ audits = {}

-----------------------------------------------------------------------------
(* Installation.                                                           *)

\* Mutant: the option is taken as it comes.
PolicyAsGiven(option) == option

\* installUploadGuard: everything that is not "warn" is "block".
PolicyOf(option) == IF option = "warn" THEN "warn" ELSE "block"

\* The module's last statement installs the guard, with what CONFIG holds by then:
\* no configuration can have arrived, because the listener is as old as the module.
Boot ==
  /\ "boot" \in Installers
  /\ guard = "none"
  /\ guard' = PolicyOf(config)
  /\ UNCHANGED <<storage, config, pick, audits>>

\* installUploadGuard called with a policy, as its contract allows.
InstallDirect(option) ==
  /\ "direct" \in Installers
  /\ guard = "none"
  /\ guard' = PolicyOf(option)
  /\ UNCHANGED <<storage, config, pick, audits>>

\* The bridge publishes the configuration; applyUploadGuard finds the guard installed.
PolicyArrives(event) ==
  /\ guard # "none"
  /\ config # event
  /\ event = storage
  /\ config' = event
  /\ UNCHANGED <<storage, guard, pick, audits>>

-----------------------------------------------------------------------------
(* An attachment.                                                          *)

\* The event is killed and the input emptied before anything is decided.
Attach(p, way, files) ==
  /\ guard # "none"
  /\ pick[p].at = "unused"
  /\ pick' = [pick EXCEPT ![p] =
       [at |-> "deciding", way |-> way, files |-> files, warned |-> (config = "warn"),
        outcomes |-> <<>>, given |-> <<>>]]
  /\ UNCHANGED <<storage, config, guard, audits>>

Undecided(p) == pick[p].at = "deciding" /\ Len(pick[p].outcomes) < Len(pick[p].files)
NextFile(p)  == pick[p].files[Len(pick[p].outcomes) + 1]

\* Mutant: without an answer of the gateway a file is let through.
OutcomesOfOpen(f) ==
  IF Kind[f] = "none" THEN {"upload-unscannable"}
  ELSE {"upload-unreadable", "allow", IF f \in Dirty THEN "replace" ELSE "allow"}

\* What may be decided of a file.
OutcomesOf(f) ==
  IF Kind[f] = "none" THEN {"upload-unscannable"}
  ELSE {"upload-unreadable", "gateway-unreachable", IF f \in Dirty THEN "replace" ELSE "allow"}

\* decideAll: the next file is read, sent to the gateway and decided.
Decide(p) ==
  /\ Undecided(p)
  /\ \E o \in OutcomesOf(NextFile(p)) :
       pick' = [pick EXCEPT ![p].outcomes = Append(@, o)]
  /\ UNCHANGED <<storage, config, guard, audits>>

\* The text of an Office document cannot be unescaped, or its archive not written:
\* scrubOoxml throws, and decideAll is rejected with nobody to catch it.
ScrubThrows(p) ==
  /\ Undecided(p)
  /\ Kind[NextFile(p)] = "office"
  /\ pick' = [pick EXCEPT ![p].at = "lost"]
  /\ UNCHANGED <<storage, config, guard, audits>>

Decided(p) == pick[p].at = "deciding" /\ Len(pick[p].outcomes) = Len(pick[p].files)

\* The files of an attachment that the policy lets through unscanned.
LetThrough(p) ==
  {i \in DOMAIN pick[p].outcomes : guard = "warn" /\ pick[p].outcomes[i] = "upload-unscannable"}

\* The files that are refused.
Refused(p) == {i \in DOMAIN pick[p].outcomes : pick[p].outcomes[i] \in Blocked} \ LetThrough(p)

\* auditUnscanned, called before it is known whether the attachment is refused.
Audit(p) == audits' = audits \cup {<<p, pick[p].files[i]>> : i \in LetThrough(p)}

\* settle finds a file to refuse: none is handed over, and the user is told.
SettleRefused(p) ==
  /\ Decided(p)
  /\ Refused(p) # {}
  /\ Audit(p)
  /\ pick' = [pick EXCEPT ![p].at = "told"]
  /\ UNCHANGED <<storage, config, guard>>

\* settle lets all pass: the page gets them in an event of the kind that was killed.
SettleHanded(p) ==
  /\ Decided(p)
  /\ Refused(p) = {}
  /\ Audit(p)
  /\ pick' = [pick EXCEPT ![p].at = "handed",
                          ![p].given = [i \in DOMAIN pick[p].files |->
                             IF pick[p].outcomes[i] = "replace" THEN "cleaned" ELSE "original"]]
  /\ UNCHANGED <<storage, config, guard>>

\* Mutant: a paste that could not be repeated is not reported.
SettleUnfiredSilently(p) ==
  /\ Decided(p)
  /\ Refused(p) = {}
  /\ Audit(p)
  /\ pick' = [pick EXCEPT ![p].at = IF pick[p].way = "paste" THEN "lost" ELSE "told"]
  /\ UNCHANGED <<storage, config, guard>>

\* The event cannot be built or does not carry the files: nothing is handed over.
SettleUnfired(p) ==
  /\ Decided(p)
  /\ Refused(p) = {}
  /\ Audit(p)
  /\ pick' = [pick EXCEPT ![p].at = "told"]
  /\ UNCHANGED <<storage, config, guard>>

\* The file lists a user may attach.
FileLists == UNION {[1..n -> Files] : n \in 1..MaxFiles}

UploadNext ==
  \/ Boot
  \/ \E policy \in Policies : InstallDirect(policy) \/ PolicyArrives(policy)
  \/ \E p \in Picks : \/ \E way \in Ways, files \in FileLists : Attach(p, way, files)
                      \/ Decide(p)
                      \/ ScrubThrows(p)
                      \/ SettleRefused(p)
                      \/ SettleHanded(p)
                      \/ SettleUnfired(p)

\* A read, a call with its timeout and a microtask come to their end.
UploadFairness ==
  \A p \in Picks : /\ WF_uploadVars(Decide(p) \/ ScrubThrows(p))
                   /\ WF_uploadVars(SettleRefused(p) \/ SettleHanded(p) \/ SettleUnfired(p))

UploadSpec == UploadInit /\ [][UploadNext]_uploadVars /\ UploadFairness

-----------------------------------------------------------------------------
(* Properties.                                                             *)

\* The variables hold what the code can put into them.
UploadTypeOK ==
  /\ storage \in Policies
  /\ config \in Policies \cup {"unset"}
  /\ guard \in Policies \cup {"none"}
  /\ pick \in [Picks -> Pick]
  /\ audits \subseteq Picks \X Files

\* settle and decideAll, over several files of which some fail: the page gets all files
\* of an attachment or none; a readable one only after the gateway answered, cleaned if
\* it found something; one that cannot be read only under "warn", with a row filed.
HandedOverIsVetted ==
  \A p \in Picks : pick[p].at = "handed" =>
    /\ DOMAIN pick[p].given = DOMAIN pick[p].files
    /\ \A i \in DOMAIN pick[p].files :
         LET f == pick[p].files[i] IN
         IF Kind[f] = "none"
         THEN guard = "warn" /\ <<p, f>> \in audits
         ELSE pick[p].given[i] = IF f \in Dirty THEN "cleaned" ELSE "original"

\* An attachment whose event was killed ends: the page gets it or the user is told.
\* Only an Office document that makes scrubOoxml throw leaves the user without a word.
AttachmentsEnd ==
  \A p \in Picks : pick[p].at = "deciding" ~>
    \/ pick[p].at \in {"handed", "told"}
    \/ /\ pick[p].at = "lost"
       /\ Len(pick[p].outcomes) < Len(pick[p].files)
       /\ Kind[NextFile(p)] = "office"

\* extension/CHATGPT_COVERAGE.md 246-249: with `uploadPolicy: "warn"` in storage "an
\* unreadable file is uploaded and audited instead"; the test at
\* tests/phase-upload.test.ts:270 says the policy is reachable from storage.
WarnIsHonoured ==
  \A p \in Picks : pick[p].at = "told" /\ pick[p].warned =>
    \A i \in Refused(p) : pick[p].outcomes[i] # "upload-unscannable"
=============================================================================
