----------------------------- MODULE ActionGuard -----------------------------
(***************************************************************************)
(* The code guard: the scan hook that runs after every edit of a coding    *)
(* agent (scripts/*-action-scan-hook.mjs), the scan and pending endpoints  *)
(* of the gateway (src/server.ts, src/action-scanner.ts), the store that   *)
(* collects findings per conversation (src/action-guard-store.ts) and the  *)
(* stop hook that turns them into one more round of the agent              *)
(* (scripts/claude-code-action-stop-hook.mjs).                             *)
(*                                                                         *)
(* The agent waits for its hooks, a hook for the gateway, and a scan for   *)
(* the classifier of tier 2; conversations, scans and hooks interleave at  *)
(* these waits.                                                            *)
(*                                                                         *)
(* Abstraction.  A finding is the key the store and the scanner compare    *)
(* findings by (category, line, message): it does not name the file.  What *)
(* the tiers find in an edited file is nondeterministic.  A conversation   *)
(* is one of Claude Code; for Cursor the repository has the scan hook, but *)
(* no stop hook.  The ring of the security log is modelled in              *)
(* ProxyPipeline; here its rows stay until the gateway restarts.           *)
(***************************************************************************)
EXTENDS Integers, FiniteSets

CONSTANTS
  Convs,       \* conversations
  Keys,        \* findings, by their key
  CapPerConv,  \* CAP_PER_CONV of the store
  Slots,       \* bound: scans under way at a time
  Faults       \* failures that may happen: "skip", "timeout", "stop", "restart"

ASSUME CapAssumption   == CapPerConv \in Nat
ASSUME KeyAssumption   == IsFiniteSet(Keys)
ASSUME FaultAssumption == Faults \subseteq {"skip", "timeout", "stop", "restart"}

VARIABLES
  turn,       \* the agent: "idle", "working", or in its stop hook: "asking"
              \* the gateway, "answered" by it
  active,     \* stop_hook_active: this turn was continued by the stop hook
  scans,      \* per slot: a scan and the hook that waits for it
  store,      \* actionGuardStore
  reply,      \* findings on their way to the stop hook
  audit,      \* securityLog: findings with an "action-guard" row
  turnFound,  \* history: findings of scans of the present turn
  faulty      \* history: a failure touched the present turn

vars == <<turn, active, scans, store, reply, audit, turnFound, faulty>>

\* "hook": the hook has started; "scanning": the gateway waits for tier 2;
\* "detached": it still does, but the hook has given up.
Scan == [conv : Convs, phase : {"hook", "scanning", "detached"}, tier1 : SUBSET Keys]
Free == [phase |-> "free"]

Smaller(a, b) == IF a < b THEN a ELSE b

\* The agent waits for the hook of an edit.
Waiting(c) == \E s \in Slots : scans[s].phase \in {"hook", "scanning"} /\ scans[s].conv = c

SetPhase(s, phase) == scans' = [scans EXCEPT ![s].phase = phase]

-----------------------------------------------------------------------------
(* Scans.                                                                  *)

\* The agent runs its tools, several in parallel: edits land, their hooks start,
\* and tier 1 will find tier1[s] in the file the hook in slot s reads.
Edit(c, tier1) ==
  /\ turn[c] = "working"
  /\ ~ Waiting(c)
  /\ \A s \in DOMAIN tier1 : scans[s] = Free
  /\ scans' = [s \in Slots |-> IF s \in DOMAIN tier1
                               THEN [conv |-> c, phase |-> "hook", tier1 |-> tier1[s]]
                               ELSE scans[s]]
  /\ UNCHANGED <<turn, active, store, reply, audit, turnFound, faulty>>

\* The hook has nothing to send (no file, no session) or reaches no gateway.
HookSkips(s) ==
  /\ "skip" \in Faults
  /\ scans[s].phase = "hook"
  /\ scans' = [scans EXCEPT ![s] = Free]
  /\ faulty' = [faulty EXCEPT ![scans[s].conv] = TRUE]
  /\ UNCHANGED <<turn, active, store, reply, audit, turnFound>>

\* POST /action-guard/scan reaches the gateway: tier 2 starts beside tier 1.
ScanStarts(s) ==
  /\ scans[s].phase = "hook"
  /\ SetPhase(s, "scanning")
  /\ UNCHANGED <<turn, active, store, reply, audit, turnFound, faulty>>

\* The hook gives up after its timeout; the gateway goes on.
HookTimesOut(s) ==
  /\ "timeout" \in Faults
  /\ scans[s].phase = "scanning"
  /\ SetPhase(s, "detached")
  /\ faulty' = [faulty EXCEPT ![scans[s].conv] = TRUE]
  /\ UNCHANGED <<turn, active, store, reply, audit, turnFound>>

\* Mutant: a conversation has no bound.
AppendedUncapped(held, found) == {held \cup found}

\* Mutant: the findings of a scan replace those of the scans before it.
AppendedReplacing(held, found) == {found}

\* append: findings are added in their order until the cap is reached.
Appended(held, found) ==
  {more \in SUBSET (held \cup found) :
     /\ held \subseteq more
     /\ Cardinality(more) = Smaller(CapPerConv, Cardinality(held \cup found))}

\* Mutant: findings nobody waits for are not logged.
ScanEndsUnlogged(s, tier2) ==
  LET c     == scans[s].conv
      found == scans[s].tier1 \cup tier2
  IN
  /\ scans[s].phase \in {"scanning", "detached"}
  /\ scans' = [scans EXCEPT ![s] = Free]
  /\ IF found = {}
     THEN UNCHANGED <<store, audit>>
     ELSE /\ \E more \in Appended(store[c], found) : store' = [store EXCEPT ![c] = more]
          /\ audit' = IF scans[s].phase = "scanning"
                      THEN [audit EXCEPT ![c] = @ \cup found] ELSE audit
  /\ turnFound' = [turnFound EXCEPT ![c] = @ \cup found]
  /\ UNCHANGED <<turn, active, reply, faulty>>

\* Tier 2 answers; with no findings also when it fails or times out.
ScanEnds(s, tier2) ==
  LET c     == scans[s].conv
      found == scans[s].tier1 \cup tier2
  IN
  /\ scans[s].phase \in {"scanning", "detached"}
  /\ scans' = [scans EXCEPT ![s] = Free]
  /\ IF found = {}
     THEN UNCHANGED <<store, audit>>
     ELSE /\ \E more \in Appended(store[c], found) : store' = [store EXCEPT ![c] = more]
          /\ audit' = [audit EXCEPT ![c] = @ \cup found]
  /\ turnFound' = [turnFound EXCEPT ![c] = @ \cup found]
  /\ UNCHANGED <<turn, active, reply, faulty>>

-----------------------------------------------------------------------------
(* The end of a turn.                                                      *)

\* Mutant: stop_hook_active is not looked at.
StopUnchecked(c) ==
  /\ turn[c] = "working"
  /\ ~ Waiting(c)
  /\ turn' = [turn EXCEPT ![c] = "asking"]
  /\ UNCHANGED <<active, scans, store, reply, audit, turnFound, faulty>>

\* The agent is through and its stop hook runs: a turn the hook has continued
\* before ends at once.
Stop(c) ==
  /\ turn[c] = "working"
  /\ ~ Waiting(c)
  /\ turn' = [turn EXCEPT ![c] = IF active[c] THEN "idle" ELSE "asking"]
  /\ UNCHANGED <<active, scans, store, reply, audit, turnFound, faulty>>

\* GET /action-guard/pending reads and clears the conversation: take.
Pending(c) ==
  /\ turn[c] = "asking"
  /\ turn' = [turn EXCEPT ![c] = "answered"]
  /\ reply' = [reply EXCEPT ![c] = store[c]]
  /\ store' = [store EXCEPT ![c] = {}]
  /\ UNCHANGED <<active, scans, audit, turnFound, faulty>>

\* The stop hook sends the agent back to work on the findings.
StopBlocks(c) ==
  /\ turn[c] = "answered"
  /\ reply[c] # {}
  /\ turn' = [turn EXCEPT ![c] = "working"]
  /\ active' = [active EXCEPT ![c] = TRUE]
  /\ reply' = [reply EXCEPT ![c] = {}]
  /\ UNCHANGED <<scans, store, audit, turnFound, faulty>>

StopPasses(c) ==
  /\ turn[c] = "answered"
  /\ reply[c] = {}
  /\ turn' = [turn EXCEPT ![c] = "idle"]
  /\ UNCHANGED <<active, scans, store, reply, audit, turnFound, faulty>>

\* The gateway cannot be reached, or its answer is lost: the turn ends.
StopFails(c) ==
  /\ "stop" \in Faults
  /\ turn[c] \in {"asking", "answered"}
  /\ turn' = [turn EXCEPT ![c] = "idle"]
  /\ reply' = [reply EXCEPT ![c] = {}]
  /\ UNCHANGED <<active, scans, store, audit, turnFound, faulty>>

\* The user's next message.
StartTurn(c) ==
  /\ turn[c] = "idle"
  /\ turn' = [turn EXCEPT ![c] = "working"]
  /\ active' = [active EXCEPT ![c] = FALSE]
  /\ turnFound' = [turnFound EXCEPT ![c] = {}]
  /\ faulty' = [faulty EXCEPT ![c] = \E s \in Slots : scans[s] # Free /\ scans[s].conv = c]
  /\ UNCHANGED <<scans, store, reply, audit>>

\* Store and log live in memory: a restart of the gateway empties them and ends
\* the scans under way.
GatewayRestarts ==
  /\ "restart" \in Faults
  /\ store' = [c \in Convs |-> {}]
  /\ audit' = [c \in Convs |-> {}]
  /\ scans' = [s \in Slots |->
       IF scans[s].phase = "hook" THEN scans[s] ELSE Free]
  /\ faulty' = [c \in Convs |-> TRUE]
  /\ UNCHANGED <<turn, active, reply, turnFound>>

-----------------------------------------------------------------------------

Init ==
  /\ turn = [c \in Convs |-> "idle"]
  /\ active = [c \in Convs |-> FALSE]
  /\ scans = [s \in Slots |-> Free]
  /\ store = [c \in Convs |-> {}]
  /\ reply = [c \in Convs |-> {}]
  /\ audit = [c \in Convs |-> {}]
  /\ turnFound = [c \in Convs |-> {}]
  /\ faulty = [c \in Convs |-> FALSE]

\* bound: one finding per tier and scan
FoundAtOnce == {{}} \cup {{k} : k \in Keys}

Batches == UNION {[edited -> FoundAtOnce] : edited \in SUBSET Slots \ {{}}}

Next ==
  \/ \E c \in Convs :
       \/ \E tier1 \in Batches : Edit(c, tier1)
       \/ Stop(c)
       \/ Pending(c)
       \/ StopBlocks(c)
       \/ StopPasses(c)
       \/ StopFails(c)
       \/ StartTurn(c)
  \/ \E s \in Slots :
       \/ HookSkips(s)
       \/ ScanStarts(s)
       \/ HookTimesOut(s)
       \/ \E tier2 \in FoundAtOnce : ScanEnds(s, tier2)
  \/ GatewayRestarts

\* Hooks and scans have timeouts.  An agent that may stop again and again does.
Fairness ==
  /\ \A c \in Convs :
       /\ SF_vars(Stop(c))
       /\ WF_vars(Pending(c))
       /\ WF_vars(StopBlocks(c))
       /\ WF_vars(StopPasses(c))
  /\ \A s \in Slots :
       /\ WF_vars(ScanStarts(s))
       /\ WF_vars(ScanEnds(s, {}))

Spec == Init /\ [][Next]_vars /\ Fairness

-----------------------------------------------------------------------------
(* Properties.                                                             *)

\* Every variable keeps its type, and every conversation its cap.
TypeOK ==
  /\ turn \in [Convs -> {"idle", "working", "asking", "answered"}]
  /\ active \in [Convs -> BOOLEAN]
  /\ scans \in [Slots -> Scan \cup {Free}]
  /\ store \in [Convs -> SUBSET Keys]
  /\ \A c \in Convs : Cardinality(store[c]) <= CapPerConv
  /\ reply \in [Convs -> SUBSET Keys]
  /\ audit \in [Convs -> SUBSET Keys]
  /\ turnFound \in [Convs -> SUBSET Keys]
  /\ faulty \in [Convs -> BOOLEAN]

\* What waits for the stop hook is on record for the security team under its
\* conversation, also when the hook of the scan has given up meanwhile and when
\* the cap has dropped a part of the findings.
HeldIsAudited == \A c \in Convs : store[c] \subseteq audit[c]

\* In a turn without failures the stop hook learns all findings of the turn (or
\* as many as the cap lets through), whichever way its scans interleave.
TurnFindingsTold ==
  [][\A c \in Convs :
       turn[c] = "answered" /\ turn'[c] # "answered" /\ ~ faulty[c] =>
         \/ turnFound[c] \subseteq reply[c]
         \/ Cardinality(reply[c]) = CapPerConv]_vars

\* The guard cannot trap a turn: it ends although every round of the agent may
\* bring new findings, and whatever fails.
TurnEnds == \A c \in Convs : turn[c] = "working" ~> turn[c] = "idle"

\* Findings are read and cleared when the turn ends: none is left for the next
\* turn once its scans are through.
ClearedAtStop ==
  \A c \in Convs :
    turn[c] = "idle" /\ (\A s \in Slots : scans[s] = Free) => store[c] = {}
=============================================================================
