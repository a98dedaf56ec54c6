----------------------------- MODULE AdminControl -----------------------------
(***************************************************************************)
(* What an administrator changes while the gateway runs: the configuration *)
(* of the surfaces (src/admin-store.ts, src/admin-api.ts), the registry of *)
(* redaction rules (src/redaction.ts behind src/control-api.ts), and the   *)
(* window that limits logins (src/admin-auth.ts).                          *)
(*                                                                         *)
(* The database is synchronous, so a handler runs to its end without       *)
(* interleaving; what can come between its writes is a failure of the      *)
(* database or a crash.  The configuration is kept twice, in the database  *)
(* and in a cache that is filled on first use and lost at a restart; the   *)
(* rules and the login attempts live in memory only.                       *)
(*                                                                         *)
(* Abstraction.  A configuration is a mode and a switch; an audit row is   *)
(* the configuration it says the surface has now.  A rule is its name.     *)
(***************************************************************************)
EXTENDS Naturals, Sequences, FiniteSets, SequencesExt

CONSTANTS
  Surfaces,    \* SURFACES
  Modes,       \* all modes
  ModesOf,     \* ModesOf[s]: the modes of surface s
  SeedMode,    \* SeedMode[s]: the mode of surface s in a new database
  None,        \* no configuration
  EnvRules,    \* CUSTOM_REGEX_RULES, in their order
  Defaults,    \* DEFAULT_RULES, in their order
  UiRules,     \* names an administrator gives to rules
  Window,      \* WINDOW_MS
  MaxAttempts, \* MAX_ATTEMPTS
  MaxTime,     \* bound: the clock
  MaxLogins    \* bound: login attempts

ASSUME SurfaceAssumption ==
  /\ ModesOf \in [Surfaces -> SUBSET Modes]
  /\ SeedMode \in [Surfaces -> Modes]
  /\ \A s \in Surfaces : SeedMode[s] \in ModesOf[s]
  /\ None \notin [mode : Modes, on : BOOLEAN]
ASSUME RegistryAssumption ==
  EnvRules \in Seq(Range(EnvRules)) /\ Defaults \in Seq(Range(Defaults))
ASSUME WindowAssumption ==
  /\ Window \in Nat \ {0} /\ MaxAttempts \in Nat \ {0}
  /\ MaxTime \in Nat /\ MaxLogins \in Nat

VARIABLES
  db,         \* table surface_config
  cache,      \* cfgCache
  audited,    \* per surface the configuration in its newest row of audit_log, if any
  orphan,     \* history: a configuration without audit row is in the database: "no",
              \* "dormant" (behind the cache) or "live" (served)
  rules,      \* RULES: the registry
  clock,      \* the time
  attempts,   \* attempts.get(ip): which of the admitted attempts are still in the list
  admitted,   \* history: the times of the attempts that were let through
  forgotten,  \* history: how many of them an earlier process let through
  turnedAway  \* history: the times of the attempts that were not

surfaceVars == <<db, cache, audited, orphan>>
loginVars   == <<clock, attempts, admitted, forgotten, turnedAway>>
adminVars   == <<surfaceVars, rules, loginVars>>

Config == [mode : Modes, on : BOOLEAN]
Seed(s) == [mode |-> SeedMode[s], on |-> TRUE]

Rule == [name : Range(EnvRules \o Defaults) \cup UiRules, custom : BOOLEAN, on : BOOLEAN]

\* buildRegistry: the custom rules in front of the defaults.
BuiltRegistry ==
  [i \in 1 .. Len(EnvRules \o Defaults) |->
     [name |-> (EnvRules \o Defaults)[i], custom |-> i <= Len(EnvRules), on |-> TRUE]]

AdminInit ==
  /\ db = [s \in Surfaces |-> Seed(s)]
  /\ cache = [s \in Surfaces |-> None]
  /\ audited = [s \in Surfaces |-> None]
  /\ orphan = [s \in Surfaces |-> "no"]
  /\ rules = BuiltRegistry
  /\ clock = 0
  /\ attempts = {}
  /\ admitted = <<>>
  /\ forgotten = 0
  /\ turnedAway = {}

-----------------------------------------------------------------------------
(* Surfaces.                                                               *)

\* getSurfaceConfig
Served(s) == IF cache[s] # None THEN cache[s] ELSE db[s]

\* GET /internal/config/:surface fills the cache.
ReadConfig(s) ==
  /\ cache' = [cache EXCEPT ![s] = Served(s)]
  /\ UNCHANGED <<db, audited, orphan, rules, loginVars>>

\* The bodies of PUT /admin/api/surfaces/:surface that pass validation: a mode of the
\* surface, a switch, or both; the rest of the configuration is kept.
Patched(s) ==
  {[mode |-> m, on |-> b] : m \in ModesOf[s] \cup {Served(s).mode}, b \in BOOLEAN}

\* Mutant: the cache keeps what it had.
PutStale(s, new) ==
  /\ new \in Patched(s)
  /\ db' = [db EXCEPT ![s] = new]
  /\ audited' = [audited EXCEPT ![s] = new]
  /\ cache' = [cache EXCEPT ![s] = Served(s)]
  /\ orphan' = [orphan EXCEPT ![s] = "no"]
  /\ UNCHANGED <<rules, loginVars>>

\* setSurfaceConfig: database, audit row, cache.
Put(s, new) ==
  /\ new \in Patched(s)
  /\ db' = [db EXCEPT ![s] = new]
  /\ audited' = [audited EXCEPT ![s] = new]
  /\ cache' = [cache EXCEPT ![s] = new]
  /\ orphan' = [orphan EXCEPT ![s] = "no"]
  /\ UNCHANGED <<rules, loginVars>>

\* The audit row cannot be written: 400, with the database changed and the cache not.
PutUnaudited(s, new) ==
  /\ new \in Patched(s)
  /\ db' = [db EXCEPT ![s] = new]
  /\ cache' = [cache EXCEPT ![s] = Served(s)]
  /\ orphan' = [orphan EXCEPT ![s] = IF @ = "live" THEN "live" ELSE "dormant"]
  /\ UNCHANGED <<audited, rules, loginVars>>

\* A new process: the rules are built again, and the list of attempts is empty.
NewProcess ==
  /\ rules' = BuiltRegistry
  /\ attempts' = {}
  /\ forgotten' = Len(admitted)
  /\ UNCHANGED <<clock, admitted, turnedAway>>

\* The gateway crashes between the two writes and starts again.
PutInterrupted(s, new) ==
  /\ new \in Patched(s)
  /\ db' = [db EXCEPT ![s] = new]
  /\ cache' = [t \in Surfaces |-> None]
  /\ orphan' = [t \in Surfaces |-> IF t = s \/ orphan[t] # "no" THEN "live" ELSE "no"]
  /\ NewProcess
  /\ UNCHANGED audited

\* The gateway stops and starts. Rules and attempts are forgotten, the database is not.
Restart ==
  /\ cache' = [s \in Surfaces |-> None]
  /\ orphan' = [s \in Surfaces |-> IF orphan[s] # "no" THEN "live" ELSE "no"]
  /\ NewProcess
  /\ UNCHANGED <<db, audited>>

-----------------------------------------------------------------------------
(* Rules: control-api.ts, pii-types of admin-api.ts.                       *)

Named(n)  == {i \in DOMAIN rules : rules[i].name = n}
FirstOf(n) == CHOOSE i \in Named(n) : \A j \in Named(n) : i <= j

\* setRuleEnabled
SwitchRule(n, on) ==
  /\ Named(n) # {}
  /\ rules' = [rules EXCEPT ![FirstOf(n)].on = on]
  /\ UNCHANGED <<surfaceVars, loginVars>>

\* Mutant: the new rule goes behind the defaults.
AddRuleBehind(n) ==
  /\ Named(n) = {}
  /\ rules' = Append(rules, [name |-> n, custom |-> TRUE, on |-> TRUE])
  /\ UNCHANGED <<surfaceVars, loginVars>>

\* addCustomRule: a name that is taken is refused.
AddRule(n) ==
  /\ Named(n) = {}
  /\ rules' = <<[name |-> n, custom |-> TRUE, on |-> TRUE]>> \o rules
  /\ UNCHANGED <<surfaceVars, loginVars>>

\* removeRule: default rules stay.
RemoveRule(n) ==
  /\ Named(n) # {}
  /\ rules[FirstOf(n)].custom
  /\ rules' = RemoveAt(rules, FirstOf(n))
  /\ UNCHANGED <<surfaceVars, loginVars>>

-----------------------------------------------------------------------------
(* Login.                                                                  *)

Recent == {n \in attempts : clock - admitted[n] < Window}

\* Mutant: what has left the window counts, too.
LoginUnfiltered ==
  /\ Len(admitted) + Cardinality(turnedAway) < MaxLogins
  /\ IF Cardinality(attempts) >= MaxAttempts
     THEN /\ attempts' = Recent
          /\ turnedAway' = turnedAway \cup {clock}
          /\ UNCHANGED admitted
     ELSE /\ attempts' = Recent \cup {Len(admitted) + 1}
          /\ admitted' = Append(admitted, clock)
          /\ UNCHANGED turnedAway
  /\ UNCHANGED <<clock, forgotten, rules, surfaceVars>>

\* allowLoginAttempt: at most MaxAttempts in a window; refused attempts are not recorded.
Login ==
  /\ Len(admitted) + Cardinality(turnedAway) < MaxLogins
  /\ IF Cardinality(Recent) >= MaxAttempts
     THEN /\ attempts' = Recent
          /\ turnedAway' = turnedAway \cup {clock}
          /\ UNCHANGED admitted
     ELSE /\ attempts' = Recent \cup {Len(admitted) + 1}
          /\ admitted' = Append(admitted, clock)
          /\ UNCHANGED turnedAway
  /\ UNCHANGED <<clock, forgotten, rules, surfaceVars>>

Tick ==
  /\ clock < MaxTime
  /\ clock' = clock + 1
  /\ UNCHANGED <<attempts, admitted, forgotten, turnedAway, rules, surfaceVars>>

-----------------------------------------------------------------------------

SurfaceNext ==
  \E s \in Surfaces :
    \/ ReadConfig(s)
    \/ \E new \in Config : Put(s, new) \/ PutUnaudited(s, new) \/ PutInterrupted(s, new)

RuleNext ==
  \E n \in Range(EnvRules \o Defaults) \cup UiRules :
    \/ \E on \in BOOLEAN : SwitchRule(n, on)
    \/ AddRule(n)
    \/ RemoveRule(n)

AdminNext == SurfaceNext \/ RuleNext \/ Login \/ Tick \/ Restart

AdminSpec == AdminInit /\ [][AdminNext]_adminVars

-----------------------------------------------------------------------------
(* Properties.                                                             *)

\* The variables hold what the code can put into them.
AdminTypeOK ==
  /\ db \in [Surfaces -> Config]
  /\ cache \in [Surfaces -> Config \cup {None}]
  /\ audited \in [Surfaces -> Config \cup {None}]
  /\ orphan \in [Surfaces -> {"no", "dormant", "live"}]
  /\ rules \in Seq(Rule)
  /\ clock \in Nat /\ admitted \in Seq(Nat) /\ forgotten \in 0 .. Len(admitted)
  /\ attempts \subseteq (forgotten + 1) .. Len(admitted)
  /\ turnedAway \subseteq Nat

\* What a surface is served is a mode it has, and what the newest audit row says of it (or
\* the seed, before the first); the one exception is a change whose audit row was lost,
\* from the next restart on until the next change.
TrailTellsServed ==
  \A s \in Surfaces :
    /\ Served(s).mode \in ModesOf[s]
    /\ orphan[s] # "live" =>
         Served(s) = IF audited[s] = None THEN Seed(s) ELSE audited[s]

\* Names that the environment gives twice, or to a rule beside a default of that name:
\* buildRegistry does not look.
Repeated ==
  {n \in Range(EnvRules \o Defaults) :
     \E i, j \in DOMAIN (EnvRules \o Defaults) :
       i # j /\ (EnvRules \o Defaults)[i] = n /\ (EnvRules \o Defaults)[j] = n}

\* However rules are added, removed and switched: no name is given twice but those that
\* were from the start, so that a switch and a removal find the rule they mean; the custom
\* rules precede the defaults, and the defaults are all there, in their order: on a tie of
\* matches the earlier rule wins, and a default is only ever switched off.
DefaultsStay ==
  /\ \A i, j \in DOMAIN rules :
       rules[i].name = rules[j].name => i = j \/ rules[i].name \in Repeated
  /\ \E k \in 0 .. Len(rules) :
       /\ \A i \in DOMAIN rules : rules[i].custom <=> i <= k
       /\ [i \in 1 .. (Len(rules) - k) |-> rules[i + k].name] = Defaults

\* The attempts this process let through from `from` on and before `to`.
Within(from, to) ==
  {i \in DOMAIN admitted : i > forgotten /\ from <= admitted[i] /\ admitted[i] < to}

\* In the life of one process no window of time, wherever it starts, has more attempts than
\* allowed (a restart forgets the attempts, and the window starts anew), and an attempt is
\* refused only if that many were let through within the window that ends there: refused
\* attempts do not prolong the lock-out.
LoginWindow ==
  /\ \A t \in 0 .. MaxTime : Cardinality(Within(t, t + Window)) <= MaxAttempts
  /\ \A t \in turnedAway :
       Cardinality({i \in DOMAIN admitted : admitted[i] <= t /\ t - admitted[i] < Window})
         >= MaxAttempts
=============================================================================
