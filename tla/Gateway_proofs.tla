--------------------------- MODULE Gateway_proofs ---------------------------
(***************************************************************************)
(* Theorems about what surrounds the proxy: the configuration of the       *)
(* surfaces, the registry of rules and the window of logins (AdminControl), *)
(* the verdicts for the editors (GuardEndpoints), the reframed stream      *)
(* (SseReframer), and all of them beside the hooks (MCGateway).            *)
(***************************************************************************)
EXTENDS MCGateway, TurnLog_proofs

-----------------------------------------------------------------------------
(* The administration.                                                     *)

-----------------------------------------------------------------------------
(* Surfaces.                                                               *)

\* What the trail says of a surface.
Said(s) == IF audited[s] = None THEN Seed(s) ELSE audited[s]

SurfaceTypeOK ==
  /\ db \in [Surfaces -> Config]
  /\ cache \in [Surfaces -> Config \cup {None}]
  /\ audited \in [Surfaces -> Config \cup {None}]
  /\ orphan \in [Surfaces -> {"no", "dormant", "live"}]

\* Database and cache apart: an unaudited change is behind the cache as long as it is
\* dormant, and without one the database agrees with the trail.
SurfaceInv(s) ==
  /\ db[s].mode \in ModesOf[s]
  /\ cache[s] # None => cache[s].mode \in ModesOf[s]
  /\ cache[s] # None /\ orphan[s] # "live" => cache[s] = Said(s)
  /\ orphan[s] = "no" => db[s] = Said(s)
  /\ orphan[s] = "dormant" => cache[s] # None

TrailInv == SurfaceTypeOK /\ \A s \in Surfaces : SurfaceInv(s)

\* "None" is no configuration.
LEMMA NoneIsNoConfig == None \notin Config
BY SurfaceAssumption DEF Config

\* A surface starts with one of its modes.
LEMMA SeedIsConfig ==
  ASSUME NEW s \in Surfaces
  PROVE  Seed(s) \in Config /\ Seed(s).mode \in ModesOf[s]
BY SurfaceAssumption DEF Seed, Config

\* What is served is a configuration.
LEMMA ServedIsConfig ==
  ASSUME TrailInv, NEW s \in Surfaces
  PROVE  Served(s) \in Config /\ Served(s).mode \in ModesOf[s]
BY DEF TrailInv, SurfaceTypeOK, SurfaceInv, Served

\* A body that passes validation names a mode of the surface.
LEMMA PatchedIsConfig ==
  ASSUME TrailInv, NEW s \in Surfaces, NEW new \in Patched(s)
  PROVE  new \in Config /\ new.mode \in ModesOf[s] /\ new # None
<1>1. PICK m \in ModesOf[s] \cup {Served(s).mode}, b \in BOOLEAN : new = [mode |-> m, on |-> b]
  BY DEF Patched
<1>2. m \in ModesOf[s]
  BY ServedIsConfig
<1>3. m \in Modes
  BY <1>2, SurfaceAssumption
<1>4. QED
  BY <1>1, <1>2, <1>3, NoneIsNoConfig DEF Config

\* Cache, database and audit trail stay apart only as SurfaceInv says, through failures,
\* crashes and restarts.
THEOREM TrailInvInductive == AdminSpec => []TrailInv
<1>1. AdminInit => TrailInv
  <2> SUFFICES ASSUME AdminInit PROVE TrailInv
    OBVIOUS
  <2>1. SurfaceTypeOK
    BY SeedIsConfig DEF AdminInit, SurfaceTypeOK
  <2>2. ASSUME NEW s \in Surfaces PROVE SurfaceInv(s)
    BY SeedIsConfig DEF AdminInit, SurfaceInv, Said
  <2>3. QED
    BY <2>1, <2>2 DEF TrailInv
<1>2. ASSUME TrailInv, [AdminNext]_adminVars
      PROVE  TrailInv'
  <2>1. CASE UNCHANGED surfaceVars
    BY <1>2, <2>1 DEF surfaceVars, TrailInv, SurfaceTypeOK, SurfaceInv, Said
  <2>2. ASSUME NEW s \in Surfaces, ReadConfig(s)
        PROVE  TrailInv'
    <3>1. Served(s) \in Config /\ Served(s).mode \in ModesOf[s]
      BY <1>2, ServedIsConfig
    <3>2. SurfaceTypeOK'
      BY <1>2, <2>2, <3>1 DEF ReadConfig, TrailInv, SurfaceTypeOK
    <3>3. ASSUME NEW t \in Surfaces PROVE SurfaceInv(t)'
      BY <1>2, <2>2, <3>1 DEF ReadConfig, TrailInv, SurfaceTypeOK, SurfaceInv, Said, Served
    <3>4. QED
      BY <3>2, <3>3 DEF TrailInv
  <2>3. ASSUME NEW s \in Surfaces, NEW new \in Config, Put(s, new)
        PROVE  TrailInv'
    <3>1. new \in Config /\ new.mode \in ModesOf[s] /\ new # None
      BY <1>2, <2>3, PatchedIsConfig DEF Put
    <3>2. SurfaceTypeOK'
      BY <1>2, <2>3, <3>1 DEF Put, TrailInv, SurfaceTypeOK
    <3>3. ASSUME NEW t \in Surfaces PROVE SurfaceInv(t)'
      BY <1>2, <2>3, <3>1 DEF Put, TrailInv, SurfaceTypeOK, SurfaceInv, Said
    <3>4. QED
      BY <3>2, <3>3 DEF TrailInv
  <2>4. ASSUME NEW s \in Surfaces, NEW new \in Config, PutUnaudited(s, new)
        PROVE  TrailInv'
    <3>1. new \in Config /\ new.mode \in ModesOf[s] /\ new # None
      BY <1>2, <2>4, PatchedIsConfig DEF PutUnaudited
    <3>2. Served(s) \in Config /\ Served(s).mode \in ModesOf[s] /\ Served(s) # None
      BY <1>2, ServedIsConfig, NoneIsNoConfig
    <3>3. SurfaceTypeOK'
      BY <1>2, <2>4, <3>1, <3>2 DEF PutUnaudited, TrailInv, SurfaceTypeOK
    <3>4. ASSUME NEW t \in Surfaces PROVE SurfaceInv(t)'
      BY <1>2, <2>4, <3>1, <3>2
      DEF PutUnaudited, TrailInv, SurfaceTypeOK, SurfaceInv, Said, Served
    <3>5. QED
      BY <3>3, <3>4 DEF TrailInv
  <2>5. ASSUME NEW s \in Surfaces, NEW new \in Config, PutInterrupted(s, new)
        PROVE  TrailInv'
    <3>1. new \in Config /\ new.mode \in ModesOf[s] /\ new # None
      BY <1>2, <2>5, PatchedIsConfig DEF PutInterrupted
    <3>2. SurfaceTypeOK'
      BY <1>2, <2>5, <3>1 DEF PutInterrupted, TrailInv, SurfaceTypeOK
    <3>3. ASSUME NEW t \in Surfaces PROVE SurfaceInv(t)'
      BY <1>2, <2>5, <3>1 DEF PutInterrupted, TrailInv, SurfaceTypeOK, SurfaceInv, Said
    <3>4. QED
      BY <3>2, <3>3 DEF TrailInv
  <2>6. CASE Restart
    <3>1. SurfaceTypeOK'
      BY <1>2, <2>6 DEF Restart, TrailInv, SurfaceTypeOK
    <3>2. ASSUME NEW t \in Surfaces PROVE SurfaceInv(t)'
      BY <1>2, <2>6 DEF Restart, TrailInv, SurfaceTypeOK, SurfaceInv, Said
    <3>3. QED
      BY <3>1, <3>2 DEF TrailInv
  <2>7. CASE SurfaceNext
    BY <2>7, <2>2, <2>3, <2>4, <2>5 DEF SurfaceNext
  <2>8. CASE RuleNext
    BY <2>8, <2>1 DEF RuleNext, SwitchRule, AddRule, RemoveRule
  <2>9. CASE Login \/ Tick
    BY <2>9, <2>1 DEF Login, Tick
  <2>10. CASE UNCHANGED adminVars
    BY <2>10, <2>1 DEF adminVars
  <2>11. QED
    BY <1>2, <2>6, <2>7, <2>8, <2>9, <2>10 DEF AdminNext
<1>3. QED
  BY <1>1, <1>2, PTL DEF AdminSpec

\* What a surface is served has a mode of the surface and is what its newest audit row
\* says, unless a change lost its row and the gateway has restarted since.
THEOREM TrailTellsServedHolds == AdminSpec => []TrailTellsServed
<1>1. TrailInv => TrailTellsServed
  <2> SUFFICES ASSUME TrailInv, NEW s \in Surfaces
               PROVE  /\ Served(s).mode \in ModesOf[s]
                      /\ orphan[s] # "live" => Served(s) = Said(s)
    BY DEF TrailTellsServed, Said
  <2>1. Served(s).mode \in ModesOf[s]
    BY ServedIsConfig
  <2>2. orphan[s] # "live" => Served(s) = Said(s)
    BY DEF TrailInv, SurfaceTypeOK, SurfaceInv, Served
  <2>3. QED
    BY <2>1, <2>2
<1>2. QED
  BY <1>1, TrailInvInductive, PTL

-----------------------------------------------------------------------------
(* Rules.                                                                  *)

\* r is a registry: a sequence of rules, k custom ones and the defaults, and no name is
\* given twice that was not from the start.
Registry(r, k) ==
  /\ r \in Seq(Rule)
  /\ k \in 0 .. Len(r)
  /\ \A i, j \in 1 .. Len(r) : r[i].name = r[j].name => i = j \/ r[i].name \in Repeated
  /\ \A i \in 1 .. Len(r) : r[i].custom <=> i <= k
  /\ Len(r) = k + Len(Defaults)
  /\ \A i \in 1 .. Len(Defaults) : r[i + k].name = Defaults[i]

RegistryInv == \E k \in Nat : Registry(rules, k)

\* The built-in rules are sequences.
LEMMA DefaultsLength ==
  /\ Len(EnvRules) \in Nat /\ DOMAIN EnvRules = 1 .. Len(EnvRules)
  /\ Len(Defaults) \in Nat /\ DOMAIN Defaults = 1 .. Len(Defaults)
BY RegistryAssumption

\* The registry a process starts with has the custom rules of the environment in front.
LEMMA BuiltRegistryIsRegistry == Registry(BuiltRegistry, Len(EnvRules))
<1> DEFINE all == EnvRules \o Defaults
           Names == Range(EnvRules) \cup Range(Defaults)
<1>1. EnvRules \in Seq(Names) /\ Defaults \in Seq(Names)
  <2>1. EnvRules \in Seq(Range(EnvRules)) /\ Defaults \in Seq(Range(Defaults))
    BY RegistryAssumption
  <2>2. Range(EnvRules) \subseteq Names /\ Range(Defaults) \subseteq Names
    OBVIOUS
  <2> HIDE DEF Names
  <2>3. QED
    BY <2>1, <2>2
<1>2. /\ all \in Seq(Names) /\ Len(all) = Len(EnvRules) + Len(Defaults)
      /\ \A i \in 1 .. Len(Defaults) : all[i + Len(EnvRules)] = Defaults[i]
  <2> HIDE DEF Names
  <2>1. QED
    BY <1>1
<1>3. /\ BuiltRegistry = [i \in 1 .. Len(all) |->
           [name |-> all[i], custom |-> i <= Len(EnvRules), on |-> TRUE]]
      /\ Rule = [name : Range(all) \cup UiRules, custom : BOOLEAN, on : BOOLEAN]
      /\ Repeated = {n \in Range(all) : \E i, j \in DOMAIN all : i # j /\ all[i] = n /\ all[j] = n}
  BY DEF BuiltRegistry, Rule, Repeated
<1> HIDE DEF all, Names
<1>4. Len(all) \in Nat /\ DOMAIN all = 1 .. Len(all)
  BY <1>2
<1>5. \A i \in 1 .. Len(all) : all[i] \in Range(all)
  BY <1>4 DEF Range
<1>6. ASSUME NEW i \in 1 .. Len(all)
      PROVE  [name |-> all[i], custom |-> i <= Len(EnvRules), on |-> TRUE] \in Rule
  BY <1>3, <1>5
<1>7. BuiltRegistry \in Seq(Rule) /\ Len(BuiltRegistry) = Len(all)
  BY <1>3, <1>4, <1>6
<1>8. /\ \A i \in 1 .. Len(all) : BuiltRegistry[i].name = all[i]
      /\ \A i \in 1 .. Len(all) : BuiltRegistry[i].custom <=> i <= Len(EnvRules)
  BY <1>3
<1>9. \A i, j \in 1 .. Len(all) : BuiltRegistry[i].name = BuiltRegistry[j].name =>
                                 i = j \/ BuiltRegistry[i].name \in Repeated
  <2> SUFFICES ASSUME NEW i \in 1 .. Len(all), NEW j \in 1 .. Len(all), all[i] = all[j], i # j
               PROVE  all[i] \in Repeated
    BY <1>8
  <2>1. i \in DOMAIN all /\ j \in DOMAIN all /\ all[i] \in Range(all)
    BY <1>4, <1>5
  <2>2. QED
    BY <1>3, <2>1
<1>10. ASSUME NEW i \in 1 .. Len(Defaults)
       PROVE  BuiltRegistry[i + Len(EnvRules)].name = Defaults[i]
  <2>1. i + Len(EnvRules) \in 1 .. Len(all)
    BY <1>2, DefaultsLength
  <2>2. QED
    BY <1>2, <1>8, <2>1
<1>11. Len(EnvRules) \in 0 .. Len(all)
  BY <1>2, DefaultsLength
<1>12. QED
  BY <1>2, <1>7, <1>8, <1>9, <1>10, <1>11 DEF Registry

\* A name that is taken belongs to a rule, and a switch and a removal find the first one.
LEMMA FirstIsOne ==
  ASSUME NEW k \in Nat, Registry(rules, k), NEW n, Named(n) # {}
  PROVE  FirstOf(n) \in 1 .. Len(rules) /\ rules[FirstOf(n)].name = n
<1>1. DOMAIN rules = 1 .. Len(rules)
  BY DEF Registry
<1>2. Named(n) \subseteq Nat
  BY <1>1 DEF Named
<1>3. \E i \in Named(n) : \A j \in Named(n) : i <= j
  BY <1>2, LeastNumber
<1>4. FirstOf(n) \in Named(n)
  BY <1>3 DEF FirstOf
<1>5. QED
  BY <1>1, <1>4 DEF Named

\* Switching a rule keeps the registry in shape.
LEMMA SwitchKeepsRegistry ==
  ASSUME NEW k \in Nat, Registry(rules, k), NEW n, NEW on \in BOOLEAN, SwitchRule(n, on)
  PROVE  Registry(rules', k)
<1>1. FirstOf(n) \in 1 .. Len(rules)
  BY FirstIsOne DEF SwitchRule
<1> DEFINE f == FirstOf(n)
           new == [name |-> rules[f].name, custom |-> rules[f].custom, on |-> on]
<1>2. rules[f] \in Rule
  BY <1>1 DEF Registry
<1>3. new \in Rule /\ [rules[f] EXCEPT !.on = on] = new
  BY <1>2 DEF Rule
<1>4. rules' = [rules EXCEPT ![f] = new]
  BY <1>3, Zenon DEF SwitchRule
<1> HIDE DEF f
<1>5. /\ rules' \in Seq(Rule) /\ Len(rules') = Len(rules)
      /\ \A i \in 1 .. Len(rules) :
           rules'[i].name = rules[i].name /\ (rules'[i].custom <=> rules[i].custom)
  BY <1>1, <1>3, <1>4 DEF Registry, f
<1>6. \A i, j \in 1 .. Len(rules') :
        rules'[i].name = rules'[j].name => i = j \/ rules'[i].name \in Repeated
  BY <1>5 DEF Registry
<1>7. \A i \in 1 .. Len(rules') : rules'[i].custom <=> i <= k
  BY <1>5 DEF Registry
<1>8. \A i \in 1 .. Len(Defaults) : rules'[i + k].name = Defaults[i]
  <2>1. \A i \in 1 .. Len(Defaults) : i + k \in 1 .. Len(rules)
    BY DefaultsLength DEF Registry
  <2>2. QED
    BY <1>5, <2>1 DEF Registry
<1>9. k \in 0 .. Len(rules') /\ Len(rules') = k + Len(Defaults)
  BY <1>5 DEF Registry
<1>10. QED
  BY <1>5, <1>6, <1>7, <1>8, <1>9 DEF Registry

\* A rule of a new name is put in front, and there is one custom rule more.
LEMMA AddKeepsRegistry ==
  ASSUME NEW k \in Nat, Registry(rules, k),
         NEW n \in Range(EnvRules \o Defaults) \cup UiRules, AddRule(n)
  PROVE  Registry(rules', k + 1)
<1> DEFINE new == [name |-> n, custom |-> TRUE, on |-> TRUE]
<1>1. new \in Rule
  BY DEF Rule
<1>2. rules' = <<new>> \o rules
  BY DEF AddRule
<1>3. rules \in Seq(Rule)
  BY DEF Registry
<1>4. /\ rules' \in Seq(Rule) /\ Len(rules') = Len(rules) + 1
      /\ rules'[1] = new
      /\ \A i \in 2 .. Len(rules) + 1 : rules'[i] = rules[i - 1]
  <2> HIDE DEF new
  <2>1. QED
    BY <1>1, <1>2, <1>3
<1>5. \A i \in 1 .. Len(rules) : rules[i].name # n
  BY <1>3 DEF AddRule, Named
<1>6. \A i, j \in 1 .. Len(rules') :
        rules'[i].name = rules'[j].name => i = j \/ rules'[i].name \in Repeated
  <2> SUFFICES ASSUME NEW i \in 1 .. Len(rules'), NEW j \in 1 .. Len(rules'),
                      rules'[i].name = rules'[j].name, rules'[i].name \notin Repeated
               PROVE  i = j
    OBVIOUS
  <2>1. Len(rules) \in Nat
    BY <1>3
  <2>2. CASE i = 1 /\ j = 1
    BY <2>2
  <2>3. CASE i = 1 /\ j # 1
    <3>1. j - 1 \in 1 .. Len(rules) /\ rules'[j] = rules[j - 1]
      BY <1>4, <2>1, <2>3
    <3>2. QED
      BY <1>4, <1>5, <2>3, <3>1
  <2>4. CASE i # 1 /\ j = 1
    <3>1. i - 1 \in 1 .. Len(rules) /\ rules'[i] = rules[i - 1]
      BY <1>4, <2>1, <2>4
    <3>2. QED
      BY <1>4, <1>5, <2>4, <3>1
  <2>5. CASE i # 1 /\ j # 1
    <3>1. /\ i - 1 \in 1 .. Len(rules) /\ rules'[i] = rules[i - 1]
          /\ j - 1 \in 1 .. Len(rules) /\ rules'[j] = rules[j - 1]
      BY <1>4, <2>1, <2>5
    <3>2. i - 1 = j - 1
      BY <3>1 DEF Registry
    <3>3. QED
      BY <3>2
  <2>6. QED
    BY <2>2, <2>3, <2>4, <2>5
<1>7. \A i \in 1 .. Len(rules') : rules'[i].custom <=> i <= k + 1
  <2> SUFFICES ASSUME NEW i \in 1 .. Len(rules') PROVE rules'[i].custom <=> i <= k + 1
    OBVIOUS
  <2>1. CASE i = 1
    BY <1>4, <2>1
  <2>2. CASE i # 1
    <3>1. i - 1 \in 1 .. Len(rules) /\ rules'[i] = rules[i - 1]
      BY <1>3, <1>4, <2>2
    <3>2. rules[i - 1].custom <=> i - 1 <= k
      BY <3>1 DEF Registry
    <3>3. QED
      BY <3>1, <3>2
  <2>3. QED
    BY <2>1, <2>2
<1>8. \A i \in 1 .. Len(Defaults) : rules'[i + (k + 1)].name = Defaults[i]
  <2> SUFFICES ASSUME NEW i \in 1 .. Len(Defaults)
               PROVE  rules'[i + (k + 1)].name = Defaults[i]
    OBVIOUS
  <2>1. i + (k + 1) \in 2 .. Len(rules) + 1 /\ i + (k + 1) - 1 = i + k
    BY DefaultsLength DEF Registry
  <2>2. rules'[i + (k + 1)] = rules[i + k]
    BY <1>4, <2>1
  <2>3. QED
    BY <2>2 DEF Registry
<1>9. k + 1 \in 0 .. Len(rules') /\ Len(rules') = (k + 1) + Len(Defaults)
  <2>1. Len(rules) = k + Len(Defaults) /\ k <= Len(rules)
    BY DEF Registry
  <2>2. QED
    BY <1>3, <1>4, <2>1, DefaultsLength
<1>10. QED
  BY <1>4, <1>6, <1>7, <1>8, <1>9 DEF Registry

\* A custom rule that is removed leaves the others where they were.
LEMMA RemoveKeepsRegistry ==
  ASSUME NEW k \in Nat, Registry(rules, k), NEW n, RemoveRule(n)
  PROVE  k # 0 /\ Registry(rules', k - 1)
<1> DEFINE f == FirstOf(n)
<1>1. f \in 1 .. Len(rules) /\ rules[f].custom
  BY FirstIsOne DEF RemoveRule
<1>2. rules \in Seq(Rule) /\ Len(rules) \in Nat /\ f <= k /\ k <= Len(rules) /\ k # 0
  BY <1>1 DEF Registry
<1>3. rules' = SubSeq(rules, 1, f - 1) \o SubSeq(rules, f + 1, Len(rules))
  BY DEF RemoveRule, RemoveAt
<1> HIDE DEF f
<1>4. /\ SubSeq(rules, 1, f - 1) \in Seq(Rule) /\ Len(SubSeq(rules, 1, f - 1)) = f - 1
      /\ \A i \in 1 .. f - 1 : SubSeq(rules, 1, f - 1)[i] = rules[i]
  BY <1>1, <1>2
<1>5. /\ SubSeq(rules, f + 1, Len(rules)) \in Seq(Rule)
      /\ Len(SubSeq(rules, f + 1, Len(rules))) = Len(rules) - f
      /\ \A i \in 1 .. Len(rules) - f : SubSeq(rules, f + 1, Len(rules))[i] = rules[i + f]
  BY <1>1, <1>2
<1>6. /\ rules' \in Seq(Rule) /\ Len(rules') = Len(rules) - 1
      /\ \A i \in 1 .. Len(rules) - 1 : rules'[i] = IF i < f THEN rules[i] ELSE rules[i + 1]
  <2> DEFINE before == SubSeq(rules, 1, f - 1)
             behind == SubSeq(rules, f + 1, Len(rules))
  <2>1. /\ before \in Seq(Rule) /\ Len(before) = f - 1
        /\ \A i \in 1 .. f - 1 : before[i] = rules[i]
    BY <1>4
  <2>2. /\ behind \in Seq(Rule) /\ Len(behind) = Len(rules) - f
        /\ \A i \in 1 .. Len(rules) - f : behind[i] = rules[i + f]
    BY <1>5
  <2>3. rules' = before \o behind
    BY <1>3
  <2> HIDE DEF before, behind
  <2>4. rules' \in Seq(Rule) /\ Len(rules') = Len(rules) - 1
    <3>1. rules' \in Seq(Rule) /\ Len(rules') = Len(before) + Len(behind)
      BY <2>1, <2>2, <2>3
    <3>2. (f - 1) + (Len(rules) - f) = Len(rules) - 1
      BY <1>1, <1>2
    <3>3. QED
      BY <2>1, <2>2, <3>1, <3>2
  <2>5. ASSUME NEW i \in 1 .. Len(rules) - 1
        PROVE  rules'[i] = IF i < f THEN rules[i] ELSE rules[i + 1]
    <3>1. CASE i < f
      BY <1>1, <1>2, <2>1, <2>2, <2>3, <3>1
    <3>2. CASE ~ (i < f)
      <4>1. i - (f - 1) \in 1 .. Len(rules) - f /\ (i - (f - 1)) + f = i + 1
        BY <1>1, <1>2, <3>2
      <4>2. rules'[i] = behind[i - (f - 1)]
        BY <1>1, <1>2, <2>1, <2>2, <2>3, <3>2
      <4>3. QED
        BY <2>2, <3>2, <4>1, <4>2
    <3>3. QED
      BY <3>1, <3>2
  <2>6. QED
    BY <2>4, <2>5
<1>7. \A i, j \in 1 .. Len(rules') :
        rules'[i].name = rules'[j].name => i = j \/ rules'[i].name \in Repeated
  <2> SUFFICES ASSUME NEW i \in 1 .. Len(rules'), NEW j \in 1 .. Len(rules'),
                      rules'[i].name = rules'[j].name, rules'[i].name \notin Repeated
               PROVE  i = j
    OBVIOUS
  <2> DEFINE at(x) == IF x < f THEN x ELSE x + 1
  <2>1. /\ at(i) \in 1 .. Len(rules) /\ rules'[i] = rules[at(i)]
        /\ at(j) \in 1 .. Len(rules) /\ rules'[j] = rules[at(j)]
    BY <1>1, <1>2, <1>6
  <2>2. at(i) = at(j)
    BY <2>1 DEF Registry
  <2>3. QED
    BY <1>1, <1>2, <1>6, <2>2
<1>8. \A i \in 1 .. Len(rules') : rules'[i].custom <=> i <= k - 1
  <2> SUFFICES ASSUME NEW i \in 1 .. Len(rules') PROVE rules'[i].custom <=> i <= k - 1
    OBVIOUS
  <2>1. CASE i < f
    <3>1. i \in 1 .. Len(rules) /\ i \in 1 .. Len(rules) - 1
      BY <1>1, <1>2, <1>6, <2>1
    <3>2. rules'[i] = rules[i]
      BY <1>6, <2>1, <3>1
    <3>3. rules[i].custom <=> i <= k
      BY <3>1 DEF Registry
    <3>4. i <= k /\ i <= k - 1
      BY <1>1, <1>2, <2>1, <3>1
    <3>5. QED
      BY <3>2, <3>3, <3>4
  <2>2. CASE ~ (i < f)
    <3>1. i + 1 \in 1 .. Len(rules) /\ rules'[i] = rules[i + 1]
      BY <1>1, <1>2, <1>6, <2>2
    <3>2. rules[i + 1].custom <=> i + 1 <= k
      BY <3>1 DEF Registry
    <3>3. QED
      BY <1>2, <1>6, <3>1, <3>2
  <2>3. QED
    BY <2>1, <2>2
<1>9. \A i \in 1 .. Len(Defaults) : rules'[i + (k - 1)].name = Defaults[i]
  <2> SUFFICES ASSUME NEW i \in 1 .. Len(Defaults)
               PROVE  rules'[i + (k - 1)].name = Defaults[i]
    OBVIOUS
  <2>1. Len(rules) = k + Len(Defaults)
    BY DEF Registry
  <2>2. /\ i + (k - 1) \in 1 .. Len(rules) - 1 /\ ~ (i + (k - 1) < f)
        /\ i + (k - 1) + 1 = i + k
    BY <1>1, <1>2, <2>1, DefaultsLength
  <2>3. rules'[i + (k - 1)] = rules[i + k]
    BY <1>6, <2>2
  <2>4. QED
    BY <2>3 DEF Registry
<1>10. k - 1 \in 0 .. Len(rules') /\ Len(rules') = (k - 1) + Len(Defaults)
  <2>1. Len(rules) = k + Len(Defaults)
    BY DEF Registry
  <2>2. QED
    BY <1>2, <1>6, <2>1, DefaultsLength
<1>11. QED
  BY <1>2, <1>6, <1>7, <1>8, <1>9, <1>10 DEF Registry

\* The registry keeps its shape: the custom rules, then the defaults in their order, and no
\* name twice that was not so from the start.
THEOREM RegistryInvInductive == AdminSpec => []RegistryInv
<1>1. AdminInit => RegistryInv
  BY BuiltRegistryIsRegistry, DefaultsLength DEF AdminInit, RegistryInv
<1>2. ASSUME RegistryInv, [AdminNext]_adminVars
      PROVE  RegistryInv'
  <2>1. PICK k \in Nat : Registry(rules, k)
    BY <1>2 DEF RegistryInv
  <2>2. CASE UNCHANGED rules
    BY <1>2, <2>2 DEF RegistryInv, Registry
  <2>3. CASE RuleNext
    <3>1. PICK n \in Range(EnvRules \o Defaults) \cup UiRules :
            \/ \E on \in BOOLEAN : SwitchRule(n, on)
            \/ AddRule(n)
            \/ RemoveRule(n)
      BY <2>3 DEF RuleNext
    <3>2. CASE \E on \in BOOLEAN : SwitchRule(n, on)
      <4>1. Registry(rules', k)
        BY <2>1, <3>2, SwitchKeepsRegistry
      <4>2. QED
        BY <4>1 DEF RegistryInv, Registry
    <3>3. CASE AddRule(n)
      <4>1. Registry(rules', k + 1) /\ k + 1 \in Nat
        BY <2>1, <3>1, <3>3, AddKeepsRegistry
      <4>2. QED
        BY <4>1 DEF RegistryInv, Registry
    <3>4. CASE RemoveRule(n)
      <4>1. Registry(rules', k - 1) /\ k - 1 \in Nat
        BY <2>1, <3>4, RemoveKeepsRegistry
      <4>2. QED
        BY <4>1 DEF RegistryInv, Registry
    <3>5. QED
      BY <3>1, <3>2, <3>3, <3>4
  <2>4. CASE SurfaceNext
    <3>1. CASE rules' = BuiltRegistry
      <4>1. Registry(rules', Len(EnvRules))
        BY <3>1, BuiltRegistryIsRegistry
      <4>2. QED
        BY <4>1, DefaultsLength DEF RegistryInv, Registry
    <3>2. UNCHANGED rules \/ rules' = BuiltRegistry
      BY <2>4 DEF SurfaceNext, ReadConfig, Put, PutUnaudited, PutInterrupted, NewProcess
    <3>3. QED
      BY <2>2, <3>1, <3>2
  <2>5. CASE Restart
    <3>1. Registry(rules', Len(EnvRules))
      BY <2>5, BuiltRegistryIsRegistry DEF Restart, NewProcess
    <3>2. QED
      BY <3>1, DefaultsLength DEF RegistryInv, Registry
  <2>6. CASE Login \/ Tick
    BY <2>2, <2>6 DEF Login, Tick
  <2>7. CASE UNCHANGED adminVars
    BY <2>2, <2>7 DEF adminVars
  <2>8. QED
    BY <1>2, <2>3, <2>4, <2>5, <2>6, <2>7 DEF AdminNext
<1>3. QED
  BY <1>1, <1>2, PTL DEF AdminSpec

\* Whatever rules the environment gives, and however rules are added, removed and switched:
\* no name is given twice that was not from the start, custom rules come first, and the
\* default rules are all there in their order.
THEOREM DefaultsStayHolds == AdminSpec => []DefaultsStay
<1>1. RegistryInv => DefaultsStay
  <2> SUFFICES ASSUME NEW k \in Nat, Registry(rules, k) PROVE DefaultsStay
    BY DEF RegistryInv
  <2>1. /\ DOMAIN rules = 1 .. Len(rules) /\ Len(rules) \in Nat
        /\ k \in 0 .. Len(rules) /\ Len(rules) - k = Len(Defaults)
    BY DefaultsLength DEF Registry
  <2>2. \A i, j \in DOMAIN rules :
          rules[i].name = rules[j].name => i = j \/ rules[i].name \in Repeated
    BY <2>1 DEF Registry
  <2>3. \A i \in DOMAIN rules : rules[i].custom <=> i <= k
    BY <2>1 DEF Registry
  <2>4. \A i \in 1 .. Len(Defaults) : rules[i + k].name = Defaults[i]
    BY DEF Registry
  <2>5. Defaults = [i \in 1 .. Len(Defaults) |-> Defaults[i]]
    BY RegistryAssumption
  <2>6. [i \in 1 .. Len(Defaults) |-> rules[i + k].name] = Defaults
    BY <2>4, <2>5
  <2>7. [i \in 1 .. (Len(rules) - k) |-> rules[i + k].name] = Defaults
    BY <2>1, <2>6
  <2>8. QED
    BY <2>1, <2>2, <2>3, <2>7 DEF DefaultsStay
<1>2. QED
  BY <1>1, RegistryInvInductive, PTL

-----------------------------------------------------------------------------
(* The window of logins.                                                   *)

\* Those an attempt at t has to count.
UpTo(t) == {i \in DOMAIN admitted : admitted[i] <= t /\ t - admitted[i] < Window}

\* No time lies ahead, the list has forgotten nothing of this process that is in the window,
\* and the windows that end in the future are bounded, too.
LoginInv ==
  /\ clock \in Nat
  /\ admitted \in Seq(Nat)
  /\ forgotten \in 0 .. Len(admitted)
  /\ attempts \subseteq (forgotten + 1) .. Len(admitted)
  /\ turnedAway \subseteq Nat
  /\ \A i \in DOMAIN admitted : admitted[i] <= clock
  /\ \A i \in DOMAIN admitted : i > forgotten /\ clock - admitted[i] < Window => i \in attempts
  /\ \A t \in Nat : Cardinality(Within(t, t + Window)) <= MaxAttempts
  /\ \A t \in turnedAway : Cardinality(UpTo(t)) >= MaxAttempts

\* The attempts let through can be counted.
LEMMA AttemptsAreFinite ==
  ASSUME NEW S \in SUBSET DOMAIN admitted, admitted \in Seq(Nat)
  PROVE  IsFiniteSet(S)
<1>1. IsFiniteSet(DOMAIN admitted)
  BY FS_Interval
<1>2. QED
  BY <1>1, FS_Subset

\* They were let through at a time.
LEMMA AdmittedAreTimes ==
  ASSUME admitted \in Seq(Nat)
  PROVE  \A i \in DOMAIN admitted : admitted[i] \in Nat
OBVIOUS

\* A login keeps LoginInv: it is let through only if the window that ends now has room, and
\* then no window that begins in it has more than allowed.
LEMMA LoginKeeps ==
  ASSUME LoginInv, Login
  PROVE  LoginInv'
<1>0. /\ clock \in Nat /\ admitted \in Seq(Nat) /\ Len(admitted) \in Nat
      /\ DOMAIN admitted = 1 .. Len(admitted)
      /\ forgotten \in 0 .. Len(admitted) /\ attempts \subseteq (forgotten + 1) .. Len(admitted)
      /\ turnedAway \subseteq Nat /\ Window \in Nat /\ MaxAttempts \in Nat \ {0}
      /\ \A i \in DOMAIN admitted : admitted[i] <= clock /\ admitted[i] \in Nat
      /\ \A i \in DOMAIN admitted : i > forgotten /\ clock - admitted[i] < Window => i \in attempts
  BY WindowAssumption, AdmittedAreTimes DEF LoginInv
<1>1. Recent = {i \in DOMAIN admitted : i > forgotten /\ clock - admitted[i] < Window}
  <2>1. \A i \in attempts : i \in DOMAIN admitted /\ i > forgotten
    BY <1>0
  <2>2. QED
    BY <1>0, <2>1 DEF Recent
<1>2. clock' = clock /\ forgotten' = forgotten
  BY DEF Login
<1>3. CASE Cardinality(Recent) >= MaxAttempts
  <2>1. attempts' = Recent /\ turnedAway' = turnedAway \cup {clock} /\ admitted' = admitted
    BY <1>3 DEF Login
  <2>2. Cardinality(UpTo(clock)) >= MaxAttempts
    <3>1. Recent \subseteq UpTo(clock) /\ IsFiniteSet(UpTo(clock))
      BY <1>0, <1>1, AttemptsAreFinite DEF UpTo
    <3>2. /\ Cardinality(Recent) <= Cardinality(UpTo(clock))
          /\ Cardinality(Recent) \in Nat /\ Cardinality(UpTo(clock)) \in Nat
      BY <3>1, FS_Subset, FS_CardinalityType
    <3>3. QED
      BY <1>0, <1>3, <3>2
  <2>3. \A t \in turnedAway' : Cardinality(UpTo(t)') >= MaxAttempts
    <3>1. \A t : UpTo(t)' = UpTo(t)
      BY <2>1 DEF UpTo
    <3>2. QED
      BY <2>1, <2>2, <3>1 DEF LoginInv
  <2>4. \A t \in Nat : Cardinality(Within(t, t + Window)') <= MaxAttempts
    <3>1. \A t : Within(t, t + Window)' = Within(t, t + Window)
      BY <1>2, <2>1 DEF Within
    <3>2. QED
      BY <3>1 DEF LoginInv
  <2>5. Recent \subseteq attempts
    BY DEF Recent
  <2>6. QED
    BY <1>0, <1>1, <1>2, <2>1, <2>3, <2>4, <2>5 DEF LoginInv
<1>4. CASE ~ (Cardinality(Recent) >= MaxAttempts)
  <2> DEFINE new == Len(admitted) + 1
  <2>1. /\ attempts' = Recent \cup {new} /\ admitted' = Append(admitted, clock)
        /\ turnedAway' = turnedAway
    BY <1>4 DEF Login
  <2>2. /\ admitted' \in Seq(Nat) /\ DOMAIN admitted' = DOMAIN admitted \cup {new}
        /\ new \notin DOMAIN admitted /\ admitted'[new] = clock
        /\ \A i \in DOMAIN admitted : admitted'[i] = admitted[i]
        /\ new > forgotten /\ Len(admitted') = Len(admitted) + 1
        /\ new = Len(admitted) + 1
    BY <1>0, <2>1
  <2> HIDE DEF new
  <2>3. ASSUME NEW t \in Nat PROVE Cardinality(Within(t, t + Window)') <= MaxAttempts
    <3>1. IsFiniteSet(Within(t, t + Window)) /\ Cardinality(Within(t, t + Window)) <= MaxAttempts
      BY <1>0, AttemptsAreFinite DEF LoginInv, Within
    <3>2. CASE t <= clock /\ clock < t + Window
      <4>1. Within(t, t + Window)' = Within(t, t + Window) \cup {new}
        BY <1>0, <1>2, <2>2, <3>2 DEF Within
      <4>2. Within(t, t + Window) \subseteq Recent
        BY <1>0, <1>1, <3>2 DEF Within
      <4>3. IsFiniteSet(Recent) /\ Cardinality(Recent) \in Nat
        BY <1>0, <1>1, AttemptsAreFinite, FS_CardinalityType
      <4>4. Cardinality(Within(t, t + Window)) <= Cardinality(Recent)
        BY <4>2, <4>3, FS_Subset
      <4>5. Cardinality(Within(t, t + Window)) \in Nat
        BY <3>1, FS_CardinalityType
      <4>6. Cardinality(Within(t, t + Window)') <= Cardinality(Within(t, t + Window)) + 1
        BY <3>1, <4>1, <4>5, FS_AddElement
      <4>7. Cardinality(Within(t, t + Window)') \in Nat
        BY <3>1, <4>1, FS_AddElement, FS_CardinalityType
      <4>8. QED
        BY <1>0, <1>4, <4>3, <4>4, <4>5, <4>6, <4>7
    <3>3. CASE ~ (t <= clock /\ clock < t + Window)
      <4>1. Within(t, t + Window)' = Within(t, t + Window)
        BY <1>0, <1>2, <2>2, <3>3 DEF Within
      <4>2. QED
        BY <3>1, <4>1
    <3>4. QED
      BY <3>2, <3>3
  <2>4. ASSUME NEW t \in turnedAway' PROVE Cardinality(UpTo(t)') >= MaxAttempts
    <3>1. t \in Nat /\ Cardinality(UpTo(t)) >= MaxAttempts
      BY <1>0, <2>1, <2>4 DEF LoginInv
    <3>2. UpTo(t) \subseteq UpTo(t)'
      BY <2>2 DEF UpTo
    <3>3. UpTo(t)' \subseteq DOMAIN admitted \cup {new}
      BY <2>2 DEF UpTo
    <3>4. IsFiniteSet(DOMAIN admitted \cup {new})
      BY <1>0, AttemptsAreFinite, FS_AddElement
    <3>5. IsFiniteSet(UpTo(t)')
      BY <3>3, <3>4, FS_Subset
    <3>6. Cardinality(UpTo(t)) <= Cardinality(UpTo(t)') /\ Cardinality(UpTo(t)') \in Nat
          /\ Cardinality(UpTo(t)) \in Nat
      BY <3>2, <3>5, FS_Subset, FS_CardinalityType
    <3>7. QED
      BY <1>0, <3>1, <3>6
  <2>5. \A i \in DOMAIN admitted' : admitted'[i] <= clock
    BY <1>0, <2>2
  <2>6. /\ \A i \in DOMAIN admitted' :
             i > forgotten /\ clock - admitted'[i] < Window => i \in attempts'
        /\ forgotten \in 0 .. Len(admitted')
        /\ attempts' \subseteq (forgotten + 1) .. Len(admitted')
    <3>1. Recent \subseteq attempts
      BY DEF Recent
    <3>2. \A i \in attempts : i \in (forgotten + 1) .. (Len(admitted) + 1)
      BY <1>0
    <3>3. new \in (forgotten + 1) .. (Len(admitted) + 1)
      BY <1>0, <2>2
    <3>4. QED
      BY <1>0, <1>1, <2>1, <2>2, <3>1, <3>2, <3>3
  <2>7. QED
    BY <1>0, <1>2, <2>1, <2>2, <2>3, <2>4, <2>5, <2>6 DEF LoginInv
<1>5. QED
  BY <1>3, <1>4

\* LoginInv holds in every state.
LEMMA LoginInvInductive == AdminSpec => []LoginInv
<1>0. Cardinality({}) <= MaxAttempts
  BY FS_EmptySet, WindowAssumption
<1>1. AdminInit => LoginInv
  <2> SUFFICES ASSUME AdminInit PROVE LoginInv
    OBVIOUS
  <2>1. clock = 0 /\ attempts = {} /\ admitted = <<>> /\ turnedAway = {} /\ forgotten = 0
    BY DEF AdminInit
  <2>2. \A t \in Nat : Within(t, t + Window) = {}
    BY <2>1 DEF Within
  <2>3. \A t \in Nat : Cardinality(Within(t, t + Window)) <= MaxAttempts
    BY <1>0, <2>2
  <2>4. QED
    BY <2>1, <2>3 DEF LoginInv
<1>2. ASSUME LoginInv, [AdminNext]_adminVars
      PROVE  LoginInv'
  <2>1. CASE Login
    BY <1>2, <2>1, LoginKeeps
  <2>2. CASE Tick
    <3>1. clock' = clock + 1 /\ UNCHANGED <<attempts, admitted, forgotten, turnedAway>>
      BY <2>2 DEF Tick
    <3>2. \A t : Within(t, t + Window)' = Within(t, t + Window) /\ UpTo(t)' = UpTo(t)
      BY <3>1 DEF Within, UpTo
    <3>3. \A i \in DOMAIN admitted : admitted[i] \in Nat /\ admitted[i] <= clock
      BY <1>2, AdmittedAreTimes DEF LoginInv
    <3>4. clock \in Nat /\ Window \in Nat
      BY <1>2, WindowAssumption DEF LoginInv
    <3>5. \A i \in DOMAIN admitted' : admitted'[i] <= clock'
      BY <3>1, <3>3, <3>4
    <3>6. \A i \in DOMAIN admitted' :
            i > forgotten' /\ clock' - admitted'[i] < Window => i \in attempts'
      <4>1. \A i \in DOMAIN admitted : clock + 1 - admitted[i] < Window => clock - admitted[i] < Window
        BY <3>3, <3>4
      <4>2. QED
        BY <1>2, <3>1, <4>1 DEF LoginInv
    <3>7. /\ \A t \in Nat : Cardinality(Within(t, t + Window)') <= MaxAttempts
          /\ \A t \in turnedAway' : Cardinality(UpTo(t)') >= MaxAttempts
      BY <1>2, <3>1, <3>2 DEF LoginInv
    <3>8. /\ clock' \in Nat /\ admitted' \in Seq(Nat)
          /\ forgotten' \in 0 .. Len(admitted')
          /\ attempts' \subseteq (forgotten' + 1) .. Len(admitted') /\ turnedAway' \subseteq Nat
      BY <1>2, <3>1, <3>4 DEF LoginInv
    <3>9. QED
      BY <3>5, <3>6, <3>7, <3>8 DEF LoginInv
  <2>3. CASE attempts' = {} /\ forgotten' = Len(admitted) /\ UNCHANGED <<clock, admitted, turnedAway>>
    <3>1. Len(admitted) \in Nat /\ DOMAIN admitted = 1 .. Len(admitted)
      BY <1>2 DEF LoginInv
    <3>2. \A t \in Nat : Within(t, t + Window)' = {}
      BY <2>3, <3>1 DEF Within
    <3>3. \A t \in Nat : Cardinality(Within(t, t + Window)') <= MaxAttempts
      BY <1>0, <3>2
    <3>4. \A t : UpTo(t)' = UpTo(t)
      BY <2>3 DEF UpTo
    <3>5. forgotten' \in 0 .. Len(admitted') /\ \A i \in DOMAIN admitted' : ~ (i > forgotten')
      BY <2>3, <3>1
    <3>6. QED
      BY <1>2, <2>3, <3>3, <3>4, <3>5 DEF LoginInv
  <2>4. CASE UNCHANGED <<clock, attempts, admitted, forgotten, turnedAway>>
    <3>1. \A t : Within(t, t + Window)' = Within(t, t + Window) /\ UpTo(t)' = UpTo(t)
      BY <2>4 DEF Within, UpTo
    <3>2. QED
      BY <1>2, <2>4, <3>1 DEF LoginInv
  <2>5. QED
    BY <1>2, <2>1, <2>2, <2>3, <2>4
       DEF AdminNext, adminVars, SurfaceNext, RuleNext, ReadConfig, Put, PutUnaudited,
           PutInterrupted, NewProcess, SwitchRule, AddRule, RemoveRule, Restart, loginVars
<1>3. QED
  BY <1>1, <1>2, PTL DEF AdminSpec

\* In the life of one process no window of time, wherever it starts, has more logins than
\* allowed; and one is turned away only if that many were let through in the window that
\* ends there.
THEOREM LoginWindowHolds == AdminSpec => []LoginWindow
<1>1. LoginInv => LoginWindow
  BY WindowAssumption DEF LoginInv, LoginWindow, Within, UpTo
<1>2. QED
  BY <1>1, LoginInvInductive, PTL

-----------------------------------------------------------------------------
(* The hooks that ask for a verdict.                                       *)

\* An answer stands for a verdict: a content goes on only if it was judged harmless, and is
\* to be confirmed only if it is doubtful.
AnswerSound(k) ==
  /\ k.answer = "allow" /\ k.kind # "prompt" => k.judged /\ (k.content = "clean" \/ k.off)
  /\ k.answer = "ask" => k.content = "doubtful"
  /\ k.kind = "prompt" => k.answer \in {"allow", "refused"}

DecisionSound(k) ==
  /\ k.decision = "allow" /\ k.kind # "prompt" /\ k.content # "nothing" =>
       \/ k.judged /\ (k.content = "clean" \/ k.off)
       \/ k.kind = "claudeCommand" /\ k.cut
  /\ k.decision = "ask" => k.content = "doubtful"
  /\ k.kind = "prompt" => k.decision \in {"allow", "silent"}

CallInv(k) ==
  /\ k \in Call
  /\ k.at = "asking" => k.content \in ContentsOf(k.kind) \ {"unreadable", "nothing"}
  /\ k.at = "answered" => AnswerSound(k)
  /\ k.at = "over" => DecisionSound(k)

GuardInv ==
  /\ recognise \in BOOLEAN
  /\ DOMAIN call = Calls
  /\ call = [c \in Calls |-> call[c]]
  /\ \A c \in Calls : CallInv(call[c])

\* A step of one hook leaves the others alone.
LEMMA CallUpdated ==
  ASSUME GuardInv, NEW c \in Calls, NEW new, CallInv(new),
         call' = [call EXCEPT ![c] = new], recognise' = recognise
  PROVE  GuardInv'
<1>1. DOMAIN call' = Calls /\ call' = [d \in Calls |-> call'[d]]
  BY DEF GuardInv
<1>2. ASSUME NEW d \in Calls PROVE CallInv(call'[d])
  BY DEF GuardInv
<1>3. QED
  BY <1>1, <1>2 DEF GuardInv

\* What the contents of a hook can be when it asks.
LEMMA AskedContents ==
  ASSUME NEW kind \in Kinds, NEW content \in ContentsOf(kind) \ {"unreadable", "nothing"}
  PROVE  /\ content \in {"clean", "doubtful", "bad"}
         /\ kind \notin Commands => content \in {"clean", "bad"}
         /\ kind = "gate" => content = "clean"
BY Zenon DEF ContentsOf, Contents, Commands

\* Only a prompt is allowed when its question fails.
LEMMA AtFailureIsDecision ==
  ASSUME NEW kind \in Kinds
  PROVE  /\ AtFailure(kind) \in {"allow", "withheld", "deny"}
         /\ kind = "prompt" <=> AtFailure(kind) = "allow"
BY Zenon DEF AtFailure

\* A judgement is sound.
LEMMA JudgementSound ==
  ASSUME NEW kind \in Kinds, NEW content \in ContentsOf(kind) \ {"unreadable", "nothing"},
         recognise \in BOOLEAN
  PROVE  /\ Judgement(kind, content) \in Answers
         /\ kind = "prompt" => Judgement(kind, content) = "allow"
         /\ Judgement(kind, content) = "ask" => content = "doubtful"
         /\ Judgement(kind, content) = "allow" /\ kind # "prompt" =>
              \/ content = "clean"
              \/ IF kind \in Commands THEN ~ GuardOn ELSE ~ recognise
<1>1. CASE kind \in Commands
  <2>1. Judgement(kind, content) = CASE ~ GuardOn \/ content = "clean" -> "allow"
                                     [] content = "doubtful"           -> "ask"
                                     [] OTHER                          -> "deny"
    BY <1>1, Zenon DEF Judgement, Commands, Scrubbed
  <2>2. QED
    BY <1>1, <2>1 DEF Answers, Commands
<1>2. CASE kind \in Scrubbed \cup {"read"}
  <2>1. kind \notin Commands /\ kind \notin {"prompt", "gate"}
    BY <1>2 DEF Commands, Scrubbed
  <2>2. Judgement(kind, content) = IF recognise /\ content = "bad" THEN "found" ELSE "allow"
    BY <1>2, <2>1, Zenon DEF Judgement
  <2>3. content \in {"clean", "bad"}
    BY <2>1, AskedContents
  <2>4. QED
    BY <2>1, <2>2, <2>3 DEF Answers
<1>3. CASE kind \in {"prompt", "gate"}
  <2>1. kind \notin Commands /\ kind \notin Scrubbed \cup {"read"}
    BY <1>3 DEF Commands, Scrubbed
  <2>2. Judgement(kind, content) = "allow"
    BY <2>1, Zenon DEF Judgement
  <2>3. kind = "gate" => content = "clean"
    BY AskedContents
  <2>4. QED
    BY <1>3, <2>1, <2>2, <2>3 DEF Answers
<1>4. QED
  BY <1>1, <1>2, <1>3 DEF Kinds

\* The fields of a call, and their types.
LEMMA CallFields ==
  ASSUME GuardInv, NEW c \in Calls
  PROVE  /\ call[c] \in Call /\ CallInv(call[c])
         /\ call[c].kind \in Kinds /\ call[c].content \in Contents
BY DEF GuardInv, CallInv, Call

\* A verdict of an endpoint keeps GuardInv: it is an answer the content deserves.
LEMMA ServeKeeps ==
  ASSUME GuardInv, NEW c \in Calls, Serve(c)
  PROVE  GuardInv'
<1> DEFINE k == call[c]
           off == IF k.kind \in Commands THEN ~ GuardOn ELSE ~ recognise
           answer == Judgement(k.kind, k.content)
           new == [k EXCEPT !.at = "answered", !.judged = TRUE, !.answer = answer, !.off = off]
<1>1. k \in Call /\ CallInv(k) /\ k.at = "asking" /\ k.kind \in Kinds
  BY CallFields DEF Serve
<1>2. call' = [call EXCEPT ![c] = new] /\ recognise' = recognise
  BY DEF Serve
<1>3. k.content \in ContentsOf(k.kind) \ {"unreadable", "nothing"}
  BY <1>1 DEF CallInv
<1>4. recognise \in BOOLEAN
  BY DEF GuardInv
<1>5. /\ answer \in Answers
      /\ k.kind = "prompt" => answer = "allow"
      /\ answer = "ask" => k.content = "doubtful"
      /\ answer = "allow" /\ k.kind # "prompt" => k.content = "clean" \/ off
  BY <1>1, <1>3, <1>4, JudgementSound
<1>6. off \in BOOLEAN
  BY <1>4, GuardAssumption
<1> HIDE DEF k, off, answer
<1>7. /\ new.at = "answered" /\ new.judged = TRUE /\ new.answer = answer /\ new.off = off
      /\ new.kind = k.kind /\ new.content = k.content
  BY <1>1 DEF Call
<1>8. new \in Call
  BY <1>1, <1>5, <1>6 DEF Call
<1> HIDE DEF new
<1>9. CallInv(new)
  BY <1>5, <1>7, <1>8 DEF CallInv, AnswerSound
<1>10. QED
  BY <1>2, <1>9, CallUpdated DEF k

\* An error in an endpoint keeps GuardInv: only a prompt is allowed unjudged.
LEMMA ServeThrowsKeeps ==
  ASSUME GuardInv, NEW c \in Calls, ServeThrows(c)
  PROVE  GuardInv'
<1> DEFINE k == call[c]
           answer == IF k.kind = "prompt" THEN "allow" ELSE "deny"
           new == [k EXCEPT !.at = "answered", !.answer = answer]
<1>1. k \in Call
  BY CallFields
<1>2. call' = [call EXCEPT ![c] = new] /\ recognise' = recognise
  BY DEF ServeThrows
<1>3. answer \in Answers /\ answer # "ask" /\ (k.kind = "prompt" <=> answer = "allow")
  BY DEF Answers
<1> HIDE DEF k, answer
<1>4. new.at = "answered" /\ new.answer = answer /\ new.kind = k.kind
  BY <1>1 DEF Call
<1>5. new \in Call
  BY <1>1, <1>3 DEF Call
<1> HIDE DEF new
<1>6. CallInv(new)
  BY <1>3, <1>4, <1>5 DEF CallInv, AnswerSound
<1>7. QED
  BY <1>2, <1>6, CallUpdated DEF k

\* An answer from outside the endpoint keeps GuardInv: it allows nothing.
LEMMA RefusedKeeps ==
  ASSUME GuardInv, NEW c \in Calls, Refused(c)
  PROVE  GuardInv'
<1> DEFINE k == call[c]
           new == [k EXCEPT !.at = "answered", !.answer = "refused"]
<1>1. k \in Call
  BY CallFields
<1>2. call' = [call EXCEPT ![c] = new] /\ recognise' = recognise
  BY DEF Refused
<1> HIDE DEF k
<1>3. new.at = "answered" /\ new.answer = "refused" /\ new \in Call
  BY <1>1 DEF Call, Answers
<1> HIDE DEF new
<1>4. CallInv(new)
  BY <1>3 DEF CallInv, AnswerSound
<1>5. QED
  BY <1>2, <1>4, CallUpdated DEF k

\* A hook decides: the decision has to be sound for its call.
LEMMA DecisionKeeps ==
  ASSUME GuardInv, NEW c \in Calls, NEW decision \in Decisions,
         Decides(c, decision), recognise' = recognise,
         /\ decision = "allow" /\ call[c].kind # "prompt" /\ call[c].content # "nothing" =>
              call[c].judged /\ (call[c].content = "clean" \/ call[c].off)
         /\ decision = "ask" => call[c].content = "doubtful"
         /\ call[c].kind = "prompt" => decision \in {"allow", "silent"}
  PROVE  GuardInv'
<1> DEFINE k == call[c]
           new == [k EXCEPT !.at = "over", !.decision = decision]
<1>1. k \in Call
  BY CallFields
<1>2. call' = [call EXCEPT ![c] = new]
  BY DEF Decides
<1>3. /\ decision = "allow" /\ k.kind # "prompt" /\ k.content # "nothing" =>
           k.judged /\ (k.content = "clean" \/ k.off)
      /\ decision = "ask" => k.content = "doubtful"
      /\ k.kind = "prompt" => decision \in {"allow", "silent"}
  OBVIOUS
<1> HIDE DEF k
<1>4. /\ new.at = "over" /\ new.decision = decision /\ new.kind = k.kind
      /\ new.content = k.content /\ new.judged = k.judged /\ new.off = k.off
  BY <1>1 DEF Call
<1>5. new \in Call
  BY <1>1 DEF Call
<1> HIDE DEF new
<1>6. CallInv(new)
  BY <1>3, <1>4, <1>5 DEF CallInv, DecisionSound
<1>7. QED
  BY <1>2, <1>6, CallUpdated DEF k

\* Relaying an answer keeps GuardInv: an answer becomes the decision it stands for.
LEMMA RelayKeeps ==
  ASSUME GuardInv, NEW c \in Calls, Relay(c)
  PROVE  GuardInv'
<1> DEFINE k == call[c]
           decision == Relayed(k.kind, k.answer)
<1>1. k \in Call /\ k.kind \in Kinds /\ k.answer \in Answers /\ AnswerSound(k)
  BY CallFields DEF Relay, CallInv, Call
<1>2. CASE k.answer = "refused"
  <2>1. decision = AtFailure(k.kind)
    BY <1>2, Zenon DEF Relayed
  <2>2. QED
    BY <1>1, <2>1, AtFailureIsDecision, DecisionKeeps DEF Relay, Decisions
<1>3. CASE k.answer = "found"
  <2>1. decision = IF k.kind = "read" THEN "deny" ELSE "rewritten"
    BY <1>3, Zenon DEF Relayed
  <2>2. k.kind # "prompt"
    BY <1>1, <1>3 DEF AnswerSound
  <2>3. QED
    BY <1>1, <2>1, <2>2, DecisionKeeps DEF Relay, Decisions
<1>4. CASE k.answer \notin {"refused", "found"}
  <2>1. decision = k.answer
    BY <1>4, Zenon DEF Relayed
  <2>2. decision \in Decisions
    BY <1>1, <1>4, <2>1 DEF Answers, Decisions
  <2>3. /\ decision = "allow" /\ k.kind # "prompt" /\ k.content # "nothing" =>
             k.judged /\ (k.content = "clean" \/ k.off)
        /\ decision = "ask" => k.content = "doubtful"
        /\ k.kind = "prompt" => decision \in {"allow", "silent"}
    <3> HIDE DEF k, decision
    <3>1. QED
      BY <1>1, <1>4, <2>1 DEF AnswerSound
  <2>4. Decides(c, decision) /\ recognise' = recognise
    BY DEF Relay
  <2> HIDE DEF decision
  <2>5. QED
    BY <2>2, <2>3, <2>4, DecisionKeeps
<1>5. QED
  BY <1>2, <1>3, <1>4

\* A cut-off answer keeps GuardInv: only a command of Claude Code goes on after it.
LEMMA CutOffKeeps ==
  ASSUME GuardInv, NEW c \in Calls, CutOff(c)
  PROVE  GuardInv'
<1> DEFINE k == call[c]
           decision == Silence(k.kind)
           new == [k EXCEPT !.at = "over", !.cut = TRUE, !.decision = decision]
<1>1. k \in Call
  BY CallFields
<1>2. call' = [call EXCEPT ![c] = new] /\ recognise' = recognise
  BY DEF CutOff
<1>3. /\ decision \in {"allow", "silent"} /\ decision \in Decisions
      /\ decision = "allow" => k.kind = "claudeCommand"
      /\ k.kind = "prompt" => decision = "silent"
  BY DEF Silence, Decisions
<1> HIDE DEF k, decision
<1>4. new.at = "over" /\ new.decision = decision /\ new.kind = k.kind /\ new.cut = TRUE
  BY <1>1 DEF Call
<1>5. new \in Call
  BY <1>1, <1>3 DEF Call
<1> HIDE DEF new
<1>6. CallInv(new)
  BY <1>3, <1>4, <1>5 DEF CallInv, DecisionSound
<1>7. QED
  BY <1>2, <1>6, CallUpdated DEF k

\* Calling a hook keeps GuardInv: input that cannot be read is decided at once.
LEMMA InvokeKeeps ==
  ASSUME GuardInv, NEW c \in Calls, NEW kind \in Kinds, NEW content \in Contents,
         Invoke(c, kind, content)
  PROVE  GuardInv'
<1> DEFINE new == [NoCall EXCEPT !.kind = kind, !.content = content]
           decided == IF kind \in Scrubbed THEN "withheld" ELSE AtFailure(kind)
           next == CASE content = "nothing"    -> [new EXCEPT !.at = "over", !.decision = "allow"]
                     [] content = "unreadable" -> [new EXCEPT !.at = "over", !.decision = decided]
                     [] OTHER                  -> [new EXCEPT !.at = "asking"]
<1>1. call' = [call EXCEPT ![c] = next] /\ recognise' = recognise
  BY DEF Invoke
<1>2. /\ new \in Call /\ new.kind = kind /\ new.content = content
      /\ new.at = "idle"
  BY DEF NoCall, Call, Kinds, Contents, Answers, Decisions
<1>3. decided \in {"allow", "withheld", "deny"} /\ (decided = "allow" => kind = "prompt")
      /\ (kind = "prompt" => decided = "allow")
  BY AtFailureIsDecision DEF Scrubbed
<1>4. CASE content = "nothing"
  <2> DEFINE over == [new EXCEPT !.at = "over", !.decision = "allow"]
  <2>1. next = over
    BY <1>4, Zenon
  <2> HIDE DEF new
  <2>2. /\ over.at = "over" /\ over.decision = "allow" /\ over.kind = kind
        /\ over.content = content /\ over \in Call
    BY <1>2 DEF Call, Decisions
  <2> HIDE DEF over
  <2>3. CallInv(over)
    BY <1>4, <2>2 DEF CallInv, DecisionSound
  <2> HIDE DEF next
  <2>4. QED
    BY <1>1, <2>1, <2>3, CallUpdated
<1>5. CASE content = "unreadable"
  <2> DEFINE over == [new EXCEPT !.at = "over", !.decision = decided]
  <2>1. next = over
    BY <1>5, Zenon
  <2> HIDE DEF new, decided
  <2>2. /\ over.at = "over" /\ over.decision = decided /\ over.kind = kind
        /\ over.content = content /\ over \in Call
    BY <1>2, <1>3 DEF Call, Decisions
  <2> HIDE DEF over
  <2>3. CallInv(over)
    BY <1>3, <1>5, <2>2 DEF CallInv, DecisionSound
  <2> HIDE DEF next
  <2>4. QED
    BY <1>1, <2>1, <2>3, CallUpdated
<1>6. CASE content \notin {"nothing", "unreadable"}
  <2> DEFINE asking == [new EXCEPT !.at = "asking"]
  <2>1. next = asking
    BY <1>6, Zenon
  <2> HIDE DEF new
  <2>2. /\ asking.at = "asking" /\ asking.kind = kind /\ asking.content = content
        /\ asking \in Call
    BY <1>2 DEF Call
  <2>3. content \in ContentsOf(kind)
    BY DEF Invoke
  <2> HIDE DEF asking
  <2>4. CallInv(asking)
    BY <1>6, <2>2, <2>3 DEF CallInv
  <2> HIDE DEF next
  <2>5. QED
    BY <1>1, <2>1, <2>4, CallUpdated
<1>7. QED
  BY <1>4, <1>5, <1>6

\* Each call of a guard hook has, at every stage, an answer and a decision that its content
\* and what was judged by then allow.
THEOREM GuardInvInductive == GuardSpec => []GuardInv
<1>1. GuardInit => GuardInv
  <2> SUFFICES ASSUME GuardInit PROVE GuardInv
    OBVIOUS
  <2>1. NoCall \in Call /\ NoCall.at = "idle"
    BY DEF NoCall, Call, Kinds, Contents, Answers, Decisions
  <2>2. CallInv(NoCall)
    BY <2>1 DEF CallInv
  <2>3. QED
    BY <2>2 DEF GuardInit, GuardInv
<1>2. ASSUME GuardInv, [GuardNext]_guardVars
      PROVE  GuardInv'
  <2>1. ASSUME NEW c \in Calls, NEW kind \in Kinds, NEW content \in Contents,
               Invoke(c, kind, content)
        PROVE  GuardInv'
    BY <1>2, <2>1, InvokeKeeps
  <2>2. ASSUME NEW c \in Calls, Serve(c) \/ ServeThrows(c) \/ Refused(c) \/ Relay(c)
        PROVE  GuardInv'
    BY <1>2, <2>2, ServeKeeps, ServeThrowsKeeps, RefusedKeeps, RelayKeeps
  <2>3. ASSUME NEW c \in Calls, Unanswered(c)
        PROVE  GuardInv'
    <3>1. call[c].kind \in Kinds
      BY <1>2, CallFields
    <3>2. /\ AtFailure(call[c].kind) \in Decisions /\ AtFailure(call[c].kind) # "ask"
          /\ call[c].kind = "prompt" <=> AtFailure(call[c].kind) = "allow"
      BY <3>1, AtFailureIsDecision DEF Decisions
    <3>3. QED
      BY <1>2, <2>3, <3>2, DecisionKeeps DEF Unanswered
  <2>4. ASSUME NEW c \in Calls, CutOff(c)
        PROVE  GuardInv'
    BY <1>2, <2>4, CutOffKeeps
  <2>5. CASE SwitchRules
    BY <1>2, <2>5 DEF SwitchRules, GuardInv
  <2>6. CASE UNCHANGED guardVars
    BY <1>2, <2>6 DEF guardVars, GuardInv
  <2>7. QED
    BY <1>2, <2>1, <2>2, <2>3, <2>4, <2>5, <2>6 DEF GuardNext
<1>3. QED
  BY <1>1, <1>2, PTL DEF GuardSpec

\* Whatever fails between the editor and the verdict, nothing but a prompt goes on
\* unchanged unless it was judged harmless or the gateway was told not to judge, a command
\* of Claude Code with a cut-off answer excepted; and a prompt is never held back.
THEOREM AllowedWasJudgedHolds == GuardSpec => []AllowedWasJudged
<1>1. GuardInv => AllowedWasJudged
  BY DEF GuardInv, CallInv, DecisionSound, AllowedWasJudged
<1>2. QED
  BY <1>1, GuardInvInductive, PTL

-----------------------------------------------------------------------------
(* The reframed stream.                                                    *)

Chunk == {Role, Done} \cup {TextOf(i, j) : i \in Nat, j \in Nat}
                      \cup {Finish(why) : why \in Range(StopMap) \cup {"stop"}}

\* What the chunks s tell: the role first, the texts up to n, and the end if it was told.
Tells(s, n, ended, why) ==
  /\ s \in Seq(Chunk)
  /\ s # <<>> => s[1] = Role
  /\ TellsTexts(s, n)
  /\ TellsEnd(s, ended, why)

\* What has been told is what was released.  Without a role nothing was told, except by
\* the end of an empty message.
ReframerInv ==
  /\ ReframerTypeOK
  /\ ~ done => finish = LastReason
  /\ Tells(out, released, done, LastReason)
  /\ started => Len(out) >= 1
  /\ ~ started <=> sent = 0 /\ starts = 0
  /\ ~ started /\ ~ done => out = <<>>
  /\ upstream = "ended" => done /\ released = sent
  /\ OneMessage

\* To join a chunk is to append it,
LEMMA ConcatOne ==
  ASSUME NEW S, NEW s \in Seq(S), NEW a \in S
  PROVE  s \o <<a>> = Append(s, a)
OBVIOUS

\* ... two chunks are appended one after the other,
LEMMA ConcatTwo ==
  ASSUME NEW S, NEW s \in Seq(S), NEW a \in S, NEW b \in S
  PROVE  s \o <<a, b>> = Append(Append(s, a), b)
OBVIOUS

\* ... nothing leaves a sequence as it is,
LEMMA ConcatNone ==
  ASSUME NEW S, NEW s \in Seq(S)
  PROVE  s \o <<>> = s
OBVIOUS

\* ... and nothing in front does so, too.
LEMMA ConcatEmpty ==
  ASSUME NEW S, NEW s \in Seq(S)
  PROVE  <<>> \o s = s
OBVIOUS

\* The kinds of chunks differ.
LEMMA ChunkFields ==
  /\ Role.what = "role" /\ Done.what = "[DONE]"
  /\ \A i, j : TextOf(i, j).what = "text" /\ TextOf(i, j).from = i /\ TextOf(i, j).to = j
  /\ \A why : Finish(why).what = "finish"
BY DEF Role, Done, TextOf, Finish

\* A text is a chunk.
LEMMA TextIsChunk ==
  ASSUME NEW i \in Nat, NEW j \in Nat
  PROVE  TextOf(i, j) \in Chunk
<1>1. TextOf(i, j) \in {TextOf(k, l) : k \in Nat, l \in Nat}
  OBVIOUS
<1>2. QED
  BY <1>1 DEF Chunk

\* An appended chunk is the last one, and the only one its kind gains.
LEMMA AppendIs ==
  ASSUME NEW S, NEW s \in Seq(S), NEW a \in S
  PROVE  /\ Append(s, a) \in Seq(S)
         /\ Len(s) \in Nat
         /\ Len(Append(s, a)) = Len(s) + 1
         /\ \A i \in 1 .. Len(s) : Append(s, a)[i] = s[i]
         /\ Append(s, a)[Len(s) + 1] = a
         /\ \A kind : a.what = kind => Places(Append(s, a), kind) = Places(s, kind) \cup {Len(s) + 1}
         /\ \A kind : a.what # kind => Places(Append(s, a), kind) = Places(s, kind)
<1>1. /\ Append(s, a) \in Seq(S)
      /\ Len(s) \in Nat
      /\ Len(Append(s, a)) = Len(s) + 1
      /\ \A i \in 1 .. Len(s) : Append(s, a)[i] = s[i]
      /\ Append(s, a)[Len(s) + 1] = a
  OBVIOUS
<1> DEFINE t == Append(s, a)
<1> HIDE DEF t
<1>2. ASSUME NEW kind
      PROVE  /\ a.what = kind => Places(t, kind) = Places(s, kind) \cup {Len(s) + 1}
             /\ a.what # kind => Places(t, kind) = Places(s, kind)
  <2>1. \A i : i \in 1 .. Len(s) + 1 <=> i \in 1 .. Len(s) \/ i = Len(s) + 1
    BY <1>1
  <2>2. Len(s) + 1 \notin 1 .. Len(s)
    BY <1>1
  <2>3. Len(t) = Len(s) + 1 /\ t[Len(s) + 1] = a /\ \A i \in 1 .. Len(s) : t[i] = s[i]
    BY <1>1 DEF t
  <2>4. QED
    BY <2>1, <2>2, <2>3 DEF Places
<1>3. QED
  BY <1>1, <1>2 DEF t

\* The places of a kind are places.
LEMMA PlacesAre ==
  ASSUME NEW s \in Seq(Chunk), NEW kind
  PROVE  Places(s, kind) \subseteq 1 .. Len(s) /\ Len(s) \in Nat
BY DEF Places

\* A role behind other chunks, or as the first one, tells nothing else.
LEMMA RoleTells ==
  ASSUME NEW s, NEW n \in Nat, NEW ended \in BOOLEAN, NEW why, Tells(s, n, ended, why)
  PROVE  Tells(Append(s, Role), n, ended, why)
<1> DEFINE t == Append(s, Role)
<1>1. s \in Seq(Chunk) /\ Role \in Chunk
  BY DEF Tells, Chunk
<1>2. /\ t \in Seq(Chunk) /\ Len(s) \in Nat /\ Len(t) = Len(s) + 1
      /\ \A i \in 1 .. Len(s) : t[i] = s[i]
      /\ t[Len(s) + 1] = Role
      /\ Places(t, "text") = Places(s, "text")
      /\ Places(t, "finish") = Places(s, "finish")
      /\ Places(t, "[DONE]") = Places(s, "[DONE]")
  BY <1>1, AppendIs, ChunkFields
<1> HIDE DEF t
<1>3. t[1] = Role
  BY <1>1, <1>2 DEF Tells
<1>4. /\ \A i \in Places(s, "text") : t[i] = s[i]
      /\ \A i \in 1 .. Len(s) : i \in 1 .. Len(t)
  BY <1>1, <1>2, PlacesAre
<1>5. TellsTexts(t, n)
  BY <1>2, <1>4 DEF Tells, TellsTexts
<1>6. TellsEnd(t, ended, why)
  BY <1>2, <1>4 DEF Tells, TellsEnd
<1>7. QED
  BY <1>2, <1>3, <1>5, <1>6 DEF Tells, t

\* A text that continues what was told tells more.
LEMMA TextTells ==
  ASSUME NEW s, NEW m \in Nat, NEW n \in Nat, m < n, NEW ended \in BOOLEAN, NEW why,
         Tells(s, m, ended, why), Len(s) >= 1
  PROVE  Tells(Append(s, TextOf(m + 1, n)), n, ended, why)
<1> DEFINE a == TextOf(m + 1, n)
           t == Append(s, a)
<1>1. s \in Seq(Chunk) /\ a \in Chunk
  BY TextIsChunk DEF Tells
<1>2. a.what = "text" /\ a.from = m + 1 /\ a.to = n
  BY ChunkFields
<1>3. /\ t \in Seq(Chunk) /\ Len(s) \in Nat /\ Len(t) = Len(s) + 1
      /\ \A i \in 1 .. Len(s) : t[i] = s[i]
      /\ t[Len(s) + 1] = a
      /\ Places(t, "text") = Places(s, "text") \cup {Len(s) + 1}
      /\ Places(t, "finish") = Places(s, "finish")
      /\ Places(t, "[DONE]") = Places(s, "[DONE]")
  BY <1>1, <1>2, AppendIs
<1> HIDE DEF a, t
<1>4. t # <<>> /\ t[1] = Role
  BY <1>1, <1>3 DEF Tells
<1>5. /\ Places(s, "text") \subseteq 1 .. Len(s)
      /\ \A i \in Places(s, "text") : t[i] = s[i]
      /\ \A i \in 1 .. Len(s) : i \in 1 .. Len(t)
  BY <1>1, <1>3, PlacesAre
<1>6. TellsTexts(t, n)
  <2>1. \A i \in Places(s, "text") : /\ s[i].from \in Nat /\ s[i].to \in Nat
                                     /\ 1 <= s[i].from /\ s[i].from <= s[i].to /\ s[i].to <= m
    <3>1. ASSUME NEW i \in Places(s, "text") PROVE s[i].from \in Nat /\ s[i].to \in Nat
      <4>1. s[i] \in Chunk /\ s[i].what = "text"
        BY <1>1 DEF Places
      <4>2. PICK k \in Nat, l \in Nat : s[i] = TextOf(k, l)
        BY <4>1, ChunkFields DEF Chunk
      <4>3. QED
        BY <4>2, ChunkFields
    <3>2. QED
      BY <3>1 DEF Tells, TellsTexts
  <2>2. \A i \in Places(t, "text") : 1 <= t[i].from /\ t[i].from <= t[i].to /\ t[i].to <= n
    BY <1>2, <1>3, <1>5, <2>1
  <2>3. \A i, j \in Places(t, "text") : i < j => t[i].to < t[j].from
    <3>1. ASSUME NEW i \in Places(t, "text"), NEW j \in Places(t, "text"), i < j
          PROVE  t[i].to < t[j].from
      <4>1. i \in Places(s, "text")
        BY <1>3, <1>5, <3>1
      <4>2. CASE j \in Places(s, "text")
        BY <1>5, <3>1, <4>1, <4>2 DEF Tells, TellsTexts
      <4>3. CASE j = Len(s) + 1
        BY <1>2, <1>3, <1>5, <2>1, <4>1, <4>3
      <4>4. QED
        BY <1>3, <4>2, <4>3
    <3>2. QED
      BY <3>1
  <2>4. ASSUME NEW p \in 1 .. n
        PROVE  \E i \in Places(t, "text") : t[i].from <= p /\ p <= t[i].to
    <3>1. CASE p <= m
      <4>1. p \in 1 .. m
        BY <3>1
      <4>2. PICK i \in Places(s, "text") : s[i].from <= p /\ p <= s[i].to
        BY <4>1 DEF Tells, TellsTexts
      <4>3. QED
        BY <1>3, <1>5, <4>2
    <3>2. CASE p > m
      <4>1. t[Len(s) + 1].from <= p /\ p <= t[Len(s) + 1].to
        BY <1>2, <1>3, <3>2
      <4>2. QED
        BY <1>3, <4>1
    <3>3. QED
      BY <3>1, <3>2
  <2>5. QED
    BY <2>2, <2>3, <2>4 DEF TellsTexts
<1>7. TellsEnd(t, ended, why)
  BY <1>3, <1>5 DEF Tells, TellsEnd
<1>8. QED
  BY <1>3, <1>4, <1>6, <1>7 DEF Tells, t, a

\* The end, told once and behind other chunks, tells nothing else.
LEMMA EndTells ==
  ASSUME NEW s, NEW n \in Nat, NEW was, NEW why \in Range(StopMap) \cup {"stop"},
         Tells(s, n, FALSE, was), Len(s) >= 1
  PROVE  /\ Tells(Append(Append(s, Finish(why)), Done), n, TRUE, why)
         /\ Places(Append(Append(s, Finish(why)), Done), "role") = Places(s, "role")
         /\ Places(Append(Append(s, Finish(why)), Done), "[DONE]")
              = {Len(Append(Append(s, Finish(why)), Done))}
<1> DEFINE f == Finish(why)
           t == Append(s, f)
           u == Append(t, Done)
<1>1. s \in Seq(Chunk) /\ f \in Chunk /\ Done \in Chunk
  BY DEF Tells, Chunk
<1>2. f.what = "finish" /\ Done.what = "[DONE]"
  BY ChunkFields
<1> HIDE DEF f
<1>3. /\ t \in Seq(Chunk) /\ Len(s) \in Nat /\ Len(t) = Len(s) + 1
      /\ \A i \in 1 .. Len(s) : t[i] = s[i]
      /\ t[Len(s) + 1] = f
      /\ Places(t, "text") = Places(s, "text")
      /\ Places(t, "role") = Places(s, "role")
      /\ Places(t, "finish") = Places(s, "finish") \cup {Len(s) + 1}
      /\ Places(t, "[DONE]") = Places(s, "[DONE]")
  BY <1>1, <1>2, AppendIs
<1> HIDE DEF t
<1>4. /\ u \in Seq(Chunk) /\ Len(u) = Len(t) + 1
      /\ \A i \in 1 .. Len(t) : u[i] = t[i]
      /\ u[Len(t) + 1] = Done
      /\ Places(u, "text") = Places(t, "text")
      /\ Places(u, "role") = Places(t, "role")
      /\ Places(u, "finish") = Places(t, "finish")
      /\ Places(u, "[DONE]") = Places(t, "[DONE]") \cup {Len(t) + 1}
  BY <1>1, <1>2, <1>3, AppendIs
<1> HIDE DEF u
<1>5. /\ \A i \in 1 .. Len(s) : u[i] = s[i] /\ i \in 1 .. Len(u)
      /\ u[Len(s) + 1] = f /\ Len(u) = Len(s) + 2
  BY <1>3, <1>4
<1>6. u # <<>> /\ u[1] = Role
  BY <1>1, <1>3, <1>4, <1>5 DEF Tells
<1>7. TellsTexts(u, n)
  <2>1. \A i \in Places(s, "text") : u[i] = s[i]
    BY <1>1, <1>5, PlacesAre
  <2>2. QED
    BY <1>3, <1>4, <2>1 DEF Tells, TellsTexts
<1>8. TellsEnd(u, TRUE, why) /\ Places(u, "[DONE]") = {Len(u)}
  <2>1. Places(s, "finish") = {} /\ Places(s, "[DONE]") = {}
    BY DEF Tells, TellsEnd
  <2>2. Places(u, "finish") = {Len(s) + 1} /\ Places(u, "[DONE]") = {Len(s) + 2}
    BY <1>3, <1>4, <2>1
  <2>3. Len(s) + 1 \in 1 .. Len(u) /\ u[Len(s) + 1] = Finish(why)
    BY <1>3, <1>5 DEF f
  <2>4. (Len(s) + 1) + 1 = Len(s) + 2
    BY <1>3
  <2>5. QED
    BY <1>5, <2>2, <2>3, <2>4 DEF TellsEnd
<1>9. Places(u, "role") = Places(s, "role")
  BY <1>3, <1>4
<1>10. QED
  BY <1>4, <1>6, <1>7, <1>8, <1>9 DEF Tells, u, t, f

\* The role, told if it has not been.
LEMMA RoleOnceTells ==
  ASSUME ReframerInv
  PROVE  /\ Tells(out \o RoleOnce, released, done, LastReason)
         /\ Len(out \o RoleOnce) >= 1
         /\ orderly /\ ~ done => Places(out \o RoleOnce, "role") \subseteq {1}
<1>1. /\ out \in Seq(Chunk) /\ Role \in Chunk /\ released \in Nat /\ done \in BOOLEAN
      /\ Tells(out, released, done, LastReason)
  BY DEF ReframerInv, Tells, ReframerTypeOK, Chunk
<1>2. CASE started
  <2>1. out \o RoleOnce = out
    BY <1>1, <1>2, ConcatNone DEF RoleOnce
  <2>2. QED
    BY <1>1, <1>2, <2>1 DEF ReframerInv, OneMessage
<1>3. CASE ~ started
  <2>1. out \o RoleOnce = Append(out, Role)
    BY <1>1, <1>3, ConcatOne DEF RoleOnce
  <2>2. Tells(Append(out, Role), released, done, LastReason)
    BY <1>1, RoleTells
  <2>3. /\ Len(Append(out, Role)) = Len(out) + 1 /\ Len(out) \in Nat
        /\ Places(Append(out, Role), "role") = Places(out, "role") \cup {Len(out) + 1}
    BY <1>1, AppendIs, ChunkFields
  <2>4. ~ done => Len(out) = 0 /\ Places(out, "role") = {}
    BY <1>3 DEF ReframerInv, Places
  <2>5. QED
    BY <2>1, <2>2, <2>3, <2>4
<1>4. QED
  BY <1>2, <1>3

\* Whatever the redactor lets go of, the chunks tell the text up to there.
LEMMA TextUpToTells ==
  ASSUME NEW s, NEW n \in Nat, released \in Nat, released <= n, done \in BOOLEAN,
         Tells(s, released, done, LastReason), Len(s) >= 1
  PROVE  /\ Tells(s \o TextUpTo(n), n, done, LastReason)
         /\ Len(s \o TextUpTo(n)) >= 1
         /\ Places(s \o TextUpTo(n), "role") = Places(s, "role")
<1>1. s \in Seq(Chunk) /\ TextOf(released + 1, n) \in Chunk
  BY TextIsChunk DEF Tells
<1>2. CASE n = released
  BY <1>1, <1>2, ConcatNone DEF TextUpTo
<1>3. CASE n # released
  <2>1. s \o TextUpTo(n) = Append(s, TextOf(released + 1, n))
    BY <1>1, <1>3, ConcatOne DEF TextUpTo
  <2>2. Tells(Append(s, TextOf(released + 1, n)), n, done, LastReason)
    BY <1>3, TextTells
  <2>3. /\ Len(Append(s, TextOf(released + 1, n))) = Len(s) + 1 /\ Len(s) \in Nat
        /\ Places(Append(s, TextOf(released + 1, n)), "role") = Places(s, "role")
    BY <1>1, AppendIs, ChunkFields
  <2>4. QED
    BY <2>1, <2>2, <2>3
<1>4. QED
  BY <1>2, <1>3

\* The rest of the text, if the redactor held any back.
LEMMA RestTells ==
  ASSUME ReframerInv
  PROVE  /\ Tells(out \o Rest, sent, done, LastReason)
         /\ StartedByRest => Len(out \o Rest) >= 1
         /\ ~ StartedByRest => out \o Rest = out
         /\ orderly /\ ~ done => Places(out \o Rest, "role") \subseteq {1}
         /\ orderly /\ done => out \o Rest = out
<1>1. /\ out \in Seq(Chunk) /\ Role \in Chunk /\ released \in Nat /\ sent \in Nat
      /\ released <= sent /\ done \in BOOLEAN
      /\ Tells(out, released, done, LastReason)
  BY ReframerAssumption DEF ReframerInv, Tells, ReframerTypeOK, Chunk
<1>2. CASE sent = released
  <2>1. out \o Rest = out
    BY <1>1, <1>2, ConcatNone DEF Rest
  <2>2. QED
    BY <1>1, <1>2, <2>1 DEF ReframerInv, StartedByRest, OneMessage
<1>3. CASE sent # released
  <2> DEFINE s == out \o RoleOnce
  <2>1. /\ Tells(s, released, done, LastReason) /\ Len(s) >= 1
        /\ orderly /\ ~ done => Places(s, "role") \subseteq {1}
    BY RoleOnceTells
  <2>2. out \o Rest = s \o TextUpTo(sent)
    <3>1. RoleOnce \in Seq(Chunk) /\ TextUpTo(sent) \in Seq(Chunk)
      <4>1. TextOf(released + 1, sent) \in Chunk
        BY <1>1, TextIsChunk
      <4>2. QED
        BY <1>1, <4>1 DEF RoleOnce, TextUpTo
    <3>2. out \o (RoleOnce \o TextUpTo(sent)) = (out \o RoleOnce) \o TextUpTo(sent)
      BY <1>1, <3>1, ConcatAssociative
    <3>3. QED
      BY <1>3, <3>2 DEF Rest
  <2> HIDE DEF s
  <2>3. /\ Tells(s \o TextUpTo(sent), sent, done, LastReason)
        /\ Len(s \o TextUpTo(sent)) >= 1
        /\ Places(s \o TextUpTo(sent), "role") = Places(s, "role")
    BY <1>1, <2>1, TextUpToTells
  <2>4. StartedByRest /\ ~ (orderly /\ done)
    BY <1>3 DEF StartedByRest, ReframerInv, OneMessage
  <2>5. QED
    BY <2>1, <2>2, <2>3, <2>4
<1>4. QED
  BY <1>2, <1>3

\* The end of a message that was told so far.
LEMMA FinalizeTells ==
  ASSUME NEW s, NEW isStarted \in BOOLEAN, NEW n \in Nat, NEW was,
         Tells(s, n, FALSE, was), isStarted => Len(s) >= 1, ~ isStarted => s = <<>>, ~ done,
         finish \in Range(StopMap) \cup {"stop"}, Places(s, "role") \subseteq {1} \/ ~ orderly
  PROVE  /\ Tells(s \o Finalized(isStarted), n, TRUE, finish)
         /\ Len(s \o Finalized(isStarted)) >= 1
         /\ orderly => Places(s \o Finalized(isStarted), "role") \subseteq {1}
         /\ Places(s \o Finalized(isStarted), "[DONE]") = {Len(s \o Finalized(isStarted))}
<1> DEFINE f == Finish(finish)
           t == IF isStarted THEN s ELSE Append(s, Role)
           e == Append(Append(t, f), Done)
<1>1. s \in Seq(Chunk) /\ Role \in Chunk /\ f \in Chunk /\ Done \in Chunk
  BY DEF Tells, Chunk
<1>2. s \o Finalized(isStarted) = e
  <2>1. <<f, Done>> \in Seq(Chunk) /\ <<Role>> \in Seq(Chunk)
    BY <1>1
  <2>2. CASE isStarted
    <3>1. Finalized(isStarted) = <<f, Done>>
      BY <2>1, <2>2, ConcatEmpty DEF Finalized
    <3>2. t = s /\ s \o <<f, Done>> = Append(Append(s, f), Done)
      BY <1>1, <2>2, ConcatTwo
    <3>3. QED
      BY <3>1, <3>2
  <2>3. CASE ~ isStarted
    <3>1. Finalized(isStarted) = <<Role>> \o <<f, Done>>
      BY <2>3 DEF Finalized
    <3>2. s \o (<<Role>> \o <<f, Done>>) = (s \o <<Role>>) \o <<f, Done>>
      BY <1>1, <2>1, ConcatAssociative
    <3>3. s \o <<Role>> = Append(s, Role) /\ Append(s, Role) \in Seq(Chunk)
      BY <1>1, ConcatOne, AppendIs
    <3>4. QED
      BY <1>1, <2>3, <3>1, <3>2, <3>3, ConcatTwo
  <2>4. QED
    BY <2>2, <2>3
<1>3. /\ Tells(t, n, FALSE, was) /\ Len(t) >= 1
      /\ orderly => Places(t, "role") \subseteq {1}
  <2>1. CASE isStarted
    BY <2>1
  <2>2. CASE ~ isStarted
    <3>1. /\ Len(Append(s, Role)) = Len(s) + 1 /\ Len(s) = 0 /\ Places(s, "role") = {}
          /\ Places(Append(s, Role), "role") = Places(s, "role") \cup {Len(s) + 1}
      <4>1. Len(s) = 0
        BY <2>2
      <4>2. QED
        BY <1>1, <4>1, AppendIs, ChunkFields DEF Places
    <3>2. Tells(Append(s, Role), n, FALSE, was)
      BY RoleTells
    <3>3. t = Append(s, Role)
      BY <2>2
    <3>4. Len(Append(s, Role)) >= 1 /\ Places(Append(s, Role), "role") = {1}
      BY <3>1
    <3> HIDE DEF t
    <3>5. QED
      BY <3>2, <3>3, <3>4
  <2>3. QED
    BY <2>1, <2>2
<1> HIDE DEF t
<1>4. /\ Tells(e, n, TRUE, finish)
      /\ Places(e, "role") = Places(t, "role") /\ Places(e, "[DONE]") = {Len(e)}
  <2>1. Tells(t, n, FALSE, was) /\ Len(t) >= 1
    BY <1>3
  <2>2. QED
    BY <2>1, EndTells
<1>5. Len(e) >= 1
  <2>1. t \in Seq(Chunk)
    BY <1>3 DEF Tells
  <2>2. QED
    BY <1>1, <1>3, <2>1, AppendIs
<1>6. QED
  BY <1>2, <1>3, <1>4, <1>5

\* message_stop, or the end of the stream: both let everything go and finalize.
LEMMA EndingKeeps ==
  ASSUME ReframerInv, Ending, upstream' \in {"open", "ended"}
  PROVE  ReframerInv'
<1>0. /\ sent \in Nat /\ released \in Nat /\ started \in BOOLEAN
      /\ finish \in Range(StopMap) \cup {"stop"} /\ StartedByRest \in BOOLEAN
      /\ released <= sent /\ released >= 0
  BY ReframerAssumption DEF ReframerInv, ReframerTypeOK, StartedByRest
<1>1. /\ released' = sent /\ sent' = sent /\ done' /\ started' = StartedByRest
      /\ out' = out \o Rest \o Finalized(StartedByRest)
      /\ UNCHANGED <<sent, finish, starts, reason, orderly>>
  BY DEF Ending
<1>2. /\ Tells(out', sent, TRUE, LastReason)
      /\ started' => Len(out') >= 1
      /\ orderly => /\ Places(out', "role") \subseteq {1}
                    /\ Places(out', "[DONE]") = {Len(out')}
  <2>1. CASE done
    <3>1. Tells(out \o Rest, sent, done, LastReason)
      BY RestTells
    <3>2. out' = out \o Rest
      <4>1. out \o Rest \in Seq(Chunk) /\ Finalized(StartedByRest) = <<>>
        BY <2>1, <3>1 DEF Tells, Finalized
      <4>2. QED
        BY <1>1, <4>1, ConcatNone
    <3>3. orderly => out' = out
      BY <2>1, <3>2, RestTells
    <3>4. QED
      BY <1>1, <2>1, <3>1, <3>2, <3>3, RestTells DEF ReframerInv, OneMessage
  <2>2. CASE ~ done
    <3> DEFINE s == out \o Rest
    <3>1. /\ Tells(s, sent, FALSE, LastReason)
          /\ StartedByRest => Len(s) >= 1
          /\ Places(s, "role") \subseteq {1} \/ ~ orderly
      BY <2>2, RestTells DEF ReframerInv, ReframerTypeOK
    <3>2. ~ StartedByRest => s = <<>>
      BY <2>2, RestTells DEF StartedByRest, ReframerInv
    <3>3. finish = LastReason
      BY <2>2 DEF ReframerInv
    <3> HIDE DEF s
    <3>4. /\ Tells(s \o Finalized(StartedByRest), sent, TRUE, finish)
          /\ Len(s \o Finalized(StartedByRest)) >= 1
          /\ orderly => Places(s \o Finalized(StartedByRest), "role") \subseteq {1}
          /\ Places(s \o Finalized(StartedByRest), "[DONE]")
               = {Len(s \o Finalized(StartedByRest))}
      BY <1>0, <2>2, <3>1, <3>2, FinalizeTells
    <3>5. QED
      BY <1>1, <3>3, <3>4 DEF s
  <2>3. QED
    BY <2>1, <2>2
<1>3. ReframerTypeOK'
  BY <1>0, <1>1 DEF ReframerInv, ReframerTypeOK, Ending
<1>4. ~ started' <=> sent' = 0 /\ starts' = 0
  BY <1>0, <1>1 DEF ReframerInv, StartedByRest
<1>5. LastReason' = LastReason /\ done' = TRUE
  BY <1>1 DEF LastReason, Ending
<1>6. OneMessage'
  BY <1>1, <1>2 DEF OneMessage
<1>7. QED
  BY <1>1, <1>2, <1>3, <1>4, <1>5, <1>6 DEF ReframerInv

\* ReframerInv holds in every state.
LEMMA ReframerInvInductive == ReframerSpec => []ReframerInv
<1>1. ReframerInit => ReframerInv
  <2> SUFFICES ASSUME ReframerInit PROVE ReframerInv
    OBVIOUS
  <2>0. /\ finish = "stop" /\ LastReason = "stop" /\ done = FALSE /\ upstream = "open"
        /\ sent = 0 /\ released = 0 /\ started = FALSE /\ out = <<>> /\ starts = 0
        /\ reason = {} /\ orderly = TRUE
    BY DEF ReframerInit, LastReason
  <2>1. ReframerTypeOK
    <3>1. 0 \in 0 .. MaxSent /\ 0 \in 0 .. 0 /\ 0 \in 0 .. MaxStarts
      BY ReframerAssumption
    <3>2. FALSE \in BOOLEAN /\ TRUE \in BOOLEAN /\ {} \subseteq Reasons
      OBVIOUS
    <3>3. "stop" \in Range(StopMap) \cup {"stop"} /\ "open" \in {"open", "ended", "failed"}
      OBVIOUS
    <3>4. QED
      BY <2>0, <3>1, <3>2, <3>3 DEF ReframerTypeOK
  <2>2. out \in Seq(Chunk) /\ \A kind : Places(out, kind) = {}
    BY <2>0 DEF Places
  <2>3. Tells(out, released, done, LastReason)
    BY <2>0, <2>2 DEF Tells, TellsTexts, TellsEnd
  <2>4. QED
    BY <2>0, <2>1, <2>2, <2>3 DEF ReframerInv, OneMessage
<1>2. ASSUME ReframerInv, [ReframerNext]_reframerVars
      PROVE  ReframerInv'
  <2>0. /\ sent \in 0 .. MaxSent /\ released \in 0 .. sent /\ started \in BOOLEAN
        /\ reason \subseteq Reasons /\ MaxSent \in Nat /\ MaxStarts \in Nat
        /\ finish \in Range(StopMap) \cup {"stop"} /\ done \in BOOLEAN
        /\ orderly \in BOOLEAN /\ starts \in 0 .. MaxStarts
        /\ sent \in Nat /\ released \in Nat /\ released <= sent
    BY <1>2, ReframerAssumption DEF ReframerInv, ReframerTypeOK
  <2>1. CASE MessageStart
    <3>1. /\ upstream = "open" /\ starts < MaxStarts /\ started' = TRUE
          /\ out' = Append(out, Role) /\ starts' = starts + 1
          /\ orderly' = (orderly /\ starts = 0 /\ sent = 0 /\ ~ done)
          /\ UNCHANGED <<upstream, sent, released, finish, done, reason>>
      BY <2>1 DEF MessageStart
    <3>2. LastReason' = LastReason
      BY <3>1 DEF LastReason
    <3>3. Tells(out, released, done, LastReason) /\ out \in Seq(Chunk) /\ Role \in Chunk
      BY <1>2 DEF ReframerInv, Tells, Chunk
    <3>4. Tells(out', released, done, LastReason)
      BY <2>0, <3>1, <3>3, RoleTells
    <3>5. /\ Len(out') = Len(out) + 1 /\ Len(out) \in Nat
          /\ Places(out', "role") = Places(out, "role") \cup {Len(out) + 1}
      BY <3>1, <3>3, AppendIs, ChunkFields
    <3>6. orderly' => Places(out', "role") \subseteq {1}
      <4>1. SUFFICES ASSUME starts = 0, sent = 0, ~ done
                     PROVE  Places(out', "role") \subseteq {1}
        BY <3>1
      <4>2. out = <<>>
        BY <1>2, <2>0, <4>1 DEF ReframerInv
      <4>3. Len(out) = 0 /\ Places(out, "role") = {}
        BY <4>2 DEF Places
      <4>4. QED
        BY <3>5, <4>3
    <3>7. ReframerTypeOK'
      BY <1>2, <2>0, <3>1 DEF ReframerInv, ReframerTypeOK
    <3>8. OneMessage'
      BY <3>1, <3>6 DEF OneMessage
    <3>9. ~ started' <=> sent' = 0 /\ starts' = 0
      BY <2>0, <3>1
    <3>10. ~ done' => finish' = LastReason'
      BY <1>2, <3>1, <3>2 DEF ReframerInv
    <3>11. /\ Tells(out', released', done', LastReason') /\ Len(out') >= 1
           /\ upstream' # "ended"
      BY <3>1, <3>2, <3>4, <3>5
    <3>12. QED
      BY <3>1, <3>7, <3>8, <3>9, <3>10, <3>11 DEF ReframerInv
  <2>2. CASE Delta
    <3>1. /\ upstream = "open" /\ sent < MaxSent /\ sent' = sent + 1
          /\ released' \in released .. sent' /\ started' = TRUE
          /\ out' = out \o RoleOnce \o TextUpTo(released')
          /\ orderly' = (orderly /\ ~ done)
          /\ UNCHANGED <<upstream, finish, done, starts, reason>>
      BY <2>2 DEF Delta
    <3>2. LastReason' = LastReason
      BY <3>1 DEF LastReason
    <3>3. released' \in Nat /\ released <= released' /\ released' \in 0 .. sent'
      BY <2>0, <3>1
    <3> DEFINE s == out \o RoleOnce
    <3>4. /\ Tells(s, released, done, LastReason) /\ Len(s) >= 1
          /\ orderly /\ ~ done => Places(s, "role") \subseteq {1}
      BY <1>2, RoleOnceTells
    <3> HIDE DEF s
    <3>5. /\ Tells(s \o TextUpTo(released'), released', done, LastReason)
          /\ Len(s \o TextUpTo(released')) >= 1
          /\ Places(s \o TextUpTo(released'), "role") = Places(s, "role")
      BY <2>0, <3>3, <3>4, TextUpToTells
    <3>6. /\ Tells(out', released', done, LastReason) /\ Len(out') >= 1
          /\ orderly' => Places(out', "role") \subseteq {1}
          /\ orderly' => ~ done
      BY <3>1, <3>4, <3>5 DEF s
    <3>7. ReframerTypeOK'
      BY <1>2, <2>0, <3>1, <3>3 DEF ReframerInv, ReframerTypeOK
    <3>8. OneMessage'
      BY <3>1, <3>6 DEF OneMessage
    <3>9. ~ started' <=> sent' = 0 /\ starts' = 0
      BY <2>0, <3>1
    <3>10. ~ done' => finish' = LastReason'
      BY <1>2, <3>1, <3>2 DEF ReframerInv
    <3>11. /\ Tells(out', released', done', LastReason') /\ Len(out') >= 1
           /\ upstream' # "ended"
      BY <3>1, <3>2, <3>6
    <3>12. QED
      BY <3>1, <3>7, <3>8, <3>9, <3>10, <3>11 DEF ReframerInv
  <2>3. CASE BlockStop
    <3>1. /\ upstream = "open" /\ released' = sent /\ out' = out \o Rest
          /\ started' = StartedByRest
          /\ UNCHANGED <<upstream, sent, finish, done, starts, reason, orderly>>
      BY <2>3 DEF BlockStop
    <3>2. LastReason' = LastReason
      BY <3>1 DEF LastReason
    <3>3. /\ Tells(out', sent, done, LastReason)
          /\ started' => Len(out') >= 1
          /\ ~ started' => out' = out
          /\ orderly /\ ~ done => Places(out', "role") \subseteq {1}
          /\ orderly /\ done => out' = out
      BY <1>2, <3>1, RestTells
    <3>4. started' \in BOOLEAN /\ (~ started' => ~ started)
      BY <2>0, <3>1 DEF StartedByRest
    <3>5. ReframerTypeOK'
      BY <1>2, <2>0, <3>1, <3>4 DEF ReframerInv, ReframerTypeOK
    <3>6. OneMessage'
      BY <1>2, <3>1, <3>3 DEF ReframerInv, OneMessage
    <3>7. ~ started' <=> sent' = 0 /\ starts' = 0
      BY <1>2, <2>0, <3>1 DEF ReframerInv, StartedByRest
    <3>8. ~ done' => finish' = LastReason'
      BY <1>2, <3>1, <3>2 DEF ReframerInv
    <3>9. upstream' # "ended" /\ (started' => Len(out') >= 1)
      BY <2>3, <3>3 DEF BlockStop
    <3>10. Tells(out', released', done', LastReason')
      <4>1. Tells(out', sent, done, LastReason)
        BY <3>3
      <4>2. QED
        BY <3>1, <3>2, <4>1
    <3>11. ~ started' /\ ~ done' => out' = <<>>
      BY <1>2, <3>1, <3>3, <3>4 DEF ReframerInv
    <3>12. QED
      BY <3>5, <3>6, <3>7, <3>8, <3>9, <3>10, <3>11 DEF ReframerInv
  <2>4. ASSUME NEW r \in Reasons, MessageDelta(r) PROVE ReframerInv'
    <3>1. /\ finish' = StopMap[r] /\ reason' = IF done THEN reason ELSE {r}
          /\ UNCHANGED <<upstream, sent, released, started, done, out, starts, orderly>>
      BY <2>4 DEF MessageDelta
    <3>2. finish' \in Range(StopMap) \cup {"stop"} /\ reason' \subseteq Reasons
      BY <2>0, <3>1, ReframerAssumption DEF Range
    <3>3. ReframerTypeOK'
      BY <1>2, <3>1, <3>2 DEF ReframerInv, ReframerTypeOK
    <3>4. CASE done
      <4>1. LastReason' = LastReason
        BY <3>1, <3>4 DEF LastReason
      <4>2. QED
        BY <1>2, <3>1, <3>3, <3>4, <4>1 DEF ReframerInv, OneMessage
    <3>5. CASE ~ done
      <4>1. finish' = LastReason'
        <5>1. (CHOOSE q \in {r} : TRUE) = r
          OBVIOUS
        <5>2. QED
          BY <3>1, <3>5, <5>1 DEF LastReason
      <4>2. Tells(out', released', done', LastReason')
        BY <1>2, <2>0, <3>1, <3>5 DEF ReframerInv, Tells, TellsEnd
      <4>3. QED
        BY <1>2, <3>1, <3>3, <3>5, <4>1, <4>2 DEF ReframerInv, OneMessage
    <3>6. QED
      BY <3>4, <3>5
  <2>5. CASE MessageStop
    BY <1>2, <2>5, EndingKeeps DEF MessageStop
  <2>6. CASE StreamEnds
    BY <1>2, <2>6, EndingKeeps DEF StreamEnds
  <2>7. CASE StreamBreaks
    BY <1>2, <2>7 DEF StreamBreaks, ReframerInv, ReframerTypeOK, LastReason, OneMessage
  <2>8. CASE UNCHANGED reframerVars
    BY <1>2, <2>8 DEF reframerVars, ReframerInv, ReframerTypeOK, LastReason, OneMessage
  <2>9. QED
    BY <1>2, <2>1, <2>2, <2>3, <2>4, <2>5, <2>6, <2>7, <2>8 DEF ReframerNext
<1>3. QED
  BY <1>1, <1>2, PTL DEF ReframerSpec

\* Whatever order the events come in and however the stream ends, the client reads a role
\* first, all the text in order and once, and one finish chunk with the last reason of the
\* provider in front of one [DONE]; and a stream that ended was told to be finished.
THEOREM ReframedOnceHolds == ReframerSpec => []ReframedOnce
<1>1. ReframerInv => ReframedOnce
  BY DEF ReframerInv, Tells, ReframedOnce
<1>2. QED
  BY <1>1, ReframerInvInductive, PTL

\* If the provider keeps the documented order, what the client reads is one message: one
\* role, and once the end is told all the text stands in front of it and nothing behind.
THEOREM OneMessageHolds == ReframerSpec => []OneMessage
<1>1. ReframerInv => OneMessage
  BY DEF ReframerInv
<1>2. QED
  BY <1>1, ReframerInvInductive, PTL

-----------------------------------------------------------------------------
(* The parts beside each other.                                            *)

\* The configuration, the registry and the attempts hold what the code can put into them.
THEOREM AdminTypeOKHolds == AdminSpec => []AdminTypeOK
<1>1. TrailInv /\ RegistryInv /\ LoginInv => AdminTypeOK
  BY DEF TrailInv, SurfaceTypeOK, RegistryInv, Registry, LoginInv, AdminTypeOK
<1>2. QED
  BY <1>1, TrailInvInductive, RegistryInvInductive, LoginInvInductive, PTL

\* The calls of the guard hooks hold what the code can put into them.
THEOREM GuardTypeOKHolds == GuardSpec => []GuardTypeOK
<1>1. GuardInv => GuardTypeOK
  BY DEF GuardInv, CallInv, GuardTypeOK
<1>2. QED
  BY <1>1, GuardInvInductive, PTL

\* When the parts of the gateway stand beside each other, each behaves as it does alone: what
\* is proved of one of them holds of all of them together.
THEOREM PartsBesideEachOther ==
  Spec => HooksSpec /\ AdminSpec /\ GuardSpec /\ ReframerSpec
<1>1. Init => HooksInit /\ AdminInit /\ GuardInit /\ ReframerInit
  BY DEF Init
<1>2. [Next]_vars => /\ [HooksNext]_hooksVars /\ [AdminNext]_adminVars
                     /\ [GuardNext]_guardVars /\ [ReframerNext]_reframerVars
  BY DEF Next, vars, AdminNext
<1>3. QED
  BY <1>1, <1>2, PTL DEF Spec, HooksSpec, AdminSpec, GuardSpec, ReframerSpec

\* The variables of all parts hold what the code can put into them: the caps of the ledger
\* and of the state file, the turns that rows name, the modes that surfaces have, the
\* attempts in the window, the answers of the guards, and the stream that was reframed.
THEOREM GatewayTypeOKHolds == Spec => []TypeOK
<1>1. ReframerInv => ReframerTypeOK
  BY DEF ReframerInv
<1>2. QED
  BY <1>1, PartsBesideEachOther, HooksTypeOKHolds, AdminTypeOKHolds, GuardTypeOKHolds,
     ReframerInvInductive, PTL DEF TypeOK
=============================================================================
