------------------------- MODULE ActionGuard_proofs -------------------------
(***************************************************************************)
(* Theorems about ActionGuard for every number of conversations, of scans  *)
(* under way and of findings, for every cap of the store and for every     *)
(* combination of failures.                                                *)
(***************************************************************************)
EXTENDS ActionGuard, FiniteSetTheorems, TLAPS

-----------------------------------------------------------------------------
(* The store.                                                              *)

\* Findings are finitely many.
LEMMA FoundIsFinite ==
  ASSUME NEW F, F \subseteq Keys
  PROVE  IsFiniteSet(F) /\ Cardinality(F) \in Nat
BY KeyAssumption, FS_Subset, FS_CardinalityType

\* append keeps what the store holds and its cap; it drops a finding only if the
\* cap is reached.
LEMMA AppendedIs ==
  ASSUME NEW held, held \subseteq Keys, Cardinality(held) <= CapPerConv,
         NEW found, found \subseteq Keys,
         NEW more \in Appended(held, found)
  PROVE  /\ held \subseteq more /\ more \subseteq held \cup found
         /\ Cardinality(more) <= CapPerConv
         /\ held \cup found \subseteq more \/ Cardinality(more) = CapPerConv
         /\ Cardinality(held) = CapPerConv => Cardinality(more) = CapPerConv
<1> DEFINE all == held \cup found
<1>1. /\ held \subseteq more /\ more \subseteq all
      /\ Cardinality(more) = Smaller(CapPerConv, Cardinality(all))
  BY DEF Appended
<1>2. /\ IsFiniteSet(all) /\ Cardinality(all) \in Nat
      /\ IsFiniteSet(more) /\ Cardinality(more) \in Nat
      /\ Cardinality(held) \in Nat
  BY <1>1, FoundIsFinite
<1>3. Cardinality(held) <= Cardinality(more)
  BY <1>1, <1>2, FS_Subset
<1>4. CASE CapPerConv < Cardinality(all)
  <2>1. Cardinality(more) = CapPerConv
    BY <1>1, <1>4 DEF Smaller
  <2>2. QED BY <1>1, <2>1, CapAssumption
<1>5. CASE ~ (CapPerConv < Cardinality(all))
  <2>1. Cardinality(more) = Cardinality(all) /\ Cardinality(all) <= CapPerConv
    BY <1>1, <1>2, <1>5, CapAssumption DEF Smaller
  <2>2. more = all
    BY <1>1, <1>2, <2>1, FS_Subset
  <2>3. QED BY <1>1, <1>2, <1>3, <2>1, <2>2, CapAssumption
<1>6. QED BY <1>4, <1>5

-----------------------------------------------------------------------------
(* Type correctness.                                                       *)

\* What a scan under way is.
LEMMA ScanType ==
  ASSUME TypeOK, NEW s \in Slots, scans[s] # Free
  PROVE  /\ scans[s] \in Scan /\ scans[s].conv \in Convs /\ scans[s].tier1 \subseteq Keys
         /\ scans[s].phase \in {"hook", "scanning", "detached"}
<1>1. scans[s] \in Scan
  BY DEF TypeOK
<1>2. QED BY <1>1 DEF Scan

\* A slot whose scan is in some phase is not free.
LEMMA NotFree ==
  ASSUME NEW s \in Slots, scans[s].phase \in {"hook", "scanning", "detached"}
  PROVE  scans[s] # Free
BY DEF Free

\* What one tier finds at once.
LEMMA FoundAtOnceType == FoundAtOnce \subseteq SUBSET Keys
BY DEF FoundAtOnce

\* Nothing has been found at the beginning.
THEOREM TypeInit == Init => TypeOK
<1> SUFFICES ASSUME Init PROVE TypeOK
  OBVIOUS
<1>1. \A c \in Convs : Cardinality(store[c]) <= CapPerConv
  BY FS_EmptySet, CapAssumption DEF Init
<1>2. QED BY <1>1 DEF Init, TypeOK

\* A step of an agent, a hook, a scan or the gateway keeps every type, and every
\* conversation under its cap.
THEOREM TypeNext == TypeOK /\ [Next]_vars => TypeOK'
<1> SUFFICES ASSUME TypeOK, [Next]_vars PROVE TypeOK'
  OBVIOUS
<1>1. ASSUME NEW c \in Convs, NEW tier1 \in Batches, Edit(c, tier1) PROVE TypeOK'
  <2>1. \A s \in DOMAIN tier1 : tier1[s] \in SUBSET Keys
    BY FoundAtOnceType DEF Batches
  <2>2. scans' \in [Slots -> Scan \cup {Free}]
    BY <1>1, <2>1 DEF Edit, Scan, TypeOK
  <2>3. QED BY <1>1, <2>2 DEF Edit, TypeOK
<1>2. ASSUME NEW c \in Convs,
             \/ Stop(c) \/ Pending(c) \/ StopBlocks(c)
             \/ StopPasses(c) \/ StopFails(c) \/ StartTurn(c)
      PROVE  TypeOK'
  <2>1. CASE Stop(c)
    BY <2>1 DEF Stop, TypeOK
  <2>2. CASE Pending(c)
    <3>1. \A d \in Convs : Cardinality(store'[d]) <= CapPerConv
      BY <2>2, FS_EmptySet, CapAssumption DEF Pending, TypeOK
    <3>2. QED BY <2>2, <3>1 DEF Pending, TypeOK
  <2>3. CASE StopBlocks(c)
    BY <2>3 DEF StopBlocks, TypeOK
  <2>4. CASE StopPasses(c)
    BY <2>4 DEF StopPasses, TypeOK
  <2>5. CASE StopFails(c)
    BY <2>5 DEF StopFails, TypeOK
  <2>6. CASE StartTurn(c)
    BY <2>6 DEF StartTurn, TypeOK
  <2>7. QED BY <1>2, <2>1, <2>2, <2>3, <2>4, <2>5, <2>6
<1>3. ASSUME NEW s \in Slots, HookSkips(s) PROVE TypeOK'
  BY <1>3 DEF HookSkips, TypeOK
<1>4. ASSUME NEW s \in Slots, ScanStarts(s) \/ HookTimesOut(s) PROVE TypeOK'
  <2>1. scans[s] \in Scan
    BY <1>4, NotFree, ScanType DEF ScanStarts, HookTimesOut
  <2>2. PICK p \in {"scanning", "detached"} : scans' = [scans EXCEPT ![s].phase = p]
    BY <1>4 DEF ScanStarts, HookTimesOut, SetPhase
  <2>3. scans' \in [Slots -> Scan \cup {Free}]
    BY <2>1, <2>2 DEF Scan, TypeOK
  <2>4. faulty' \in [Convs -> BOOLEAN]
    BY <1>4 DEF ScanStarts, HookTimesOut, TypeOK
  <2>5. UNCHANGED <<turn, active, store, reply, audit, turnFound>>
    BY <1>4 DEF ScanStarts, HookTimesOut
  <2>6. QED BY <2>3, <2>4, <2>5 DEF TypeOK
<1>5. ASSUME NEW s \in Slots, NEW tier2 \in FoundAtOnce, ScanEnds(s, tier2) PROVE TypeOK'
  <2> DEFINE c     == scans[s].conv
             found == scans[s].tier1 \cup tier2
  <2>1. c \in Convs /\ found \subseteq Keys
    BY <1>5, NotFree, ScanType, FoundAtOnceType DEF ScanEnds
  <2>2. scans' \in [Slots -> Scan \cup {Free}]
    BY <1>5 DEF ScanEnds, TypeOK
  <2>3. /\ turnFound' = [turnFound EXCEPT ![c] = @ \cup found]
        /\ UNCHANGED <<turn, active, reply, faulty>>
    BY <1>5 DEF ScanEnds
  <2>4. CASE UNCHANGED <<store, audit>>
    <3> HIDE DEF c, found
    <3>1. QED BY <2>1, <2>2, <2>3, <2>4 DEF TypeOK
  <2>5. CASE \E more \in Appended(store[c], found) :
               /\ store' = [store EXCEPT ![c] = more]
               /\ audit' = [audit EXCEPT ![c] = @ \cup found]
    <3> HIDE DEF c, found
    <3>1. PICK more \in Appended(store[c], found) :
               /\ store' = [store EXCEPT ![c] = more]
               /\ audit' = [audit EXCEPT ![c] = @ \cup found]
      BY <2>5
    <3>2. more \subseteq Keys /\ Cardinality(more) <= CapPerConv
      BY <2>1, AppendedIs DEF TypeOK
    <3>3. /\ store' \in [Convs -> SUBSET Keys]
          /\ \A d \in Convs : Cardinality(store'[d]) <= CapPerConv
      BY <2>1, <3>1, <3>2 DEF TypeOK
    <3>4. QED BY <2>1, <2>2, <2>3, <3>1, <3>3 DEF TypeOK
  <2>6. QED BY <1>5, <2>4, <2>5 DEF ScanEnds
<1>6. CASE GatewayRestarts
  <2>1. \A c \in Convs : Cardinality(store'[c]) <= CapPerConv
    BY <1>6, FS_EmptySet, CapAssumption DEF GatewayRestarts
  <2>2. scans' \in [Slots -> Scan \cup {Free}]
    BY <1>6 DEF GatewayRestarts, TypeOK
  <2>3. QED BY <1>6, <2>1, <2>2 DEF GatewayRestarts, TypeOK
<1>7. CASE UNCHANGED vars
  BY <1>7 DEF vars, TypeOK
<1>8. QED
  BY <1>1, <1>2, <1>3, <1>4, <1>5, <1>6, <1>7 DEF Next

\* The types hold in every reachable state, and no conversation outgrows its cap.
THEOREM TypeCorrect == Spec => []TypeOK
BY TypeInit, TypeNext, PTL DEF Spec

-----------------------------------------------------------------------------
(* The findings of a turn.                                                 *)

\* A hook that is waited for keeps its agent at work; a scan without a hook marks
\* the turn it may disturb.
InFlight ==
  \A s \in Slots :
    /\ scans[s].phase \in {"hook", "scanning"} => turn[scans[s].conv] = "working"
    /\ scans[s].phase = "detached" => faulty[scans[s].conv]

\* The stop hook asks once per turn.
AsksOnce == \A c \in Convs : turn[c] \in {"asking", "answered"} => ~ active[c]

\* All that was found, or as much as the cap lets through.
AllOf(found, there) == found \subseteq there \/ Cardinality(there) = CapPerConv

\* Until the stop hook has asked, the findings of the turn wait in the store, and
\* afterwards they are on their way to it.
Collected ==
  \A c \in Convs :
    ~ faulty[c] =>
      /\ turn[c] \in {"working", "asking"} /\ ~ active[c] => AllOf(turnFound[c], store[c])
      /\ turn[c] = "answered" => AllOf(turnFound[c], reply[c])

ToldInv == InFlight /\ AsksOnce /\ Collected

\* Nothing has been found and nobody has asked at the beginning.
THEOREM ToldInit == Init => ToldInv
<1> SUFFICES ASSUME Init PROVE ToldInv
  OBVIOUS
<1>1. InFlight
  BY DEF Init, InFlight, Free
<1>2. AsksOnce /\ Collected
  BY DEF Init, AsksOnce, Collected, AllOf
<1>3. QED BY <1>1, <1>2 DEF ToldInv

\* A step of a conversation (its agent or its stop hook) keeps the findings of
\* the turn together.
LEMMA ConversationTold ==
  ASSUME TypeOK, ToldInv, NEW c \in Convs,
         \/ Stop(c) \/ Pending(c) \/ StopBlocks(c)
         \/ StopPasses(c) \/ StopFails(c) \/ StartTurn(c)
  PROVE  ToldInv'
<1> USE DEF ToldInv
<1>1. scans' = scans
  BY DEF Stop, Pending, StopBlocks, StopPasses, StopFails, StartTurn
<1>2. /\ \A s \in Slots : scans[s] # Free => scans[s].conv \in Convs
      /\ \A s \in Slots : scans[s].phase \in {"hook", "scanning", "detached"} => scans[s] # Free
  BY ScanType, NotFree
<1>3. CASE Stop(c)
  <2>1. InFlight'
    BY <1>1, <1>2, <1>3 DEF Stop, Waiting, InFlight, TypeOK
  <2>2. AsksOnce' /\ Collected'
    BY <1>3 DEF Stop, AsksOnce, Collected, TypeOK
  <2>3. QED BY <2>1, <2>2
<1>4. CASE Pending(c)
  <2>1. InFlight'
    BY <1>1, <1>2, <1>4 DEF Pending, InFlight, TypeOK
  <2>2. AsksOnce'
    BY <1>4 DEF Pending, AsksOnce, TypeOK
  <2>3. Collected'
    BY <1>4 DEF Pending, AsksOnce, Collected, TypeOK
  <2>4. QED BY <2>1, <2>2, <2>3
<1>5. CASE StopBlocks(c)
  <2>1. InFlight'
    BY <1>1, <1>2, <1>5 DEF StopBlocks, InFlight, TypeOK
  <2>2. AsksOnce' /\ Collected'
    BY <1>5 DEF StopBlocks, AsksOnce, Collected, TypeOK
  <2>3. QED BY <2>1, <2>2
<1>6. CASE StopPasses(c)
  <2>1. InFlight'
    BY <1>1, <1>2, <1>6 DEF StopPasses, InFlight, TypeOK
  <2>2. AsksOnce' /\ Collected'
    BY <1>6 DEF StopPasses, AsksOnce, Collected, TypeOK
  <2>3. QED BY <2>1, <2>2
<1>7. CASE StopFails(c)
  <2>1. InFlight'
    BY <1>1, <1>2, <1>7 DEF StopFails, InFlight, TypeOK
  <2>2. AsksOnce' /\ Collected'
    BY <1>7 DEF StopFails, AsksOnce, Collected, TypeOK
  <2>3. QED BY <2>1, <2>2
<1>8. CASE StartTurn(c)
  <2>1. InFlight'
    BY <1>1, <1>2, <1>8 DEF StartTurn, InFlight, TypeOK
  <2>2. AsksOnce' /\ Collected'
    BY <1>8 DEF StartTurn, AsksOnce, Collected, AllOf, TypeOK
  <2>3. QED BY <2>1, <2>2
<1>9. QED BY <1>3, <1>4, <1>5, <1>6, <1>7, <1>8

\* A step of a scan or its hook keeps the findings of the turn together: what it
\* finds goes to the store while the turn is still collecting.
LEMMA ScanTold ==
  ASSUME TypeOK, ToldInv, NEW s \in Slots,
         \/ HookSkips(s) \/ ScanStarts(s) \/ HookTimesOut(s)
         \/ \E tier2 \in FoundAtOnce : ScanEnds(s, tier2)
  PROVE  ToldInv'
<1> USE DEF ToldInv
<1> DEFINE c == scans[s].conv
<1>1. /\ scans[s].phase \in {"hook", "scanning", "detached"}
      /\ scans[s] # Free /\ scans[s] \in Scan /\ c \in Convs /\ scans[s].tier1 \subseteq Keys
  BY NotFree, ScanType DEF HookSkips, ScanStarts, HookTimesOut, ScanEnds
<1>2. CASE HookSkips(s)
  <2>1. InFlight'
    BY <1>1, <1>2, ScanType, NotFree DEF HookSkips, InFlight, Free, TypeOK
  <2>2. AsksOnce' /\ Collected'
    BY <1>1, <1>2 DEF HookSkips, AsksOnce, Collected, TypeOK
  <2>3. QED BY <2>1, <2>2
<1>3. CASE ScanStarts(s)
  <2>1. InFlight'
    BY <1>1, <1>3 DEF ScanStarts, SetPhase, InFlight, Scan, TypeOK
  <2>2. AsksOnce' /\ Collected'
    BY <1>3 DEF ScanStarts, AsksOnce, Collected
  <2>3. QED BY <2>1, <2>2
<1>4. CASE HookTimesOut(s)
  <2>1. InFlight'
    BY <1>1, <1>4, ScanType, NotFree DEF HookTimesOut, SetPhase, InFlight, Scan, TypeOK
  <2>2. AsksOnce' /\ Collected'
    BY <1>1, <1>4 DEF HookTimesOut, AsksOnce, Collected, TypeOK
  <2>3. QED BY <2>1, <2>2
<1>5. ASSUME NEW tier2 \in FoundAtOnce, ScanEnds(s, tier2) PROVE ToldInv'
  <2> DEFINE found == scans[s].tier1 \cup tier2
  <2>1. found \subseteq Keys
    BY <1>1, FoundAtOnceType
  <2>2. /\ scans' = [scans EXCEPT ![s] = Free]
        /\ turnFound' = [turnFound EXCEPT ![c] = @ \cup found]
        /\ UNCHANGED <<turn, active, reply, faulty>>
    BY <1>5 DEF ScanEnds
  <2>3. InFlight'
    BY <2>2 DEF InFlight, Free, TypeOK
  <2>4. AsksOnce'
    BY <2>2 DEF AsksOnce
  <2>5. ASSUME NEW d \in Convs, ~ faulty[d]
        PROVE  /\ turn[d] \in {"working", "asking"} /\ ~ active[d] => AllOf(turnFound'[d], store'[d])
               /\ turn[d] = "answered" => AllOf(turnFound'[d], reply[d])
    <3>1. CASE d # c
      <4>1. turnFound'[d] = turnFound[d] /\ store'[d] = store[d]
        BY <1>5, <2>2, <3>1 DEF ScanEnds, TypeOK
      <4>2. QED BY <2>5, <4>1 DEF Collected
    <3>2. CASE d = c
      <4>1. turn[d] = "working"
        BY <1>1, <2>5, <3>2 DEF InFlight
      <4>2. ~ active[d] => AllOf(turnFound[d], store[d])
        BY <2>5, <4>1 DEF Collected
      <4>3. turnFound'[d] = turnFound[d] \cup found
        BY <2>2, <3>2 DEF TypeOK
      <4>4. CASE found = {}
        BY <1>5, <4>1, <4>2, <4>3, <4>4 DEF ScanEnds
      <4>5. CASE found # {}
        <5>1. PICK more \in Appended(store[d], found) : store' = [store EXCEPT ![d] = more]
          BY <1>5, <3>2, <4>5 DEF ScanEnds
        <5>2. store'[d] = more
          BY <5>1 DEF TypeOK
        <5>3. store[d] \subseteq Keys /\ Cardinality(store[d]) <= CapPerConv
          BY DEF TypeOK
        <5>4. /\ store[d] \subseteq more
              /\ store[d] \cup found \subseteq more \/ Cardinality(more) = CapPerConv
              /\ Cardinality(store[d]) = CapPerConv => Cardinality(more) = CapPerConv
          <6> HIDE DEF found
          <6> QED BY <2>1, <5>1, <5>3, AppendedIs
        <5>5. ~ active[d] => AllOf(turnFound'[d], store'[d])
          BY <4>2, <4>3, <5>2, <5>4 DEF AllOf
        <5>6. QED BY <4>1, <5>5
      <4>6. QED BY <4>4, <4>5
    <3>3. QED BY <3>1, <3>2
  <2>6. Collected'
    BY <2>2, <2>5 DEF Collected
  <2>7. QED BY <2>3, <2>4, <2>6
<1>6. QED BY <1>2, <1>3, <1>4, <1>5

\* Every step keeps the findings of every turn together.
THEOREM ToldNext == TypeOK /\ ToldInv /\ [Next]_vars => ToldInv'
<1> SUFFICES ASSUME TypeOK, ToldInv, [Next]_vars PROVE ToldInv'
  OBVIOUS
<1>1. ASSUME NEW c \in Convs, NEW tier1 \in Batches, Edit(c, tier1) PROVE ToldInv'
  <2>1. InFlight'
    BY <1>1 DEF Edit, ToldInv, InFlight, TypeOK
  <2>2. AsksOnce' /\ Collected'
    BY <1>1 DEF Edit, ToldInv, AsksOnce, Collected
  <2>3. QED BY <2>1, <2>2 DEF ToldInv
<1>2. CASE GatewayRestarts
  <2>1. InFlight'
    <3>1. ASSUME NEW s \in Slots
          PROVE  scans'[s].phase \in {"hook", "scanning", "detached"} =>
                   scans[s].phase = "hook" /\ scans'[s] = scans[s]
      BY <1>2 DEF GatewayRestarts, Free
    <3>2. turn' = turn
      BY <1>2 DEF GatewayRestarts
    <3>3. QED BY <3>1, <3>2 DEF ToldInv, InFlight
  <2>2. AsksOnce' /\ Collected'
    BY <1>2 DEF GatewayRestarts, ToldInv, AsksOnce, Collected
  <2>3. QED BY <2>1, <2>2 DEF ToldInv
<1>3. CASE UNCHANGED vars
  BY <1>3 DEF vars, ToldInv, InFlight, AsksOnce, Collected
<1>4. QED
  BY <1>1, <1>2, <1>3, ConversationTold, ScanTold DEF Next

\* When the stop hook is through with a turn that no failure touched, it has
\* been told all that the turn's scans found, or as much as the cap lets through.
THEOREM TurnFindingsToldHolds == Spec => TurnFindingsTold
<1> DEFINE Told == \A c \in Convs :
             turn[c] = "answered" /\ turn'[c] # "answered" /\ ~ faulty[c] =>
               \/ turnFound[c] \subseteq reply[c]
               \/ Cardinality(reply[c]) = CapPerConv
<1>1. ToldInv /\ [Next]_vars => [Told]_vars
  BY DEF ToldInv, Collected, AllOf
<1> HIDE DEF Told
<1>2. Spec => [][Told]_vars
  BY <1>1, TypeInit, TypeNext, ToldInit, ToldNext, PTL DEF Spec
<1>3. QED BY <1>2 DEF TurnFindingsTold, Told

-----------------------------------------------------------------------------
(* The record.                                                             *)

\* What a scan adds to the store it adds to the log.
THEOREM AuditNext == TypeOK /\ HeldIsAudited /\ [Next]_vars => HeldIsAudited'
<1> SUFFICES ASSUME TypeOK, HeldIsAudited, [Next]_vars PROVE HeldIsAudited'
  OBVIOUS
<1>1. ASSUME NEW s \in Slots, NEW tier2 \in FoundAtOnce, ScanEnds(s, tier2)
      PROVE  HeldIsAudited'
  <2> DEFINE c     == scans[s].conv
             found == scans[s].tier1 \cup tier2
  <2>1. c \in Convs /\ found \subseteq Keys
    BY <1>1, NotFree, ScanType, FoundAtOnceType DEF ScanEnds
  <2>2. CASE found = {}
    BY <1>1, <2>2 DEF ScanEnds, HeldIsAudited
  <2>3. CASE found # {}
    <3>1. PICK more \in Appended(store[c], found) :
            /\ store' = [store EXCEPT ![c] = more]
            /\ audit' = [audit EXCEPT ![c] = @ \cup found]
      BY <1>1, <2>3 DEF ScanEnds
    <3> HIDE DEF c, found
    <3>2. more \subseteq store[c] \cup found
      BY <2>1, <3>1, AppendedIs DEF TypeOK
    <3>3. QED BY <2>1, <3>1, <3>2 DEF HeldIsAudited, TypeOK
  <2>4. QED BY <2>2, <2>3
<1>2. ASSUME NEW c \in Convs, Pending(c) PROVE HeldIsAudited'
  BY <1>2 DEF Pending, HeldIsAudited, TypeOK
<1>3. CASE GatewayRestarts
  BY <1>3 DEF GatewayRestarts, HeldIsAudited
<1>4. CASE UNCHANGED <<store, audit>>
  BY <1>4 DEF HeldIsAudited
<1>5. ASSUME NEW c \in Convs,
             \/ \E tier1 \in Batches : Edit(c, tier1)
             \/ Stop(c) \/ StopBlocks(c) \/ StopPasses(c) \/ StopFails(c) \/ StartTurn(c)
      PROVE  UNCHANGED <<store, audit>>
  BY <1>5 DEF Edit, Stop, StopBlocks, StopPasses, StopFails, StartTurn
<1>6. ASSUME NEW s \in Slots, HookSkips(s) \/ ScanStarts(s) \/ HookTimesOut(s)
      PROVE  UNCHANGED <<store, audit>>
  BY <1>6 DEF HookSkips, ScanStarts, HookTimesOut
<1>7. CASE UNCHANGED vars
  BY <1>4, <1>7 DEF vars
<1>8. QED
  BY <1>1, <1>2, <1>3, <1>4, <1>5, <1>6, <1>7 DEF Next

\* Whatever waits in the store of a conversation is on record under it, with any
\* number of scans that nobody waits for and any cap.
THEOREM HeldIsAuditedHolds == Spec => []HeldIsAudited
<1>1. Init => HeldIsAudited
  BY DEF Init, HeldIsAudited
<1>2. QED BY <1>1, TypeInit, TypeNext, AuditNext, PTL DEF Spec
=============================================================================
