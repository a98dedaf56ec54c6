------------------------------ MODULE MCGateway ------------------------------
(* The hooks of the editors, the administration and the reframer of the       *)
(* gateway beside each other.  They share no state, so one of them moves in a *)
(* behaviour (`focus`) and the others stay at their start.  One chat of a     *)
(* clean text that may mention a file with personal data, and that data; two  *)
(* runs of the turn-log hook, an approval cap of one and a cap of two hashes; *)
(* a surface that has all modes but one; five logins where two are allowed in *)
(* a window of two; one guard hook; three deltas and two starts upstream.     *)
EXTENDS EditorHooks, AdminControl, GuardEndpoints, SseReframer, TLC

CONSTANTS c1, plain, mail, web, env, built1, built2, ui, Focus

VARIABLE focus

MCReply    == [n \in 1 .. MaxTurns |-> plain]
MCModes    == {"redact", "block", "off", "allow"}
MCModesOf  == web :> {"redact", "block", "off"}
MCSeedMode == web :> "redact"
MCEnv      == <<env, built1>>
MCDefaults == <<built1, built2>>
MCStopMap  == "end_turn" :> "stop" @@ "max_tokens" :> "length" @@ "refusal" :> "stop"

vars == <<focus, hooksVars, adminVars, guardVars, reframerVars>>

Init ==
  /\ HooksInit /\ AdminInit /\ GuardInit /\ ReframerInit
  /\ focus \in Focus
  /\ focus # "hooks" => \A c \in Chats : state[c] = NoRecord

Next ==
  \/ /\ focus = "hooks" /\ HooksNext
     /\ UNCHANGED <<focus, adminVars, guardVars, reframerVars>>
  \/ /\ \/ focus = "surfaces" /\ (SurfaceNext \/ Restart)
        \/ focus = "rules" /\ (RuleNext \/ Restart)
        \/ focus = "login" /\ (Login \/ Tick \/ Restart)
     /\ UNCHANGED <<focus, hooksVars, guardVars, reframerVars>>
  \/ /\ focus = "guards" /\ GuardNext
     /\ UNCHANGED <<focus, hooksVars, adminVars, reframerVars>>
  \/ /\ focus = "reframer" /\ ReframerNext
     /\ UNCHANGED <<focus, hooksVars, adminVars, guardVars>>

Spec == Init /\ [][Next]_vars

\* The variables of all parts hold what the code can put into them.
TypeOK == HooksTypeOK /\ AdminTypeOK /\ GuardTypeOK /\ ReframerTypeOK
=============================================================================
