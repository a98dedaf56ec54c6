--------------------------- MODULE MCProxyPipeline ---------------------------
(* Two requests of the clients the gateway serves.                           *)
EXTENDS ProxyPipeline

CONSTANTS p1, p2, p3, p4, none

MCModels == {"alias", "claude", "gpt"}

MCResolve == [m \in MCModels |-> IF m = "alias" THEN "claude" ELSE m]

A(route, model, prompt, valid) ==
  [route |-> route, model |-> model, prompt |-> prompt, valid |-> valid]

\* Claude Code asks for claude directly, Cursor under an alias or for another
\* provider's model.  p1 and p2 need the classifier where there is one, p3 has
\* a known injection signature and p4 is trivial.
MCArrivals ==
  { A("anthropic", "claude", p1, TRUE), A("anthropic", "claude", p4, TRUE),
    A("openai", "alias", p2, TRUE), A("openai", "alias", p2, FALSE),
    A("openai", "gpt", p2, TRUE), A("openai", "gpt", p3, TRUE),
    A("openai", "gpt", none, TRUE) }
=============================================================================
