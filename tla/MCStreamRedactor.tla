-------------------------- MODULE MCStreamRedactor --------------------------
(* Small texts for the model checker.                                      *)
EXTENDS StreamRedactor

TwoRules == <<"EMAIL", "SSN">>

H(r, first, core, last) == [rule |-> r, first |-> first, core |-> core, last |-> last]

\* A greedy match with an exact one right behind it; an exact match with a
\* greedy one, longer than the window, right behind it; no match.
DisjointTexts ==
  { {H("EMAIL", 1, 3, 4), H("SSN", 5, 5, 5)},
    {H("SSN", 1, 1, 1), H("EMAIL", 2, 4, 5)},
    {} }

\* A match of the rule scanned first overlaps a later match of the other rule.
OverlappingTexts == { {H("EMAIL", 1, 3, 3), H("SSN", 3, 5, 5)} }
=============================================================================
