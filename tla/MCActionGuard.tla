---------------------------- MODULE MCActionGuard ----------------------------
(* A conversation with a coding agent, two scans at a time and three findings *)
(* of which the store holds two.                                              *)
EXTENDS ActionGuard

CONSTANTS c1, k1, k2, k3
=============================================================================
