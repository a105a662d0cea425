----------------------------- MODULE MCDaemonFile -----------------------------
(***************************************************************************)
(* DaemonFile with two interchangeable connection handlers.                *)
(***************************************************************************)
EXTENDS DaemonFile, TLC

CONSTANTS h1, h2

TwoHandlers == {h1, h2}

HandlerSymmetry == Permutations(TwoHandlers)
=============================================================================
