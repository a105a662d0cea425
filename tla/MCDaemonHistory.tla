---------------------------- MODULE MCDaemonHistory ----------------------------
(***************************************************************************)
(* DaemonHistory with two interchangeable connection handlers.             *)
(***************************************************************************)
EXTENDS DaemonHistory, TLC

CONSTANTS h1, h2

TwoHandlers == {h1, h2}

HandlerSymmetry == Permutations(TwoHandlers)
=============================================================================
