------------------------------- MODULE MCDaemon -------------------------------
(***************************************************************************)
(* Daemon with two interchangeable connection handlers, for the runs that  *)
(* check safety properties.                                                *)
(***************************************************************************)
EXTENDS Daemon, TLC

CONSTANTS h1, h2

TwoHandlers == {h1, h2}

HandlerSymmetry == Permutations(TwoHandlers)
=============================================================================
