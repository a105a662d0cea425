---------------------------- MODULE MCServedView ----------------------------
(* Two tasks, a pull request of the user's and activity elsewhere.          *)
EXTENDS ServedView

CONSTANTS r1, r2

TwoRequests == {r1, r2}
MCUrgency == [own |-> "attention", activity |-> "immediate"]
MCConfigs == {[mute |-> {}, low |-> {}], [mute |-> {"own"}, low |-> {"activity"}]}
=============================================================================
