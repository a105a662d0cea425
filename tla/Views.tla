------------------------------- MODULE Views -------------------------------
(* What filters.Apply and filters.Summary make of a list of tasks, given    *)
(* the action for each.                                                     *)
EXTENDS Naturals, Sequences, FiniteSets, SequencesExt

Deprioritized(t) == [t EXCEPT !.attention = "low_priority"]
Acted(t, action) ==
    CASE action = "mute" -> <<>>
      [] action = "deprioritize" -> <<Deprioritized(t)>>
      [] OTHER -> <<t>>
\* actions has the action for each task of the list.
ApplyActions(list, actions) == FlattenSeq([i \in DOMAIN list |-> Acted(list[i], actions[i])])
Attentions == {"immediate", "attention", "in_progress", "done", "low_priority"}
Summary(list) ==
    [a \in Attentions |-> Cardinality({i \in DOMAIN list : list[i].attention = a})]
============================================================================
