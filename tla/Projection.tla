----------------------------- MODULE Projection -----------------------------
(* From the sources to the client: Link makes tasks, filters.json decides   *)
(* what is served of them (collector.Collect, server.filteredTasks).  The   *)
(* user edits the file; the tasks stay.                                     *)
EXTENDS Linking, Filtering

CONSTANTS Lists,     \* contents of the four lists of filters.json
          Rules,     \* rules the user may add
          MaxRules,  \* bound on the number of rules
          MaxEdited, \* bound: the file is edited when there are at most so many refs
          Patterns,  \* patterns the user may try
          Names      \* names that a pattern may be compared with

Listed(l) == l.muteRepos \cup l.muteUsers \cup l.lowRepos \cup l.lowUsers
ASSUME ProjectionAssumption ==
    /\ \A list \in TaskLists : \A i \in DOMAIN list : list[i].attention \in Attentions
    /\ MaxRules \in Nat
    /\ \A l \in Lists : l = [muteRepos |-> l.muteRepos, muteUsers |-> l.muteUsers,
                             lowRepos |-> l.lowRepos, lowUsers |-> l.lowUsers, rules |-> <<>>]
    /\ Patterns \cup Names \subseteq Seq(DOMAIN Lower)
    /\ \A l \in Lists : Listed(l) \subseteq Seq(DOMAIN Lower)

VARIABLES cfg  \* filters.json
pvars == <<vars, cfg>>

PInit == Init /\ cfg = NoFilters

\* A collection works on what it was given, whatever happens to the file.
Linked == Link /\ UNCHANGED cfg
Editable == step = "done" /\ Len(refs) <= MaxEdited
SetLists(l) ==
    /\ Editable /\ cfg = NoFilters
    /\ cfg' = l
    /\ UNCHANGED vars
\* bound: single patterns are tried where there are no refs
MuteRepo(p) ==
    /\ Editable /\ cfg = NoFilters /\ refs = <<>>
    /\ cfg' = [NoFilters EXCEPT !.muteRepos = {p}]
    /\ UNCHANGED vars
AddRule(rule) ==
    /\ Editable /\ Len(cfg.rules) < MaxRules
    /\ cfg' = [cfg EXCEPT !.rules = Append(@, rule)]
    /\ UNCHANGED vars
PNext ==
    \/ Linked
    \/ \E l \in Lists : SetLists(l)
    \/ \E p \in Patterns : MuteRepo(p)
    \/ \E rule \in Rules : AddRule(rule)
PSpec == PInit /\ [][PNext]_pvars

----------------------------------------------------------------------------
TypeOK ==
    /\ PositionsOK
    /\ \A i \in DOMAIN items : items[i].attention \in Attentions /\ items[i].refs # <<>>
    /\ Len(cfg.rules) <= MaxRules

(* The refs that no task has are grouped as their relation connects them,   *)
(* directly or through others, whatever their order: two are in one group   *)
(* if and only if no set of refs with all their relatives has only the one. *)
WithRelatives(S) == \A j \in S, k \in loose : Related(refs[j], refs[k]) => k \in S
Connected(j, k) == \A S \in SUBSET loose : WithRelatives(S) /\ j \in S => k \in S
GroupsAreComponents ==
    step = "done" => \A j, k \in loose : groupOf[j] = groupOf[k] <=> Connected(j, k)

(* The search for pieces finds a match whenever there is one: star stands   *)
(* for any text, a blank pattern or name matches nothing, and blanks around *)
(* them do not count.                                                       *)
Fits(p, v) ==
    LET fits[i \in 0..Len(p)] ==
            [j \in 0..Len(v) |->
                IF i = 0 THEN j = 0
                ELSE IF p[i] = "*" THEN \E k \in 0..j : fits[i - 1][k]
                ELSE j > 0 /\ Lower[p[i]] = Lower[v[j]] /\ fits[i - 1][j - 1]]
    IN  fits[Len(p)][Len(v)]
WildcardsFit ==
    \A p \in Listed(cfg), v \in Names :
        WildcardMatch(p, v) <=> Trim(p) # <<>> /\ Trim(v) # <<>> /\ Fits(Trim(p), Trim(v))

(* A rule that is added decides on the tasks it matches, whatever the lists *)
(* and rules before it said, leaves all other tasks as they were, and       *)
(* nothing it says outlasts a later `keep`.                                 *)
Served(t, file) == Apply(<<t>>, file)
Verdict(t, rule) ==
    CASE NormalizeAction(rule.action) = "keep" -> <<t>>
      [] NormalizeAction(rule.action) = "deprioritize" -> <<Deprioritized(t)>>
      [] OTHER -> <<>>
LastRuleDecides ==
    [][\A rule \in Rules : AddRule(rule) =>
          \A i \in DOMAIN items :
              Served(items[i], cfg') =
                  IF MatchesRule(items[i], rule) THEN Verdict(items[i], rule)
                  ELSE Served(items[i], cfg)]_pvars
============================================================================
