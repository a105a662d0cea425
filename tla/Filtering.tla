----------------------------- MODULE Filtering -----------------------------
(* internal/filters: which tasks filters.json hides or moves to low         *)
(* priority.  A name or a pattern is a sequence of characters.              *)
EXTENDS Integers, Views

CONSTANTS Lower,  \* character -> its lower case
          Blanks, \* the characters that are white space
          Plain   \* action as the file spells it -> trimmed and in lower case

ASSUME FilteringAssumption ==
    /\ Lower \in [DOMAIN Lower -> DOMAIN Lower]
    /\ \A c \in DOMAIN Lower : Lower[c] = "*" <=> c = "*"
    /\ \A a \in {"keep", "mute", "deprioritize", "low_priority"} : Plain[a] = a

----------------------------------------------------------------------------
(* wildcardMatch: each piece between stars is searched for behind the one   *)
(* before it.                                                               *)
Trim(s) ==
    LET kept == {i \in DOMAIN s : s[i] \notin Blanks}
    IN  IF kept = {} THEN <<>> ELSE SubSeq(s, Min(kept), Max(kept))
Lowered(s) == [i \in DOMAIN s |-> Lower[s[i]]]
Normalize(s) == Lowered(Trim(s))
\* strings.Split: a star ends a piece and begins the next one.
Extend(parts, c) ==
    IF c = "*" THEN Append(parts, <<>>) ELSE [parts EXCEPT ![Len(parts)] = Append(@, c)]
Split(p) ==
    LET parts[i \in 0..Len(p)] ==
            IF i = 0 THEN << <<>> >> ELSE Extend(parts[i - 1], p[i])
    IN  parts[Len(p)]
HasStar(p) == \E i \in DOMAIN p : p[i] = "*"

\* strings.Index, from a position on.
Occurrences(piece, v, from) ==
    {at \in from..Len(v) - Len(piece) : SubSeq(v, at + 1, at + Len(piece)) = piece}
Lost == -1
Behind(piece, v, from, first) ==
    LET found == Occurrences(piece, v, from)
    IN  IF from = Lost \/ piece = <<>> THEN from
        ELSE IF found = {} \/ (first /\ 0 \notin found) THEN Lost
        ELSE Min(found) + Len(piece)
\* mutant
LastPieceFitsAnywhere(last, v) == TRUE
LastPieceFits(last, v) == IsSuffix(last, v)
WildcardMatch(pattern, value) ==
    LET p == Normalize(pattern)
        v == Normalize(value)
        parts == Split(p)
        pos[n \in 0..Len(parts)] ==
            IF n = 0 THEN 0 ELSE Behind(parts[n], v, pos[n - 1], n = 1)
    IN  /\ p # <<>> /\ v # <<>>
        /\ IF ~HasStar(p) THEN p = v
           ELSE pos[Len(parts)] # Lost /\ LastPieceFits(parts[Len(parts)], v)

----------------------------------------------------------------------------
(* Rules.  A task has a repository and a user, and so has each of its refs. *)
Values(t, field) == {t[field]} \cup {t.refs[i][field] : i \in DOMAIN t.refs}
RepoValues(t) == Values(t, "repo")
UserValues(t) == Values(t, "user")
MatchesAny(values, patterns) == \E v \in values, p \in patterns : WildcardMatch(p, v)
MatchesRule(t, rule) ==
    /\ rule.repos # {} \/ rule.users # {}
    /\ rule.repos # {} => MatchesAny(RepoValues(t), rule.repos)
    /\ rule.users # {} => MatchesAny(UserValues(t), rule.users)

Actions == {"keep", "mute", "deprioritize"}
NormalizeAction(action) ==
    CASE Plain[action] \in Actions -> Plain[action]
      [] Plain[action] = "low_priority" -> "deprioritize"
      [] OTHER -> "keep"

NoFilters == [muteRepos |-> {}, muteUsers |-> {}, lowRepos |-> {}, lowUsers |-> {}, rules |-> <<>>]
Rule(repos, users, action) == [repos |-> repos, users |-> users, action |-> action]
\* The lists are rules that come first, in this order.
AllRules(cfg) ==
    << Rule(cfg.muteRepos, {}, "mute"), Rule({}, cfg.muteUsers, "mute"),
       Rule(cfg.lowRepos, {}, "deprioritize"), Rule({}, cfg.lowUsers, "deprioritize") >> \o cfg.rules
\* mutant
ActionForFirst(t, cfg) ==
    LET rules == AllRules(cfg)
        matching == {n \in DOMAIN rules : MatchesRule(t, rules[n])}
    IN  IF matching = {} THEN "keep" ELSE NormalizeAction(rules[Min(matching)].action)
ActionFor(t, cfg) ==
    LET rules == AllRules(cfg)
        action[n \in 0..Len(rules)] ==
            IF n = 0 THEN "keep"
            ELSE IF MatchesRule(t, rules[n]) THEN NormalizeAction(rules[n].action)
            ELSE action[n - 1]
    IN  action[Len(rules)]

Apply(list, cfg) == ApplyActions(list, [i \in DOMAIN list |-> ActionFor(list[i], cfg)])
============================================================================
