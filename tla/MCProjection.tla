---------------------------- MODULE MCProjection ----------------------------
(* A small workspace for Projection.                                        *)
EXTENDS Projection

MCKeyOf == [t \in {"ab-1", "AB-1", "AB-2"} |-> IF t = "ab-1" THEN "AB-1" ELSE t]
MCIgnored == {"", "main"}
MCLower == [c \in {"a", "A", "b", "*", " "} |-> IF c = "A" THEN "a" ELSE c]

Kinds == [jira |-> "issue", git |-> "worktree", tmux |-> "session", github |-> "pull_request"]
Ref(id, source, tickets, paths, branch, repo, user) ==
    [id |-> id, source |-> source, kind |-> Kinds[source], tickets |-> tickets, paths |-> paths,
     branch |-> branch, repo |-> repo, user |-> user]
PullRef(id, tickets, repo) == Ref(id, "github", tickets, {}, "fix", repo, <<"b">>)
Pull(id, tickets, attention, repo) ==
    [tickets |-> tickets, repo |-> repo, user |-> <<>>, attention |-> attention,
     refs |-> <<PullRef(id, tickets, repo)>>]
MCTaskLists ==
    {<<>>, <<Pull("pr1", {"ab-1"}, "attention", <<"a">>)>>,
     <<Pull("pr1", {"ab-1"}, "attention", <<"a">>), Pull("pr2", {"AB-2"}, "immediate", <<"a", "b">>)>>,
     <<Pull("pr1", {"ab-1", "AB-2"}, "done", <<"A">>), Pull("pr2", {"AB-2"}, "in_progress", <<"b">>)>>}

\* In the order of the sources; the sessions are in the home directory and in a worktree.
Pool ==
    << Ref("issue1", "jira", {"AB-1"}, {}, "", <<>>, <<>>),
       Ref("issue2", "jira", {"AB-2"}, {}, "", <<>>, <<>>),
       Ref("tree1", "git", {"ab-1"}, {<<"home", "x">>}, "ab-1", <<"a">>, <<>>),
       Ref("tree2", "git", {}, {<<"home", "y">>}, "try", <<"b">>, <<>>),
       Ref("tree3", "git", {"AB-2"}, {<<"home", "y", "z">>}, "main", <<"b">>, <<>>),
       Ref("home", "tmux", {}, {<<"home">>, <<>>}, "", <<>>, <<>>),
       Ref("work", "tmux", {"AB-2"}, {<<"home", "x", "d">>}, "", <<>>, <<>>),
       Ref("root", "tmux", {}, {<<>>}, "", <<>>, <<>>) >>
Chosen(S) == LET order == SetToSortSeq(S, <) IN [n \in DOMAIN order |-> Pool[order[n]]]
MCRefLists == {Chosen(S) : S \in {T \in SUBSET DOMAIN Pool : Cardinality(T) <= 5}}

A == {<<"a">>}
AStar == {<<"a", "*">>}
B == {<<"*", "b">>}
MCPlain ==
    [a \in {"keep", "mute", "deprioritize", "low_priority", " Mute"} |->
        IF a = " Mute" THEN "mute" ELSE a]
MCLists ==
    {[NoFilters EXCEPT !.muteRepos = A],
     [NoFilters EXCEPT !.muteUsers = B, !.lowRepos = AStar],
     [NoFilters EXCEPT !.muteRepos = AStar, !.lowUsers = B]}
MCRules ==
    {Rule(AStar, {}, " Mute"), Rule({}, B, "low_priority"), Rule(A, B, "keep"), Rule({}, {}, "mute")}

Words(letters, n) == UNION {[1..k -> letters] : k \in 0..n}
MCPatterns == Words({"a", "b", "*"}, 4) \cup Words({"a", "*", " "}, 3)
MCNames == Words({"a", "A", "b"}, 4) \cup Words({"a", " "}, 3)
MCBlanks == {" "}
============================================================================
