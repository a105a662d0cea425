----------------------- MODULE MCTrackedPullRequests -----------------------
(* Two groups, with pull requests of the same number, one of them the       *)
(* user's own, one group with more than a search returns, and rules that    *)
(* search for nothing.                                                      *)
EXTENDS TrackedPullRequests

PR(owner, repo, number, author) == [owner |-> owner, repo |-> repo, number |-> number, author |-> author]
Mine == PR("o", "o/b", 2, "u")
MCPRs == {PR("o", "o/a", 1, "u"), PR("o", "o/a", 2, "u"), Mine, PR("q", "q/c", 1, "v")}
MCOwn == {Mine}
MCGroupOrder == <<[owner |-> "o", user |-> "u"], [owner |-> "q", user |-> "v"]>>

Pattern(owner, repos) == [owner |-> owner, repos |-> repos]
Rule(action, repos, users) == [action |-> action, repos |-> repos, users |-> users]
OfU(action) == Rule(action, {Pattern("o", {"o/a", "o/b"}), Pattern(Wild, {"q/c"})}, {"u", Wild})
OfV == Rule("low_priority", {Pattern("q", {"q/c"})}, {"v"})
MCConfigs == {{OfU("keep"), OfV}, {OfU("mute"), OfV}}
=============================================================================
