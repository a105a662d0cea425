---------------------------- MODULE MCTaskIdentity ----------------------------
(***************************************************************************)
(* Instances of TaskIdentity: two pull requests p1 and p2, a Jira issue    *)
(* jira, a worktree tree, and two ticket keys.                             *)
(***************************************************************************)
EXTENDS TaskIdentity

CONSTANTS p1, p2, jira, tree, K, L

MCRefs == {p1, p2, jira, tree}
MCPullRequests == {p1, p2}
MCKeys == {K, L}

T(kind, refs, keys) == [kind |-> kind, refs |-> refs, keys |-> keys, id |-> 0]

\* A pull request alone, linked to the issue, or no longer open; the issue
\* shared by two pull requests; the issue or a worktree standing alone.
MCCollections == {
    <<>>,
    <<T("own", <<p1, jira>>, {K})>>,
    <<T("own", <<p1, jira>>, {K}), T("other", <<tree>>, {L}), T("own", <<p2, jira>>, {K})>>,
    <<T("other", <<p2>>, {L}), T("own", <<p1>>, {})>>,
    <<T("other", <<jira>>, {K})>>,
    <<T("other", <<tree>>, {K, L}), T("own", <<p2>>, {L})>>
}
=============================================================================
