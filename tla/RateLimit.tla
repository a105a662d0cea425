------------------------------- MODULE RateLimit -------------------------------
(***************************************************************************)
(* How one collection after another spends GitHub's rate limits: the       *)
(* budget checks, the cached answer of gh api rate_limit, the pauses of    *)
(* internal/github/ratelimit.go, and the calls between them in source.go,  *)
(* notifications.go and tracked.go.  collectionMu lets one collection run  *)
(* at a time.  Time is counted in minutes from a start that is long after  *)
(* Go's zero time; a call takes no time, the clock moves between steps.    *)
(***************************************************************************)
EXTENDS Integers

CONSTANTS
    MaxTime,        \* bound on the clock
    CacheTTL,       \* for how long rateLimits trusts its cached answer
    Backoff,        \* the pause after GitHub refused a call
    Limit,          \* points GitHub allows per window, for each resource
    Window,         \* length of the window of each resource
    Minimum,        \* minSearchRemaining, minCoreRemaining, minGraphQLRemaining
    Cost,           \* what the budget checks reserve of each resource
    Price,          \* what one call takes of it at GitHub: the GraphQL query more
                    \* than is reserved
    Answers,        \* which resources an answer of gh api rate_limit may name
    Groups,         \* tracked pull requests: number of searches
    Vanished        \* at most so many pull requests are fetched for done

Resources == {"graphql", "search", "core"}

ASSUME RateLimitAssumption ==
    /\ MaxTime \in Nat /\ CacheTTL \in 1 .. MaxTime /\ Backoff \in Nat \ {0}
    /\ Limit \in [Resources -> Nat]
    /\ Window \in [Resources -> Nat \ {0}]
    /\ Minimum \in [Resources -> Nat]
    /\ Cost \in [Resources -> Nat \ {0}]
    /\ Price \in [Resources -> Nat \ {0}]
    /\ \A r \in Resources : Minimum[r] < Limit[r]
    /\ Answers \subseteq SUBSET Resources
    /\ Groups \in Nat /\ Vanished \in Nat

Start == CacheTTL   \* the clock at boot: nothing was ever fetched

VARIABLES
    now,        \* the clock
    left,       \* GitHub: points left in the current window of each resource
    resetAt,    \* GitHub: the end of that window
    alone,      \* no other program of the user has called GitHub yet
    fetched,    \* rateState.fetched; 0 is Go's zero time
    seen,       \* rateState.response: Remaining of each resource
    seenReset,  \* rateState.response: Reset of each resource
    overrun,    \* history: what calls since the last fetch took beyond their reserve
    until,      \* coreUntil, searchUntil, graphqlUntil; 0 is the zero time
    pc,         \* where the collection is
    res,        \* the resource it is about to use
    todo        \* searches or fetches it has still to make

github == <<left, resetAt, alone>>
cache == <<fetched, seen, seenReset>>
vars == <<now, github, cache, overrun, until, pc, res, todo>>

TypeOK ==
    /\ now \in Start .. MaxTime
    /\ left \in [Resources -> Nat]
    /\ resetAt \in [Resources -> Nat]
    /\ alone \in BOOLEAN
    /\ fetched \in Nat
    /\ seen \in [Resources -> Nat]
    /\ seenReset \in [Resources -> Nat]
    /\ overrun \in [Resources -> Nat]
    /\ until \in [Resources -> Nat]
    /\ pc \in {"idle", "gate", "limits", "stuck", "check", "call", "login"}
    /\ res \in Resources
    /\ todo \in Nat

-----------------------------------------------------------------------------
(* GitHub, its clock and its other clients.                                *)

\* A window that ends gives way to a full one.
Elapse ==
    /\ now < MaxTime
    /\ now' = now + 1
    /\ left' = [r \in Resources |-> IF resetAt[r] <= now + 1 THEN Limit[r] ELSE left[r]]
    /\ resetAt' = [r \in Resources |->
                      IF resetAt[r] <= now + 1 THEN now + 1 + Window[r] ELSE resetAt[r]]
    /\ UNCHANGED <<alone, cache, overrun, until, pc, res, todo>>

SpendElsewhere ==
    /\ \E r \in Resources : left[r] > 0 /\ left' = [left EXCEPT ![r] = @ - 1]
    /\ alone' = FALSE
    /\ UNCHANGED <<now, resetAt, cache, overrun, until, pc, res, todo>>

\* GitHub grants a call on r, or refuses it: for want of budget, or because calls
\* come too fast.
AtLeastZero(n) == IF n < 0 THEN 0 ELSE n
Granted(r) ==
    /\ left[r] > 0
    /\ left' = [left EXCEPT ![r] = AtLeastZero(@ - Price[r])]
    /\ overrun' = [overrun EXCEPT ![r] = @ + AtLeastZero(Price[r] - Cost[r])]
    /\ UNCHANGED <<resetAt, alone>>
NotGranted == UNCHANGED <<github, overrun>>

-----------------------------------------------------------------------------
(* The budget check that EnsureSearchBudget, EnsureCoreBudget and          *)
(* GraphQLSourceStatus share.                                              *)

At(label) == pc' = label
Paused(r) == now < until[r]

\* The collection turns to resource r, with n calls to make.
TurnTo(r, n) == At("gate") /\ res' = r /\ todo' = n

\* A group whose search was refused is tried again.
GoWithoutSkipping ==
    IF res = "search" THEN TurnTo("search", todo) ELSE At("idle") /\ UNCHANGED <<res, todo>>

\* The check on res failed: a refused source ends the collection, a refused
\* search the group, and without core budget no done task is resolved.
GoWithout ==
    IF res = "search" /\ todo > 1
    THEN TurnTo("search", todo - 1)
    ELSE IF res = "search" THEN TurnTo("core", 0)
    ELSE At("idle") /\ UNCHANGED <<res, todo>>

BeginCollection ==
    /\ pc = "idle"
    /\ TurnTo("graphql", 1)
    /\ UNCHANGED <<now, github, cache, overrun, until>>

\* pausedUntilTime says that the resource is paused.
GatePaused ==
    /\ pc = "gate" /\ Paused(res)
    /\ GoWithout
    /\ UNCHANGED <<now, github, cache, overrun, until>>

\* rateLimits answers from its cache, or asks GitHub under rateState.mu.
GateOpen ==
    /\ pc = "gate" /\ ~Paused(res)
    /\ At(IF now - fetched < CacheTTL THEN "check" ELSE "limits")
    /\ UNCHANGED <<now, github, cache, overrun, until, res, todo>>

\* What an answer does not name is zero.
FetchLimits ==
    /\ pc = "limits"
    /\ fetched' = now
    /\ \E told \in Answers :
          /\ seen' = [r \in Resources |-> IF r \in told THEN left[r] ELSE 0]
          /\ seenReset' = [r \in Resources |-> IF r \in told THEN resetAt[r] ELSE 0]
    /\ overrun' = [r \in Resources |-> 0]
    /\ At("check")
    /\ UNCHANGED <<now, github, until, res, todo>>

\* gh failed or timed out: skip, to be safe.
FetchLimitsFails ==
    /\ pc = "limits"
    /\ GoWithout
    /\ UNCHANGED <<now, github, cache, overrun, until>>

\* ghJSON reads a refusal in gh's answer and calls PauseCore, which waits for
\* rateState.mu, which rateLimits holds.
FetchLimitsRefused ==
    /\ pc = "limits"
    /\ At("stuck")
    /\ UNCHANGED <<now, github, cache, overrun, until, res, todo>>

\* hasBudget, and what reserve leaves of the cached budget.
EnoughLax(r) == seen[r] >= Minimum[r]
Enough(r) == seen[r] > Minimum[r]

Reserved(r) == [seen EXCEPT ![r] = AtLeastZero(@ - Cost[r])]

\* The end of the pause of a resource whose budget is low.
UntilAfterReset(r) == now + seenReset[r]
UntilReset(r) == IF seenReset[r] = 0 THEN now + Backoff ELSE seenReset[r]

Admit ==
    /\ pc = "check" /\ Enough(res)
    /\ seen' = Reserved(res)
    /\ IF res = "core" THEN todo' \in 0 .. Vanished ELSE UNCHANGED todo
    /\ At("call")
    /\ UNCHANGED <<now, github, fetched, seenReset, overrun, until, res>>

\* The limits it goes by may be of a window that is over.
RefuseLowBudget ==
    /\ pc = "check" /\ ~Enough(res)
    /\ until' = [until EXCEPT ![res] = UntilReset(res)]
    /\ GoWithout
    /\ UNCHANGED <<now, github, cache, overrun>>

-----------------------------------------------------------------------------
(* The calls.  ghJSON pauses search if gh was called to search, and core   *)
(* otherwise.                                                              *)

PauseFor(r) == until' = [until EXCEPT ![r] = now + Backoff]

\* The query of FetchPullRequests; without its answer the collection is
\* incomplete and nothing else is asked.
QueryGraphQL ==
    /\ pc = "call" /\ res = "graphql"
    /\ \/ Granted("graphql") /\ At("login") /\ UNCHANGED until
       \/ NotGranted /\ PauseFor("core") /\ At("idle")
       \/ NotGranted /\ UNCHANGED until /\ At("idle")
    /\ UNCHANGED <<now, cache, res, todo>>

\* currentLogin: gh api user, without a check of the core budget.
Login ==
    /\ pc = "login"
    /\ \/ /\ Granted("core")
          /\ IF Groups = 0 THEN TurnTo("core", 0) ELSE TurnTo("search", Groups)
          /\ UNCHANGED until
       \/ /\ NotGranted /\ At("idle") /\ UNCHANGED <<res, todo>>
          /\ PauseFor("core") \/ UNCHANGED until
    /\ UNCHANGED <<now, cache>>

\* One group of FetchRulePullRequests.  After a failed search a stale cached
\* answer lets the loop go on, and none breaks it.
Search ==
    /\ pc = "call" /\ res = "search"
    /\ \/ Granted("search") /\ GoWithout /\ UNCHANGED until
       \/ /\ NotGranted
          /\ PauseFor("search") \/ UNCHANGED until
          /\ GoWithout \/ TurnTo("core", 0)
    /\ UNCHANGED <<now, cache>>

\* A cached group needs no search.
SearchCached ==
    /\ pc = "gate" /\ res = "search"
    /\ GoWithout
    /\ UNCHANGED <<now, github, cache, overrun, until>>

\* The loop goes one pull request too far.
FetchOneMore ==
    /\ pc = "call" /\ res = "core" /\ todo >= 0
    /\ todo' = todo - 1
    /\ Granted("core")
    /\ UNCHANGED <<now, cache, until, pc, res>>

\* ResolveDonePullRequests fetches one vanished pull request after the other,
\* whatever becomes of each.
FetchVanished ==
    /\ pc = "call" /\ res = "core" /\ todo > 0
    /\ todo' = todo - 1
    /\ \/ Granted("core") /\ UNCHANGED until
       \/ NotGranted /\ (PauseFor("core") \/ UNCHANGED until)
    /\ UNCHANGED <<now, cache, pc, res>>

EndCollection ==
    /\ pc = "call" /\ res = "core" /\ todo = 0
    /\ At("idle")
    /\ UNCHANGED <<now, github, cache, overrun, until, res, todo>>

-----------------------------------------------------------------------------
Init ==
    /\ now = Start
    /\ left = Limit
    /\ resetAt = [r \in Resources |-> now + Window[r]]
    /\ alone = TRUE
    /\ fetched = 0
    /\ seen = [r \in Resources |-> 0]
    /\ seenReset = [r \in Resources |-> 0]
    /\ overrun = [r \in Resources |-> 0]
    /\ until = [r \in Resources |-> 0]
    /\ pc = "idle" /\ res = "graphql" /\ todo = 0

Collecting ==
    \/ GatePaused \/ GateOpen \/ SearchCached
    \/ FetchLimits \/ FetchLimitsFails \/ FetchLimitsRefused
    \/ Admit \/ RefuseLowBudget
    \/ QueryGraphQL \/ Login \/ Search \/ FetchVanished \/ EndCollection

Next == BeginCollection \/ Collecting \/ Elapse \/ SpendElsewhere

Spec == Init /\ [][Next]_vars

\* Every gh call ends, by its answer or by the timeout of ghJSON, and nothing
\* else holds up a goroutine.
FairSpec == Spec /\ WF_vars(Collecting)

-----------------------------------------------------------------------------
(* Properties.                                                             *)

Calling(r) == pc = "call" /\ res = r

\* As long as no other program spends them, a GraphQL query or a search is made only
\* while GitHub's budget is above the minimum, but for what queries since the last
\* fetch of the limits took beyond their reserve; and where a call takes no more
\* than is reserved, as a search does, not less than the minimum is ever left.
\* (reserve, hasBudget and the cache of rateLimits.)
ReserveKept ==
    alone => \A r \in {"graphql", "search"} :
        /\ Calling(r) => left[r] + overrun[r] > Minimum[r]
        /\ Price[r] <= Cost[r] => left[r] + Price[r] > Minimum[r]

\* A pause never outlasts both GitHub's window and fifteen minutes from now:
\* whatever Radar read or was refused, it takes part again.  (hasBudget, pause,
\* ghJSON.)
PauseBounded ==
    \A r \in Resources : until[r] <= resetAt[r] \/ until[r] <= now + Backoff

\* Every collection comes to its end, so that the next refresh gets the mutex,
\* or is caught in the one place where rateLimits waits for itself.  (The loops
\* and early returns of FetchRulePullRequests and ResolveDonePullRequests.)
CollectionEndsOrStuck == pc # "idle" ~> pc \in {"idle", "stuck"}

\* Every collection comes to its end.  (ARCHITECTURE.md: Radar pauses "until
\* GitHub's reset time"; rateLimits and ghJSON.)
CollectionEnds == pc # "idle" ~> pc = "idle"
=============================================================================
