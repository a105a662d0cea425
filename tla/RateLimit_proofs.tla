--------------------------- MODULE RateLimit_proofs ---------------------------
(***************************************************************************)
(* Theorems about RateLimit, for any limits, windows and prices: types,    *)
(* the budget that is left to others, and the length of every pause.  All  *)
(* three relate the cached answer of rate_limit to what GitHub has now.    *)
(***************************************************************************)
EXTENDS RateLimit, TLAPS

-----------------------------------------------------------------------------
(* The inductive invariant.                                                *)

\* The end of a window that was read is not later than that of the current one.
ResetsGrow == \A r \in Resources : seenReset[r] <= resetAt[r]

Budgeted == {"graphql", "search"}

\* The cached budget, with what is reserved taken off, is one GitHub still has or
\* that calls have taken beyond their reserve; and while a call is about to be made,
\* what is reserved for it comes on top, all above the minimum.  Only where a call
\* takes more than is reserved is anything taken beyond.
Estimate(r) ==
    /\ left[r] <= Limit[r]
    /\ seen[r] <= left[r] + overrun[r]
    /\ Calling(r) => /\ seen[r] + Cost[r] <= left[r] + overrun[r] \/ seen[r] = 0
                     /\ left[r] + overrun[r] > Minimum[r]
    /\ Price[r] <= Cost[r] => overrun[r] = 0 /\ left[r] + Price[r] > Minimum[r]

Estimated == alone => \A r \in Budgeted : Estimate(r)

IInv == TypeOK /\ ResetsGrow /\ PauseBounded /\ Estimated

USE DEF IInv, Resources, At, TurnTo, GoWithout, github, cache, AtLeastZero

-----------------------------------------------------------------------------
(* GitHub, its clock and its other clients.                                *)

LEMMA InitInv == Init => IInv
<1> SUFFICES ASSUME Init PROVE IInv
  OBVIOUS
<1>1. TypeOK
  <2>1. alone \in BOOLEAN
    BY DEF Init
  <2>2. resetAt \in [Resources -> Nat]
    BY RateLimitAssumption DEF Init, Start
  <2>3. /\ seen \in [Resources -> Nat] /\ seenReset \in [Resources -> Nat]
        /\ until \in [Resources -> Nat] /\ overrun \in [Resources -> Nat]
    BY DEF Init
  <2> QED
    BY <2>1, <2>2, <2>3, RateLimitAssumption DEF Init, Start, TypeOK
<1>2. ResetsGrow /\ PauseBounded /\ Estimated
  BY RateLimitAssumption DEF Init, Start, ResetsGrow, PauseBounded, Estimated, Estimate,
     Budgeted, Calling
<1> QED
  BY <1>1, <1>2

LEMMA ElapseInv ==
    ASSUME IInv, Elapse PROVE IInv'
<1>1. TypeOK'
  <2>1. now' \in Nat /\ now' = now + 1
    BY RateLimitAssumption DEF Elapse, TypeOK, Start
  <2>2. left' \in [Resources -> Nat] /\ resetAt' \in [Resources -> Nat]
    BY <2>1, RateLimitAssumption DEF Elapse, TypeOK
  <2> QED
    BY <2>1, <2>2, RateLimitAssumption DEF Elapse, TypeOK, Start
<1>2. \A r \in Resources : resetAt[r] <= resetAt'[r]
  BY RateLimitAssumption DEF Elapse, TypeOK, Start
<1>3. ResetsGrow' /\ PauseBounded'
  BY <1>1, <1>2, RateLimitAssumption DEF Elapse, ResetsGrow, PauseBounded, TypeOK, Start
<1>4. Estimated'
  BY RateLimitAssumption DEF Elapse, Estimated, Estimate, Budgeted, Calling, TypeOK
<1> QED
  BY <1>1, <1>3, <1>4

LEMMA SpendElsewhereInv ==
    ASSUME IInv, SpendElsewhere PROVE IInv'
<1>1. left' \in [Resources -> Nat] /\ ~alone'
  BY DEF SpendElsewhere, TypeOK
<1>2. TypeOK'
  BY <1>1 DEF SpendElsewhere, TypeOK
<1>3. ResetsGrow' /\ PauseBounded' /\ Estimated'
  BY <1>1 DEF SpendElsewhere, ResetsGrow, PauseBounded, Estimated
<1> QED
  BY <1>2, <1>3

-----------------------------------------------------------------------------
(* Steps that spend nothing.                                               *)

\* Where the collection goes on does not matter, as long as it is not to a call.
LEMMA ProceedInv ==
    ASSUME IInv, UNCHANGED <<now, github, cache, overrun, until>>, pc' # "call" \/ res' = "core",
           pc' \in {"idle", "gate", "limits", "stuck", "check", "call", "login"},
           res' \in Resources, todo' \in Nat
    PROVE  IInv'
<1>1. TypeOK'
  BY DEF TypeOK
<1>2. ResetsGrow' /\ PauseBounded' /\ Estimated'
  BY DEF ResetsGrow, PauseBounded, Estimated, Estimate, Budgeted, Calling
<1> QED
  BY <1>1, <1>2

\* What follows on a failed check.
LEMMA GoWithoutType ==
    ASSUME TypeOK, GoWithout
    PROVE  pc' \in {"idle", "gate"} /\ res' \in Resources /\ todo' \in Nat
  BY DEF TypeOK

LEMMA QuietInv ==
    ASSUME IInv,
           \/ BeginCollection \/ GatePaused \/ GateOpen \/ SearchCached
           \/ FetchLimitsFails \/ FetchLimitsRefused \/ EndCollection
    PROVE  IInv'
<1>1. CASE GatePaused \/ SearchCached \/ FetchLimitsFails
  BY <1>1, GoWithoutType, ProceedInv DEF GatePaused, SearchCached, FetchLimitsFails
<1>2. CASE BeginCollection \/ GateOpen \/ FetchLimitsRefused \/ EndCollection
  BY <1>2, ProceedInv DEF BeginCollection, GateOpen, FetchLimitsRefused, EndCollection, TypeOK
<1> QED
  BY <1>1, <1>2

-----------------------------------------------------------------------------
(* The budget check.                                                       *)

LEMMA FetchLimitsInv ==
    ASSUME IInv, FetchLimits PROVE IInv'
<1>1. TypeOK' /\ ResetsGrow'
  BY RateLimitAssumption DEF FetchLimits, TypeOK, ResetsGrow, Start
<1>2. PauseBounded'
  BY DEF FetchLimits, PauseBounded
<1>3. Estimated'
  BY DEF FetchLimits, Estimated, Estimate, Budgeted, Calling, TypeOK
<1> QED
  BY <1>1, <1>2, <1>3

LEMMA AdmitInv ==
    ASSUME IInv, Admit PROVE IInv'
<1>1. seen' \in [Resources -> Nat]
  BY RateLimitAssumption DEF Admit, Reserved, TypeOK
<1>2. TypeOK'
  <2>1. todo' \in Nat
    BY RateLimitAssumption DEF Admit, TypeOK
  <2> QED
    BY <1>1, <2>1 DEF Admit, TypeOK
<1>3. ResetsGrow' /\ PauseBounded'
  BY DEF Admit, ResetsGrow, PauseBounded
<1>4. ASSUME alone', NEW r \in Budgeted PROVE Estimate(r)'
  <2>1. Estimate(r) /\ left'[r] = left[r]
    BY <1>4 DEF Admit, Estimated
  <2>2. CASE r = res
    <3>1. seen[r] > Minimum[r] /\ seen'[r] = AtLeastZero(seen[r] - Cost[r])
      BY <1>4, <2>2 DEF Admit, Enough, Reserved, TypeOK, Budgeted
    <3> QED
      BY <1>1, <1>4, <2>1, <2>2, <3>1, RateLimitAssumption
      DEF Admit, Estimate, Calling, TypeOK, Budgeted
  <2>3. CASE r # res
    BY <1>4, <2>1, <2>3 DEF Admit, Reserved, Estimate, Calling, TypeOK, Budgeted
  <2> QED
    BY <2>2, <2>3
<1> QED
  BY <1>2, <1>3, <1>4 DEF Estimated

LEMMA RefuseLowBudgetInv ==
    ASSUME IInv, RefuseLowBudget PROVE IInv'
<1>1. PICK r \in Resources : r = res /\ until' = [until EXCEPT ![r] = UntilReset(r)]
  BY DEF RefuseLowBudget, TypeOK
<1>2. now \in Nat /\ Backoff \in Nat
  BY RateLimitAssumption DEF TypeOK, Start
<1>3. UntilReset(r) \in Nat /\ (UntilReset(r) <= resetAt[r] \/ UntilReset(r) <= now + Backoff)
  BY <1>2 DEF UntilReset, ResetsGrow, TypeOK
<1>4. TypeOK'
  BY <1>1, <1>3, GoWithoutType DEF RefuseLowBudget, TypeOK
<1>5. ResetsGrow' /\ PauseBounded'
  BY <1>1, <1>3 DEF RefuseLowBudget, ResetsGrow, PauseBounded, TypeOK
<1>6. Estimated'
  BY GoWithoutType DEF RefuseLowBudget, Estimated, Estimate, Calling
<1> QED
  BY <1>4, <1>5, <1>6

-----------------------------------------------------------------------------
(* The calls.                                                              *)

\* A pause after a refusal is bounded whatever the resource.
LEMMA PauseForBounded ==
    ASSUME IInv, NEW r \in Resources, PauseFor(r), UNCHANGED <<now, resetAt>>
    PROVE  until' \in [Resources -> Nat] /\ PauseBounded'
<1>1. now \in Nat /\ Backoff \in Nat
  BY RateLimitAssumption DEF TypeOK, Start
<1> QED
  BY <1>1 DEF PauseFor, PauseBounded, TypeOK

\* A call on a resource that has been admitted, or that has no reserve.
LEMMA GrantedInv ==
    ASSUME IInv, NEW r \in Resources, Granted(r), Calling(r) \/ r = "core",
           UNCHANGED <<now, cache, until>>, pc' # "call" \/ res' = "core",
           pc' \in {"idle", "gate", "login", "call"}, res' \in Resources, todo' \in Nat
    PROVE  IInv'
<1>1. TypeOK'
  <2>1. left[r] - Price[r] \in Int /\ Price[r] - Cost[r] \in Int
    BY RateLimitAssumption DEF TypeOK
  <2>2. left' \in [Resources -> Nat] /\ overrun' \in [Resources -> Nat]
    BY <2>1 DEF Granted, TypeOK
  <2> QED
    BY <2>2 DEF Granted, TypeOK
<1>2. ResetsGrow' /\ PauseBounded'
  BY DEF Granted, ResetsGrow, PauseBounded
<1>3. Estimated'
  BY RateLimitAssumption DEF Granted, Estimated, Estimate, Budgeted, Calling, TypeOK
<1> QED
  BY <1>1, <1>2, <1>3

LEMMA RefusedInv ==
    ASSUME IInv, NEW r \in Resources, UNCHANGED <<now, github, cache, overrun>>,
           PauseFor(r), pc' # "call" \/ res' = "core",
           pc' \in {"idle", "gate", "call"}, res' \in Resources, todo' \in Nat
    PROVE  IInv'
<1>1. until' \in [Resources -> Nat] /\ PauseBounded'
  BY PauseForBounded
<1>2. TypeOK' /\ ResetsGrow'
  BY <1>1 DEF TypeOK, ResetsGrow
<1>3. Estimated'
  BY DEF Estimated, Estimate, Budgeted, Calling
<1> QED
  BY <1>1, <1>2, <1>3

LEMMA CallInv ==
    ASSUME IInv, QueryGraphQL \/ Login \/ Search \/ FetchVanished PROVE IInv'
<1>1. CASE QueryGraphQL
  <2>1. res' \in Resources /\ todo' \in Nat
    BY <1>1 DEF QueryGraphQL, TypeOK
  <2> QED
    BY <1>1, <2>1, GrantedInv, RefusedInv, ProceedInv DEF QueryGraphQL, NotGranted, Calling
<1>2. CASE Login
  <2>1. res' \in Resources /\ todo' \in Nat /\ pc' \in {"idle", "gate"}
    BY <1>2, RateLimitAssumption DEF Login, TypeOK
  <2> QED
    BY <1>2, <2>1, GrantedInv, RefusedInv, ProceedInv DEF Login, NotGranted
<1>3. CASE Search
  <2>1. pc' \in {"idle", "gate"} /\ res' \in Resources /\ todo' \in Nat
    BY <1>3, GoWithoutType DEF Search
  <2> QED
    BY <1>3, <2>1, GrantedInv, RefusedInv, ProceedInv DEF Search, NotGranted, Calling
<1>4. CASE FetchVanished
  <2>1. pc' = "call" /\ res' = "core" /\ todo' \in Nat
    BY <1>4 DEF FetchVanished, TypeOK
  <2> QED
    BY <1>4, <2>1, GrantedInv, RefusedInv, ProceedInv DEF FetchVanished, NotGranted
<1> QED
  BY <1>1, <1>2, <1>3, <1>4

-----------------------------------------------------------------------------
(* The theorems.                                                           *)

LEMMA NextInv == IInv /\ [Next]_vars => IInv'
<1> SUFFICES ASSUME IInv, [Next]_vars PROVE IInv'
  OBVIOUS
<1>1. CASE Collecting
  BY <1>1, QuietInv, FetchLimitsInv, AdmitInv, RefuseLowBudgetInv, CallInv DEF Collecting
<1>2. CASE BeginCollection \/ Elapse \/ SpendElsewhere
  BY <1>2, QuietInv, ElapseInv, SpendElsewhereInv
<1>3. CASE UNCHANGED vars
  BY <1>3 DEF vars, TypeOK, ResetsGrow, PauseBounded, Estimated, Estimate, Calling
<1> QED
  BY <1>1, <1>2, <1>3 DEF Next

\* What rateState believes of GitHub is more than what GitHub has only by what calls
\* since the last fetch of the limits took beyond their reserve, however old it is, as
\* long as Radar is alone.  (rateLimits, reserve.)
THEOREM Invariance == Spec => []IInv
<1>1. Init => IInv
  BY InitInv
<1>2. IInv /\ [Next]_vars => IInv'
  BY NextInv
<1> QED
  BY <1>1, <1>2, PTL DEF Spec

\* Every variable keeps its type; no counter of calls goes below zero.
THEOREM TypeCorrect == Spec => []TypeOK
<1>1. IInv => TypeOK
  OBVIOUS
<1> QED
  BY <1>1, Invariance, PTL

\* Radar alone calls only above the minimum, but for what calls since the last fetch
\* took beyond their reserve, and leaves the minimum where none does, whatever the
\* limits, the prices, the windows and the life of the cached answer.
\* (hasBudget, reserve.)
THEOREM ReserveIsKept == Spec => []ReserveKept
<1>1. IInv => ReserveKept
  BY RateLimitAssumption DEF ReserveKept, Estimated, Estimate, Budgeted, TypeOK
<1> QED
  BY <1>1, Invariance, PTL

\* No pause outlasts both the current window and Backoff from now.
\* (hasBudget, ghJSON, pause.)
THEOREM PausesAreBounded == Spec => []PauseBounded
<1>1. IInv => PauseBounded
  OBVIOUS
<1> QED
  BY <1>1, Invariance, PTL
=============================================================================
