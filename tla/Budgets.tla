------------------------------ MODULE Budgets ------------------------------
(***************************************************************************)
(* The budget ledger of services/budgets.py: budget rows with a limit, a   *)
(* reserved and a spent value, and one reservation row per action and      *)
(* applicable budget.  Every operation runs inside its caller's database   *)
(* transaction with the budget rows locked, so each is one step.  The      *)
(* operations are written so that the modules that call them (actions that *)
(* reserve, release and settle) conjoin them to their own updates.         *)
(***************************************************************************)
EXTENDS Integers, FiniteSets

CONSTANTS
    Budget,      \* active rows of the budgets table
    Action,      \* governed actions or model calls, one BudgetContext each
    Resource,    \* the keys of the estimates
    Estimate,    \* [Resource -> positive quantity]
    Releasable,  \* RELEASABLE_RESOURCES: held while running, never spent
    ResourceOf,  \* [Budget -> Resource]
    Scope,       \* [Budget -> [type, target]]
    Context,     \* [Action -> [project, environment, agent, user, route]]; user
                 \* and route are values no scope targets when the actor is
                 \* not a user and when no model is called
    Limit        \* [Budget -> limit_value]

ScopeTypes == {"organization", "project", "environment", "agent", "user", "model_route"}

ASSUME BudgetAssumption ==
    /\ IsFiniteSet(Action)
    /\ Estimate \in [Resource -> Nat \ {0}]
    /\ ResourceOf \in [Budget -> Resource]
    /\ Limit \in [Budget -> Nat]
    /\ Releasable \subseteq Resource

\* The scopes themselves are used only through MatchesScope.
ASSUME ScopeAssumption == \A b \in Budget : Scope[b].type \in ScopeTypes

VARIABLES
    reserved,     \* [Budget -> reserved_value]
    spent,        \* [Budget -> spent_value]
    reservation   \* [Action -> [Budget -> status of the reservation row]]

ledgerVars == <<reserved, spent, reservation>>

ReservationStatus == {"none", "active", "released", "committed"}

EstimateOf(b) == Estimate[ResourceOf[b]]

MatchesScope(a, b) ==
    \/ Scope[b].type = "organization"
    \/ Scope[b].type = "project" /\ Scope[b].target = Context[a].project
    \/ Scope[b].type = "environment" /\ Scope[b].target = Context[a].environment
    \/ Scope[b].type = "agent" /\ Scope[b].target = Context[a].agent
    \/ Scope[b].type = "user" /\ Scope[b].target = Context[a].user
    \/ Scope[b].type = "model_route" /\ Scope[b].target = Context[a].route

Applicable(a) == {b \in Budget : MatchesScope(a, b)}

\* The rows action_reservations selects and the loops do not skip.
Held(a) == {b \in Budget : reservation[a][b] = "active"}

Holders(b) == {a \in Action : reservation[a][b] = "active"}
Charged(b) == {a \in Action : reservation[a][b] = "committed"}

LedgerInit ==
    /\ reserved = [b \in Budget |-> 0]
    /\ spent = [b \in Budget |-> 0]
    /\ reservation = [a \in Action |-> [b \in Budget |-> "none"]]
-----------------------------------------------------------------------------
(* Operations.  Where the code raises, the step is disabled: the exception *)
(* rolls the caller's whole transaction back.                              *)

Covered(a) == \A r \in Resource : \E b \in Applicable(a) : ResourceOf[b] = r

\* Mutant: only what is already spent counts against the limit.
HasRoomForSpent(a) ==
    \A b \in Applicable(a) : spent[b] + EstimateOf(b) <= Limit[b]

HasRoom(a) ==
    \A b \in Applicable(a) : spent[b] + reserved[b] + EstimateOf(b) <= Limit[b]

ReserveBudgets(a) ==
    /\ Covered(a)
    /\ HasRoom(a)
    /\ reserved' = [b \in Budget |->
            IF b \in Applicable(a) THEN reserved[b] + EstimateOf(b) ELSE reserved[b]]
    /\ reservation' = [reservation EXCEPT ![a] =
            [b \in Budget |-> IF b \in Applicable(a) THEN "active" ELSE "none"]]
    /\ UNCHANGED spent

\* reserved_value < estimated_value raises in release and in settle.
Reconcilable(a) == \A b \in Held(a) : reserved[b] >= EstimateOf(b)

\* Mutant: a settlement gives back on budgets of other scopes too.
UnreserveEveryBudget(a) == [b \in Budget |-> reserved[b] - EstimateOf(b)]

Unreserve(a) ==
    [b \in Budget |-> IF b \in Held(a) THEN reserved[b] - EstimateOf(b) ELSE reserved[b]]

ReleaseActionReservations(a) ==
    /\ Reconcilable(a)
    /\ reserved' = Unreserve(a)
    /\ reservation' = [reservation EXCEPT ![a] =
            [b \in Budget |-> IF b \in Held(a) THEN "released" ELSE reservation[a][b]]]
    /\ UNCHANGED spent

\* Mutant: a held resource is charged like a consumed one.
SpendsEveryRow(a, committed) == {b \in Held(a) : committed}

\* The active reservations whose estimate a settlement turns into spending.
\* Actions pass no actual_usage, so the actual value is the estimate.
Spends(a, committed) ==
    {b \in Held(a) : committed /\ ResourceOf[b] \notin Releasable}

SettleActionReservations(a, committed) ==
    /\ Reconcilable(a)
    /\ reserved' = Unreserve(a)
    /\ spent' = [b \in Budget |->
            IF b \in Spends(a, committed) THEN spent[b] + EstimateOf(b) ELSE spent[b]]
    /\ reservation' = [reservation EXCEPT ![a] =
            [b \in Budget |->
                IF b \in Spends(a, committed) THEN "committed"
                ELSE IF b \in Held(a) THEN "released"
                ELSE reservation[a][b]]]
-----------------------------------------------------------------------------
(* The ledger on its own: what any interleaving of callers can do to it.   *)

Unreserved(a) == \A b \in Budget : reservation[a][b] = "none"

LedgerNext ==
    \E a \in Action :
        \/ Unreserved(a) /\ ReserveBudgets(a)
        \/ ReleaseActionReservations(a)
        \/ \E committed \in BOOLEAN : SettleActionReservations(a, committed)

LedgerSpec == LedgerInit /\ [][LedgerNext]_ledgerVars
-----------------------------------------------------------------------------
LedgerTypeOK ==
    /\ reserved \in [Budget -> Nat]
    /\ spent \in [Budget -> Nat]
    /\ reservation \in [Action -> [Budget -> ReservationStatus]]

\* No interleaving of reservations and settlements takes a budget past its
\* limit: the check in reserve_budgets counts what is held as well as what is
\* spent, and a settlement never spends more than it held.
WithinLimit == \A b \in Budget : spent[b] + reserved[b] <= Limit[b]

\* reserved_value and spent_value are running totals that no row recomputes;
\* they equal the estimates of the reservation rows they stand for, so a
\* reservation is counted once when taken and uncounted once when settled.
LedgerBalances ==
    \A b \in Budget :
        /\ reserved[b] = EstimateOf(b) * Cardinality(Holders(b))
        /\ spent[b] = EstimateOf(b) * Cardinality(Charged(b))

\* The "cannot be released safely" and "cannot be reconciled safely" errors
\* of release and settle are never raised: a terminal outcome can always be
\* recorded against the ledger.
AlwaysReconcilable == \A a \in Action : Reconcilable(a)
=============================================================================
