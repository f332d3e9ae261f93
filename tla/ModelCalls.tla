----------------------------- MODULE ModelCalls -----------------------------
(***************************************************************************)
(* Agent nodes of workflows: the model_calls row a parent execution opens  *)
(* at an agent node, the worker that claims, dispatches and settles it,    *)
(* the gateway and the model provider, the reservations charged with what  *)
(* the provider reports, and the timeout and resume events of the parent.  *)
(* Call a is the one that parent a requests.                               *)
(*                                                                         *)
(* Unlike a governed action, a call whose reconciliation is exhausted      *)
(* fails and is charged its estimate; unlike a tool call, it loses its     *)
(* execution claim, live or not, to the node's timeout.                    *)
(*                                                                         *)
(* Every writer locks the call's timeout event, or the parent's execution  *)
(* and that event, before it reads the call, so each handler is one step.  *)
(***************************************************************************)
EXTENDS Budgets, FiniteSetsExt

CONSTANTS
    Call,               \* the model calls among the holders of reservations;
                        \* the others are governed actions on the same budgets
    Worker,
    Usage,              \* [Call -> [Resource -> what the provider reports]]
    MaxReconciliation   \* max_reconciliation_attempts

ASSUME ModelAssumption ==
    /\ Call \subseteq Action
    /\ Usage \in [Call -> [Resource -> Nat]]
    /\ MaxReconciliation \in Nat \ {0}

VARIABLES
    call,         \* [Call -> model_calls.status, "none" before the request]
    ready,        \* [Call -> the model.ready event]
    claim,        \* [Call -> number of the latest claim token]
    lease,        \* [Call -> lease_expires_at against now]
    due,          \* [Call -> next_reconcile_at is reached]
    attempts,     \* [Call -> reconcile_attempts]
    errorCode,    \* [Call -> error_code]
    charged,      \* [Action -> [Budget -> actual_value of the reservation]]
    lapsed,       \* [Call -> decision, delegation or reservation expired]
    parent,       \* [Call -> workflow_executions.status of the parent]
    parentLease,  \* [Call -> the parent's lease_expires_at against now]
    wake,         \* [Call -> the outbox event the parent's latest claim holds]
    event,        \* [Call -> where each workflow.ready event of the parent stands]
    worker,       \* [Worker -> what process_once holds in memory]
    request,      \* calls of workers under way at the gateway or the provider
    sent,         \* [Call -> executions sent to the provider]
    served        \* [Call -> the provider has generated the output]

callVars == <<call, ready, claim, lease, due, attempts, errorCode, charged>>
parentVars == <<parent, parentLease, wake, event>>
outsideVars == <<request, sent, served>>
vars == <<callVars, lapsed, parentVars, worker, outsideVars, ledgerVars>>

EventKinds == {"ready", "timeout", "resume"}
EventStates == {"none", "scheduled", "available", "dispatched", "processed"}
TerminalCalls == {"completed", "failed", "timed_out"}
Uncertain == {"executing", "reconciling", "reconciliation_required"}
CallStates == {"none", "queued"} \cup Uncertain \cup TerminalCalls
Ended == {"passed", "failed", "cancelled"}
ParentStates == {"queued", "running", "waiting"} \cup Ended
Modes == {"execute", "reconcile"}
Replies == {"completed", "rejected", "absent", "denied", "unknown"}
ErrorCodes == (Replies \ {"completed"}) \cup {"none", "timed_out_before_dispatch"}

ClaimState(mode) == IF mode = "execute" THEN "executing" ELSE "reconciling"

IdleWorker == [pc |-> "idle", action |-> "none", claim |-> 0, mode |-> "execute",
               reply |-> "unknown"]
NoCharge == [b \in Budget |-> 0]

Init ==
    /\ LedgerInit
    /\ call = [a \in Call |-> "none"]
    /\ ready = [a \in Call |-> "none"]
    /\ claim = [a \in Call |-> 0]
    /\ lease = [a \in Call |-> "none"]
    /\ due = [a \in Call |-> TRUE]
    /\ attempts = [a \in Call |-> 0]
    /\ errorCode = [a \in Call |-> "none"]
    /\ charged = [a \in Action |-> NoCharge]
    /\ lapsed = [a \in Call |-> FALSE]
    /\ parent = [a \in Call |-> "queued"]
    /\ parentLease = [a \in Call |-> "none"]
    /\ wake = [a \in Call |-> "ready"]
    /\ event = [a \in Call |->
            [k \in EventKinds |-> IF k = "ready" THEN "available" ELSE "none"]]
    /\ worker = [w \in Worker |-> IdleWorker]
    /\ request = {}
    /\ sent = [a \in Call |-> 0]
    /\ served = [a \in Call |-> FALSE]
-----------------------------------------------------------------------------
(* The ledger with actual usage.                                           *)

\* Mutant: a call that reports its usage is charged on top of its estimate.
UsageOnTop(a, charge) ==
    [b \in Budget |-> IF b \in Held(a) THEN spent[b] + EstimateOf(b) + charge[b] ELSE spent[b]]

SpentWith(a, charge) ==
    [b \in Budget |-> IF b \in Held(a) THEN spent[b] + charge[b] ELSE spent[b]]

\* settle_model_call_reservations.  What a call is charged may be less or more
\* than what was held for it; no resource of a model call is releasable.
SettleReservations(a, status, charge) ==
    /\ Reconcilable(a)
    /\ reserved' = Unreserve(a)
    /\ spent' = SpentWith(a, charge)
    /\ reservation' = [reservation EXCEPT ![a] =
            [b \in Budget |-> IF b \in Held(a) THEN status ELSE reservation[a][b]]]
    /\ charged' = [charged EXCEPT ![a] =
            [b \in Budget |-> IF b \in Held(a) THEN charge[b] ELSE charged[a][b]]]

ChargeUsage(a) ==
    SettleReservations(a, "committed", [b \in Budget |-> Usage[a][ResourceOf[b]]])
ChargeEstimate(a) ==
    SettleReservations(a, "committed", [b \in Budget |-> EstimateOf(b)])
ChargeNothing(a) == SettleReservations(a, "released", NoCharge)
-----------------------------------------------------------------------------
(* The parent's execution.                                                 *)

\* As at a tool node: an idle execution takes an undispatched event, one whose
\* lease expired any unprocessed one.
Claimable(a, k) ==
    \/ event[a][k] = "available" /\ parent[a] \in {"queued", "waiting"}
    \/ /\ event[a][k] \in {"available", "dispatched"}
       /\ parent[a] = "running" /\ parentLease[a] = "expired"

ClaimParent(a, k) ==
    /\ Claimable(a, k)
    /\ parent' = [parent EXCEPT ![a] = "running"]
    /\ parentLease' = [parentLease EXCEPT ![a] = "live"]
    /\ wake' = [wake EXCEPT ![a] = k]
    /\ event' = [event EXCEPT ![a][k] = "dispatched"]
    /\ UNCHANGED <<callVars, lapsed, worker, outsideVars, ledgerVars>>

Advancing(a, k) ==
    /\ parent[a] = "running"
    /\ wake[a] = k
    /\ event[a][k] = "dispatched"

\* advance lets the claim go with status s and its event k processed.
Leave(a, k, s) ==
    /\ parent' = [parent EXCEPT ![a] = s]
    /\ parentLease' = [parentLease EXCEPT ![a] = "none"]
    /\ event' = [event EXCEPT ![a][k] = "processed"]
    /\ UNCHANGED wake

\* create_workflow_model_call: the call, its reservations, its ready event and
\* the timeout in the transaction that suspends the parent.
RequestModel(a) ==
    /\ Advancing(a, "ready")
    /\ ReserveBudgets(a)
    /\ call' = [call EXCEPT ![a] = "queued"]
    /\ ready' = [ready EXCEPT ![a] = "ready"]
    /\ parent' = [parent EXCEPT ![a] = "waiting"]
    /\ parentLease' = [parentLease EXCEPT ![a] = "none"]
    /\ event' = [event EXCEPT ![a]["ready"] = "processed", ![a]["timeout"] = "scheduled"]
    /\ UNCHANGED <<claim, lease, due, attempts, errorCode, charged, lapsed, wake, worker, outsideVars>>

\* The deadline, the policy, the route or the input refuses the node.
RefuseModel(a) ==
    /\ Advancing(a, "ready")
    /\ Leave(a, "ready", "failed")
    /\ UNCHANGED <<callVars, lapsed, worker, outsideVars, ledgerVars>>

\* Exhausted budgets refuse it after the call was flushed: advance catches the
\* error and commits, and the call stays queued with no event to claim it by.
LeaveCallQueued(a) ==
    /\ Advancing(a, "ready")
    /\ ~(Covered(a) /\ HasRoom(a))
    /\ call' = [call EXCEPT ![a] = "queued"]
    /\ Leave(a, "ready", "failed")
    /\ UNCHANGED <<ready, claim, lease, due, attempts, errorCode, charged, lapsed, worker,
                   outsideVars, ledgerVars>>

\* expire_model_call of a call nobody has claimed; the parent fails with it.
TimeOutCall(a) ==
    /\ Advancing(a, "timeout")
    /\ call[a] = "queued" /\ ready[a] = "ready"
    /\ call' = [call EXCEPT ![a] = "timed_out"]
    /\ ready' = [ready EXCEPT ![a] = "processed"]
    /\ errorCode' = [errorCode EXCEPT ![a] = "timed_out_before_dispatch"]
    /\ ChargeNothing(a)
    /\ Leave(a, "timeout", "failed")
    /\ UNCHANGED <<claim, lease, due, attempts, lapsed, worker, outsideVars>>

\* expire_model_call of a claimed call: an execution is handed over to
\* reconciliation at once, whether or not its lease is still live.
KeepWaiting(a) ==
    /\ Advancing(a, "timeout")
    /\ call[a] \in Uncertain
    /\ call' = [call EXCEPT ![a] = IF @ = "executing" THEN "reconciliation_required" ELSE @]
    /\ due' = [due EXCEPT ![a] = IF call[a] = "executing" THEN TRUE ELSE @]
    /\ Leave(a, "timeout", "waiting")
    /\ UNCHANGED <<ready, claim, lease, attempts, errorCode, charged, lapsed, worker,
                   outsideVars, ledgerVars>>

\* advance with the event of a settled call: only a completed one passes.
ResumeParent(a) ==
    /\ Advancing(a, "resume")
    /\ call[a] \in TerminalCalls
    /\ Leave(a, "resume", IF call[a] = "completed" THEN "passed" ELSE "failed")
    /\ UNCHANGED <<callVars, lapsed, worker, outsideVars, ledgerVars>>

\* Mutant: the parent can be cancelled although a call exists.
CancelAnyway(a) ==
    /\ parent[a] \in {"queued", "waiting"}
    /\ parent' = [parent EXCEPT ![a] = "cancelled"]
    /\ parentLease' = [parentLease EXCEPT ![a] = "none"]
    /\ UNCHANGED <<callVars, lapsed, wake, event, worker, outsideVars, ledgerVars>>

\* cancel_workflow_run refuses a workflow that has any model call.
CancelWorkflow(a) ==
    /\ parent[a] \in {"queued", "waiting"}
    /\ call[a] = "none"
    /\ parent' = [parent EXCEPT ![a] = "cancelled"]
    /\ parentLease' = [parentLease EXCEPT ![a] = "none"]
    /\ UNCHANGED <<callVars, lapsed, wake, event, worker, outsideVars, ledgerVars>>
-----------------------------------------------------------------------------
(* ModelCallWorker.                                                        *)

Take(w, a, mode) ==
    /\ claim' = [claim EXCEPT ![a] = @ + 1]
    /\ lease' = [lease EXCEPT ![a] = "live"]
    /\ worker' = [worker EXCEPT ![w] =
            [IdleWorker EXCEPT !.pc = "claimed", !.action = a,
                               !.claim = claim[a] + 1, !.mode = mode]]

\* An event whose call is no longer queued would be discarded; ChargesFollowCall
\* shows that there is none.
ClaimReady(w, a) ==
    /\ worker[w].pc = "idle"
    /\ ready[a] = "ready"
    /\ call[a] = "queued"
    /\ call' = [call EXCEPT ![a] = "executing"]
    /\ ready' = [ready EXCEPT ![a] = "dispatched"]
    /\ Take(w, a, "execute")
    /\ UNCHANGED <<due, attempts, errorCode, charged, lapsed, parentVars, outsideVars, ledgerVars>>

\* Mutant: an execution whose lease expired is executed again.
ExecuteAgain(w, a) ==
    /\ worker[w].pc = "idle"
    /\ \/ call[a] = "executing" /\ lease[a] = "expired"
       \/ call[a] = "reconciliation_required" /\ due[a]
    /\ call' = [call EXCEPT ![a] = "executing"]
    /\ attempts' = [attempts EXCEPT ![a] = @ + 1]
    /\ attempts[a] < MaxReconciliation
    /\ Take(w, a, "execute")
    /\ UNCHANGED <<ready, due, errorCode, charged, lapsed, parentVars, outsideVars, ledgerVars>>

\* An expired execution or a due ambiguity; an expired reconciliation is not
\* selected.
ClaimReconciliation(w, a) ==
    /\ worker[w].pc = "idle"
    /\ \/ call[a] = "executing" /\ lease[a] = "expired"
       \/ call[a] = "reconciliation_required" /\ due[a]
    /\ call' = [call EXCEPT ![a] = "reconciling"]
    /\ attempts' = [attempts EXCEPT ![a] = @ + 1]
    /\ Take(w, a, "reconcile")
    /\ UNCHANGED <<ready, due, errorCode, charged, lapsed, parentVars, outsideVars, ledgerVars>>

Dispatch(w) ==
    /\ worker[w].pc = "claimed"
    /\ worker' = [worker EXCEPT ![w].pc = "waiting"]
    /\ request' = request \cup
            {[action |-> worker[w].action, claim |-> worker[w].claim,
              mode |-> worker[w].mode, stage |-> "received"]}
    /\ UNCHANGED <<callVars, lapsed, parentVars, sent, served, ledgerVars>>

\* A request outlives the worker that made it; a lookup nobody waits for
\* changes nothing and is dropped.
StopWaiting(w) ==
    /\ request' = {r \in request : r.mode = "reconcile" =>
            <<r.action, r.claim>> # <<worker[w].action, worker[w].claim>>}
    /\ UNCHANGED <<callVars, lapsed, parentVars, sent, served, ledgerVars>>

\* A timeout, a network error, a 5xx, an unreadable body, or a report of more
\* output than was allowed.
OutcomeUnknown(w) ==
    /\ worker[w].pc = "waiting"
    /\ worker' = [worker EXCEPT ![w].pc = "answered", ![w].reply = "unknown"]
    /\ StopWaiting(w)

WorkerFails(w) ==
    /\ worker[w].pc # "idle"
    /\ worker' = [worker EXCEPT ![w] = IdleWorker]
    /\ StopWaiting(w)

\* settle ignores a claim whose call has moved on, by the node's timeout or by
\* a later claim.  The lease is not consulted.
HoldsClaim(w) ==
    LET a == worker[w].action
    IN  /\ worker[w].pc # "idle"
        /\ call[a] = ClaimState(worker[w].mode)
        /\ claim[a] = worker[w].claim

\* Mutant: the parent is not woken.
EndQuietly(a, s) ==
    /\ call' = [call EXCEPT ![a] = s]
    /\ ready' = [ready EXCEPT ![a] = "processed"]
    /\ event' = [event EXCEPT ![a]["timeout"] = "processed"]
    /\ UNCHANGED <<due, attempts, parent, parentLease, wake>>

\* A terminal settlement closes both events and wakes the parent:
\* settle_model_call_and_wake.
End(a, s) ==
    /\ call' = [call EXCEPT ![a] = s]
    /\ ready' = [ready EXCEPT ![a] = "processed"]
    /\ event' = [event EXCEPT ![a]["timeout"] = "processed", ![a]["resume"] = "available"]
    /\ UNCHANGED <<due, attempts, parent, parentLease, wake>>

SettleCompleted(a) == End(a, "completed") /\ ChargeUsage(a)

SettleFailed(a) == End(a, "failed") /\ ChargeNothing(a)

\* Mutant: a call nobody could resolve is not charged.
UnresolvedForFree(a) == End(a, "failed") /\ ChargeNothing(a)

\* ADR 0015: unresolved calls settle at the bound that was reserved.
SettleUnresolved(a) == End(a, "failed") /\ ChargeEstimate(a)

RequireReconciliation(a) ==
    /\ call' = [call EXCEPT ![a] = "reconciliation_required"]
    /\ due' = [due EXCEPT ![a] = FALSE]
    /\ UNCHANGED <<ready, attempts, charged, parentVars, ledgerVars>>

Exhausted(a, mode) == mode = "reconcile" /\ attempts[a] >= MaxReconciliation

Settle(w) ==
    LET a == worker[w].action
    IN  /\ worker[w].pc = "answered"
        /\ HoldsClaim(w)
        /\ worker' = [worker EXCEPT ![w] = IdleWorker]
        /\ lease' = [lease EXCEPT ![a] = "none"]
        /\ errorCode' = [errorCode EXCEPT ![a] =
                IF worker[w].reply = "completed" THEN "none" ELSE worker[w].reply]
        /\ \/ worker[w].reply = "completed" /\ SettleCompleted(a)
           \/ worker[w].reply \in {"rejected", "absent", "denied"} /\ SettleFailed(a)
           \/ /\ worker[w].reply = "unknown"
              /\ \/ Exhausted(a, worker[w].mode) /\ SettleUnresolved(a)
                 \/ ~Exhausted(a, worker[w].mode) /\ RequireReconciliation(a)
        /\ UNCHANGED <<claim, lapsed, outsideVars>>

SettleStale(w) ==
    /\ worker[w].pc = "answered"
    /\ ~HoldsClaim(w)
    /\ worker' = [worker EXCEPT ![w] = IdleWorker]
    /\ UNCHANGED <<callVars, lapsed, parentVars, outsideVars, ledgerVars>>
-----------------------------------------------------------------------------
(* Gateway and provider.                                                   *)

\* authorize_gateway_model_call, on the rows as they are at that moment.
Authorized(r) ==
    LET a == r.action
    IN  /\ call[a] = ClaimState(r.mode)
        /\ lease[a] = "live"
        /\ claim[a] = r.claim
        /\ Held(a) # {} /\ \A b \in Applicable(a) : reservation[a][b] = "active"
        /\ r.mode = "execute" => ~lapsed[a]

Answer(r, reply) ==
    /\ request' = request \ {r}
    /\ \/ UNCHANGED worker
       \/ \E w \in Worker :
            /\ worker[w].pc = "waiting"
            /\ worker[w].action = r.action
            /\ worker[w].claim = r.claim
            /\ worker' = [worker EXCEPT ![w].pc = "answered", ![w].reply = reply]
    /\ UNCHANGED <<callVars, lapsed, parentVars, sent, ledgerVars>>

GatewayAuthorizes(r) ==
    /\ r.stage = "received"
    /\ Authorized(r)
    /\ request' = (request \ {r}) \cup {[r EXCEPT !.stage = "egress"]}
    /\ sent' = IF r.mode = "execute" THEN [sent EXCEPT ![r.action] = @ + 1] ELSE sent
    /\ UNCHANGED <<callVars, lapsed, parentVars, worker, served, ledgerVars>>

\* Any answer of the control API other than 200 is a 403 to the worker.
GatewayDenies(r) ==
    /\ r.stage = "received"
    /\ Answer(r, "denied")
    /\ UNCHANGED served

\* The provider keys its output by the call's idempotency key.
ProviderServes(r) ==
    /\ r.stage = "egress" /\ r.mode = "execute"
    /\ served' = [served EXCEPT ![r.action] = TRUE]
    /\ Answer(r, "completed")

ProviderRejects(r) ==
    /\ r.stage = "egress" /\ r.mode = "execute"
    /\ ~served[r.action]
    /\ Answer(r, "rejected")
    /\ UNCHANGED served

ProviderLooksUp(r) ==
    /\ r.stage = "egress" /\ r.mode = "reconcile"
    /\ Answer(r, IF served[r.action] THEN "completed" ELSE "absent")
    /\ UNCHANGED served
-----------------------------------------------------------------------------
(* The passage of time.                                                    *)

LeaseExpires(a) ==
    /\ lease[a] = "live"
    /\ lease' = [lease EXCEPT ![a] = "expired"]
    /\ UNCHANGED <<call, ready, claim, due, attempts, errorCode, charged, lapsed, parentVars, worker,
                   outsideVars, ledgerVars>>

ReconciliationDue(a) ==
    /\ ~due[a]
    /\ due' = [due EXCEPT ![a] = TRUE]
    /\ UNCHANGED <<call, ready, claim, lease, attempts, errorCode, charged, lapsed, parentVars, worker,
                   outsideVars, ledgerVars>>

Lapse(a) ==
    /\ ~lapsed[a] /\ call[a] \in {"queued", "executing"}
    /\ lapsed' = [lapsed EXCEPT ![a] = TRUE]
    /\ UNCHANGED <<callVars, parentVars, worker, outsideVars, ledgerVars>>

TimeoutDue(a) ==
    /\ event[a]["timeout"] = "scheduled"
    /\ event' = [event EXCEPT ![a]["timeout"] = "available"]
    /\ UNCHANGED <<callVars, lapsed, parent, parentLease, wake, worker, outsideVars, ledgerVars>>

ParentLeaseExpires(a) ==
    /\ parentLease[a] = "live"
    /\ parentLease' = [parentLease EXCEPT ![a] = "expired"]
    /\ UNCHANGED <<callVars, lapsed, parent, wake, event, worker, outsideVars, ledgerVars>>
-----------------------------------------------------------------------------
(* The governed actions that reserve and settle on the same budgets.       *)

OtherAction(a) ==
    /\ \/ Unreserved(a) /\ ReserveBudgets(a) /\ UNCHANGED charged
       \/ \E committed \in BOOLEAN :
            /\ Held(a) # {}
            /\ SettleActionReservations(a, committed)
            /\ charged' = [charged EXCEPT ![a] =
                    [b \in Budget |-> IF b \in Spends(a, committed) THEN EstimateOf(b) ELSE 0]]
    /\ UNCHANGED <<call, ready, claim, lease, due, attempts, errorCode, lapsed, parentVars,
                   worker, outsideVars>>
-----------------------------------------------------------------------------
Advance(a) ==
    \/ RequestModel(a)
    \/ RefuseModel(a)
    \/ LeaveCallQueued(a)
    \/ TimeOutCall(a)
    \/ KeepWaiting(a)
    \/ ResumeParent(a)

Engine(a) ==
    \/ \E k \in EventKinds : ClaimParent(a, k)
    \/ Advance(a)
    \/ CancelWorkflow(a)

WorkerStep(w) ==
    \/ \E a \in Call : ClaimReady(w, a) \/ ClaimReconciliation(w, a)
    \/ Dispatch(w)
    \/ OutcomeUnknown(w)
    \/ Settle(w)
    \/ SettleStale(w)
    \/ WorkerFails(w)

Network ==
    \E r \in request :
        \/ GatewayAuthorizes(r)
        \/ GatewayDenies(r)
        \/ ProviderServes(r)
        \/ ProviderRejects(r)
        \/ ProviderLooksUp(r)

Clock(a) ==
    \/ LeaseExpires(a)
    \/ ReconciliationDue(a)
    \/ Lapse(a)
    \/ TimeoutDue(a)
    \/ ParentLeaseExpires(a)

Next ==
    \/ \E a \in Call : Engine(a) \/ Clock(a)
    \/ \E a \in Action \ Call : OtherAction(a)
    \/ \E w \in Worker : WorkerStep(w)
    \/ Network

Spec == Init /\ [][Next]_vars

\* Both kinds of worker loop for ever and give a slow answer up; leases, delays
\* and timeouts run down.  The gateway, the provider and failures owe nothing.
Fairness ==
    /\ \A w \in Worker :
        /\ WF_vars(Dispatch(w))
        /\ WF_vars(OutcomeUnknown(w))
        /\ WF_vars(Settle(w) \/ SettleStale(w))
    /\ \A a \in Call :
        /\ SF_vars(\E w \in Worker : ClaimReady(w, a))
        /\ SF_vars(\E w \in Worker : ClaimReconciliation(w, a))
        /\ SF_vars(\E k \in EventKinds : ClaimParent(a, k))
        /\ SF_vars(Advance(a))
        /\ WF_vars(LeaseExpires(a))
        /\ WF_vars(ReconciliationDue(a))
        /\ WF_vars(TimeoutDue(a))
        /\ WF_vars(ParentLeaseExpires(a))

FairSpec == Spec /\ Fairness
-----------------------------------------------------------------------------
(* Properties.                                                             *)

WorkerMemory ==
    [pc : {"idle", "claimed", "waiting", "answered"}, action : Call \cup {"none"},
     claim : Nat, mode : Modes, reply : Replies]
Requests == [action : Call, claim : Nat, mode : Modes, stage : {"received", "egress"}]

\* max_reconciliation_attempts bounds the lookups, failures included.
TypeOK ==
    /\ LedgerTypeOK
    /\ call \in [Call -> CallStates]
    /\ ready \in [Call -> {"none", "ready", "dispatched", "processed"}]
    /\ claim \in [Call -> Nat]
    /\ lease \in [Call -> {"none", "live", "expired"}]
    /\ due \in [Call -> BOOLEAN]
    /\ attempts \in [Call -> 0 .. MaxReconciliation]
    /\ errorCode \in [Call -> ErrorCodes]
    /\ charged \in [Action -> [Budget -> Nat]]
    /\ lapsed \in [Call -> BOOLEAN]
    /\ parent \in [Call -> ParentStates]
    /\ parentLease \in [Call -> {"none", "live", "expired"}]
    /\ wake \in [Call -> EventKinds]
    /\ event \in [Call -> [EventKinds -> EventStates]]
    /\ worker \in [Worker -> WorkerMemory]
    /\ request \subseteq Requests
    /\ sent \in [Call -> Nat]
    /\ served \in [Call -> BOOLEAN]

\* ADR 0015: a lost or ambiguous response is never executed again blindly.
\* However workers die, leases lapse and the node's timeout takes live claims
\* away, the provider is asked to generate at most once per call.
ExecutedAtMostOnce == \A a \in Call : sent[a] <= 1

\* Every reservation of a is in status s, at actual value charge.
Reservations(a, s, charge) ==
    \A b \in Applicable(a) : reservation[a][b] = s /\ charged[a][b] = charge[b]

\* What a call holds and is charged follows its status: the reservations stay
\* while it can still be answered, a completed call is charged what the
\* provider reported, an unresolved one its estimate, and one that timed out
\* was never sent.  A call left behind by exhausted budgets holds nothing and
\* can be claimed by nobody.
ChargesFollowCall ==
    \A a \in Call :
        /\ ready[a] = "ready" => call[a] = "queued"
        /\ call[a] = "queued" /\ ready[a] = "none" => Reservations(a, "none", NoCharge) /\ parent[a] = "failed"
        /\ call[a] \in Uncertain \/ ready[a] = "ready" => Reservations(a, "active", NoCharge)
        /\ call[a] = "completed" =>
            Reservations(a, "committed", [b \in Budget |-> Usage[a][ResourceOf[b]]])
        /\ call[a] = "failed" /\ errorCode[a] = "unknown" =>
            Reservations(a, "committed", [b \in Budget |-> EstimateOf(b)])
        /\ call[a] = "failed" /\ errorCode[a] # "unknown" => Reservations(a, "released", NoCharge)
        /\ call[a] = "timed_out" => Reservations(a, "released", NoCharge) /\ sent[a] = 0

\* What the provider did is paid for.  The exceptions are a lookup that came
\* before the execution it asked about arrived, and one the gateway denied.
ServedIsCharged ==
    \A a \in Call :
        /\ call[a] = "completed" => served[a]
        /\ (served[a] /\ call[a] \in TerminalCalls /\ charged[a] = NoCharge
                /\ \E b \in Applicable(a) : Usage[a][ResourceOf[b]] > 0) =>
            errorCode[a] \in {"absent", "denied"} /\ attempts[a] > 0

\* How far the usage reported for a exceeds what was reserved for it.
Overrun(a, b) ==
    IF charged[a][b] > EstimateOf(b) THEN charged[a][b] - EstimateOf(b) ELSE 0

\* Nothing checks reported usage against the limit, so a budget can be
\* overspent; but by no more than providers reported beyond the reservations.
OverspendIsReported ==
    \A b \in Budget :
        spent[b] + reserved[b] <= Limit[b] + MapThenSumSet(LAMBDA a : Overrun(a, b), Action)

\* Call, parent and events agree whatever the order of claims, settlement and
\* timeout: a parent leaves its node only after its call has ended, passes it
\* only on a completed one, and otherwise has the one event that wakes it, or
\* a call whose settlement will publish one.
WakeIsComing ==
    \A a \in Call :
        LET open == {k \in EventKinds : event[a][k] \in {"scheduled", "available", "dispatched"}}
        IN  /\ parent[a] = "passed" => call[a] = "completed"
            /\ parent[a] = "cancelled" => call[a] = "none"
            /\ parent[a] = "failed" => call[a] \in TerminalCalls \cup {"none", "queued"}
            /\ parent[a] \notin Ended =>
                \/ call[a] = "none" /\ open = {"ready"}
                \/ call[a] \in {"queued"} \cup Uncertain /\ open = {"timeout"}
                \/ call[a] \in Uncertain \ {"executing"} /\ open = {}
                \/ call[a] \in TerminalCalls /\ open = {"resume"}

KeepsEnded ==
    \A a \in Call :
        /\ call[a] \in TerminalCalls => UNCHANGED <<call[a], charged[a], reservation[a], errorCode[a]>>
        /\ parent[a] \in Ended => UNCHANGED <<parent[a], call[a]>>

\* Migration 0014: the settlement of a model call is single use.  No late
\* worker, timeout or cancellation changes an ended call, what it was charged,
\* or a parent that has left its node.
EndedIsEnded == [][KeepsEnded]_vars

\* A claimed reconciliation whose worker is gone is never selected again.
Orphaned(a) ==
    call[a] = "reconciling" /\ ~\E w \in Worker : worker[w].action = a /\ HoldsClaim(w)

\* Lookups are bounded and an unresolved call fails, so every parent leaves its
\* agent node whatever the gateway and the provider do, unless the worker of
\* its reconciliation died.
ParentLeavesNode ==
    \A a \in Call : (parent[a] \notin Ended) ~> (parent[a] \in Ended \/ Orphaned(a))
-----------------------------------------------------------------------------
(* The inductive invariant behind the safety properties.                   *)

\* A claim or a request carries a token that was issued: the first to execute,
\* the later ones to look up.
Issued(t) ==
    /\ t.action \in Call
    /\ t.claim \in 1 .. claim[t.action]
    /\ t.mode = "execute" <=> t.claim = 1
    /\ t.mode = "reconcile" => attempts[t.action] > 0

ClaimsIssued ==
    /\ \A a \in Call : claim[a] = 0 <=> call[a] \in {"none", "queued", "timed_out"}
    /\ \A w \in Worker : worker[w].pc # "idle" => Issued(worker[w])
    /\ \A r \in request : Issued(r)
    /\ \A v, w \in Worker :
        (/\ worker[v].pc # "idle" /\ worker[w].pc # "idle"
         /\ worker[v].action = worker[w].action /\ worker[v].claim = worker[w].claim) => v = w

\* Lookups still allowed.
AttemptsLeft ==
    \A a \in Call :
        /\ call[a] \in {"none", "queued", "executing"} => attempts[a] = 0
        /\ call[a] = "reconciliation_required" => attempts[a] < MaxReconciliation

\* No execution of a is under way to the provider.
NoExecution(a) == \A r \in request : ~(r.action = a /\ r.mode = "execute")

\* Nor will one be.
NoneToCome(a) ==
    /\ NoExecution(a)
    /\ \A w \in Worker : ~(worker[w].pc = "claimed" /\ worker[w].action = a /\ worker[w].mode = "execute")

\* An execution is still with the worker that claimed it, or is one request on
\* its way to the gateway, or was sent: never two of the three.
ExecutionIsOnePlace ==
    /\ \A a \in Call :
        /\ sent[a] <= 1
        /\ sent[a] > 0 => claim[a] > 0
        /\ served[a] => sent[a] > 0
    /\ \A r \in request :
        r.mode = "execute" => (r.stage = "received" <=> sent[r.action] = 0)
    /\ \A w \in Worker :
        (worker[w].pc = "claimed" /\ worker[w].mode = "execute") =>
            sent[worker[w].action] = 0 /\ NoExecution(worker[w].action)

\* What an answer proves about the provider.
Proves(a, mode, reply) ==
    /\ reply = "completed" => served[a]
    /\ reply = "rejected" => mode = "execute"
    /\ reply = "absent" => mode = "reconcile"
    /\ reply \in {"rejected", "denied"} /\ mode = "execute" => ~served[a] /\ NoneToCome(a)

\* What an answered worker is about to record, and what a failure on record says.
AnswersAreTrue ==
    /\ \A w \in Worker : worker[w].pc = "answered" =>
        Proves(worker[w].action, worker[w].mode, worker[w].reply)
    /\ \A a \in Call :
        /\ call[a] = "completed" => served[a]
        /\ call[a] = "failed" /\ errorCode[a] # "unknown" =>
            \/ errorCode[a] \in {"absent", "denied"} /\ attempts[a] > 0
            \/ ~served[a] /\ NoneToCome(a)

\* Where the call stands fixes which event its parent still waits for.
CallOK(a) ==
    /\ parent[a] = "passed" => call[a] = "completed"
    /\ parent[a] = "cancelled" => call[a] = "none"
    /\ parent[a] = "failed" => call[a] \in TerminalCalls \cup {"none", "queued"}
    /\ call[a] = "queued" => (ready[a] = "ready" <=> parent[a] \notin Ended)
    /\ ready[a] = "ready" => call[a] = "queued"
    /\ call[a] = "queued" => ready[a] \in {"none", "ready"}
    /\ call[a] = "none" =>
        /\ ready[a] = "none"
        /\ event[a]["timeout"] = "none" /\ event[a]["resume"] = "none"
        /\ parent[a] \notin Ended => event[a]["ready"] \in {"available", "dispatched"}
    /\ call[a] # "none" => event[a]["ready"] = "processed"
    /\ (call[a] \in {"queued", "executing"} /\ parent[a] \notin Ended) =>
        event[a]["timeout"] \in {"scheduled", "available", "dispatched"}
    /\ call[a] \in {"queued"} \cup Uncertain => event[a]["resume"] = "none"
    /\ call[a] \in Uncertain \ {"executing"} => event[a]["timeout"] # "none"
    /\ (call[a] \in TerminalCalls /\ parent[a] \notin Ended) =>
        /\ event[a]["timeout"] = "processed"
        /\ event[a]["resume"] \in {"available", "dispatched"}

CallsAgree == \A a \in Call : CallOK(a)

\* Nothing is held or charged before the request.
NothingHeldYet == \A a \in Call : call[a] = "none" => Reservations(a, "none", NoCharge)

\* Only applicable budgets are held, nothing is charged before it is settled, and
\* actions are charged no more than their estimates.
UnchargedWhileHeld ==
    \A a \in Action : \A b \in Budget :
        /\ reservation[a][b] = "active" => b \in Applicable(a)
        /\ b \in Applicable(a) /\ reservation[a][b] \in {"none", "active"} => charged[a][b] = 0
        /\ a \notin Call => charged[a][b] <= EstimateOf(b)

\* No interleaving of the engine, both workers' claims, the gateway, the
\* provider and the clocks brings the rows of a call, its parent and its
\* reservations out of step; every conjunct is kept by every step, given the
\* others.
IndInv ==
    /\ TypeOK
    /\ ClaimsIssued
    /\ AttemptsLeft
    /\ ExecutionIsOnePlace
    /\ AnswersAreTrue
    /\ CallsAgree
    /\ NothingHeldYet
    /\ ChargesFollowCall
    /\ UnchargedWhileHeld
=============================================================================
