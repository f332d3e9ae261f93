-------------------------- MODULE ModelCallsProofs --------------------------
(* Every step of ModelCalls keeps IndInv, and what follows from it; and that *)
(* budgets are overspent by what providers reported, a sum over all actions. *)
EXTENDS ModelCalls, TLAPS

\* What was reserved is given back whole, so the totals stay natural numbers.
LEMMA SettledLedger ==
    ASSUME TypeOK, NEW a \in Action, NEW charge \in [Budget -> Nat],
           NEW s \in ReservationStatus, SettleReservations(a, s, charge)
    PROVE  LedgerTypeOK' /\ charged' \in [Action -> [Budget -> Nat]]
<1>1. \A b \in Budget : EstimateOf(b) \in Nat
    BY Zenon, BudgetAssumption DEF EstimateOf
<1>2. reserved' \in [Budget -> Nat]
    <2>1. ASSUME NEW b \in Budget PROVE Unreserve(a)[b] \in Nat
        <3>1. CASE b \in Held(a)
            BY <1>1, <3>1 DEF TypeOK, LedgerTypeOK, Unreserve, SettleReservations, Reconcilable
        <3>2. CASE b \notin Held(a)
            BY Zenon, <3>2 DEF TypeOK, LedgerTypeOK, Unreserve
        <3> QED
            BY Zenon, <3>1, <3>2
    <2>2. reserved' = Unreserve(a)
        BY Zenon DEF SettleReservations
    <2> QED
        BY Zenon, <2>1, <2>2 DEF Unreserve
<1>3. spent' \in [Budget -> Nat]
    BY DEF TypeOK, LedgerTypeOK, SpentWith, SettleReservations
<1>4. reservation' \in [Action -> [Budget -> ReservationStatus]]
    BY DEF TypeOK, LedgerTypeOK, SettleReservations
<1>5. charged' \in [Action -> [Budget -> Nat]]
    BY DEF TypeOK, SettleReservations
<1> QED
    BY Zenon, <1>2, <1>3, <1>4, <1>5 DEF LedgerTypeOK

\* The ledger's own operations keep its totals natural numbers too.
LEMMA LedgerTypes ==
    ASSUME TypeOK, NEW a \in Action,
           \/ ReserveBudgets(a)
           \/ \E committed \in BOOLEAN : SettleActionReservations(a, committed)
           \/ UNCHANGED ledgerVars
    PROVE  LedgerTypeOK'
<1>1. \A b \in Budget : EstimateOf(b) \in Nat
    BY Zenon, BudgetAssumption DEF EstimateOf
<1>2. CASE ReserveBudgets(a)
    <2>1. reserved' \in [Budget -> Nat]
        BY <1>1, <1>2 DEF TypeOK, LedgerTypeOK, ReserveBudgets
    <2>2. reservation' \in [Action -> [Budget -> ReservationStatus]]
        BY Zenon, <1>2 DEF TypeOK, LedgerTypeOK, ReserveBudgets, ReservationStatus
    <2> QED
        BY Zenon, <1>2, <2>1, <2>2 DEF TypeOK, LedgerTypeOK, ReserveBudgets
<1>3. ASSUME NEW committed \in BOOLEAN, SettleActionReservations(a, committed)
      PROVE  LedgerTypeOK'
    <2>1. reserved' \in [Budget -> Nat]
        <3>1. ASSUME NEW b \in Budget PROVE Unreserve(a)[b] \in Nat
            <4>1. CASE b \in Held(a)
                BY <1>1, <1>3, <4>1 DEF TypeOK, LedgerTypeOK, Unreserve, SettleActionReservations, Reconcilable
            <4>2. CASE b \notin Held(a)
                BY Zenon, <4>2 DEF TypeOK, LedgerTypeOK, Unreserve
            <4> QED
                BY Zenon, <4>1, <4>2
        <3>2. reserved' = Unreserve(a)
            BY Zenon, <1>3 DEF SettleActionReservations
        <3> QED
            BY Zenon, <3>1, <3>2 DEF Unreserve
    <2>2. spent' \in [Budget -> Nat]
        BY <1>1, <1>3 DEF TypeOK, LedgerTypeOK, SettleActionReservations
    <2>3. reservation' \in [Action -> [Budget -> ReservationStatus]]
        BY <1>3 DEF TypeOK, LedgerTypeOK, SettleActionReservations, ReservationStatus
    <2> QED
        BY Zenon, <2>1, <2>2, <2>3 DEF LedgerTypeOK
<1>4. CASE UNCHANGED ledgerVars
    BY Zenon, <1>4 DEF TypeOK, LedgerTypeOK, ledgerVars
<1> QED
    BY Zenon, <1>2, <1>3, <1>4

\* advance at the agent node, and the claim before it.
LEMMA ParentTypes ==
    ASSUME TypeOK, NEW a \in Call,
           \/ \E k \in EventKinds : ClaimParent(a, k)
           \/ RefuseModel(a) \/ LeaveCallQueued(a) \/ KeepWaiting(a) \/ ResumeParent(a)
           \/ CancelWorkflow(a) \/ TimeoutDue(a) \/ ParentLeaseExpires(a)
    PROVE  TypeOK'
<1>0. UNCHANGED ledgerVars
    BY Zenon DEF ClaimParent, RefuseModel, LeaveCallQueued, KeepWaiting, ResumeParent, CancelWorkflow,
                 TimeoutDue, ParentLeaseExpires
<1>1. a \in Action /\ LedgerTypeOK'
    BY Zenon, <1>0, LedgerTypes, ModelAssumption
<1>2. ASSUME NEW k \in EventKinds, ClaimParent(a, k) PROVE TypeOK'
    BY Zenon, <1>1, <1>2 DEF TypeOK, ClaimParent, ParentStates, EventStates, callVars, outsideVars
<1>3. ASSUME NEW k \in EventKinds, NEW s \in ParentStates, Leave(a, k, s)
      PROVE  /\ parent' \in [Call -> ParentStates]
             /\ parentLease' \in [Call -> {"none", "live", "expired"}]
             /\ wake' \in [Call -> EventKinds]
             /\ event' \in [Call -> [EventKinds -> EventStates]]
    BY Zenon, <1>3 DEF TypeOK, Leave, EventStates
<1>4. CASE RefuseModel(a)
    <2>1. Leave(a, "ready", "failed") /\ "ready" \in EventKinds /\ "failed" \in ParentStates
        BY Zenon, <1>4 DEF RefuseModel, EventKinds, ParentStates, Ended
    <2> QED
        BY Zenon, <1>1, <1>3, <1>4, <2>1 DEF TypeOK, RefuseModel, callVars, outsideVars
<1>5. CASE LeaveCallQueued(a)
    <2>1. Leave(a, "ready", "failed") /\ "ready" \in EventKinds /\ "failed" \in ParentStates
        BY Zenon, <1>5 DEF LeaveCallQueued, EventKinds, ParentStates, Ended
    <2>2. call' \in [Call -> CallStates]
        BY Zenon, <1>5 DEF TypeOK, LeaveCallQueued, CallStates
    <2> QED
        BY Zenon, <1>1, <1>3, <1>5, <2>1, <2>2 DEF TypeOK, LeaveCallQueued, outsideVars
<1>6. CASE KeepWaiting(a)
    <2>1. Leave(a, "timeout", "waiting") /\ "timeout" \in EventKinds /\ "waiting" \in ParentStates
        BY Zenon, <1>6 DEF KeepWaiting, EventKinds, ParentStates, Ended
    <2>2. call' \in [Call -> CallStates] /\ due' \in [Call -> BOOLEAN]
        BY Zenon, <1>6 DEF TypeOK, KeepWaiting, CallStates, Uncertain
    <2> QED
        BY Zenon, <1>1, <1>3, <1>6, <2>1, <2>2 DEF TypeOK, KeepWaiting, outsideVars
<1>7. CASE ResumeParent(a)
    <2>1. /\ Leave(a, "resume", IF call[a] = "completed" THEN "passed" ELSE "failed")
          /\ "resume" \in EventKinds /\ (IF call[a] = "completed" THEN "passed" ELSE "failed") \in ParentStates
        BY Zenon, <1>7 DEF ResumeParent, EventKinds, ParentStates, Ended
    <2> QED
        BY Zenon, <1>1, <1>3, <1>7, <2>1 DEF TypeOK, ResumeParent, callVars, outsideVars
<1>8. CASE CancelWorkflow(a)
    BY Zenon, <1>1, <1>8 DEF TypeOK, CancelWorkflow, ParentStates, Ended, callVars, outsideVars
<1>9. CASE TimeoutDue(a)
    BY Zenon, <1>1, <1>9 DEF TypeOK, TimeoutDue, EventKinds, EventStates, callVars, outsideVars
<1>10. CASE ParentLeaseExpires(a)
    BY Zenon, <1>1, <1>10 DEF TypeOK, ParentLeaseExpires, callVars, outsideVars
<1> QED
    BY Zenon, <1>2, <1>4, <1>5, <1>6, <1>7, <1>8, <1>9, <1>10

\* The two steps of the parent that touch the reservations.
LEMMA ReservingTypes ==
    ASSUME TypeOK, NEW a \in Call, RequestModel(a) \/ TimeOutCall(a)
    PROVE  TypeOK'
<1>1. a \in Action
    BY Zenon, ModelAssumption
<1>2. CASE RequestModel(a)
    <2>1. LedgerTypeOK'
        BY Zenon, <1>1, <1>2, LedgerTypes DEF RequestModel
    <2>2. /\ call' \in [Call -> CallStates] /\ ready' \in [Call -> {"none", "ready", "dispatched", "processed"}]
          /\ parent' \in [Call -> ParentStates] /\ parentLease' \in [Call -> {"none", "live", "expired"}]
        BY Zenon, <1>2 DEF TypeOK, RequestModel, CallStates, ParentStates
    <2>3. event' \in [Call -> [EventKinds -> EventStates]]
        BY Zenon, <1>2 DEF TypeOK, RequestModel, EventStates, EventKinds
    <2> QED
        BY Zenon, <1>2, <2>1, <2>2, <2>3 DEF TypeOK, RequestModel, outsideVars
<1>3. CASE TimeOutCall(a)
    <2>1. SettleReservations(a, "released", NoCharge) /\ NoCharge \in [Budget -> Nat]
            /\ "released" \in ReservationStatus
        BY Zenon, <1>3 DEF TimeOutCall, ChargeNothing, NoCharge, ReservationStatus
    <2>2. LedgerTypeOK' /\ charged' \in [Action -> [Budget -> Nat]]
        BY Zenon, <1>1, <2>1, SettledLedger
    <2>3. /\ call' \in [Call -> CallStates] /\ ready' \in [Call -> {"none", "ready", "dispatched", "processed"}]
          /\ errorCode' \in [Call -> ErrorCodes]
        BY Zenon, <1>3 DEF TypeOK, TimeOutCall, CallStates, TerminalCalls, ErrorCodes
    <2>4. /\ parent' \in [Call -> ParentStates] /\ parentLease' \in [Call -> {"none", "live", "expired"}]
          /\ event' \in [Call -> [EventKinds -> EventStates]] /\ wake' = wake
        BY Zenon, <1>3 DEF TypeOK, TimeOutCall, Leave, ParentStates, Ended, EventStates, EventKinds
    <2> QED
        BY Zenon, <1>3, <2>2, <2>3, <2>4 DEF TypeOK, TimeOutCall, outsideVars
<1> QED
    BY Zenon, <1>2, <1>3

\* What a claim leaves in the worker's memory.
LEMMA TakenTypes ==
    ASSUME TypeOK, NEW w \in Worker, NEW a \in Call, NEW m \in Modes, Take(w, a, m)
    PROVE  /\ worker' \in [Worker -> WorkerMemory]
           /\ claim' \in [Call -> Nat]
           /\ lease' \in [Call -> {"none", "live", "expired"}]
<1>1. claim[a] + 1 \in Nat
    BY DEF TypeOK
<1>2. [IdleWorker EXCEPT !.pc = "claimed", !.action = a,
                         !.claim = claim[a] + 1, !.mode = m] \in WorkerMemory
    BY Zenon, <1>1 DEF WorkerMemory, IdleWorker, Replies
<1> QED
    BY <1>2 DEF TypeOK, Take

\* claim_ready and claim_reconciliation, which counts its attempt.
LEMMA ClaimTypes ==
    ASSUME TypeOK, AttemptsLeft, NEW w \in Worker, NEW a \in Call,
           ClaimReady(w, a) \/ ClaimReconciliation(w, a)
    PROVE  TypeOK'
<1>1. a \in Action /\ UNCHANGED ledgerVars
    BY Zenon, ModelAssumption DEF ClaimReady, ClaimReconciliation
<1>2. LedgerTypeOK'
    BY Zenon, <1>1, LedgerTypes
<1>3. CASE ClaimReady(w, a)
    <2>1. /\ worker' \in [Worker -> WorkerMemory]
          /\ claim' \in [Call -> Nat]
          /\ lease' \in [Call -> {"none", "live", "expired"}]
        BY Zenon, <1>3, TakenTypes DEF ClaimReady, Modes
    <2>2. call' \in [Call -> CallStates] /\ ready' \in [Call -> {"none", "ready", "dispatched", "processed"}]
        BY Zenon, <1>3 DEF TypeOK, ClaimReady, CallStates, Uncertain
    <2> QED
        BY Zenon, <1>2, <1>3, <2>1, <2>2 DEF TypeOK, ClaimReady, parentVars, outsideVars
<1>4. CASE ClaimReconciliation(w, a)
    <2>1. /\ worker' \in [Worker -> WorkerMemory]
          /\ claim' \in [Call -> Nat]
          /\ lease' \in [Call -> {"none", "live", "expired"}]
        BY Zenon, <1>4, TakenTypes DEF ClaimReconciliation, Modes
    <2>2. call' \in [Call -> CallStates]
        BY Zenon, <1>4 DEF TypeOK, ClaimReconciliation, CallStates, Uncertain
    <2>3. attempts[a] + 1 \in 0 .. MaxReconciliation
        BY <1>4, ModelAssumption DEF TypeOK, ClaimReconciliation, AttemptsLeft
    <2>4. attempts' \in [Call -> 0 .. MaxReconciliation]
        BY Zenon, <1>4, <2>3 DEF TypeOK, ClaimReconciliation
    <2> QED
        BY Zenon, <1>2, <1>4, <2>1, <2>2, <2>4 DEF TypeOK, ClaimReconciliation, parentVars, outsideVars
<1> QED
    BY Zenon, <1>3, <1>4

\* Steps that change only memory and messages.
LEMMA MessageTypes ==
    ASSUME TypeOK, worker' \in [Worker -> WorkerMemory], request' \subseteq Requests,
           served' \in [Call -> BOOLEAN], sent' \in [Call -> Nat],
           UNCHANGED <<callVars, lapsed, parentVars, ledgerVars>>
    PROVE  TypeOK'
<1>1. LedgerTypeOK'
    BY Zenon DEF TypeOK, LedgerTypeOK, ledgerVars
<1> QED
    BY Zenon, <1>1 DEF TypeOK, callVars, parentVars

\* An answer in a worker's memory.
LEMMA AnsweredTypes ==
    ASSUME worker \in [Worker -> WorkerMemory], NEW w \in Worker, NEW x \in Replies
    PROVE  [worker EXCEPT ![w].pc = "answered", ![w].reply = x] \in [Worker -> WorkerMemory]
<1>1. worker[w] \in WorkerMemory
    BY Zenon
<1>2. [worker[w] EXCEPT !.pc = "answered", !.reply = x] \in WorkerMemory
    BY Zenon, <1>1 DEF WorkerMemory
<1>3. [worker EXCEPT ![w] = [worker[w] EXCEPT !.pc = "answered", !.reply = x]]
        \in [Worker -> WorkerMemory]
    BY Zenon, <1>2
<1> QED
    BY Zenon, <1>3

\* dispatch, and what ends a worker's wait without an answer.
LEMMA WorkerTypes ==
    ASSUME TypeOK, NEW w \in Worker,
           worker[w].pc # "idle" => worker[w].action \in Call,
           Dispatch(w) \/ OutcomeUnknown(w) \/ WorkerFails(w) \/ SettleStale(w)
    PROVE  TypeOK'
<1>1. worker' \in [Worker -> WorkerMemory]
    <2>1. CASE Dispatch(w)
        <3>1. worker[w] \in WorkerMemory
            BY Zenon DEF TypeOK
        <3>2. [worker[w] EXCEPT !.pc = "waiting"] \in WorkerMemory
            BY Zenon, <3>1 DEF WorkerMemory
        <3> QED
            BY Zenon, <2>1, <3>2 DEF TypeOK, Dispatch
    <2>2. CASE OutcomeUnknown(w)
        BY Zenon, <2>2, AnsweredTypes DEF TypeOK, OutcomeUnknown, Replies
    <2>3. CASE WorkerFails(w) \/ SettleStale(w)
        <3>1. IdleWorker \in WorkerMemory
            BY Zenon DEF IdleWorker, WorkerMemory, Replies, Modes
        <3> QED
            BY Zenon, <2>3, <3>1 DEF TypeOK, WorkerFails, SettleStale
    <2> QED
        BY Zenon, <2>1, <2>2, <2>3
<1>2. request' \subseteq Requests
    <2>1. CASE Dispatch(w)
        BY <2>1 DEF TypeOK, Dispatch, Requests, WorkerMemory
    <2>2. CASE ~ Dispatch(w)
        BY Zenon, <2>2 DEF TypeOK, OutcomeUnknown, WorkerFails, SettleStale, StopWaiting, outsideVars
    <2> QED
        BY Zenon, <2>1, <2>2
<1>3. sent' = sent /\ served' = served /\ UNCHANGED <<callVars, lapsed, parentVars, ledgerVars>>
    BY Zenon DEF Dispatch, OutcomeUnknown, WorkerFails, SettleStale, StopWaiting, outsideVars
<1>4. sent' \in [Call -> Nat] /\ served' \in [Call -> BOOLEAN]
    BY Zenon, <1>3 DEF TypeOK
<1> QED
    BY Zenon, <1>1, <1>2, <1>3, <1>4, MessageTypes

\* settle, whatever the outcome.
LEMMA SettleTypes ==
    ASSUME TypeOK, NEW w \in Worker, worker[w].action \in Call, Settle(w)
    PROVE  TypeOK'
<1> DEFINE a == worker[w].action
<1>1. a \in Action
    BY Zenon, ModelAssumption
<1>2. worker' \in [Worker -> WorkerMemory] /\ lease' \in [Call -> {"none", "live", "expired"}]
    BY Zenon DEF TypeOK, Settle, IdleWorker, WorkerMemory, Replies, Modes
<1>3. errorCode' \in [Call -> ErrorCodes]
    <2>1. worker[w].reply \in Replies
        BY Zenon DEF TypeOK, WorkerMemory
    <2>2. (IF worker[w].reply = "completed" THEN "none" ELSE worker[w].reply) \in ErrorCodes
        BY Zenon, <2>1 DEF Replies, ErrorCodes
    <2> QED
        BY Zenon, <2>2 DEF TypeOK, Settle
<1>4. UNCHANGED <<claim, lapsed, request, sent, served>>
    BY Zenon DEF Settle, outsideVars
<1>5. ASSUME NEW s \in TerminalCalls, End(a, s)
      PROVE  /\ call' \in [Call -> CallStates]
             /\ ready' \in [Call -> {"none", "ready", "dispatched", "processed"}]
             /\ event' \in [Call -> [EventKinds -> EventStates]]
             /\ UNCHANGED <<due, attempts, parent, parentLease, wake>>
    <2>1. call' \in [Call -> CallStates] /\ ready' \in [Call -> {"none", "ready", "dispatched", "processed"}]
        BY Zenon, <1>5 DEF TypeOK, End, CallStates
    <2>2. event' \in [Call -> [EventKinds -> EventStates]]
        BY SMTT(30), <1>5 DEF TypeOK, End, EventKinds, EventStates
    <2> QED
        BY Zenon, <1>5, <2>1, <2>2 DEF End
<1>6. ASSUME NEW s \in TerminalCalls, End(a, s), NEW t \in ReservationStatus,
             NEW charge \in [Budget -> Nat], SettleReservations(a, t, charge)
      PROVE  TypeOK'
    <2>1. LedgerTypeOK' /\ charged' \in [Action -> [Budget -> Nat]]
        BY Zenon, <1>1, <1>6, SettledLedger
    <2> QED
        BY Zenon, <1>2, <1>3, <1>4, <1>5, <1>6, <2>1 DEF TypeOK
<1>7. CASE SettleCompleted(a)
    <2>1. [b \in Budget |-> Usage[a][ResourceOf[b]]] \in [Budget -> Nat]
        BY BudgetAssumption, ModelAssumption
    <2> QED
        BY Zenon, <1>6, <1>7, <2>1 DEF SettleCompleted, ChargeUsage, TerminalCalls, ReservationStatus
<1>8. CASE SettleFailed(a)
    <2>1. NoCharge \in [Budget -> Nat]
        BY Zenon DEF NoCharge
    <2> QED
        BY Zenon, <1>6, <1>8, <2>1 DEF SettleFailed, ChargeNothing, TerminalCalls, ReservationStatus
<1>9. CASE SettleUnresolved(a)
    <2>1. [b \in Budget |-> EstimateOf(b)] \in [Budget -> Nat]
        BY Zenon, BudgetAssumption DEF EstimateOf
    <2> QED
        BY Zenon, <1>6, <1>9, <2>1 DEF SettleUnresolved, ChargeEstimate, TerminalCalls, ReservationStatus
<1>10. CASE RequireReconciliation(a)
    <2>1. call' \in [Call -> CallStates] /\ due' \in [Call -> BOOLEAN]
        BY Zenon, <1>10 DEF TypeOK, RequireReconciliation, CallStates, Uncertain
    <2>2. LedgerTypeOK'
        BY Zenon, <1>1, <1>10, LedgerTypes DEF RequireReconciliation
    <2> QED
        BY Zenon, <1>2, <1>3, <1>4, <1>10, <2>1, <2>2 DEF TypeOK, RequireReconciliation, parentVars
<1> QED
    BY Zenon, <1>7, <1>8, <1>9, <1>10 DEF Settle

\* The gateway and the provider.
LEMMA NetworkTypes ==
    ASSUME TypeOK, NEW r \in request,
           \/ GatewayAuthorizes(r) \/ GatewayDenies(r) \/ ProviderServes(r)
           \/ ProviderRejects(r) \/ ProviderLooksUp(r)
    PROVE  TypeOK'
<1>0. r \in Requests /\ r.action \in Call /\ sent \in [Call -> Nat] /\ served \in [Call -> BOOLEAN]
    BY Zenon DEF TypeOK, Requests
<1>1. CASE GatewayAuthorizes(r)
    <2>1. [r EXCEPT !.stage = "egress"] \in Requests
        BY Zenon, <1>0 DEF Requests
    <2>2. request' \subseteq Requests
        BY Zenon, <1>1, <2>1 DEF TypeOK, GatewayAuthorizes
    <2>3. sent[r.action] + 1 \in Nat
        BY <1>0
    <2>4. sent' \in [Call -> Nat]
        BY Zenon, <1>0, <1>1, <2>3 DEF GatewayAuthorizes
    <2> QED
        BY Zenon, <1>1, <2>2, <2>4, MessageTypes DEF TypeOK, GatewayAuthorizes
<1>2. ASSUME NEW x \in Replies, Answer(r, x), served' \in [Call -> BOOLEAN]
      PROVE  TypeOK'
    <2>1. request' \subseteq Requests
        BY Zenon, <1>2 DEF TypeOK, Answer
    <2>2. worker' \in [Worker -> WorkerMemory]
        <3>1. worker \in [Worker -> WorkerMemory]
            BY Zenon DEF TypeOK
        <3>2. ASSUME NEW w \in Worker, worker' = [worker EXCEPT ![w].pc = "answered", ![w].reply = x]
              PROVE  worker' \in [Worker -> WorkerMemory]
            BY Zenon, <3>1, <3>2, AnsweredTypes
        <3> QED
            BY Zenon, <1>2, <3>1, <3>2 DEF Answer
    <2> QED
        BY Zenon, <1>0, <1>2, <2>1, <2>2, MessageTypes DEF Answer
<1>3. CASE ~ GatewayAuthorizes(r)
    <2>1. served' \in [Call -> BOOLEAN]
        BY Zenon, <1>0, <1>3 DEF GatewayDenies, ProviderServes, ProviderRejects, ProviderLooksUp
    <2>2. \E x \in Replies : Answer(r, x)
        BY Zenon, <1>3 DEF GatewayDenies, ProviderServes, ProviderRejects, ProviderLooksUp, Replies
    <2> QED
        BY Zenon, <1>2, <2>1, <2>2
<1> QED
    BY Zenon, <1>1, <1>3

\* Leases, delays and lapses.
LEMMA ClockTypes ==
    ASSUME TypeOK, NEW a \in Call, LeaseExpires(a) \/ ReconciliationDue(a) \/ Lapse(a)
    PROVE  TypeOK'
<1>1. LedgerTypeOK'
    BY Zenon DEF TypeOK, LedgerTypeOK, LeaseExpires, ReconciliationDue, Lapse, ledgerVars
<1>2. CASE LeaseExpires(a)
    BY Zenon, <1>1, <1>2 DEF TypeOK, LeaseExpires, parentVars, outsideVars
<1>3. CASE ReconciliationDue(a)
    BY Zenon, <1>1, <1>3 DEF TypeOK, ReconciliationDue, parentVars, outsideVars
<1>4. CASE Lapse(a)
    BY Zenon, <1>1, <1>4 DEF TypeOK, Lapse, callVars, parentVars, outsideVars
<1> QED
    BY Zenon, <1>2, <1>3, <1>4

\* A governed action on the same budgets.
LEMMA OtherTypes ==
    ASSUME TypeOK, NEW a \in Action, OtherAction(a)
    PROVE  TypeOK'
<1>1. LedgerTypeOK'
    BY Zenon, LedgerTypes DEF OtherAction
<1>2. \A b \in Budget : EstimateOf(b) \in Nat
    BY Zenon, BudgetAssumption DEF EstimateOf
<1>3. charged' \in [Action -> [Budget -> Nat]]
    <2>1. charged \in [Action -> [Budget -> Nat]]
        BY Zenon DEF TypeOK
    <2>2. ASSUME NEW committed \in BOOLEAN,
                 charged' = [charged EXCEPT ![a] =
                    [b \in Budget |-> IF b \in Spends(a, committed) THEN EstimateOf(b) ELSE 0]]
          PROVE  charged' \in [Action -> [Budget -> Nat]]
        BY Zenon, <1>2, <2>1, <2>2
    <2> QED
        BY Zenon, <2>1, <2>2 DEF OtherAction
<1> QED
    BY Zenon, <1>1, <1>3 DEF TypeOK, OtherAction, parentVars, outsideVars

\* Every step keeps the types, given issued claims and the attempts left.
LEMMA StepTypes ==
    ASSUME TypeOK, ClaimsIssued, AttemptsLeft, [Next]_vars
    PROVE  TypeOK'
<1>1. CASE UNCHANGED vars
    BY Zenon, <1>1 DEF vars, callVars, parentVars, outsideVars, ledgerVars, TypeOK, LedgerTypeOK
<1>2. ASSUME NEW a \in Call, Engine(a) \/ Clock(a) PROVE TypeOK'
    BY Zenon, <1>2, ParentTypes, ReservingTypes, ClockTypes DEF Engine, Advance, Clock
<1>3. ASSUME NEW a \in Action \ Call, OtherAction(a) PROVE TypeOK'
    BY Zenon, <1>3, OtherTypes
<1>4. ASSUME NEW w \in Worker, WorkerStep(w) PROVE TypeOK'
    <2>1. worker[w].pc # "idle" => worker[w].action \in Call
        BY Zenon DEF ClaimsIssued, Issued
    <2>2. Settle(w) => worker[w].pc # "idle"
        BY Zenon DEF Settle, HoldsClaim
    <2> QED
        BY Zenon, <1>4, <2>1, <2>2, ClaimTypes, WorkerTypes, SettleTypes DEF WorkerStep
<1>5. CASE Network
    BY Zenon, <1>5, NetworkTypes DEF Network
<1> QED
    BY Zenon, <1>1, <1>2, <1>3, <1>4, <1>5 DEF Next

-----------------------------------------------------------------------------
(* Claims, executions and answers.                                         *)

FlightInv == ClaimsIssued /\ AttemptsLeft /\ ExecutionIsOnePlace /\ AnswersAreTrue

Unclaimed == {"none", "queued", "timed_out"}

\* A step that touches nothing the flight of an execution depends on.
LEMMA FlightKept ==
    ASSUME FlightInv,
           UNCHANGED <<call, claim, attempts, errorCode, worker, request, sent, served>>
    PROVE  FlightInv'
BY DEF FlightInv, ClaimsIssued, Issued, AttemptsLeft, ExecutionIsOnePlace, AnswersAreTrue, Proves,
       NoneToCome, NoExecution

\* The request, its refusal and its timeout move an unclaimed call.
LEMMA UnclaimedFlight ==
    ASSUME TypeOK, FlightInv, NEW a \in Call, NEW s \in Unclaimed, call[a] \in {"none", "queued"},
           call' = [call EXCEPT ![a] = s],
           UNCHANGED <<claim, attempts, worker, request, sent, served>>,
           \A c \in Call \ {a} : errorCode'[c] = errorCode[c]
    PROVE  FlightInv'
<1>1. \A c \in Call : call'[c] = IF c = a THEN s ELSE call[c]
    BY Zenon DEF TypeOK
<1>2. ClaimsIssued'
    BY <1>1 DEF FlightInv, ClaimsIssued, Issued, Unclaimed
<1>3. AttemptsLeft'
    BY Zenon, <1>1 DEF FlightInv, AttemptsLeft, Unclaimed
<1>4. ExecutionIsOnePlace'
    BY Zenon DEF FlightInv, ExecutionIsOnePlace, NoExecution
<1>5. AnswersAreTrue'
    <2>1. \A c \in Call : NoneToCome(c)' <=> NoneToCome(c)
        BY Zenon DEF NoneToCome, NoExecution
    <2>2. \A w \in Worker : worker'[w].pc = "answered" =>
            Proves(worker[w].action, worker[w].mode, worker[w].reply)'
        BY ZenonT(30) DEF FlightInv, AnswersAreTrue, Proves, NoneToCome, NoExecution
    <2> QED
        BY Zenon, <1>1, <2>1, <2>2 DEF FlightInv, AnswersAreTrue, Unclaimed
<1> QED
    BY Zenon, <1>2, <1>3, <1>4, <1>5 DEF FlightInv

\* The node's timeout takes an execution away from its worker.
LEMMA KeepWaitingFlight ==
    ASSUME TypeOK, FlightInv, NEW a \in Call, KeepWaiting(a)
    PROVE  FlightInv'
<1>1. \A c \in Call : call'[c] = IF c = a /\ call[a] = "executing" THEN "reconciliation_required" ELSE call[c]
    BY Zenon DEF TypeOK, KeepWaiting
<1>2. UNCHANGED <<claim, attempts, errorCode, worker, request, sent, served>>
    BY Zenon DEF KeepWaiting, outsideVars
<1>3. ClaimsIssued'
    BY SMTT(30), <1>1, <1>2 DEF FlightInv, ClaimsIssued, Issued, KeepWaiting, Uncertain
<1>4. AttemptsLeft'
    BY <1>1, <1>2, ModelAssumption DEF FlightInv, AttemptsLeft
<1>5. ExecutionIsOnePlace'
    BY ZenonT(30), <1>2 DEF FlightInv, ExecutionIsOnePlace, NoExecution
<1>6. AnswersAreTrue'
    <2>1. \A c \in Call : NoneToCome(c)' <=> NoneToCome(c)
        BY Zenon, <1>2 DEF NoneToCome, NoExecution
    <2>2. \A w \in Worker : worker'[w].pc = "answered" =>
            Proves(worker[w].action, worker[w].mode, worker[w].reply)'
        BY Zenon, <1>2 DEF FlightInv, AnswersAreTrue, Proves, NoneToCome, NoExecution
    <2> QED
        BY Zenon, <1>1, <1>2, <2>1, <2>2 DEF FlightInv, AnswersAreTrue
<1> QED
    BY Zenon, <1>3, <1>4, <1>5, <1>6 DEF FlightInv

\* Both claims: no token in use is as large as the new one.
LEMMA TakeClaims ==
    ASSUME TypeOK, ClaimsIssued, NEW w \in Worker, NEW a \in Call, NEW m \in Modes,
           Take(w, a, m), m = "execute" <=> claim[a] = 0,
           call' = [call EXCEPT ![a] = ClaimState(m)],
           m = "reconcile" => attempts'[a] > 0,
           \A c \in Call : attempts[c] > 0 => attempts'[c] > 0,
           UNCHANGED request
    PROVE  ClaimsIssued'
<1>1. claim \in [Call -> Nat] /\ worker \in [Worker -> WorkerMemory]
    BY Zenon DEF TypeOK
<1>2. \A c \in Call : claim'[c] = IF c = a THEN claim[c] + 1 ELSE claim[c]
    BY Zenon, <1>1 DEF Take
<1>3. /\ worker'[w].pc = "claimed" /\ worker'[w].action = a
      /\ worker'[w].claim = claim[a] + 1 /\ worker'[w].mode = m
      /\ \A v \in Worker \ {w} : worker'[v] = worker[v]
    BY Zenon, <1>1 DEF Take, IdleWorker
<1>4. \A c \in Call : claim'[c] = 0 <=> call'[c] \in {"none", "queued", "timed_out"}
    BY <1>1, <1>2 DEF TypeOK, ClaimsIssued, ClaimState, Modes
<1>5. \A t : Issued(t) /\ t.claim \in Nat => Issued(t)'
    BY <1>1, <1>2 DEF Issued
<1>6. \A v \in Worker \ {w} : worker'[v].pc # "idle" => Issued(worker[v])'
    BY Zenon, <1>1, <1>3, <1>5 DEF ClaimsIssued, WorkerMemory
<1>7. Issued(worker[w])'
    BY SMTT(30), <1>1, <1>2, <1>3 DEF Issued, Modes
<1>8. \A r \in request' : Issued(r)'
    BY SMTT(30), <1>5 DEF TypeOK, ClaimsIssued, Requests
<1>9. \A u, v \in Worker :
        (/\ worker'[u].pc # "idle" /\ worker'[v].pc # "idle"
         /\ worker'[u].action = worker'[v].action /\ worker'[u].claim = worker'[v].claim) => u = v
    <2>1. \A v \in Worker \ {w} :
            worker'[v].pc # "idle" /\ worker'[v].action = a => worker'[v].claim \in 1 .. claim[a]
        BY <1>3 DEF ClaimsIssued, Issued
    <2>2. claim[a] + 1 \notin 1 .. claim[a]
        BY <1>1
    <2> QED
        BY SMTT(30), <1>3, <2>1, <2>2 DEF ClaimsIssued
<1> QED
    BY Zenon, <1>4, <1>6, <1>7, <1>8, <1>9 DEF ClaimsIssued

\* A claim sends nothing; one to execute is the only one, and the call has no
\* outcome on record.
LEMMA TakeExecutions ==
    ASSUME TypeOK, FlightInv, NEW w \in Worker, NEW a \in Call, NEW m \in Modes,
           Take(w, a, m), m = "execute" => claim[a] = 0,
           call[a] \notin TerminalCalls, call' = [call EXCEPT ![a] = ClaimState(m)],
           \A c \in Call : attempts[c] > 0 => attempts'[c] > 0,
           UNCHANGED <<errorCode, request, served, sent>>
    PROVE  ExecutionIsOnePlace' /\ AnswersAreTrue'
<1>1. claim \in [Call -> Nat] /\ worker \in [Worker -> WorkerMemory] /\ sent \in [Call -> Nat]
    BY Zenon DEF TypeOK
<1>2. \A c \in Call : claim'[c] = IF c = a THEN claim[c] + 1 ELSE claim[c]
    BY Zenon, <1>1 DEF Take
<1>3. /\ worker'[w].pc = "claimed" /\ worker'[w].action = a /\ worker'[w].mode = m
      /\ \A v \in Worker \ {w} : worker'[v] = worker[v]
    BY Zenon, <1>1 DEF Take, IdleWorker
<1>4. claim[a] = 0 => sent[a] = 0 /\ NoExecution(a)
    BY <1>1 DEF FlightInv, ClaimsIssued, Issued, ExecutionIsOnePlace, NoExecution
<1>5. ExecutionIsOnePlace'
    <2>1. \A c \in Call : /\ sent'[c] <= 1
                          /\ sent'[c] > 0 => claim'[c] > 0
                          /\ served'[c] => sent'[c] > 0
        BY <1>1, <1>2 DEF FlightInv, ExecutionIsOnePlace
    <2>2. \A r \in request' : r.mode = "execute" => (r.stage = "received" <=> sent'[r.action] = 0)
        BY Zenon DEF FlightInv, ExecutionIsOnePlace
    <2>3. \A v \in Worker : (worker'[v].pc = "claimed" /\ worker'[v].mode = "execute") =>
            sent'[worker'[v].action] = 0 /\ NoExecution(worker[v].action)'
        BY ZenonT(30), <1>3, <1>4 DEF FlightInv, ExecutionIsOnePlace, NoExecution
    <2> QED
        BY Zenon, <2>1, <2>2, <2>3 DEF ExecutionIsOnePlace
<1>6. ASSUME NEW c \in Call, NoneToCome(c), m = "execute" => c # a PROVE NoneToCome(c)'
    BY Zenon, <1>3, <1>6 DEF NoneToCome, NoExecution
<1>7. \A v \in Worker \ {w} : (worker[v].pc # "idle" /\ worker[v].mode = "execute" /\ m = "execute")
                                => worker[v].action # a
    BY <1>1 DEF FlightInv, ClaimsIssued, Issued
<1>8. \A v \in Worker : worker'[v].pc = "answered" =>
        Proves(worker[v].action, worker[v].mode, worker[v].reply)'
    <2> SUFFICES ASSUME NEW v \in Worker \ {w}, worker[v].pc = "answered", worker'[v] = worker[v]
                 PROVE  Proves(worker[v].action, worker[v].mode, worker[v].reply)'
        BY Zenon, <1>3
    <2>1. worker[v].action \in Call /\ Proves(worker[v].action, worker[v].mode, worker[v].reply)
        BY Zenon DEF FlightInv, AnswersAreTrue, ClaimsIssued, Issued
    <2> QED
        BY Zenon, <1>3, <1>7, <2>1 DEF Proves, NoneToCome, NoExecution
<1>9. \A c \in Call :
        /\ call'[c] = "completed" => served'[c]
        /\ call'[c] = "failed" /\ errorCode'[c] # "unknown" =>
            \/ errorCode'[c] \in {"absent", "denied"} /\ attempts'[c] > 0
            \/ ~served'[c] /\ NoneToCome(c)'
    <2>1. \A c \in Call : c = a \/ call'[c] = call[c]
        BY Zenon DEF TypeOK
    <2>2. call'[a] \notin {"completed", "failed"}
        BY Zenon DEF TypeOK, ClaimState
    <2> QED
        BY Zenon, <1>6, <2>1, <2>2 DEF FlightInv, AnswersAreTrue
<1> QED
    BY Zenon, <1>5, <1>8, <1>9 DEF AnswersAreTrue

\* claim_ready and claim_reconciliation.
LEMMA ClaimFlight ==
    ASSUME TypeOK, FlightInv, NEW w \in Worker, NEW a \in Call,
           ClaimReady(w, a) \/ ClaimReconciliation(w, a)
    PROVE  FlightInv'
<1>1. attempts \in [Call -> 0 .. MaxReconciliation] /\ call \in [Call -> CallStates]
    BY Zenon DEF TypeOK
<1>2. CASE ClaimReady(w, a)
    <2>1. claim[a] = 0 /\ call[a] = "queued"
        BY Zenon, <1>2 DEF FlightInv, ClaimsIssued, ClaimReady
    <2>2. Take(w, a, "execute") /\ "execute" \in Modes /\ ClaimState("execute") = "executing"
        BY Zenon, <1>2 DEF ClaimReady, Modes, ClaimState
    <2>3. UNCHANGED <<attempts, errorCode, request, served, sent>>
        BY Zenon, <1>2 DEF ClaimReady, outsideVars
    <2>4. call' = [call EXCEPT ![a] = "executing"]
        BY Zenon, <1>2 DEF ClaimReady
    <2>5. ClaimsIssued'
        BY Zenon, <2>1, <2>2, <2>3, <2>4, TakeClaims DEF FlightInv
    <2>6. ExecutionIsOnePlace' /\ AnswersAreTrue'
        BY Zenon, <2>1, <2>2, <2>3, <2>4, TakeExecutions DEF TerminalCalls
    <2>7. AttemptsLeft'
        BY Zenon, <1>1, <2>1, <2>3, <2>4 DEF FlightInv, AttemptsLeft
    <2> QED
        BY Zenon, <2>5, <2>6, <2>7 DEF FlightInv
<1>3. CASE ClaimReconciliation(w, a)
    <2>1. claim[a] # 0 /\ call[a] \in Uncertain /\ call[a] \notin TerminalCalls
        BY Zenon, <1>3 DEF FlightInv, ClaimsIssued, ClaimReconciliation, Uncertain, TerminalCalls
    <2>2. Take(w, a, "reconcile") /\ "reconcile" \in Modes /\ ClaimState("reconcile") = "reconciling"
        BY Zenon, <1>3 DEF ClaimReconciliation, Modes, ClaimState
    <2>3. UNCHANGED <<errorCode, request, served, sent>>
        BY Zenon, <1>3 DEF ClaimReconciliation, outsideVars
    <2>4. call' = [call EXCEPT ![a] = "reconciling"]
        BY Zenon, <1>3 DEF ClaimReconciliation
    <2>5. \A c \in Call : attempts'[c] = IF c = a THEN attempts[c] + 1 ELSE attempts[c]
        BY Zenon, <1>1, <1>3 DEF ClaimReconciliation
    <2>6. attempts'[a] > 0 /\ \A c \in Call : attempts[c] > 0 => attempts'[c] > 0
        BY <1>1, <2>5, ModelAssumption
    <2>7. ClaimsIssued'
        BY Zenon, <2>1, <2>2, <2>3, <2>4, <2>6, TakeClaims DEF FlightInv
    <2>8. ExecutionIsOnePlace' /\ AnswersAreTrue'
        BY Zenon, <2>1, <2>2, <2>3, <2>4, <2>6, TakeExecutions
    <2>9. AttemptsLeft'
        BY Zenon, <1>1, <2>4, <2>5 DEF FlightInv, AttemptsLeft
    <2> QED
        BY Zenon, <2>7, <2>8, <2>9 DEF FlightInv
<1> QED
    BY Zenon, <1>2, <1>3

\* dispatch: the execution leaves the worker's memory for one request.
LEMMA DispatchFlight ==
    ASSUME TypeOK, FlightInv, NEW w \in Worker, Dispatch(w)
    PROVE  FlightInv'
<1> DEFINE q == [action |-> worker[w].action, claim |-> worker[w].claim,
                 mode |-> worker[w].mode, stage |-> "received"]
<1>1. worker \in [Worker -> WorkerMemory] /\ worker[w].pc = "claimed"
    BY Zenon DEF TypeOK, Dispatch
<1>2. /\ worker'[w].pc = "waiting" /\ worker'[w].action = worker[w].action
      /\ worker'[w].claim = worker[w].claim /\ worker'[w].mode = worker[w].mode
      /\ \A v \in Worker \ {w} : worker'[v] = worker[v]
    BY Zenon, <1>1 DEF Dispatch, WorkerMemory
<1>3. request' = request \cup {q}
    BY Zenon DEF Dispatch
<1>4. UNCHANGED <<call, claim, attempts, errorCode, sent, served>>
    BY Zenon DEF Dispatch, callVars
<1>5. /\ q.action = worker[w].action /\ q.claim = worker[w].claim
      /\ q.mode = worker[w].mode /\ q.stage = "received"
    BY Zenon
<1>6. Issued(worker[w])
    BY Zenon, <1>1 DEF FlightInv, ClaimsIssued
<1> HIDE DEF q
<1>7. \A v \in Worker : worker'[v].pc # "idle" => worker[v].pc # "idle"
    BY Zenon, <1>1, <1>2
<1>8. ClaimsIssued'
    <2>1. \A v \in Worker : worker'[v].pc # "idle" => Issued(worker[v])'
        BY <1>2, <1>4, <1>7 DEF FlightInv, ClaimsIssued, Issued
    <2>2. \A r \in request' : Issued(r)'
        BY Zenon, <1>3, <1>4, <1>5, <1>6 DEF FlightInv, ClaimsIssued, Issued
    <2>3. \A u, v \in Worker :
            (/\ worker'[u].pc # "idle" /\ worker'[v].pc # "idle"
             /\ worker'[u].action = worker'[v].action
             /\ worker'[u].claim = worker'[v].claim) => u = v
        BY <1>2, <1>7 DEF FlightInv, ClaimsIssued
    <2> QED
        BY ZenonT(30), <1>4, <2>1, <2>2, <2>3 DEF FlightInv, ClaimsIssued
<1>9. \A v \in Worker \ {w} :
        (worker[v].pc # "idle" /\ worker[v].mode = "execute" /\ worker[w].mode = "execute")
            => worker[v].action # worker[w].action
    BY Zenon, <1>1 DEF FlightInv, ClaimsIssued, Issued
<1>10. ExecutionIsOnePlace'
    BY <1>1, <1>2, <1>3, <1>4, <1>5, <1>9 DEF FlightInv, ExecutionIsOnePlace, NoExecution
<1>11. \A c \in Call : NoneToCome(c) => NoneToCome(c)'
    BY Zenon, <1>1, <1>2, <1>3, <1>5 DEF NoneToCome, NoExecution
<1>12. AnswersAreTrue'
    <2>1. \A v \in Worker : worker'[v].pc = "answered" =>
            Proves(worker[v].action, worker[v].mode, worker[v].reply)'
        <3> SUFFICES ASSUME NEW v \in Worker \ {w}, worker[v].pc = "answered", worker'[v] = worker[v]
                     PROVE  Proves(worker[v].action, worker[v].mode, worker[v].reply)'
            BY Zenon, <1>2
        <3>1. Proves(worker[v].action, worker[v].mode, worker[v].reply)
            BY Zenon DEF FlightInv, AnswersAreTrue
        <3> QED
            BY <1>1, <1>2, <1>3, <1>4, <1>5, <3>1 DEF Proves, NoneToCome, NoExecution
    <2> QED
        BY ZenonT(30), <1>4, <1>11, <2>1 DEF FlightInv, AnswersAreTrue
<1> QED
    BY Zenon, <1>4, <1>8, <1>10, <1>12 DEF FlightInv, AttemptsLeft

\* Losing memory or requests, or learning nothing, cannot break the flight.
LEMMA ForgetFlight ==
    ASSUME FlightInv, request' \subseteq request,
           \A v \in Worker :
             \/ worker'[v].pc = "idle"
             \/ worker'[v] = worker[v]
             \/ /\ worker[v].pc = "waiting" /\ worker'[v].pc = "answered"
                /\ worker'[v].reply = "unknown"
                /\ worker'[v].action = worker[v].action /\ worker'[v].claim = worker[v].claim
                /\ worker'[v].mode = worker[v].mode,
           UNCHANGED <<call, claim, attempts, errorCode, sent, served>>
    PROVE  FlightInv'
<1>1. \A v \in Worker : worker'[v].pc # "idle" =>
        /\ worker[v].pc # "idle" /\ worker'[v].action = worker[v].action
        /\ worker'[v].claim = worker[v].claim /\ worker'[v].mode = worker[v].mode
    BY Zenon
<1>2. ClaimsIssued'
    <2>1. \A v \in Worker : worker'[v].pc # "idle" => Issued(worker[v])'
        BY <1>1 DEF FlightInv, ClaimsIssued, Issued
    <2>2. \A r \in request' : Issued(r)'
        BY Zenon DEF FlightInv, ClaimsIssued, Issued
    <2> QED
        BY SMTT(30), <1>1, <2>1, <2>2 DEF FlightInv, ClaimsIssued
<1>3. ExecutionIsOnePlace'
    BY Zenon DEF FlightInv, ExecutionIsOnePlace, NoExecution
<1>4. \A c : NoneToCome(c) => NoneToCome(c)'
    BY Zenon DEF NoneToCome, NoExecution
<1>5. AnswersAreTrue'
    <2>1. \A v \in Worker : worker'[v].pc = "answered" =>
            Proves(worker[v].action, worker[v].mode, worker[v].reply)'
        <3> SUFFICES ASSUME NEW v \in Worker, worker'[v].pc = "answered"
                     PROVE  Proves(worker[v].action, worker[v].mode, worker[v].reply)'
            BY Zenon
        <3>1. CASE worker'[v].reply = "unknown"
            BY Zenon, <3>1 DEF Proves
        <3>2. CASE worker'[v] = worker[v]
            <4>1. Proves(worker[v].action, worker[v].mode, worker[v].reply)
                BY Zenon, <3>2 DEF FlightInv, AnswersAreTrue
            <4> QED
                BY <3>2, <4>1 DEF Proves, NoneToCome, NoExecution
        <3> QED
            BY Zenon, <3>1, <3>2
    <2> QED
        BY Zenon, <1>4, <2>1 DEF FlightInv, AnswersAreTrue
<1> QED
    BY Zenon, <1>2, <1>3, <1>5 DEF FlightInv, AttemptsLeft

\* A timeout, a crash and a stale settlement only forget a claim or a lookup.
LEMMA QuietFlight ==
    ASSUME TypeOK, FlightInv, NEW w \in Worker,
           OutcomeUnknown(w) \/ WorkerFails(w) \/ SettleStale(w)
    PROVE  FlightInv'
<1>1. worker \in [Worker -> WorkerMemory]
    BY Zenon DEF TypeOK
<1>2. request' \subseteq request
    BY Zenon DEF OutcomeUnknown, WorkerFails, SettleStale, StopWaiting, outsideVars
<1>3. UNCHANGED <<call, claim, attempts, errorCode, sent, served>>
    BY Zenon DEF OutcomeUnknown, WorkerFails, SettleStale, StopWaiting, callVars, outsideVars
<1>4. CASE OutcomeUnknown(w)
    <2>1. /\ worker[w].pc = "waiting" /\ worker'[w].pc = "answered"
          /\ worker'[w].reply = "unknown"
          /\ worker'[w].action = worker[w].action /\ worker'[w].claim = worker[w].claim
          /\ worker'[w].mode = worker[w].mode
          /\ \A v \in Worker \ {w} : worker'[v] = worker[v]
        BY Zenon, <1>1, <1>4 DEF OutcomeUnknown, WorkerMemory
    <2> QED
        BY Zenon, <1>2, <1>3, <2>1, ForgetFlight
<1>5. CASE WorkerFails(w) \/ SettleStale(w)
    <2>1. worker'[w].pc = "idle" /\ \A v \in Worker \ {w} : worker'[v] = worker[v]
        BY <1>1, <1>5 DEF WorkerFails, SettleStale, IdleWorker
    <2> QED
        BY Zenon, <1>2, <1>3, <2>1, ForgetFlight
<1> QED
    BY Zenon, <1>4, <1>5

\* settle by the claim's holder records what its answer proves.
LEMMA SettleFlight ==
    ASSUME TypeOK, FlightInv, NEW w \in Worker, Settle(w)
    PROVE  FlightInv'
<1> DEFINE a == worker[w].action
           s == IF worker[w].reply = "completed" THEN "completed"
                ELSE IF worker[w].reply = "unknown" /\ ~Exhausted(a, worker[w].mode)
                     THEN "reconciliation_required" ELSE "failed"
<1>1. /\ worker[w].pc = "answered" /\ HoldsClaim(w)
      /\ Issued(worker[w]) /\ a \in Call /\ worker[w] \in WorkerMemory
    BY Zenon DEF TypeOK, FlightInv, ClaimsIssued, Issued, Settle, HoldsClaim
<1>2. worker'[w].pc = "idle" /\ \A v \in Worker \ {w} : worker'[v] = worker[v]
    BY Zenon DEF TypeOK, Settle, IdleWorker
<1>3. UNCHANGED <<claim, request, sent, served>>
    BY Zenon DEF Settle, outsideVars
<1>4. call[a] = ClaimState(worker[w].mode) /\ worker[w].mode \in Modes
    BY Zenon, <1>1 DEF HoldsClaim, WorkerMemory
<1>5. worker[w].reply \in Replies
    BY Zenon, <1>1 DEF WorkerMemory
<1>6. call' = [call EXCEPT ![a] = s] /\ attempts' = attempts
    <2>1. CASE worker[w].reply = "completed"
        BY Zenon, <2>1 DEF Settle, SettleCompleted, End
    <2>2. CASE worker[w].reply \in {"rejected", "absent", "denied"}
        BY Zenon, <2>2 DEF Settle, SettleFailed, End
    <2>3. CASE worker[w].reply = "unknown"
        BY Zenon, <2>3 DEF Settle, SettleUnresolved, RequireReconciliation, End
    <2> QED
        BY Zenon, <1>5, <2>1, <2>2, <2>3 DEF Replies
<1>7. errorCode' = [errorCode EXCEPT ![a] =
            IF worker[w].reply = "completed" THEN "none" ELSE worker[w].reply]
    BY Zenon DEF Settle
<1>8. Proves(a, worker[w].mode, worker[w].reply)
    BY Zenon, <1>1 DEF FlightInv, AnswersAreTrue
<1>9. worker[w].mode = "reconcile" => attempts[a] > 0
    BY Zenon, <1>1 DEF Issued
<1>10. s \in {"completed", "failed", "reconciliation_required"}
    BY Zenon
<1>11. /\ s = "completed" => served[a]
       /\ s = "failed" /\ errorCode'[a] # "unknown" =>
            \/ errorCode'[a] \in {"absent", "denied"} /\ attempts[a] > 0
            \/ ~served[a] /\ NoneToCome(a)
    BY SMTT(30), <1>1, <1>4, <1>5, <1>7, <1>8, <1>9 DEF Proves, Modes, Replies, TypeOK
<1>12. s = "reconciliation_required" => attempts[a] < MaxReconciliation
    <2>1. attempts[a] \in Nat /\ MaxReconciliation \in Nat \ {0}
        BY SMTT(30), <1>1, ModelAssumption DEF TypeOK
    <2> QED
        BY <1>1, <1>4, <2>1 DEF FlightInv, AttemptsLeft, Exhausted, ClaimState, Modes
<1>13. claim[a] # 0
    BY Zenon, <1>1, <1>4 DEF FlightInv, ClaimsIssued, ClaimState, Modes
<1> HIDE DEF a, s
<1>14. \A c \in Call : call'[c] = IF c = a THEN s ELSE call[c]
    BY Zenon, <1>6 DEF TypeOK
<1>15. \A c \in Call \ {a} : errorCode'[c] = errorCode[c]
    BY Zenon, <1>7 DEF TypeOK
<1>16. ClaimsIssued'
    <2>1. \A c \in Call : claim'[c] = 0 <=> call'[c] \in {"none", "queued", "timed_out"}
        BY SMTT(30), <1>3, <1>10, <1>13, <1>14 DEF FlightInv, ClaimsIssued
    <2>2. \A v \in Worker : worker'[v].pc # "idle" => Issued(worker[v])'
        BY <1>2, <1>3, <1>6 DEF FlightInv, ClaimsIssued, Issued
    <2>3. \A r \in request' : Issued(r)'
        BY Zenon, <1>3, <1>6 DEF FlightInv, ClaimsIssued, Issued
    <2> QED
        BY <1>2, <2>1, <2>2, <2>3 DEF FlightInv, ClaimsIssued
<1>17. AttemptsLeft'
    BY SMTT(30), <1>6, <1>10, <1>12, <1>14 DEF FlightInv, AttemptsLeft
<1>18. ExecutionIsOnePlace'
    BY SMTT(30), <1>2, <1>3 DEF FlightInv, ExecutionIsOnePlace, NoExecution
<1>19. \A c : NoneToCome(c) => NoneToCome(c)'
    BY Zenon, <1>2, <1>3 DEF NoneToCome, NoExecution
<1>20. AnswersAreTrue'
    <2>1. \A v \in Worker : worker'[v].pc = "answered" =>
            Proves(worker[v].action, worker[v].mode, worker[v].reply)'
        <3> SUFFICES ASSUME NEW v \in Worker \ {w}, worker[v].pc = "answered", worker'[v] = worker[v]
                     PROVE  Proves(worker[v].action, worker[v].mode, worker[v].reply)'
            BY Zenon, <1>2
        <3>1. Proves(worker[v].action, worker[v].mode, worker[v].reply)
            BY Zenon DEF FlightInv, AnswersAreTrue
        <3> QED
            BY Zenon, <1>2, <1>3, <3>1 DEF Proves, NoneToCome, NoExecution
    <2>2. \A c \in Call :
            /\ call'[c] = "completed" => served'[c]
            /\ call'[c] = "failed" /\ errorCode'[c] # "unknown" =>
                \/ errorCode'[c] \in {"absent", "denied"} /\ attempts'[c] > 0
                \/ ~served'[c] /\ NoneToCome(c)'
        BY <1>3, <1>6, <1>10, <1>11, <1>14, <1>15, <1>19 DEF FlightInv, AnswersAreTrue
    <2> QED
        BY Zenon, <2>1, <2>2 DEF AnswersAreTrue
<1> QED
    BY Zenon, <1>16, <1>17, <1>18, <1>20 DEF FlightInv

\* At most one execution request of a call is under way.
LEMMA OneExecutionRequest ==
    ASSUME TypeOK, FlightInv, NEW q \in request, NEW r \in request,
           q.mode = "execute", r.mode = "execute", q.action = r.action
    PROVE  q = r
<1>1. q.claim = 1 /\ r.claim = 1
    BY Zenon DEF FlightInv, ClaimsIssued, Issued
<1>2. q \in Requests /\ r \in Requests
    BY Zenon DEF TypeOK
<1>3. q.stage = "received" <=> r.stage = "received"
    BY Zenon DEF FlightInv, ExecutionIsOnePlace
<1> QED
    BY <1>1, <1>2, <1>3 DEF Requests

\* authorize_gateway_model_call and the send that follows it.
LEMMA AuthorizeFlight ==
    ASSUME TypeOK, FlightInv, NEW r \in request, GatewayAuthorizes(r)
    PROVE  FlightInv'
<1> DEFINE q == [r EXCEPT !.stage = "egress"]
<1>1. r \in Requests /\ sent \in [Call -> Nat]
    BY Zenon DEF TypeOK
<1>2. /\ q.action = r.action /\ q.claim = r.claim /\ q.mode = r.mode /\ q.stage = "egress"
      /\ r.stage = "received" /\ r.action \in Call
    BY Zenon, <1>1 DEF Requests, GatewayAuthorizes, FlightInv, ClaimsIssued, Issued
<1>3. request' = (request \ {r}) \cup {q}
    BY Zenon DEF GatewayAuthorizes
<1> HIDE DEF q
<1>4. UNCHANGED <<call, claim, attempts, errorCode, worker, served>>
    BY Zenon DEF GatewayAuthorizes, callVars
<1>5. ClaimsIssued'
    <2>1. \A t \in request' : Issued(t)'
        BY <1>2, <1>3, <1>4 DEF FlightInv, ClaimsIssued, Issued
    <2>2. \A v \in Worker : worker'[v].pc # "idle" => Issued(worker[v])'
        BY Zenon, <1>4 DEF FlightInv, ClaimsIssued, Issued
    <2> QED
        BY Zenon, <1>4, <2>1, <2>2 DEF FlightInv, ClaimsIssued
<1>6. AttemptsLeft'
    BY Zenon, <1>4 DEF FlightInv, AttemptsLeft
<1>7. \A c : NoExecution(c)' <=> NoExecution(c)
    BY Zenon, <1>2, <1>3 DEF NoExecution
<1>8. \A c : NoneToCome(c)' <=> NoneToCome(c)
    BY Zenon, <1>4, <1>7 DEF NoneToCome
<1>9. AnswersAreTrue'
    <2>1. \A v \in Worker : worker'[v].pc = "answered" =>
            Proves(worker[v].action, worker[v].mode, worker[v].reply)'
        <3> SUFFICES ASSUME NEW v \in Worker, worker[v].pc = "answered"
                     PROVE  Proves(worker[v].action, worker[v].mode, worker[v].reply)'
            BY Zenon, <1>4
        <3>1. Proves(worker[v].action, worker[v].mode, worker[v].reply)
            BY Zenon DEF FlightInv, AnswersAreTrue
        <3> QED
            BY Zenon, <1>2, <1>3, <1>4, <3>1 DEF Proves, NoneToCome, NoExecution
    <2> QED
        BY Zenon, <1>4, <1>8, <2>1 DEF FlightInv, AnswersAreTrue
<1>10. ExecutionIsOnePlace'
    <2>1. CASE r.mode = "execute"
        <3>1. /\ sent[r.action] = 0
              /\ \A c \in Call : sent'[c] = IF c = r.action THEN 1 ELSE sent[c]
            BY <1>1, <1>2, <2>1 DEF GatewayAuthorizes, FlightInv, ExecutionIsOnePlace
        <3>2. \A t \in request \ {r} : ~(t.mode = "execute" /\ t.action = r.action)
            BY Zenon, <2>1, OneExecutionRequest
        <3>3. claim[r.action] \in Nat /\ claim[r.action] > 0
            BY <1>2 DEF TypeOK, FlightInv, ClaimsIssued, Issued
        <3>4. \A v \in Worker :
                worker[v].pc = "claimed" /\ worker[v].mode = "execute" => worker[v].action # r.action
            BY Zenon, <2>1 DEF FlightInv, ExecutionIsOnePlace, NoExecution
        <3>5. \A v \in Worker : worker[v].pc # "idle" => worker[v].action \in Call
            BY Zenon DEF FlightInv, ClaimsIssued, Issued
        <3>6. \A t \in request : t.action \in Call
            BY Zenon DEF FlightInv, ClaimsIssued, Issued
        <3>7. \A c \in Call : /\ sent'[c] <= 1
                              /\ sent'[c] > 0 => claim'[c] > 0
                              /\ served'[c] => sent'[c] > 0
            BY <1>4, <3>1, <3>3 DEF FlightInv, ExecutionIsOnePlace
        <3>8. \A t \in request' :
                t.mode = "execute" => (t.stage = "received" <=> sent'[t.action] = 0)
            BY SMTT(30), <1>2, <1>3, <3>1, <3>2, <3>6 DEF FlightInv, ExecutionIsOnePlace
        <3>9. \A v \in Worker :
                (worker'[v].pc = "claimed" /\ worker'[v].mode = "execute") =>
                    sent'[worker'[v].action] = 0 /\ NoExecution(worker[v].action)'
            BY SMTT(30), <1>2, <1>3, <1>4, <3>1, <3>4, <3>5 DEF FlightInv, ExecutionIsOnePlace, NoExecution
        <3> QED
            BY Zenon, <3>7, <3>8, <3>9 DEF ExecutionIsOnePlace
    <2>2. CASE r.mode # "execute"
        <3>1. sent' = sent
            BY Zenon, <2>2 DEF GatewayAuthorizes
        <3> QED
            BY Zenon, <1>2, <1>3, <1>4, <2>2, <3>1 DEF FlightInv, ExecutionIsOnePlace, NoExecution
    <2> QED
        BY Zenon, <2>1, <2>2
<1> QED
    BY Zenon, <1>5, <1>6, <1>9, <1>10 DEF FlightInv

\* An answer ends its request and proves what it says about the provider.
LEMMA AnswerFlight ==
    ASSUME TypeOK, FlightInv, NEW r \in request, NEW x \in Replies, Answer(r, x),
           \A c \in Call : c # r.action \/ r.mode # "execute" => served'[c] = served[c],
           \A c \in Call : (served[c] => served'[c]) /\ (served'[c] => sent[c] > 0),
           x = "completed" => served'[r.action],
           x = "rejected" => r.mode = "execute",
           x = "absent" => r.mode = "reconcile",
           x \in {"rejected", "denied"} /\ r.mode = "execute" => ~served'[r.action]
    PROVE  FlightInv'
<1>1. worker \in [Worker -> WorkerMemory] /\ Issued(r) /\ r.action \in Call
    BY Zenon DEF TypeOK, FlightInv, ClaimsIssued, Issued
<1>2. request' = request \ {r} /\ UNCHANGED <<call, claim, attempts, errorCode, sent>>
    BY Zenon DEF Answer, callVars
<1>3. \A v \in Worker :
        \/ worker'[v] = worker[v]
        \/ /\ worker[v].pc = "waiting" /\ worker'[v].pc = "answered" /\ worker'[v].reply = x
           /\ worker[v].action = r.action /\ worker[v].claim = r.claim
           /\ worker'[v].action = worker[v].action /\ worker'[v].claim = worker[v].claim
           /\ worker'[v].mode = worker[v].mode
    <2>1. CASE UNCHANGED worker
        BY Zenon, <2>1
    <2>2. ASSUME NEW w \in Worker, worker[w].pc = "waiting",
                 worker[w].action = r.action, worker[w].claim = r.claim,
                 worker' = [worker EXCEPT ![w].pc = "answered", ![w].reply = x]
          PROVE  \A v \in Worker :
                    \/ worker'[v] = worker[v]
                    \/ /\ worker[v].pc = "waiting" /\ worker'[v].pc = "answered"
                       /\ worker'[v].reply = x
                       /\ worker[v].action = r.action /\ worker[v].claim = r.claim
                       /\ worker'[v].action = worker[v].action
                       /\ worker'[v].claim = worker[v].claim
                       /\ worker'[v].mode = worker[v].mode
        BY <1>1, <2>2 DEF WorkerMemory
    <2> QED
        BY Zenon, <2>1, <2>2 DEF Answer
<1>4. \A v \in Worker : worker'[v].pc # "idle" =>
        /\ worker[v].pc # "idle" /\ worker'[v].action = worker[v].action
        /\ worker'[v].claim = worker[v].claim /\ worker'[v].mode = worker[v].mode
    BY Zenon, <1>3
<1>5. ClaimsIssued'
    <2>1. \A v \in Worker : worker'[v].pc # "idle" => Issued(worker[v])'
        BY SMTT(30), <1>2, <1>4 DEF FlightInv, ClaimsIssued, Issued
    <2>2. \A t \in request' : Issued(t)'
        BY Zenon, <1>2 DEF FlightInv, ClaimsIssued, Issued
    <2> QED
        BY SMTT(30), <1>2, <1>4, <2>1, <2>2 DEF FlightInv, ClaimsIssued
<1>6. AttemptsLeft'
    BY Zenon, <1>2 DEF FlightInv, AttemptsLeft
<1>7. ExecutionIsOnePlace'
    BY SMTT(30), <1>2, <1>3 DEF FlightInv, ExecutionIsOnePlace, NoExecution
<1>8. \A c \in Call : NoneToCome(c) => NoneToCome(c)' /\ served'[c] = served[c]
    BY <1>2, <1>3 DEF NoneToCome, NoExecution
<1>9. r.mode = "execute" => NoneToCome(r.action)'
    <2>1. r.mode = "execute" => \A t \in request' : ~(t.action = r.action /\ t.mode = "execute")
        BY Zenon, <1>2, OneExecutionRequest
    <2>2. r.mode = "execute" => \A v \in Worker :
            ~(worker'[v].pc = "claimed" /\ worker'[v].action = r.action /\ worker'[v].mode = "execute")
        BY <1>3 DEF FlightInv, ExecutionIsOnePlace, NoExecution
    <2> QED
        BY Zenon, <2>1, <2>2 DEF NoneToCome, NoExecution
<1>10. \A v \in Worker : worker'[v].pc = "answered" =>
        Proves(worker[v].action, worker[v].mode, worker[v].reply)'
    <2> SUFFICES ASSUME NEW v \in Worker, worker'[v].pc = "answered"
                 PROVE  Proves(worker[v].action, worker[v].mode, worker[v].reply)'
        BY ZenonT(30)
    <2>1. CASE worker'[v] = worker[v]
        <3>0. worker[v].pc = "answered" /\ worker[v].pc # "idle"
            BY Zenon, <2>1
        <3>1. worker[v].action \in Call /\ Proves(worker[v].action, worker[v].mode, worker[v].reply)
            BY ZenonT(30), <3>0 DEF FlightInv, AnswersAreTrue, ClaimsIssued, Issued
        <3>2. ASSUME NEW c \in Call, c = worker[v].action
              PROVE  Proves(c, worker[v].mode, worker[v].reply)'
            BY <1>8, <2>1, <3>1, <3>2 DEF Proves
        <3>3. PICK c \in Call : c = worker[v].action /\ Proves(c, worker[v].mode, worker[v].reply)'
            BY ZenonT(30), <3>1, <3>2
        <3> QED
            BY SMTT(30), <2>1, <3>3 DEF Proves, NoneToCome, NoExecution
    <2>2. CASE worker'[v] # worker[v]
        <3>1. /\ worker'[v].reply = x /\ worker'[v].action = r.action
              /\ worker[v].pc # "idle" /\ worker[v].claim = r.claim
              /\ worker'[v].mode = worker[v].mode /\ worker[v].action = r.action
            BY ZenonT(30), <1>3, <2>2
        <3>2. worker'[v].mode = r.mode
            <4>1. r.mode \in Modes /\ worker[v].mode \in Modes
                BY Zenon, <1>1 DEF TypeOK, Requests, WorkerMemory
            <4> QED
                BY <1>1, <3>1, <4>1 DEF FlightInv, ClaimsIssued, Issued, Modes
        <3> QED
            BY SMTT(30), <1>9, <3>1, <3>2 DEF Proves, NoneToCome, NoExecution
    <2> QED
        BY Zenon, <2>1, <2>2
<1>11. AnswersAreTrue'
    <2>1. \A c \in Call :
            /\ call'[c] = "completed" => served'[c]
            /\ call'[c] = "failed" /\ errorCode'[c] # "unknown" =>
                \/ errorCode'[c] \in {"absent", "denied"} /\ attempts'[c] > 0
                \/ ~served'[c] /\ NoneToCome(c)'
        BY ZenonT(30), <1>2, <1>8 DEF FlightInv, AnswersAreTrue
    <2> QED
        BY ZenonT(30), <1>10, <2>1 DEF AnswersAreTrue
<1> QED
    BY Zenon, <1>5, <1>6, <1>7, <1>11 DEF FlightInv

\* Whatever the gateway and the provider do.
LEMMA NetworkFlight ==
    ASSUME TypeOK, FlightInv, Network
    PROVE  FlightInv'
<1>1. PICK r \in request : \/ GatewayAuthorizes(r) \/ GatewayDenies(r) \/ ProviderServes(r)
                           \/ ProviderRejects(r) \/ ProviderLooksUp(r)
    BY Zenon DEF Network
<1>2. r.action \in Call /\ r.mode \in Modes /\ r \in Requests
    BY Zenon DEF TypeOK, Requests
<1>3. \A c \in Call : served[c] => sent[c] > 0
    BY Zenon DEF FlightInv, ExecutionIsOnePlace
<1>4. r.mode = "execute" => (r.stage = "received" <=> sent[r.action] = 0)
    BY Zenon DEF FlightInv, ExecutionIsOnePlace
<1>5. sent[r.action] \in Nat /\ served \in [Call -> BOOLEAN]
    BY Zenon, <1>2 DEF TypeOK
<1>6. CASE GatewayDenies(r)
    <2>1. r.mode = "execute" => ~served[r.action]
        <3>1. r.mode = "execute" => sent[r.action] = 0
            BY Zenon, <1>4, <1>6 DEF GatewayDenies
        <3>2. served[r.action] => sent[r.action] > 0
            BY Zenon, <1>2, <1>3
        <3>3. sent[r.action] = 0 => ~(sent[r.action] > 0)
            BY <1>5
        <3> QED
            BY Zenon, <3>1, <3>2, <3>3
    <2>2. Answer(r, "denied") /\ served' = served /\ "denied" \in Replies
        BY Zenon, <1>6 DEF GatewayDenies, Replies
    <2> QED
        BY Zenon, <1>3, <2>1, <2>2, AnswerFlight
<1>7. CASE ProviderServes(r)
    <2>1. Answer(r, "completed") /\ "completed" \in Replies /\ r.mode = "execute"
        BY Zenon, <1>7 DEF ProviderServes, Replies
    <2>2. \A c \in Call : served'[c] = (c = r.action \/ served[c])
        BY Zenon, <1>2, <1>5, <1>7 DEF ProviderServes
    <2>3. sent[r.action] > 0
        <3>1. sent[r.action] # 0
            BY Zenon, <1>4, <1>7 DEF ProviderServes
        <3> QED
            BY <1>5, <3>1
    <2>4. \A c \in Call : (served[c] => served'[c]) /\ (served'[c] => sent[c] > 0)
        BY Zenon, <1>3, <2>2, <2>3
    <2>5. \A c \in Call : c # r.action \/ r.mode # "execute" => served'[c] = served[c]
        BY Zenon, <1>5, <2>1, <2>2
    <2>6. served'[r.action]
        BY Zenon, <1>2, <2>2
    <2> QED
        BY Zenon, <2>1, <2>4, <2>5, <2>6, AnswerFlight
<1>8. CASE ProviderRejects(r)
    <2>1. Answer(r, "rejected") /\ served' = served /\ "rejected" \in Replies /\ r.mode = "execute"
            /\ ~served[r.action]
        BY Zenon, <1>8 DEF ProviderRejects, Replies
    <2> QED
        BY Zenon, <1>3, <2>1, AnswerFlight
<1>9. CASE ProviderLooksUp(r)
    <2>1. served' = served /\ r.mode = "reconcile"
        BY Zenon, <1>9 DEF ProviderLooksUp
    <2>2. CASE served[r.action]
        <3>1. Answer(r, "completed") /\ "completed" \in Replies
            BY Zenon, <1>9, <2>2 DEF ProviderLooksUp, Replies
        <3> QED
            BY Zenon, <1>3, <2>1, <2>2, <3>1, AnswerFlight
    <2>3. CASE ~served[r.action]
        <3>1. Answer(r, "absent") /\ "absent" \in Replies
            BY Zenon, <1>9, <2>3 DEF ProviderLooksUp, Replies
        <3> QED
            BY Zenon, <1>3, <2>1, <2>3, <3>1, AnswerFlight
    <2> QED
        BY Zenon, <2>2, <2>3
<1> QED
    BY Zenon, <1>1, <1>6, <1>7, <1>8, <1>9, AuthorizeFlight

\* Every step keeps the flight in order.
LEMMA StepFlight ==
    ASSUME TypeOK, FlightInv, CallsAgree, [Next]_vars
    PROVE  FlightInv'
<1>1. CASE UNCHANGED vars
    BY Zenon, <1>1, FlightKept DEF vars, callVars, outsideVars
<1>2. ASSUME NEW a \in Call, Engine(a) PROVE FlightInv'
    <2>1. CASE \/ \E k \in EventKinds : ClaimParent(a, k)
               \/ RefuseModel(a) \/ ResumeParent(a) \/ CancelWorkflow(a)
        BY Zenon, <2>1, FlightKept DEF ClaimParent, RefuseModel, ResumeParent, CancelWorkflow,
                                      callVars, outsideVars
    <2>2. CASE RequestModel(a) \/ LeaveCallQueued(a)
        <3>1. call[a] = "none"
            BY Zenon, <2>2 DEF CallsAgree, CallOK, RequestModel, LeaveCallQueued, Advancing
        <3>2. call' = [call EXCEPT ![a] = "queued"] /\ "queued" \in Unclaimed
            BY Zenon, <2>2 DEF RequestModel, LeaveCallQueued, Unclaimed
        <3>3. UNCHANGED <<claim, attempts, worker, request, sent, served, errorCode>>
            BY Zenon, <2>2 DEF RequestModel, LeaveCallQueued, outsideVars
        <3> QED
            BY Zenon, <3>1, <3>2, <3>3, UnclaimedFlight
    <2>3. CASE TimeOutCall(a)
        <3>1. call' = [call EXCEPT ![a] = "timed_out"] /\ call[a] = "queued" /\ "timed_out" \in Unclaimed
            BY Zenon, <2>3 DEF TimeOutCall, Unclaimed
        <3>2. UNCHANGED <<claim, attempts, worker, request, sent, served>>
            BY Zenon, <2>3 DEF TimeOutCall, outsideVars
        <3>3. \A c \in Call \ {a} : errorCode'[c] = errorCode[c]
            BY Zenon, <2>3 DEF TypeOK, TimeOutCall
        <3> QED
            BY Zenon, <3>1, <3>2, <3>3, UnclaimedFlight
    <2> QED
        BY Zenon, <1>2, <2>1, <2>2, <2>3, KeepWaitingFlight DEF Engine, Advance
<1>3. ASSUME NEW a \in Call, Clock(a) PROVE FlightInv'
    BY Zenon, <1>3, FlightKept DEF Clock, LeaseExpires, ReconciliationDue, Lapse, TimeoutDue,
                                   ParentLeaseExpires, callVars, outsideVars
<1>4. ASSUME NEW a \in Action \ Call, OtherAction(a) PROVE FlightInv'
    BY Zenon, <1>4, FlightKept DEF OtherAction, outsideVars
<1>5. ASSUME NEW w \in Worker, WorkerStep(w) PROVE FlightInv'
    BY Zenon, <1>5, ClaimFlight, DispatchFlight, QuietFlight, SettleFlight DEF WorkerStep
<1> QED
    BY Zenon, <1>1, <1>2, <1>3, <1>4, <1>5, NetworkFlight DEF Next

-----------------------------------------------------------------------------
(* Calls, parents and events.                                              *)

\* A call whose row, events and parent stay as they are.
LEMMA CallKept ==
    ASSUME NEW c \in Call, CallOK(c), call'[c] = call[c], ready'[c] = ready[c],
           parent'[c] = parent[c], event'[c] = event[c]
    PROVE  CallOK(c)'
BY Zenon DEF CallOK

\* A step that leaves all of them alone.
LEMMA CallsKept ==
    ASSUME CallsAgree, UNCHANGED <<call, ready, parent, event>>
    PROVE  CallsAgree'
BY Zenon, CallKept DEF CallsAgree

\* A step of one call that touches its own row, events and parent only.
LEMMA OneCallMoves ==
    ASSUME CallsAgree, NEW a \in Call, CallOK(a)',
           \A c \in Call \ {a} : /\ call'[c] = call[c] /\ ready'[c] = ready[c]
                                 /\ parent'[c] = parent[c] /\ event'[c] = event[c]
    PROVE  CallsAgree'
BY Zenon, CallKept DEF CallsAgree

\* claim_ready of the engine, advance and cancel_workflow_run.
LEMMA EngineCalls ==
    ASSUME TypeOK, CallsAgree, NEW a \in Call, Engine(a)
    PROVE  CallsAgree'
<1>1. /\ call \in [Call -> CallStates] /\ parent \in [Call -> ParentStates]
      /\ ready \in [Call -> {"none", "ready", "dispatched", "processed"}]
      /\ event \in [Call -> [EventKinds -> EventStates]]
    BY Zenon DEF TypeOK
<1>2. CallOK(a)
    BY Zenon DEF CallsAgree
<1>3. ASSUME NEW k \in EventKinds, ClaimParent(a, k) PROVE CallsAgree'
    <2>1. UNCHANGED <<call, ready>>
        BY Zenon, <1>3 DEF ClaimParent, callVars
    <2>2. \A c \in Call \ {a} : parent'[c] = parent[c] /\ event'[c] = event[c]
        BY Zenon, <1>1, <1>3 DEF ClaimParent
    <2>3. /\ parent'[a] = "running" /\ parent[a] \notin Ended
          /\ \A j \in EventKinds : event'[a][j] = IF j = k THEN "dispatched" ELSE event[a][j]
          /\ event[a][k] \in {"available", "dispatched"}
        BY SMTT(30), <1>1, <1>3 DEF ClaimParent, Claimable, Ended
    <2>4. CallOK(a)'
        BY Zenon, <1>1, <1>2, <2>1, <2>3 DEF CallOK, EventKinds, Ended, Uncertain, TerminalCalls
    <2> QED
        BY Zenon, <2>1, <2>2, <2>4, OneCallMoves
<1>4. CASE RequestModel(a)
    <2>1. \A c \in Call \ {a} : /\ call'[c] = call[c] /\ ready'[c] = ready[c]
                                /\ parent'[c] = parent[c] /\ event'[c] = event[c]
        BY SMTT(30), <1>1, <1>4 DEF RequestModel
    <2>2. /\ call'[a] = "queued" /\ ready'[a] = "ready" /\ parent'[a] = "waiting"
          /\ event'[a]["ready"] = "processed" /\ event'[a]["timeout"] = "scheduled"
          /\ event'[a]["resume"] = event[a]["resume"] /\ event[a]["ready"] = "dispatched"
        BY Zenon, <1>1, <1>4 DEF RequestModel, Advancing, EventKinds
    <2>3. CallOK(a)'
        BY Zenon, <1>2, <2>2 DEF CallOK, Ended, Uncertain, TerminalCalls
    <2> QED
        BY Zenon, <2>1, <2>3, OneCallMoves
<1>5. ASSUME NEW k \in EventKinds, NEW s \in ParentStates, Advancing(a, k), Leave(a, k, s)
      PROVE  /\ parent'[a] = s /\ parent[a] = "running" /\ event[a][k] = "dispatched"
             /\ \A j \in EventKinds : event'[a][j] = IF j = k THEN "processed" ELSE event[a][j]
             /\ \A c \in Call \ {a} : parent'[c] = parent[c] /\ event'[c] = event[c]
    BY Zenon, <1>1, <1>5 DEF Leave, Advancing
<1>6. CASE RefuseModel(a)
    <2>1. /\ Advancing(a, "ready") /\ Leave(a, "ready", "failed")
          /\ "ready" \in EventKinds /\ "failed" \in ParentStates /\ UNCHANGED <<call, ready>>
        BY Zenon, <1>6 DEF RefuseModel, EventKinds, ParentStates, Ended, callVars
    <2>2. CallOK(a)'
        BY Zenon, <1>2, <1>5, <2>1 DEF CallOK, EventKinds, Ended, Uncertain, TerminalCalls
    <2> QED
        BY Zenon, <1>5, <2>1, <2>2, OneCallMoves
<1>7. CASE LeaveCallQueued(a)
    <2>1. /\ Advancing(a, "ready") /\ Leave(a, "ready", "failed")
          /\ "ready" \in EventKinds /\ "failed" \in ParentStates /\ UNCHANGED ready
        BY Zenon, <1>7 DEF LeaveCallQueued, EventKinds, ParentStates, Ended
    <2>2. call'[a] = "queued" /\ \A c \in Call \ {a} : call'[c] = call[c]
        BY Zenon, <1>1, <1>7 DEF LeaveCallQueued
    <2>3. event[a]["ready"] = "dispatched" /\ call[a] = "none"
        BY Zenon, <1>2, <2>1 DEF CallOK, Advancing
    <2>4. CallOK(a)'
        BY Zenon, <1>2, <1>5, <2>1, <2>2, <2>3 DEF CallOK, EventKinds, Ended, Uncertain, TerminalCalls
    <2> QED
        BY Zenon, <1>5, <2>1, <2>2, <2>4, OneCallMoves
<1>8. CASE TimeOutCall(a)
    <2>1. /\ Advancing(a, "timeout") /\ Leave(a, "timeout", "failed")
          /\ "timeout" \in EventKinds /\ "failed" \in ParentStates
        BY Zenon, <1>8 DEF TimeOutCall, EventKinds, ParentStates, Ended
    <2>2. /\ call'[a] = "timed_out" /\ call[a] = "queued" /\ ready'[a] = "processed"
          /\ \A c \in Call \ {a} : call'[c] = call[c] /\ ready'[c] = ready[c]
        BY Zenon, <1>1, <1>8 DEF TimeOutCall
    <2>3. CallOK(a)'
        BY Zenon, <1>2, <1>5, <2>1, <2>2 DEF CallOK, EventKinds, Ended, Uncertain, TerminalCalls
    <2> QED
        BY ZenonT(30), <1>5, <2>1, <2>2, <2>3, OneCallMoves
<1>9. CASE KeepWaiting(a)
    <2>1. /\ Advancing(a, "timeout") /\ Leave(a, "timeout", "waiting")
          /\ "timeout" \in EventKinds /\ "waiting" \in ParentStates /\ UNCHANGED ready
        BY Zenon, <1>9 DEF KeepWaiting, EventKinds, ParentStates, Ended
    <2>2. /\ call'[a] \in Uncertain \ {"executing"} /\ call[a] \in Uncertain
          /\ \A c \in Call \ {a} : call'[c] = call[c]
        BY Zenon, <1>1, <1>9 DEF KeepWaiting, Uncertain
    <2>3. CallOK(a)'
        BY Zenon, <1>2, <1>5, <2>1, <2>2 DEF CallOK, EventKinds, Ended, Uncertain, TerminalCalls
    <2> QED
        BY Zenon, <1>5, <2>1, <2>2, <2>3, OneCallMoves
<1>10. CASE ResumeParent(a)
    <2> DEFINE s == IF call[a] = "completed" THEN "passed" ELSE "failed"
    <2>1. /\ Advancing(a, "resume") /\ Leave(a, "resume", s) /\ call[a] \in TerminalCalls
          /\ "resume" \in EventKinds /\ s \in ParentStates /\ UNCHANGED <<call, ready>>
        BY Zenon, <1>10 DEF ResumeParent, EventKinds, ParentStates, Ended, callVars
    <2>2. CallOK(a)'
        BY Zenon, <1>2, <1>5, <2>1 DEF CallOK, EventKinds, Ended, Uncertain, TerminalCalls
    <2> QED
        BY Zenon, <1>5, <2>1, <2>2, OneCallMoves
<1>11. CASE CancelWorkflow(a)
    <2>1. UNCHANGED <<call, ready, event>> /\ call[a] = "none"
        BY Zenon, <1>11 DEF CancelWorkflow, callVars
    <2>2. parent'[a] = "cancelled" /\ \A c \in Call \ {a} : parent'[c] = parent[c]
        BY Zenon, <1>1, <1>11 DEF CancelWorkflow
    <2>3. CallOK(a)'
        BY Zenon, <1>2, <2>1, <2>2 DEF CallOK, Ended, Uncertain, TerminalCalls
    <2> QED
        BY Zenon, <2>1, <2>2, <2>3, OneCallMoves
<1> QED
    BY Zenon, <1>3, <1>4, <1>6, <1>7, <1>8, <1>9, <1>10, <1>11 DEF Engine, Advance

\* The worker's claims and its settlement.
LEMMA WorkerCalls ==
    ASSUME TypeOK, FlightInv, CallsAgree, NEW w \in Worker, WorkerStep(w)
    PROVE  CallsAgree'
<1>1. /\ call \in [Call -> CallStates] /\ event \in [Call -> [EventKinds -> EventStates]]
      /\ ready \in [Call -> {"none", "ready", "dispatched", "processed"}]
      /\ parent \in [Call -> ParentStates]
    BY Zenon DEF TypeOK
<1>2. ASSUME NEW a \in Call, ClaimReady(w, a) \/ ClaimReconciliation(w, a) PROVE CallsAgree'
    <2>1. UNCHANGED <<parent, event>> /\ CallOK(a)
        BY Zenon, <1>2 DEF ClaimReady, ClaimReconciliation, parentVars, CallsAgree
    <2>2. \A c \in Call \ {a} : call'[c] = call[c] /\ ready'[c] = ready[c]
        BY Zenon, <1>1, <1>2 DEF ClaimReady, ClaimReconciliation
    <2>3. \/ /\ call[a] = "queued" /\ ready[a] = "ready"
             /\ call'[a] = "executing" /\ ready'[a] = "dispatched"
          \/ /\ call[a] \in {"executing", "reconciliation_required"}
             /\ call'[a] = "reconciling" /\ ready'[a] = ready[a]
        BY Zenon, <1>1, <1>2 DEF ClaimReady, ClaimReconciliation
    <2>4. CallOK(a)'
        BY Zenon, <1>1, <2>1, <2>3 DEF CallOK, Ended, ParentStates, Uncertain, TerminalCalls
    <2> QED
        BY Zenon, <2>1, <2>2, <2>4, OneCallMoves
<1>3. CASE Dispatch(w) \/ OutcomeUnknown(w) \/ SettleStale(w) \/ WorkerFails(w)
    BY Zenon, <1>3, CallsKept DEF Dispatch, OutcomeUnknown, SettleStale, WorkerFails, StopWaiting,
                                  callVars, parentVars
<1>4. CASE Settle(w)
    <2>0. worker[w].action \in Call /\ call[worker[w].action] = ClaimState(worker[w].mode)
        BY Zenon, <1>4 DEF FlightInv, ClaimsIssued, Issued, Settle, HoldsClaim
    <2>1. PICK a \in Call : a = worker[w].action
        BY Zenon, <2>0
    <2>2. call[a] \in {"executing", "reconciling"}
        BY Zenon, <2>0, <2>1 DEF ClaimState
    <2>3. \/ \E s \in TerminalCalls : End(a, s)
          \/ RequireReconciliation(a)
        BY Zenon, <1>4, <2>1 DEF Settle, SettleCompleted, SettleFailed, SettleUnresolved, TerminalCalls
    <2>4. CallOK(a)
        BY ZenonT(30), <2>1 DEF CallsAgree
    <2>5. parent[a] \notin Ended
        BY Zenon, <1>1, <2>1, <2>2, <2>4 DEF CallOK, Ended, TerminalCalls
    <2>6. ASSUME NEW s \in TerminalCalls, End(a, s) PROVE CallsAgree'
        <3>1. /\ call'[a] = s /\ ready'[a] = "processed" /\ parent' = parent
              /\ \A c \in Call \ {a} : call'[c] = call[c] /\ ready'[c] = ready[c]
            BY Zenon, <1>1, <2>1, <2>6 DEF End
        <3>2. /\ event'[a]["timeout"] = "processed" /\ event'[a]["resume"] = "available"
              /\ event'[a]["ready"] = event[a]["ready"]
              /\ \A c \in Call \ {a} : event'[c] = event[c]
            BY Zenon, <1>1, <2>1, <2>6 DEF End, EventKinds
        <3>3. CallOK(a)'
            BY Zenon, <2>2, <2>4, <2>5, <3>1, <3>2 DEF CallOK, Ended, Uncertain, TerminalCalls
        <3> QED
            BY Zenon, <2>1, <3>1, <3>2, <3>3, OneCallMoves
    <2>7. CASE RequireReconciliation(a)
        <3>1. /\ call'[a] = "reconciliation_required" /\ UNCHANGED <<ready, parent, event>>
              /\ \A c \in Call \ {a} : call'[c] = call[c]
            BY Zenon, <1>1, <2>1, <2>7 DEF RequireReconciliation, parentVars
        <3>2. CallOK(a)'
            BY Zenon, <2>2, <2>4, <2>5, <3>1 DEF CallOK, Ended, Uncertain, TerminalCalls
        <3> QED
            BY Zenon, <2>1, <3>1, <3>2, OneCallMoves
    <2> QED
        BY Zenon, <2>3, <2>6, <2>7
<1> QED
    BY Zenon, <1>2, <1>3, <1>4 DEF WorkerStep

\* Every step keeps calls, parents and events in agreement.
LEMMA StepCalls ==
    ASSUME TypeOK, FlightInv, CallsAgree, [Next]_vars
    PROVE  CallsAgree'
<1>1. CASE UNCHANGED vars
    BY Zenon, <1>1, CallsKept DEF vars, callVars, parentVars
<1>2. ASSUME NEW a \in Call, Clock(a) PROVE CallsAgree'
    <2>1. CASE TimeoutDue(a)
        <3>1. UNCHANGED <<call, ready, parent>> /\ CallOK(a)
            BY Zenon, <2>1 DEF TimeoutDue, callVars, CallsAgree
        <3>2. /\ event[a]["timeout"] = "scheduled" /\ event'[a]["timeout"] = "available"
              /\ event'[a]["resume"] = event[a]["resume"] /\ event'[a]["ready"] = event[a]["ready"]
              /\ \A c \in Call \ {a} : event'[c] = event[c]
            BY <2>1 DEF TypeOK, TimeoutDue, EventKinds
        <3>3. CallOK(a)'
            BY Zenon, <3>1, <3>2 DEF CallOK, Ended, Uncertain, TerminalCalls
        <3> QED
            BY Zenon, <3>1, <3>2, <3>3, OneCallMoves
    <2>2. CASE ~TimeoutDue(a)
        BY Zenon, <1>2, <2>2, CallsKept DEF Clock, LeaseExpires, ReconciliationDue, Lapse,
                                            ParentLeaseExpires, callVars, parentVars
    <2> QED
        BY Zenon, <2>1, <2>2
<1>3. ASSUME NEW a \in Action \ Call, OtherAction(a) PROVE CallsAgree'
    BY Zenon, <1>3, CallsKept DEF OtherAction, parentVars
<1>4. CASE Network
    BY Zenon, <1>4, CallsKept DEF Network, GatewayAuthorizes, GatewayDenies, ProviderServes,
                                  ProviderRejects, ProviderLooksUp, Answer, callVars, parentVars
<1> QED
    BY Zenon, <1>1, <1>2, <1>3, <1>4, EngineCalls, WorkerCalls DEF Next

-----------------------------------------------------------------------------
(* Reservations and charges.                                               *)

CallCharged(a) ==
    /\ call[a] = "none" => Reservations(a, "none", NoCharge)
    /\ ready[a] = "ready" => call[a] = "queued"
    /\ call[a] = "queued" /\ ready[a] = "none" => Reservations(a, "none", NoCharge) /\ parent[a] = "failed"
    /\ call[a] \in Uncertain \/ ready[a] = "ready" => Reservations(a, "active", NoCharge)
    /\ call[a] = "completed" =>
        Reservations(a, "committed", [b \in Budget |-> Usage[a][ResourceOf[b]]])
    /\ call[a] = "failed" /\ errorCode[a] = "unknown" =>
        Reservations(a, "committed", [b \in Budget |-> EstimateOf(b)])
    /\ call[a] = "failed" /\ errorCode[a] # "unknown" => Reservations(a, "released", NoCharge)
    /\ call[a] = "timed_out" => Reservations(a, "released", NoCharge) /\ sent[a] = 0

ChargesInv == \A a \in Call : CallCharged(a)

\* The two invariants about reservations, call by call.
LEMMA ChargesByCall == ChargesInv <=> NothingHeldYet /\ ChargesFollowCall
BY Zenon DEF ChargesInv, CallCharged, NothingHeldYet, ChargesFollowCall

\* A call whose row, parent and reservations stay as they are.
LEMMA ChargeKept ==
    ASSUME NEW c \in Call, CallCharged(c), call'[c] = call[c], ready'[c] = ready[c],
           parent'[c] = parent[c] \/ parent[c] # "failed", errorCode'[c] = errorCode[c],
           reservation'[c] = reservation[c], charged'[c] = charged[c],
           sent'[c] = sent[c] \/ call[c] # "timed_out"
    PROVE  CallCharged(c)'
<1>1. \A s, charge : Reservations(c, s, charge) => Reservations(c, s, charge)'
    BY Zenon DEF Reservations
<1>2. UNCHANGED NoCharge /\ \A b : UNCHANGED EstimateOf(b)
    BY Zenon DEF NoCharge, EstimateOf
<1> QED
    BY Zenon, <1>1, <1>2 DEF CallCharged, NoCharge, EstimateOf

\* A step that leaves all of them alone.
LEMMA ChargesKept ==
    ASSUME ChargesInv, UNCHANGED <<call, ready, parent, errorCode, reservation, charged, sent>>
    PROVE  ChargesInv'
BY Zenon, ChargeKept DEF ChargesInv

\* A step of one call that touches its own row, parent and reservations only.
LEMMA OneChargeMoves ==
    ASSUME ChargesInv, NEW a \in Call, CallCharged(a)',
           \A c \in Call \ {a} : /\ call'[c] = call[c] /\ ready'[c] = ready[c]
                                 /\ parent'[c] = parent[c] /\ errorCode'[c] = errorCode[c]
                                 /\ reservation'[c] = reservation[c] /\ charged'[c] = charged[c]
                                 /\ sent'[c] = sent[c]
    PROVE  ChargesInv'
BY Zenon, ChargeKept DEF ChargesInv

\* settle_model_call_reservations settles every row the call holds.
LEMMA SettledCharges ==
    ASSUME TypeOK, NEW a \in Call, Reservations(a, "active", NoCharge),
           NEW s, NEW charge \in [Budget -> Nat], SettleReservations(a, s, charge)
    PROVE  /\ Reservations(a, s, charge)'
           /\ \A c \in Action \ {a} : reservation'[c] = reservation[c] /\ charged'[c] = charged[c]
<1>1. /\ a \in Action /\ charged \in [Action -> [Budget -> Nat]]
      /\ reservation \in [Action -> [Budget -> ReservationStatus]]
    BY Zenon, ModelAssumption DEF TypeOK, LedgerTypeOK
<1>2. \A b \in Applicable(a) : b \in Budget /\ b \in Held(a)
    BY Zenon DEF Reservations, Held, Applicable
<1>3. \A b \in Applicable(a) : reservation'[a][b] = s /\ charged'[a][b] = charge[b]
    BY Zenon, <1>1, <1>2 DEF SettleReservations
<1>4. \A c \in Action \ {a} : reservation'[c] = reservation[c] /\ charged'[c] = charged[c]
    BY Zenon, <1>1 DEF SettleReservations
<1> QED
    BY Zenon, <1>3, <1>4 DEF Reservations, Applicable

\* advance and cancel_workflow_run.
LEMMA EngineCharges ==
    ASSUME TypeOK, FlightInv, CallsAgree, ChargesInv, NEW a \in Call, Engine(a)
    PROVE  ChargesInv'
<1>1. /\ call \in [Call -> CallStates] /\ parent \in [Call -> ParentStates]
      /\ ready \in [Call -> {"none", "ready", "dispatched", "processed"}]
      /\ errorCode \in [Call -> ErrorCodes] /\ sent \in [Call -> Nat]
    BY Zenon DEF TypeOK
<1>2. CallCharged(a) /\ CallOK(a) /\ a \in Action /\ \A c \in Call : c \in Action
    BY Zenon, ModelAssumption DEF ChargesInv, CallsAgree
<1>3. CASE \/ \E k \in EventKinds : ClaimParent(a, k)
           \/ RefuseModel(a) \/ ResumeParent(a) \/ CancelWorkflow(a)
    <2>1. UNCHANGED <<call, ready, errorCode, reservation, charged, sent>>
        BY Zenon, <1>3 DEF ClaimParent, RefuseModel, ResumeParent, CancelWorkflow, callVars, outsideVars,
                           ledgerVars
    <2>2. \A c \in Call \ {a} : parent'[c] = parent[c]
        BY Zenon, <1>1, <1>3 DEF ClaimParent, RefuseModel, ResumeParent, CancelWorkflow, Leave
    <2>3. parent[a] # "failed"
        BY Zenon, <1>3 DEF ClaimParent, Claimable, RefuseModel, ResumeParent, CancelWorkflow, Advancing
    <2> QED
        BY Zenon, <1>2, <2>1, <2>2, <2>3, ChargeKept DEF ChargesInv
<1>4. CASE RequestModel(a)
    <2>1. call[a] = "none" /\ event[a]["ready"] = "dispatched"
        BY Zenon, <1>2, <1>4 DEF CallOK, RequestModel, Advancing
    <2>2. /\ call'[a] = "queued" /\ ready'[a] = "ready"
          /\ \A c \in Call \ {a} : /\ call'[c] = call[c] /\ ready'[c] = ready[c]
                                   /\ parent'[c] = parent[c]
        BY Zenon, <1>1, <1>4 DEF RequestModel
    <2>3. UNCHANGED <<errorCode, charged, sent>> /\ ReserveBudgets(a)
        BY Zenon, <1>4 DEF RequestModel, outsideVars
    <2>4. /\ \A b \in Applicable(a) : reservation'[a][b] = "active"
          /\ \A c \in Call \ {a} : reservation'[c] = reservation[c]
        BY Zenon, <1>2, <2>3 DEF TypeOK, LedgerTypeOK, ReserveBudgets, Applicable
    <2>5. Reservations(a, "active", NoCharge)'
        BY ZenonT(30), <1>2, <2>1, <2>3, <2>4 DEF CallCharged, Reservations, Applicable, NoCharge
    <2>6. CallCharged(a)'
        BY Zenon, <2>2, <2>5 DEF CallCharged, Uncertain
    <2> QED
        BY Zenon, <2>2, <2>3, <2>4, <2>6, OneChargeMoves
<1>5. CASE LeaveCallQueued(a)
    <2>1. call[a] = "none" /\ ready[a] = "none"
        BY Zenon, <1>2, <1>5 DEF CallOK, LeaveCallQueued, Advancing
    <2>2. /\ call'[a] = "queued" /\ parent'[a] = "failed"
          /\ \A c \in Call \ {a} : call'[c] = call[c] /\ parent'[c] = parent[c]
        BY Zenon, <1>1, <1>5 DEF LeaveCallQueued, Leave
    <2>3. UNCHANGED <<ready, errorCode, reservation, charged, sent>>
        BY Zenon, <1>5 DEF LeaveCallQueued, outsideVars, ledgerVars
    <2>4. Reservations(a, "none", NoCharge)'
        BY Zenon, <1>2, <2>1, <2>3 DEF CallCharged, Reservations, Applicable, NoCharge
    <2>5. CallCharged(a)'
        BY Zenon, <2>1, <2>2, <2>3, <2>4 DEF CallCharged, Uncertain
    <2> QED
        BY ZenonT(30), <2>2, <2>3, <2>5, OneChargeMoves
<1>6. CASE TimeOutCall(a)
    <2>1. /\ call'[a] = "timed_out" /\ ready'[a] = "processed" /\ call[a] = "queued" /\ ready[a] = "ready"
          /\ \A c \in Call \ {a} : /\ call'[c] = call[c] /\ ready'[c] = ready[c]
                                   /\ parent'[c] = parent[c] /\ errorCode'[c] = errorCode[c]
        BY Zenon, <1>1, <1>6 DEF TimeOutCall, Leave
    <2>2. UNCHANGED sent /\ SettleReservations(a, "released", NoCharge)
        BY Zenon, <1>6 DEF TimeOutCall, ChargeNothing, outsideVars
    <2>3. Reservations(a, "active", NoCharge) /\ NoCharge \in [Budget -> Nat]
        BY Zenon, <1>2, <2>1 DEF CallCharged, NoCharge
    <2>4. /\ Reservations(a, "released", NoCharge)'
          /\ \A c \in Action \ {a} : reservation'[c] = reservation[c] /\ charged'[c] = charged[c]
        BY Zenon, <2>2, <2>3, SettledCharges DEF NoCharge
    <2>5. sent[a] = 0
        <3>1. claim[a] = 0
            BY Zenon, <2>1 DEF FlightInv, ClaimsIssued
        <3>2. sent[a] > 0 => claim[a] > 0
            BY Zenon DEF FlightInv, ExecutionIsOnePlace
        <3>3. sent[a] \in Nat
            BY Zenon, <1>1
        <3> QED
            BY SMTT(30), <3>1, <3>2, <3>3
    <2>6. CallCharged(a)'
        BY Zenon, <2>1, <2>2, <2>4, <2>5 DEF CallCharged, Uncertain
    <2> QED
        BY Zenon, <1>2, <2>1, <2>2, <2>4, <2>6, OneChargeMoves
<1>7. CASE KeepWaiting(a)
    <2>1. /\ call[a] \in Uncertain /\ call'[a] \in Uncertain
          /\ \A c \in Call \ {a} : call'[c] = call[c] /\ parent'[c] = parent[c]
        BY Zenon, <1>1, <1>7 DEF KeepWaiting, Leave, Uncertain
    <2>2. UNCHANGED <<ready, errorCode, reservation, charged, sent>>
        BY Zenon, <1>7 DEF KeepWaiting, outsideVars, ledgerVars
    <2>3. Reservations(a, "active", NoCharge)'
        BY Zenon, <1>2, <2>1, <2>2 DEF CallCharged, Reservations, Applicable, NoCharge
    <2>4. CallCharged(a)'
        BY Zenon, <1>2, <2>1, <2>2, <2>3 DEF CallCharged, Uncertain
    <2> QED
        BY Zenon, <2>1, <2>2, <2>4, OneChargeMoves
<1> QED
    BY Zenon, <1>3, <1>4, <1>5, <1>6, <1>7 DEF Engine, Advance

\* The worker's claims and its settlement.
LEMMA WorkerCharges ==
    ASSUME TypeOK, FlightInv, ChargesInv, NEW w \in Worker, WorkerStep(w)
    PROVE  ChargesInv'
<1>1. /\ call \in [Call -> CallStates] /\ errorCode \in [Call -> ErrorCodes]
      /\ ready \in [Call -> {"none", "ready", "dispatched", "processed"}]
    BY Zenon DEF TypeOK
<1>2. ASSUME NEW a \in Call, ClaimReady(w, a) \/ ClaimReconciliation(w, a) PROVE ChargesInv'
    <2>1. UNCHANGED <<parent, errorCode, reservation, charged, sent>> /\ CallCharged(a)
        BY Zenon, <1>2 DEF ClaimReady, ClaimReconciliation, parentVars, outsideVars, ledgerVars, ChargesInv
    <2>2. \A c \in Call \ {a} : call'[c] = call[c] /\ ready'[c] = ready[c]
        BY Zenon, <1>1, <1>2 DEF ClaimReady, ClaimReconciliation
    <2>3. \/ /\ call[a] = "queued" /\ ready[a] = "ready"
             /\ call'[a] = "executing" /\ ready'[a] = "dispatched"
          \/ /\ call[a] \in {"executing", "reconciliation_required"}
             /\ call'[a] = "reconciling" /\ ready'[a] = ready[a]
        BY Zenon, <1>1, <1>2 DEF ClaimReady, ClaimReconciliation
    <2>4. Reservations(a, "active", NoCharge)
        BY Zenon, <2>1, <2>3 DEF CallCharged, Uncertain
    <2>5. Reservations(a, "active", NoCharge)'
        BY Zenon, <2>1, <2>4 DEF Reservations, Applicable, NoCharge
    <2>6. CallCharged(a)'
        BY Zenon, <2>1, <2>3, <2>5 DEF CallCharged, Uncertain
    <2> QED
        BY Zenon, <2>1, <2>2, <2>6, OneChargeMoves
<1>3. CASE Dispatch(w) \/ OutcomeUnknown(w) \/ SettleStale(w) \/ WorkerFails(w)
    BY Zenon, <1>3, ChargesKept DEF Dispatch, OutcomeUnknown, SettleStale, WorkerFails, StopWaiting,
                                    callVars, parentVars, outsideVars, ledgerVars
<1>4. CASE Settle(w)
    <2>0. worker[w].action \in Call /\ call[worker[w].action] = ClaimState(worker[w].mode)
        BY Zenon, <1>4 DEF FlightInv, ClaimsIssued, Issued, Settle, HoldsClaim
    <2>1. PICK a \in Call : a = worker[w].action
        BY Zenon, <2>0
    <2>2. call[a] \in Uncertain
        BY Zenon, <2>0, <2>1 DEF ClaimState, Uncertain
    <2>3. CallCharged(a) /\ Reservations(a, "active", NoCharge) /\ a \in Action /\ Call \subseteq Action
        BY Zenon, <2>2, ModelAssumption DEF ChargesInv, CallCharged
    <2>4. /\ UNCHANGED sent /\ \A c \in Call \ {a} : errorCode'[c] = errorCode[c]
          /\ errorCode'[a] = IF worker[w].reply = "completed" THEN "none" ELSE worker[w].reply
        BY Zenon, <1>1, <1>4, <2>1 DEF Settle, outsideVars
    <2>5. ASSUME NEW s \in TerminalCalls, End(a, s),
                 NEW t, NEW charge \in [Budget -> Nat], SettleReservations(a, t, charge)
          PROVE  /\ call'[a] = s /\ ready'[a] = "processed" /\ Reservations(a, t, charge)'
                 /\ CallCharged(a)' => ChargesInv'
        <3>1. /\ call'[a] = s /\ ready'[a] = "processed" /\ parent' = parent
              /\ \A c \in Call \ {a} : call'[c] = call[c] /\ ready'[c] = ready[c]
            BY Zenon, <1>1, <2>5 DEF End
        <3>2. /\ Reservations(a, t, charge)'
              /\ \A c \in Action \ {a} : reservation'[c] = reservation[c] /\ charged'[c] = charged[c]
            BY Zenon, <2>3, <2>5, SettledCharges
        <3> QED
            BY Zenon, <2>3, <2>4, <3>1, <3>2, OneChargeMoves
    <2>6. CASE worker[w].reply = "completed" /\ SettleCompleted(a)
        <3> DEFINE charge == [b \in Budget |-> Usage[a][ResourceOf[b]]]
        <3>1. charge \in [Budget -> Nat] /\ "completed" \in TerminalCalls
            BY Zenon, BudgetAssumption, ModelAssumption DEF TerminalCalls
        <3>2. /\ call'[a] = "completed" /\ ready'[a] = "processed"
              /\ Reservations(a, "committed", charge)' /\ (CallCharged(a)' => ChargesInv')
            BY Zenon, <2>5, <2>6, <3>1 DEF SettleCompleted, ChargeUsage
        <3>3. CallCharged(a)'
            BY Zenon, <3>2 DEF CallCharged, Uncertain
        <3> QED
            BY Zenon, <3>2, <3>3
    <2>7. CASE worker[w].reply \in {"rejected", "absent", "denied"} /\ SettleFailed(a)
        <3>1. NoCharge \in [Budget -> Nat] /\ "failed" \in TerminalCalls
            BY Zenon DEF TerminalCalls, NoCharge
        <3>2. /\ call'[a] = "failed" /\ ready'[a] = "processed"
              /\ Reservations(a, "released", NoCharge)' /\ (CallCharged(a)' => ChargesInv')
            BY Zenon, <2>5, <2>7, <3>1 DEF SettleFailed, ChargeNothing, NoCharge
        <3>3. CallCharged(a)'
            BY Zenon, <2>4, <2>7, <3>2 DEF CallCharged, Uncertain
        <3> QED
            BY Zenon, <3>2, <3>3
    <2>8. CASE worker[w].reply = "unknown" /\ SettleUnresolved(a)
        <3> DEFINE charge == [b \in Budget |-> EstimateOf(b)]
        <3>1. charge \in [Budget -> Nat] /\ "failed" \in TerminalCalls
            BY Zenon, BudgetAssumption DEF TerminalCalls, EstimateOf
        <3>2. /\ call'[a] = "failed" /\ ready'[a] = "processed"
              /\ Reservations(a, "committed", charge)' /\ (CallCharged(a)' => ChargesInv')
            BY Zenon, <2>5, <2>8, <3>1 DEF SettleUnresolved, ChargeEstimate, EstimateOf
        <3>3. CallCharged(a)'
            BY Zenon, <2>4, <2>8, <3>2 DEF CallCharged, Uncertain
        <3> QED
            BY Zenon, <3>2, <3>3
    <2>9. CASE RequireReconciliation(a)
        <3>1. /\ call'[a] = "reconciliation_required"
              /\ UNCHANGED <<ready, parent, reservation, charged>>
              /\ \A c \in Call \ {a} : call'[c] = call[c]
            BY Zenon, <1>1, <2>9 DEF RequireReconciliation, parentVars, ledgerVars
        <3>2. Reservations(a, "active", NoCharge)'
            BY Zenon, <2>3, <3>1 DEF Reservations, Applicable, NoCharge
        <3>3. ready[a] # "ready"
            BY ZenonT(30), <2>2, <2>3 DEF CallCharged, Uncertain
        <3>4. CallCharged(a)'
            BY ZenonT(30), <3>1, <3>2, <3>3 DEF CallCharged, Uncertain
        <3> QED
            BY Zenon, <2>4, <3>1, <3>4, OneChargeMoves
    <2> QED
        BY Zenon, <1>4, <2>1, <2>6, <2>7, <2>8, <2>9 DEF Settle
<1> QED
    BY Zenon, <1>2, <1>3, <1>4 DEF WorkerStep

\* A governed action touches no reservation of a model call, and the gateway
\* sends only executing calls.
LEMMA StepCharges ==
    ASSUME TypeOK, FlightInv, CallsAgree, ChargesInv, [Next]_vars
    PROVE  ChargesInv'
<1>1. CASE UNCHANGED vars
    BY Zenon, <1>1, ChargesKept DEF vars, callVars, parentVars, outsideVars, ledgerVars
<1>2. ASSUME NEW a \in Call, Clock(a) PROVE ChargesInv'
    BY Zenon, <1>2, ChargesKept DEF Clock, LeaseExpires, ReconciliationDue, Lapse, TimeoutDue,
                                    ParentLeaseExpires, callVars, parentVars, outsideVars, ledgerVars
<1>3. ASSUME NEW a \in Action \ Call, OtherAction(a) PROVE ChargesInv'
    <2>1. /\ charged \in [Action -> [Budget -> Nat]] /\ Call \subseteq Action
          /\ reservation \in [Action -> [Budget -> ReservationStatus]]
        BY Zenon, ModelAssumption DEF TypeOK, LedgerTypeOK
    <2>2. \A c \in Call : c # a /\ reservation'[c] = reservation[c] /\ charged'[c] = charged[c]
        BY Zenon, <1>3, <2>1 DEF OtherAction, ReserveBudgets, SettleActionReservations
    <2>3. UNCHANGED <<call, ready, parent, errorCode, sent>>
        BY Zenon, <1>3 DEF OtherAction, parentVars, outsideVars
    <2> QED
        BY Zenon, <2>2, <2>3, ChargeKept DEF ChargesInv
<1>4. CASE Network
    <2>1. PICK r \in request : \/ GatewayAuthorizes(r) \/ GatewayDenies(r) \/ ProviderServes(r)
                               \/ ProviderRejects(r) \/ ProviderLooksUp(r)
        BY Zenon, <1>4 DEF Network
    <2>2. UNCHANGED <<call, ready, parent, errorCode, reservation, charged>>
        BY Zenon, <2>1 DEF GatewayAuthorizes, GatewayDenies, ProviderServes, ProviderRejects,
                           ProviderLooksUp, Answer, callVars, parentVars, ledgerVars
    <2>3. \A c \in Call : sent'[c] = sent[c] \/ call[c] # "timed_out"
        <3>1. CASE GatewayAuthorizes(r)
            <4>1. call[r.action] = ClaimState(r.mode)
                BY ZenonT(30), <3>1 DEF GatewayAuthorizes, Authorized
            <4>2. call[r.action] # "timed_out"
                BY ZenonT(30), <4>1 DEF ClaimState
            <4> QED
                BY Zenon, <3>1, <4>2 DEF TypeOK, GatewayAuthorizes
        <3>2. CASE ~GatewayAuthorizes(r)
            BY Zenon, <2>1, <3>2 DEF GatewayDenies, ProviderServes, ProviderRejects, ProviderLooksUp, Answer
        <3> QED
            BY Zenon, <3>1, <3>2
    <2> QED
        BY Zenon, <2>2, <2>3, ChargeKept DEF ChargesInv
<1> QED
    BY Zenon, <1>1, <1>2, <1>3, <1>4, EngineCharges, WorkerCharges DEF Next

-----------------------------------------------------------------------------
(* The ledger that calls and actions share.                                *)

\* settle_action_reservations, with the actual values it records.
ActionSettled(a, committed) ==
    /\ SettleActionReservations(a, committed)
    /\ charged' = [charged EXCEPT ![a] =
            [b \in Budget |-> IF b \in Spends(a, committed) THEN EstimateOf(b) ELSE 0]]

\* What a step may do to the ledger: reserve for one that holds nothing yet, or settle.
LedgerMoves(a) ==
    \/ /\ ReserveBudgets(a) /\ UNCHANGED charged
       /\ \A b \in Applicable(a) : reservation[a][b] = "none"
    \/ a \in Call /\ \E s \in {"released", "committed"}, charge \in [Budget -> Nat] :
                        SettleReservations(a, s, charge)
    \/ a \notin Call /\ \E committed \in BOOLEAN : ActionSettled(a, committed)

\* Every step of the system is one of those, or leaves the ledger alone.
LEMMA StepLedger ==
    ASSUME FlightInv, CallsAgree, ChargesInv, [Next]_vars
    PROVE  UNCHANGED <<ledgerVars, charged>> \/ \E a \in Action : LedgerMoves(a)
<1> DEFINE Goal == UNCHANGED <<ledgerVars, charged>> \/ \E a \in Action : LedgerMoves(a)
<1>1. CASE UNCHANGED vars
    BY Zenon, <1>1 DEF vars, callVars
<1>2. ASSUME NEW a \in Call, Clock(a) PROVE Goal
    BY Zenon, <1>2 DEF Clock, LeaseExpires, ReconciliationDue, Lapse, TimeoutDue,
                       ParentLeaseExpires, callVars
<1>3. ASSUME NEW a \in Action \ Call, OtherAction(a) PROVE Goal
    <2>1. CASE Unreserved(a) /\ ReserveBudgets(a) /\ UNCHANGED charged
        BY Zenon, <2>1 DEF LedgerMoves, Unreserved, Applicable
    <2>2. ASSUME NEW committed \in BOOLEAN, ActionSettled(a, committed) PROVE Goal
        BY Zenon, <2>2 DEF LedgerMoves
    <2> QED
        BY Zenon, <1>3, <2>1, <2>2 DEF OtherAction, ActionSettled
<1>4. CASE Network
    BY Zenon, <1>4 DEF Network, GatewayAuthorizes, GatewayDenies, ProviderServes,
                       ProviderRejects, ProviderLooksUp, Answer, callVars
<1>5. /\ \A a \in Call : [b \in Budget |-> Usage[a][ResourceOf[b]]] \in [Budget -> Nat]
      /\ [b \in Budget |-> EstimateOf(b)] \in [Budget -> Nat]
      /\ NoCharge \in [Budget -> Nat]
    <2>1. 0 \in Nat
        OBVIOUS
    <2> QED
        BY Zenon, <2>1, BudgetAssumption, ModelAssumption DEF EstimateOf, NoCharge
<1>6. ASSUME NEW a \in Call, ChargeUsage(a) \/ ChargeEstimate(a) \/ ChargeNothing(a)
      PROVE  Goal
    BY Zenon, <1>5, <1>6, ModelAssumption DEF LedgerMoves, ChargeUsage, ChargeEstimate, ChargeNothing
<1>7. ASSUME NEW a \in Call, Engine(a) PROVE Goal
    <2>1. CASE RequestModel(a)
        <3>1. event[a]["ready"] = "dispatched" /\ CallOK(a) /\ CallCharged(a)
            BY Zenon, <2>1 DEF RequestModel, Advancing, CallsAgree, ChargesInv
        <3>2. call[a] = "none"
            BY ZenonT(30), <3>1 DEF CallOK
        <3>3. \A b \in Applicable(a) : reservation[a][b] = "none"
            BY Zenon, <3>1, <3>2 DEF CallCharged, Reservations
        <3> QED
            BY Zenon, <2>1, <3>3, ModelAssumption DEF RequestModel, LedgerMoves
    <2>2. CASE TimeOutCall(a)
        BY Zenon, <1>6, <2>2 DEF TimeOutCall
    <2>3. CASE \/ \E k \in EventKinds : ClaimParent(a, k)
               \/ RefuseModel(a) \/ LeaveCallQueued(a) \/ KeepWaiting(a) \/ ResumeParent(a)
               \/ CancelWorkflow(a)
        BY Zenon, <2>3 DEF ClaimParent, RefuseModel, LeaveCallQueued, KeepWaiting, ResumeParent,
                           CancelWorkflow, callVars
    <2> QED
        BY Zenon, <1>7, <2>1, <2>2, <2>3 DEF Engine, Advance
<1>8. ASSUME NEW w \in Worker, WorkerStep(w) PROVE Goal
    <2>1. CASE Settle(w)
        <3>1. PICK a \in Call : a = worker[w].action
            BY Zenon, <2>1 DEF FlightInv, ClaimsIssued, Issued, Settle, HoldsClaim
        <3>2. \/ SettleCompleted(a) \/ SettleFailed(a) \/ SettleUnresolved(a)
              \/ RequireReconciliation(a)
            BY Zenon, <2>1, <3>1 DEF Settle
        <3> QED
            BY Zenon, <1>6, <3>2 DEF SettleCompleted, SettleFailed, SettleUnresolved,
                                     RequireReconciliation
    <2>2. CASE \/ \E a \in Call : ClaimReady(w, a) \/ ClaimReconciliation(w, a)
               \/ Dispatch(w) \/ OutcomeUnknown(w) \/ SettleStale(w) \/ WorkerFails(w)
        BY Zenon, <2>2 DEF ClaimReady, ClaimReconciliation, Dispatch, OutcomeUnknown,
                           SettleStale, WorkerFails, StopWaiting, callVars
    <2> QED
        BY Zenon, <1>8, <2>1, <2>2 DEF WorkerStep
<1> QED
    BY Zenon, <1>1, <1>2, <1>3, <1>4, <1>7, <1>8 DEF Next

\* What a move of the ledger does to the rows of a, and that it leaves the others alone.
LEMMA MovesOneHolder ==
    ASSUME TypeOK, NEW a \in Action, LedgerMoves(a)
    PROVE  \A c \in Action \ {a} : reservation'[c] = reservation[c] /\ charged'[c] = charged[c]
<1>1. /\ charged \in [Action -> [Budget -> Nat]]
      /\ reservation \in [Action -> [Budget -> ReservationStatus]]
    BY Zenon DEF TypeOK, LedgerTypeOK
<1> QED
    BY Zenon, <1>1 DEF LedgerMoves, ReserveBudgets, SettleReservations, ActionSettled,
                       SettleActionReservations

\* Reservations are charged when they are settled, and not before.
LEMMA StepUncharged ==
    ASSUME TypeOK, FlightInv, CallsAgree, ChargesInv, UnchargedWhileHeld, [Next]_vars
    PROVE  UnchargedWhileHeld'
<1>1. CASE UNCHANGED <<ledgerVars, charged>>
    BY Zenon, <1>1 DEF UnchargedWhileHeld, ledgerVars, Applicable, EstimateOf
<1>2. ASSUME NEW a \in Action, LedgerMoves(a) PROVE UnchargedWhileHeld'
    <2>1. \A c \in Action \ {a} : reservation'[c] = reservation[c] /\ charged'[c] = charged[c]
        BY Zenon, <1>2, MovesOneHolder
    <2>2. /\ charged \in [Action -> [Budget -> Nat]]
          /\ reservation \in [Action -> [Budget -> ReservationStatus]]
        BY Zenon DEF TypeOK, LedgerTypeOK
    <2>3. \A b \in Budget : EstimateOf(b) \in Nat
        BY Zenon, BudgetAssumption DEF EstimateOf
    <2>4. ASSUME NEW b \in Budget
          PROVE  /\ reservation'[a][b] = "active" => b \in Applicable(a)
                 /\ b \in Applicable(a) /\ reservation'[a][b] \in {"none", "active"}
                        => charged'[a][b] = 0
                 /\ a \notin Call => charged'[a][b] <= EstimateOf(b)
        <3>1. CASE /\ ReserveBudgets(a) /\ UNCHANGED charged
                   /\ \A c \in Applicable(a) : reservation[a][c] = "none"
            <4>1. reservation'[a][b] = IF b \in Applicable(a) THEN "active" ELSE "none"
                BY Zenon, <2>2, <3>1 DEF ReserveBudgets
            <4> QED
                BY Zenon, <3>1, <4>1 DEF UnchargedWhileHeld
        <3>2. ASSUME NEW s \in {"released", "committed"}, NEW charge \in [Budget -> Nat],
                     a \in Call, SettleReservations(a, s, charge)
              PROVE  /\ reservation'[a][b] = "active" => b \in Applicable(a)
                     /\ b \in Applicable(a) /\ reservation'[a][b] \in {"none", "active"}
                            => charged'[a][b] = 0
                     /\ a \notin Call => charged'[a][b] <= EstimateOf(b)
            <4>1. /\ reservation'[a][b] = IF b \in Held(a) THEN s ELSE reservation[a][b]
                  /\ charged'[a][b] = IF b \in Held(a) THEN charge[b] ELSE charged[a][b]
                BY Zenon, <2>2, <3>2 DEF SettleReservations
            <4>2. s \notin {"none", "active"}
                OBVIOUS
            <4> QED
                BY Zenon, <3>2, <4>1, <4>2 DEF UnchargedWhileHeld
        <3>3. ASSUME NEW committed \in BOOLEAN, ActionSettled(a, committed)
              PROVE  /\ reservation'[a][b] = "active" => b \in Applicable(a)
                     /\ b \in Applicable(a) /\ reservation'[a][b] \in {"none", "active"}
                            => charged'[a][b] = 0
                     /\ a \notin Call => charged'[a][b] <= EstimateOf(b)
            <4>1. /\ reservation'[a][b] = IF b \in Spends(a, committed) THEN "committed"
                                          ELSE IF b \in Held(a) THEN "released"
                                          ELSE reservation[a][b]
                  /\ charged'[a][b] = IF b \in Spends(a, committed) THEN EstimateOf(b) ELSE 0
                BY Zenon, <2>2, <3>3 DEF ActionSettled, SettleActionReservations
            <4>2. charged'[a][b] <= EstimateOf(b)
                BY <2>3, <4>1
            <4>3. "committed" \notin {"none", "active"} /\ "released" \notin {"none", "active"}
                OBVIOUS
            <4> QED
                BY Zenon, <4>1, <4>2, <4>3 DEF UnchargedWhileHeld
        <3> QED
            BY Zenon, <1>2, <3>1, <3>2, <3>3 DEF LedgerMoves
    <2>5. ASSUME NEW c \in Action, c # a, NEW b \in Budget
          PROVE  /\ reservation'[c][b] = "active" => b \in Applicable(c)
                 /\ b \in Applicable(c) /\ reservation'[c][b] \in {"none", "active"}
                        => charged'[c][b] = 0
                 /\ c \notin Call => charged'[c][b] <= EstimateOf(b)
        BY Zenon, <2>1, <2>5 DEF UnchargedWhileHeld
    <2>6. \A c \in Action : \A b \in Budget :
                 /\ reservation'[c][b] = "active" => b \in Applicable(c)
                 /\ b \in Applicable(c) /\ reservation'[c][b] \in {"none", "active"}
                        => charged'[c][b] = 0
                 /\ c \notin Call => charged'[c][b] <= EstimateOf(b)
        BY Zenon, <2>4, <2>5
    <2> QED
        BY Zenon, <2>6 DEF UnchargedWhileHeld, Applicable, EstimateOf, MatchesScope
<1> QED
    BY Zenon, <1>1, <1>2, StepLedger

-----------------------------------------------------------------------------
(* The theorems.                                                           *)

\* No call has been requested, nothing is claimed or under way.
LEMMA InitInd == Init => IndInv
<1> SUFFICES ASSUME Init PROVE IndInv
    BY Zenon
<1>1. TypeOK
    <2>1. LedgerTypeOK
        BY Zenon DEF Init, LedgerInit, LedgerTypeOK, ReservationStatus
    <2>2. IdleWorker \in WorkerMemory
        BY SMTT(30) DEF IdleWorker, WorkerMemory, Modes, Replies
    <2>3. charged \in [Action -> [Budget -> Nat]] /\ claim \in [Call -> Nat] /\ sent \in [Call -> Nat]
            /\ attempts \in [Call -> 0 .. MaxReconciliation]
        BY ModelAssumption DEF Init, NoCharge
    <2>4. event \in [Call -> [EventKinds -> EventStates]]
        BY Zenon DEF Init, EventStates
    <2>5. call \in [Call -> CallStates] /\ parent \in [Call -> ParentStates]
            /\ errorCode \in [Call -> ErrorCodes] /\ wake \in [Call -> EventKinds]
        BY Zenon DEF Init, CallStates, ParentStates, ErrorCodes, Replies, EventKinds
    <2> QED
        BY ZenonT(30), <2>1, <2>2, <2>3, <2>4, <2>5 DEF Init, TypeOK
<1>2. ClaimsIssued
    BY Zenon DEF Init, ClaimsIssued, IdleWorker
<1>3. AttemptsLeft
    BY SMTT(30) DEF Init, AttemptsLeft
<1>4. ExecutionIsOnePlace
    BY SMTT(30) DEF Init, ExecutionIsOnePlace, NoExecution, IdleWorker
<1>5. AnswersAreTrue
    BY SMTT(30) DEF Init, AnswersAreTrue, IdleWorker
<1>6. CallsAgree
    BY SMTT(30) DEF Init, CallsAgree, CallOK, EventKinds, Ended, Uncertain, TerminalCalls
<1>7. \A a \in Call : a \in Action /\ Reservations(a, "none", NoCharge)
    BY Zenon, ModelAssumption DEF Init, LedgerInit, Reservations, Applicable, NoCharge
<1>8. NothingHeldYet
    BY Zenon, <1>7 DEF NothingHeldYet
<1>9. ChargesFollowCall
    BY Zenon DEF Init, ChargesFollowCall, Uncertain
<1>10. UnchargedWhileHeld
    <2>1. \A b \in Budget : 0 <= EstimateOf(b)
        BY BudgetAssumption DEF EstimateOf
    <2>2. \A a \in Action : \A b \in Budget : reservation[a][b] = "none" /\ charged[a][b] = 0
        BY Zenon DEF Init, LedgerInit, NoCharge
    <2>3. "none" # "active"
        OBVIOUS
    <2> QED
        BY Zenon, <2>1, <2>2, <2>3 DEF UnchargedWhileHeld
<1> QED
    BY Zenon, <1>1, <1>2, <1>3, <1>4, <1>5, <1>6, <1>8, <1>9, <1>10 DEF IndInv

\* Each of the five parts of the invariant is kept, given the others.
LEMMA StepInd == IndInv /\ [Next]_vars => IndInv'
<1> SUFFICES ASSUME IndInv, [Next]_vars PROVE IndInv'
    BY Zenon
<1>1. TypeOK /\ FlightInv /\ CallsAgree /\ ChargesInv
    BY Zenon, ChargesByCall DEF IndInv, FlightInv
<1>2. TypeOK'
    BY Zenon, StepTypes DEF IndInv
<1>3. FlightInv' /\ CallsAgree' /\ ChargesInv'
    BY Zenon, <1>1, StepFlight, StepCalls, StepCharges
<1>4. NothingHeldYet' /\ ChargesFollowCall'
    BY Zenon, <1>3 DEF ChargesInv, CallCharged, NothingHeldYet, ChargesFollowCall
<1>5. UnchargedWhileHeld'
    BY Zenon, <1>1, StepUncharged DEF IndInv
<1> QED
    BY Zenon, <1>2, <1>3, <1>4, <1>5 DEF IndInv, FlightInv

\* For any calls, workers, budgets and reported usage: no interleaving of the
\* engine, the workers, the gateway, the provider and the clocks leaves IndInv.
THEOREM ModelCallsCorrect == Spec => []IndInv
BY InitInd, StepInd, PTL DEF Spec

\* Lookups never exceed max_reconciliation_attempts (W/model_calls.py settle).
THEOREM ModelTypesCorrect == Spec => []TypeOK
<1>1. IndInv => TypeOK
    BY Zenon DEF IndInv
<1> QED
    BY ModelCallsCorrect, <1>1, PTL

\* ADR 0015: the provider is asked to generate at most once per call, whatever
\* crashes, expired leases and node timeouts do to the claims.
THEOREM NeverGeneratedTwice == Spec => []ExecutedAtMostOnce
<1>1. IndInv => ExecutedAtMostOnce
    BY Zenon DEF IndInv, ExecutionIsOnePlace, ExecutedAtMostOnce
<1> QED
    BY ModelCallsCorrect, <1>1, PTL

\* Reservations and actual values follow the call's status.
THEOREM ChargesAreKept == Spec => []ChargesFollowCall
<1>1. IndInv => ChargesFollowCall
    BY Zenon DEF IndInv
<1> QED
    BY ModelCallsCorrect, <1>1, PTL

\* What the provider generated is charged, but for the two exceptions that
\* ServedIsCharged names.
THEOREM ServedCallsAreCharged == Spec => []ServedIsCharged
<1>1. IndInv => ServedIsCharged
    <2> SUFFICES ASSUME IndInv, NEW a \in Call
                 PROVE  /\ call[a] = "completed" => served[a]
                        /\ (served[a] /\ call[a] \in TerminalCalls /\ charged[a] = NoCharge
                                /\ \E b \in Applicable(a) : Usage[a][ResourceOf[b]] > 0) =>
                            errorCode[a] \in {"absent", "denied"} /\ attempts[a] > 0
        BY Zenon DEF ServedIsCharged
    <2>1. call[a] = "completed" => served[a]
        BY Zenon DEF IndInv, AnswersAreTrue
    <2>2. ASSUME served[a], call[a] \in TerminalCalls, charged[a] = NoCharge,
                 NEW b \in Applicable(a), Usage[a][ResourceOf[b]] > 0
          PROVE  errorCode[a] \in {"absent", "denied"} /\ attempts[a] > 0
        <3>1. b \in Budget /\ charged[a][b] = 0 /\ EstimateOf(b) \in Nat \ {0}
                /\ Usage[a][ResourceOf[b]] \in Nat
            <4>1. b \in Budget /\ ResourceOf[b] \in Resource
                BY Zenon, BudgetAssumption DEF Applicable
            <4>2. charged[a][b] = 0
                BY Zenon, <2>2, <4>1 DEF NoCharge
            <4>3. EstimateOf(b) \in Nat \ {0}
                BY Zenon, <4>1, BudgetAssumption DEF EstimateOf
            <4>4. Usage[a][ResourceOf[b]] \in Nat
                BY Zenon, <4>1, ModelAssumption
            <4> QED
                BY Zenon, <4>1, <4>2, <4>3, <4>4
        <3>2. call[a] # "completed"
            <4>1. call[a] = "completed" =>
                    charged[a][b] = Usage[a][ResourceOf[b]]
                BY Zenon, <3>1 DEF IndInv, ChargesFollowCall, Reservations
            <4> QED
                BY <2>2, <3>1, <4>1
        <3>3. ~(call[a] = "failed" /\ errorCode[a] = "unknown")
            <4>1. call[a] = "failed" /\ errorCode[a] = "unknown" =>
                    charged[a][b] = EstimateOf(b)
                BY ZenonT(30), <3>1 DEF IndInv, ChargesFollowCall, Reservations
            <4> QED
                BY Zenon, <3>1, <4>1
        <3>4. call[a] # "timed_out"
            <4>1. call[a] = "timed_out" => sent[a] = 0
                BY Zenon DEF IndInv, ChargesFollowCall
            <4>2. sent[a] > 0
                BY Zenon, <2>2 DEF IndInv, ExecutionIsOnePlace
            <4> QED
                BY <4>1, <4>2
        <3> QED
            BY Zenon, <2>2, <3>2, <3>3, <3>4 DEF IndInv, AnswersAreTrue, TerminalCalls
    <2> QED
        BY Zenon, <2>1, <2>2
<1> QED
    BY ModelCallsCorrect, <1>1, PTL

\* A parent at its agent node always has the event that wakes it, or a call
\* whose settlement will publish one.
THEOREM ModelWakesAreNotLost == Spec => []WakeIsComing
<1>1. IndInv => WakeIsComing
    <2> SUFFICES ASSUME IndInv, NEW a \in Call
                 PROVE  LET open == {k \in EventKinds : event[a][k] \in {"scheduled", "available", "dispatched"}}
                        IN  /\ parent[a] = "passed" => call[a] = "completed"
                            /\ parent[a] = "cancelled" => call[a] = "none"
                            /\ parent[a] = "failed" => call[a] \in TerminalCalls \cup {"none", "queued"}
                            /\ parent[a] \notin Ended =>
                                \/ call[a] = "none" /\ open = {"ready"}
                                \/ call[a] \in {"queued"} \cup Uncertain /\ open = {"timeout"}
                                \/ call[a] \in Uncertain \ {"executing"} /\ open = {}
                                \/ call[a] \in TerminalCalls /\ open = {"resume"}
        BY Zenon DEF WakeIsComing
    <2>1. CallOK(a) /\ call[a] \in CallStates
        BY Zenon DEF IndInv, TypeOK, CallsAgree
    <2> QED
        BY Zenon, <2>1 DEF CallOK, CallStates, EventKinds, Ended, Uncertain, TerminalCalls
<1> QED
    BY ModelCallsCorrect, <1>1, PTL

\* Migration 0014: a settled call, its charges and an ended parent stay as they
\* are, whoever answers late.
THEOREM ModelEndedStaysEnded == Spec => EndedIsEnded
<1>1. IndInv /\ [Next]_vars => [KeepsEnded]_vars
    <2> SUFFICES ASSUME IndInv, Next PROVE KeepsEnded
        BY Zenon
    <2> DEFINE Kept(c) ==
            /\ call[c] \in TerminalCalls => UNCHANGED <<call[c], charged[c], reservation[c], errorCode[c]>>
            /\ parent[c] \in Ended => UNCHANGED <<parent[c], call[c]>>
    <2>1. /\ call \in [Call -> CallStates] /\ parent \in [Call -> ParentStates]
          /\ errorCode \in [Call -> ErrorCodes] /\ charged \in [Action -> [Budget -> Nat]]
          /\ reservation \in [Action -> [Budget -> ReservationStatus]] /\ Call \subseteq Action
        BY Zenon, ModelAssumption DEF IndInv, TypeOK, LedgerTypeOK
    <2>2. \A c \in Call : CallOK(c)
        BY Zenon DEF IndInv, CallsAgree
    <2>3. ASSUME NEW a \in Call, Engine(a) PROVE \A c \in Call : Kept(c)
        <3>1. \A c \in Call \ {a} :
                UNCHANGED <<call[c], charged[c], reservation[c], errorCode[c], parent[c]>>
            BY Zenon, <2>1, <2>3
               DEF Engine, Advance, ClaimParent, RequestModel, RefuseModel, LeaveCallQueued, TimeOutCall,
                   KeepWaiting, ResumeParent, CancelWorkflow, Leave, ReserveBudgets, ChargeNothing,
                   SettleReservations, callVars, ledgerVars
        <3>2. parent[a] \notin Ended
            BY Zenon, <2>3 DEF Engine, Advance, ClaimParent, Claimable, RequestModel, RefuseModel,
                        LeaveCallQueued, TimeOutCall, KeepWaiting, ResumeParent, CancelWorkflow,
                        Advancing, Ended
        <3>3. call[a] \in TerminalCalls => UNCHANGED <<call, charged, reservation, errorCode>>
            BY Zenon, <2>2, <2>3
               DEF Engine, Advance, ClaimParent, RequestModel, RefuseModel, LeaveCallQueued, TimeOutCall,
                   KeepWaiting, ResumeParent, CancelWorkflow, callVars, ledgerVars, Advancing, CallOK,
                   TerminalCalls, Uncertain
        <3> QED
            BY Zenon, <3>1, <3>2, <3>3
    <2>4. ASSUME NEW w \in Worker, WorkerStep(w) PROVE \A c \in Call : Kept(c)
        <3>1. CASE Dispatch(w) \/ OutcomeUnknown(w) \/ SettleStale(w) \/ WorkerFails(w)
            BY Zenon, <3>1 DEF Dispatch, OutcomeUnknown, SettleStale, WorkerFails, StopWaiting,
                               callVars, parentVars, ledgerVars
        <3>2. ASSUME NEW a \in Call, ClaimReady(w, a) \/ ClaimReconciliation(w, a)
              PROVE  \A c \in Call : Kept(c)
            <4>1. UNCHANGED <<parent, charged, reservation, errorCode>>
                BY Zenon, <3>2 DEF ClaimReady, ClaimReconciliation, parentVars, ledgerVars
            <4>2. \A c \in Call \ {a} : call'[c] = call[c]
                BY Zenon, <2>1, <3>2 DEF ClaimReady, ClaimReconciliation
            <4>3. call[a] \notin TerminalCalls /\ parent[a] \notin Ended
                BY Zenon, <2>2, <3>2 DEF ClaimReady, ClaimReconciliation, CallOK, TerminalCalls, Ended
            <4> QED
                BY Zenon, <4>1, <4>2, <4>3
        <3>3. CASE Settle(w)
            <4>1. worker[w].action \in Call /\ call[worker[w].action] = ClaimState(worker[w].mode)
                BY Zenon, <3>3 DEF IndInv, ClaimsIssued, Issued, Settle, HoldsClaim
            <4>2. PICK a \in Call : a = worker[w].action
                BY Zenon, <4>1
            <4>3. call[a] \in {"executing", "reconciling"}
                BY Zenon, <4>1, <4>2 DEF ClaimState
            <4>4. call[a] \notin TerminalCalls /\ parent[a] \notin Ended
                BY Zenon, <2>2, <4>3 DEF CallOK, TerminalCalls, Ended
            <4>5. UNCHANGED parent
                BY Zenon, <3>3 DEF Settle, SettleCompleted, SettleFailed, SettleUnresolved,
                                   RequireReconciliation, End, parentVars
            <4>6. \A c \in Call \ {a} : UNCHANGED <<call[c], errorCode[c]>>
                BY Zenon, <2>1, <3>3, <4>2
                   DEF Settle, SettleCompleted, SettleFailed, SettleUnresolved, RequireReconciliation, End
            <4>7. \A c \in Call \ {a} : UNCHANGED <<charged[c], reservation[c]>>
                BY Zenon, <2>1, <3>3, <4>2
                   DEF Settle, SettleCompleted, SettleFailed, SettleUnresolved, RequireReconciliation,
                       ChargeUsage, ChargeNothing, ChargeEstimate, SettleReservations, ledgerVars
            <4> QED
                BY Zenon, <4>4, <4>5, <4>6, <4>7
        <3> QED
            BY Zenon, <2>4, <3>1, <3>2, <3>3 DEF WorkerStep
    <2>5. ASSUME NEW a \in Action \ Call, OtherAction(a) PROVE \A c \in Call : Kept(c)
        <3>1. \A c \in Call : c # a /\ UNCHANGED <<charged[c], reservation[c]>>
            BY Zenon, <2>1, <2>5 DEF OtherAction, ReserveBudgets, SettleActionReservations
        <3> QED
            BY Zenon, <2>5, <3>1 DEF OtherAction, parentVars
    <2>6. ASSUME NEW a \in Call, Clock(a) PROVE \A c \in Call : Kept(c)
        BY Zenon, <2>6 DEF Clock, LeaseExpires, ReconciliationDue, Lapse, TimeoutDue, ParentLeaseExpires,
                           callVars, parentVars, ledgerVars
    <2>7. ASSUME Network PROVE \A c \in Call : Kept(c)
        BY ZenonT(30), <2>7 DEF Network, GatewayAuthorizes, GatewayDenies, ProviderServes, ProviderRejects,
                           ProviderLooksUp, Answer, callVars, parentVars, ledgerVars
    <2>8. \A c \in Call : Kept(c)
        BY Zenon, <2>3, <2>4, <2>5, <2>6, <2>7 DEF Next
    <2> QED
        BY Zenon, <2>8 DEF KeepsEnded
<1> QED
    BY ModelCallsCorrect, <1>1, PTL DEF Spec, EndedIsEnded

-----------------------------------------------------------------------------
(* Overspending, which is a sum over all that hold reservations.           *)

INSTANCE FiniteSetTheorems
INSTANCE WellFoundedInduction

\* Overrun, for the charges c; and the sum of MapThenSumSet, which takes the
\* members of a set one by one.
OverrunIn(c, a, b) ==
    IF c[a][b] > EstimateOf(b) THEN c[a][b] - EstimateOf(b) ELSE 0
Overruns(c, b) == MapThenSumSet(LAMBDA a : OverrunIn(c, a, b), Action)
Pick(t) == CHOOSE x \in t : TRUE
IsSums(c, b, s, sums) ==
    sums = [t \in SUBSET s |->
               IF t = {} THEN 0 ELSE OverrunIn(c, Pick(t), b) + sums[t \ {Pick(t)}]]

\* Among sets of members of a finite set there is a smallest one.
LEMMA SmallestSet ==
    ASSUME NEW S, IsFiniteSet(S), NEW T, T \subseteq SUBSET S, T # {}
    PROVE  \E m \in T : \A t \in T : t \subseteq m => t = m
<1>1. IsWellFoundedOn(StrictSubsetOrdering(S), SUBSET S)
    BY FS_StrictSubsetOrderingWellFounded, FS_FiniteSubsetsOfFinite
<1>2. PICK m \in T : \A t \in T : <<t, m>> \notin StrictSubsetOrdering(S)
    BY <1>1, WFMin
<1>3. ASSUME NEW t \in T, t \subseteq m PROVE t = m
    <2>1. <<t, m>> \in (SUBSET S) \X (SUBSET S)
        BY Zenon
    <2>2. <<t, m>>[1] = t /\ <<t, m>>[2] = m
        OBVIOUS
    <2> QED
        BY <1>2, <1>3, <2>1, <2>2 DEF StrictSubsetOrdering
<1> QED
    BY Zenon, <1>3

\* Every member that is picked leaves a smaller set.
LEMMA Picked == ASSUME NEW t, t # {} PROVE Pick(t) \in t /\ t \ {Pick(t)} # t
BY Zenon DEF Pick

\* Two tables of sums agree where both are defined.
LEMMA SumsAgree ==
    ASSUME NEW S, IsFiniteSet(S), NEW c, NEW b, NEW r \in SUBSET S, NEW s \in SUBSET S,
           NEW g, IsSums(c, b, r, g), NEW h, IsSums(c, b, s, h),
           NEW t, t \subseteq r, t \subseteq s
    PROVE  g[t] = h[t]
<1> DEFINE Bad == {u \in SUBSET S : u \subseteq r /\ u \subseteq s /\ g[u] # h[u]}
<1>1. SUFFICES ASSUME Bad # {} PROVE FALSE
    BY Zenon
<1>2. PICK m \in Bad : \A u \in Bad : u \subseteq m => u = m
    <2>1. Bad \subseteq SUBSET S
        BY Zenon
    <2> HIDE DEF Bad
    <2> QED
        BY <1>1, <2>1, SmallestSet
<1>3. m # {}
    BY Zenon, <1>2 DEF IsSums
<1>4. Pick(m) \in m /\ m \ {Pick(m)} # m
    BY Zenon, <1>3, Picked
<1>5. g[m \ {Pick(m)}] = h[m \ {Pick(m)}]
    BY Zenon, <1>2, <1>4
<1>6. /\ g[m] = OverrunIn(c, Pick(m), b) + g[m \ {Pick(m)}]
      /\ h[m] = OverrunIn(c, Pick(m), b) + h[m \ {Pick(m)}]
    BY Zenon, <1>2, <1>3 DEF IsSums
<1> QED
    BY Zenon, <1>2, <1>5, <1>6

\* There is a table of sums for every finite set.
LEMMA SumsExist ==
    ASSUME NEW S, IsFiniteSet(S), NEW c, NEW b
    PROVE  \E sums : IsSums(c, b, S, sums)
<1> DEFINE Bad == {r \in SUBSET S : ~ \E sums : IsSums(c, b, r, sums)}
<1>1. SUFFICES ASSUME Bad # {} PROVE FALSE
    BY Zenon
<1>2. PICK m \in Bad : \A r \in Bad : r \subseteq m => r = m
    <2>1. Bad \subseteq SUBSET S
        BY Zenon
    <2> HIDE DEF Bad
    <2> QED
        BY <1>1, <2>1, SmallestSet
<1> DEFINE of(r) == CHOOSE sums : IsSums(c, b, r, sums)
           value(r) == IF r = {} THEN 0
                       ELSE OverrunIn(c, Pick(r), b) + of(r \ {Pick(r)})[r \ {Pick(r)}]
           whole == [r \in SUBSET m |-> value(r)]
<1>3. \A r \in SUBSET m : r # m => IsSums(c, b, r, of(r))
    BY Zenon, <1>2
<1>4. ASSUME NEW d \in SUBSET m, d # m PROVE whole[d] = of(d)[d]
    <2>1. d \in SUBSET S
        BY Zenon, <1>2
    <2>2. IsSums(c, b, d, of(d))
        BY Zenon, <1>3, <1>4
    <2>3. whole[d] = value(d)
        BY Zenon
    <2>4. CASE d = {}
        BY Zenon, <2>2, <2>3, <2>4 DEF IsSums
    <2>5. CASE d # {}
        <3>1. PICK r : r = d \ {Pick(d)}
            BY Zenon
        <3>2. /\ of(d)[d] = OverrunIn(c, Pick(d), b) + of(d)[r]
              /\ value(d) = OverrunIn(c, Pick(d), b) + of(r)[r]
            BY Zenon, <2>2, <2>5, <3>1 DEF IsSums
        <3>3. r \in SUBSET m /\ r # m /\ r \in SUBSET S /\ r \subseteq d
            BY Zenon, <1>4, <2>1, <2>5, <3>1, Picked
        <3>4. IsSums(c, b, r, of(r))
            BY Zenon, <1>3, <3>3
        <3>5. of(r)[r] = of(d)[r]
            <4>1. PICK g, h : g = of(d) /\ h = of(r)
                BY Zenon
            <4>2. IsSums(c, b, d, g) /\ IsSums(c, b, r, h) /\ r \subseteq r
                BY Zenon, <2>2, <3>4, <4>1
            <4>3. g[r] = h[r]
                BY <2>1, <3>3, <4>2, SumsAgree
            <4> QED
                BY Zenon, <4>1, <4>3
        <3> HIDE DEF of, value, whole
        <3> QED
            BY Zenon, <2>3, <3>2, <3>5
    <2> QED
        BY Zenon, <2>4, <2>5
<1>5. IsSums(c, b, m, whole)
    <2>1. \A r \in SUBSET m : value(r) =
              IF r = {} THEN 0 ELSE OverrunIn(c, Pick(r), b) + whole[r \ {Pick(r)}]
        <3>1. \A r \in SUBSET m : r # {} => r \ {Pick(r)} \in SUBSET m /\ r \ {Pick(r)} # m
            BY Zenon, Picked
        <3> HIDE DEF of, whole
        <3> QED
            BY Zenon, <1>4, <3>1
    <2>2. whole = [r \in SUBSET m |->
              IF r = {} THEN 0 ELSE OverrunIn(c, Pick(r), b) + whole[r \ {Pick(r)}]]
        <3> HIDE DEF value
        <3> QED
            BY Zenon, <2>1
    <2> HIDE DEF whole
    <2> QED
        BY Zenon, <2>2 DEF IsSums
<1> QED
    BY Zenon, <1>2, <1>5

\* Overruns is the sum of the table for all actions.
LEMMA OverrunsAre ==
    ASSUME NEW c, NEW b
    PROVE  \E sums : IsSums(c, b, Action, sums) /\ Overruns(c, b) = sums[Action]
<1> DEFINE it == CHOOSE g : IsSums(c, b, Action, g)
<1>1. Overruns(c, b) = it[Action]
    BY DEF Overruns, MapThenSumSet, MapThenFoldSet, IsSums, Pick
<1>2. IsSums(c, b, Action, it)
    BY Zenon, SumsExist, BudgetAssumption
<1> QED
    BY Zenon, <1>1, <1>2

\* The charges of one action are one term of the sum.
LEMMA OneChargeChanges ==
    ASSUME NEW b, NEW c, NEW d, NEW x \in Action,
           \A a \in Action : OverrunIn(c, a, b) \in Nat /\ OverrunIn(d, a, b) \in Nat,
           \A a \in Action \ {x} : OverrunIn(d, a, b) = OverrunIn(c, a, b)
    PROVE  /\ Overruns(c, b) \in Nat /\ Overruns(d, b) \in Nat
           /\ Overruns(d, b) = Overruns(c, b) + OverrunIn(d, x, b) - OverrunIn(c, x, b)
<1>1. PICK g : IsSums(c, b, Action, g) /\ Overruns(c, b) = g[Action]
    BY Zenon, OverrunsAre
<1>2. PICK h : IsSums(d, b, Action, h) /\ Overruns(d, b) = h[Action]
    BY Zenon, OverrunsAre
<1>3. PICK p, q : p = OverrunIn(c, x, b) /\ q = OverrunIn(d, x, b) /\ p \in Nat /\ q \in Nat
    BY Zenon
<1> DEFINE Fits(r) == /\ g[r] \in Nat /\ h[r] \in Nat
                      /\ h[r] = IF x \in r THEN g[r] + q - p ELSE g[r]
<1>4. SUFFICES ASSUME ~ Fits(Action) PROVE FALSE
    BY Zenon, <1>1, <1>2, <1>3
<1>5. PICK m \in SUBSET Action :
          ~ Fits(m) /\ \A r \in SUBSET Action : ~ Fits(r) /\ r \subseteq m => r = m
    <2> HIDE DEF Fits
    <2> DEFINE Bad == {r \in SUBSET Action : ~ Fits(r)}
    <2>1. Bad \subseteq SUBSET Action /\ Bad # {}
        BY Zenon, <1>4
    <2>2. PICK m \in Bad : \A r \in Bad : r \subseteq m => r = m
        <3>1. IsFiniteSet(Action)
            BY Zenon, BudgetAssumption
        <3> HIDE DEF Bad
        <3> QED
            BY <2>1, <3>1, SmallestSet
    <2> QED
        BY Zenon, <2>2
<1>6. m # {}
    <2>1. g[{}] = 0 /\ h[{}] = 0
        BY Zenon, <1>1, <1>2 DEF IsSums
    <2>2. Fits({})
        BY <2>1
    <2> HIDE DEF Fits
    <2> QED
        BY Zenon, <1>5, <2>2
<1>7. PICK rest, y : rest = m \ {y} /\ y = Pick(m)
    BY Zenon
<1>8. y \in m /\ y \in Action /\ rest # m /\ rest \in SUBSET Action
    <2> HIDE DEF Fits
    <2>1. y \in m
        BY Zenon, <1>6, <1>7, Picked
    <2> QED
        BY <1>7, <2>1
<1>9. Fits(rest)
    <2> HIDE DEF Fits
    <2> QED
        BY Zenon, <1>5, <1>7, <1>8
<1>10. PICK u, v : u = OverrunIn(c, y, b) /\ v = OverrunIn(d, y, b) /\ u \in Nat /\ v \in Nat
    BY Zenon, <1>8
<1>11. g[m] = u + g[rest] /\ h[m] = v + h[rest]
    BY Zenon, <1>1, <1>2, <1>6, <1>7, <1>10 DEF IsSums
<1>12. IF y = x THEN u = p /\ v = q ELSE u = v
    BY Zenon, <1>3, <1>8, <1>10
<1>13. /\ y = x => x \in m /\ x \notin rest
       /\ y # x => (x \in m <=> x \in rest)
    BY Zenon, <1>7, <1>8
<1>14. Fits(m)
    BY <1>3, <1>9, <1>10, <1>11, <1>12, <1>13
<1> HIDE DEF Fits
<1> QED
    BY Zenon, <1>5, <1>14

\* OverspendIsReported, now and after a step, by the sums of the charges.
LEMMA Overspending ==
    /\ OverspendIsReported <=>
           \A b \in Budget : spent[b] + reserved[b] <= Limit[b] + Overruns(charged, b)
    /\ OverspendIsReported' <=>
           \A b \in Budget : spent'[b] + reserved'[b] <= Limit[b] + Overruns(charged', b)
<1>1. /\ \A b \in Budget : Overruns(charged, b) = MapThenSumSet(LAMBDA a : Overrun(a, b), Action)
      /\ \A b \in Budget : Overruns(charged', b) = MapThenSumSet(LAMBDA a : Overrun(a, b)', Action)
    BY DEF Overruns, OverrunIn, Overrun, EstimateOf, MapThenSumSet, MapThenFoldSet
<1>2. OverspendIsReported <=>
          \A b \in Budget : spent[b] + reserved[b] <= Limit[b] + Overruns(charged, b)
    BY Zenon, <1>1 DEF OverspendIsReported
<1>3. OverspendIsReported' <=>
          \A b \in Budget : spent'[b] + reserved'[b] <= Limit[b] + Overruns(charged', b)
    BY Zenon, <1>1 DEF OverspendIsReported
<1> QED
    BY Zenon, <1>2, <1>3

\* An overrun is a number, and within the estimate there is none.
LEMMA OverrunsAreNumbers ==
    ASSUME NEW c \in [Action -> [Budget -> Nat]], NEW a \in Action, NEW b \in Budget
    PROVE  /\ OverrunIn(c, a, b) \in Nat
           /\ c[a][b] <= EstimateOf(b) => OverrunIn(c, a, b) = 0
           /\ c[a][b] <= EstimateOf(b) + OverrunIn(c, a, b)
<1>1. PICK n, e : n = c[a][b] /\ e = EstimateOf(b) /\ n \in Nat /\ e \in Nat
    BY Zenon, BudgetAssumption DEF EstimateOf
<1>2. OverrunIn(c, a, b) = IF n > e THEN n - e ELSE 0
    BY Zenon, <1>1 DEF OverrunIn
<1> QED
    BY <1>1, <1>2

\* A reservation is checked against the limit; a settlement gives back the estimate
\* and spends no more than that and the overrun (settle_model_call_reservations).
LEMMA StepOverspending ==
    ASSUME IndInv, OverspendIsReported, [Next]_vars
    PROVE  OverspendIsReported'
<1>1. /\ reserved \in [Budget -> Nat] /\ spent \in [Budget -> Nat]
      /\ reservation \in [Action -> [Budget -> ReservationStatus]]
      /\ charged \in [Action -> [Budget -> Nat]] /\ charged' \in [Action -> [Budget -> Nat]]
      /\ reserved' \in [Budget -> Nat] /\ spent' \in [Budget -> Nat]
      /\ TypeOK /\ FlightInv /\ CallsAgree /\ ChargesInv /\ UnchargedWhileHeld
    BY Zenon, StepInd, ChargesByCall DEF IndInv, TypeOK, LedgerTypeOK, FlightInv
<1>2. CASE UNCHANGED <<ledgerVars, charged>>
    <2>1. charged' = charged /\ spent' = spent /\ reserved' = reserved
        BY Zenon, <1>2 DEF ledgerVars
    <2> QED
        BY Zenon, <2>1, Overspending
<1>3. ASSUME NEW a \in Action, LedgerMoves(a), NEW b \in Budget
      PROVE  spent'[b] + reserved'[b] <= Limit[b] + Overruns(charged', b)
    <2>1. PICK e, l, s, r, t, u, f, g, p, q :
              /\ e = EstimateOf(b) /\ l = Limit[b]
              /\ s = spent[b] /\ r = reserved[b] /\ t = spent'[b] /\ u = reserved'[b]
              /\ f = Overruns(charged, b) /\ g = Overruns(charged', b)
              /\ p = OverrunIn(charged, a, b) /\ q = OverrunIn(charged', a, b)
        BY Zenon
    <2>2. e \in Nat /\ l \in Nat /\ s \in Nat /\ r \in Nat /\ t \in Nat /\ u \in Nat
        BY Zenon, <1>1, <2>1, BudgetAssumption DEF EstimateOf
    <2>3. /\ \A c \in Action : OverrunIn(charged, c, b) \in Nat /\ OverrunIn(charged', c, b) \in Nat
          /\ \A c \in Action \ {a} : OverrunIn(charged', c, b) = OverrunIn(charged, c, b)
        <3>1. \A c \in Action \ {a} : charged'[c] = charged[c]
            BY Zenon, <1>1, <1>3, MovesOneHolder
        <3> QED
            BY Zenon, <1>1, <3>1, OverrunsAreNumbers DEF OverrunIn
    <2>4. f \in Nat /\ g \in Nat /\ p \in Nat /\ q \in Nat /\ g = f + q - p
        <3>1. PICK c, d : c = charged /\ d = charged'
            BY Zenon
        <3>2. /\ \A x \in Action : OverrunIn(c, x, b) \in Nat /\ OverrunIn(d, x, b) \in Nat
              /\ \A x \in Action \ {a} : OverrunIn(d, x, b) = OverrunIn(c, x, b)
            BY Zenon, <2>3, <3>1
        <3>3. /\ Overruns(c, b) \in Nat /\ Overruns(d, b) \in Nat
              /\ Overruns(d, b) = Overruns(c, b) + OverrunIn(d, a, b) - OverrunIn(c, a, b)
            BY <3>2, OneChargeChanges
        <3> QED
            BY Zenon, <2>1, <3>1, <3>2, <3>3
    <2>5. s + r <= l + f
        BY Zenon, <2>1, Overspending
    <2>6. SUFFICES t + u <= l + g
        BY Zenon, <2>1
    <2>7. CASE ReserveBudgets(a) /\ UNCHANGED charged
        <3>1. t = s /\ g = f
            BY Zenon, <2>1, <2>7 DEF ReserveBudgets
        <3>2. CASE b \in Applicable(a)
            <4>1. u = r + e /\ s + r + e <= l
                BY Zenon, <1>1, <2>1, <2>7, <3>2 DEF ReserveBudgets, HasRoom
            <4> QED
                BY <2>2, <2>4, <3>1, <4>1
        <3>3. CASE b \notin Applicable(a)
            <4>1. u = r
                BY Zenon, <1>1, <2>1, <2>7, <3>3 DEF ReserveBudgets
            <4> QED
                BY Zenon, <2>5, <3>1, <4>1
        <3> QED
            BY Zenon, <3>2, <3>3
    <2>8. ASSUME NEW st \in {"released", "committed"}, NEW charge \in [Budget -> Nat],
                 SettleReservations(a, st, charge)
          PROVE  t + u <= l + g
        <3>1. /\ u = IF b \in Held(a) THEN r - e ELSE r
              /\ t = IF b \in Held(a) THEN s + charge[b] ELSE s
              /\ charged'[a][b] = IF b \in Held(a) THEN charge[b] ELSE charged[a][b]
            BY Zenon, <1>1, <2>1, <2>8 DEF SettleReservations, Unreserve, SpentWith
        <3>2. CASE b \in Held(a)
            <4>1. r >= e
                BY Zenon, <2>1, <2>8, <3>2 DEF SettleReservations, Reconcilable
            <4>2. charged[a][b] = 0
                BY Zenon, <1>1, <3>2 DEF UnchargedWhileHeld, Held
            <4>3. 0 <= EstimateOf(b)
                BY <2>1, <2>2
            <4>4. p = 0
                BY Zenon, <1>1, <2>1, <4>2, <4>3, OverrunsAreNumbers
            <4>5. charge[b] <= e + q
                BY Zenon, <1>1, <2>1, <3>1, <3>2, OverrunsAreNumbers
            <4>6. u = r - e /\ t = s + charge[b] /\ charge[b] \in Nat
                BY Zenon, <3>1, <3>2
            <4> QED
                BY <2>2, <2>4, <2>5, <4>1, <4>4, <4>5, <4>6
        <3>3. CASE b \notin Held(a)
            <4>1. q = p
                BY Zenon, <2>1, <3>1, <3>3 DEF OverrunIn
            <4> QED
                BY <2>2, <2>4, <2>5, <3>1, <3>3, <4>1
        <3> QED
            BY Zenon, <3>2, <3>3
    <2>9. ASSUME a \notin Call, NEW committed \in BOOLEAN, ActionSettled(a, committed)
          PROVE  t + u <= l + g
        <3>1. /\ u = IF b \in Held(a) THEN r - e ELSE r
              /\ t = IF b \in Spends(a, committed) THEN s + e ELSE s
              /\ charged'[a][b] = IF b \in Spends(a, committed) THEN EstimateOf(b) ELSE 0
            BY Zenon, <1>1, <2>1, <2>9 DEF ActionSettled, SettleActionReservations, Unreserve
        <3>2. b \in Held(a) => r >= e
            BY Zenon, <2>1, <2>9 DEF ActionSettled, SettleActionReservations, Reconcilable
        <3>3. b \in Spends(a, committed) => b \in Held(a)
            BY Zenon DEF Spends
        <3>4. charged'[a][b] <= EstimateOf(b)
            BY <2>1, <2>2, <3>1
        <3>5. p = 0 /\ q = 0
            BY Zenon, <1>1, <2>1, <2>9, <3>4, OverrunsAreNumbers DEF UnchargedWhileHeld
        <3> QED
            BY <2>2, <2>4, <2>5, <3>1, <3>2, <3>3, <3>5
    <2> QED
        BY Zenon, <1>3, <2>7, <2>8, <2>9 DEF LedgerMoves
<1>4. CASE \E a \in Action : LedgerMoves(a)
    BY Zenon, <1>3, <1>4, Overspending
<1> QED
    BY Zenon, <1>1, <1>2, <1>4, StepLedger

\* Before the first call nothing is held or spent.
LEMMA InitOverspending == Init => OverspendIsReported
<1> SUFFICES ASSUME Init, NEW b \in Budget
             PROVE  spent[b] + reserved[b] <= Limit[b] + Overruns(charged, b)
    BY Zenon, Overspending
<1>1. spent[b] = 0 /\ reserved[b] = 0 /\ Limit[b] \in Nat
    BY Zenon, BudgetAssumption DEF Init, LedgerInit
<1>2. charged \in [Action -> [Budget -> Nat]]
    BY Zenon, InitInd DEF IndInv, TypeOK
<1>3. Overruns(charged, b) \in Nat
    <2>1. CASE Action = {}
        <3>1. PICK sums : IsSums(charged, b, {}, sums) /\ Overruns(charged, b) = sums[{}]
            BY Zenon, <2>1, OverrunsAre
        <3>2. sums[{}] = 0
            BY Zenon, <3>1 DEF IsSums
        <3> QED
            BY <3>1, <3>2
    <2>2. ASSUME NEW x \in Action PROVE Overruns(charged, b) \in Nat
        <3>1. \A a \in Action : OverrunIn(charged, a, b) \in Nat
            BY Zenon, <1>2, OverrunsAreNumbers
        <3>2. PICK c : c = charged
            BY Zenon
        <3>3. \A a \in Action : OverrunIn(c, a, b) \in Nat
            BY Zenon, <3>1, <3>2
        <3>4. Overruns(c, b) \in Nat
            BY Zenon, <3>3, OneChargeChanges
        <3> QED
            BY Zenon, <3>2, <3>4
    <2> QED
        BY Zenon, <2>1, <2>2
<1> QED
    BY <1>1, <1>3

\* reserve_budgets checks the limit, settle_model_call_reservations checks nothing:
\* for any calls, actions, scopes and reported usage, in any order, a budget goes
\* past its limit by no more than what providers reported beyond the estimates.
THEOREM OverspendingIsReported == Spec => []OverspendIsReported
<1>1. IndInv /\ OverspendIsReported /\ [Next]_vars => OverspendIsReported'
    BY Zenon, StepOverspending
<1> QED
    BY <1>1, InitOverspending, ModelCallsCorrect, PTL DEF Spec
=============================================================================
