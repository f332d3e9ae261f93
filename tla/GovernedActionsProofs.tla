----------------------- MODULE GovernedActionsProofs ------------------------
(***************************************************************************)
(* The safety of governed actions for any finite set of actions, any       *)
(* workers, operators, budgets and limits.  Every operation keeps rows,    *)
(* memory and messages well typed, the rows of an action in agreement, and *)
(* claims, executions and answers accounted for.  The budget ledger is     *)
(* correct, every step of the governed actions is a step of the ledger or  *)
(* leaves it alone, final states are final, and a lone operator stays      *)
(* within the redrive allowance.                                           *)
(***************************************************************************)
EXTENDS GovernedActions, TLAPS

(* Types. *)

\* Reservations keep their types under the three ledger operations, whoever
\* calls them.
LEMMA LedgerTypes ==
    ASSUME LedgerTypeOK, NEW a,
           \/ ReserveBudgets(a)
           \/ ReleaseActionReservations(a)
           \/ \E c \in BOOLEAN : SettleActionReservations(a, c)
           \/ UNCHANGED ledgerVars
    PROVE  LedgerTypeOK'
<1> USE BudgetAssumption DEF LedgerTypeOK, EstimateOf
<1>1. CASE ReserveBudgets(a)
    <2>1. reserved' \in [Budget -> Nat]
        BY <1>1 DEF ReserveBudgets
    <2>2. reservation' \in [Action -> [Budget -> ReservationStatus]]
        BY Zenon, <1>1 DEF ReserveBudgets, ReservationStatus
    <2> QED
        BY Zenon, <1>1, <2>1, <2>2 DEF ReserveBudgets
<1>2. CASE ReleaseActionReservations(a)
    <2>1. reserved' \in [Budget -> Nat]
        BY <1>2 DEF ReleaseActionReservations, Reconcilable, Unreserve, Held
    <2>2. reservation' \in [Action -> [Budget -> ReservationStatus]]
        BY Zenon, <1>2 DEF ReleaseActionReservations, ReservationStatus
    <2> QED
        BY Zenon, <1>2, <2>1, <2>2 DEF ReleaseActionReservations
<1>3. ASSUME NEW c \in BOOLEAN, SettleActionReservations(a, c)
      PROVE  LedgerTypeOK'
    <2>1. reserved' \in [Budget -> Nat]
        BY <1>3 DEF SettleActionReservations, Reconcilable, Unreserve, Held
    <2>2. spent' \in [Budget -> Nat]
        BY <1>3 DEF SettleActionReservations
    <2>3. reservation' \in [Action -> [Budget -> ReservationStatus]]
        BY Zenon, <1>3 DEF SettleActionReservations, ReservationStatus
    <2> QED
        BY Zenon, <2>1, <2>2, <2>3
<1>4. CASE UNCHANGED ledgerVars
    BY Zenon, <1>4 DEF ledgerVars
<1> QED
    BY Zenon, <1>1, <1>2, <1>3, <1>4

\* Each operation keeps every row and message well typed.
LEMMA CreateTypes ==
    ASSUME TypeOK, NEW a \in Action, NEW p, CreateGovernedAction(a, p)
    PROVE  TypeOK'
<1>1. LedgerTypeOK'
    BY Zenon, LedgerTypes DEF CreateGovernedAction, TypeOK
<1>2. state' \in [Action -> ActionStates] /\ run' \in [Action -> RunStates]
    BY DEF TypeOK, CreateGovernedAction, ActionStates, RunStates
<1>3. /\ approval' \in [Action -> ApprovalStates]
      /\ ready' \in [Action -> {"none", "ready", "dispatched", "processed"}]
    BY Zenon DEF TypeOK, CreateGovernedAction, ApprovalStates
<1> QED
    BY Zenon, <1>1, <1>2, <1>3 DEF TypeOK, CreateGovernedAction, historyVars

\* decide_approval with an approval.
LEMMA ApproveTypes ==
    ASSUME TypeOK, NEW a \in Action, Approve(a)
    PROVE  TypeOK'
<1>1. LedgerTypeOK'
    BY Zenon, LedgerTypes DEF Approve, TypeOK
<1> QED
    BY Zenon, <1>1 DEF TypeOK, Approve, ActionStates, RunStates, ApprovalStates, historyVars

\* decide_approval with a denial, and cancel_run.
LEMMA RejectTypes ==
    ASSUME TypeOK, NEW a \in Action, RejectBeforeEffect(a)
    PROVE  TypeOK'
<1>1. LedgerTypeOK'
    BY Zenon, LedgerTypes DEF RejectBeforeEffect, TypeOK
<1> QED
    BY Zenon, <1>1 DEF TypeOK, RejectBeforeEffect, ActionStates, RunStates, ApprovalStates, historyVars

\* A tool request refused for its budgets.
LEMMA LeaveTypes ==
    ASSUME TypeOK, NEW a \in Action, LeaveRunAuthorizing(a)
    PROVE  TypeOK'
<1>1. LedgerTypeOK'
    BY Zenon DEF LeaveRunAuthorizing, TypeOK, LedgerTypeOK, ledgerVars
<1> QED
    BY Zenon, <1>1 DEF TypeOK, LeaveRunAuthorizing, RunStates, historyVars

\* expire_workflow_tool_call, of an action nobody has claimed.
LEMMA ExpireTypes ==
    ASSUME TypeOK, NEW a \in Action, ExpireBeforeEffect(a)
    PROVE  TypeOK'
<1>1. LedgerTypeOK'
    BY Zenon, LedgerTypes DEF ExpireBeforeEffect, TypeOK
<1>2. approval' \in [Action -> ApprovalStates] /\ ready' \in [Action -> {"none", "ready", "dispatched", "processed"}]
    BY Zenon DEF TypeOK, ExpireBeforeEffect, ApprovalStates
<1> QED
    BY Zenon, <1>1, <1>2 DEF TypeOK, ExpireBeforeEffect, ActionStates, RunStates, ErrorCodes, historyVars

\* The unlocked read of redrive_dead_letter.
LEMMA LoadTypes ==
    ASSUME TypeOK, NEW a \in Action, NEW o \in Operator, LoadDeadLetter(o, a)
    PROVE  TypeOK'
<1>1. PICK v \in 1 .. deadLetter[a].version :
        redrive' = [redrive EXCEPT ![o] = [action |-> a, row |-> deadLetter[a], expected |-> v]]
    BY Zenon DEF LoadDeadLetter
<1>2. deadLetter[a].version \in Nat
    BY Zenon DEF TypeOK, DeadLetterRows
<1>3. v \in Nat
    BY <1>2
<1>4. [action |-> a, row |-> deadLetter[a], expected |-> v] \in LoadedRows
    BY Zenon, <1>3 DEF TypeOK, LoadedRows
<1>5. redrive' \in [Operator -> LoadedRows]
    BY Zenon, <1>1, <1>4 DEF TypeOK
<1>6. LedgerTypeOK'
    BY Zenon, LedgerTypes DEF LoadDeadLetter, TypeOK
<1> QED
    BY Zenon, <1>5, <1>6 DEF TypeOK, LoadDeadLetter, rowVars, historyVars

\* redrive_dead_letter under its locks, accepted or refused.
LEMMA RedriveTypes ==
    ASSUME TypeOK, NEW o \in Operator, RedriveDeadLetter(o)
    PROVE  TypeOK'
<1> DEFINE a == redrive[o].action
           row == redrive[o].row
<1>1. redrive' \in [Operator -> LoadedRows]
    BY Zenon DEF TypeOK, RedriveDeadLetter, NoRedrive, NoDeadLetter, DeadLetterRows, LoadedRows
<1>2. row \in DeadLetterRows
    BY Zenon DEF TypeOK, LoadedRows
<1> HIDE DEF a, row
<1>3. CASE AcceptRedrive(a, row)
    <2>1. LedgerTypeOK'
        BY Zenon, <1>3, LedgerTypes DEF AcceptRedrive, TypeOK
    <2>2. [status |-> "redriven", redrives |-> row.redrives + 1,
           version |-> row.version + 1] \in DeadLetterRows
        BY <1>2 DEF DeadLetterRows
    <2>3. deadLetter' \in [Action -> DeadLetterRows]
        BY Zenon, <1>3, <2>2 DEF TypeOK, AcceptRedrive
    <2> QED
        BY <1>1, <1>3, <2>1, <2>3 DEF TypeOK, AcceptRedrive, ActionStates, RunStates, ErrorCodes
<1>4. CASE UNCHANGED <<rowVars, lapsed, worker, request, effect, historyVars, ledgerVars>>
    <2>1. LedgerTypeOK'
        BY Zenon, <1>4, LedgerTypes DEF TypeOK
    <2> QED
        BY Zenon, <1>1, <1>4, <2>1 DEF TypeOK, rowVars, historyVars
<1> QED
    BY Zenon, <1>3, <1>4 DEF RedriveDeadLetter, a, row

\* What a claim leaves in the worker's memory.
LEMMA TakenTypes ==
    ASSUME TypeOK, NEW w \in Worker, NEW a \in Action, NEW m \in Modes, Take(w, a, m)
    PROVE  /\ worker' \in [Worker -> WorkerMemory]
           /\ claim' \in [Action -> Nat]
           /\ lease' \in [Action -> {"none", "live", "expired"}]
<1>1. claim[a] + 1 \in Nat
    BY DEF TypeOK
<1>2. [IdleWorker EXCEPT !.pc = "claimed", !.action = a,
                         !.claim = claim[a] + 1, !.mode = m] \in WorkerMemory
    BY Zenon, <1>1 DEF WorkerMemory, IdleWorker, Replies
<1> QED
    BY <1>2 DEF TypeOK, Take

\* The worker's claim of an action.ready event.
LEMMA ClaimReadyTypes ==
    ASSUME TypeOK, NEW w \in Worker, NEW a \in Action, ClaimReady(w, a)
    PROVE  TypeOK'
<1>1. LedgerTypeOK'
    BY Zenon, LedgerTypes DEF ClaimReady, TypeOK
<1>2. /\ state' \in [Action -> ActionStates] /\ run' \in [Action -> RunStates]
      /\ ready' \in [Action -> {"none", "ready", "dispatched", "processed"}]
      /\ attempts' \in [Action -> Nat]
    BY DEF TypeOK, ClaimReady, ActionStates, RunStates
<1>3. /\ worker' \in [Worker -> WorkerMemory]
      /\ claim' \in [Action -> Nat]
      /\ lease' \in [Action -> {"none", "live", "expired"}]
    BY Zenon, TakenTypes DEF ClaimReady, Modes
<1> QED
    BY Zenon, <1>1, <1>2, <1>3 DEF TypeOK, ClaimReady, historyVars

\* The worker's claim of an expired execution or a due ambiguity.
LEMMA ClaimReconciliationTypes ==
    ASSUME TypeOK, NEW w \in Worker, NEW a \in Action, ClaimReconciliation(w, a)
    PROVE  TypeOK'
<1>1. LedgerTypeOK'
    BY Zenon, LedgerTypes DEF ClaimReconciliation, TypeOK
<1>2. /\ state' \in [Action -> ActionStates]
      /\ cycle' \in [Action -> Nat]
    BY DEF TypeOK, ClaimReconciliation, ActionStates
<1>3. /\ worker' \in [Worker -> WorkerMemory]
      /\ claim' \in [Action -> Nat]
      /\ lease' \in [Action -> {"none", "live", "expired"}]
    BY Zenon, TakenTypes DEF ClaimReconciliation, Modes
<1> QED
    BY Zenon, <1>1, <1>2, <1>3 DEF TypeOK, ClaimReconciliation, historyVars

\* Steps that change only memory and messages: a worker's record, the set of
\* requests, the effect and the history of what was sent.
LEMMA MessageTypes ==
    ASSUME TypeOK, worker' \in [Worker -> WorkerMemory], request' \subseteq Requests,
           effect' \in [Action -> BOOLEAN], sent' \in [Action -> Nat],
           UNCHANGED <<rowVars, lapsed, redrive, redriven, ledgerVars>>
    PROVE  TypeOK'
<1>1. LedgerTypeOK'
    BY Zenon, LedgerTypes DEF TypeOK
<1> QED
    BY Zenon, <1>1 DEF TypeOK, rowVars

\* A worker with its answer.
LEMMA AnsweredTypes ==
    ASSUME worker \in [Worker -> WorkerMemory], NEW w \in Worker, NEW x \in Replies
    PROVE  [worker EXCEPT ![w].pc = "answered", ![w].reply = x] \in [Worker -> WorkerMemory]
<1>1. worker[w] \in WorkerMemory
    BY Zenon
<1>2. [worker[w] EXCEPT !.pc = "answered", !.reply = x] \in WorkerMemory
    BY Zenon, <1>1 DEF WorkerMemory
<1>3. [worker EXCEPT ![w] = [worker[w] EXCEPT !.pc = "answered", !.reply = x]]
        \in [Worker -> WorkerMemory]
    BY Zenon, <1>2
<1> QED
    BY Zenon, <1>3

\* The worker steps that write no row: dispatch, an unknown outcome, a stale
\* settlement and a crash.
LEMMA WorkerTypes ==
    ASSUME TypeOK, NEW w \in Worker,
           \/ Dispatch(w) \/ OutcomeUnknown(w) \/ WorkerFails(w) \/ SettleStale(w)
    PROVE  TypeOK'
<1>1. IdleWorker \in WorkerMemory
    BY Zenon DEF IdleWorker, WorkerMemory, Modes, Replies
<1>2. worker' \in [Worker -> WorkerMemory]
    <2>1. CASE Dispatch(w)
        BY SMTT(30), <2>1 DEF TypeOK, Dispatch, WorkerMemory
    <2>2. CASE OutcomeUnknown(w)
        BY Zenon, <2>2, AnsweredTypes DEF TypeOK, OutcomeUnknown, Replies
    <2>3. CASE WorkerFails(w) \/ SettleStale(w)
        BY Zenon, <1>1, <2>3 DEF TypeOK, WorkerFails, SettleStale
    <2> QED
        BY Zenon, <2>1, <2>2, <2>3
<1>3. request' \subseteq Requests
    <2>1. CASE Dispatch(w)
        <3>1. [action |-> worker[w].action, claim |-> worker[w].claim,
               mode |-> worker[w].mode, stage |-> "received"] \in Requests
            BY Zenon DEF TypeOK, Requests, WorkerMemory
        <3> QED
            BY Zenon, <2>1, <3>1 DEF TypeOK, Dispatch
    <2>2. CASE OutcomeUnknown(w) \/ WorkerFails(w)
        BY Zenon, <2>2 DEF TypeOK, OutcomeUnknown, WorkerFails, StopWaiting
    <2>3. CASE SettleStale(w)
        BY Zenon, <2>3 DEF TypeOK, SettleStale
    <2> QED
        BY Zenon, <2>1, <2>2, <2>3
<1>4. UNCHANGED <<rowVars, lapsed, redrive, effect, sent, redriven, ledgerVars>>
    BY Zenon DEF Dispatch, OutcomeUnknown, WorkerFails, SettleStale, historyVars
<1>5. effect' \in [Action -> BOOLEAN] /\ sent' \in [Action -> Nat]
    BY Zenon, <1>4 DEF TypeOK
<1> QED
    BY Zenon, <1>2, <1>3, <1>4, <1>5, MessageTypes

\* An answer of the gateway ends its request and may reach its worker.
LEMMA AnswerTypes ==
    ASSUME TypeOK, NEW r \in request, NEW x \in Replies, Answer(r, x)
    PROVE  worker' \in [Worker -> WorkerMemory] /\ request' \subseteq Requests
<1>1. request' \subseteq Requests
    BY Zenon DEF TypeOK, Answer
<1>2. CASE UNCHANGED worker
    BY Zenon, <1>1, <1>2 DEF TypeOK
<1>3. ASSUME NEW w \in Worker,
             worker' = [worker EXCEPT ![w].pc = "answered", ![w].reply = x]
      PROVE  worker' \in [Worker -> WorkerMemory]
    BY Zenon, <1>3, AnsweredTypes DEF TypeOK
<1> QED
    BY Zenon, <1>1, <1>2, <1>3 DEF Answer

\* The gateway and the provider.
LEMMA NetworkTypes ==
    ASSUME TypeOK, NEW r \in request,
           \/ GatewayAuthorizes(r) \/ GatewayDenies(r) \/ ProviderCommits(r)
           \/ ProviderRejects(r) \/ ProviderLooksUp(r)
    PROVE  TypeOK'
<1>1. CASE GatewayAuthorizes(r)
    <2> r \in Requests
        BY Zenon DEF TypeOK
    <2>1. [r EXCEPT !.stage = "egress"] \in Requests
        BY Zenon DEF Requests
    <2>2. request' \subseteq Requests
        BY Zenon, <1>1, <2>1 DEF TypeOK, GatewayAuthorizes
    <2>3. sent' \in [Action -> Nat]
        <3>1. sent \in [Action -> Nat]
            BY Zenon DEF TypeOK
        <3>2. sent' = IF r.mode = "execute" THEN [sent EXCEPT ![r.action] = @ + 1] ELSE sent
            BY Zenon, <1>1 DEF GatewayAuthorizes
        <3>3. CASE r.mode = "execute"
            <4>1. r.action \in Action => sent[r.action] + 1 \in Nat
                BY <3>1
            <4> QED
                BY Zenon, <3>1, <3>2, <3>3, <4>1
        <3>4. CASE r.mode # "execute"
            BY Zenon, <3>1, <3>2, <3>4
        <3> QED
            BY Zenon, <3>3, <3>4
    <2> QED
        BY Zenon, <1>1, <2>2, <2>3, MessageTypes DEF TypeOK, GatewayAuthorizes
<1>2. CASE ProviderCommits(r)
    <2>1. Answer(r, "committed") /\ "committed" \in Replies
        BY Zenon, <1>2 DEF ProviderCommits, Replies
    <2>2. effect' \in [Action -> BOOLEAN] /\ sent' \in [Action -> Nat]
        BY Zenon, <1>2 DEF TypeOK, ProviderCommits
    <2> QED
        BY Zenon, <2>1, <2>2, AnswerTypes, MessageTypes DEF Answer
<1>3. CASE GatewayDenies(r) \/ ProviderRejects(r) \/ ProviderLooksUp(r)
    <2>1. PICK x \in Replies : Answer(r, x)
        BY Zenon, <1>3 DEF GatewayDenies, ProviderRejects, ProviderLooksUp, Replies
    <2>2. effect' \in [Action -> BOOLEAN] /\ sent' \in [Action -> Nat]
        BY Zenon, <1>3 DEF TypeOK, GatewayDenies, ProviderRejects, ProviderLooksUp
    <2> QED
        BY Zenon, <2>1, <2>2, AnswerTypes, MessageTypes DEF Answer
<1> QED
    BY Zenon, <1>1, <1>2, <1>3

\* Leases, reconciliation delays, approvals and policy decisions lapsing.
LEMMA ClockTypes ==
    ASSUME TypeOK, NEW a \in Action,
           \/ LeaseExpires(a) \/ ReconciliationDue(a)
           \/ \E what \in {"approval", "governance"} : Lapse(a, what)
    PROVE  TypeOK'
<1>1. LedgerTypeOK'
    BY Zenon, LedgerTypes DEF TypeOK, LeaseExpires, ReconciliationDue, Lapse
<1>2. CASE LeaseExpires(a)
    BY Zenon, <1>1, <1>2 DEF TypeOK, LeaseExpires, historyVars
<1>3. CASE ReconciliationDue(a)
    BY Zenon, <1>1, <1>3 DEF TypeOK, ReconciliationDue, historyVars
<1>4. ASSUME NEW what \in {"approval", "governance"}, Lapse(a, what)
      PROVE  TypeOK'
    <2>1. lapsed' \in [Action -> SUBSET {"approval", "governance"}]
        BY Zenon, <1>4 DEF TypeOK, Lapse
    <2> QED
        BY Zenon, <1>1, <1>4, <2>1 DEF TypeOK, Lapse, rowVars, historyVars
<1> QED
    BY Zenon, <1>2, <1>3, <1>4
\* The three outcomes settle records.
LEMMA CloseTypes ==
    ASSUME TypeOK, NEW a, CloseAction(a), LedgerTypeOK',
           state' \in [Action -> ActionStates], run' \in [Action -> RunStates]
    PROVE  /\ ready' \in [Action -> {"none", "ready", "dispatched", "processed"}]
           /\ deadLetter' \in [Action -> DeadLetterRows]
           /\ evidence' \in [Action -> {NoEvidence} \cup EvidenceBundles]
           /\ due' \in [Action -> BOOLEAN]
           /\ cycle' \in [Action -> Nat]
<1>1. /\ ready' \in [Action -> {"none", "ready", "dispatched", "processed"}]
      /\ due' \in [Action -> BOOLEAN]
      /\ cycle' \in [Action -> Nat]
    BY Zenon DEF TypeOK, CloseAction
<1>2. deadLetter' \in [Action -> DeadLetterRows]
    <2>1. \A d \in DeadLetterRows : Resolved(d) \in DeadLetterRows
        BY DEF DeadLetterRows, Resolved
    <2> QED
        BY Zenon, <2>1 DEF TypeOK, CloseAction
<1>3. a \in Action => CreateEvidence(a) \in EvidenceBundles
    <2> SUFFICES ASSUME a \in Action PROVE CreateEvidence(a) \in EvidenceBundles
        BY Zenon
    <2>1. /\ run'[a] \in RunStates /\ state'[a] \in ActionStates
          /\ approval[a] \in ApprovalStates
          /\ reservation'[a] \in [Budget -> ReservationStatus]
          /\ deadLetter'[a] \in DeadLetterRows
          /\ attempts[a] \in Nat
        BY Zenon, <1>2 DEF TypeOK, LedgerTypeOK
    <2> QED
        BY Zenon, <2>1 DEF CreateEvidence, EvidenceBundles
<1>4. evidence' \in [Action -> {NoEvidence} \cup EvidenceBundles]
    <2>1. evidence' = [evidence EXCEPT ![a] = CreateEvidence(a)]
        BY Zenon DEF CloseAction
    <2>2. evidence \in [Action -> {NoEvidence} \cup EvidenceBundles]
        BY Zenon DEF TypeOK
    <2> QED
        BY Zenon, <1>3, <2>1, <2>2
<1> QED
    BY Zenon, <1>1, <1>2, <1>4

\* settle, whatever the reply.
LEMMA SettleTypes ==
    ASSUME TypeOK, NEW w \in Worker, Settle(w)
    PROVE  TypeOK'
<1> DEFINE a == worker[w].action
<1>1. worker' \in [Worker -> WorkerMemory]
    BY Zenon DEF TypeOK, Settle, IdleWorker, WorkerMemory, Modes, Replies
<1>2. lease' \in [Action -> {"none", "live", "expired"}]
    BY Zenon DEF TypeOK, Settle
<1>3. UNCHANGED <<approval, claim, attempts, lapsed, redrive, request, effect, sent, redriven>>
    BY Zenon DEF Settle, historyVars
<1>4. \/ SettleCommitted(a)
      \/ \E x \in {"rejected", "absent", "denied"} : SettleFailed(a, x)
      \/ SettleAmbiguous(a, worker[w].mode)
    BY Zenon DEF Settle
<1> HIDE DEF a
<1>5. CASE SettleCommitted(a)
    <2>1. LedgerTypeOK'
        BY Zenon, <1>5, LedgerTypes DEF TypeOK, SettleCommitted
    <2>2. /\ state' \in [Action -> ActionStates] /\ run' \in [Action -> RunStates]
          /\ errorCode' \in [Action -> ErrorCodes]
        BY Zenon, <1>5 DEF TypeOK, SettleCommitted, ActionStates, RunStates, ErrorCodes
    <2>3. CloseAction(a)
        BY Zenon, <1>5 DEF SettleCommitted
    <2> QED
        BY Zenon, <1>1, <1>2, <1>3, <2>1, <2>2, <2>3, CloseTypes DEF TypeOK
<1>6. ASSUME NEW x \in {"rejected", "absent", "denied"}, SettleFailed(a, x)
      PROVE  TypeOK'
    <2>1. LedgerTypeOK'
        BY Zenon, <1>6, LedgerTypes DEF TypeOK, SettleFailed
    <2>2. FailureCode(x) \in ErrorCodes
        BY Zenon DEF FailureCode, ErrorCodes
    <2>3. /\ state' \in [Action -> ActionStates] /\ run' \in [Action -> RunStates]
          /\ errorCode' \in [Action -> ErrorCodes]
        BY Zenon, <1>6, <2>2 DEF TypeOK, SettleFailed, ActionStates, RunStates
    <2>4. CloseAction(a)
        BY Zenon, <1>6 DEF SettleFailed
    <2> QED
        BY Zenon, <1>1, <1>2, <1>3, <2>1, <2>3, <2>4, CloseTypes DEF TypeOK
<1>7. CASE SettleAmbiguous(a, worker[w].mode)
    <2>1. LedgerTypeOK'
        BY Zenon, <1>7, LedgerTypes DEF TypeOK, SettleAmbiguous
    <2>2. UNCHANGED <<cycle, evidence>> /\ errorCode' \in [Action -> ErrorCodes]
        BY Zenon, <1>7 DEF TypeOK, SettleAmbiguous, ErrorCodes
    <2>3. \A d \in DeadLetterRows : Opened(d) \in DeadLetterRows
        BY DEF DeadLetterRows, Opened
    <2>4. /\ state' \in [Action -> ActionStates] /\ run' \in [Action -> RunStates]
          /\ due' \in [Action -> BOOLEAN]
          /\ ready' \in [Action -> {"none", "ready", "dispatched", "processed"}]
          /\ deadLetter' \in [Action -> DeadLetterRows]
        <3>1. CASE OpenDeadLetter(a)
            BY Zenon, <2>3, <3>1 DEF TypeOK, OpenDeadLetter, ActionStates, RunStates
        <3>2. CASE RequireReconciliation(a)
            BY Zenon, <3>2 DEF TypeOK, RequireReconciliation, ActionStates, RunStates
        <3> QED
            BY Zenon, <1>7, <3>1, <3>2 DEF SettleAmbiguous
    <2> QED
        BY Zenon, <1>1, <1>2, <1>3, <2>1, <2>2, <2>4 DEF TypeOK
<1> QED
    BY Zenon, <1>4, <1>5, <1>6, <1>7

-----------------------------------------------------------------------------
(* Rows: approval, run, outbox, reservations, dead letter and evidence. *)

\* What the ledger operations do to the reservation rows of their action, and
\* that they leave the rows of the others alone.
LEMMA ReservedRows ==
    ASSUME LedgerTypeOK, NEW a \in Action, ReserveBudgets(a)
    PROVE  /\ \A b \in Budget :
                reservation'[a][b] = IF b \in Applicable(a) THEN "active" ELSE "none"
           /\ \A c \in Action \ {a} : reservation'[c] = reservation[c]
BY Zenon DEF LedgerTypeOK, ReserveBudgets

\* A release of everything the action holds.
LEMMA ReleasedRows ==
    ASSUME LedgerTypeOK, NEW a \in Action, ReleaseActionReservations(a),
           \A b \in Budget : reservation[a][b] = IF b \in Applicable(a) THEN "active" ELSE "none"
    PROVE  /\ \A b \in Budget :
                reservation'[a][b] = IF b \in Applicable(a) THEN "released" ELSE "none"
           /\ \A c \in Action \ {a} : reservation'[c] = reservation[c]
BY Zenon DEF LedgerTypeOK, ReleaseActionReservations, Held

\* A settlement: consumed resources are charged, held ones given back.
LEMMA SettledRows ==
    ASSUME LedgerTypeOK, NEW a \in Action, NEW k \in BOOLEAN, SettleActionReservations(a, k),
           \A b \in Budget : reservation[a][b] = IF b \in Applicable(a) THEN "active" ELSE "none"
    PROVE  /\ \A b \in Budget :
                reservation'[a][b] =
                    IF b \notin Applicable(a) THEN "none"
                    ELSE IF k /\ ResourceOf[b] \notin Releasable THEN "committed"
                    ELSE "released"
           /\ \A c \in Action \ {a} : reservation'[c] = reservation[c]
BY Zenon DEF LedgerTypeOK, SettleActionReservations, Spends, Held

-----------------------------------------------------------------------------
(* The rows of one action.                                                 *)

RowsOf(a) == <<state[a], approval[a], run[a], ready[a], deadLetter[a], evidence[a],
               attempts[a], reservation[a]>>

RowOK(a) ==
    /\ approval[a] = "pending" <=> state[a] = "proposed"
    /\ approval[a] \in {"denied", "expired"} => state[a] = "rejected"
    /\ \A b \in Budget :
        reservation[a][b] = IF b \in Applicable(a) THEN ReservationIn(state[a], b) ELSE "none"
    /\ run[a] \in RunsIn(state[a])
    /\ ready[a] = "ready" <=> state[a] = "approved"
    /\ deadLetter[a].status = "open" <=> state[a] = "dead_lettered"
    /\ deadLetter[a].status = "redriven" =>
            state[a] \in {"reconciliation_required", "reconciling"}
    /\ deadLetter[a].status = "resolved" => state[a] \in {"committed", "failed"}
    /\ evidence[a].sealed <=> state[a] \in {"committed", "failed"}
    /\ evidence[a].sealed =>
            evidence[a] = [sealed |-> TRUE, run |-> run[a], state |-> state[a],
                           approval |-> approval[a], reservation |-> reservation[a],
                           deadLetter |-> deadLetter[a], attempts |-> attempts[a]]

RowsInv ==
    /\ ApprovalFollowsAction
    /\ ReservationsFollowAction
    /\ RunFollowsAction
    /\ ReadyMeansApproved
    /\ DeadLetterFollowsAction
    /\ EvidenceMatchesRows

\* The invariants about rows say of each action what RowOK does.
LEMMA RowsSplit == RowsInv <=> \A c \in Action : RowOK(c)
<1>1. \A a \in Action : Applicable(a) \subseteq Budget
    BY Zenon DEF Applicable
<1>2. ASSUME RowsInv, NEW a \in Action PROVE RowOK(a)
    <2>1. \A b \in Budget :
            reservation[a][b] = IF b \in Applicable(a) THEN ReservationIn(state[a], b) ELSE "none"
        BY Zenon, <1>2 DEF RowsInv, ApprovalFollowsAction, ReservationsFollowAction
    <2> QED
        BY Zenon, <1>2, <2>1 DEF RowsInv, RowOK, ApprovalFollowsAction, RunFollowsAction,
                          ReadyMeansApproved, DeadLetterFollowsAction, EvidenceMatchesRows
<1>3. ASSUME \A a \in Action : RowOK(a) PROVE RowsInv
    <2>1. ApprovalFollowsAction
        BY ZenonT(30), <1>3 DEF RowOK, ApprovalFollowsAction
    <2>4. ReservationsFollowAction
        BY Zenon, <1>1, <1>3 DEF RowOK, ReservationsFollowAction
    <2>2. RunFollowsAction /\ ReadyMeansApproved
        BY Zenon, <1>3 DEF RowOK, RunFollowsAction, ReadyMeansApproved
    <2>3. DeadLetterFollowsAction /\ EvidenceMatchesRows
        BY Zenon, <1>3 DEF RowOK, DeadLetterFollowsAction, EvidenceMatchesRows
    <2> QED
        BY Zenon, <2>1, <2>2, <2>3, <2>4 DEF RowsInv
<1> QED
    BY Zenon, <1>2, <1>3

\* The same one step later: rows that are right make the row invariants hold.
LEMMA RowsJoin == (\A c \in Action : RowOK(c))' => RowsInv'
<1>1. (\A c \in Action : RowOK(c)) => RowsInv
    BY Zenon, RowsSplit
<1> QED
    BY <1>1, PTL

\* A step that writes the rows of one action only has to get those right.
LEMMA OneRowChanges ==
    ASSUME RowsInv, NEW a, a \in Action => RowOK(a)', \A c \in Action \ {a} : RowsOf(c)' = RowsOf(c)
    PROVE  RowsInv'
<1>1. ASSUME NEW c \in Action PROVE RowOK(c)'
    <2>1. CASE c = a
        BY Zenon, <2>1
    <2>2. CASE c # a
        <3>1. /\ state'[c] = state[c] /\ approval'[c] = approval[c] /\ run'[c] = run[c]
              /\ ready'[c] = ready[c] /\ deadLetter'[c] = deadLetter[c]
              /\ evidence'[c] = evidence[c] /\ attempts'[c] = attempts[c]
              /\ reservation'[c] = reservation[c]
            BY Zenon, <2>2 DEF RowsOf
        <3>2. RowOK(c)
            BY Zenon, RowsSplit
        <3> QED
            BY <3>1, <3>2 DEF RowOK, Applicable, MatchesScope, ReservationIn, RunsIn
    <2> QED
        BY Zenon, <2>1, <2>2
<1>2. \A c \in Action : RowOK(c)'
    BY Zenon, <1>1
<1> QED
    BY Zenon, <1>2, RowsJoin
\* A step that writes none of the rows RowOK looks at.
LEMMA RowsKept ==
    ASSUME RowsInv,
           UNCHANGED <<state, approval, run, ready, deadLetter, evidence, attempts, reservation>>
    PROVE  RowsInv'
<1>1. (ApprovalFollowsAction /\ RunFollowsAction)'
    BY DEF RowsInv, ApprovalFollowsAction, RunFollowsAction, RunsIn, Applicable, MatchesScope
<1>2. ReservationsFollowAction'
    BY DEF RowsInv, ReservationsFollowAction, ReservationIn, Applicable, MatchesScope
<1>3. (ReadyMeansApproved /\ DeadLetterFollowsAction /\ EvidenceMatchesRows)'
    BY Zenon DEF RowsInv, ReadyMeansApproved, DeadLetterFollowsAction, EvidenceMatchesRows
<1> QED
    BY Zenon, <1>1, <1>2, <1>3 DEF RowsInv

\* An action whose outcome is open holds exactly its applicable reservations.
LEMMA OpenHolds ==
    ASSUME NEW a \in Action, RowOK(a), state[a] \in {"proposed", "approved"} \cup Uncertain
    PROVE  \A b \in Budget : reservation[a][b] = IF b \in Applicable(a) THEN "active" ELSE "none"
BY Zenon DEF RowOK, ReservationIn, Uncertain

\* create_governed_action.
LEMMA CreateRows ==
    ASSUME TypeOK, RowsInv, NEW a \in Action, NEW p, CreateGovernedAction(a, p)
    PROVE  RowsInv'
<1>1. RowOK(a) /\ state[a] = "none"
    BY Zenon, RowsSplit DEF CreateGovernedAction, FreshKey
<1>2. /\ \A b \in Budget :
            reservation'[a][b] = IF b \in Applicable(a) THEN "active" ELSE "none"
      /\ \A c \in Action \ {a} : reservation'[c] = reservation[c]
    BY Zenon, ReservedRows DEF TypeOK, CreateGovernedAction
<1>3. \A c \in Action \ {a} : RowsOf(c)' = RowsOf(c)
    BY <1>2 DEF RowsOf, TypeOK, CreateGovernedAction
<1>4. UNCHANGED <<deadLetter, evidence, attempts>>
    BY Zenon DEF CreateGovernedAction
<1>5. CASE p = "require_approval"
    <2>1. /\ state'[a] = "proposed" /\ approval'[a] = "pending"
          /\ run'[a] = "waiting_for_approval" /\ ready' = ready
        BY Zenon, <1>5 DEF TypeOK, CreateGovernedAction
    <2>2. RowOK(a)'
        BY Zenon, <1>1, <1>2, <1>4, <2>1 DEF RowOK, ReservationIn, RunsIn, Applicable, MatchesScope
    <2> QED
        BY Zenon, <1>3, <2>2, OneRowChanges
<1>6. CASE p = "allow"
    <2>1. /\ state'[a] = "approved" /\ approval' = approval
          /\ run'[a] = "queued" /\ ready'[a] = "ready"
        BY Zenon, <1>6 DEF TypeOK, CreateGovernedAction
    <2>2. RowOK(a)'
        BY Zenon, <1>1, <1>2, <1>4, <2>1 DEF RowOK, ReservationIn, RunsIn, Applicable, MatchesScope
    <2> QED
        BY Zenon, <1>3, <2>2, OneRowChanges
<1> QED
    BY Zenon, <1>5, <1>6 DEF CreateGovernedAction

\* decide_approval with an approval.
LEMMA ApproveRows ==
    ASSUME TypeOK, RowsInv, NEW a \in Action, Approve(a)
    PROVE  RowsInv'
<1>1. RowOK(a) /\ approval[a] = "pending" /\ state[a] = "proposed"
    BY Zenon, RowsSplit DEF Approve, Decidable, RowOK
<1>2. UNCHANGED <<deadLetter, evidence, attempts, reservation>>
    BY Zenon DEF Approve, ledgerVars
<1>3. \A c \in Action \ {a} : RowsOf(c)' = RowsOf(c)
    BY Zenon, <1>2 DEF RowsOf, TypeOK, Approve
<1>4. /\ state'[a] = "approved" /\ approval'[a] = "approved"
      /\ run'[a] = "queued" /\ ready'[a] = "ready"
    BY Zenon DEF TypeOK, Approve
<1>5. RowOK(a)'
    BY Zenon, <1>1, <1>2, <1>4 DEF RowOK, ReservationIn, RunsIn, Applicable, MatchesScope
<1> QED
    BY Zenon, <1>3, <1>5, OneRowChanges

\* decide_approval with a denial, and cancel_run.
LEMMA RejectRows ==
    ASSUME TypeOK, RowsInv, NEW a \in Action, approval[a] = "pending", RejectBeforeEffect(a)
    PROVE  RowsInv'
<1>1. RowOK(a) /\ state[a] = "proposed"
    BY Zenon, RowsSplit DEF RowOK
<1>2. /\ \A b \in Budget :
            reservation'[a][b] = IF b \in Applicable(a) THEN "released" ELSE "none"
      /\ \A c \in Action \ {a} : reservation'[c] = reservation[c]
    BY Zenon, <1>1, OpenHolds, ReleasedRows DEF TypeOK, RejectBeforeEffect
<1>3. UNCHANGED <<ready, deadLetter, evidence, attempts>>
    BY Zenon DEF RejectBeforeEffect
<1>4. \A c \in Action \ {a} : RowsOf(c)' = RowsOf(c)
    BY Zenon, <1>2, <1>3 DEF RowsOf, TypeOK, RejectBeforeEffect
<1>5. state'[a] = "rejected" /\ approval'[a] = "denied" /\ run'[a] = "cancelled"
    BY Zenon DEF TypeOK, RejectBeforeEffect
<1>6. RowOK(a)'
    BY Zenon, <1>1, <1>2, <1>3, <1>5 DEF RowOK, ReservationIn, RunsIn, Uncertain, Applicable, MatchesScope
<1> QED
    BY Zenon, <1>4, <1>6, OneRowChanges

\* A tool request refused for its budgets leaves a run and no action.
LEMMA LeaveRows ==
    ASSUME TypeOK, RowsInv, NEW a \in Action, LeaveRunAuthorizing(a)
    PROVE  RowsInv'
<1>1. RowOK(a) /\ state[a] = "none"
    BY Zenon, RowsSplit DEF LeaveRunAuthorizing, FreshKey
<1>2. UNCHANGED <<state, approval, ready, deadLetter, evidence, attempts, reservation>>
    BY Zenon DEF LeaveRunAuthorizing, ledgerVars
<1>3. \A c \in Action \ {a} : RowsOf(c)' = RowsOf(c)
    BY Zenon, <1>2 DEF RowsOf, TypeOK, LeaveRunAuthorizing
<1>4. run'[a] \in RunsIn(state'[a])
    BY Zenon, <1>1, <1>2 DEF TypeOK, LeaveRunAuthorizing, RunsIn
<1>5. RowOK(a)'
    BY Zenon, <1>1, <1>2, <1>4 DEF RowOK, ReservationIn, Uncertain, Applicable, MatchesScope
<1> QED
    BY Zenon, <1>3, <1>5, OneRowChanges

\* expire_workflow_tool_call, of an action nobody has claimed.
LEMMA ExpireRows ==
    ASSUME TypeOK, RowsInv, NEW a \in Action, ExpireBeforeEffect(a)
    PROVE  RowsInv'
<1>1. RowOK(a) /\ state[a] \in {"proposed", "approved"}
    BY Zenon, RowsSplit DEF ExpireBeforeEffect
<1>2. /\ \A b \in Budget :
            reservation'[a][b] = IF b \in Applicable(a) THEN "released" ELSE "none"
      /\ \A c \in Action \ {a} : reservation'[c] = reservation[c]
    BY Zenon, <1>1, OpenHolds, ReleasedRows DEF TypeOK, ExpireBeforeEffect
<1>3. UNCHANGED <<deadLetter, evidence, attempts>>
    BY Zenon DEF ExpireBeforeEffect
<1>4. \A c \in Action \ {a} : RowsOf(c)' = RowsOf(c)
    BY Zenon, <1>2, <1>3 DEF RowsOf, TypeOK, ExpireBeforeEffect
<1>5. state'[a] = "rejected" /\ run'[a] = "cancelled"
    BY Zenon DEF TypeOK, ExpireBeforeEffect
<1>6. approval'[a] # "pending" /\ ready'[a] # "ready"
    <2>1. CASE state[a] = "proposed"
        BY Zenon, <1>1, <2>1 DEF TypeOK, ExpireBeforeEffect, RowOK
    <2>2. CASE state[a] = "approved"
        BY Zenon, <1>1, <2>2 DEF TypeOK, ExpireBeforeEffect, RowOK
    <2> QED
        BY Zenon, <1>1, <2>1, <2>2
<1>7. RowOK(a)'
    BY Zenon, <1>1, <1>2, <1>3, <1>5, <1>6 DEF RowOK, ReservationIn, RunsIn, Uncertain, Applicable, MatchesScope
<1> QED
    BY Zenon, <1>4, <1>7, OneRowChanges

\* redrive_dead_letter, when it accepts.
LEMMA RedriveRows ==
    ASSUME TypeOK, RowsInv, NEW a, NEW row, NEW v, Redrivable(a, row, v), AcceptRedrive(a, row)
    PROVE  RowsInv'
<1>1. UNCHANGED <<approval, ready, evidence, attempts, reservation>>
    BY Zenon DEF AcceptRedrive, ledgerVars
<1>2. \A c \in Action \ {a} : RowsOf(c)' = RowsOf(c)
    BY Zenon, <1>1 DEF RowsOf, TypeOK, AcceptRedrive
<1>3. ASSUME a \in Action PROVE RowOK(a)'
    <2>1. RowOK(a) /\ state[a] = "dead_lettered"
        BY Zenon, <1>3, RowsSplit DEF Redrivable
    <2>2. /\ state'[a] = "reconciliation_required" /\ run'[a] = "reconciliation_required"
          /\ deadLetter'[a].status = "redriven"
        BY Zenon, <1>3 DEF TypeOK, AcceptRedrive
    <2> QED
        BY Zenon, <1>1, <2>1, <2>2 DEF RowOK, ReservationIn, RunsIn, Uncertain, Applicable, MatchesScope
<1> QED
    BY Zenon, <1>2, <1>3, OneRowChanges

\* claim_ready.
LEMMA ClaimReadyRows ==
    ASSUME TypeOK, RowsInv, NEW w, NEW a \in Action, ClaimReady(w, a)
    PROVE  RowsInv'
<1>1. RowOK(a) /\ state[a] = "approved"
    BY Zenon, RowsSplit DEF ClaimReady, ReadyToExecute
<1>2. UNCHANGED <<approval, deadLetter, evidence, reservation>>
    BY Zenon DEF ClaimReady, ledgerVars
<1>3. \A c \in Action \ {a} : RowsOf(c)' = RowsOf(c)
    BY Zenon, <1>2 DEF RowsOf, TypeOK, ClaimReady
<1>4. state'[a] = "executing" /\ run'[a] = "running" /\ ready'[a] = "dispatched"
    BY Zenon DEF TypeOK, ClaimReady
<1>5. RowOK(a)'
    BY Zenon, <1>1, <1>2, <1>4 DEF RowOK, ReservationIn, RunsIn, Uncertain, Applicable, MatchesScope
<1> QED
    BY Zenon, <1>3, <1>5, OneRowChanges

\* claim_reconciliation.
LEMMA ClaimReconciliationRows ==
    ASSUME TypeOK, RowsInv, NEW w, NEW a \in Action, ClaimReconciliation(w, a)
    PROVE  RowsInv'
<1>1. RowOK(a) /\ state[a] \in {"executing", "reconciliation_required"}
    BY Zenon, RowsSplit DEF ClaimReconciliation, NeedsReconciliation
<1>2. UNCHANGED <<run, approval, ready, deadLetter, evidence, attempts, reservation>>
    BY Zenon DEF ClaimReconciliation, ledgerVars
<1>3. \A c \in Action \ {a} : RowsOf(c)' = RowsOf(c)
    BY Zenon, <1>2 DEF RowsOf, TypeOK, ClaimReconciliation
<1>4. state'[a] = "reconciling"
    BY Zenon DEF TypeOK, ClaimReconciliation
<1>5. RowOK(a)'
    BY Zenon, <1>1, <1>2, <1>4 DEF RowOK, ReservationIn, RunsIn, Uncertain, Applicable, MatchesScope
<1> QED
    BY Zenon, <1>3, <1>5, OneRowChanges

\* A terminal settlement: the reservations as ReservationIn says, the dead
\* letter resolved, and the evidence built from the rows just written.
LEMMA CloseRows ==
    ASSUME TypeOK, RowsInv, NEW a \in Action, state[a] \in {"executing", "reconciling"},
           CloseAction(a), UNCHANGED <<approval, attempts>>,
           NEW s \in {"committed", "failed"}, state' = [state EXCEPT ![a] = s],
           NEW t, run' = [run EXCEPT ![a] = t], t \in RunsIn(s),
           SettleActionReservations(a, s = "committed")
    PROVE  RowsInv'
<1>1. RowOK(a)
    BY Zenon, RowsSplit
<1>2. /\ \A b \in Budget : reservation'[a][b] =
            IF b \in Applicable(a) THEN ReservationIn(s, b) ELSE "none"
      /\ \A c \in Action \ {a} : reservation'[c] = reservation[c]
    <2>1. \A b \in Budget : reservation[a][b] = IF b \in Applicable(a) THEN "active" ELSE "none"
        BY Zenon, <1>1, OpenHolds DEF Uncertain
    <2>2. (s = "committed") \in BOOLEAN
        BY Zenon
    <2>3. LedgerTypeOK
        BY Zenon DEF TypeOK
    <2>4. /\ \A b \in Budget : reservation'[a][b] =
                IF b \notin Applicable(a) THEN "none"
                ELSE IF s = "committed" /\ ResourceOf[b] \notin Releasable THEN "committed"
                ELSE "released"
          /\ \A c \in Action \ {a} : reservation'[c] = reservation[c]
        BY Zenon, <2>1, <2>2, <2>3, SettledRows
    <2> QED
        BY Zenon, <2>4 DEF ReservationIn, Uncertain
<1>3. \A c \in Action \ {a} : RowsOf(c)' = RowsOf(c)
    BY Zenon, <1>2 DEF RowsOf, TypeOK, CloseAction
<1>4. /\ state'[a] = s /\ run'[a] = t /\ ready'[a] = "processed"
      /\ deadLetter'[a] = Resolved(deadLetter[a])
    BY Zenon DEF TypeOK, CloseAction
<1>5. deadLetter'[a].status \in {"none", "resolved"}
    <2>1. deadLetter[a] \in DeadLetterRows
        BY Zenon DEF TypeOK
    <2> QED
        BY <1>4, <2>1 DEF Resolved, DeadLetterRows
<1>6. evidence'[a] = [sealed |-> TRUE, run |-> run'[a], state |-> state'[a],
                      approval |-> approval'[a], reservation |-> reservation'[a],
                      deadLetter |-> deadLetter'[a], attempts |-> attempts'[a]]
    BY Zenon DEF TypeOK, CloseAction, CreateEvidence
<1>7. RowOK(a)'
    <2>1. /\ approval'[a] = "pending" <=> state'[a] = "proposed"
          /\ approval'[a] \in {"denied", "expired"} => state'[a] = "rejected"
          /\ ready'[a] = "ready" <=> state'[a] = "approved"
        BY Zenon, <1>1, <1>4 DEF RowOK
    <2>2. run'[a] \in RunsIn(state'[a])
        BY Zenon, <1>4
    <2>3. /\ deadLetter'[a].status = "open" <=> state'[a] = "dead_lettered"
          /\ deadLetter'[a].status = "redriven" =>
                state'[a] \in {"reconciliation_required", "reconciling"}
          /\ deadLetter'[a].status = "resolved" => state'[a] \in {"committed", "failed"}
        BY Zenon, <1>4, <1>5
    <2>4. evidence'[a].sealed /\ state'[a] \in {"committed", "failed"}
        BY <1>4, <1>6
    <2>5. \A b \in Budget : reservation'[a][b] =
            IF b \in Applicable(a) THEN ReservationIn(state'[a], b) ELSE "none"
        BY Zenon, <1>2, <1>4
    <2> QED
        BY Zenon, <1>6, <2>1, <2>2, <2>3, <2>4, <2>5 DEF RowOK
<1> QED
    BY Zenon, <1>3, <1>7, OneRowChanges

\* An ambiguous settlement.
LEMMA AmbiguousRows ==
    ASSUME TypeOK, RowsInv, NEW a \in Action, state[a] \in {"executing", "reconciling"},
           NEW m, SettleAmbiguous(a, m), UNCHANGED <<approval, attempts>>
    PROVE  RowsInv'
<1>1. RowOK(a)
    BY Zenon, RowsSplit
<1>2. UNCHANGED <<evidence, reservation>>
    BY Zenon DEF SettleAmbiguous, ledgerVars
<1>3. CASE OpenDeadLetter(a)
    <2>1. \A c \in Action \ {a} : RowsOf(c)' = RowsOf(c)
        BY Zenon, <1>2, <1>3 DEF RowsOf, TypeOK, OpenDeadLetter
    <2>2. /\ state'[a] = "dead_lettered" /\ run'[a] = "dead_lettered"
          /\ ready'[a] = "processed" /\ deadLetter'[a].status = "open"
        BY Zenon, <1>3 DEF TypeOK, OpenDeadLetter, Opened
    <2>3. RowOK(a)'
        BY Zenon, <1>1, <1>2, <2>2 DEF RowOK, ReservationIn, RunsIn, Uncertain, Applicable, MatchesScope
    <2> QED
        BY Zenon, <2>1, <2>3, OneRowChanges
<1>4. CASE RequireReconciliation(a)
    <2>1. \A c \in Action \ {a} : RowsOf(c)' = RowsOf(c)
        BY Zenon, <1>2, <1>4 DEF RowsOf, TypeOK, RequireReconciliation
    <2>2. /\ state'[a] = "reconciliation_required" /\ run'[a] = "reconciliation_required"
          /\ ready' = ready /\ deadLetter' = deadLetter
        BY Zenon, <1>4 DEF TypeOK, RequireReconciliation
    <2>3. RowOK(a)'
        BY Zenon, <1>1, <1>2, <2>2 DEF RowOK, ReservationIn, RunsIn, Uncertain, Applicable, MatchesScope
    <2> QED
        BY Zenon, <2>1, <2>3, OneRowChanges
<1> QED
    BY Zenon, <1>3, <1>4 DEF SettleAmbiguous

-----------------------------------------------------------------------------
(* Claims, executions and answers in flight. *)

FlightInv ==
    /\ ClaimsIssued
    /\ ExecutionIsOnePlace
    /\ AnswersAreTrue
    /\ CommittedHasEffect
    /\ DeniedExecutionSentNothing

Early == {"none", "proposed", "approved", "rejected"}

\* A step that touches nothing the flight of an execution depends on.
LEMMA FlightKept ==
    ASSUME FlightInv,
           UNCHANGED <<state, claim, cycle, errorCode, worker, request, effect, sent>>
    PROVE  FlightInv'
BY DEF FlightInv, ClaimsIssued, Issued, ExecutionIsOnePlace, AnswersAreTrue,
       CommittedHasEffect, DeniedExecutionSentNothing

\* Creation, decisions, cancellation and expiry move an unclaimed action.
LEMMA EarlyFlight ==
    ASSUME TypeOK, FlightInv, NEW a \in Action, NEW s \in Early, state[a] \in Early,
           state' = [state EXCEPT ![a] = s],
           \A c \in Action \ {a} : errorCode'[c] = errorCode[c],
           UNCHANGED <<claim, cycle, worker, request, effect, sent>>
    PROVE  FlightInv'
<1>1. ClaimsIssued'
    BY DEF TypeOK, FlightInv, ClaimsIssued, Issued, Early
<1>2. ExecutionIsOnePlace' /\ AnswersAreTrue'
    BY Zenon DEF FlightInv, ExecutionIsOnePlace, AnswersAreTrue
<1>3. CommittedHasEffect' /\ DeniedExecutionSentNothing'
    BY Zenon DEF TypeOK, FlightInv, CommittedHasEffect, DeniedExecutionSentNothing, Early
<1> QED
    BY Zenon, <1>1, <1>2, <1>3 DEF FlightInv

\* An accepted redrive moves a claimed action.
LEMMA RedriveFlight ==
    ASSUME TypeOK, FlightInv, NEW a, NEW row, NEW v, Redrivable(a, row, v), AcceptRedrive(a, row)
    PROVE  FlightInv'
<1>1. ClaimsIssued'
    BY DEF TypeOK, FlightInv, ClaimsIssued, Issued, Redrivable, AcceptRedrive
<1>2. ExecutionIsOnePlace' /\ AnswersAreTrue'
    BY Zenon DEF FlightInv, ExecutionIsOnePlace, AnswersAreTrue, AcceptRedrive
<1>3. CommittedHasEffect' /\ DeniedExecutionSentNothing'
    BY Zenon DEF TypeOK, FlightInv, CommittedHasEffect, DeniedExecutionSentNothing, AcceptRedrive
<1> QED
    BY Zenon, <1>1, <1>2, <1>3 DEF FlightInv

\* Both claims: no token in use is as large as the new one, and the state
\* becomes the claim's.
LEMMA TakeClaims ==
    ASSUME TypeOK, ClaimsIssued, NEW w \in Worker, NEW a \in Action, NEW m \in Modes,
           Take(w, a, m), m = "execute" <=> claim[a] = 0,
           state' = [state EXCEPT ![a] = ClaimState(m)],
           m = "reconcile" => cycle'[a] > 0,
           \A c \in Action \ {a} : cycle'[c] = cycle[c],
           UNCHANGED request
    PROVE  ClaimsIssued'
<1>1. claim \in [Action -> Nat] /\ worker \in [Worker -> WorkerMemory]
    BY Zenon DEF TypeOK
<1>2. \A c \in Action : claim'[c] = IF c = a THEN claim[c] + 1 ELSE claim[c]
    BY Zenon, <1>1 DEF Take
<1>3. /\ worker'[w].pc = "claimed" /\ worker'[w].action = a
      /\ worker'[w].claim = claim[a] + 1 /\ worker'[w].mode = m
      /\ \A v \in Worker \ {w} : worker'[v] = worker[v]
    BY Zenon, <1>1 DEF Take, IdleWorker
<1>4. \A c \in Action :
        /\ claim'[c] = 0 <=> state'[c] \in {"none", "proposed", "approved", "rejected"}
        /\ state'[c] = "reconciling" => cycle'[c] > 0
    BY <1>1, <1>2 DEF TypeOK, ClaimsIssued, ClaimState, Modes
<1>5. \A t : Issued(t) /\ t.claim \in Nat => Issued(t)'
    BY <1>1, <1>2 DEF Issued
<1>6. \A v \in Worker \ {w} : worker'[v].pc # "idle" => Issued(worker[v])'
    BY Zenon, <1>1, <1>3, <1>5 DEF ClaimsIssued, WorkerMemory
<1>7. Issued(worker[w])'
    BY <1>1, <1>2, <1>3 DEF Issued, Modes
<1>8. \A r \in request' : Issued(r)'
    BY Zenon, <1>5 DEF TypeOK, ClaimsIssued, Requests
<1>9. \A u, v \in Worker :
        (/\ worker'[u].pc # "idle" /\ worker'[v].pc # "idle"
         /\ worker'[u].action = worker'[v].action /\ worker'[u].claim = worker'[v].claim) => u = v
    <2>1. \A v \in Worker \ {w} :
            worker'[v].pc # "idle" /\ worker'[v].action = a => worker'[v].claim \in 1 .. claim[a]
        BY <1>3 DEF ClaimsIssued, Issued
    <2>2. claim[a] + 1 \notin 1 .. claim[a]
        BY <1>1
    <2> QED
        BY <1>3, <2>1, <2>2 DEF ClaimsIssued
<1> QED
    BY Zenon, <1>4, <1>6, <1>7, <1>8, <1>9 DEF ClaimsIssued

\* A claim sends nothing; it leaves the executions of other claims where they
\* are and, if it is to execute, starts the only one.
LEMMA TakeExecutions ==
    ASSUME TypeOK, FlightInv, NEW w \in Worker, NEW a \in Action, NEW m \in Modes,
           Take(w, a, m), m = "execute" => claim[a] = 0,
           UNCHANGED <<request, effect, sent>>
    PROVE  ExecutionIsOnePlace' /\ AnswersAreTrue'
<1>1. claim \in [Action -> Nat] /\ worker \in [Worker -> WorkerMemory] /\ sent \in [Action -> Nat]
    BY Zenon DEF TypeOK
<1>2. \A c \in Action : claim'[c] = IF c = a THEN claim[c] + 1 ELSE claim[c]
    BY Zenon, <1>1 DEF Take
<1>3. /\ worker'[w].pc = "claimed" /\ worker'[w].action = a /\ worker'[w].mode = m
      /\ \A v \in Worker \ {w} : worker'[v] = worker[v]
    BY Zenon, <1>1 DEF Take, IdleWorker
<1>4. claim[a] = 0 => sent[a] = 0 /\ \A r \in request : r.action # a
    BY <1>1 DEF FlightInv, ClaimsIssued, Issued, ExecutionIsOnePlace
<1>5. ExecutionIsOnePlace'
    BY <1>1, <1>2, <1>3, <1>4 DEF FlightInv, ExecutionIsOnePlace
<1>6. AnswersAreTrue'
    BY <1>3 DEF FlightInv, AnswersAreTrue
<1> QED
    BY Zenon, <1>5, <1>6

\* claim_ready.
LEMMA ClaimReadyFlight ==
    ASSUME TypeOK, FlightInv, NEW w \in Worker, NEW a \in Action, ClaimReady(w, a)
    PROVE  FlightInv'
<1>1. claim[a] = 0
    BY Zenon DEF FlightInv, ClaimsIssued, ClaimReady, ReadyToExecute
<1>2. Take(w, a, "execute") /\ "execute" \in Modes /\ ClaimState("execute") = "executing"
    BY Zenon DEF ClaimReady, Modes, ClaimState
<1>3. UNCHANGED <<cycle, errorCode, request, effect, sent>>
    BY Zenon DEF ClaimReady, historyVars
<1>4. state' = [state EXCEPT ![a] = "executing"]
    BY Zenon DEF ClaimReady
<1>5. ClaimsIssued'
    BY Zenon, <1>1, <1>2, <1>3, <1>4, TakeClaims DEF FlightInv
<1>6. ExecutionIsOnePlace' /\ AnswersAreTrue'
    BY Zenon, <1>1, <1>2, <1>3, TakeExecutions
<1>7. CommittedHasEffect' /\ DeniedExecutionSentNothing'
    BY Zenon, <1>3, <1>4 DEF TypeOK, FlightInv, CommittedHasEffect, DeniedExecutionSentNothing
<1> QED
    BY Zenon, <1>5, <1>6, <1>7 DEF FlightInv

\* claim_reconciliation.
LEMMA ClaimReconciliationFlight ==
    ASSUME TypeOK, FlightInv, NEW w \in Worker, NEW a \in Action, ClaimReconciliation(w, a)
    PROVE  FlightInv'
<1>1. claim[a] # 0
    BY Zenon DEF FlightInv, ClaimsIssued, ClaimReconciliation, NeedsReconciliation
<1>2. Take(w, a, "reconcile") /\ "reconcile" \in Modes /\ ClaimState("reconcile") = "reconciling"
    BY Zenon DEF ClaimReconciliation, Modes, ClaimState
<1>3. UNCHANGED <<errorCode, request, effect, sent>>
    BY Zenon DEF ClaimReconciliation, historyVars
<1>4. state' = [state EXCEPT ![a] = "reconciling"]
    BY Zenon DEF ClaimReconciliation
<1>5. cycle'[a] > 0 /\ \A c \in Action \ {a} : cycle'[c] = cycle[c]
    BY DEF TypeOK, ClaimReconciliation
<1>6. ClaimsIssued'
    BY Zenon, <1>1, <1>2, <1>3, <1>4, <1>5, TakeClaims DEF FlightInv
<1>7. ExecutionIsOnePlace' /\ AnswersAreTrue'
    BY Zenon, <1>2, <1>3, TakeExecutions
<1>8. CommittedHasEffect' /\ DeniedExecutionSentNothing'
    BY Zenon, <1>3, <1>4, <1>5 DEF TypeOK, FlightInv, CommittedHasEffect, DeniedExecutionSentNothing
<1> QED
    BY Zenon, <1>6, <1>7, <1>8 DEF FlightInv
\* dispatch: the execution leaves the worker's memory for one request.
LEMMA DispatchFlight ==
    ASSUME TypeOK, FlightInv, NEW w \in Worker, Dispatch(w)
    PROVE  FlightInv'
<1> DEFINE q == [action |-> worker[w].action, claim |-> worker[w].claim,
                 mode |-> worker[w].mode, stage |-> "received"]
<1>1. worker \in [Worker -> WorkerMemory] /\ worker[w].pc = "claimed"
    BY Zenon DEF TypeOK, Dispatch
<1>2. /\ worker'[w].pc = "waiting" /\ worker'[w].action = worker[w].action
      /\ worker'[w].claim = worker[w].claim /\ worker'[w].mode = worker[w].mode
      /\ \A v \in Worker \ {w} : worker'[v] = worker[v]
    BY Zenon, <1>1 DEF Dispatch, WorkerMemory
<1>3. request' = request \cup {q}
    BY Zenon DEF Dispatch
<1>4. UNCHANGED <<state, claim, cycle, errorCode, effect, sent>>
    BY Zenon DEF Dispatch, rowVars, historyVars
<1>5. /\ q.action = worker[w].action /\ q.claim = worker[w].claim
      /\ q.mode = worker[w].mode /\ q.stage = "received"
    BY Zenon
<1>6. Issued(worker[w])
    BY Zenon, <1>1 DEF FlightInv, ClaimsIssued
<1> HIDE DEF q
<1>7. \A v \in Worker : worker'[v].pc # "idle" => worker[v].pc # "idle"
    BY Zenon, <1>1, <1>2
<1>8. ClaimsIssued'
    <2>1. \A v \in Worker : worker'[v].pc # "idle" => Issued(worker[v])'
        BY <1>2, <1>4, <1>7 DEF FlightInv, ClaimsIssued, Issued
    <2>2. \A r \in request' : Issued(r)'
        BY Zenon, <1>3, <1>4, <1>5, <1>6 DEF FlightInv, ClaimsIssued, Issued
    <2>3. \A u, v \in Worker :
            (/\ worker'[u].pc # "idle" /\ worker'[v].pc # "idle"
             /\ worker'[u].action = worker'[v].action
             /\ worker'[u].claim = worker'[v].claim) => u = v
        BY <1>2, <1>7 DEF FlightInv, ClaimsIssued
    <2> QED
        BY Zenon, <1>4, <2>1, <2>2, <2>3 DEF FlightInv, ClaimsIssued
<1>9. \A v \in Worker \ {w} :
        (worker[v].pc # "idle" /\ worker[v].mode = "execute" /\ worker[w].mode = "execute")
            => worker[v].action # worker[w].action
    BY Zenon, <1>1 DEF FlightInv, ClaimsIssued, Issued
<1>10. ExecutionIsOnePlace'
    BY <1>1, <1>2, <1>3, <1>4, <1>5, <1>9 DEF FlightInv, ExecutionIsOnePlace
<1>11. AnswersAreTrue'
    BY <1>2, <1>3, <1>4, <1>5, <1>9 DEF FlightInv, AnswersAreTrue
<1>12. CommittedHasEffect' /\ DeniedExecutionSentNothing'
    BY Zenon, <1>4 DEF FlightInv, CommittedHasEffect, DeniedExecutionSentNothing
<1> QED
    BY Zenon, <1>8, <1>10, <1>11, <1>12 DEF FlightInv

\* Losing memory or requests, or learning nothing, cannot break the flight.
LEMMA ForgetFlight ==
    ASSUME FlightInv, request' \subseteq request,
           \A v \in Worker :
             \/ worker'[v].pc = "idle"
             \/ worker'[v] = worker[v]
             \/ /\ worker[v].pc = "waiting" /\ worker'[v].pc = "answered"
                /\ worker'[v].reply \notin {"committed", "denied"}
                /\ worker'[v].action = worker[v].action /\ worker'[v].claim = worker[v].claim
                /\ worker'[v].mode = worker[v].mode,
           UNCHANGED <<state, claim, cycle, errorCode, effect, sent>>
    PROVE  FlightInv'
<1>1. \A v \in Worker : worker'[v].pc # "idle" =>
        /\ worker[v].pc # "idle" /\ worker'[v].action = worker[v].action
        /\ worker'[v].claim = worker[v].claim /\ worker'[v].mode = worker[v].mode
    BY Zenon
<1>2. ClaimsIssued'
    <2>1. \A v \in Worker : worker'[v].pc # "idle" => Issued(worker[v])'
        BY <1>1 DEF FlightInv, ClaimsIssued, Issued
    <2>2. \A r \in request' : Issued(r)'
        BY Zenon DEF FlightInv, ClaimsIssued, Issued
    <2> QED
        BY <1>1, <2>1, <2>2 DEF FlightInv, ClaimsIssued
<1>3. ExecutionIsOnePlace'
    BY Zenon DEF FlightInv, ExecutionIsOnePlace
<1>4. AnswersAreTrue'
    BY Zenon DEF FlightInv, AnswersAreTrue
<1>5. CommittedHasEffect' /\ DeniedExecutionSentNothing'
    BY Zenon DEF FlightInv, CommittedHasEffect, DeniedExecutionSentNothing
<1> QED
    BY Zenon, <1>2, <1>3, <1>4, <1>5 DEF FlightInv

\* A timeout, a crash and a stale settlement only forget a claim or a lookup.
LEMMA QuietFlight ==
    ASSUME TypeOK, FlightInv, NEW w \in Worker,
           OutcomeUnknown(w) \/ WorkerFails(w) \/ SettleStale(w)
    PROVE  FlightInv'
<1>1. worker \in [Worker -> WorkerMemory]
    BY Zenon DEF TypeOK
<1>2. request' \subseteq request
    BY Zenon DEF OutcomeUnknown, WorkerFails, SettleStale, StopWaiting
<1>3. UNCHANGED <<state, claim, cycle, errorCode, effect, sent>>
    BY Zenon DEF OutcomeUnknown, WorkerFails, SettleStale, rowVars, historyVars
<1>4. CASE OutcomeUnknown(w)
    <2>1. /\ worker[w].pc = "waiting" /\ worker'[w].pc = "answered"
          /\ worker'[w].reply \notin {"committed", "denied"}
          /\ worker'[w].action = worker[w].action /\ worker'[w].claim = worker[w].claim
          /\ worker'[w].mode = worker[w].mode
          /\ \A v \in Worker \ {w} : worker'[v] = worker[v]
        BY Zenon, <1>1, <1>4 DEF OutcomeUnknown, WorkerMemory
    <2> QED
        BY Zenon, <1>2, <1>3, <2>1, ForgetFlight
<1>5. CASE WorkerFails(w) \/ SettleStale(w)
    <2>1. worker'[w].pc = "idle" /\ \A v \in Worker \ {w} : worker'[v] = worker[v]
        BY <1>1, <1>5 DEF WorkerFails, SettleStale, IdleWorker
    <2> QED
        BY Zenon, <1>2, <1>3, <2>1, ForgetFlight
<1> QED
    BY Zenon, <1>4, <1>5
\* A worker that settles claimed the action, and the action is still claimed.
LEMMA SettlesClaimed ==
    ASSUME TypeOK, FlightInv, NEW w \in Worker, HoldsClaim(w)
    PROVE  /\ worker[w].action \in Action
           /\ state[worker[w].action] = IF worker[w].mode = "execute" THEN "executing"
                                        ELSE "reconciling"
           /\ claim[worker[w].action] > 0
BY DEF TypeOK, HoldsClaim, FlightInv, ClaimsIssued, Issued, ClaimState

\* settle: success is recorded on the provider's word only, and a denied
\* execution was never sent.
LEMMA SettleFlight ==
    ASSUME TypeOK, FlightInv, NEW w \in Worker, Settle(w)
    PROVE  FlightInv'
<1> DEFINE a == worker[w].action
<1>1. /\ a \in Action /\ claim[a] > 0
      /\ state[a] = IF worker[w].mode = "execute" THEN "executing" ELSE "reconciling"
    BY Zenon, SettlesClaimed DEF Settle
<1>2. worker'[w].pc = "idle" /\ \A v \in Worker \ {w} : worker'[v] = worker[v]
    BY Zenon DEF TypeOK, Settle, IdleWorker
<1>3. UNCHANGED <<claim, request, effect, sent>>
    BY Zenon DEF Settle, historyVars
<1>4. /\ worker[w].pc = "answered"
      /\ \/ worker[w].reply = "committed" /\ SettleCommitted(a)
         \/ /\ worker[w].reply \in {"rejected", "absent", "denied"}
            /\ SettleFailed(a, worker[w].reply)
         \/ worker[w].reply = "unknown" /\ SettleAmbiguous(a, worker[w].mode)
    BY Zenon DEF Settle
<1>5. worker[w].reply = "committed" => effect[a]
    BY Zenon, <1>4 DEF FlightInv, AnswersAreTrue
<1>6. worker[w].reply = "denied" /\ worker[w].mode = "execute" => sent[a] = 0
    BY Zenon, <1>4 DEF FlightInv, AnswersAreTrue
<1>7. worker[w].mode # "execute" => cycle[a] > 0
    BY Zenon, <1>1 DEF FlightInv, ClaimsIssued
<1> HIDE DEF a
<1>8. PICK s \in {"committed", "failed", "dead_lettered", "reconciliation_required"} :
        /\ state' = [state EXCEPT ![a] = s]
        /\ s = "committed" => effect[a]
        /\ s = "failed" /\ errorCode'[a] = "gateway_denied" => worker[w].reply = "denied"
        /\ cycle' = cycle
        /\ \A c \in Action \ {a} : errorCode'[c] = errorCode[c]
    <2>1. CASE worker[w].reply = "committed" /\ SettleCommitted(a)
        BY Zenon, <1>5, <2>1 DEF TypeOK, SettleCommitted, CloseAction
    <2>2. CASE worker[w].reply \in {"rejected", "absent", "denied"} /\ SettleFailed(a, worker[w].reply)
        <3>1. errorCode' = [errorCode EXCEPT ![a] = FailureCode(worker[w].reply)]
            BY Zenon, <2>2 DEF SettleFailed
        <3>2. errorCode'[a] = FailureCode(worker[w].reply)
            BY Zenon, <1>1, <3>1 DEF TypeOK
        <3>3. errorCode'[a] = "gateway_denied" => worker[w].reply = "denied"
            BY Zenon, <2>2, <3>2 DEF FailureCode
        <3>4. \A c \in Action \ {a} : errorCode'[c] = errorCode[c]
            BY Zenon, <3>1 DEF TypeOK
        <3> QED
            BY Zenon, <2>2, <3>3, <3>4 DEF SettleFailed, CloseAction
    <2>3. CASE SettleAmbiguous(a, worker[w].mode)
        BY Zenon, <2>3 DEF TypeOK, SettleAmbiguous, OpenDeadLetter, RequireReconciliation
    <2> QED
        BY Zenon, <1>4, <2>1, <2>2, <2>3
<1>9. \A c \in Action : state'[c] = IF c = a THEN s ELSE state[c]
    BY Zenon, <1>8 DEF TypeOK
<1>10. ClaimsIssued'
    <2>1. \A c \in Action :
            /\ claim'[c] = 0 <=> state'[c] \in {"none", "proposed", "approved", "rejected"}
            /\ state'[c] = "reconciling" => cycle'[c] > 0
        BY <1>1, <1>3, <1>8, <1>9 DEF FlightInv, ClaimsIssued
    <2>2. \A v \in Worker : worker'[v].pc # "idle" => Issued(worker[v])'
        BY <1>2, <1>3 DEF FlightInv, ClaimsIssued, Issued
    <2>3. \A r \in request' : Issued(r)'
        BY Zenon, <1>3 DEF FlightInv, ClaimsIssued, Issued
    <2> QED
        BY <1>2, <2>1, <2>2, <2>3 DEF FlightInv, ClaimsIssued
<1>11. ExecutionIsOnePlace' /\ AnswersAreTrue'
    BY <1>2, <1>3 DEF FlightInv, ExecutionIsOnePlace, AnswersAreTrue
<1>12. CommittedHasEffect'
    BY Zenon, <1>3, <1>8, <1>9 DEF FlightInv, CommittedHasEffect
<1>13. DeniedExecutionSentNothing'
    <2>1. ASSUME NEW c \in Action, state'[c] = "failed", errorCode'[c] = "gateway_denied",
                 cycle'[c] = 0
          PROVE  sent'[c] = 0
        <3>1. CASE c = a
            BY <1>3, <1>6, <1>7, <1>8, <1>9, <2>1, <3>1
        <3>2. CASE c # a
            BY <1>3, <1>8, <1>9, <2>1, <3>2 DEF FlightInv, DeniedExecutionSentNothing
        <3> QED
            BY Zenon, <3>1, <3>2
    <2> QED
        BY Zenon, <2>1 DEF DeniedExecutionSentNothing
<1> QED
    BY Zenon, <1>10, <1>11, <1>12, <1>13 DEF FlightInv
\* At most one execution request of an action is on its way to the gateway.
LEMMA OneExecutionRequest ==
    ASSUME TypeOK, FlightInv, NEW q \in request, NEW r \in request,
           q.mode = "execute", r.mode = "execute", q.action = r.action, q.stage = r.stage
    PROVE  q = r
<1>1. q.claim = 1 /\ r.claim = 1
    BY Zenon DEF FlightInv, ClaimsIssued, Issued
<1>2. q \in Requests /\ r \in Requests
    BY Zenon DEF TypeOK
<1> QED
    BY <1>1, <1>2 DEF Requests

\* authorize_gateway_action and the send that follows it.
LEMMA AuthorizeFlight ==
    ASSUME TypeOK, FlightInv, NEW r \in request, GatewayAuthorizes(r)
    PROVE  FlightInv'
<1> DEFINE q == [r EXCEPT !.stage = "egress"]
<1>1. r \in Requests /\ sent \in [Action -> Nat]
    BY Zenon DEF TypeOK
<1>2. /\ q.action = r.action /\ q.claim = r.claim /\ q.mode = r.mode /\ q.stage = "egress"
      /\ r.stage = "received" /\ r.action \in Action
    BY Zenon, <1>1 DEF Requests, GatewayAuthorizes, FlightInv, ClaimsIssued, Issued
<1>3. request' = (request \ {r}) \cup {q}
    BY Zenon DEF GatewayAuthorizes
<1> HIDE DEF q
<1>4. UNCHANGED <<state, claim, cycle, errorCode, worker, effect>>
    BY Zenon DEF GatewayAuthorizes, rowVars
<1>5. ClaimsIssued'
    <2>1. \A t \in request' : Issued(t)'
        BY <1>2, <1>3, <1>4 DEF FlightInv, ClaimsIssued, Issued
    <2>2. \A v \in Worker : worker'[v].pc # "idle" => Issued(worker[v])'
        BY Zenon, <1>4 DEF FlightInv, ClaimsIssued, Issued
    <2> QED
        BY Zenon, <1>4, <2>1, <2>2 DEF FlightInv, ClaimsIssued
<1>6. CASE r.mode = "execute"
    <2>1. /\ sent[r.action] = 0
          /\ \A c \in Action : sent'[c] = IF c = r.action THEN 1 ELSE sent[c]
        BY <1>1, <1>2, <1>6 DEF GatewayAuthorizes, FlightInv, ExecutionIsOnePlace
    <2>2. \A t \in request \ {r} : ~(t.mode = "execute" /\ t.action = r.action)
        <3> SUFFICES ASSUME NEW t \in request \ {r}, t.mode = "execute", t.action = r.action
                     PROVE  FALSE
            BY Zenon
        <3>1. t.stage = "received"
            BY Zenon, <2>1 DEF FlightInv, ExecutionIsOnePlace
        <3> QED
            BY Zenon, <1>2, <1>6, <3>1, OneExecutionRequest
    <2>3. state[r.action] = "executing" /\ claim[r.action] > 0
        <3>1. state[r.action] = "executing"
            BY Zenon, <1>6 DEF GatewayAuthorizes, Authorized, ClaimState
        <3> QED
            BY <1>2, <3>1 DEF TypeOK, FlightInv, ClaimsIssued
    <2>4. \A v \in Worker :
            worker[v].pc = "claimed" /\ worker[v].mode = "execute" => worker[v].action # r.action
        BY Zenon, <1>6 DEF FlightInv, ExecutionIsOnePlace
    <2>5. \A v \in Worker :
            worker[v].pc = "answered" /\ worker[v].reply = "denied" /\ worker[v].mode = "execute"
                => worker[v].action # r.action
        BY Zenon, <1>6 DEF FlightInv, AnswersAreTrue
    <2>6. \A v \in Worker : worker[v].pc # "idle" => worker[v].action \in Action
        BY Zenon DEF FlightInv, ClaimsIssued, Issued
    <2>7. \A t \in request : t.action \in Action
        BY Zenon DEF FlightInv, ClaimsIssued, Issued
    <2>8. ExecutionIsOnePlace'
        <3>1. \A c \in Action : /\ sent'[c] <= 1
                                /\ sent'[c] > 0 => claim'[c] > 0
                                /\ effect'[c] => sent'[c] > 0
            BY <1>4, <2>1, <2>3 DEF FlightInv, ExecutionIsOnePlace
        <3>2. \A t \in request' :
                t.mode = "execute" => (t.stage = "received" <=> sent'[t.action] = 0)
            BY SMTT(30), <1>2, <1>3, <2>1, <2>2, <2>7 DEF FlightInv, ExecutionIsOnePlace
        <3>3. \A v \in Worker :
                (worker'[v].pc = "claimed" /\ worker'[v].mode = "execute") =>
                    /\ sent'[worker'[v].action] = 0
                    /\ \A t \in request' : ~(t.action = worker'[v].action /\ t.mode = "execute")
            BY <1>2, <1>3, <1>4, <2>1, <2>4, <2>6 DEF FlightInv, ExecutionIsOnePlace
        <3> QED
            BY Zenon, <3>1, <3>2, <3>3 DEF ExecutionIsOnePlace
    <2>9. AnswersAreTrue'
        BY <1>2, <1>3, <1>4, <2>1, <2>5, <2>6 DEF FlightInv, AnswersAreTrue
    <2>10. CommittedHasEffect' /\ DeniedExecutionSentNothing'
        BY Zenon, <1>4, <2>1, <2>3 DEF FlightInv, CommittedHasEffect, DeniedExecutionSentNothing
    <2> QED
        BY Zenon, <1>5, <2>8, <2>9, <2>10 DEF FlightInv
<1>7. CASE r.mode # "execute"
    <2>1. sent' = sent
        BY Zenon, <1>7 DEF GatewayAuthorizes
    <2>2. ExecutionIsOnePlace'
        BY Zenon, <1>2, <1>3, <1>4, <1>7, <2>1 DEF FlightInv, ExecutionIsOnePlace
    <2>3. AnswersAreTrue'
        BY Zenon, <1>2, <1>3, <1>4, <1>7, <2>1 DEF FlightInv, AnswersAreTrue
    <2>4. CommittedHasEffect' /\ DeniedExecutionSentNothing'
        BY Zenon, <1>4, <2>1 DEF FlightInv, CommittedHasEffect, DeniedExecutionSentNothing
    <2> QED
        BY Zenon, <1>5, <2>2, <2>3, <2>4 DEF FlightInv
<1> QED
    BY Zenon, <1>6, <1>7
\* An answer ends its request.  It is true when it says committed, and when it
\* denies an execution that had not been sent.
LEMMA AnswerFlight ==
    ASSUME TypeOK, FlightInv, NEW r \in request, NEW x \in Replies, Answer(r, x),
           \A c \in Action : (effect[c] => effect'[c]) /\ (effect'[c] => sent[c] > 0),
           x = "committed" => effect'[r.action],
           x = "denied" /\ r.mode = "execute" => r.stage = "received",
           UNCHANGED sent
    PROVE  FlightInv'
<1>1. worker \in [Worker -> WorkerMemory] /\ Issued(r)
    BY Zenon DEF TypeOK, FlightInv, ClaimsIssued
<1>2. request' = request \ {r} /\ UNCHANGED <<state, claim, cycle, errorCode>>
    BY Zenon DEF Answer, rowVars
<1>3. \A v \in Worker :
        \/ worker'[v] = worker[v]
        \/ /\ worker[v].pc = "waiting" /\ worker'[v].pc = "answered" /\ worker'[v].reply = x
           /\ worker[v].action = r.action /\ worker[v].claim = r.claim
           /\ worker'[v].action = worker[v].action /\ worker'[v].claim = worker[v].claim
           /\ worker'[v].mode = worker[v].mode
    <2>1. CASE UNCHANGED worker
        BY Zenon, <2>1
    <2>2. ASSUME NEW w \in Worker, worker[w].pc = "waiting",
                 worker[w].action = r.action, worker[w].claim = r.claim,
                 worker' = [worker EXCEPT ![w].pc = "answered", ![w].reply = x]
          PROVE  \A v \in Worker :
                    \/ worker'[v] = worker[v]
                    \/ /\ worker[v].pc = "waiting" /\ worker'[v].pc = "answered"
                       /\ worker'[v].reply = x
                       /\ worker[v].action = r.action /\ worker[v].claim = r.claim
                       /\ worker'[v].action = worker[v].action
                       /\ worker'[v].claim = worker[v].claim
                       /\ worker'[v].mode = worker[v].mode
        BY Zenon, <1>1, <2>2 DEF WorkerMemory
    <2> QED
        BY Zenon, <2>1, <2>2 DEF Answer
<1>4. \A v \in Worker : worker'[v].pc # "idle" =>
        /\ worker[v].pc # "idle" /\ worker'[v].action = worker[v].action
        /\ worker'[v].claim = worker[v].claim /\ worker'[v].mode = worker[v].mode
    BY Zenon, <1>3
<1>5. ClaimsIssued'
    <2>1. \A v \in Worker : worker'[v].pc # "idle" => Issued(worker[v])'
        BY <1>2, <1>4 DEF FlightInv, ClaimsIssued, Issued
    <2>2. \A t \in request' : Issued(t)'
        BY Zenon, <1>2 DEF FlightInv, ClaimsIssued, Issued
    <2> QED
        BY SMTT(30), <1>2, <1>4, <2>1, <2>2 DEF FlightInv, ClaimsIssued
<1>6. ExecutionIsOnePlace'
    BY <1>2, <1>3 DEF FlightInv, ExecutionIsOnePlace
<1>7. AnswersAreTrue'
    <2> SUFFICES ASSUME NEW v \in Worker, worker'[v].pc = "answered"
                 PROVE  /\ worker'[v].reply = "committed" => effect'[worker'[v].action]
                        /\ (worker'[v].reply = "denied" /\ worker'[v].mode = "execute") =>
                            /\ sent'[worker'[v].action] = 0
                            /\ \A t \in request' :
                                ~(t.action = worker'[v].action /\ t.mode = "execute")
        BY Zenon DEF AnswersAreTrue
    <2>1. CASE worker'[v] = worker[v]
        <3>1. worker[v].action \in Action
            BY Zenon, <2>1 DEF FlightInv, ClaimsIssued, Issued
        <3> QED
            BY Zenon, <1>2, <2>1, <3>1 DEF FlightInv, AnswersAreTrue
    <2>2. CASE worker'[v] # worker[v]
        <3>1. /\ worker'[v].reply = x /\ worker'[v].action = r.action
              /\ worker[v].pc # "idle" /\ worker[v].claim = r.claim
              /\ worker'[v].mode = worker[v].mode
            BY Zenon, <1>3, <2>2
        <3>2. worker'[v].mode = "execute" <=> r.mode = "execute"
            BY <1>1, <3>1 DEF FlightInv, ClaimsIssued, Issued
        <3>3. ASSUME x = "denied", r.mode = "execute"
              PROVE  /\ sent[r.action] = 0
                     /\ \A t \in request' : ~(t.action = r.action /\ t.mode = "execute")
            <4>1. r.stage = "received" /\ sent[r.action] = 0
                BY Zenon, <3>3 DEF FlightInv, ExecutionIsOnePlace
            <4>2. \A t \in request :
                    t.action = r.action /\ t.mode = "execute" => t.stage = "received"
                BY Zenon, <4>1 DEF FlightInv, ExecutionIsOnePlace
            <4> QED
                BY Zenon, <1>2, <3>3, <4>1, <4>2, OneExecutionRequest
        <3> QED
            BY Zenon, <3>1, <3>2, <3>3
    <2> QED
        BY Zenon, <2>1, <2>2
<1>8. CommittedHasEffect' /\ DeniedExecutionSentNothing'
    BY Zenon, <1>2 DEF FlightInv, CommittedHasEffect, DeniedExecutionSentNothing
<1> QED
    BY Zenon, <1>5, <1>6, <1>7, <1>8 DEF FlightInv

\* The gateway's denial and the provider's three answers.
LEMMA AnsweredFlight ==
    ASSUME TypeOK, FlightInv, NEW r \in request,
           GatewayDenies(r) \/ ProviderCommits(r) \/ ProviderRejects(r) \/ ProviderLooksUp(r)
    PROVE  FlightInv'
<1>1. /\ r.action \in Action /\ effect \in [Action -> BOOLEAN] /\ sent \in [Action -> Nat]
      /\ \A c \in Action : effect[c] => sent[c] > 0
    BY Zenon DEF TypeOK, FlightInv, ClaimsIssued, Issued, ExecutionIsOnePlace
<1>2. CASE GatewayDenies(r)
    BY Zenon, <1>1, <1>2, AnswerFlight DEF GatewayDenies, Replies
<1>3. CASE ProviderCommits(r)
    <2>1. sent[r.action] > 0
        BY <1>1, <1>3 DEF ProviderCommits, FlightInv, ExecutionIsOnePlace
    <2>2. \A c \in Action : (effect[c] => effect'[c]) /\ (effect'[c] => sent[c] > 0)
        BY Zenon, <1>1, <1>3, <2>1 DEF ProviderCommits
    <2>3. Answer(r, "committed") /\ "committed" \in Replies /\ effect'[r.action] /\ UNCHANGED sent
        BY Zenon, <1>1, <1>3 DEF ProviderCommits, Replies
    <2> QED
        BY Zenon, <2>2, <2>3, AnswerFlight
<1>4. CASE ProviderRejects(r)
    BY Zenon, <1>1, <1>4, AnswerFlight DEF ProviderRejects, Replies
<1>5. CASE ProviderLooksUp(r)
    <2> DEFINE x == IF effect[r.action] THEN "committed" ELSE "absent"
    <2>1. Answer(r, x) /\ UNCHANGED <<effect, sent>>
        BY Zenon, <1>5 DEF ProviderLooksUp
    <2>2. x \in Replies /\ (x = "committed" => effect[r.action]) /\ x # "denied"
        BY Zenon DEF Replies
    <2> HIDE DEF x
    <2> QED
        BY Zenon, <1>1, <2>1, <2>2, AnswerFlight
<1> QED
    BY Zenon, <1>2, <1>3, <1>4, <1>5

-----------------------------------------------------------------------------
(* The invariant and what it implies. *)

\* The inductive invariant is types, rows, and claims and messages in flight.
LEMMA IndInvSplit == IndInv <=> TypeOK /\ RowsInv /\ FlightInv
BY Zenon DEF IndInv, RowsInv, FlightInv

\* No rows, idle workers, no messages.
LEMMA InitInv == Init => IndInv
<1> SUFFICES ASSUME Init PROVE IndInv
    BY Zenon
<1>1. TypeOK
    <2>1. LedgerTypeOK
        BY Zenon DEF Init, LedgerInit, LedgerTypeOK, ReservationStatus
    <2>2. IdleWorker \in WorkerMemory /\ NoRedrive \in LoadedRows /\ NoDeadLetter \in DeadLetterRows
        BY Zenon DEF IdleWorker, WorkerMemory, Modes, Replies, NoRedrive, LoadedRows, NoDeadLetter,
               DeadLetterRows
    <2> QED
        BY Zenon, <2>1, <2>2 DEF Init, TypeOK, RunStates, ActionStates, ApprovalStates, ErrorCodes
<1>2. RowsInv
    <2>1. ASSUME NEW c \in Action PROVE RowOK(c)
        <3>1. /\ state[c] = "none" /\ approval[c] = "none" /\ run[c] = "none" /\ ready[c] = "none"
              /\ deadLetter[c].status = "none" /\ evidence[c].sealed = FALSE
              /\ \A b \in Budget : reservation[c][b] = "none"
            BY Zenon DEF Init, LedgerInit, NoDeadLetter, NoEvidence
        <3>2. "none" \in RunsIn("none") /\ \A b : ReservationIn("none", b) = "none"
            BY Zenon DEF RunsIn, ReservationIn, Uncertain
        <3> QED
            BY Zenon, <3>1, <3>2 DEF RowOK
    <2> QED
        BY Zenon, <2>1, RowsSplit
<1>3. FlightInv
    BY DEF Init, IdleWorker, FlightInv, ClaimsIssued, ExecutionIsOnePlace, AnswersAreTrue,
           CommittedHasEffect, DeniedExecutionSentNothing
<1> QED
    BY Zenon, <1>1, <1>2, <1>3, IndInvSplit

\* Operations of the control API.
LEMMA CallerInv ==
    ASSUME IndInv, Caller
    PROVE  TypeOK' /\ RowsInv' /\ FlightInv'
<1>1. TypeOK /\ RowsInv /\ FlightInv
    BY Zenon, IndInvSplit
<1>2. PICK a \in Action :
        \/ \E p \in ExecutableEffects : CreateGovernedAction(a, p)
        \/ LeaveRunAuthorizing(a)
        \/ Approve(a) \/ Deny(a) \/ CancelRun(a) \/ ExpireBeforeEffect(a)
        \/ \E o \in Operator : LoadDeadLetter(o, a)
    BY Zenon DEF Caller
<1>3. ASSUME NEW p, CreateGovernedAction(a, p)
      PROVE  TypeOK' /\ RowsInv' /\ FlightInv'
    <2>1. PICK s \in Early : state' = [state EXCEPT ![a] = s]
        BY Zenon, <1>3 DEF CreateGovernedAction, Early
    <2>2. state[a] \in Early /\ UNCHANGED <<claim, cycle, errorCode, worker, request, effect, sent>>
        BY Zenon, <1>3 DEF CreateGovernedAction, FreshKey, Early, historyVars
    <2> QED
        BY Zenon, <1>1, <1>3, <2>1, <2>2, CreateTypes, CreateRows, EarlyFlight
<1>4. ASSUME Approve(a)
      PROVE  TypeOK' /\ RowsInv' /\ FlightInv'
    <2>1. RowOK(a)
        BY Zenon, <1>1, RowsSplit
    <2>2. state[a] = "proposed" /\ state' = [state EXCEPT ![a] = "approved"]
        BY Zenon, <1>4, <2>1 DEF Approve, Decidable, RowOK
    <2>3. UNCHANGED <<claim, cycle, errorCode, worker, request, effect, sent>>
        BY Zenon, <1>4 DEF Approve, historyVars
    <2>4. state[a] \in Early /\ "approved" \in Early
        BY Zenon, <2>2 DEF Early
    <2> QED
        BY Zenon, <1>1, <1>4, <2>2, <2>3, <2>4, ApproveTypes, ApproveRows, EarlyFlight
<1>5. ASSUME Deny(a) \/ CancelRun(a)
      PROVE  TypeOK' /\ RowsInv' /\ FlightInv'
    <2>1. RejectBeforeEffect(a) /\ approval[a] = "pending"
        BY Zenon, <1>5 DEF Deny, CancelRun, Decidable
    <2>2. RowOK(a)
        BY Zenon, <1>1, RowsSplit
    <2>3. state[a] = "proposed" /\ state' = [state EXCEPT ![a] = "rejected"]
        BY Zenon, <2>1, <2>2 DEF RejectBeforeEffect, RowOK
    <2>4. UNCHANGED <<claim, cycle, errorCode, worker, request, effect, sent>>
        BY Zenon, <2>1 DEF RejectBeforeEffect, historyVars
    <2>5. state[a] \in Early /\ "rejected" \in Early
        BY Zenon, <2>3 DEF Early
    <2> QED
        BY Zenon, <1>1, <2>1, <2>3, <2>4, <2>5, RejectTypes, RejectRows, EarlyFlight
<1>6. ASSUME NEW o \in Operator, LoadDeadLetter(o, a)
      PROVE  TypeOK' /\ RowsInv' /\ FlightInv'
    <2>1. /\ UNCHANGED <<state, approval, run, ready, deadLetter, evidence, attempts, reservation>>
          /\ UNCHANGED <<claim, cycle, errorCode, worker, request, effect, sent>>
        BY Zenon, <1>6 DEF LoadDeadLetter, rowVars, historyVars, ledgerVars
    <2> QED
        BY Zenon, <1>1, <1>6, <2>1, LoadTypes, RowsKept, FlightKept
<1>7. ASSUME ExpireBeforeEffect(a)
      PROVE  TypeOK' /\ RowsInv' /\ FlightInv'
    <2>1. state[a] \in Early /\ "rejected" \in Early
        BY Zenon, <1>7 DEF ExpireBeforeEffect, Early
    <2>2. state' = [state EXCEPT ![a] = "rejected"]
        BY Zenon, <1>7 DEF ExpireBeforeEffect
    <2>3. \A c \in Action \ {a} : errorCode'[c] = errorCode[c]
        BY Zenon, <1>1, <1>7 DEF ExpireBeforeEffect, TypeOK
    <2>4. UNCHANGED <<claim, cycle, worker, request, effect, sent>>
        BY Zenon, <1>7 DEF ExpireBeforeEffect, historyVars
    <2> QED
        BY Zenon, <1>1, <1>7, <2>1, <2>2, <2>3, <2>4, ExpireTypes, ExpireRows, EarlyFlight
<1>8. ASSUME LeaveRunAuthorizing(a)
      PROVE  TypeOK' /\ RowsInv' /\ FlightInv'
    <2>1. UNCHANGED <<state, claim, cycle, errorCode, worker, request, effect, sent>>
        BY Zenon, <1>8 DEF LeaveRunAuthorizing, historyVars
    <2> QED
        BY Zenon, <1>1, <1>8, <2>1, LeaveTypes, LeaveRows, FlightKept
<1> QED
    BY Zenon, <1>2, <1>3, <1>4, <1>5, <1>6, <1>7, <1>8

\* redrive_dead_letter, accepted or refused.
LEMMA RedriveInv ==
    ASSUME IndInv, NEW o \in Operator, RedriveDeadLetter(o)
    PROVE  TypeOK' /\ RowsInv' /\ FlightInv'
<1>1. TypeOK /\ RowsInv /\ FlightInv
    BY Zenon, IndInvSplit
<1>2. TypeOK'
    BY Zenon, <1>1, RedriveTypes
<1>3. CASE /\ Redrivable(redrive[o].action, redrive[o].row, redrive[o].expected)
           /\ AcceptRedrive(redrive[o].action, redrive[o].row)
    BY Zenon, <1>1, <1>2, <1>3, RedriveRows, RedriveFlight
<1>4. CASE UNCHANGED <<rowVars, lapsed, worker, request, effect, historyVars, ledgerVars>>
    <2>1. /\ UNCHANGED <<state, approval, run, ready, deadLetter, evidence, attempts, reservation>>
          /\ UNCHANGED <<claim, cycle, errorCode, worker, request, effect, sent>>
        BY Zenon, <1>4 DEF rowVars, historyVars, ledgerVars
    <2> QED
        BY Zenon, <1>1, <1>2, <2>1, RowsKept, FlightKept
<1> QED
    BY Zenon, <1>3, <1>4 DEF RedriveDeadLetter

\* settle.
LEMMA SettleInv ==
    ASSUME IndInv, NEW w \in Worker, Settle(w)
    PROVE  TypeOK' /\ RowsInv' /\ FlightInv'
<1> DEFINE a == worker[w].action
<1>1. TypeOK /\ RowsInv /\ FlightInv
    BY Zenon, IndInvSplit
<1>2. TypeOK' /\ FlightInv'
    BY SMTT(30), <1>1, SettleTypes, SettleFlight
<1>3. a \in Action /\ state[a] \in {"executing", "reconciling"}
    BY Zenon, <1>1, SettlesClaimed DEF Settle
<1>4. UNCHANGED <<approval, attempts>>
    BY Zenon DEF Settle
<1>5. \/ SettleCommitted(a)
      \/ \E x \in Replies : SettleFailed(a, x)
      \/ SettleAmbiguous(a, worker[w].mode)
    BY Zenon DEF Settle, Replies
<1> HIDE DEF a
<1>6. CASE SettleCommitted(a)
    <2>1. /\ state' = [state EXCEPT ![a] = "committed"] /\ run' = [run EXCEPT ![a] = "completed"]
          /\ CloseAction(a) /\ SettleActionReservations(a, "committed" = "committed")
        BY Zenon, <1>6 DEF SettleCommitted
    <2>2. "completed" \in RunsIn("committed") /\ "committed" \in {"committed", "failed"}
        BY Zenon DEF RunsIn
    <2> QED
        BY Zenon, <1>1, <1>2, <1>3, <1>4, <2>1, <2>2, CloseRows
<1>7. ASSUME NEW x, SettleFailed(a, x)
      PROVE  TypeOK' /\ RowsInv' /\ FlightInv'
    <2>1. /\ state' = [state EXCEPT ![a] = "failed"] /\ run' = [run EXCEPT ![a] = "failed"]
          /\ CloseAction(a) /\ SettleActionReservations(a, "failed" = "committed")
        BY Zenon, <1>7 DEF SettleFailed
    <2>2. "failed" \in RunsIn("failed") /\ "failed" \in {"committed", "failed"}
        BY Zenon DEF RunsIn
    <2> QED
        BY Zenon, <1>1, <1>2, <1>3, <1>4, <2>1, <2>2, CloseRows
<1>8. CASE SettleAmbiguous(a, worker[w].mode)
    BY Zenon, <1>1, <1>2, <1>3, <1>4, <1>8, AmbiguousRows
<1> QED
    BY Zenon, <1>5, <1>6, <1>7, <1>8
\* The other steps of the worker, and its failure.
LEMMA WorkerInv ==
    ASSUME IndInv, NEW w \in Worker,
           \/ \E a \in Action : ClaimReady(w, a) \/ ClaimReconciliation(w, a)
           \/ Dispatch(w) \/ OutcomeUnknown(w) \/ SettleStale(w) \/ WorkerFails(w)
    PROVE  TypeOK' /\ RowsInv' /\ FlightInv'
<1>1. TypeOK /\ RowsInv /\ FlightInv
    BY Zenon, IndInvSplit
<1>2. ASSUME NEW a \in Action, ClaimReady(w, a)
      PROVE  TypeOK' /\ RowsInv' /\ FlightInv'
    BY Zenon, <1>1, <1>2, ClaimReadyTypes, ClaimReadyRows, ClaimReadyFlight
<1>3. ASSUME NEW a \in Action, ClaimReconciliation(w, a)
      PROVE  TypeOK' /\ RowsInv' /\ FlightInv'
    BY Zenon, <1>1, <1>3, ClaimReconciliationTypes, ClaimReconciliationRows, ClaimReconciliationFlight
<1>4. ASSUME Dispatch(w) \/ OutcomeUnknown(w) \/ SettleStale(w) \/ WorkerFails(w)
      PROVE  TypeOK' /\ RowsInv' /\ FlightInv'
    <2>1. UNCHANGED <<state, approval, run, ready, deadLetter, evidence, attempts, reservation>>
        BY Zenon, <1>4 DEF Dispatch, OutcomeUnknown, SettleStale, WorkerFails, rowVars, ledgerVars
    <2>2. TypeOK'
        BY Zenon, <1>1, <1>4, WorkerTypes
    <2>3. RowsInv'
        BY Zenon, <1>1, <2>1, RowsKept
    <2>4. FlightInv'
        BY Zenon, <1>1, <1>4, DispatchFlight, QuietFlight
    <2> QED
        BY Zenon, <2>2, <2>3, <2>4
<1> QED
    BY Zenon, <1>2, <1>3, <1>4
\* The gateway, the provider and the clock write no row that RowsInv is about.
LEMMA NetworkInv ==
    ASSUME IndInv, NEW r \in request,
           \/ GatewayAuthorizes(r) \/ GatewayDenies(r) \/ ProviderCommits(r)
           \/ ProviderRejects(r) \/ ProviderLooksUp(r)
    PROVE  TypeOK' /\ RowsInv' /\ FlightInv'
<1>1. TypeOK /\ RowsInv /\ FlightInv
    BY Zenon, IndInvSplit
<1>2. UNCHANGED <<state, approval, run, ready, deadLetter, evidence, attempts, reservation>>
    BY Zenon DEF GatewayAuthorizes, GatewayDenies, ProviderCommits, ProviderRejects, ProviderLooksUp,
           Answer, rowVars, ledgerVars
<1>3. TypeOK'
    BY Zenon, <1>1, NetworkTypes
<1>4. RowsInv'
    BY Zenon, <1>1, <1>2, RowsKept
<1>5. FlightInv'
    BY Zenon, <1>1, AuthorizeFlight, AnsweredFlight
<1> QED
    BY Zenon, <1>3, <1>4, <1>5

\* Leases, delays, approvals and policy decisions may lapse at any moment.
LEMMA ClockInv ==
    ASSUME IndInv, NEW a \in Action,
           \/ LeaseExpires(a) \/ ReconciliationDue(a)
           \/ \E what \in {"approval", "governance"} : Lapse(a, what)
    PROVE  TypeOK' /\ RowsInv' /\ FlightInv'
<1>1. TypeOK /\ RowsInv /\ FlightInv
    BY Zenon, IndInvSplit
<1>2. /\ UNCHANGED <<state, approval, run, ready, deadLetter, evidence, attempts, reservation>>
      /\ UNCHANGED <<claim, cycle, errorCode, worker, request, effect, sent>>
    BY Zenon DEF LeaseExpires, ReconciliationDue, Lapse, rowVars, historyVars, ledgerVars
<1> QED
    BY Zenon, <1>1, <1>2, ClockTypes, RowsKept, FlightKept

\* A step that changes nothing.
LEMMA StutterInv ==
    ASSUME IndInv, UNCHANGED vars
    PROVE  TypeOK' /\ RowsInv' /\ FlightInv'
<1>1. TypeOK /\ RowsInv /\ FlightInv
    BY Zenon, IndInvSplit
<1>2. /\ UNCHANGED <<state, approval, run, ready, deadLetter, evidence, attempts, reservation>>
      /\ UNCHANGED <<claim, cycle, errorCode, worker, request, effect, sent>>
    BY Zenon DEF vars, rowVars, historyVars, ledgerVars
<1>3. UNCHANGED <<reserved, spent, lease, due, lapsed, redrive, redriven>>
    BY Zenon DEF vars, rowVars, historyVars, ledgerVars
<1>4. TypeOK'
    BY Zenon, <1>1, <1>2, <1>3 DEF TypeOK, LedgerTypeOK
<1> QED
    BY Zenon, <1>1, <1>2, <1>4, RowsKept, FlightKept

\* Every step of the system keeps the invariant.
LEMMA StepInv == IndInv /\ [Next]_vars => IndInv'
<1>1. (TypeOK /\ RowsInv /\ FlightInv)' => IndInv'
    <2>1. TypeOK /\ RowsInv /\ FlightInv => IndInv
        BY Zenon, IndInvSplit
    <2> QED
        BY <2>1, PTL
<1>2. ASSUME IndInv, [Next]_vars
      PROVE  TypeOK' /\ RowsInv' /\ FlightInv'
    <2>1. CASE Caller
        BY Zenon, <1>2, <2>1, CallerInv
    <2>2. ASSUME NEW o \in Operator, RedriveDeadLetter(o)
          PROVE  TypeOK' /\ RowsInv' /\ FlightInv'
        BY Zenon, <1>2, <2>2, RedriveInv
    <2>3. ASSUME NEW w \in Worker, WorkerStep(w) \/ WorkerFails(w)
          PROVE  TypeOK' /\ RowsInv' /\ FlightInv'
        <3>1. CASE Settle(w)
            BY Zenon, <1>2, <3>1, SettleInv
        <3>2. CASE \/ \E a \in Action : ClaimReady(w, a) \/ ClaimReconciliation(w, a)
                   \/ Dispatch(w) \/ OutcomeUnknown(w) \/ SettleStale(w) \/ WorkerFails(w)
            BY Zenon, <1>2, <3>2, WorkerInv
        <3> QED
            BY Zenon, <2>3, <3>1, <3>2 DEF WorkerStep
    <2>4. CASE Network
        BY Zenon, <1>2, <2>4, NetworkInv DEF Network
    <2>5. CASE Clock
        BY Zenon, <1>2, <2>5, ClockInv DEF Clock
    <2>6. CASE UNCHANGED vars
        BY Zenon, <1>2, <2>6, StutterInv
    <2> QED
        BY Zenon, <1>2, <2>1, <2>2, <2>3, <2>4, <2>5, <2>6 DEF Next
<1> QED
    BY Zenon, <1>1, <1>2
\* However callers, workers, operators, the gateway and the provider
\* interleave, the inductive invariant holds.
THEOREM ActionsCorrect == Spec => []IndInv
BY InitInv, StepInv, PTL DEF Spec

\* Every row, message and worker is what its table or message type allows.
THEOREM TypesCorrect == Spec => []TypeOK
<1>1. IndInv => TypeOK
    BY Zenon DEF IndInv
<1> QED
    BY <1>1, ActionsCorrect, PTL

\* No crash, lease expiry, redrive or reconciliation makes the gateway send a
\* second execution of an action.
THEOREM NeverExecutedTwice == Spec => []ExecutedAtMostOnce
<1>1. IndInv => ExecutedAtMostOnce
    BY Zenon DEF IndInv, ExecutionIsOnePlace, ExecutedAtMostOnce
<1> QED
    BY <1>1, ActionsCorrect, PTL

\* Only an approved action, or one the policy allowed, is sent or has effect.
THEOREM NoEffectWithoutApproval == Spec => []EffectNeedsApproval
<1>1. IndInv => EffectNeedsApproval
    <2> SUFFICES ASSUME IndInv, NEW a \in Action, effect[a] \/ sent[a] > 0
                 PROVE  /\ approval[a] \in {"none", "approved"}
                        /\ state[a] \in Uncertain \cup {"committed", "failed"}
        BY Zenon DEF EffectNeedsApproval
    <2>1. claim[a] > 0
        BY Zenon DEF IndInv, ExecutionIsOnePlace
    <2>2. state[a] \notin {"none", "proposed", "approved", "rejected"}
        BY <2>1 DEF IndInv, ClaimsIssued
    <2>3. state[a] \in ActionStates /\ approval[a] \in ApprovalStates
        BY Zenon DEF IndInv, TypeOK
    <2>4. approval[a] \notin {"pending", "denied", "expired"}
        BY Zenon, <2>2 DEF IndInv, ApprovalFollowsAction
    <2> QED
        BY Zenon, <2>2, <2>3, <2>4 DEF ActionStates, ApprovalStates, Uncertain
<1> QED
    BY <1>1, ActionsCorrect, PTL

\* A claim token that a later claim has replaced settles nothing.
THEOREM ClaimsAreExclusive == Spec => []OneClaimHolder
<1>1. IndInv => OneClaimHolder
    <2> SUFFICES ASSUME IndInv, NEW v \in Worker, NEW w \in Worker, HoldsClaim(v), HoldsClaim(w),
                        worker[v].action = worker[w].action
                 PROVE  v = w
        BY Zenon DEF OneClaimHolder
    <2>1. /\ worker[v].pc # "idle" /\ worker[w].pc # "idle"
          /\ worker[v].claim = worker[w].claim
        BY Zenon DEF HoldsClaim
    <2> QED
        BY Zenon, <2>1 DEF IndInv, ClaimsIssued
<1> QED
    BY <1>1, ActionsCorrect, PTL

\* Reservations are active while the outcome is open, charged on success, and
\* given back otherwise.
THEOREM ReservationsAreKept == Spec => []ReservationsFollowAction
<1>1. IndInv => ReservationsFollowAction
    BY Zenon DEF IndInv
<1> QED
    BY <1>1, ActionsCorrect, PTL

\* Success is recorded only for an effect the provider has: settle commits on the
\* gateway's word alone.
THEOREM OutcomesAreTrue == Spec => []CommittedHasEffect
<1>1. IndInv => CommittedHasEffect
    BY Zenon DEF IndInv
<1> QED
    BY <1>1, ActionsCorrect, PTL

\* An execution the gateway denied was never sent, whichever claim it came from.
THEOREM DenialsSentNothing == Spec => []DeniedExecutionSentNothing
<1>1. IndInv => DeniedExecutionSentNothing
    BY Zenon DEF IndInv
<1> QED
    BY <1>1, ActionsCorrect, PTL

\* The run row, written by every handler beside the action's, agrees with it.
THEOREM RunsFollowActions == Spec => []RunFollowsAction
<1>1. IndInv => RunFollowsAction
    BY Zenon DEF IndInv
<1> QED
    BY <1>1, ActionsCorrect, PTL

\* An outbox event that can still be claimed stands for an approved action.
THEOREM ReadyIsApproved == Spec => []ReadyMeansApproved
<1>1. IndInv => ReadyMeansApproved
    BY Zenon DEF IndInv
<1> QED
    BY <1>1, ActionsCorrect, PTL

\* The dead-letter row is open exactly while its action is dead-lettered.
THEOREM DeadLettersFollowActions == Spec => []DeadLetterFollowsAction
<1>1. IndInv => DeadLetterFollowsAction
    BY Zenon DEF IndInv
<1> QED
    BY <1>1, ActionsCorrect, PTL

\* A sealed evidence bundle says what the rows say ever after.
THEOREM EvidenceStaysTrue == Spec => []EvidenceMatchesRows
<1>1. IndInv => EvidenceMatchesRows
    BY Zenon DEF IndInv
<1> QED
    BY <1>1, ActionsCorrect, PTL

-----------------------------------------------------------------------------
INSTANCE FiniteSetTheorems

(* The ledger of Budgets.  LedgerInv is inductive: the running totals are  *)
(* the estimates of the rows behind them, so an active row is always       *)
(* covered by reserved_value and can always be given back.                 *)

LedgerInv == LedgerTypeOK /\ WithinLimit /\ LedgerBalances

\* Every estimate is a positive number.
LEMMA EstimatePositive == \A b \in Budget : EstimateOf(b) \in Nat /\ EstimateOf(b) > 0
BY BudgetAssumption DEF EstimateOf

\* One more or one fewer row is one more or one fewer estimate.
LEMMA OneRowMore ==
    ASSUME NEW e \in Nat, NEW n \in Nat
    PROVE  /\ e * n \in Nat
           /\ e * (n + 1) = e * n + e
           /\ n > 0 => e * (n - 1) = e * n - e /\ e * n >= e
<1>1. e * n \in Nat /\ e * (n + 1) = e * n + e
    OBVIOUS
<1>2. ASSUME n > 0
      PROVE  e * (n - 1) = e * n - e /\ e * n >= e
    <2> DEFINE m == n - 1
    <2>1. m \in Nat /\ n = m + 1
        BY <1>2
    <2> HIDE DEF m
    <2>2. e * m \in Nat /\ e * (m + 1) = e * m + e
        BY <2>1
    <2>3. e * n = e * m + e
        BY Zenon, <2>1, <2>2
    <2>4. e * m = e * n - e /\ e * n >= e
        BY <2>2, <2>3
    <2> QED
        BY Zenon, <2>4 DEF m
<1> QED
    BY Zenon, <1>1, <1>2

\* The rows counted for a budget are finitely many.
LEMMA RowsFinite ==
    \A b \in Budget :
        /\ IsFiniteSet(Holders(b)) /\ Cardinality(Holders(b)) \in Nat
        /\ IsFiniteSet(Charged(b)) /\ Cardinality(Charged(b)) \in Nat
<1> SUFFICES ASSUME NEW b \in Budget
             PROVE  /\ IsFiniteSet(Holders(b)) /\ Cardinality(Holders(b)) \in Nat
                    /\ IsFiniteSet(Charged(b)) /\ Cardinality(Charged(b)) \in Nat
    BY Zenon
<1>1. Holders(b) \in SUBSET Action /\ Charged(b) \in SUBSET Action
    BY Zenon DEF Holders, Charged
<1>2. IsFiniteSet(Action)
    BY Zenon, BudgetAssumption
<1>3. IsFiniteSet(Holders(b)) /\ IsFiniteSet(Charged(b))
    BY Zenon, <1>1, <1>2, FS_Subset
<1> QED
    BY Zenon, <1>3, FS_CardinalityType

\* Adding a row that was not counted, and removing one that was.
LEMMA CountOneMore ==
    ASSUME NEW S, IsFiniteSet(S), NEW x, x \notin S
    PROVE  Cardinality(S \cup {x}) = Cardinality(S) + 1
BY Zenon, FS_AddElement

\* Taking one holder away from a budget lowers the count by one.
LEMMA CountOneLess ==
    ASSUME NEW S, IsFiniteSet(S), NEW x, x \in S
    PROVE  Cardinality(S \ {x}) = Cardinality(S) - 1 /\ Cardinality(S) > 0
<1>1. Cardinality(S \ {x}) = Cardinality(S) - 1
    BY Zenon, FS_RemoveElement
<1>2. Cardinality(S) \in Nat /\ Cardinality(S) # 0
    BY Zenon, FS_CardinalityType, FS_EmptySet
<1> QED
    BY <1>1, <1>2

\* An active row is covered by reserved_value, so release and settle never
\* raise "cannot be released safely" or "cannot be reconciled safely".
LEMMA HeldIsCovered == LedgerInv => AlwaysReconcilable
<1> SUFFICES ASSUME LedgerInv, NEW a \in Action, NEW b \in Held(a)
             PROVE  reserved[b] >= EstimateOf(b)
    BY Zenon DEF AlwaysReconcilable, Reconcilable
<1>1. b \in Budget /\ a \in Holders(b)
    BY Zenon DEF Held, Holders
<1>2. Cardinality(Holders(b)) \in Nat /\ Cardinality(Holders(b)) > 0
    BY Zenon, <1>1, RowsFinite, CountOneLess
<1>3. EstimateOf(b) * Cardinality(Holders(b)) >= EstimateOf(b)
    BY Zenon, <1>1, <1>2, EstimatePositive, OneRowMore
<1> QED
    BY Zenon, <1>1, <1>3 DEF LedgerInv, LedgerBalances
-----------------------------------------------------------------------------
\* reserve_budgets keeps the ledger balanced and within its limits.
LEMMA ReserveKeepsInv ==
    ASSUME LedgerInv, NEW a \in Action, Unreserved(a), ReserveBudgets(a)
    PROVE  LedgerInv'
<1> USE EstimatePositive DEF LedgerInv, LedgerTypeOK
<1>1. \A b \in Budget : reserved'[b] =
            IF b \in Applicable(a) THEN reserved[b] + EstimateOf(b) ELSE reserved[b]
    BY Zenon DEF ReserveBudgets
<1>2. LedgerTypeOK'
    BY DEF ReserveBudgets, ReservationStatus
<1>3. WithinLimit'
    <2> SUFFICES ASSUME NEW b \in Budget PROVE spent'[b] + reserved'[b] <= Limit[b]
        BY Zenon DEF WithinLimit
    <2> QED
        BY <1>1, BudgetAssumption DEF ReserveBudgets, HasRoom, WithinLimit
<1>4. LedgerBalances'
    <2> SUFFICES ASSUME NEW b \in Budget
                 PROVE  /\ reserved'[b] = EstimateOf(b) * Cardinality(Holders(b)')
                        /\ spent'[b] = EstimateOf(b) * Cardinality(Charged(b)')
        BY Zenon DEF LedgerBalances, EstimateOf
    <2>1. reservation[a][b] = "none"
        BY Zenon DEF Unreserved
    <2>2. Charged(b)' = Charged(b)
        BY Zenon, <2>1 DEF Charged, ReserveBudgets
    <2>3. CASE b \in Applicable(a)
        <3>1. Holders(b)' = Holders(b) \cup {a} /\ a \notin Holders(b)
            BY Zenon, <2>1, <2>3 DEF Holders, ReserveBudgets
        <3>2. Cardinality(Holders(b)') = Cardinality(Holders(b)) + 1
            BY Zenon, <3>1, RowsFinite, CountOneMore
        <3>3. EstimateOf(b) * (Cardinality(Holders(b)) + 1) =
                EstimateOf(b) * Cardinality(Holders(b)) + EstimateOf(b)
            BY Zenon, RowsFinite, OneRowMore
        <3> QED
            BY Zenon, <1>1, <2>2, <2>3, <3>2, <3>3 DEF LedgerBalances, ReserveBudgets
    <2>4. CASE b \notin Applicable(a)
        <3>1. Holders(b)' = Holders(b)
            BY Zenon, <2>1, <2>4 DEF Holders, ReserveBudgets
        <3> QED
            BY Zenon, <1>1, <2>2, <2>4, <3>1 DEF LedgerBalances, ReserveBudgets
    <2> QED
        BY Zenon, <2>3, <2>4
<1> QED
    BY Zenon, <1>2, <1>3, <1>4

\* Giving rows back: what release and settle share.
LEMMA UnreserveTotals ==
    ASSUME LedgerInv, NEW a \in Action, Reconcilable(a), reserved' = Unreserve(a)
    PROVE  \A b \in Budget :
             reserved'[b] = IF b \in Held(a) THEN reserved[b] - EstimateOf(b) ELSE reserved[b]
BY Zenon DEF Unreserve

\* A held row leaves the holders of its budget.
LEMMA HolderLeaves ==
    ASSUME LedgerInv, NEW a \in Action, NEW b \in Held(a)
    PROVE  EstimateOf(b) * Cardinality(Holders(b) \ {a}) = reserved[b] - EstimateOf(b)
<1>1. b \in Budget /\ a \in Holders(b)
    BY Zenon DEF Held, Holders
<1>2. Cardinality(Holders(b) \ {a}) = Cardinality(Holders(b)) - 1 /\ Cardinality(Holders(b)) > 0
    BY Zenon, <1>1, RowsFinite, CountOneLess
<1>3. EstimateOf(b) * (Cardinality(Holders(b)) - 1) =
        EstimateOf(b) * Cardinality(Holders(b)) - EstimateOf(b)
    BY Zenon, <1>1, <1>2, RowsFinite, EstimatePositive, OneRowMore
<1> QED
    BY Zenon, <1>1, <1>2, <1>3 DEF LedgerInv, LedgerBalances

\* release_action_reservations keeps the ledger balanced and within its limits.
LEMMA ReleaseKeepsInv ==
    ASSUME LedgerInv, NEW a \in Action, ReleaseActionReservations(a)
    PROVE  LedgerInv'
<1> USE EstimatePositive DEF LedgerInv, LedgerTypeOK
<1>1. \A b \in Budget :
        reserved'[b] = IF b \in Held(a) THEN reserved[b] - EstimateOf(b) ELSE reserved[b]
    BY Zenon, UnreserveTotals DEF ReleaseActionReservations
<1>2. \A b \in Held(a) : b \in Budget /\ reserved[b] >= EstimateOf(b)
    BY Zenon DEF ReleaseActionReservations, Reconcilable, Held
<1>3. LedgerTypeOK'
    BY <1>1, <1>2 DEF ReleaseActionReservations, Unreserve, ReservationStatus
<1>4. WithinLimit'
    <2> SUFFICES ASSUME NEW b \in Budget PROVE spent'[b] + reserved'[b] <= Limit[b]
        BY Zenon DEF WithinLimit
    <2> QED
        BY <1>1, <1>2, BudgetAssumption DEF ReleaseActionReservations, WithinLimit
<1>5. LedgerBalances'
    <2> SUFFICES ASSUME NEW b \in Budget
                 PROVE  /\ reserved'[b] = EstimateOf(b) * Cardinality(Holders(b)')
                        /\ spent'[b] = EstimateOf(b) * Cardinality(Charged(b)')
        BY Zenon DEF LedgerBalances, EstimateOf
    <2>1. Charged(b)' = Charged(b)
        BY Zenon DEF Charged, Held, ReleaseActionReservations
    <2>2. CASE b \in Held(a)
        <3>1. Holders(b)' = Holders(b) \ {a}
            BY Zenon, <2>2 DEF Holders, Held, ReleaseActionReservations
        <3> QED
            BY Zenon, <1>1, <2>1, <2>2, <3>1, HolderLeaves DEF LedgerBalances, ReleaseActionReservations
    <2>3. CASE b \notin Held(a)
        <3>1. Holders(b)' = Holders(b)
            BY Zenon, <2>3 DEF Holders, Held, ReleaseActionReservations
        <3> QED
            BY Zenon, <1>1, <2>1, <2>3, <3>1 DEF LedgerBalances, ReleaseActionReservations
    <2> QED
        BY Zenon, <2>2, <2>3
<1> QED
    BY Zenon, <1>3, <1>4, <1>5

\* settle_action_reservations keeps the ledger balanced and within its limits:
\* what it charges was held, for the same amount.
LEMMA SettleKeepsInv ==
    ASSUME LedgerInv, NEW a \in Action, NEW c \in BOOLEAN, SettleActionReservations(a, c)
    PROVE  LedgerInv'
<1> USE EstimatePositive DEF LedgerInv, LedgerTypeOK
<1>1. \A b \in Budget :
        /\ reserved'[b] = IF b \in Held(a) THEN reserved[b] - EstimateOf(b) ELSE reserved[b]
        /\ spent'[b] = IF b \in Spends(a, c) THEN spent[b] + EstimateOf(b) ELSE spent[b]
    BY Zenon, UnreserveTotals DEF SettleActionReservations
<1>2. \A b \in Held(a) : b \in Budget /\ reserved[b] >= EstimateOf(b)
    BY Zenon DEF SettleActionReservations, Reconcilable, Held
<1>3. Spends(a, c) \subseteq Held(a)
    BY Zenon DEF Spends
<1>4. LedgerTypeOK'
    <2>1. reserved' \in [Budget -> Nat]
        BY <1>1, <1>2 DEF SettleActionReservations, Unreserve
    <2>2. spent' \in [Budget -> Nat]
        BY DEF SettleActionReservations
    <2>3. reservation' \in [Action -> [Budget -> ReservationStatus]]
        BY Zenon DEF SettleActionReservations, ReservationStatus
    <2> QED
        BY Zenon, <2>1, <2>2, <2>3
<1>5. WithinLimit'
    <2> SUFFICES ASSUME NEW b \in Budget PROVE spent'[b] + reserved'[b] <= Limit[b]
        BY Zenon DEF WithinLimit
    <2> QED
        BY <1>1, <1>2, <1>3, BudgetAssumption DEF WithinLimit
<1>6. LedgerBalances'
    <2> SUFFICES ASSUME NEW b \in Budget
                 PROVE  /\ reserved'[b] = EstimateOf(b) * Cardinality(Holders(b)')
                        /\ spent'[b] = EstimateOf(b) * Cardinality(Charged(b)')
        BY Zenon DEF LedgerBalances, EstimateOf
    <2>1. CASE b \in Spends(a, c)
        <3>1. b \in Held(a) /\ a \notin Charged(b)
            BY Zenon, <1>3, <2>1 DEF Held, Charged
        <3>2. Holders(b)' = Holders(b) \ {a} /\ Charged(b)' = Charged(b) \cup {a}
            BY Zenon, <2>1, <3>1 DEF Holders, Charged, SettleActionReservations
        <3>3. Cardinality(Charged(b)') = Cardinality(Charged(b)) + 1
            BY Zenon, <3>1, <3>2, RowsFinite, CountOneMore
        <3>4. EstimateOf(b) * (Cardinality(Charged(b)) + 1) =
                EstimateOf(b) * Cardinality(Charged(b)) + EstimateOf(b)
            BY Zenon, RowsFinite, OneRowMore
        <3>5. spent'[b] = EstimateOf(b) * Cardinality(Charged(b)')
            BY Zenon, <1>1, <2>1, <3>3, <3>4 DEF LedgerBalances
        <3> QED
            BY Zenon, <1>1, <3>1, <3>2, <3>5, HolderLeaves
    <2>2. CASE b \in Held(a) /\ b \notin Spends(a, c)
        <3>1. Holders(b)' = Holders(b) \ {a} /\ Charged(b)' = Charged(b)
            BY Zenon, <2>2 DEF Holders, Charged, Held, SettleActionReservations
        <3> QED
            BY Zenon, <1>1, <2>2, <3>1, HolderLeaves DEF LedgerBalances
    <2>3. CASE b \notin Held(a)
        <3>1. Holders(b)' = Holders(b) /\ Charged(b)' = Charged(b)
            BY Zenon, <1>3, <2>3 DEF Holders, Charged, Held, SettleActionReservations
        <3> QED
            BY Zenon, <1>1, <1>3, <2>3, <3>1 DEF LedgerBalances
    <2> QED
        BY Zenon, <2>1, <2>2, <2>3
<1> QED
    BY Zenon, <1>4, <1>5, <1>6
-----------------------------------------------------------------------------
\* Empty tables satisfy the invariant.
LEMMA LedgerInitInv == LedgerInit => LedgerInv
<1> SUFFICES ASSUME LedgerInit PROVE LedgerInv
    BY Zenon
<1>1. LedgerTypeOK /\ WithinLimit
    BY BudgetAssumption DEF LedgerInit, LedgerTypeOK, WithinLimit, ReservationStatus
<1>2. LedgerBalances
    <2> SUFFICES ASSUME NEW b \in Budget
                 PROVE  /\ 0 = EstimateOf(b) * Cardinality(Holders(b))
                        /\ 0 = EstimateOf(b) * Cardinality(Charged(b))
        BY Zenon DEF LedgerBalances, LedgerInit
    <2>1. Holders(b) = {} /\ Charged(b) = {}
        BY Zenon DEF LedgerInit, Holders, Charged
    <2> QED
        BY <2>1, FS_EmptySet, EstimatePositive
<1> QED
    BY Zenon, <1>1, <1>2 DEF LedgerInv

\* Every step of the ledger keeps the invariant.
LEMMA LedgerStepInv == LedgerInv /\ [LedgerNext]_ledgerVars => LedgerInv'
<1> SUFFICES ASSUME LedgerInv, [LedgerNext]_ledgerVars PROVE LedgerInv'
    BY Zenon
<1>1. CASE LedgerNext
    BY Zenon, <1>1, ReserveKeepsInv, ReleaseKeepsInv, SettleKeepsInv DEF LedgerNext
<1>2. CASE UNCHANGED ledgerVars
    BY Zenon, <1>2 DEF ledgerVars, LedgerInv, LedgerTypeOK, WithinLimit, LedgerBalances,
                Holders, Charged, EstimateOf
<1> QED
    BY Zenon, <1>1, <1>2

\* Whatever the callers of services/budgets.py do, LedgerInv holds.
THEOREM LedgerCorrect == LedgerSpec => []LedgerInv
BY LedgerInitInv, LedgerStepInv, PTL DEF LedgerSpec

\* reserved_value and spent_value never go below zero: what release and settle
\* give back was held.
THEOREM LedgerTypesCorrect == LedgerSpec => []LedgerTypeOK
<1>1. LedgerInv => LedgerTypeOK
    BY Zenon DEF LedgerInv
<1> QED
    BY <1>1, LedgerCorrect, PTL

\* No interleaving of reservations, releases and settlements takes a budget
\* past its limit.
THEOREM NeverOverspent == LedgerSpec => []WithinLimit
<1>1. LedgerInv => WithinLimit
    BY Zenon DEF LedgerInv
<1> QED
    BY <1>1, LedgerCorrect, PTL

\* reserved_value and spent_value always equal the estimates of their rows.
THEOREM TotalsMatchRows == LedgerSpec => []LedgerBalances
<1>1. LedgerInv => LedgerBalances
    BY Zenon DEF LedgerInv
<1> QED
    BY <1>1, LedgerCorrect, PTL

\* release and settle never refuse a reservation that is active.
THEOREM NeverStuck == LedgerSpec => []AlwaysReconcilable
BY HeldIsCovered, LedgerCorrect, PTL

-----------------------------------------------------------------------------
(* Governed actions. *)

OnlyTouches(a) ==
    \A c \in Action \ {a} : UNCHANGED <<state[c], run[c], reservation[c], errorCode[c]>>

\* Approval, denial and cancellation find the action proposed.
LEMMA DecisionFindsProposed ==
    ASSUME IndInv, NEW a \in Action, approval[a] = "pending"
    PROVE  state[a] = "proposed"
BY Zenon DEF IndInv, ApprovalFollowsAction

\* The operations on the ledger write the rows of one action.
LEMMA LedgerTouchesOne ==
    ASSUME NEW a, LedgerTypeOK,
           \/ ReserveBudgets(a) \/ ReleaseActionReservations(a)
           \/ \E k \in BOOLEAN : SettleActionReservations(a, k)
    PROVE  \A c \in Action \ {a} : reservation'[c] = reservation[c]
BY Zenon DEF LedgerTypeOK, ReserveBudgets, ReleaseActionReservations, SettleActionReservations

\* settle writes the action of its claim, which is claimed.
LEMMA SettleTouchesClaimed ==
    ASSUME IndInv, NEW w \in Worker, Settle(w)
    PROVE  /\ OnlyTouches(worker[w].action)
           /\ worker[w].action \in Action
           /\ state[worker[w].action] \in {"executing", "reconciling"}
<1> DEFINE a == worker[w].action
<1>1. TypeOK /\ FlightInv
    BY Zenon, IndInvSplit
<1>2. a \in Action /\ state[a] \in {"executing", "reconciling"}
    BY Zenon, <1>1, SettlesClaimed DEF Settle
<1>3. \/ SettleCommitted(a)
      \/ \E x \in Replies : SettleFailed(a, x)
      \/ SettleAmbiguous(a, worker[w].mode)
    BY Zenon DEF Settle, Replies
<1>4. /\ state \in [Action -> ActionStates] /\ run \in [Action -> RunStates]
      /\ errorCode \in [Action -> ErrorCodes] /\ LedgerTypeOK
    BY Zenon, <1>1 DEF TypeOK
<1> HIDE DEF a
<1>5. ASSUME SettleCommitted(a) PROVE OnlyTouches(a)
    <2>1. SettleActionReservations(a, TRUE)
        BY Zenon, <1>5 DEF SettleCommitted
    <2>2. \A c \in Action \ {a} : reservation'[c] = reservation[c]
        BY Zenon, <1>4, <2>1, LedgerTouchesOne
    <2> QED
        BY Zenon, <1>4, <1>5, <2>2 DEF SettleCommitted, OnlyTouches
<1>6. ASSUME NEW x, SettleFailed(a, x) PROVE OnlyTouches(a)
    BY Zenon, <1>4, <1>6, LedgerTouchesOne DEF SettleFailed, OnlyTouches
<1>7. ASSUME SettleAmbiguous(a, worker[w].mode) PROVE OnlyTouches(a)
    <2>1. UNCHANGED reservation
        BY Zenon, <1>7 DEF SettleAmbiguous, ledgerVars
    <2>2. \E s, t : state' = [state EXCEPT ![a] = s] /\ run' = [run EXCEPT ![a] = t]
        BY Zenon, <1>7 DEF SettleAmbiguous, OpenDeadLetter, RequireReconciliation
    <2>3. errorCode' = [errorCode EXCEPT ![a] = "outcome_unknown"]
        BY Zenon, <1>7 DEF SettleAmbiguous
    <2> QED
        BY Zenon, <1>4, <2>1, <2>2, <2>3 DEF OnlyTouches
<1> QED
    BY Zenon, <1>2, <1>3, <1>5, <1>6, <1>7 DEF a

\* What each step may write of an action's rows, and where it finds it.
LEMMA StepTouches ==
    ASSUME IndInv, Next
    PROVE  \/ UNCHANGED <<state, run, reservation, errorCode>>
           \/ \E a : /\ OnlyTouches(a)
                     /\ state[a] \notin {"rejected", "committed", "failed"}
<1> DEFINE Goal == \/ UNCHANGED <<state, run, reservation, errorCode>>
                   \/ \E a : /\ OnlyTouches(a)
                             /\ state[a] \notin {"rejected", "committed", "failed"}
<1>1. /\ state \in [Action -> ActionStates] /\ run \in [Action -> RunStates]
      /\ errorCode \in [Action -> ErrorCodes] /\ LedgerTypeOK
    BY Zenon DEF IndInv, TypeOK
<1>2. ASSUME NEW a \in Action, NEW p, CreateGovernedAction(a, p) PROVE Goal
    <2>1. \A c \in Action \ {a} : reservation'[c] = reservation[c]
        BY Zenon, <1>1, <1>2, LedgerTouchesOne DEF CreateGovernedAction
    <2>2. \E s, t : state' = [state EXCEPT ![a] = s] /\ run' = [run EXCEPT ![a] = t]
        BY Zenon, <1>2 DEF CreateGovernedAction
    <2>3. UNCHANGED errorCode /\ state[a] = "none"
        BY Zenon, <1>2 DEF CreateGovernedAction, FreshKey
    <2>4. OnlyTouches(a)
        BY Zenon, <1>1, <2>1, <2>2, <2>3 DEF OnlyTouches
    <2> QED
        BY Zenon, <2>3, <2>4
<1>3. ASSUME NEW a \in Action, Approve(a) PROVE Goal
    <2>1. OnlyTouches(a)
        BY Zenon, <1>1, <1>3 DEF Approve, OnlyTouches, ledgerVars
    <2>2. state[a] = "proposed"
        BY Zenon, <1>3, DecisionFindsProposed DEF Approve, Decidable
    <2> QED
        BY Zenon, <2>1, <2>2
<1>4. ASSUME NEW a \in Action, Deny(a) \/ CancelRun(a) PROVE Goal
    <2>1. RejectBeforeEffect(a) /\ state[a] = "proposed"
        BY Zenon, <1>4, DecisionFindsProposed DEF Deny, CancelRun, Decidable
    <2>2. \A c \in Action \ {a} : reservation'[c] = reservation[c]
        BY Zenon, <1>1, <2>1, LedgerTouchesOne DEF RejectBeforeEffect
    <2>3. OnlyTouches(a)
        BY Zenon, <1>1, <2>1, <2>2 DEF RejectBeforeEffect, OnlyTouches
    <2> QED
        BY Zenon, <2>1, <2>3
<1>5. ASSUME NEW a \in Action, NEW o \in Operator, LoadDeadLetter(o, a) PROVE Goal
    BY Zenon, <1>5 DEF LoadDeadLetter, rowVars, ledgerVars
<1>6. ASSUME NEW o \in Operator, RedriveDeadLetter(o) PROVE Goal
    <2> DEFINE a == redrive[o].action
    <2>1. \/ Redrivable(a, redrive[o].row, redrive[o].expected) /\ AcceptRedrive(a, redrive[o].row)
          \/ UNCHANGED <<rowVars, ledgerVars>>
        BY Zenon, <1>6 DEF RedriveDeadLetter
    <2> HIDE DEF a
    <2>2. ASSUME Redrivable(a, redrive[o].row, redrive[o].expected), AcceptRedrive(a, redrive[o].row)
          PROVE  Goal
        <3>1. OnlyTouches(a)
            BY Zenon, <1>1, <2>2 DEF AcceptRedrive, OnlyTouches, ledgerVars
        <3>2. state[a] = "dead_lettered"
            BY Zenon, <2>2 DEF Redrivable
        <3> QED
            BY Zenon, <3>1, <3>2
    <2> QED
        BY Zenon, <2>1, <2>2 DEF rowVars, ledgerVars
<1>7. ASSUME NEW w \in Worker, NEW a \in Action, ClaimReady(w, a) PROVE Goal
    <2>1. OnlyTouches(a)
        BY Zenon, <1>1, <1>7 DEF ClaimReady, OnlyTouches, ledgerVars
    <2>2. state[a] = "approved"
        BY Zenon, <1>7 DEF ClaimReady, ReadyToExecute
    <2> QED
        BY Zenon, <2>1, <2>2
<1>8. ASSUME NEW w \in Worker, NEW a \in Action, ClaimReconciliation(w, a) PROVE Goal
    <2>1. OnlyTouches(a)
        BY Zenon, <1>1, <1>8 DEF ClaimReconciliation, OnlyTouches, ledgerVars
    <2>2. state[a] \in {"executing", "reconciliation_required"}
        BY Zenon, <1>8 DEF ClaimReconciliation, NeedsReconciliation
    <2> QED
        BY Zenon, <2>1, <2>2
<1>9. ASSUME NEW w \in Worker, Settle(w) PROVE Goal
    BY Zenon, <1>9, SettleTouchesClaimed
<1>10. ASSUME NEW w \in Worker,
              Dispatch(w) \/ OutcomeUnknown(w) \/ SettleStale(w) \/ WorkerFails(w)
       PROVE  Goal
    BY Zenon, <1>10 DEF Dispatch, OutcomeUnknown, SettleStale, WorkerFails, rowVars, ledgerVars
<1>11. ASSUME Network PROVE Goal
    BY <1>11 DEF Network, GatewayAuthorizes, GatewayDenies, ProviderCommits, ProviderRejects,
                 ProviderLooksUp, Answer, rowVars, ledgerVars
<1>12. ASSUME Clock PROVE Goal
    BY Zenon, <1>12 DEF Clock, LeaseExpires, ReconciliationDue, Lapse, rowVars, ledgerVars
<1>13. ASSUME NEW a \in Action, ExpireBeforeEffect(a) PROVE Goal
    <2>1. \A c \in Action \ {a} : reservation'[c] = reservation[c]
        BY Zenon, <1>1, <1>13, LedgerTouchesOne DEF ExpireBeforeEffect
    <2>2. OnlyTouches(a)
        BY Zenon, <1>1, <1>13, <2>1 DEF ExpireBeforeEffect, OnlyTouches
    <2>3. state[a] \in {"proposed", "approved"}
        BY Zenon, <1>13 DEF ExpireBeforeEffect
    <2> QED
        BY Zenon, <2>2, <2>3
<1>14. ASSUME NEW a \in Action, LeaveRunAuthorizing(a) PROVE Goal
    <2>1. OnlyTouches(a)
        BY Zenon, <1>1, <1>14 DEF LeaveRunAuthorizing, OnlyTouches, ledgerVars
    <2> QED
        BY Zenon, <1>14, <2>1 DEF LeaveRunAuthorizing, FreshKey
<1>15. ASSUME Caller PROVE Goal
    BY Zenon, <1>2, <1>3, <1>4, <1>5, <1>13, <1>14, <1>15 DEF Caller
<1>16. ASSUME NEW w \in Worker, WorkerStep(w) \/ WorkerFails(w) PROVE Goal
    BY Zenon, <1>7, <1>8, <1>9, <1>10, <1>16 DEF WorkerStep
<1> HIDE DEF Goal
<1>17. Goal
    BY Zenon, <1>6, <1>11, <1>12, <1>15, <1>16 DEF Next
<1> QED
    BY Zenon, <1>17 DEF Goal

\* Rejected, committed and failed actions keep their state, run, reservations
\* and error code whatever a late worker, a second decision or a redrive does.
THEOREM FinalStaysFinal == Spec => FinalIsFinal
<1>1. IndInv /\ [Next]_vars => [KeepsFinal]_vars
    <2> SUFFICES ASSUME IndInv, Next PROVE KeepsFinal
        BY Zenon
    <2> QED
        BY Zenon, StepTouches DEF OnlyTouches, KeepsFinal
<1> QED
    BY <1>1, ActionsCorrect, PTL DEF Spec, FinalIsFinal
-----------------------------------------------------------------------------
(* The ledger.                                                             *)

\* settle gives up or charges reservations, or leaves the ledger alone.
LEMMA SettleIsLedgerStep ==
    ASSUME IndInv, NEW w \in Worker, Settle(w)
    PROVE  [LedgerNext]_ledgerVars
<1> DEFINE a == worker[w].action
<1>1. a \in Action
    BY Zenon, SettleTouchesClaimed
<1>2. \/ SettleActionReservations(a, TRUE)
      \/ SettleActionReservations(a, FALSE)
      \/ UNCHANGED ledgerVars
    BY Zenon DEF Settle, SettleCommitted, SettleFailed, SettleAmbiguous
<1> HIDE DEF a
<1> QED
    BY Zenon, <1>1, <1>2 DEF LedgerNext

\* Every step of the system reserves for an action that holds nothing, releases
\* or settles what one action holds, or leaves the ledger alone.
LEMMA StepIsLedgerStep == IndInv /\ [Next]_vars => [LedgerNext]_ledgerVars
<1> SUFFICES ASSUME IndInv, [Next]_vars PROVE [LedgerNext]_ledgerVars
    BY Zenon
<1>1. ASSUME NEW a \in Action, NEW p, CreateGovernedAction(a, p) PROVE LedgerNext
    <2>1. RowOK(a) /\ state[a] = "none"
        BY Zenon, <1>1, IndInvSplit, RowsSplit DEF CreateGovernedAction, FreshKey
    <2>2. \A b \in Budget : ReservationIn("none", b) = "none"
        BY Zenon DEF ReservationIn, Uncertain
    <2>3. Unreserved(a)
        BY Zenon, <2>1, <2>2 DEF RowOK, Unreserved
    <2> QED
        BY Zenon, <1>1, <2>3 DEF CreateGovernedAction, LedgerNext
<1>2. ASSUME NEW a \in Action, Deny(a) \/ CancelRun(a) \/ ExpireBeforeEffect(a) PROVE LedgerNext
    BY Zenon, <1>2 DEF Deny, CancelRun, RejectBeforeEffect, ExpireBeforeEffect, LedgerNext
<1>3. ASSUME NEW a \in Action,
             LeaveRunAuthorizing(a) \/ Approve(a) \/ \E o \in Operator : LoadDeadLetter(o, a)
      PROVE  UNCHANGED ledgerVars
    BY Zenon, <1>3 DEF LeaveRunAuthorizing, Approve, LoadDeadLetter
<1>4. CASE Caller
    BY Zenon, <1>1, <1>2, <1>3, <1>4 DEF Caller
<1>5. ASSUME NEW o \in Operator, RedriveDeadLetter(o) PROVE UNCHANGED ledgerVars
    BY Zenon, <1>5 DEF RedriveDeadLetter, AcceptRedrive
<1>6. ASSUME NEW w \in Worker, Settle(w) PROVE [LedgerNext]_ledgerVars
    BY Zenon, <1>6, SettleIsLedgerStep
<1>7. ASSUME NEW w \in Worker,
             \/ \E a \in Action : ClaimReady(w, a) \/ ClaimReconciliation(w, a)
             \/ Dispatch(w) \/ OutcomeUnknown(w) \/ SettleStale(w) \/ WorkerFails(w)
      PROVE  UNCHANGED ledgerVars
    BY Zenon, <1>7 DEF ClaimReady, ClaimReconciliation, Dispatch, OutcomeUnknown, SettleStale, WorkerFails
<1>8. CASE Network
    BY Zenon, <1>8 DEF Network, GatewayAuthorizes, GatewayDenies, ProviderCommits, ProviderRejects,
                ProviderLooksUp, Answer
<1>9. CASE Clock
    BY Zenon, <1>9 DEF Clock, LeaseExpires, ReconciliationDue, Lapse
<1>10. CASE UNCHANGED vars
    BY Zenon, <1>10 DEF vars
<1>11. ASSUME NEW w \in Worker, WorkerStep(w) \/ WorkerFails(w) PROVE [LedgerNext]_ledgerVars
    BY Zenon, <1>6, <1>7, <1>11 DEF WorkerStep
<1> QED
    BY Zenon, <1>4, <1>5, <1>8, <1>9, <1>10, <1>11 DEF Next

\* The system of governed actions implements the ledger of services/budgets.py.
THEOREM ActionsImplementLedger == Spec => LedgerSpec
<1>1. Init => LedgerInit
    BY Zenon DEF Init
<1> QED
    BY <1>1, StepIsLedgerStep, ActionsCorrect, PTL DEF Spec, LedgerSpec

\* No governed action, whatever becomes of it, takes a budget past its limit,
\* and the totals always match the rows.
THEOREM ActionsNeverOverspend == Spec => [](WithinLimit /\ LedgerBalances)
BY ActionsImplementLedger, NeverOverspent, TotalsMatchRows, PTL
-----------------------------------------------------------------------------
(* Redrives one after another.                                             *)

\* The row an operator loaded is still the row of the table, and its counter
\* counts the redrives.
RowsAreCurrent ==
    /\ \A a \in Action :
        redriven[a] = deadLetter[a].redrives /\ redriven[a] <= MaxRedrives
    /\ \A o \in Operator :
        redrive[o] # NoRedrive =>
            /\ redrive[o].action \in Action
            /\ redrive[o].row = deadLetter[redrive[o].action]
            /\ redrive[o].row.status = "open"
\* A settlement writes the dead letter of an action that is not dead-lettered,
\* and keeps its count.
LEMMA SettleKeepsCounts ==
    ASSUME IndInv, NEW w \in Worker, Settle(w)
    PROVE  /\ \A a \in Action : deadLetter'[a].redrives = deadLetter[a].redrives
           /\ \A a \in Action : state[a] = "dead_lettered" => deadLetter'[a] = deadLetter[a]
           /\ UNCHANGED <<redrive, redriven>>
<1> DEFINE a == worker[w].action
<1>1. a \in Action /\ state[a] # "dead_lettered" /\ deadLetter \in [Action -> DeadLetterRows]
    BY Zenon, SettleTouchesClaimed DEF IndInv, TypeOK
<1>2. UNCHANGED <<redrive, redriven>>
    BY Zenon DEF Settle, historyVars
<1>3. \/ CloseAction(a) \/ OpenDeadLetter(a) \/ RequireReconciliation(a)
    BY Zenon DEF Settle, SettleCommitted, SettleFailed, SettleAmbiguous
<1>4. /\ Resolved(deadLetter[a]).redrives = deadLetter[a].redrives
      /\ Opened(deadLetter[a]).redrives = deadLetter[a].redrives
    BY Zenon DEF Resolved, Opened
<1> HIDE DEF a
<1>5. ASSUME NEW x, x.redrives = deadLetter[a].redrives,
             deadLetter' = [deadLetter EXCEPT ![a] = x]
      PROVE  /\ \A c \in Action : deadLetter'[c].redrives = deadLetter[c].redrives
             /\ \A c \in Action : state[c] = "dead_lettered" => deadLetter'[c] = deadLetter[c]
    BY Zenon, <1>1, <1>5
<1>6. \/ deadLetter' = [deadLetter EXCEPT ![a] = Resolved(deadLetter[a])]
      \/ deadLetter' = [deadLetter EXCEPT ![a] = Opened(deadLetter[a])]
      \/ UNCHANGED deadLetter
    BY Zenon, <1>3 DEF CloseAction, OpenDeadLetter, RequireReconciliation
<1> QED
    BY Zenon, <1>2, <1>4, <1>5, <1>6

\* No other step of workers, callers, gateway, provider or clock writes a dead
\* letter or a count.
LEMMA OthersKeepCounts ==
    ASSUME [Next]_vars,
           ~\E w \in Worker : Settle(w),
           ~\E o \in Operator : RedriveDeadLetter(o) \/ \E a \in Action : LoadDeadLetter(o, a)
    PROVE  UNCHANGED <<deadLetter, redrive, redriven>>
<1>1. CASE Caller
    BY Zenon, <1>1 DEF Caller, CreateGovernedAction, Approve, Deny, CancelRun, RejectBeforeEffect,
                     LeaveRunAuthorizing, ExpireBeforeEffect, historyVars
<1>2. ASSUME NEW w \in Worker, WorkerStep(w) \/ WorkerFails(w)
      PROVE  UNCHANGED <<deadLetter, redrive, redriven>>
    BY Zenon, <1>2 DEF WorkerStep, ClaimReady, ClaimReconciliation, Dispatch, OutcomeUnknown, SettleStale,
                WorkerFails, rowVars, historyVars
<1>3. CASE Network
    BY Zenon, <1>3 DEF Network, GatewayAuthorizes, GatewayDenies, ProviderCommits, ProviderRejects,
                ProviderLooksUp, Answer, rowVars
<1>4. CASE Clock
    BY Zenon, <1>4 DEF Clock, LeaseExpires, ReconciliationDue, Lapse, rowVars, historyVars
<1>5. CASE UNCHANGED vars
    BY Zenon, <1>5 DEF vars, rowVars, historyVars
<1> QED
    BY Zenon, <1>1, <1>2, <1>3, <1>4, <1>5 DEF Next

\* One operator at a time checks the row the table has.
LEMMA CountsStep ==
    ASSUME \A o, p \in Operator : o = p
    PROVE  IndInv /\ RowsAreCurrent /\ [Next]_vars => RowsAreCurrent'
<1> SUFFICES ASSUME IndInv, RowsAreCurrent, [Next]_vars PROVE RowsAreCurrent'
    BY Zenon
<1>1. /\ deadLetter \in [Action -> DeadLetterRows] /\ redriven \in [Action -> Nat]
      /\ redrive \in [Operator -> LoadedRows] /\ MaxRedrives \in Nat
      /\ \A a \in Action : deadLetter[a].status = "open" <=> state[a] = "dead_lettered"
      /\ \A a \in Action : deadLetter[a].redrives \in Nat
    BY Zenon, ActionsAssumption DEF IndInv, TypeOK, DeadLetterFollowsAction, DeadLetterRows
<1>2. ASSUME NEW w \in Worker, Settle(w) PROVE RowsAreCurrent'
    BY <1>1, <1>2, SettleKeepsCounts DEF RowsAreCurrent
<1>3. ASSUME NEW o \in Operator, NEW a \in Action, LoadDeadLetter(o, a) PROVE RowsAreCurrent'
    <2>1. PICK v : redrive' = [redrive EXCEPT ![o] =
                        [action |-> a, row |-> deadLetter[a], expected |-> v]]
        BY Zenon, <1>3 DEF LoadDeadLetter
    <2>2. UNCHANGED <<deadLetter, redriven>> /\ deadLetter[a].status = "open"
        BY Zenon, <1>3 DEF LoadDeadLetter, rowVars, historyVars
    <2>3. /\ redrive'[o].action = a /\ redrive'[o].row = deadLetter[a]
        BY Zenon, <1>1, <2>1
    <2> QED
        BY Zenon, <1>1, <2>2, <2>3 DEF RowsAreCurrent
<1>4. ASSUME NEW o \in Operator, RedriveDeadLetter(o) PROVE RowsAreCurrent'
    <2> DEFINE a == redrive[o].action
               row == redrive[o].row
    <2>1. a \in Action /\ row = deadLetter[a] /\ redrive'[o] = NoRedrive
        BY Zenon, <1>1, <1>4 DEF RowsAreCurrent, RedriveDeadLetter
    <2>2. \/ row.redrives < MaxRedrives /\ AcceptRedrive(a, row)
          \/ UNCHANGED <<deadLetter, redriven>>
        BY Zenon, <1>4 DEF RedriveDeadLetter, Redrivable, rowVars, historyVars
    <2>3. \A p \in Operator : redrive'[p] = NoRedrive
        BY Zenon, <2>1
    <2> HIDE DEF a, row
    <2>4. ASSUME row.redrives < MaxRedrives, AcceptRedrive(a, row)
          PROVE  \A c \in Action : /\ redriven'[c] = deadLetter'[c].redrives
                                   /\ redriven'[c] <= MaxRedrives
        <3>1. /\ deadLetter'[a].redrives = row.redrives + 1
              /\ \A c \in Action \ {a} : deadLetter'[c] = deadLetter[c]
            BY Zenon, <1>1, <2>1, <2>4 DEF AcceptRedrive
        <3>2. /\ redriven'[a] = redriven[a] + 1
              /\ \A c \in Action \ {a} : redriven'[c] = redriven[c]
            BY Zenon, <1>1, <2>1, <2>4 DEF AcceptRedrive
        <3>3. \A c \in Action : redriven[c] = deadLetter[c].redrives /\ redriven[c] <= MaxRedrives
            BY Zenon DEF RowsAreCurrent
        <3> QED
            BY SMTT(20), <1>1, <2>1, <2>4, <3>1, <3>2, <3>3
    <2> QED
        BY Zenon, <2>2, <2>3, <2>4 DEF RowsAreCurrent
<1>5. CASE /\ ~\E w \in Worker : Settle(w)
           /\ ~\E o \in Operator : RedriveDeadLetter(o) \/ \E a \in Action : LoadDeadLetter(o, a)
    BY Zenon, <1>5, OthersKeepCounts DEF RowsAreCurrent
<1> QED
    BY Zenon, <1>2, <1>3, <1>4, <1>5

\* When the redrives of the control plane come from one operator at a time, no
\* action is redriven more than max_dlq_redrives times.  With two at a time
\* the stale read of redrive_dead_letter breaks this.
THEOREM LoneOperatorStaysWithinAllowance ==
    ASSUME \A o, p \in Operator : o = p
    PROVE  Spec => []RedrivesBounded
<1>1. Init => RowsAreCurrent
    BY ActionsAssumption DEF Init, RowsAreCurrent, NoDeadLetter, NoRedrive
<1>2. RowsAreCurrent => RedrivesBounded
    BY Zenon DEF RowsAreCurrent, RedrivesBounded
<1>3. IndInv /\ RowsAreCurrent /\ [Next]_vars => RowsAreCurrent'
    BY Zenon, CountsStep
<1> QED
    BY <1>1, <1>2, <1>3, ActionsCorrect, PTL DEF Spec
=============================================================================
