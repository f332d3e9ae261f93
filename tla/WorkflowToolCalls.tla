------------------------- MODULE WorkflowToolCalls -------------------------
(***************************************************************************)
(* Tool nodes of workflows: the workflow_tool_calls row that binds a       *)
(* parent execution, stopped at its tool node, to the governed action it   *)
(* requested.  Every handler of GovernedActions that moves the action also *)
(* moves its tool call, and the engine moves the parent; this module       *)
(* composes them.  Action a is the one that parent a requests.             *)
(*                                                                         *)
(* The parent is seen from the moment it is queued at its tool node until  *)
(* it leaves it: "passed" stands for a node completed with the tool's      *)
(* result.  The engine's claim is a fenced lease: a claim that a later one *)
(* has replaced changes nothing, so only the latest is represented, and a  *)
(* crashed worker is one whose advance never comes.                        *)
(*                                                                         *)
(* Every writer of the tool call locks its timeout event, or the parent's  *)
(* execution, before it reads the call, so each handler is one step.       *)
(***************************************************************************)
EXTENDS GovernedActions

VARIABLES
    toolCall,     \* [Action -> workflow_tool_calls.status, "none" before the request]
    parent,       \* [Action -> workflow_executions.status of the parent]
    parentLease,  \* [Action -> the parent's lease_expires_at against now]
    wake,         \* [Action -> the outbox event the parent's latest claim holds]
    event         \* [Action -> where each workflow.ready event of the parent stands]

toolVars == <<toolCall, parent, parentLease, wake, event>>
allVars == <<vars, toolVars>>

\* The event that queued the parent at its node, the timeout scheduled with the
\* tool call, and the one its settlement publishes.
EventKinds == {"ready", "timeout", "resume"}
EventStates == {"none", "scheduled", "available", "dispatched", "processed"}

TerminalCalls == {"completed", "failed", "timed_out", "cancelled"}
CallStates == {"none", "pending_approval", "queued", "executing", "reconciling",
    "reconciliation_required", "dead_lettered"} \cup TerminalCalls
Ended == {"passed", "failed", "cancelled"}
ParentStates == {"queued", "running", "waiting"} \cup Ended

ToolInit ==
    /\ Init
    /\ toolCall = [a \in Action |-> "none"]
    /\ parent = [a \in Action |-> "queued"]
    /\ parentLease = [a \in Action |-> "none"]
    /\ wake = [a \in Action |-> "ready"]
    /\ event = [a \in Action |->
            [k \in EventKinds |-> IF k = "ready" THEN "available" ELSE "none"]]
-----------------------------------------------------------------------------
(* The parent's execution.                                                 *)

\* Mutant: only an event nobody has dispatched is taken.
UndispatchedOnly(a, k) ==
    event[a][k] = "available" /\ parent[a] \in {"queued", "waiting"}

\* An idle execution takes an undispatched event; one whose lease expired
\* takes any unprocessed event, the one its lost claim held included.
Claimable(a, k) ==
    \/ event[a][k] = "available" /\ parent[a] \in {"queued", "waiting"}
    \/ /\ event[a][k] \in {"available", "dispatched"}
       /\ parent[a] = "running" /\ parentLease[a] = "expired"

ClaimParent(a, k) ==
    /\ Claimable(a, k)
    /\ parent' = [parent EXCEPT ![a] = "running"]
    /\ parentLease' = [parentLease EXCEPT ![a] = "live"]
    /\ wake' = [wake EXCEPT ![a] = k]
    /\ event' = [event EXCEPT ![a][k] = "dispatched"]
    /\ UNCHANGED <<vars, toolCall>>

\* advance goes on only with the latest claim and an event nobody has processed
\* since: a settlement that processed the timeout event leaves the parent to
\* the expiry of its lease.
Advancing(a, k) ==
    /\ parent[a] = "running"
    /\ wake[a] = k
    /\ event[a][k] = "dispatched"

\* advance lets the claim go with status s and its event processed.
Leave(a, s) ==
    /\ parent' = [parent EXCEPT ![a] = s]
    /\ parentLease' = [parentLease EXCEPT ![a] = "none"]
    /\ UNCHANGED wake

\* create_workflow_tool_call, with the governed action it creates.
RequestTool(a, effectOfPolicy) ==
    /\ Advancing(a, "ready")
    /\ CreateGovernedAction(a, effectOfPolicy)
    /\ toolCall' = [toolCall EXCEPT ![a] =
            IF state'[a] = "proposed" THEN "pending_approval" ELSE "queued"]
    /\ event' = [event EXCEPT ![a]["ready"] = "processed", ![a]["timeout"] = "scheduled"]
    /\ Leave(a, "waiting")

\* The deadline, a policy or the tool's contract refuses the node before
\* anything is created, or the budgets refuse it after its run is.
RefuseTool(a) ==
    /\ Advancing(a, "ready")
    /\ UNCHANGED vars \/ LeaveRunAuthorizing(a)
    /\ event' = [event EXCEPT ![a]["ready"] = "processed"]
    /\ Leave(a, "failed")
    /\ UNCHANGED toolCall

\* What no dispatch can have reached: expire_workflow_tool_call's
\* safely_cancelable.
SafelyCancelable(a) ==
    \/ state[a] = "proposed" /\ approval[a] = "pending"
    \/ state[a] = "approved" /\ ready[a] = "ready"

\* Mutant: the node's time is up whatever the action is doing.
TimeOutAnyway(a) ==
    /\ Advancing(a, "timeout")
    /\ \/ ExpireBeforeEffect(a)
       \/ ~SafelyCancelable(a) /\ UNCHANGED vars
    /\ toolCall' = [toolCall EXCEPT ![a] = "timed_out"]
    /\ event' = [event EXCEPT ![a]["timeout"] = "processed"]
    /\ Leave(a, "failed")

\* expire_workflow_tool_call of an action nobody has claimed: the parent fails
\* in the same transaction.
TimeOutTool(a) ==
    /\ Advancing(a, "timeout")
    /\ toolCall[a] \notin TerminalCalls
    /\ SafelyCancelable(a)
    /\ ExpireBeforeEffect(a)
    /\ toolCall' = [toolCall EXCEPT ![a] = "timed_out"]
    /\ event' = [event EXCEPT ![a]["timeout"] = "processed"]
    /\ Leave(a, "failed")

\* Past the claim the timeout only copies the action's state into the call, and
\* an action in any other state is marked for reconciliation.  A committed or
\* failed action has settled its call already (CallFollowsAction).
KeepWaiting(a) ==
    /\ Advancing(a, "timeout")
    /\ toolCall[a] \notin TerminalCalls
    /\ ~SafelyCancelable(a)
    /\ toolCall' = [toolCall EXCEPT ![a] =
            IF state[a] \in Uncertain THEN state[a] ELSE "reconciliation_required"]
    /\ event' = [event EXCEPT ![a]["timeout"] = "processed"]
    /\ Leave(a, "waiting")
    /\ UNCHANGED vars

\* Mutant: the wake itself is taken for the result.
AnyResult(a) == TRUE

\* The lineage the engine verifies before it stores a result.
ResultValid(a) ==
    toolCall[a] = "completed" /\ state[a] = "committed" /\ evidence[a].sealed

\* advance with the event of a settled call.
ResumeParent(a) ==
    /\ Advancing(a, "resume")
    /\ toolCall[a] \in TerminalCalls
    /\ event' = [event EXCEPT ![a]["resume"] = "processed"]
    /\ \/ ResultValid(a) /\ Leave(a, "passed")
       \/ ~ResultValid(a) /\ Leave(a, "failed")
    /\ UNCHANGED <<vars, toolCall>>

\* Mutants: a call that has become dispatchable is cancelled with its action; the
\* parent is cancelled whatever its call has become.
CancelDispatchable(a) ==
    /\ parent[a] \in {"queued", "waiting"}
    /\ toolCall[a] \in {"pending_approval", "queued"}
    /\ RejectBeforeEffect(a)
    /\ toolCall' = [toolCall EXCEPT ![a] = "cancelled"]
    /\ Leave(a, "cancelled")
    /\ UNCHANGED event
CancelAnyway(a) ==
    /\ parent[a] \in {"queued", "waiting"}
    /\ \/ RejectBeforeEffect(a) /\ approval[a] = "pending"
       \/ UNCHANGED vars /\ approval[a] # "pending"
    /\ toolCall' = [toolCall EXCEPT ![a] = "cancelled"]
    /\ Leave(a, "cancelled")
    /\ UNCHANGED event

\* cancel_workflow_run of an idle parent: before the request, or with the
\* request still waiting for its approval.
CancelWorkflow(a) ==
    /\ parent[a] \in {"queued", "waiting"}
    /\ \/ toolCall[a] = "none" /\ UNCHANGED <<vars, toolCall>>
       \/ /\ toolCall[a] = "pending_approval"
          /\ state[a] = "proposed" /\ approval[a] = "pending"
          /\ RejectBeforeEffect(a)
          /\ toolCall' = [toolCall EXCEPT ![a] = "cancelled"]
    /\ Leave(a, "cancelled")
    /\ UNCHANGED event
-----------------------------------------------------------------------------
(* The handlers of the action, with what they do to its tool call.         *)

SetCall(a, s) ==
    /\ toolCall' = [toolCall EXCEPT ![a] = s]
    /\ UNCHANGED <<parent, parentLease, wake, event>>

\* Mutant: the parent's timeout is left to run and no event wakes it.
ForgetParent(a, s) == SetCall(a, s)

\* A call that ends closes its timeout and wakes its parent; one that has ended
\* stays as it is.
EndCall(a, s) ==
    /\ IF toolCall[a] \in TerminalCalls THEN UNCHANGED <<toolCall, event>>
       ELSE /\ toolCall' = [toolCall EXCEPT ![a] = s]
            /\ event' = [event EXCEPT ![a]["timeout"] = "processed", ![a]["resume"] = "available"]
    /\ UNCHANGED <<parent, parentLease, wake>>

ToolApproved(a) ==
    /\ Approve(a)
    /\ toolCall[a] = "pending_approval"
    /\ SetCall(a, "queued")

\* reject_workflow_tool_call, in the denial's transaction.
ToolDenied(a) == Deny(a) /\ EndCall(a, "failed")

\* cancel_run knows nothing of tool calls.
ChildRunCancelled(a) == CancelRun(a) /\ UNCHANGED toolVars

\* A redrive that finds the call in another status is refused.
ToolRedriven(o) ==
    LET a == redrive[o].action
        accepted == Redrivable(a, redrive[o].row, redrive[o].expected)
    IN  /\ RedriveDeadLetter(o)
        /\ \/ accepted /\ toolCall[a] = "dead_lettered" /\ SetCall(a, "reconciliation_required")
           \/ ~accepted /\ UNCHANGED toolVars

ToolClaimed(w, a) == ClaimReady(w, a) /\ SetCall(a, "executing")

ToolReconciled(w, a) == ClaimReconciliation(w, a) /\ SetCall(a, "reconciling")

\* settle_workflow_tool_call, on the action as the settlement leaves it.
SettleToolCall(a) ==
    \/ state'[a] = "committed" /\ EndCall(a, "completed")
    \/ state'[a] = "failed" /\ EndCall(a, "failed")
    \/ state'[a] \in {"dead_lettered", "reconciliation_required"} /\ SetCall(a, state'[a])

ToolSettled(w) == Settle(w) /\ SettleToolCall(worker[w].action)

\* Steps of the action that no tool call sees.
ActionOnly ==
    /\ \/ \E w \in Worker : Dispatch(w) \/ OutcomeUnknown(w) \/ SettleStale(w) \/ WorkerFails(w)
       \/ \E o \in Operator, a \in Action : LoadDeadLetter(o, a)
       \/ Network
       \/ Clock
    /\ UNCHANGED toolVars
-----------------------------------------------------------------------------
TimeoutDue(a) ==
    /\ event[a]["timeout"] = "scheduled"
    /\ event' = [event EXCEPT ![a]["timeout"] = "available"]
    /\ UNCHANGED <<vars, toolCall, parent, parentLease, wake>>

ParentLeaseExpires(a) ==
    /\ parentLease[a] = "live"
    /\ parentLease' = [parentLease EXCEPT ![a] = "expired"]
    /\ UNCHANGED <<vars, toolCall, parent, wake, event>>

Advance(a) ==
    \/ \E p \in ExecutableEffects : RequestTool(a, p)
    \/ RefuseTool(a)
    \/ TimeOutTool(a)
    \/ KeepWaiting(a)
    \/ ResumeParent(a)

ToolNext ==
    \/ \E a \in Action :
        \/ \E k \in EventKinds : ClaimParent(a, k)
        \/ Advance(a)
        \/ CancelWorkflow(a)
        \/ ToolApproved(a)
        \/ ToolDenied(a)
        \/ ChildRunCancelled(a)
        \/ TimeoutDue(a)
        \/ ParentLeaseExpires(a)
    \/ \E o \in Operator : ToolRedriven(o)
    \/ \E w \in Worker :
        \/ \E a \in Action : ToolClaimed(w, a) \/ ToolReconciled(w, a)
        \/ ToolSettled(w)
    \/ ActionOnly

ToolSpec == ToolInit /\ [][ToolNext]_allVars

\* Beside the fairness of the action's workers: the engine's workers loop for
\* ever, a claim that is retaken again and again is at last carried through,
\* and timeouts and leases run down.
ToolFairness ==
    \A a \in Action :
        /\ SF_allVars(\E k \in EventKinds : ClaimParent(a, k))
        /\ SF_allVars(Advance(a))
        /\ WF_allVars(TimeoutDue(a))
        /\ WF_allVars(ParentLeaseExpires(a))

FairToolSpec == ToolSpec /\ Fairness /\ ToolFairness
-----------------------------------------------------------------------------
(* Properties.                                                             *)

ToolTypeOK ==
    /\ toolCall \in [Action -> CallStates]
    /\ parent \in [Action -> ParentStates]
    /\ parentLease \in [Action -> {"none", "live", "expired"}]
    /\ wake \in [Action -> EventKinds]
    /\ event \in [Action -> [EventKinds -> EventStates]]

\* A call whose action cancel_run rejected behind its back.
Stranded(a) == state[a] = "rejected" /\ toolCall[a] \notin TerminalCalls

CallsIn(s) ==
    CASE s = "none" -> {"none"}
      [] s = "proposed" -> {"pending_approval"}
      [] s = "approved" -> {"queued"}
      [] s = "committed" -> {"completed"}
      [] s = "failed" -> {"failed"}
      [] s = "rejected" -> {"failed", "timed_out", "cancelled",
                            "pending_approval", "reconciliation_required"}
      [] OTHER -> {s}

\* The tool call, written by decisions, claims, settlements, redrives and
\* timeouts, never disagrees with the action it stands for, whichever of them
\* raced; so the checks of redrive_dead_letter and decide_approval on the
\* call's status never refuse what the action's own rows allow.  Only a
\* rejected action can still have an open call.
CallFollowsAction == \A a \in Action : toolCall[a] \in CallsIn(state[a])

\* ARCHITECTURE.md: a timeout may cancel only a pending approval or an
\* unclaimed action.  A call that timed out or was cancelled, and a cancelled
\* parent, never have an execution sent, an effect or a reservation held,
\* whatever the action's worker was doing when the timeout came.
CancelledBeforeEffect ==
    \A a \in Action :
        (toolCall[a] \in {"timed_out", "cancelled"} \/ parent[a] = "cancelled") =>
            /\ sent[a] = 0
            /\ ~effect[a]
            /\ Held(a) = {}

\* A parent leaves its tool node only after its call has ended, and passes it
\* only for a committed effect with sealed evidence.
ParentFollowsCall ==
    \A a \in Action :
        /\ parent[a] \in Ended => toolCall[a] \in TerminalCalls \cup {"none"}
        /\ parent[a] = "passed" =>
            state[a] = "committed" /\ effect[a] /\ evidence[a].sealed

Unprocessed(a) == {k \in EventKinds : event[a][k] \in {"scheduled", "available", "dispatched"}}

\* No wake is lost: a parent that has not left its node has exactly one event
\* still to come or to be retried, or its action's settlement will publish
\* one.  A settlement that processes the timeout event a worker of the engine
\* has already claimed publishes the other in the same transaction.
WakeIsComing ==
    \A a \in Action :
        parent[a] \notin Ended =>
            \/ \E k \in EventKinds : Unprocessed(a) = {k}
            \/ Unprocessed(a) = {} /\ (state[a] \in Uncertain \/ Stranded(a))

\* The rows of one call beside its action's: where they stand fixes which
\* event the parent still waits for.
Open == CallStates \ (TerminalCalls \cup {"none"})

CallOK(a) ==
    /\ toolCall[a] \in CallsIn(state[a])
    /\ parent[a] \in Ended => toolCall[a] \in TerminalCalls \cup {"none"}
    /\ parent[a] = "passed" => toolCall[a] = "completed"
    /\ parent[a] = "cancelled" => toolCall[a] \in {"none", "cancelled"}
    /\ toolCall[a] = "none" =>
        /\ event[a]["timeout"] = "none" /\ event[a]["resume"] = "none"
        /\ parent[a] \notin Ended => event[a]["ready"] \in {"available", "dispatched"}
    /\ toolCall[a] # "none" => event[a]["ready"] = "processed"
    /\ toolCall[a] \in Open =>
        /\ event[a]["resume"] = "none" /\ event[a]["timeout"] # "none"
        /\ event[a]["timeout"] = "processed" => state[a] \in Uncertain \cup {"rejected"}
    /\ (toolCall[a] \in TerminalCalls /\ parent[a] \notin Ended) =>
        /\ event[a]["timeout"] = "processed"
        /\ event[a]["resume"] \in {"available", "dispatched"}

\* No interleaving of the engine's claims, the timeout, decisions, settlements
\* and cancellations brings the call, its parent and its three events out of
\* step with each other; the rest of this section follows from it.
CallsInv == ToolTypeOK /\ \A a \in Action : CallOK(a)

KeepsEnded ==
    \A a \in Action :
        /\ toolCall[a] \in TerminalCalls => UNCHANGED toolCall[a]
        /\ parent[a] \in Ended => UNCHANGED <<parent[a], toolCall[a]>>

\* Migration 0013 makes terminal tool calls single-use with a trigger; no race
\* of timeout, settlement, decision and cancellation ever trips it.
EndedIsEnded == [][KeepsEnded]_allVars

\* A parent at its tool node leaves it, whatever the callers, the gateway and
\* the provider do and however often workers fail, unless its action waits in
\* the dead-letter queue, its reconciliation was orphaned, or its run was
\* cancelled by itself.
ParentLeavesNode ==
    \A a \in Action :
        (parent[a] \notin Ended) ~>
            \/ parent[a] \in Ended
            \/ state[a] = "dead_lettered" \/ Orphaned(a) \/ Stranded(a)

\* ADR 0014: only an execution that could have reached the provider keeps its
\* parent suspended past the node's timeout.
SuspendedForAnOutcome ==
    \A a \in Action :
        (parent[a] = "waiting" /\ event[a]["timeout"] = "processed"
            /\ toolCall[a] \notin TerminalCalls) => state[a] \in Uncertain
=============================================================================
