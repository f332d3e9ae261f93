---------------------- MODULE WorkflowToolCallsProofs ----------------------
(***************************************************************************)
(* The workflow tool calls implement the governed actions they are built   *)
(* on, so every theorem about those holds of tool calls too; and the call, *)
(* the parent and their events agree with the action for any number of     *)
(* actions, workers, operators, budgets and retries.                       *)
(***************************************************************************)
EXTENDS WorkflowToolCalls, GovernedActionsProofs

-----------------------------------------------------------------------------
(* Every step of a tool call is a step of its action or leaves it alone.   *)

\* A parent cancelled with its request still pending is the cancellation of
\* that request's run.
LEMMA CancelWorkflowIsCancelRun ==
    ASSUME IndInv, NEW a \in Action, CancelWorkflow(a)
    PROVE  CancelRun(a) \/ UNCHANGED vars
<1>1. CASE state[a] = "proposed" /\ approval[a] = "pending" /\ RejectBeforeEffect(a)
    <2>1. run[a] \in RunsIn("proposed")
        BY Zenon, <1>1 DEF IndInv, RunFollowsAction
    <2>2. run[a] = "waiting_for_approval"
        BY Zenon, <2>1 DEF RunsIn
    <2> QED
        BY Zenon, <1>1, <2>2 DEF CancelRun
<1> QED
    BY Zenon, <1>1 DEF CancelWorkflow

\* advance creates, refuses, expires or leaves alone the action of its node.
LEMMA AdvanceIsActionStep ==
    ASSUME NEW a \in Action, Advance(a)
    PROVE  Caller \/ UNCHANGED vars
BY Zenon DEF Advance, RequestTool, RefuseTool, TimeOutTool, KeepWaiting, ResumeParent, Caller

\* Whatever moves a tool call moves its action as that action's own handlers do.
LEMMA ToolStepIsActionStep == IndInv /\ [ToolNext]_allVars => [Next]_vars
<1> SUFFICES ASSUME IndInv, [ToolNext]_allVars PROVE [Next]_vars
    BY Zenon
<1>1. ASSUME NEW a \in Action, Advance(a) PROVE [Next]_vars
    BY Zenon, <1>1, AdvanceIsActionStep DEF Next
<1>2. ASSUME NEW a \in Action, CancelWorkflow(a) PROVE [Next]_vars
    BY Zenon, <1>2, CancelWorkflowIsCancelRun DEF Next, Caller
<1>3. ASSUME NEW a \in Action, ToolApproved(a) \/ ToolDenied(a) \/ ChildRunCancelled(a)
      PROVE  Next
    BY Zenon, <1>3 DEF ToolApproved, ToolDenied, ChildRunCancelled, Next, Caller
<1>4. ASSUME NEW a \in Action,
             (\E k \in EventKinds : ClaimParent(a, k)) \/ TimeoutDue(a) \/ ParentLeaseExpires(a)
      PROVE  UNCHANGED vars
    BY Zenon, <1>4 DEF ClaimParent, TimeoutDue, ParentLeaseExpires
<1>5. ASSUME NEW o \in Operator, ToolRedriven(o) PROVE Next
    BY Zenon, <1>5 DEF ToolRedriven, Next
<1>6. ASSUME NEW w \in Worker,
             (\E a \in Action : ToolClaimed(w, a) \/ ToolReconciled(w, a)) \/ ToolSettled(w)
      PROVE  Next
    BY Zenon, <1>6 DEF ToolClaimed, ToolReconciled, ToolSettled, Next, WorkerStep
<1>7. CASE ActionOnly
    BY Zenon, <1>7 DEF ActionOnly, Next, WorkerStep, Caller
<1>8. CASE UNCHANGED allVars
    BY Zenon, <1>8 DEF allVars
<1> QED
    BY Zenon, <1>1, <1>2, <1>3, <1>4, <1>5, <1>6, <1>7, <1>8 DEF ToolNext

\* The invariant of the governed actions holds of those that tool nodes make.
LEMMA ToolsKeepActionInvariant == ToolSpec => []IndInv
<1>1. ToolInit => IndInv
    BY Zenon, InitInv DEF ToolInit
<1>2. IndInv /\ [ToolNext]_allVars => IndInv'
    BY Zenon, ToolStepIsActionStep, StepInv
<1> QED
    BY <1>1, <1>2, PTL DEF ToolSpec

\* Tool calls implement governed actions: the engine, its timeouts and
\* cancellations do nothing to an action that its own handlers could not do.
THEOREM ToolCallsImplementActions == ToolSpec => Spec
<1>1. ToolInit => Init
    BY Zenon DEF ToolInit
<1> QED
    BY <1>1, ToolStepIsActionStep, ToolsKeepActionInvariant, PTL DEF ToolSpec, Spec
-----------------------------------------------------------------------------
(* The rows of one call, beside its action.                                *)

CallRow(a) == <<state[a], toolCall[a], parent[a], event[a]>>

\* The statuses a call can have beside each state of its action.
LEMMA CallsTable ==
    /\ CallsIn("none") = {"none"} /\ CallsIn("proposed") = {"pending_approval"}
    /\ CallsIn("approved") = {"queued"} /\ CallsIn("committed") = {"completed"}
    /\ CallsIn("failed") = {"failed"}
    /\ CallsIn("rejected") = {"failed", "timed_out", "cancelled",
                              "pending_approval", "reconciliation_required"}
    /\ \A s \in Uncertain : CallsIn(s) = {s}
BY Zenon DEF CallsIn, Uncertain

\* A step that writes the rows of one call only has to get those right.
LEMMA OneCallChanges ==
    ASSUME CallsInv, ToolTypeOK', NEW a, a \in Action => CallOK(a)',
           \A c \in Action \ {a} : CallRow(c)' = CallRow(c)
    PROVE  CallsInv'
<1>1. ASSUME NEW c \in Action PROVE CallOK(c)'
    <2>1. CASE c = a
        BY Zenon, <2>1
    <2>2. CASE c # a
        <3>1. /\ state'[c] = state[c] /\ toolCall'[c] = toolCall[c] /\ parent'[c] = parent[c]
              /\ event'[c] = event[c]
            BY Zenon, <2>2 DEF CallRow
        <3>2. CallOK(c)
            BY Zenon DEF CallsInv
        <3> QED
            BY Zenon, <3>1, <3>2 DEF CallOK, CallsIn
    <2> QED
        BY Zenon, <2>1, <2>2
<1> QED
    BY Zenon, <1>1 DEF CallsInv

\* A step that writes none of the rows CallOK looks at.
LEMMA CallsKept ==
    ASSUME CallsInv, ToolTypeOK', UNCHANGED <<state, toolCall, parent, event>>
    PROVE  CallsInv'
<1>1. ASSUME NEW c \in Action PROVE CallOK(c)'
    <2>1. CallOK(c)
        BY Zenon DEF CallsInv
    <2> QED
        BY Zenon, <2>1 DEF CallOK, CallsIn
<1> QED
    BY Zenon, <1>1 DEF CallsInv

-----------------------------------------------------------------------------
(* The engine's own steps.                                                 *)

\* Claims write the events they take and nothing CallOK counts as progress.
LEMMA ClaimParentCalls ==
    ASSUME CallsInv, NEW a \in Action, NEW k \in EventKinds, ClaimParent(a, k)
    PROVE  CallsInv'
<1>1. ToolTypeOK'
    BY Zenon DEF CallsInv, ToolTypeOK, ClaimParent, ParentStates, EventKinds, EventStates
<1>2. CallOK(a)'
    <2>1. CallOK(a) /\ ToolTypeOK
        BY Zenon DEF CallsInv
    <2>2. state' = state /\ toolCall' = toolCall
        BY Zenon DEF ClaimParent, vars, rowVars
    <2>3. parent[a] \notin Ended /\ parent'[a] \notin Ended
        BY Zenon, <2>1 DEF ClaimParent, Claimable, ToolTypeOK, Ended
    <2>4. event[a][k] \in {"available", "dispatched"}
        BY Zenon DEF ClaimParent, Claimable
    <2>5. event'[a] = [event[a] EXCEPT ![k] = "dispatched"]
        BY Zenon, <2>1 DEF ClaimParent, ToolTypeOK
    <2>6. event'[a][k] = "dispatched" /\ \A j \in EventKinds \ {k} : event'[a][j] = event[a][j]
        BY <2>1, <2>5 DEF ToolTypeOK
    <2>7. parent'[a] # "passed" /\ parent'[a] # "cancelled"
        BY Zenon, <2>3 DEF Ended
    <2> QED
        BY Zenon, <2>1, <2>2, <2>3, <2>4, <2>6, <2>7 DEF CallOK, EventKinds
<1>3. \A c \in Action \ {a} : CallRow(c)' = CallRow(c)
    BY Zenon DEF CallsInv, ToolTypeOK, ClaimParent, CallRow, vars, rowVars
<1> QED
    BY Zenon, <1>1, <1>2, <1>3, OneCallChanges

\* The request opens the call beside the action it creates.
LEMMA RequestToolCalls ==
    ASSUME TypeOK, CallsInv, NEW a \in Action, NEW p \in ExecutableEffects, RequestTool(a, p)
    PROVE  CallsInv'
<1>1. ToolTypeOK'
    BY Zenon DEF CallsInv, ToolTypeOK, RequestTool, Leave, ParentStates, CallStates, EventKinds, EventStates
<1>2. CallOK(a)'
    <2>1. CallOK(a) /\ ToolTypeOK
        BY Zenon DEF CallsInv
    <2>2. \/ state'[a] = "proposed" /\ toolCall'[a] = "pending_approval"
          \/ state'[a] = "approved" /\ toolCall'[a] = "queued"
        BY Zenon, <2>1 DEF RequestTool, CreateGovernedAction, TypeOK, ToolTypeOK
    <2>3. toolCall[a] = "none"
        BY Zenon, <2>1, CallsTable DEF RequestTool, CreateGovernedAction, FreshKey, CallOK
    <2>4. /\ event'[a]["ready"] = "processed" /\ event'[a]["timeout"] = "scheduled"
          /\ event'[a]["resume"] = "none"
        BY <2>1, <2>3 DEF RequestTool, ToolTypeOK, EventKinds, CallOK
    <2>5. parent'[a] = "waiting"
        BY SMTT(30), <2>1 DEF RequestTool, Leave, ToolTypeOK
    <2> QED
        BY Zenon, <2>2, <2>4, <2>5, CallsTable DEF CallOK, Ended, TerminalCalls
<1>3. \A c \in Action \ {a} : CallRow(c)' = CallRow(c)
    BY DEF CallsInv, TypeOK, ToolTypeOK, RequestTool, CreateGovernedAction, Leave, CallRow
<1> QED
    BY Zenon, <1>1, <1>2, <1>3, OneCallChanges

\* A refused node ends before it has a call.
LEMMA RefuseToolCalls ==
    ASSUME CallsInv, NEW a \in Action, RefuseTool(a)
    PROVE  CallsInv'
<1>1. ToolTypeOK'
    BY Zenon DEF CallsInv, ToolTypeOK, RefuseTool, Leave, ParentStates, Ended, EventKinds, EventStates
<1>0. state' = state /\ toolCall' = toolCall
    BY Zenon DEF RefuseTool, LeaveRunAuthorizing, vars, rowVars
<1>2. CallOK(a)'
    <2>1. CallOK(a) /\ ToolTypeOK
        BY Zenon DEF CallsInv
    <2>2. event[a]["ready"] = "dispatched" /\ toolCall[a] = "none"
        BY Zenon, <2>1 DEF RefuseTool, Advancing, CallOK
    <2>3. parent'[a] = "failed"
        BY Zenon, <2>1 DEF RefuseTool, Leave, ToolTypeOK
    <2>4. /\ event'[a]["timeout"] = event[a]["timeout"]
          /\ event'[a]["resume"] = event[a]["resume"]
        BY Zenon, <2>1 DEF RefuseTool, ToolTypeOK, EventKinds
    <2> QED
        BY Zenon, <1>0, <2>1, <2>2, <2>3, <2>4 DEF CallOK, Ended, TerminalCalls, Open
<1>3. \A c \in Action \ {a} : CallRow(c)' = CallRow(c)
    BY Zenon, <1>0 DEF CallsInv, ToolTypeOK, RefuseTool, Leave, CallRow
<1> QED
    BY Zenon, <1>1, <1>2, <1>3, OneCallChanges

\* A timeout before the claim rejects the action and fails the parent with it.
LEMMA TimeOutToolCalls ==
    ASSUME TypeOK, CallsInv, NEW a \in Action, TimeOutTool(a)
    PROVE  CallsInv'
<1>1. ToolTypeOK'
    BY Zenon DEF CallsInv, ToolTypeOK, TimeOutTool, Leave, ParentStates, Ended, CallStates,
           TerminalCalls, EventKinds, EventStates
<1>2. CallOK(a)'
    <2>1. CallOK(a) /\ ToolTypeOK
        BY Zenon DEF CallsInv
    <2>2. event[a]["timeout"] = "dispatched" /\ toolCall[a] # "none"
        BY Zenon, <2>1 DEF TimeOutTool, Advancing, CallOK
    <2>3. parent'[a] = "failed" /\ toolCall'[a] = "timed_out"
        BY Zenon, <2>1 DEF TimeOutTool, Leave, ToolTypeOK
    <2>4. state'[a] = "rejected"
        BY Zenon DEF TimeOutTool, ExpireBeforeEffect, TypeOK
    <2>5. event'[a]["ready"] = event[a]["ready"]
        BY SMTT(30), <2>1 DEF TimeOutTool, ToolTypeOK, EventKinds
    <2> QED
        BY Zenon, <2>1, <2>2, <2>3, <2>4, <2>5, CallsTable DEF CallOK, Ended, TerminalCalls, Open
<1>3. \A c \in Action \ {a} : CallRow(c)' = CallRow(c)
    BY DEF CallsInv, TypeOK, ToolTypeOK, TimeOutTool, ExpireBeforeEffect, Leave, CallRow
<1> QED
    BY Zenon, <1>1, <1>2, <1>3, OneCallChanges

\* Past the claim the call takes over an uncertain state, or marks a rejected
\* action: every other state is either safely cancelable or has ended the call.
LEMMA KeepWaitingCalls ==
    ASSUME IndInv, CallsInv, NEW a \in Action, KeepWaiting(a)
    PROVE  CallsInv'
<1>0. state' = state
    BY Zenon DEF KeepWaiting, vars, rowVars
<1>1. ToolTypeOK'
    BY SMTT(30) DEF CallsInv, ToolTypeOK, KeepWaiting, Leave, ParentStates, CallStates, Uncertain,
           EventKinds, EventStates
<1>2. CallOK(a)'
    <2>1. CallOK(a) /\ ToolTypeOK
        BY Zenon DEF CallsInv
    <2>2. event[a]["timeout"] = "dispatched" /\ toolCall[a] # "none"
        BY Zenon, <2>1 DEF KeepWaiting, Advancing, CallOK
    <2>3. parent'[a] = "waiting"
        BY Zenon, <2>1 DEF KeepWaiting, Leave, ToolTypeOK
    <2>4. toolCall'[a] = IF state[a] \in Uncertain THEN state[a] ELSE "reconciliation_required"
        BY Zenon, <2>1 DEF KeepWaiting, ToolTypeOK
    <2>5. /\ event'[a]["timeout"] = "processed" /\ event'[a]["ready"] = event[a]["ready"]
          /\ event'[a]["resume"] = event[a]["resume"]
        BY Zenon, <2>1 DEF KeepWaiting, ToolTypeOK, EventKinds
    <2>6. state[a] \notin {"proposed", "approved"}
        BY Zenon DEF KeepWaiting, SafelyCancelable, IndInv, ApprovalFollowsAction, ReadyMeansApproved
    <2>7. state[a] \in Uncertain \cup {"rejected"}
        <3>1. state[a] \in ActionStates /\ toolCall[a] \notin TerminalCalls
            BY Zenon DEF KeepWaiting, IndInv, TypeOK
        <3> QED
            BY Zenon, <2>1, <2>2, <2>6, <3>1, CallsTable DEF CallOK, ActionStates, Uncertain, TerminalCalls
    <2>8. toolCall[a] \in Open
        BY Zenon, <2>1, <2>2 DEF KeepWaiting, ToolTypeOK, Open
    <2> QED
        BY SMTT(30), <1>0, <2>1, <2>2, <2>3, <2>4, <2>5, <2>7, <2>8, CallsTable
        DEF CallOK, Ended, TerminalCalls, Open, Uncertain
<1>3. \A c \in Action \ {a} : CallRow(c)' = CallRow(c)
    BY Zenon, <1>0 DEF CallsInv, ToolTypeOK, KeepWaiting, Leave, CallRow
<1> QED
    BY Zenon, <1>1, <1>2, <1>3, OneCallChanges

\* The parent leaves a settled call as the lineage allows.
LEMMA ResumeParentCalls ==
    ASSUME CallsInv, NEW a \in Action, ResumeParent(a)
    PROVE  CallsInv'
<1>0. state' = state /\ toolCall' = toolCall
    BY Zenon DEF ResumeParent, vars, rowVars
<1>1. ToolTypeOK'
    BY SMTT(30), <1>0 DEF CallsInv, ToolTypeOK, ResumeParent, Leave, ParentStates, Ended, EventKinds, EventStates
<1>2. CallOK(a)'
    <2>1. CallOK(a) /\ ToolTypeOK
        BY Zenon DEF CallsInv
    <2>2. toolCall[a] \in TerminalCalls
        BY Zenon DEF ResumeParent
    <2>3. \/ parent'[a] = "passed" /\ toolCall[a] = "completed"
          \/ parent'[a] = "failed"
        BY Zenon, <2>1 DEF ResumeParent, ResultValid, Leave, ToolTypeOK
    <2>4. event'[a]["ready"] = event[a]["ready"]
        BY Zenon, <2>1 DEF ResumeParent, ToolTypeOK, EventKinds
    <2> QED
        BY Zenon, <1>0, <2>1, <2>2, <2>3, <2>4 DEF CallOK, Ended, TerminalCalls, Open
<1>3. \A c \in Action \ {a} : CallRow(c)' = CallRow(c)
    BY SMTT(30), <1>0 DEF CallsInv, ToolTypeOK, ResumeParent, Leave, CallRow
<1> QED
    BY Zenon, <1>1, <1>2, <1>3, OneCallChanges

\* A cancelled parent takes a request nobody has decided with it.
LEMMA CancelWorkflowCalls ==
    ASSUME TypeOK, CallsInv, NEW a \in Action, CancelWorkflow(a)
    PROVE  CallsInv'
<1>1. ToolTypeOK'
    BY SMTT(30) DEF CallsInv, ToolTypeOK, CancelWorkflow, Leave, ParentStates, Ended, CallStates, TerminalCalls
<1>2. CallOK(a)'
    <2>1. CallOK(a) /\ ToolTypeOK
        BY Zenon DEF CallsInv
    <2>2. parent'[a] = "cancelled" /\ event' = event
        BY SMTT(30), <2>1 DEF CancelWorkflow, Leave, ToolTypeOK
    <2>3. \/ toolCall[a] = "none" /\ toolCall' = toolCall /\ state' = state
          \/ /\ toolCall[a] = "pending_approval" /\ toolCall'[a] = "cancelled"
             /\ state'[a] = "rejected"
        BY SMTT(30), <2>1 DEF CancelWorkflow, RejectBeforeEffect, ToolTypeOK, TypeOK, vars, rowVars
    <2> QED
        BY SMTT(30), <2>1, <2>2, <2>3, CallsTable DEF CallOK, Ended, TerminalCalls, Open
<1>3. \A c \in Action \ {a} : CallRow(c)' = CallRow(c)
    BY DEF CallsInv, TypeOK, ToolTypeOK, CancelWorkflow, RejectBeforeEffect, Leave, CallRow,
           vars, rowVars
<1> QED
    BY Zenon, <1>1, <1>2, <1>3, OneCallChanges
-----------------------------------------------------------------------------
(* The handlers of the action.                                             *)

\* A handler that moves an open call on to another open status.
LEMMA SetCallCalls ==
    ASSUME CallsInv, NEW a \in Action, NEW s \in Open, SetCall(a, s),
           toolCall[a] \in Open, s \in CallsIn(state'[a]),
           event[a]["timeout"] = "processed" => state'[a] \in Uncertain \cup {"rejected"},
           \A c \in Action \ {a} : state'[c] = state[c]
    PROVE  CallsInv'
<1>1. ToolTypeOK'
    BY Zenon DEF CallsInv, ToolTypeOK, SetCall, Open
<1>2. CallOK(a)'
    <2>1. CallOK(a) /\ ToolTypeOK
        BY Zenon DEF CallsInv
    <2>2. toolCall'[a] = s /\ parent' = parent /\ event' = event
        BY Zenon, <2>1 DEF SetCall, ToolTypeOK
    <2>3. s \notin TerminalCalls /\ s # "none"
        BY Zenon DEF Open
    <2>4. toolCall[a] \notin TerminalCalls \cup {"none"} /\ toolCall[a] # "completed"
        BY Zenon DEF Open, TerminalCalls
    <2>5. parent[a] \notin Ended
        BY Zenon, <2>1, <2>4 DEF CallOK
    <2>6. parent[a] # "passed" /\ parent[a] # "cancelled"
        BY Zenon, <2>5 DEF Ended
    <2> QED
        BY Zenon, <2>1, <2>2, <2>3, <2>4, <2>5, <2>6 DEF CallOK
<1>3. \A c \in Action \ {a} : CallRow(c)' = CallRow(c)
    BY Zenon DEF CallsInv, ToolTypeOK, SetCall, CallRow
<1> QED
    BY Zenon, <1>1, <1>2, <1>3, OneCallChanges

\* A handler that ends an open call.
LEMMA EndCallCalls ==
    ASSUME CallsInv, NEW a \in Action, NEW s \in TerminalCalls, EndCall(a, s),
           toolCall[a] \in Open, s \in CallsIn(state'[a]),
           \A c \in Action \ {a} : state'[c] = state[c]
    PROVE  CallsInv'
<1>0. toolCall[a] \notin TerminalCalls \cup {"none"}
    BY Zenon DEF Open
<1>1. ToolTypeOK'
    BY SMTT(30), <1>0 DEF CallsInv, ToolTypeOK, EndCall, CallStates, EventKinds, EventStates
<1>2. CallOK(a)'
    <2>1. CallOK(a) /\ ToolTypeOK
        BY Zenon DEF CallsInv
    <2>2. toolCall'[a] = s /\ parent' = parent
        BY Zenon, <1>0, <2>1 DEF EndCall, ToolTypeOK
    <2>3. /\ event'[a]["timeout"] = "processed" /\ event'[a]["resume"] = "available"
          /\ event'[a]["ready"] = event[a]["ready"]
        BY <1>0, <2>1 DEF EndCall, ToolTypeOK, EventKinds
    <2>4. parent[a] \notin Ended
        BY Zenon, <1>0, <2>1 DEF CallOK
    <2>5. parent[a] # "passed" /\ parent[a] # "cancelled"
        BY Zenon, <2>4 DEF Ended
    <2>6. s # "none" /\ s \notin Open
        BY Zenon DEF TerminalCalls, Open
    <2>7. event[a]["ready"] = "processed"
        BY Zenon, <1>0, <2>1 DEF CallOK
    <2> QED
        BY Zenon, <2>2, <2>3, <2>4, <2>5, <2>6, <2>7 DEF CallOK
<1>3. \A c \in Action \ {a} : CallRow(c)' = CallRow(c)
    BY Zenon, <1>0 DEF CallsInv, ToolTypeOK, EndCall, CallRow
<1> QED
    BY Zenon, <1>1, <1>2, <1>3, OneCallChanges

\* An action that is not settled, rejected or missing has an open call.
LEMMA UnsettledIsOpen ==
    ASSUME CallsInv, NEW a \in Action, state[a] \in {"proposed", "approved"} \cup Uncertain
    PROVE  /\ toolCall[a] \in Open
           /\ state[a] \in {"proposed", "approved"} => event[a]["timeout"] # "processed"
<1>1. CallOK(a)
    BY Zenon DEF CallsInv
<1>2. toolCall[a] \in Open
    BY <1>1, CallsTable DEF CallOK, Open, CallStates, TerminalCalls, Uncertain
<1> QED
    BY Zenon, <1>1, <1>2 DEF CallOK, Uncertain

\* decide_approval.
LEMMA DecisionCalls ==
    ASSUME IndInv, CallsInv, NEW a \in Action, ToolApproved(a) \/ ToolDenied(a)
    PROVE  CallsInv'
<1>0. TypeOK
    BY Zenon DEF IndInv
<1>1. state[a] = "proposed"
    BY Zenon DEF ToolApproved, ToolDenied, Approve, Deny, Decidable, IndInv, ApprovalFollowsAction
<1>2. toolCall[a] \in Open /\ event[a]["timeout"] # "processed"
    BY Zenon, <1>1, UnsettledIsOpen
<1>3. CASE ToolApproved(a)
    <2>1. state'[a] = "approved" /\ \A c \in Action \ {a} : state'[c] = state[c]
        BY SMTT(30), <1>0, <1>3 DEF ToolApproved, Approve, TypeOK
    <2>2. "queued" \in Open /\ "queued" \in CallsIn(state'[a])
        BY Zenon, <2>1, CallsTable DEF Open, CallStates, TerminalCalls
    <2> QED
        BY Zenon, <1>2, <1>3, <2>1, <2>2, SetCallCalls DEF ToolApproved
<1>4. CASE ToolDenied(a)
    <2>1. state'[a] = "rejected" /\ \A c \in Action \ {a} : state'[c] = state[c]
        BY Zenon, <1>0, <1>4 DEF ToolDenied, Deny, RejectBeforeEffect, TypeOK
    <2>2. "failed" \in TerminalCalls /\ "failed" \in CallsIn(state'[a])
        BY Zenon, <2>1, CallsTable DEF TerminalCalls
    <2> QED
        BY Zenon, <1>2, <1>4, <2>1, <2>2, EndCallCalls DEF ToolDenied
<1> QED
    BY Zenon, <1>3, <1>4

\* cancel_run leaves the call pending behind a rejected action.
LEMMA ChildRunCancelledCalls ==
    ASSUME TypeOK, CallsInv, NEW a \in Action, ChildRunCancelled(a)
    PROVE  CallsInv'
<1>0. toolCall' = toolCall /\ parent' = parent /\ event' = event
    BY Zenon DEF ChildRunCancelled, toolVars
<1>1. ToolTypeOK'
    BY Zenon DEF CallsInv, ToolTypeOK, ChildRunCancelled, toolVars
<1>2. CallOK(a)'
    <2>1. CallOK(a)
        BY Zenon DEF CallsInv
    <2>2. state[a] = "proposed" /\ state'[a] = "rejected"
        BY SMTT(30) DEF ChildRunCancelled, CancelRun, RejectBeforeEffect, TypeOK
    <2> QED
        BY Zenon, <1>0, <2>1, <2>2, CallsTable DEF CallOK, TerminalCalls, Open
<1>3. \A c \in Action \ {a} : CallRow(c)' = CallRow(c)
    BY Zenon, <1>0 DEF ChildRunCancelled, CancelRun, RejectBeforeEffect, TypeOK, CallRow
<1> QED
    BY Zenon, <1>1, <1>2, <1>3, OneCallChanges

\* Both claims of the action's worker.
LEMMA ClaimCalls ==
    ASSUME IndInv, CallsInv, NEW w \in Worker, NEW a \in Action,
           ToolClaimed(w, a) \/ ToolReconciled(w, a)
    PROVE  CallsInv'
<1>0. TypeOK
    BY ZenonT(30) DEF IndInv
<1>1. state[a] \in {"proposed", "approved"} \cup Uncertain
    BY ZenonT(30) DEF ToolClaimed, ToolReconciled, ClaimReady, ClaimReconciliation, ReadyToExecute,
           NeedsReconciliation, Uncertain
<1>2. toolCall[a] \in Open
    BY Zenon, <1>1, UnsettledIsOpen
<1>3. CASE ToolClaimed(w, a)
    <2>1. state'[a] = "executing" /\ \A c \in Action \ {a} : state'[c] = state[c]
        BY SMTT(30), <1>0, <1>3 DEF ToolClaimed, ClaimReady, TypeOK
    <2>2. "executing" \in Open /\ "executing" \in CallsIn(state'[a]) /\ state'[a] \in Uncertain
        BY Zenon, <2>1, CallsTable DEF Open, CallStates, TerminalCalls, Uncertain
    <2> QED
        BY ZenonT(30), <1>2, <1>3, <2>1, <2>2, SetCallCalls DEF ToolClaimed
<1>4. CASE ToolReconciled(w, a)
    <2>1. state'[a] = "reconciling" /\ \A c \in Action \ {a} : state'[c] = state[c]
        BY SMTT(30), <1>0, <1>4 DEF ToolReconciled, ClaimReconciliation, TypeOK
    <2>2. "reconciling" \in Open /\ "reconciling" \in CallsIn(state'[a]) /\ state'[a] \in Uncertain
        BY Zenon, <2>1, CallsTable DEF Open, CallStates, TerminalCalls, Uncertain
    <2> QED
        BY Zenon, <1>2, <1>4, <2>1, <2>2, SetCallCalls DEF ToolReconciled
<1> QED
    BY Zenon, <1>3, <1>4

\* redrive_dead_letter.
LEMMA RedriveCalls ==
    ASSUME TypeOK, CallsInv, NEW o \in Operator, ToolRedriven(o)
    PROVE  CallsInv'
<1> DEFINE a == redrive[o].action
           accepted == Redrivable(a, redrive[o].row, redrive[o].expected)
<1>1. CASE accepted
    <2>1. AcceptRedrive(a, redrive[o].row) /\ SetCall(a, "reconciliation_required")
        BY Zenon, <1>1 DEF ToolRedriven, RedriveDeadLetter
    <2>2. state[a] = "dead_lettered"
        BY Zenon, <1>1 DEF Redrivable
    <2>3. CASE a \in Action
        <3>1. state'[a] = "reconciliation_required" /\ \A c \in Action \ {a} : state'[c] = state[c]
            BY Zenon, <2>1, <2>3 DEF AcceptRedrive, TypeOK
        <3>2. /\ "reconciliation_required" \in Open
              /\ "reconciliation_required" \in CallsIn(state'[a]) /\ state'[a] \in Uncertain
            BY Zenon, <3>1, CallsTable DEF Open, CallStates, TerminalCalls, Uncertain
        <3>3. toolCall[a] \in Open
            BY Zenon, <2>2, <2>3, UnsettledIsOpen DEF Uncertain
        <3> QED
            BY ZenonT(30), <2>1, <2>3, <3>1, <3>2, <3>3, SetCallCalls
    <2>4. CASE a \notin Action
        <3>0. /\ state' = [state EXCEPT ![a] = "reconciliation_required"]
              /\ toolCall' = [toolCall EXCEPT ![a] = "reconciliation_required"]
              /\ UNCHANGED <<parent, parentLease, wake, event>>
            BY Zenon, <2>1 DEF AcceptRedrive, SetCall
        <3>1. state \in [Action -> ActionStates] /\ toolCall \in [Action -> CallStates]
            BY Zenon DEF TypeOK, CallsInv, ToolTypeOK
        <3> HIDE DEF a
        <3>2. state' = state
            BY Zenon, <2>4, <3>0, <3>1
        <3>3. toolCall' = toolCall
            BY Zenon, <2>4, <3>0, <3>1
        <3>4. ToolTypeOK'
            BY Zenon, <3>0, <3>3 DEF CallsInv, ToolTypeOK
        <3> QED
            BY Zenon, <3>0, <3>2, <3>3, <3>4, CallsKept
    <2> QED
        BY Zenon, <2>3, <2>4
<1>2. CASE ~accepted
    <2>1. UNCHANGED <<state, toolCall, parent, event>>
        BY Zenon, <1>2 DEF ToolRedriven, RedriveDeadLetter, toolVars, rowVars
    <2>2. ToolTypeOK'
        BY Zenon, <1>2 DEF ToolRedriven, CallsInv, ToolTypeOK, toolVars
    <2> QED
        BY Zenon, <2>1, <2>2, CallsKept
<1> QED
    BY Zenon, <1>1, <1>2

\* settle ends the call with the action, or follows it into reconciliation or
\* the dead-letter queue.
LEMMA SettleCalls ==
    ASSUME IndInv, CallsInv, NEW w \in Worker, ToolSettled(w)
    PROVE  CallsInv'
<1> DEFINE a == worker[w].action
<1>0. TypeOK
    BY Zenon DEF IndInv
<1>1. HoldsClaim(w) /\ Settle(w) /\ SettleToolCall(a)
    BY Zenon DEF ToolSettled, Settle
<1>2. a \in Action
    BY Zenon, <1>1 DEF HoldsClaim, IndInv, ClaimsIssued, Issued
<1>3. state[a] \in {"proposed", "approved"} \cup Uncertain
    BY Zenon, <1>1 DEF HoldsClaim, ClaimState, Uncertain
<1>4. toolCall[a] \in Open
    BY ZenonT(30), <1>2, <1>3, UnsettledIsOpen
<1>5. \A c \in Action \ {a} : state'[c] = state[c]
    BY ZenonT(30), <1>0, <1>1, <1>2 DEF Settle, SettleCommitted, SettleFailed, SettleAmbiguous,
        OpenDeadLetter, RequireReconciliation, TypeOK
<1>6. CASE state'[a] = "committed" /\ EndCall(a, "completed")
    <2>1. "completed" \in TerminalCalls /\ "completed" \in CallsIn(state'[a])
        BY Zenon, <1>6, CallsTable DEF TerminalCalls
    <2> QED
        BY Zenon, <1>2, <1>4, <1>5, <1>6, <2>1, EndCallCalls
<1>7. CASE state'[a] = "failed" /\ EndCall(a, "failed")
    <2>1. "failed" \in TerminalCalls /\ "failed" \in CallsIn(state'[a])
        BY Zenon, <1>7, CallsTable DEF TerminalCalls
    <2> QED
        BY Zenon, <1>2, <1>4, <1>5, <1>7, <2>1, EndCallCalls
<1>8. CASE state'[a] \in {"dead_lettered", "reconciliation_required"} /\ SetCall(a, state'[a])
    <2>1. state'[a] \in Open /\ state'[a] \in CallsIn(state'[a]) /\ state'[a] \in Uncertain
        BY Zenon, <1>8, CallsTable DEF Open, CallStates, TerminalCalls, Uncertain
    <2> QED
        BY Zenon, <1>2, <1>4, <1>5, <1>8, <2>1, SetCallCalls
<1> QED
    BY Zenon, <1>1, <1>6, <1>7, <1>8 DEF SettleToolCall
-----------------------------------------------------------------------------
(* Every step.                                                             *)

\* The clocks and the steps that no tool call sees.
LEMMA QuietCalls ==
    ASSUME CallsInv, [ActionOnly \/ \E a \in Action : TimeoutDue(a) \/ ParentLeaseExpires(a)]_allVars
    PROVE  CallsInv'
<1>1. ASSUME NEW a \in Action, TimeoutDue(a) PROVE CallsInv'
    <2>0. UNCHANGED <<state, toolCall, parent>>
        BY Zenon, <1>1 DEF TimeoutDue, vars, rowVars
    <2>1. ToolTypeOK'
        BY Zenon, <1>1 DEF CallsInv, ToolTypeOK, TimeoutDue, EventKinds, EventStates
    <2>2. CallOK(a) /\ ToolTypeOK
        BY Zenon DEF CallsInv
    <2>3. /\ event[a]["timeout"] = "scheduled" /\ event'[a]["timeout"] = "available"
          /\ event'[a]["ready"] = event[a]["ready"] /\ event'[a]["resume"] = event[a]["resume"]
        BY SMTT(30), <1>1, <2>2 DEF TimeoutDue, ToolTypeOK, EventKinds
    <2>4. CallOK(a)'
        BY SMTT(30), <2>0, <2>2, <2>3 DEF CallOK
    <2>5. \A c \in Action \ {a} : CallRow(c)' = CallRow(c)
        BY Zenon, <1>1, <2>0, <2>2 DEF TimeoutDue, ToolTypeOK, CallRow
    <2> QED
        BY Zenon, <2>1, <2>4, <2>5, OneCallChanges
<1>2. ASSUME NEW a \in Action, ParentLeaseExpires(a) PROVE CallsInv'
    <2>1. UNCHANGED <<state, toolCall, parent, event>>
        BY Zenon, <1>2 DEF ParentLeaseExpires, vars, rowVars
    <2>2. ToolTypeOK'
        BY Zenon, <1>2 DEF CallsInv, ToolTypeOK, ParentLeaseExpires
    <2> QED
        BY Zenon, <2>1, <2>2, CallsKept
<1>3. ASSUME ActionOnly \/ UNCHANGED allVars PROVE CallsInv'
    <2>1. UNCHANGED toolVars
        BY Zenon, <1>3 DEF ActionOnly, allVars
    <2>2. ToolTypeOK'
        BY Zenon, <2>1 DEF CallsInv, ToolTypeOK, toolVars
    <2>3. state' = state
        BY Zenon, <1>3 DEF ActionOnly, Dispatch, OutcomeUnknown, SettleStale, WorkerFails,
            LoadDeadLetter, Network, GatewayAuthorizes, GatewayDenies, ProviderCommits,
            ProviderRejects, ProviderLooksUp, Answer, Clock, LeaseExpires, ReconciliationDue,
            Lapse, rowVars, allVars, vars
    <2> QED
        BY Zenon, <2>1, <2>2, <2>3, CallsKept DEF toolVars
<1> QED
    BY Zenon, <1>1, <1>2, <1>3

\* No step of anyone breaks the agreement of calls, parents and events.
LEMMA StepCalls == IndInv /\ CallsInv /\ [ToolNext]_allVars => CallsInv'
<1> SUFFICES ASSUME IndInv, CallsInv, [ToolNext]_allVars PROVE CallsInv'
    BY Zenon
<1>0. TypeOK
    BY Zenon DEF IndInv
<1>1. ASSUME NEW a \in Action, Advance(a) PROVE CallsInv'
    BY Zenon, <1>0, <1>1, RequestToolCalls, RefuseToolCalls, TimeOutToolCalls, KeepWaitingCalls,
       ResumeParentCalls DEF Advance
<1>2. ASSUME NEW a \in Action,
             \/ \E k \in EventKinds : ClaimParent(a, k)
             \/ CancelWorkflow(a) \/ ToolApproved(a) \/ ToolDenied(a) \/ ChildRunCancelled(a)
      PROVE  CallsInv'
    BY Zenon, <1>0, <1>2, ClaimParentCalls, CancelWorkflowCalls, DecisionCalls, ChildRunCancelledCalls
<1>3. ASSUME NEW o \in Operator, ToolRedriven(o) PROVE CallsInv'
    BY Zenon, <1>0, <1>3, RedriveCalls
<1>4. ASSUME NEW w \in Worker, ToolSettled(w) \/ \E a \in Action : ToolClaimed(w, a) \/ ToolReconciled(w, a)
      PROVE  CallsInv'
    BY Zenon, <1>4, SettleCalls, ClaimCalls
<1>5. ASSUME \/ ActionOnly \/ UNCHANGED allVars
             \/ \E a \in Action : TimeoutDue(a) \/ ParentLeaseExpires(a)
      PROVE  CallsInv'
    BY Zenon, <1>5, QuietCalls
<1> QED
    BY Zenon, <1>1, <1>2, <1>3, <1>4, <1>5 DEF ToolNext

\* However the engine, the action's workers, deciders, operators and clocks
\* interleave, every call, its parent and its events agree with its action.
THEOREM CallsAgree == ToolSpec => []CallsInv
<1>1. ToolInit => CallsInv
    <2> SUFFICES ASSUME ToolInit PROVE CallsInv
        BY Zenon
    <2>1. ToolTypeOK
        BY SMTT(30) DEF ToolInit, ToolTypeOK, CallStates, ParentStates, EventKinds, EventStates
    <2>2. ASSUME NEW a \in Action PROVE CallOK(a)
        <3>1. state[a] = "none" /\ toolCall[a] = "none" /\ parent[a] = "queued"
            BY Zenon DEF ToolInit, Init
        <3>2. /\ event[a]["timeout"] = "none" /\ event[a]["resume"] = "none"
              /\ event[a]["ready"] = "available"
            BY Zenon DEF ToolInit, EventKinds
        <3> QED
            BY SMTT(30), <3>1, <3>2, CallsTable DEF CallOK, Ended, TerminalCalls, Open
    <2> QED
        BY Zenon, <2>1, <2>2 DEF CallsInv
<1> QED
    BY <1>1, StepCalls, ToolsKeepActionInvariant, PTL DEF ToolSpec
-----------------------------------------------------------------------------
(* What follows.                                                           *)

\* The tool call says of its action what the action's own row says.
THEOREM CallsFollowActions == ToolSpec => []CallFollowsAction
<1>1. CallsInv => CallFollowsAction
    BY Zenon DEF CallsInv, CallOK, CallFollowsAction
<1> QED
    BY <1>1, CallsAgree, PTL

\* A timeout or a cancellation never overtakes an execution: whatever ended
\* that way was never sent, has no effect and holds no budget.
THEOREM NothingCancelledAfterDispatch == ToolSpec => []CancelledBeforeEffect
<1>1. IndInv /\ CallsInv => CancelledBeforeEffect
    <2> SUFFICES ASSUME IndInv, CallsInv, NEW a \in Action,
                        toolCall[a] \in {"timed_out", "cancelled"} \/ parent[a] = "cancelled"
                 PROVE  sent[a] = 0 /\ ~effect[a] /\ Held(a) = {}
        BY Zenon DEF CancelledBeforeEffect
    <2>1. CallOK(a) /\ state[a] \in ActionStates
        BY ZenonT(30) DEF CallsInv, IndInv, TypeOK
    <2>2. state[a] \in {"none", "rejected"}
        BY SMTT(30), <2>1, CallsTable DEF CallOK, ActionStates, Uncertain
    <2>3. claim[a] = 0
        BY SMTT(30), <2>2 DEF IndInv, ClaimsIssued
    <2>4. sent[a] = 0 /\ ~effect[a]
        BY <2>3 DEF IndInv, ExecutionIsOnePlace, TypeOK
    <2>5. ASSUME NEW b \in Budget PROVE reservation[a][b] # "active"
        <3>1. ReservationIn("none", b) = "none" /\ ReservationIn("rejected", b) = "released"
            BY Zenon DEF ReservationIn, Uncertain
        <3>2. CASE b \in Applicable(a)
            BY Zenon, <2>2, <3>1, <3>2 DEF IndInv, ReservationsFollowAction
        <3>3. CASE b \notin Applicable(a)
            BY Zenon, <3>3 DEF IndInv, ApprovalFollowsAction
        <3> QED
            BY Zenon, <3>2, <3>3
    <2> QED
        BY Zenon, <2>4, <2>5 DEF Held
<1> QED
    BY <1>1, CallsAgree, ToolsKeepActionInvariant, PTL

\* A parent passes its tool node only on a committed effect with sealed
\* evidence, and leaves it only after its call has ended.
THEOREM ParentsWaitForOutcomes == ToolSpec => []ParentFollowsCall
<1>1. IndInv /\ CallsInv => ParentFollowsCall
    <2> SUFFICES ASSUME IndInv, CallsInv, NEW a \in Action
                 PROVE  /\ parent[a] \in Ended => toolCall[a] \in TerminalCalls \cup {"none"}
                        /\ parent[a] = "passed" =>
                            state[a] = "committed" /\ effect[a] /\ evidence[a].sealed
        BY Zenon DEF ParentFollowsCall
    <2>1. CallOK(a) /\ state[a] \in ActionStates
        BY ZenonT(30) DEF CallsInv, IndInv, TypeOK
    <2>2. toolCall[a] = "completed" => state[a] = "committed"
        BY Zenon, <2>1, CallsTable DEF CallOK, ActionStates, Uncertain
    <2>3. state[a] = "committed" => effect[a] /\ evidence[a].sealed
        BY Zenon DEF IndInv, CommittedHasEffect, EvidenceMatchesRows
    <2> QED
        BY Zenon, <2>1, <2>2, <2>3 DEF CallOK
<1> QED
    BY <1>1, CallsAgree, ToolsKeepActionInvariant, PTL

\* A parent that has not left its node always has the one event that will wake
\* it, or an action whose settlement publishes one.
THEOREM WakesAreNotLost == ToolSpec => []WakeIsComing
<1>1. IndInv /\ CallsInv => WakeIsComing
    <2> SUFFICES ASSUME IndInv, CallsInv, NEW a \in Action, parent[a] \notin Ended
                 PROVE  \/ \E k \in EventKinds : Unprocessed(a) = {k}
                        \/ Unprocessed(a) = {} /\ (state[a] \in Uncertain \/ Stranded(a))
        BY Zenon DEF WakeIsComing
    <2>1. CallOK(a) /\ ToolTypeOK
        BY Zenon DEF CallsInv
    <2>2. CASE toolCall[a] = "none"
        <3>1. Unprocessed(a) = {"ready"}
            BY Zenon, <2>1, <2>2 DEF CallOK, Unprocessed, EventKinds
        <3> QED
            BY SMTT(30), <3>1 DEF EventKinds
    <2>3. CASE toolCall[a] \in TerminalCalls
        <3>1. toolCall[a] # "none"
            BY SMTT(30), <2>3 DEF TerminalCalls
        <3>2. Unprocessed(a) = {"resume"}
            BY Zenon, <2>1, <2>3, <3>1 DEF CallOK, Unprocessed, EventKinds
        <3> QED
            BY Zenon, <3>2 DEF EventKinds
    <2>4. CASE toolCall[a] \in Open
        <3>1. toolCall[a] # "none" /\ toolCall[a] \notin TerminalCalls
            BY SMTT(30), <2>4 DEF Open
        <3>2. /\ event[a]["ready"] = "processed" /\ event[a]["resume"] = "none"
              /\ event[a]["timeout"] \in {"scheduled", "available", "dispatched", "processed"}
            BY Zenon, <2>1, <2>4, <3>1 DEF CallOK, ToolTypeOK, EventKinds, EventStates
        <3>3. CASE event[a]["timeout"] = "processed"
            <4>1. Unprocessed(a) = {}
                BY Zenon, <3>2, <3>3 DEF Unprocessed, EventKinds
            <4>2. state[a] \in Uncertain \cup {"rejected"}
                BY Zenon, <2>1, <2>4, <3>3 DEF CallOK
            <4> QED
                BY Zenon, <3>1, <4>1, <4>2 DEF Stranded
        <3>4. CASE event[a]["timeout"] # "processed"
            <4>1. Unprocessed(a) = {"timeout"}
                BY Zenon, <3>2, <3>4 DEF Unprocessed, EventKinds
            <4> QED
                BY Zenon, <4>1 DEF EventKinds
        <3> QED
            BY Zenon, <3>3, <3>4
    <2> QED
        BY Zenon, <2>1, <2>2, <2>3, <2>4 DEF ToolTypeOK, Open
<1> QED
    BY <1>1, CallsAgree, ToolsKeepActionInvariant, PTL
-----------------------------------------------------------------------------
(* Ended calls and parents.                                                *)

\* Nothing but the row of an open call, or of a parent still at its node, is
\* written.
Moves(a) ==
    /\ \A c \in Action \ {a} : toolCall'[c] = toolCall[c] /\ parent'[c] = parent[c]
    /\ a \in Action =>
        /\ toolCall'[a] # toolCall[a] => toolCall[a] \notin TerminalCalls /\ parent[a] \notin Ended
        /\ parent'[a] # parent[a] => parent[a] \notin Ended

\* The engine moves a parent it holds or one that is idle.
LEMMA EngineMoves ==
    ASSUME CallsInv, NEW a \in Action,
           Advance(a) \/ CancelWorkflow(a) \/ \E k \in EventKinds : ClaimParent(a, k)
    PROVE  Moves(a)
<1>0. ToolTypeOK
    BY ZenonT(30) DEF CallsInv
<1>1. parent[a] \notin Ended
    BY Zenon DEF Advance, RequestTool, RefuseTool, TimeOutTool, KeepWaiting, ResumeParent, Advancing,
           CancelWorkflow, ClaimParent, Claimable, Ended
<1>2. \E s : parent' = [parent EXCEPT ![a] = s]
    BY Zenon DEF Advance, RequestTool, RefuseTool, TimeOutTool, KeepWaiting, ResumeParent, Leave,
           CancelWorkflow, ClaimParent
<1>3. \/ toolCall' = toolCall
      \/ /\ toolCall[a] \notin TerminalCalls
         /\ \E s : toolCall' = [toolCall EXCEPT ![a] = s]
    <2>1. ASSUME NEW p \in ExecutableEffects, RequestTool(a, p) PROVE toolCall[a] = "none"
        BY SMTT(30), <2>1, CallsTable DEF RequestTool, CreateGovernedAction, FreshKey, CallsInv, CallOK
    <2>2. "none" \notin TerminalCalls /\ "pending_approval" \notin TerminalCalls
        BY Zenon DEF TerminalCalls
    <2> QED
        BY ZenonT(30), <2>1, <2>2 DEF Advance, RequestTool, RefuseTool, TimeOutTool, KeepWaiting,
            ResumeParent, CancelWorkflow, ClaimParent
<1>4. \A c \in Action \ {a} : toolCall'[c] = toolCall[c]
    BY Zenon, <1>0, <1>3 DEF ToolTypeOK
<1>5. \A c \in Action \ {a} : parent'[c] = parent[c]
    BY Zenon, <1>0, <1>2 DEF ToolTypeOK
<1> QED
    BY Zenon, <1>1, <1>3, <1>4, <1>5 DEF Moves

\* A handler moves the call of an unsettled action.
LEMMA HandlerMoves ==
    ASSUME CallsInv, NEW a, NEW s, SetCall(a, s) \/ EndCall(a, s),
           a \in Action => state[a] \in {"proposed", "approved"} \cup Uncertain
    PROVE  Moves(a)
<1>0. ToolTypeOK
    BY Zenon DEF CallsInv
<1>1. parent' = parent /\ (toolCall' = toolCall \/ toolCall' = [toolCall EXCEPT ![a] = s])
    BY Zenon DEF SetCall, EndCall
<1>2. \A c \in Action \ {a} : toolCall'[c] = toolCall[c]
    BY Zenon, <1>0, <1>1 DEF ToolTypeOK
<1>3. a \in Action => toolCall[a] \notin TerminalCalls \cup {"none"}
    BY Zenon, UnsettledIsOpen DEF Open
<1>4. a \in Action => parent[a] \notin Ended
    BY Zenon, <1>3 DEF CallsInv, CallOK
<1> QED
    BY Zenon, <1>1, <1>2, <1>3, <1>4 DEF Moves

\* Every step moves one such row, or none.
LEMMA StepMoves ==
    ASSUME IndInv, CallsInv, ToolNext
    PROVE  UNCHANGED <<toolCall, parent>> \/ \E a : Moves(a)
<1>1. ASSUME NEW a \in Action,
             Advance(a) \/ CancelWorkflow(a) \/ \E k \in EventKinds : ClaimParent(a, k)
      PROVE  Moves(a)
    BY Zenon, <1>1, EngineMoves
<1>2. ASSUME NEW a \in Action, ToolApproved(a) \/ ToolDenied(a) PROVE Moves(a)
    <2>1. state[a] = "proposed"
        BY Zenon, <1>2 DEF ToolApproved, ToolDenied, Approve, Deny, Decidable, IndInv,
            ApprovalFollowsAction
    <2> QED
        BY Zenon, <1>2, <2>1, HandlerMoves DEF ToolApproved, ToolDenied
<1>3. ASSUME NEW o \in Operator, ToolRedriven(o)
      PROVE  UNCHANGED <<toolCall, parent>> \/ Moves(redrive[o].action)
    <2>1. CASE Redrivable(redrive[o].action, redrive[o].row, redrive[o].expected)
        <3>1. state[redrive[o].action] = "dead_lettered"
            BY Zenon, <2>1 DEF Redrivable
        <3>2. SetCall(redrive[o].action, "reconciliation_required")
            BY Zenon, <1>3, <2>1 DEF ToolRedriven
        <3> QED
            BY Zenon, <3>1, <3>2, HandlerMoves DEF Uncertain
    <2> QED
        BY Zenon, <1>3, <2>1 DEF ToolRedriven, toolVars
<1>4. ASSUME NEW w \in Worker, NEW a \in Action, ToolClaimed(w, a) \/ ToolReconciled(w, a)
      PROVE  Moves(a)
    <2>1. state[a] \in {"proposed", "approved"} \cup Uncertain
        BY Zenon, <1>4 DEF ToolClaimed, ToolReconciled, ClaimReady, ClaimReconciliation, ReadyToExecute,
            NeedsReconciliation, Uncertain
    <2> QED
        BY Zenon, <1>4, <2>1, HandlerMoves DEF ToolClaimed, ToolReconciled
<1>5. ASSUME NEW w \in Worker, ToolSettled(w) PROVE Moves(worker[w].action)
    <2>1. state[worker[w].action] \in {"proposed", "approved"} \cup Uncertain
        BY Zenon, <1>5 DEF ToolSettled, Settle, HoldsClaim, ClaimState, Uncertain
    <2> QED
        BY ZenonT(30), <1>5, <2>1, HandlerMoves DEF ToolSettled, SettleToolCall
<1>6. ASSUME \/ ActionOnly
             \/ \E a \in Action : ChildRunCancelled(a) \/ TimeoutDue(a) \/ ParentLeaseExpires(a)
      PROVE  UNCHANGED <<toolCall, parent>>
    BY Zenon, <1>6 DEF ActionOnly, ChildRunCancelled, TimeoutDue, ParentLeaseExpires, toolVars
<1> QED
    BY Zenon, <1>1, <1>2, <1>3, <1>4, <1>5, <1>6 DEF ToolNext

\* A call that has ended, and a parent that has left its node, never change:
\* the single-use triggers of migration 0013 never fire.
THEOREM EndedStaysEnded == ToolSpec => EndedIsEnded
<1>1. IndInv /\ CallsInv /\ [ToolNext]_allVars => [KeepsEnded]_allVars
    <2> SUFFICES ASSUME IndInv, CallsInv, ToolNext PROVE KeepsEnded
        BY Zenon
    <2> QED
        BY Zenon, StepMoves DEF KeepsEnded, Moves
<1> QED
    BY <1>1, CallsAgree, ToolsKeepActionInvariant, PTL DEF ToolSpec, EndedIsEnded
=============================================================================
