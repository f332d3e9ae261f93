---------------------------- MODULE Deployments ----------------------------
(***************************************************************************)
(* Workflow versions and their deployments to one environment and agent.   *)
(*                                                                         *)
(* A version is immutable and a deployment names it, so within one scope   *)
(* the version stands for its deployment.  deploy_workflow_version runs at *)
(* READ COMMITTED in two steps: it reads the active deployments of the     *)
(* workflow, and it locks and supersedes those still active, inserts its   *)
(* own row and commits.  A row committed between the two is not in the     *)
(* snapshot of the first.                                                  *)
(*                                                                         *)
(* A definition is the sequence of its nodes.  An approval that is denied  *)
(* ends the workflow; every other node leads to the next one.              *)
(***************************************************************************)
EXTENDS Integers, Sequences, FiniteSets

CONSTANTS
    Version,     \* workflow_versions
    Workflow,    \* workflows
    WorkflowOf,  \* [Version -> Workflow]
    Definition,  \* [Version -> Seq([type, guarded, refers])], definition_json
    NoVersion    \* no referenced deployment, or none read yet

VARIABLES
    versions,    \* the versions that have been created
    deployment,  \* [Version -> workflow_deployments.status, "none" before]
    snapshot,    \* [Version -> the active rows its deployment has read]
    overlapped   \* workflows two of whose deployments have overlapped

deploymentVars == <<versions, deployment, snapshot, overlapped>>

NodeTypes == {"step", "approval", "tool", "subworkflow"}
ExternalTypes == {"tool", "agent"}
NotReading == {NoVersion}
MaxDepth == 8

TypesIn(v) == {Definition[v][i].type : i \in DOMAIN Definition[v]}
ReferencesOf(v) == {Definition[v][i].refers : i \in DOMAIN Definition[v]} \ {NoVersion}
Siblings(v) == {u \in Version : WorkflowOf[u] = WorkflowOf[v]}
Active(v) == deployment[v] = "active"

\* The versions whose definitions are visited at a depth below v, and all of them.
AtDepth[depth \in 0..(MaxDepth + 1)] ==
    [v \in Version |->
        IF depth = 0 THEN {v} ELSE UNION {ReferencesOf(u) : u \in AtDepth[depth - 1][v]}]
Descendants(v) == UNION {AtDepth[depth][v] : depth \in 1..(MaxDepth + 1)}

ASSUME DefinitionAssumption ==
    /\ WorkflowOf \in [Version -> Workflow]
    /\ NoVersion \notin Version
    /\ Definition \in [Version ->
           Seq([type : NodeTypes, guarded : BOOLEAN, refers : Version \cup {NoVersion}])]
    /\ \A v \in Version :
           /\ Definition[v] # <<>>
           /\ \A i \in DOMAIN Definition[v] :
                  Definition[v][i].refers # NoVersion <=> Definition[v][i].type = "subworkflow"

DeploymentsInit ==
    /\ versions = {}
    /\ deployment = [v \in Version |-> "none"]
    /\ snapshot = [v \in Version |-> NotReading]
    /\ overlapped = {}

-----------------------------------------------------------------------------
\* create_workflow and create_workflow_version.  An advisory lock makes the read of
\* the latest number and the insertion one step, so numbers are unique and left out.
CreateVersion(v) ==
    /\ v \notin versions
    /\ versions' = versions \cup {v}
    /\ UNCHANGED <<deployment, snapshot, overlapped>>

\* _subworkflow_reference_issues is empty: every referenced deployment is active at
\* every level, none of them has a tool or an agent, or is v itself, and the levels
\* are at most MaxDepth.
ReferencesSound(v) ==
    /\ AtDepth[MaxDepth + 1][v] = {}
    /\ \A u \in Descendants(v) :
           /\ Active(u)
           /\ u # v
           /\ TypesIn(u) \cap ExternalTypes = {}

\* The versions of which it says so by their definitions alone, which are immutable.
Sound ==
    {v \in Version :
        /\ AtDepth[MaxDepth + 1][v] = {}
        /\ \A u \in Descendants(v) : TypesIn(u) \cap ExternalTypes = {}}

\* deploy_workflow_version up to the locked select.  A version that is deployed
\* already, superseded or not, is returned as it is.
ReadPrior(v) ==
    /\ v \in versions
    /\ snapshot[v] = NotReading
    /\ ReferencesSound(v)
    /\ deployment[v] = "none"
    /\ snapshot' = [snapshot EXCEPT ![v] = {u \in Siblings(v) : Active(u)}]
    /\ UNCHANGED <<versions, deployment, overlapped>>

\* Mutant: what was active when the deployment began stays active.
SupersedesNothing(v) == {}

\* The locked rows: those of the snapshot that are still active.
Superseded(v) == {u \in snapshot[v] : Active(u)}

Reading(v) == snapshot[v] # NotReading

\* Mutant: the new row is inserted before the active ones are superseded.
SupersedesItself(v) ==
    /\ Reading(v)
    /\ deployment' = [u \in Version |->
           IF u = v \/ u \in Superseded(v) THEN "superseded" ELSE deployment[u]]
    /\ snapshot' = [snapshot EXCEPT ![v] = NotReading]
    /\ UNCHANGED <<versions, overlapped>>

\* The rest of deploy_workflow_version and the commit.
Deploy(v) ==
    /\ Reading(v)
    /\ deployment' = [u \in Version |->
           IF u = v THEN "active"
           ELSE IF u \in Superseded(v) THEN "superseded" ELSE deployment[u]]
    /\ snapshot' = [snapshot EXCEPT ![v] = NotReading]
    /\ overlapped' = overlapped \cup {WorkflowOf[u] : u \in {u \in Siblings(v) \ {v} : Reading(u)}}
    /\ UNCHANGED versions

\* The transaction is rolled back: the connection is lost, or a concurrent request has
\* inserted the deployment of v, of which the table holds one.
DeployFails(v) ==
    /\ Reading(v)
    /\ snapshot' = [snapshot EXCEPT ![v] = NotReading]
    /\ UNCHANGED <<versions, deployment, overlapped>>

-----------------------------------------------------------------------------
\* Whatever deployments of one workflow overlap, a workflow that has been deployed
\* has an active deployment: superseding and inserting are one transaction, and no two
\* transactions supersede each other (deploy_workflow_version).
SomeVersionServes ==
    \A v \in Version : deployment[v] # "none" => \E u \in Siblings(v) : Active(u)

\* Two deployments of a workflow are active at once only if their transactions
\* overlapped: the locked select of the later one cannot see the row of the earlier
\* one, and no constraint of the table forbids two active rows.
OneServesUnlessOverlapped ==
    \A u, v \in Version :
        u # v /\ WorkflowOf[u] = WorkflowOf[v] /\ Active(u) /\ Active(v)
            => WorkflowOf[u] \in overlapped

\* A deployment under way, or made, passed the checks of its references.  The snapshot
\* of one under way misses an active row only if the two overlapped.
DeploymentsFit ==
    \A v \in Version :
        /\ Reading(v) \/ deployment[v] # "none" => v \in Sound
        /\ Reading(v) =>
               /\ deployment[v] = "none"
               /\ snapshot[v] \subseteq Siblings(v)
               /\ \A u \in Siblings(v) \ snapshot[v] : Active(u) => WorkflowOf[v] \in overlapped
=============================================================================
