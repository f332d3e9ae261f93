------------------------- MODULE ExperimentsProofs -------------------------
(***************************************************************************)
(* What is proved of deployments, experiments and releases, for every set  *)
(* of versions, executions, evaluations and scenarios.                     *)
(***************************************************************************)
EXTENDS Experiments, TLAPS

-----------------------------------------------------------------------------
\* Deployments: deploy_workflow_version reads and commits in two steps.

DeploymentTypes ==
    /\ versions \subseteq Version
    /\ deployment \in [Version -> {"none", "active", "superseded"}]
    /\ snapshot \in [Version -> SUBSET (Version \cup {NoVersion})]
    /\ overlapped \subseteq Workflow

DeploymentsInv ==
    DeploymentTypes /\ DeploymentsFit /\ SomeVersionServes /\ OneServesUnlessOverlapped

\* A version whose references are in order now has definitions that are.
LEMMA ReferencesAreSound ==
    ASSUME NEW v \in Version, ReferencesSound(v)
    PROVE  v \in Sound
BY Zenon DEF ReferencesSound, Sound

\* The snapshot of a deployment under way is never the mark of one that is not.
LEMMA ActiveSiblings ==
    ASSUME NEW v \in Version
    PROVE  /\ {u \in Siblings(v) : Active(u)} # NotReading
           /\ {u \in Siblings(v) : Active(u)} \subseteq Siblings(v)
           /\ Siblings(v) \subseteq Version /\ v \in Siblings(v)
           /\ WorkflowOf[v] \in Workflow
BY Zenon, DefinitionAssumption DEF NotReading, Siblings

\* No deployment is there at first (workflow_deployments is empty).
LEMMA DeploymentsInitially == DeploymentsInit => DeploymentsInv
<1> SUFFICES ASSUME DeploymentsInit PROVE DeploymentsInv
    OBVIOUS
<1>1. \A v \in Version : ~ Reading(v) /\ deployment[v] = "none" /\ ~ Active(v)
    BY Zenon DEF DeploymentsInit, Reading, Active
<1>2. DeploymentTypes
    BY DEF DeploymentsInit, DeploymentTypes, NotReading
<1> QED BY Zenon, <1>1, <1>2 DEF DeploymentsInv, DeploymentsFit, SomeVersionServes, OneServesUnlessOverlapped

\* A step that leaves the rows of deployments alone keeps them consistent.
LEMMA DeploymentsFrame ==
    ASSUME DeploymentsInv, versions' \subseteq Version,
           UNCHANGED <<deployment, snapshot, overlapped>>
    PROVE  DeploymentsInv'
<1>1. deployment' = deployment /\ snapshot' = snapshot /\ overlapped' = overlapped
    BY Zenon
<1>2. DeploymentTypes'
    BY Zenon, <1>1 DEF DeploymentsInv, DeploymentTypes
<1> QED BY Zenon, <1>1, <1>2 DEF DeploymentsInv, DeploymentsFit, SomeVersionServes,
            OneServesUnlessOverlapped, Reading, Active

\* The read of the active rows: all of them are in the snapshot.
LEMMA ReadPriorFits ==
    ASSUME DeploymentsInv, NEW v \in Version, ReadPrior(v)
    PROVE  DeploymentsInv'
<1> DEFINE seen == {u \in Siblings(v) : Active(u)}
<1>1. /\ deployment' = deployment /\ overlapped' = overlapped /\ versions' = versions
      /\ snapshot' = [snapshot EXCEPT ![v] = seen]
      /\ deployment[v] = "none" /\ v \in Sound
    BY Zenon, ReferencesAreSound DEF ReadPrior
<1>2. seen # NotReading /\ seen \subseteq Siblings(v) /\ Siblings(v) \subseteq Version
    BY Zenon, ActiveSiblings
<1>3. \A u \in Siblings(v) \ seen : ~ Active(u)
    BY Zenon
<1> HIDE DEF seen
<1>4. /\ snapshot'[v] = seen
      /\ \A u \in Version : u # v => snapshot'[u] = snapshot[u]
    BY Zenon, <1>1 DEF DeploymentsInv, DeploymentTypes
<1>5. DeploymentTypes'
    BY Zenon, <1>1, <1>2 DEF DeploymentsInv, DeploymentTypes
<1>6. DeploymentsFit'
    BY Zenon, <1>1, <1>2, <1>3, <1>4 DEF DeploymentsInv, DeploymentsFit, Reading, Active
<1>7. SomeVersionServes' /\ OneServesUnlessOverlapped'
    BY Zenon, <1>1 DEF DeploymentsInv, SomeVersionServes, OneServesUnlessOverlapped, Active
<1> QED BY Zenon, <1>5, <1>6, <1>7 DEF DeploymentsInv

\* The commit: the row is active, what the snapshot holds no longer is, and every
\* deployment of the workflow that is still under way is marked as overlapping.
LEMMA DeployFits ==
    ASSUME DeploymentsInv, NEW v \in Version, Deploy(v)
    PROVE  DeploymentsInv'
<1>1. /\ versions' = versions
      /\ Reading(v) /\ deployment[v] = "none" /\ v \in Sound /\ snapshot[v] \subseteq Siblings(v)
      /\ snapshot' = [snapshot EXCEPT ![v] = NotReading]
    BY Zenon DEF Deploy, DeploymentsInv, DeploymentsFit
<1>2. /\ snapshot'[v] = NotReading
      /\ \A u \in Version : u # v => snapshot'[u] = snapshot[u]
    BY Zenon, <1>1 DEF DeploymentsInv, DeploymentTypes
<1>3. /\ deployment'[v] = "active"
      /\ \A u \in Version : u # v =>
             deployment'[u] = IF u \in Superseded(v) THEN "superseded" ELSE deployment[u]
    BY Zenon DEF Deploy
<1>4. /\ overlapped \subseteq overlapped'
      /\ \A u \in Siblings(v) : u # v /\ Reading(u) => WorkflowOf[u] \in overlapped'
    BY Zenon DEF Deploy
<1>5. Siblings(v) \subseteq Version /\ v \in Siblings(v)
    BY Zenon, ActiveSiblings
<1>6. \A u \in Superseded(v) : u \in Siblings(v) /\ Active(u)
    BY Zenon, <1>1 DEF Superseded
<1>7. \A u \in Version : u # v => (Active(u)' => Active(u) /\ u \notin Superseded(v))
    BY <1>3 DEF Active
<1>8. \A u \in Version : u # v => (deployment'[u] # "none" => deployment[u] # "none")
    BY Zenon, <1>3, <1>6 DEF Active
<1>9. Active(v)'
    BY Zenon, <1>3 DEF Active
<1>10. DeploymentTypes'
  <2>1. deployment' \in [Version -> {"none", "active", "superseded"}]
    BY DEF Deploy, DeploymentsInv, DeploymentTypes
  <2>2. snapshot' \in [Version -> SUBSET (Version \cup {NoVersion})]
    BY <1>1 DEF DeploymentsInv, DeploymentTypes, NotReading
  <2>3. overlapped' \subseteq Workflow
    BY Zenon, <1>5, ActiveSiblings DEF Deploy, DeploymentsInv, DeploymentTypes
  <2> QED BY Zenon, <1>1, <2>1, <2>2, <2>3 DEF DeploymentsInv, DeploymentTypes
<1>11. ASSUME NEW u \in Siblings(v), u # v, Active(u)'
       PROVE  WorkflowOf[v] \in overlapped'
    BY Zenon, <1>1, <1>4, <1>5, <1>7, <1>11 DEF DeploymentsInv, DeploymentsFit, Superseded
<1>12. \A u \in Version : Reading(u)' => u # v /\ Reading(u)
    BY Zenon, <1>2 DEF Reading
<1>13. DeploymentsFit'
  <2>1. ASSUME NEW u \in Version PROVE Reading(u)' \/ deployment'[u] # "none" => u \in Sound
    BY Zenon, <1>1, <1>8, <1>12 DEF DeploymentsInv, DeploymentsFit
  <2>2. ASSUME NEW u \in Version, Reading(u)'
        PROVE  /\ deployment'[u] = "none" /\ snapshot'[u] \subseteq Siblings(u)
               /\ \A w \in Siblings(u) \ snapshot'[u] : Active(w)' => WorkflowOf[u] \in overlapped'
    <3>1. u # v /\ Reading(u) /\ snapshot'[u] = snapshot[u]
      BY Zenon, <1>2, <1>12, <2>2
    <3>2. deployment[u] = "none" /\ snapshot[u] \subseteq Siblings(u)
      BY Zenon, <3>1 DEF DeploymentsInv, DeploymentsFit
    <3>3. deployment'[u] = "none"
      BY <1>3, <1>6, <3>1, <3>2 DEF Active
    <3>4. ASSUME NEW w \in Siblings(u), w \notin snapshot[u], Active(w)'
          PROVE  WorkflowOf[u] \in overlapped'
      <4>1. w \in Version /\ WorkflowOf[w] = WorkflowOf[u]
        BY Zenon DEF Siblings
      <4>2. CASE w = v
        <5>1. u \in Siblings(v)
          BY Zenon, <4>1, <4>2 DEF Siblings
        <5> QED BY Zenon, <1>4, <3>1, <5>1
      <4>3. CASE w # v
        BY Zenon, <1>4, <1>7, <3>1, <3>4, <4>1, <4>3 DEF DeploymentsInv, DeploymentsFit
      <4> QED BY Zenon, <4>2, <4>3
    <3> QED BY Zenon, <3>1, <3>2, <3>3, <3>4
  <2> QED BY Zenon, <2>1, <2>2 DEF DeploymentsFit
<1>14. SomeVersionServes'
  <2>1. ASSUME NEW u \in Version, deployment'[u] # "none" PROVE \E w \in Siblings(u) : Active(w)'
    <3>1. CASE u \in Siblings(v)
      <4>1. v \in Siblings(u)
        BY Zenon, <3>1 DEF Siblings
      <4> QED BY Zenon, <1>9, <4>1
    <3>2. CASE u \notin Siblings(v)
      <4>1. PICK w \in Siblings(u) : Active(w)
        BY Zenon, <1>5, <1>8, <2>1, <3>2 DEF DeploymentsInv, SomeVersionServes
      <4>2. w \in Version /\ w \notin Siblings(v) /\ w # v
        BY Zenon, <1>5, <3>2, <4>1 DEF Siblings
      <4>3. Active(w)'
        BY Zenon, <1>3, <1>6, <4>1, <4>2 DEF Active
      <4> QED BY Zenon, <4>3
    <3> QED BY Zenon, <3>1, <3>2
  <2> QED BY Zenon, <2>1 DEF SomeVersionServes
<1>15. OneServesUnlessOverlapped'
  <2>1. ASSUME NEW u \in Version, NEW w \in Version, u # w, WorkflowOf[u] = WorkflowOf[w],
               Active(u)', Active(w)'
        PROVE  WorkflowOf[u] \in overlapped'
    <3>1. CASE u = v
      <4>1. w \in Siblings(v)
        BY Zenon, <2>1, <3>1 DEF Siblings
      <4> QED BY Zenon, <1>11, <2>1, <3>1, <4>1
    <3>2. CASE w = v
      <4>1. u \in Siblings(v)
        BY Zenon, <2>1, <3>2 DEF Siblings
      <4> QED BY Zenon, <1>11, <2>1, <3>2, <4>1
    <3>3. CASE u # v /\ w # v
      BY Zenon, <1>4, <1>7, <2>1, <3>3 DEF DeploymentsInv, OneServesUnlessOverlapped
    <3> QED BY Zenon, <3>1, <3>2, <3>3
  <2> QED BY Zenon, <2>1 DEF OneServesUnlessOverlapped
<1> QED BY Zenon, <1>10, <1>13, <1>14, <1>15 DEF DeploymentsInv

\* A deployment that is rolled back leaves nothing behind.
LEMMA DeployFailsFits ==
    ASSUME DeploymentsInv, NEW v \in Version, DeployFails(v)
    PROVE  DeploymentsInv'
<1>1. /\ deployment' = deployment /\ overlapped' = overlapped /\ versions' = versions
      /\ snapshot' = [snapshot EXCEPT ![v] = NotReading]
    BY Zenon DEF DeployFails
<1>2. /\ snapshot'[v] = NotReading
      /\ \A u \in Version : u # v => snapshot'[u] = snapshot[u]
    BY Zenon, <1>1 DEF DeploymentsInv, DeploymentTypes
<1>3. DeploymentTypes'
    BY <1>1 DEF DeploymentsInv, DeploymentTypes, NotReading
<1>4. DeploymentsFit'
    BY Zenon, <1>1, <1>2 DEF DeploymentsInv, DeploymentsFit, Reading, Active
<1>5. SomeVersionServes' /\ OneServesUnlessOverlapped'
    BY Zenon, <1>1 DEF DeploymentsInv, SomeVersionServes, OneServesUnlessOverlapped, Active
<1> QED BY Zenon, <1>3, <1>4, <1>5 DEF DeploymentsInv

-----------------------------------------------------------------------------
\* References: what a subworkflow node can reach.

ReferencesFrom(set) == UNION {ReferencesOf(u) : u \in set}
Below(depths) == [v \in Version |-> ReferencesFrom(depths[v])]
IsAtDepth(f) ==
    f = [depth \in 0..(MaxDepth + 1) |-> [v \in Version |->
            IF depth = 0 THEN {v} ELSE ReferencesFrom(f[depth - 1][v])]]

\* The recursive function is there: its ten values are written down.
LEMMA DepthsExist == \E f : IsAtDepth(f)
<1>1. PICK a0, a1, a2, a3, a4, a5, a6, a7, a8, a9 :
         /\ a0 = [v \in Version |-> {v}]
         /\ a1 = Below(a0) /\ a2 = Below(a1) /\ a3 = Below(a2) /\ a4 = Below(a3)
         /\ a5 = Below(a4) /\ a6 = Below(a5) /\ a7 = Below(a6) /\ a8 = Below(a7) /\ a9 = Below(a8)
    BY Zenon
<1> DEFINE level(d) == CASE d = 0 -> a0 [] d = 1 -> a1 [] d = 2 -> a2 [] d = 3 -> a3
                         [] d = 4 -> a4 [] d = 5 -> a5 [] d = 6 -> a6 [] d = 7 -> a7
                         [] d = 8 -> a8 [] OTHER -> a9
           f == [d \in 0..9 |-> level(d)]
<1>2. /\ f[0] = a0 /\ f[1] = a1 /\ f[2] = a2 /\ f[3] = a3 /\ f[4] = a4
      /\ f[5] = a5 /\ f[6] = a6 /\ f[7] = a7 /\ f[8] = a8 /\ f[9] = a9
    OBVIOUS
<1> HIDE DEF level
<1>3. f = [d \in 0..9 |-> f[d]]
    BY Zenon
<1> HIDE DEF f
<1>4. \A d \in 1..9 : f[d] = Below(f[d - 1])
  <2>1. /\ f[1] = Below(f[0]) /\ f[2] = Below(f[1]) /\ f[3] = Below(f[2])
        /\ f[4] = Below(f[3]) /\ f[5] = Below(f[4]) /\ f[6] = Below(f[5])
        /\ f[7] = Below(f[6]) /\ f[8] = Below(f[7]) /\ f[9] = Below(f[8])
    BY Zenon, <1>1, <1>2
  <2>2. SUFFICES ASSUME NEW d \in 1..9 PROVE f[d] = Below(f[d - 1])
    OBVIOUS
  <2>3. <<d, d - 1>> \in {<<1, 0>>, <<2, 1>>, <<3, 2>>, <<4, 3>>, <<5, 4>>, <<6, 5>>,
                         <<7, 6>>, <<8, 7>>, <<9, 8>>}
    OBVIOUS
  <2> QED BY Zenon, <2>1, <2>3
<1>5. \A d \in 0..9 : f[d] = [v \in Version |-> IF d = 0 THEN {v} ELSE ReferencesFrom(f[d - 1][v])]
  <2>1. f[0] = [v \in Version |-> {v}]
    BY Zenon, <1>1, <1>2
  <2>2. ASSUME NEW d \in 0..9
        PROVE  f[d] = [v \in Version |-> IF d = 0 THEN {v} ELSE ReferencesFrom(f[d - 1][v])]
    <3>1. CASE d = 0
      BY <2>1, <3>1
    <3>2. CASE d # 0
      <4>1. f[d] = Below(f[d - 1])
        BY <1>4, <3>2
      <4> QED BY Zenon, <3>2, <4>1 DEF Below
    <3> QED BY <3>1, <3>2
  <2> QED BY <2>2
<1>6. MaxDepth + 1 = 9
    BY DEF MaxDepth
<1>7. f = [d \in 0..9 |-> [v \in Version |->
             IF d = 0 THEN {v} ELSE ReferencesFrom(f[d - 1][v])]]
    BY Zenon, <1>3, <1>5
<1>8. IsAtDepth(f)
    BY Zenon, <1>6, <1>7 DEF IsAtDepth
<1> QED BY Zenon, <1>8

\* AtDepth is that function: its recursion ends after ten levels
\* (_subworkflow_reference_issues).
LEMMA DepthsAre == IsAtDepth(AtDepth)
<1> DEFINE it == CHOOSE f : IsAtDepth(f)
<1>1. AtDepth = it
    BY DEF AtDepth, IsAtDepth, ReferencesFrom
<1>2. IsAtDepth(it)
    BY Zenon, DepthsExist
<1> QED BY Zenon, <1>1, <1>2

\* The levels below a version, one by one.
LEMMA Levels ==
    ASSUME NEW v \in Version
    PROVE  /\ AtDepth[0][v] = {v}
           /\ \A d \in 0..8 : AtDepth[d + 1][v] = ReferencesFrom(AtDepth[d][v])
<1>1. MaxDepth + 1 = 9
    BY DEF MaxDepth
<1>2. PICK f : f = AtDepth
    BY Zenon
<1>3. f = [depth \in 0..9 |-> [u \in Version |->
             IF depth = 0 THEN {u} ELSE ReferencesFrom(f[depth - 1][u])]]
    BY <1>1, <1>2, DepthsAre DEF IsAtDepth
<1>4. f[0][v] = {v}
    BY <1>3
<1>5. ASSUME NEW d \in 0..8 PROVE f[d + 1][v] = ReferencesFrom(f[d][v])
  <2>1. d + 1 \in 0..9 /\ d + 1 # 0 /\ (d + 1) - 1 = d
    OBVIOUS
  <2>2. f[d + 1] = [u \in Version |-> IF d + 1 = 0 THEN {u} ELSE ReferencesFrom(f[(d + 1) - 1][u])]
    BY Zenon, <1>3, <2>1
  <2> QED BY <2>1, <2>2
<1> QED BY <1>2, <1>4, <1>5

\* What is below a reference of a version is one level further below the version.
LEMMA LevelsNest ==
    ASSUME NEW v \in Version, NEW r \in Version, r \in ReferencesOf(v)
    PROVE  \A d \in 0..8 : AtDepth[d][r] \subseteq AtDepth[d + 1][v]
<1> DEFINE P(d) == AtDepth[d][r] \subseteq AtDepth[d + 1][v]
<1>1. P(0)
  <2>1. AtDepth[0][r] = {r} /\ AtDepth[0][v] = {v} /\ AtDepth[0 + 1][v] = ReferencesFrom(AtDepth[0][v])
    BY Levels
  <2> QED BY Zenon, <2>1 DEF ReferencesFrom
<1>2. ASSUME NEW d \in 0..7, P(d) PROVE P(d + 1)
  <2>1. d \in 0..8 /\ d + 1 \in 0..8
    OBVIOUS
  <2>2. /\ AtDepth[d + 1][r] = ReferencesFrom(AtDepth[d][r])
        /\ AtDepth[(d + 1) + 1][v] = ReferencesFrom(AtDepth[d + 1][v])
    BY Zenon, <2>1, Levels
  <2> QED BY Zenon, <1>2, <2>2 DEF ReferencesFrom
<1> HIDE DEF P
<1>3. /\ P(1) /\ P(2) /\ P(3) /\ P(4) /\ P(5) /\ P(6) /\ P(7) /\ P(8)
  <2>1. P(0 + 1)
    BY <1>1, <1>2
  <2>2. P(1 + 1)
    BY <2>1, <1>2
  <2>3. P(2 + 1)
    BY <2>2, <1>2
  <2>4. P(3 + 1)
    BY <2>3, <1>2
  <2>5. P(4 + 1)
    BY <2>4, <1>2
  <2>6. P(5 + 1)
    BY <2>5, <1>2
  <2>7. P(6 + 1)
    BY <2>6, <1>2
  <2>8. P(7 + 1)
    BY <2>7, <1>2
  <2> QED BY <2>1, <2>2, <2>3, <2>4, <2>5, <2>6, <2>7, <2>8
<1>4. \A d \in 0..8 : P(d)
    BY <1>1, <1>3
<1> QED BY Zenon, <1>4 DEF P

\* A tool is never below a reference of a sound version: the deployment that has one is
\* refused, however deep it is (_subworkflow_reference_issues).
LEMMA ReferencesHaveNoTools ==
    ASSUME NEW v \in Sound, NEW r \in Version, r \in ReferencesOf(v)
    PROVE  ~ Effectful(r)
<1>1. /\ v \in Version /\ AtDepth[9][v] = {}
      /\ \A d \in 1..9 : \A u \in AtDepth[d][v] : "tool" \notin TypesIn(u)
    BY DEF Sound, MaxDepth, Descendants, ExternalTypes
<1>2. \A d \in 0..8 : AtDepth[d][r] \subseteq AtDepth[d + 1][v]
    BY Zenon, <1>1, LevelsNest
<1>3. AtDepth[8][r] \subseteq AtDepth[9][v]
  <2>1. AtDepth[8][r] \subseteq AtDepth[8 + 1][v]
    BY <1>2
  <2> QED BY <2>1
<1>4. AtDepth[9][r] = {}
  <2>1. AtDepth[8 + 1][r] = ReferencesFrom(AtDepth[8][r])
    BY Levels
  <2>2. ReferencesFrom(AtDepth[8][r]) = {}
    BY Zenon, <1>1, <1>3 DEF ReferencesFrom
  <2> QED BY <2>1, <2>2
<1>5. ASSUME NEW d \in 0..9, NEW u \in AtDepth[d][r] PROVE "tool" \notin TypesIn(u)
  <2>1. CASE d = 9
    BY Zenon, <1>4, <1>5, <2>1
  <2>2. CASE d # 9
    <3>1. d \in 0..8 /\ d + 1 \in 1..9
      BY <2>2
    <3>2. u \in AtDepth[d + 1][v]
      BY Zenon, <1>2, <1>5, <3>1
    <3> QED BY Zenon, <1>1, <3>1, <3>2
  <2> QED BY Zenon, <2>1, <2>2
<1>6. r \in AtDepth[0][r]
    BY Zenon, Levels
<1>7. \A u \in Descendants(r) : \E d \in 1..9 : u \in AtDepth[d][r]
    BY DEF Descendants, MaxDepth
<1>8. 0 \in 0..9 /\ \A d \in 1..9 : d \in 0..9
    OBVIOUS
<1> QED BY Zenon, <1>5, <1>6, <1>7, <1>8 DEF Effectful

-----------------------------------------------------------------------------
\* Rows of executions: what the engine and the requests make of one.

Good(e, x) == x \in Rows /\ RowFits(e, x)
SameRun(x, y) == y.version = x.version /\ y.purpose = x.purpose /\ y.mode = x.mode
Nodes == [type : NodeTypes, guarded : BOOLEAN, refers : Version \cup {NoVersion}]

\* What passed the checks is a version.
LEMMA SoundVersions == Sound \subseteq Version
BY Zenon DEF Sound

\* A live execution is at a node of its definition.
LEMMA AtANode ==
    ASSUME NEW e, NEW x, Good(e, x), x.status \in Live
    PROVE  /\ x.version \in Version /\ x.version \in Sound
           /\ Len(Definition[x.version]) \in Nat
           /\ x.at \in 1..Len(Definition[x.version])
           /\ NodeOf(x) \in Nodes
           /\ NodeOf(x).refers # NoVersion <=> NodeOf(x).type = "subworkflow"
<1>1. x.version \in Version /\ x.version \in Sound /\ x.at \in DOMAIN Definition[x.version]
    BY Zenon, SoundVersions DEF Good, RowFits
<1>2. Definition[x.version] \in Seq(Nodes)
    BY Zenon, <1>1, DefinitionAssumption DEF Nodes
<1>3. NodeOf(x) \in Nodes /\ x.at \in 1..Len(Definition[x.version]) /\ Len(Definition[x.version]) \in Nat
    BY <1>1, <1>2 DEF NodeOf
<1>4. NodeOf(x).refers # NoVersion <=> NodeOf(x).type = "subworkflow"
    BY Zenon, <1>1, DefinitionAssumption DEF NodeOf
<1> QED BY Zenon, <1>1, <1>3, <1>4

\* Only live runs have effects: a node with a tool of any other execution is simulated,
\* and no subworkflow of it has a tool (require_simulation_profile).
LEMMA OnlyARunHasEffects ==
    ASSUME NEW e, NEW x, Good(e, x), x.status \in Live, HasEffect(x)
    PROVE  x.purpose = "run"
<1>1. /\ x.version \in Version /\ x.version \in Sound
      /\ x.at \in DOMAIN Definition[x.version]
      /\ x.purpose # "run" /\ Effectful(x.version) => x.mode = "simulation"
    BY Zenon, SoundVersions DEF Good, RowFits
<1>2. NodeOf(x).type \in TypesIn(x.version)
    BY Zenon, <1>1 DEF NodeOf, TypesIn
<1>3. CASE NodeOf(x).type = "tool" /\ x.mode = "live"
  <2>1. Effectful(x.version)
    BY Zenon, <1>2, <1>3 DEF Effectful
  <2>2. x.mode # "simulation"
    BY <1>3
  <2> QED BY Zenon, <1>1, <2>1, <2>2
<1>4. CASE NodeOf(x).type = "subworkflow" /\ Effectful(NodeOf(x).refers)
  <2>1. NodeOf(x).refers # NoVersion /\ NodeOf(x).refers \in Version \cup {NoVersion}
    BY AtANode, <1>4 DEF Nodes
  <2>2. NodeOf(x).refers \in ReferencesOf(x.version)
    BY Zenon, <1>1, <2>1 DEF NodeOf, ReferencesOf
  <2> QED BY Zenon, <1>1, <1>4, <2>1, <2>2, ReferencesHaveNoTools
<1> QED BY Zenon, <1>3, <1>4 DEF HasEffect

\* The policy of the node changes nothing but the decision and the nodes it allowed.
LEMMA DecidedRow ==
    ASSUME NEW e, NEW x, Good(e, x), x.status \in Live, bundle \in Bundles,
           NEW expired, Permitted(x, expired)
    PROVE  \E d \in Decisions, a \in SUBSET Nat :
              DecisionFits(d) /\ Decided(x, expired) = [x EXCEPT !.decision = d, !.allowed = a]
<1>1. x \in Rows /\ DecisionFits(x.decision) /\ x.decision \in Decisions /\ x.allowed \in SUBSET Nat
    BY DEF Good, RowFits, Rows
<1>2. CASE ~ NodeOf(x).guarded
  <2>1. Decided(x, expired) = [x EXCEPT !.decision = x.decision, !.allowed = x.allowed]
    BY <1>1, <1>2 DEF Decided, Rows
  <2> QED BY Zenon, <1>1, <2>1
<1>3. CASE NodeOf(x).guarded
  <2> DEFINE d == Decision(x.decision, bundle, Context, StepCount(x), expired)
  <2>1. Decided(x, expired) = [x EXCEPT !.decision = d, !.allowed = x.allowed \cup {x.at}]
    BY <1>1, <1>3 DEF Decided, Rows
  <2>2. d.effect = "allow"
    BY Zenon, <1>3 DEF Permitted, Permits
  <2>3. StepCount(x) \in Int
    BY <1>1 DEF StepCount, Rows
  <2>4. x.allowed \cup {x.at} \in SUBSET Nat
    BY <1>1 DEF Rows
  <2>5. d \in Decisions /\ DecisionFits(d)
    <3>1. CASE d = x.decision
      BY Zenon, <1>1, <3>1
    <3>2. CASE d = [seq |-> StepCount(x), effect |-> Effect(bundle.document.rules, Context),
                    digest |-> bundle.document]
      <4>1. d \in Decisions
        BY <2>2, <2>3, <3>2 DEF Decisions
      <4>2. d.effect = Effect(bundle.document.rules, Context) /\ d.digest = bundle.document
        BY <3>2
      <4> QED BY Zenon, <4>1, <4>2 DEF DecisionFits
    <3> QED BY Zenon, <3>1, <3>2 DEF Decision
  <2> HIDE DEF d
  <2> QED BY Zenon, <2>1, <2>4, <2>5
<1> QED BY Zenon, <1>2, <1>3

\* The wait of an approval.
LEMMA WaitingRow ==
    ASSUME NEW e, NEW x, Good(e, x), x.status = "queued", bundle \in Bundles,
           NEW expired, Permitted(x, expired)
    PROVE  LET y == [Decided(x, expired) EXCEPT !.status = "waiting"]
           IN  Good(e, y) /\ y.status = "waiting" /\ SameRun(x, y) /\ y.path = x.path
<1>1. PICK d \in Decisions, a \in SUBSET Nat :
         DecisionFits(d) /\ Decided(x, expired) = [x EXCEPT !.decision = d, !.allowed = a]
    BY DecidedRow DEF Live
<1>2. PICK y : y = [Decided(x, expired) EXCEPT !.status = "waiting"]
    BY Zenon
<1>3. x \in Rows
    BY Zenon DEF Good
<1>4. /\ y \in Rows /\ y.status = "waiting" /\ y.decision = d /\ SameRun(x, y)
      /\ y.path = x.path /\ y.data = x.data /\ y.at = x.at /\ y.finalized = x.finalized
    BY <1>1, <1>2, <1>3 DEF Rows, Live, SameRun
<1>5. RowFits(e, y)
    BY <1>1, <1>4 DEF Good, RowFits, Live, SameRun
<1> QED BY Zenon, <1>2, <1>4, <1>5 DEF Good

\* The answer of an approval.
Answers == {"approved", "denied"}
Answered(x, answer) == [x EXCEPT !.status = "queued", !.answer = answer]

\* The row of an execution whose approval is resolved: it is queued again, where it was.
LEMMA AnsweredRow ==
    ASSUME NEW e, NEW x, Good(e, x), x.status = "waiting", NEW answer \in Answers
    PROVE  LET y == Answered(x, answer)
           IN  Good(e, y) /\ y.status = "queued" /\ SameRun(x, y) /\ y.path = x.path
<1>1. PICK y : y = Answered(x, answer)
    BY Zenon
<1>2. x \in Rows
    BY Zenon DEF Good
<1>3. /\ y \in Rows /\ y.status = "queued" /\ y.decision = x.decision /\ SameRun(x, y)
      /\ y.path = x.path /\ y.data = x.data /\ y.at = x.at /\ y.finalized = x.finalized
    BY <1>1, <1>2 DEF Rows, Live, SameRun, Answers, Answered
<1>4. RowFits(e, y)
    BY <1>3 DEF Good, RowFits, Live, SameRun
<1> QED BY Zenon, <1>1, <1>3, <1>4 DEF Good

\* The end of an execution at the node it is at.
LEMMA StoppedRow ==
    ASSUME NEW e, NEW x, Good(e, x), NEW status \in {"failed", "cancelled"}
    PROVE  LET y == Stopped(x, status)
           IN  /\ Good(e, y) /\ y.status = status /\ SameRun(x, y) /\ y.path = x.path
               /\ y.finalized = x.finalized
<1>1. PICK y : y = Stopped(x, status)
    BY Zenon
<1>2. x \in Rows
    BY Zenon DEF Good
<1>3. NoDecision \in Decisions
    BY DEF NoDecision, Decisions, NoDocument
<1>4. /\ y \in Rows /\ y.status = status /\ y.decision = NoDecision /\ SameRun(x, y)
      /\ y.path = x.path /\ y.data = x.data /\ y.at = x.at /\ y.finalized = x.finalized
    BY <1>1, <1>2, <1>3 DEF Rows, Terminal, SameRun, Stopped
<1>5. RowFits(e, y)
    BY <1>4 DEF Good, RowFits, Live, SameRun, DecisionFits
<1> QED BY Zenon, <1>1, <1>4, <1>5 DEF Good

\* A cancellation that has been told to the evaluation or the replay.
LEMMA FinalizedRow ==
    ASSUME NEW e, NEW x, Good(e, x), x.status = "cancelled"
    PROVE  LET y == [x EXCEPT !.finalized = TRUE]
           IN  /\ Good(e, y) /\ y.status = "cancelled" /\ SameRun(x, y) /\ y.path = x.path
               /\ y.finalized
<1>1. PICK y : y = [x EXCEPT !.finalized = TRUE]
    BY Zenon
<1>2. x \in Rows
    BY Zenon DEF Good
<1>3. /\ y \in Rows /\ y.status = "cancelled" /\ y.decision = x.decision /\ SameRun(x, y)
      /\ y.path = x.path /\ y.data = x.data /\ y.at = x.at /\ y.finalized
    BY <1>1, <1>2 DEF Rows, SameRun
<1>4. RowFits(e, y)
    BY <1>3 DEF Good, RowFits, Live, SameRun
<1> QED BY Zenon, <1>1, <1>3, <1>4 DEF Good

\* What a node that does not suspend adds to the state.
LEMMA ValueType ==
    ASSUME NEW e, NEW x, Good(e, x), x.status \in Live, ~ Suspends(x)
    PROVE  Value(x) \in {"approved", "denied", "simulated", "receipt", "done"}
<1>1. x.answer \in {"none", "approved", "denied"}
    BY DEF Good, Rows
<1>2. NodeOf(x).type = "approval" => x.answer # "none"
    BY Zenon DEF Suspends
<1> QED BY <1>1, <1>2 DEF Value

\* The row after a node: it is at the next node, or completed.
LEMMA AdvancedRow ==
    ASSUME NEW e, NEW x, Good(e, x), x.status = "queued", bundle \in Bundles,
           NEW expired, Permitted(x, expired), ~ Suspends(x)
    PROVE  LET y == Advanced(x, expired)
           IN  /\ Good(e, y) /\ y.status \in {"queued", "completed"} /\ SameRun(x, y)
               /\ y.finalized = x.finalized
<1>1. PICK d \in Decisions, a \in SUBSET Nat :
         DecisionFits(d) /\ Decided(x, expired) = [x EXCEPT !.decision = d, !.allowed = a]
    BY DecidedRow DEF Live
<1>2. /\ x \in Rows /\ x.at \in 1..Len(Definition[x.version])
      /\ Len(Definition[x.version]) \in Nat
    BY AtANode DEF Good, Live
<1>3. Value(x) \in {"approved", "denied", "simulated", "receipt", "done"}
    BY ValueType DEF Live
<1>4. NoDecision \in Decisions
    BY DEF NoDecision, Decisions, NoDocument
<1>5. PICK y, next, value :
         y = Advanced(x, expired) /\ next = NextAt(x) /\ value = Value(x)
    BY Zenon
<1>6. next \in Nat /\ next # 0
    BY <1>2, <1>5 DEF NextAt
<1>7. PICK status : status = IF next > Len(Definition[x.version]) THEN "completed" ELSE "queued"
    BY Zenon
<1>8. y = [[x EXCEPT !.decision = d, !.allowed = a]
             EXCEPT !.path = Append(@, x.at), !.data = Append(@, value), !.at = next,
                    !.answer = "none", !.decision = NoDecision, !.status = status]
    BY Zenon, <1>1, <1>5, <1>7 DEF Advanced
<1>9. /\ x.path \in Seq(Nat \ {0})
      /\ x.data \in Seq({"approved", "denied", "simulated", "receipt", "done"})
      /\ Len(x.data) = Len(x.path)
    BY <1>2 DEF Good, RowFits, Rows
<1>10. /\ Append(x.path, x.at) \in Seq(Nat \ {0})
       /\ Append(x.data, value) \in Seq({"approved", "denied", "simulated", "receipt", "done"})
       /\ Len(Append(x.data, value)) = Len(Append(x.path, x.at))
    BY <1>2, <1>3, <1>5, <1>9
<1>11. /\ y \in Rows /\ y.status = status /\ y.decision = NoDecision /\ SameRun(x, y)
       /\ y.path = Append(x.path, x.at) /\ y.data = Append(x.data, value) /\ y.at = next
       /\ y.finalized = x.finalized
  <2>1. status \in Live \cup Terminal \cup {"none"}
    BY <1>7 DEF Live, Terminal
  <2>2. PICK p, q : p = Append(x.path, x.at) /\ q = Append(x.data, value)
    BY Zenon
  <2>3. y = [x EXCEPT !.decision = NoDecision, !.allowed = a, !.path = p, !.data = q,
                      !.at = next, !.answer = "none", !.status = status]
    BY <1>2, <1>8, <2>2 DEF Rows
  <2> QED BY <1>1, <1>2, <1>4, <1>6, <1>10, <2>1, <2>2, <2>3 DEF Rows, SameRun
<1>12. status \in {"queued", "completed"}
    BY <1>7
<1>13. status \in Live => next \in DOMAIN Definition[x.version]
  <2>1. status \in Live => next \in 1..Len(Definition[x.version])
    BY <1>2, <1>6, <1>7 DEF Live
  <2>2. Definition[x.version] \in Seq(Nodes)
    BY Zenon, SoundVersions, DefinitionAssumption DEF Nodes, Good, RowFits
  <2> QED BY <2>1, <2>2
<1>14. RowFits(e, y)
  <2>1. /\ x.version \in Sound /\ ~ x.finalized
        /\ x.purpose = "evaluation" <=> e \in Evaluation \X Scenario
        /\ x.purpose # "run" /\ Effectful(x.version) => x.mode = "simulation"
    BY DEF Good, RowFits, Live
  <2>2. status # "none" /\ DecisionFits(NoDecision)
    BY <1>12 DEF DecisionFits
  <2> QED BY Zenon, <1>6, <1>10, <1>11, <1>13, <2>1, <2>2 DEF RowFits, SameRun
<1> QED BY Zenon, <1>5, <1>11, <1>12, <1>14 DEF Good

\* The row as the policy of its node leaves it.
LEMMA DecidedFits ==
    ASSUME NEW e, NEW x, Good(e, x), x.status = "queued", bundle \in Bundles,
           NEW expired, Permitted(x, expired)
    PROVE  LET y == Decided(x, expired)
           IN  /\ Good(e, y) /\ SameRun(x, y) /\ y.path = x.path /\ y.finalized = x.finalized
<1>1. PICK d \in Decisions, a \in SUBSET Nat :
         DecisionFits(d) /\ Decided(x, expired) = [x EXCEPT !.decision = d, !.allowed = a]
    BY DecidedRow DEF Live
<1>2. PICK y : y = Decided(x, expired)
    BY Zenon
<1>3. x \in Rows
    BY Zenon DEF Good
<1>4. /\ y \in Rows /\ y.status = x.status /\ y.decision = d /\ SameRun(x, y)
      /\ y.path = x.path /\ y.data = x.data /\ y.at = x.at /\ y.finalized = x.finalized
    BY <1>1, <1>2, <1>3 DEF Rows, SameRun
<1>5. RowFits(e, y)
    BY Zenon, <1>1, <1>4 DEF Good, RowFits, SameRun
<1> QED BY Zenon, <1>2, <1>4, <1>5 DEF Good

\* _create_execution_records of an active deployment.
LEMMA FreshRow ==
    ASSUME NEW e, NEW v \in Sound, NEW purpose \in {"run", "evaluation"},
           NEW mode \in {"live", "simulation"},
           purpose = "evaluation" <=> e \in Evaluation \X Scenario,
           purpose # "run" /\ Effectful(v) => mode = "simulation"
    PROVE  LET y == Fresh(v, purpose, mode)
           IN  Good(e, y) /\ y.status = "queued" /\ y.purpose = purpose
<1>1. PICK y : y = Fresh(v, purpose, mode)
    BY Zenon
<1>2. v \in Version
    BY Zenon, SoundVersions
<1>3. NoDecision \in Decisions
    BY DEF NoDecision, Decisions, NoDocument
<1>4. y = [status |-> "queued", purpose |-> purpose, mode |-> mode, version |-> v,
           source |-> None, base |-> 0, at |-> 1, path |-> <<>>, data |-> <<>>,
           answer |-> "none", decision |-> NoDecision, allowed |-> {}, finalized |-> FALSE]
    BY <1>1 DEF Fresh, NoExecution
<1>5. /\ y \in Rows /\ y.status = "queued" /\ y.purpose = purpose /\ y.mode = mode
      /\ y.version = v /\ y.at = 1 /\ y.path = <<>> /\ y.data = <<>>
      /\ y.decision = NoDecision /\ ~ y.finalized
    BY <1>2, <1>3, <1>4 DEF Rows, Live
<1>6. 1 \in DOMAIN Definition[v]
  <2>1. Definition[v] \in Seq(Nodes) /\ Definition[v] # <<>>
    BY Zenon, <1>2, DefinitionAssumption DEF Nodes
  <2> QED BY <2>1
<1>7. RowFits(e, y)
    BY <1>5, <1>6 DEF RowFits, Live, DecisionFits
<1> QED BY Zenon, <1>1, <1>5, <1>7 DEF Good

\* The row of an execution that was not started (workflow_executions has none).
LEMMA InitialRow == NoExecution \in Rows /\ NoExecution.status = "none"
<1>1. NoDecision \in Decisions
    BY DEF NoDecision, Decisions, NoDocument
<1> QED BY <1>1 DEF NoExecution, Rows

\* A copy from a checkpoint: the path and the state up to it, and the node after it.
LEMMA CheckpointRow ==
    ASSUME NEW c, NEW e \in Execution, Good(e, exec[e]), NEW k \in Checkpoints(e), ~ Terminates(e, k),
           NEW purpose \in {"fork", "replay"}, NEW mode \in {"live", "simulation"},
           c \notin Evaluation \X Scenario, Effectful(exec[e].version) => mode = "simulation"
    PROVE  LET y == FromCheckpoint(e, k, purpose, mode)
           IN  Good(c, y) /\ y.status = "queued" /\ y.purpose = purpose
<1>1. PICK x, y : x = exec[e] /\ y = FromCheckpoint(e, k, purpose, mode)
    BY Zenon
<1>2. /\ x \in Rows /\ x.version \in Sound /\ x.version \in Version /\ x.at # 0
      /\ Len(x.data) = Len(x.path) /\ Good(e, x)
    BY Zenon, <1>1, SoundVersions DEF Good, RowFits
<1>3. /\ x.path \in Seq(Nat \ {0}) /\ x.at \in Nat /\ x.base \in Nat
      /\ x.data \in Seq({"approved", "denied", "simulated", "receipt", "done"})
    BY <1>2 DEF Rows
<1>4. k \in Nat /\ k <= Len(x.path)
    BY <1>1, <1>3 DEF Checkpoints
<1>5. PICK next, p, q : next = NodeAfter(e, k) /\ p = SubSeq(x.path, 1, k) /\ q = SubSeq(x.data, 1, k)
    BY Zenon
<1>6. next \in Nat /\ next # 0
  <2>1. k < Len(x.path) => x.path[k + 1] \in Nat \ {0}
    BY <1>3, <1>4
  <2> QED BY <1>1, <1>2, <1>3, <1>4, <1>5, <2>1 DEF NodeAfter
<1>7. /\ p \in Seq(Nat \ {0}) /\ Len(p) = k
      /\ q \in Seq({"approved", "denied", "simulated", "receipt", "done"}) /\ Len(q) = k
    BY <1>2, <1>3, <1>4, <1>5
<1>8. next \in DOMAIN Definition[x.version]
  <2>1. Definition[x.version] \in Seq(Nodes)
    BY Zenon, <1>2, DefinitionAssumption DEF Nodes
  <2>2. ~ (next > Len(Definition[x.version]))
    BY Zenon, <1>1, <1>5 DEF Terminates
  <2> QED BY <1>6, <2>1, <2>2
<1>9. PICK z : z = Fresh(x.version, purpose, mode)
    BY Zenon
<1>10. y = [z EXCEPT !.source = e, !.base = k, !.at = next, !.path = p, !.data = q]
    BY Zenon, <1>1, <1>5, <1>9 DEF FromCheckpoint
<1>11. NoDecision \in Decisions
    BY DEF NoDecision, Decisions, NoDocument
<1>12. z = [status |-> "queued", purpose |-> purpose, mode |-> mode, version |-> x.version,
            source |-> None, base |-> 0, at |-> 1, path |-> <<>>, data |-> <<>>,
            answer |-> "none", decision |-> NoDecision, allowed |-> {}, finalized |-> FALSE]
    BY <1>9 DEF Fresh, NoExecution
<1>13. /\ y \in Rows /\ y.status = "queued" /\ y.purpose = purpose /\ y.mode = mode
       /\ y.version = x.version /\ y.at = next /\ y.path = p /\ y.data = q
       /\ y.decision = NoDecision /\ ~ y.finalized
    BY <1>2, <1>4, <1>6, <1>7, <1>10, <1>11, <1>12 DEF Rows, Live
<1>14. RowFits(c, y)
    BY <1>1, <1>2, <1>6, <1>7, <1>8, <1>13 DEF RowFits, Live, DecisionFits
<1> QED BY Zenon, <1>1, <1>13, <1>14 DEF Good

-----------------------------------------------------------------------------
\* Steps: executions that go on, end and start.

RunTypes ==
    /\ exec \in [Execution -> Rows]
    /\ ending \in [Execution -> Endings \cup {None}]
    /\ replay \in [Copy -> {"none", "running", "matched", "diverged", "cancelled", "failed"}]
    /\ evaluation \in [Evaluation -> EvaluationRows]
    /\ results \in [Evaluation -> [Scenario -> ResultRows \cup {None}]]

RunsInv == RunTypes /\ RowsFit /\ EndingsFit /\ EvaluationsFit /\ ReplaysFit

\* Executions are of three kinds.
LEMMA Kinds ==
    /\ Root \subseteq Execution /\ Copy \subseteq Execution
    /\ Evaluation \X Scenario \subseteq Execution
    /\ \A e \in Root \cup Copy : e \notin Evaluation \X Scenario
    /\ \A e \in Root : e \notin Copy
    /\ \A ev \in Evaluation, s \in Scenario : <<ev, s>> \in Evaluation \X Scenario
BY Zenon, IdentityAssumption DEF Execution

\* A started execution has a good row.
LEMMA StartedIsGood ==
    ASSUME RunTypes, RowsFit, NEW e \in Execution, exec[e].status # "none"
    PROVE  Good(e, exec[e])
<1>1. exec[e] # NoExecution
    BY Zenon, InitialRow
<1>2. exec[e] \in Rows
    BY Zenon DEF RunTypes
<1> QED BY Zenon, <1>1, <1>2 DEF RowsFit, Good

\* What an evaluation needs to know of a step that leaves it alone: completed ones,
\* one of which may be its baseline, are left alone as well.
LEMMA OtherEvaluation ==
    ASSUME NEW w \in Evaluation, EvaluationFits(w),
           evaluation'[w] = evaluation[w], results'[w] = results[w],
           \A b \in Evaluation : evaluation[b].status = "completed" => evaluation'[b] = evaluation[b],
           \A s \in Scenario : /\ Unfinished(<<w, s>>)' <=> Unfinished(<<w, s>>)
                               /\ exec[<<w, s>>].status = "none" => exec'[<<w, s>>].status = "none"
    PROVE  EvaluationFits(w)'
<1>1. evaluation[w].status # "none" /\ BaselineOf[w] # None =>
          evaluation'[BaselineOf[w]] = evaluation[BaselineOf[w]]
    BY Zenon, DatasetAssumption DEF EvaluationFits
<1>2. Recorded(w)' = Recorded(w) /\ Mean(results'[w]) = Mean(results[w])
    BY Zenon DEF Recorded
<1>3. "completed" # "none"
    OBVIOUS
<1>4. evaluation'[w].status = "none" => \A s \in Scenario :
          results'[w][s] = None /\ exec'[<<w, s>>].status = "none"
  <2>1. evaluation[w].status = "none" => \A s \in Scenario :
            results[w][s] = None /\ exec[<<w, s>>].status = "none"
    BY Zenon DEF EvaluationFits
  <2> QED BY Zenon, <2>1
<1>5. evaluation'[w].status # "none" =>
          /\ \A s \in Scenario : results'[w][s] = None <=> Unfinished(<<w, s>>)'
          /\ BaselineOf[w] # None => evaluation'[BaselineOf[w]].status = "completed"
  <2>1. evaluation[w].status # "none" =>
            /\ \A s \in Scenario : results[w][s] = None <=> Unfinished(<<w, s>>)
            /\ BaselineOf[w] # None => evaluation[BaselineOf[w]].status = "completed"
    BY Zenon DEF EvaluationFits
  <2> QED BY Zenon, <1>1, <2>1
<1>6. /\ evaluation'[w].status = "completed" <=> Recorded(w)' = Scenario
      /\ evaluation'[w].status = "completed" => evaluation'[w].score = Mean(results'[w])
      /\ evaluation'[w].gate = "passed" =>
             /\ evaluation'[w].status = "completed" /\ evaluation'[w].score >= Minimum
             /\ BaselineOf[w] # None =>
                    evaluation'[w].score - evaluation'[BaselineOf[w]].score >= - MaxRegression
    BY Zenon, <1>1, <1>2, <1>3 DEF EvaluationFits
<1> QED BY Zenon, <1>4, <1>5, <1>6 DEF EvaluationFits

\* A step that leaves all of them alone.
LEMMA EvaluationsFrame ==
    ASSUME EvaluationsFit, UNCHANGED <<evaluation, results>>,
           \A e \in Evaluation \X Scenario :
               /\ Unfinished(e)' <=> Unfinished(e)
               /\ exec[e].status = "none" => exec'[e].status = "none"
    PROVE  EvaluationsFit'
<1>1. evaluation' = evaluation /\ results' = results
    BY Zenon
<1>2. ASSUME NEW w \in Evaluation PROVE EvaluationFits(w)'
  <2>1. \A s \in Scenario : /\ Unfinished(<<w, s>>)' <=> Unfinished(<<w, s>>)
                            /\ exec[<<w, s>>].status = "none" => exec'[<<w, s>>].status = "none"
    BY Zenon, Kinds
  <2>2. /\ EvaluationFits(w) /\ evaluation'[w] = evaluation[w] /\ results'[w] = results[w]
        /\ \A b \in Evaluation : evaluation[b].status = "completed" => evaluation'[b] = evaluation[b]
    BY Zenon, <1>1 DEF EvaluationsFit
  <2> QED BY Zenon, <2>1, <2>2, OtherEvaluation
<1> QED BY Zenon, <1>2 DEF EvaluationsFit

\* And replays.
LEMMA ReplaysFrame ==
    ASSUME ReplaysFit, replay' = replay,
           \A c \in Copy : /\ exec[c].status # "none" => exec'[c].status # "none"
                           /\ Unfinished(c) => Unfinished(c)'
    PROVE  ReplaysFit'
BY Zenon DEF ReplaysFit

\* A step that changes the row of one execution.
LEMMA RowsFrame ==
    ASSUME RunTypes, RowsFit, NEW e \in Execution, NEW x, Good(e, x), exec' = [exec EXCEPT ![e] = x]
    PROVE  /\ exec' \in [Execution -> Rows] /\ RowsFit'
           /\ exec'[e] = x /\ x.status # "none"
           /\ \A f \in Execution : f # e => exec'[f] = exec[f]
<1>1. /\ exec' \in [Execution -> Rows] /\ exec'[e] = x
      /\ \A f \in Execution : f # e => exec'[f] = exec[f]
    BY Zenon DEF RunTypes, Good
<1>2. RowsFit'
    BY Zenon, <1>1 DEF RowsFit, Good
<1> QED BY Zenon, <1>1, <1>2 DEF Good, RowFits

\* The execution goes on, or is cancelled and waits for that to be finalized.
Goes(e, x) ==
    /\ Good(e, x) /\ SameRun(exec[e], x)
    /\ exec[e].status \in Live /\ ending[e] = None
    /\ x.status \in Live \/ (x.status = "cancelled" /\ ~ x.finalized)
    /\ exec' = [exec EXCEPT ![e] = x]
    /\ UNCHANGED <<ending, replay, evaluation, results>>

\* A transaction that leaves its execution unfinished, or cancels it, keeps everything
\* consistent: no evaluation or replay hears of it.
LEMMA GoesFits ==
    ASSUME RunsInv, NEW e \in Execution, NEW x, Goes(e, x)
    PROVE  RunsInv'
<1>1. /\ Good(e, x) /\ exec[e].status \in Live /\ ending[e] = None
      /\ x.status \in Live \/ (x.status = "cancelled" /\ ~ x.finalized)
      /\ exec' = [exec EXCEPT ![e] = x]
      /\ ending' = ending /\ replay' = replay /\ evaluation' = evaluation /\ results' = results
      /\ RunTypes /\ RowsFit /\ EndingsFit /\ EvaluationsFit /\ ReplaysFit
    BY Zenon DEF Goes, RunsInv
<1>2. /\ exec' \in [Execution -> Rows] /\ RowsFit'
      /\ exec'[e] = x /\ x.status # "none"
      /\ \A f \in Execution : f # e => exec'[f] = exec[f]
    BY <1>1, RowsFrame
<1>3. exec[e].status # "none"
    BY <1>1 DEF Live
<1>4. Unfinished(e) /\ Unfinished(e)'
    BY Zenon, <1>1, <1>2 DEF Unfinished
<1>5. \A f \in Execution : f # e => (Unfinished(f)' <=> Unfinished(f))
    BY Zenon, <1>1, <1>2 DEF Unfinished
<1>6. RunTypes'
    BY Zenon, <1>1, <1>2 DEF RunTypes
<1>7. EndingsFit'
    BY Zenon, <1>1, <1>2 DEF EndingsFit
<1>8. EvaluationsFit'
  <2>1. \A f \in Evaluation \X Scenario :
            /\ Unfinished(f)' <=> Unfinished(f)
            /\ exec[f].status = "none" => exec'[f].status = "none"
    BY Zenon, <1>2, <1>3, <1>4, <1>5, Kinds
  <2> QED BY Zenon, <1>1, <2>1, EvaluationsFrame
<1>9. ReplaysFit'
  <2>1. \A c \in Copy : /\ exec[c].status # "none" => exec'[c].status # "none"
                        /\ Unfinished(c) => Unfinished(c)'
    BY Zenon, <1>2, <1>4, <1>5, Kinds
  <2> QED BY Zenon, <1>1, <2>1, ReplaysFrame
<1> QED BY Zenon, <1>2, <1>6, <1>7, <1>8, <1>9 DEF RunsInv

\* The execution ends, at once or when the evaluation has been locked.
Ends(e, x) ==
    /\ Good(e, x) /\ SameRun(exec[e], x)
    /\ Unfinished(e) /\ exec[e].status # "none" /\ ending[e] = None
    /\ x.status \in Terminal /\ (x.status = "cancelled" => x.finalized)
    /\ exec[e].status \in Terminal => x.status = exec[e].status
    /\ End(e, x)
    /\ UNCHANGED <<evaluation, results>>

\* The end of an execution of an evaluation, until the evaluation has been locked: the
\* uncommitted row is all that is new.
LEMMA EndsLater ==
    ASSUME RunsInv, NEW e \in Execution, NEW x, Ends(e, x), exec[e].purpose = "evaluation"
    PROVE  RunsInv'
<1>1. /\ Good(e, x) /\ Unfinished(e) /\ exec[e].status # "none" /\ ending[e] = None
      /\ x.status \in Terminal /\ (x.status = "cancelled" => x.finalized)
      /\ exec[e].status \in Terminal => x.status = exec[e].status
      /\ evaluation' = evaluation /\ results' = results
      /\ RunTypes /\ RowsFit /\ EndingsFit /\ EvaluationsFit /\ ReplaysFit
    BY Zenon DEF Ends, RunsInv
<1>2. PICK last : /\ last = [row |-> x, seen |-> Recorded(e[1])]
                  /\ ending' = [ending EXCEPT ![e] = last]
                  /\ exec' = exec /\ replay' = replay
    BY Zenon DEF Ends, End
<1>3. last \in Endings /\ last.row = x /\ last # None
  <2>1. Recorded(e[1]) \in SUBSET Scenario
    BY Zenon DEF Recorded
  <2>2. last \in Endings /\ last.row = x
    BY <1>1, <1>2, <2>1 DEF Endings, Good
  <2> QED BY Zenon, <2>2, IdentityAssumption
<1>4. /\ ending' \in [Execution -> Endings \cup {None}] /\ ending'[e] = last
      /\ \A f \in Execution : f # e => ending'[f] = ending[f]
    BY Zenon, <1>1, <1>2, <1>3 DEF RunTypes
<1>5. \A f \in Execution : Unfinished(f)' <=> Unfinished(f)
    BY Zenon, <1>1, <1>2, <1>3, <1>4 DEF Unfinished
<1>6. e \in Evaluation \X Scenario
    BY Zenon, <1>1, StartedIsGood DEF Good, RowFits
<1>7. RunTypes'
    BY Zenon, <1>1, <1>2, <1>4 DEF RunTypes
<1>8. RowsFit'
    BY Zenon, <1>1, <1>2 DEF RowsFit
<1>9. EndingsFit'
  <2>1. ASSUME NEW f \in Execution, ending'[f] # None
        PROVE  LET y == ending'[f].row
               IN  /\ f \in Evaluation \X Scenario /\ exec'[f].status # "none"
                   /\ RowFits(f, y) /\ y.status \in Terminal
                   /\ y.status = "cancelled" => y.finalized
                   /\ exec'[f].status \in Terminal => y.status = exec'[f].status
    <3>1. CASE f = e
      BY Zenon, <1>1, <1>2, <1>3, <1>4, <1>6, <3>1 DEF Good
    <3>2. CASE f # e
      BY Zenon, <1>1, <1>2, <1>4, <2>1, <3>2 DEF EndingsFit
    <3> QED BY Zenon, <3>1, <3>2
  <2> QED BY Zenon, <2>1 DEF EndingsFit
<1>10. EvaluationsFit'
    BY Zenon, <1>1, <1>2, <1>5, EvaluationsFrame, Kinds
<1>11. ReplaysFit'
    BY Zenon, <1>1, <1>2, <1>5, ReplaysFrame, Kinds
<1> QED BY Zenon, <1>7, <1>8, <1>9, <1>10, <1>11 DEF RunsInv

\* The end of any other execution: a replay among them is settled with it
\* (settle_workflow_replay).
LEMMA EndsNow ==
    ASSUME RunsInv, NEW e \in Execution, NEW x, Ends(e, x), exec[e].purpose # "evaluation"
    PROVE  RunsInv'
<1>1. /\ Good(e, x) /\ exec[e].status # "none" /\ ending[e] = None
      /\ evaluation' = evaluation /\ results' = results
      /\ RunTypes /\ RowsFit /\ EndingsFit /\ EvaluationsFit /\ ReplaysFit
    BY Zenon DEF Ends, RunsInv
<1>2. /\ exec' = [exec EXCEPT ![e] = x] /\ ending' = ending
      /\ replay' = IF Settles(e) THEN [replay EXCEPT ![e] = ReplayStatus(x)] ELSE replay
    BY Zenon DEF Ends, End
<1>3. /\ exec' \in [Execution -> Rows] /\ RowsFit'
      /\ exec'[e] = x /\ x.status # "none"
      /\ \A f \in Execution : f # e => exec'[f] = exec[f]
    BY <1>1, <1>2, RowsFrame
<1>4. e \notin Evaluation \X Scenario
    BY Zenon, <1>1, StartedIsGood DEF Good, RowFits
<1>5. \A f \in Execution : f # e => (Unfinished(f)' <=> Unfinished(f))
    BY Zenon, <1>2, <1>3 DEF Unfinished
<1>6. ReplayStatus(x) \in {"matched", "diverged", "cancelled", "failed"}
    BY DEF ReplayStatus
<1>7. /\ replay' \in [Copy -> {"none", "running", "matched", "diverged", "cancelled", "failed"}]
      /\ \A c \in Copy : c # e => replay'[c] = replay[c]
      /\ e \in Copy => replay'[e] # "running"
    BY <1>1, <1>2, <1>6 DEF RunTypes, Settles
<1>8. RunTypes'
    BY Zenon, <1>1, <1>2, <1>3, <1>7 DEF RunTypes
<1>9. EndingsFit'
    BY Zenon, <1>1, <1>2, <1>3 DEF EndingsFit
<1>10. EvaluationsFit'
  <2>1. \A f \in Evaluation \X Scenario :
            /\ Unfinished(f)' <=> Unfinished(f)
            /\ exec[f].status = "none" => exec'[f].status = "none"
    BY Zenon, <1>3, <1>4, <1>5, Kinds
  <2> QED BY Zenon, <1>1, <2>1, EvaluationsFrame
<1>11. ReplaysFit'
    BY Zenon, <1>1, <1>3, <1>5, <1>7, Kinds DEF ReplaysFit
<1> QED BY Zenon, <1>3, <1>8, <1>9, <1>10, <1>11 DEF RunsInv

\* The end of an execution keeps everything consistent.
LEMMA EndsFits ==
    ASSUME RunsInv, NEW e \in Execution, NEW x, Ends(e, x)
    PROVE  RunsInv'
BY Zenon, EndsLater, EndsNow

\* A run, a fork or a replay starts.
Starts(e, x) ==
    /\ e \in Root \cup Copy
    /\ Good(e, x) /\ x.status = "queued"
    /\ exec[e].status = "none"
    /\ exec' = [exec EXCEPT ![e] = x]
    /\ replay' = replay \/ (e \in Copy /\ replay' = [replay EXCEPT ![e] = "running"])
    /\ UNCHANGED <<ending, evaluation, results>>

\* The start of a run, a fork or a replay keeps everything consistent
\* (_create_execution_records).
LEMMA StartsFits ==
    ASSUME RunsInv, NEW e \in Execution, NEW x, Starts(e, x)
    PROVE  RunsInv'
<1>1. /\ Good(e, x) /\ exec[e].status = "none" /\ exec' = [exec EXCEPT ![e] = x]
      /\ ending' = ending /\ evaluation' = evaluation /\ results' = results
      /\ RunTypes /\ RowsFit /\ EndingsFit /\ EvaluationsFit /\ ReplaysFit
    BY Zenon DEF Starts, RunsInv
<1>2. /\ exec' \in [Execution -> Rows] /\ RowsFit'
      /\ exec'[e] = x /\ x.status # "none"
      /\ \A f \in Execution : f # e => exec'[f] = exec[f]
    BY <1>1, RowsFrame
<1>3. e \notin Evaluation \X Scenario
    BY Zenon, Kinds DEF Starts
<1>4. \A f \in Execution : f # e => (Unfinished(f)' <=> Unfinished(f))
    BY Zenon, <1>1, <1>2 DEF Unfinished
<1>5. Unfinished(e)'
    BY Zenon, <1>2 DEF Starts, Unfinished, Live
<1>6. /\ replay' \in [Copy -> {"none", "running", "matched", "diverged", "cancelled", "failed"}]
      /\ \A c \in Copy : c # e => replay'[c] = replay[c]
    BY <1>1 DEF RunTypes, Starts
<1>7. RunTypes'
    BY Zenon, <1>1, <1>2, <1>6 DEF RunTypes
<1>8. EndingsFit'
    BY Zenon, <1>1, <1>2 DEF EndingsFit
<1>9. EvaluationsFit'
  <2>1. \A f \in Evaluation \X Scenario :
            /\ Unfinished(f)' <=> Unfinished(f)
            /\ exec[f].status = "none" => exec'[f].status = "none"
    BY Zenon, <1>2, <1>3, <1>4, Kinds
  <2> QED BY Zenon, <1>1, <2>1, EvaluationsFrame
<1>10. ReplaysFit'
    BY Zenon, <1>1, <1>2, <1>4, <1>5, <1>6, Kinds DEF ReplaysFit
<1> QED BY Zenon, <1>2, <1>7, <1>8, <1>9, <1>10 DEF RunsInv

\* A step that touches no execution, evaluation or replay.
LEMMA RunsFrame ==
    ASSUME RunsInv, UNCHANGED <<exec, ending, replay, evaluation, results>>
    PROVE  RunsInv'
<1>1. /\ exec' = exec /\ ending' = ending /\ replay' = replay
      /\ evaluation' = evaluation /\ results' = results
      /\ RunTypes /\ RowsFit /\ EndingsFit /\ EvaluationsFit /\ ReplaysFit
    BY Zenon DEF RunsInv
<1>2. \A e : Unfinished(e)' <=> Unfinished(e)
    BY Zenon, <1>1 DEF Unfinished
<1>3. RunTypes' /\ RowsFit' /\ EndingsFit'
    BY Zenon, <1>1 DEF RunTypes, RowsFit, EndingsFit
<1>4. EvaluationsFit'
    BY Zenon, <1>1, <1>2, EvaluationsFrame
<1>5. ReplaysFit'
    BY Zenon, <1>1, <1>2, ReplaysFrame
<1> QED BY Zenon, <1>3, <1>4, <1>5 DEF RunsInv

\* An evaluation starts, with one execution for every scenario.
LEMMA StartEvaluationFits ==
    ASSUME RunsInv, NEW ev \in Evaluation, NEW v \in Sound, NEW named \in BOOLEAN,
           StartEvaluation(ev, v, named)
    PROVE  RunsInv'
<1>1. PICK mode, row : /\ mode = ModeOf(named) /\ mode \in {"live", "simulation"}
                       /\ row = [NoEvaluation EXCEPT !.status = "running", !.version = v, !.mode = mode]
    BY DEF ModeOf
<1>2. PICK x : x = Fresh(v, "evaluation", mode)
    BY Zenon
<1>3. /\ evaluation' = [evaluation EXCEPT ![ev] = row]
      /\ evaluation[ev].status = "none" /\ BaselineFits(BaselineOf[ev], named)
      /\ exec' = [e \in Execution |-> IF e \in {ev} \X Scenario THEN x ELSE exec[e]]
      /\ ending' = ending /\ replay' = replay /\ results' = results
      /\ RunTypes /\ RowsFit /\ EndingsFit /\ EvaluationsFit /\ ReplaysFit
    BY Zenon, <1>1, <1>2 DEF StartEvaluation, RunsInv
<1>4. Effectful(v) => mode = "simulation"
    BY Zenon, <1>1 DEF StartEvaluation, ProfileFits, ModeOf
<1>5. \A e \in {ev} \X Scenario : e \in Evaluation \X Scenario /\ e \in Execution
    BY Zenon, Kinds
<1>6. ASSUME NEW e \in {ev} \X Scenario PROVE Good(e, x) /\ x.status = "queued"
  <2>1. "evaluation" \in {"run", "evaluation"}
    OBVIOUS
  <2> QED BY <1>1, <1>2, <1>4, <1>5, <1>6, <2>1, FreshRow
<1>7. \A e \in Execution :
         exec'[e] = IF e \in {ev} \X Scenario THEN x ELSE exec[e]
    BY Zenon, <1>3
<1>8. /\ row \in EvaluationRows /\ row.status = "running" /\ row.gate = "pending"
  <2>1. v \in Version
    BY Zenon, SoundVersions
  <2>2. row = [status |-> "running", version |-> v, mode |-> mode, score |-> 0,
               gate |-> "pending", regression |-> "none"]
    BY <1>1 DEF NoEvaluation
  <2>3. 0 \in Points
    BY DEF Points
  <2>4. mode \in {"live", "simulation"}
    BY Zenon, <1>1
  <2> QED BY <2>1, <2>2, <2>3, <2>4 DEF EvaluationRows
<1>9. /\ evaluation' \in [Evaluation -> EvaluationRows] /\ evaluation'[ev] = row
      /\ \A b \in Evaluation : b # ev => evaluation'[b] = evaluation[b]
    BY Zenon, <1>3, <1>8 DEF RunTypes
<1>10. RunTypes' /\ RowsFit'
  <2>1. exec' \in [Execution -> Rows]
    BY Zenon, <1>3, <1>6 DEF RunTypes, Good
  <2> QED BY Zenon, <1>3, <1>6, <1>7, <1>9, <2>1 DEF RunTypes, RowsFit, Good
<1>11. \A s \in Scenario : /\ results[ev][s] = None /\ exec[<<ev, s>>].status = "none"
                           /\ <<ev, s>> \in {ev} \X Scenario
    BY Zenon, <1>3 DEF EvaluationsFit, EvaluationFits
<1>12. \A e \in {ev} \X Scenario : exec[e].status = "none"
  <2>1. SUFFICES ASSUME NEW e \in {ev} \X Scenario PROVE exec[e].status = "none"
    BY Zenon
  <2>2. PICK s \in Scenario : e = <<ev, s>>
    OBVIOUS
  <2> QED BY Zenon, <1>11, <2>2
<1>13. EndingsFit'
    BY Zenon, <1>3, <1>7, <1>12 DEF EndingsFit
<1>14. \A e \in Execution : e \notin {ev} \X Scenario => (Unfinished(e)' <=> Unfinished(e))
    BY Zenon, <1>3, <1>7 DEF Unfinished
<1>15. \A e \in {ev} \X Scenario : Unfinished(e)'
    BY Zenon, <1>5, <1>6, <1>7 DEF Unfinished, Live
<1>16. ReplaysFit'
  <2>1. \A c \in Copy : c \notin {ev} \X Scenario
    BY Zenon, <1>5, Kinds
  <2>2. \A c \in Copy : /\ exec[c].status # "none" => exec'[c].status # "none"
                        /\ Unfinished(c) => Unfinished(c)'
    BY Zenon, <1>7, <1>14, <2>1, Kinds
  <2> QED BY Zenon, <1>3, <2>2, ReplaysFrame
<1>17. ASSUME NEW b \in Evaluation, evaluation[b].status = "completed"
       PROVE  evaluation'[b] = evaluation[b]
  <2>1. b # ev
    BY <1>3, <1>17
  <2> QED BY Zenon, <1>9, <1>17, <2>1
<1>18. ASSUME NEW w \in Evaluation PROVE EvaluationFits(w)'
  <2>1. CASE w = ev
    <3>1. evaluation'[w].status = "running" /\ evaluation'[w].gate = "pending"
      BY Zenon, <1>8, <1>9, <2>1
    <3>2. \A s \in Scenario : results'[w][s] = None /\ Unfinished(<<w, s>>)'
      BY Zenon, <1>3, <1>11, <1>15, <2>1
    <3>3. BaselineOf[w] # None => evaluation'[BaselineOf[w]].status = "completed"
      BY Zenon, <1>3, <1>17, <2>1, DatasetAssumption DEF BaselineFits
    <3>4. Recorded(w)' # Scenario
      BY Zenon, <3>2, DatasetAssumption DEF Recorded
    <3>5. "running" # "none" /\ "running" # "completed" /\ "pending" # "passed"
      OBVIOUS
    <3> QED BY Zenon, <3>1, <3>2, <3>3, <3>4, <3>5 DEF EvaluationFits
  <2>2. CASE w # ev
    <3>1. evaluation'[w] = evaluation[w] /\ results'[w] = results[w]
      BY Zenon, <1>3, <1>9, <2>2
    <3>2. EvaluationFits(w)
      BY Zenon, <1>3 DEF EvaluationsFit
    <3>3. \A b \in Evaluation : evaluation[b].status = "completed" => evaluation'[b] = evaluation[b]
      BY Zenon, <1>17
    <3>4. \A s \in Scenario : <<w, s>> \notin {ev} \X Scenario /\ <<w, s>> \in Execution
      BY <2>2, Kinds
    <3>5. \A s \in Scenario : /\ Unfinished(<<w, s>>)' <=> Unfinished(<<w, s>>)
                              /\ exec[<<w, s>>].status = "none" => exec'[<<w, s>>].status = "none"
      BY Zenon, <1>7, <1>14, <3>4
    <3> QED BY Zenon, <3>1, <3>2, <3>3, <3>5, OtherEvaluation
  <2> QED BY Zenon, <2>1, <2>2
<1>19. EvaluationsFit'
    BY Zenon, <1>18 DEF EvaluationsFit
<1> QED BY Zenon, <1>10, <1>13, <1>16, <1>19 DEF RunsInv

-----------------------------------------------------------------------------
\* Scores: sums over the scenarios, and their means.

\* Scores are in thousandths.
LEMMA PointsAre ==
    /\ \A n \in Points : n \in Int /\ 0 <= n /\ n <= 1000
    /\ \A n \in Int : 0 <= n /\ n <= 1000 => n \in Points
BY DEF Points

\* Whole division, as settle_evaluation_execution takes means with it.
LEMMA Quotient ==
    ASSUME NEW n \in Nat, n # 0, NEW t \in Int, 0 <= t
    PROVE  t \div n \in Int /\ n * (t \div n) <= t /\ t < n * (t \div n) + n
OBVIOUS

\* A mean of scores is a score.
LEMMA QuotientBounds ==
    ASSUME NEW n \in Nat, n # 0, NEW q \in Int, NEW t \in Int, n * q <= t, t < n * q + n,
           0 <= t, t <= 1000 * n
    PROVE  0 <= q /\ q <= 1000
OBVIOUS

\* A mean that reaches the minimum says that the total reaches it for every scenario.
LEMMA ReachesMinimum ==
    ASSUME NEW n \in Nat, n # 0, NEW q \in Int, NEW t \in Int, NEW m \in Int, n * q <= t, q >= m
    PROVE  t >= n * m
OBVIOUS

\* Means that differ by little say that totals do, up to the rounding.
LEMMA RegressesLittle ==
    ASSUME NEW n \in Nat, n # 0, NEW q \in Int, NEW t \in Int, NEW p \in Int, NEW u \in Int,
           NEW r \in Int, n * q <= t, u < n * p + n, q - p >= - r
    PROVE  t > u - n * (r + 1)
OBVIOUS

\* The share of five graders, in thousandths, is a score.
LEMMA FifthsArePoints == \A k \in 0..5 : (1000 * k) \div 5 \in Points
BY PointsAre

INSTANCE FiniteSetTheorems
INSTANCE WellFoundedInduction

\* MapThenSumSet takes the members of a set one by one.
Pick(t) == CHOOSE x \in t : TRUE
IsSums(rows, s, sums) ==
    sums = [t \in SUBSET s |-> IF t = {} THEN 0 ELSE rows[Pick(t)].score + sums[t \ {Pick(t)}]]

\* Among sets of members of a finite set there is a smallest one.
LEMMA SmallestSet ==
    ASSUME NEW S, IsFiniteSet(S), NEW T, T \subseteq SUBSET S, T # {}
    PROVE  \E m \in T : \A t \in T : t \subseteq m => t = m
<1>1. IsWellFoundedOn(StrictSubsetOrdering(S), SUBSET S)
    BY FS_StrictSubsetOrderingWellFounded, FS_FiniteSubsetsOfFinite
<1>2. PICK m \in T : \A t \in T : <<t, m>> \notin StrictSubsetOrdering(S)
    BY <1>1, WFMin
<1>3. ASSUME NEW t \in T, t \subseteq m PROVE t = m
  <2>1. <<t, m>> \in (SUBSET S) \X (SUBSET S)
    BY Zenon
  <2>2. <<t, m>>[1] = t /\ <<t, m>>[2] = m
    OBVIOUS
  <2> QED BY <1>2, <1>3, <2>1, <2>2 DEF StrictSubsetOrdering
<1> QED BY Zenon, <1>3

\* Every member that is picked leaves a smaller set.
LEMMA Picked == ASSUME NEW t, t # {} PROVE Pick(t) \in t /\ t \ {Pick(t)} # t
BY Zenon DEF Pick

\* Two tables of sums agree where both are defined.
LEMMA SumsAgree ==
    ASSUME NEW S, IsFiniteSet(S), NEW rows, NEW a \in SUBSET S, NEW b \in SUBSET S,
           NEW g, IsSums(rows, a, g), NEW h, IsSums(rows, b, h),
           NEW t, t \subseteq a, t \subseteq b
    PROVE  g[t] = h[t]
<1> DEFINE Bad == {r \in SUBSET S : r \subseteq a /\ r \subseteq b /\ g[r] # h[r]}
<1>1. SUFFICES ASSUME Bad # {} PROVE FALSE
    BY Zenon
<1>2. PICK m \in Bad : \A r \in Bad : r \subseteq m => r = m
  <2>1. Bad \subseteq SUBSET S
    BY Zenon
  <2> HIDE DEF Bad
  <2> QED BY <1>1, <2>1, SmallestSet
<1>3. m # {}
    BY Zenon, <1>2 DEF IsSums
<1>4. Pick(m) \in m /\ m \ {Pick(m)} # m
    BY Zenon, <1>3, Picked
<1>5. g[m \ {Pick(m)}] = h[m \ {Pick(m)}]
    BY Zenon, <1>2, <1>4
<1>6. g[m] = rows[Pick(m)].score + g[m \ {Pick(m)}] /\ h[m] = rows[Pick(m)].score + h[m \ {Pick(m)}]
    BY Zenon, <1>2, <1>3 DEF IsSums
<1> QED BY Zenon, <1>2, <1>5, <1>6

\* There is a table of sums for every finite set.
LEMMA SumsExist ==
    ASSUME NEW S, IsFiniteSet(S), NEW rows
    PROVE  \E sums : IsSums(rows, S, sums)
<1> DEFINE Bad == {r \in SUBSET S : ~ \E sums : IsSums(rows, r, sums)}
<1>1. SUFFICES ASSUME Bad # {} PROVE FALSE
    BY Zenon
<1>2. PICK m \in Bad : \A r \in Bad : r \subseteq m => r = m
  <2>1. Bad \subseteq SUBSET S
    BY Zenon
  <2> HIDE DEF Bad
  <2> QED BY <1>1, <2>1, SmallestSet
<1> DEFINE of(r) == CHOOSE sums : IsSums(rows, r, sums)
           value(r) == IF r = {} THEN 0 ELSE rows[Pick(r)].score + of(r \ {Pick(r)})[r \ {Pick(r)}]
           whole == [r \in SUBSET m |-> value(r)]
<1>3. \A r \in SUBSET m : r # m => IsSums(rows, r, of(r))
    BY Zenon, <1>2
<1>4. ASSUME NEW d \in SUBSET m, d # m PROVE whole[d] = of(d)[d]
  <2>1. d \in SUBSET S
    BY Zenon, <1>2
  <2>2. IsSums(rows, d, of(d))
    BY Zenon, <1>3, <1>4
  <2>3. whole[d] = value(d)
    BY Zenon
  <2>4. CASE d = {}
    BY Zenon, <2>2, <2>3, <2>4 DEF IsSums
  <2>5. CASE d # {}
    <3>1. PICK r : r = d \ {Pick(d)}
      BY Zenon
    <3>2. of(d)[d] = rows[Pick(d)].score + of(d)[r] /\ value(d) = rows[Pick(d)].score + of(r)[r]
      BY Zenon, <2>2, <2>5, <3>1 DEF IsSums
    <3>3. r \in SUBSET m /\ r # m /\ r \in SUBSET S /\ r \subseteq d
      BY Zenon, <1>4, <2>1, <2>5, <3>1, Picked
    <3>4. IsSums(rows, r, of(r))
      BY Zenon, <1>3, <3>3
    <3>5. of(r)[r] = of(d)[r]
      <4>1. PICK g, h : g = of(d) /\ h = of(r)
        BY Zenon
      <4>2. IsSums(rows, d, g) /\ IsSums(rows, r, h) /\ r \subseteq r
        BY Zenon, <2>2, <3>4, <4>1
      <4>3. g[r] = h[r]
        BY <2>1, <3>3, <4>2, SumsAgree
      <4> QED BY Zenon, <4>1, <4>3
    <3> HIDE DEF of, value, whole
    <3> QED BY Zenon, <2>3, <3>2, <3>5
  <2> QED BY Zenon, <2>4, <2>5
<1>5. IsSums(rows, m, whole)
  <2>1. \A r \in SUBSET m : value(r) = IF r = {} THEN 0 ELSE rows[Pick(r)].score + whole[r \ {Pick(r)}]
    <3>1. \A r \in SUBSET m : r # {} => r \ {Pick(r)} \in SUBSET m /\ r \ {Pick(r)} # m
      BY Zenon, Picked
    <3> HIDE DEF of, whole
    <3> QED BY Zenon, <1>4, <3>1
  <2>2. whole = [r \in SUBSET m |-> IF r = {} THEN 0 ELSE rows[Pick(r)].score + whole[r \ {Pick(r)}]]
    <3> HIDE DEF value
    <3> QED BY Zenon, <2>1
  <2> HIDE DEF whole
  <2> QED BY Zenon, <2>2 DEF IsSums
<1> QED BY Zenon, <1>2, <1>5

\* Total is the sum of the table for all scenarios.
LEMMA TotalIs ==
    ASSUME NEW rows
    PROVE  \E sums : IsSums(rows, Scenario, sums) /\ Total(rows) = sums[Scenario]
<1> DEFINE it == CHOOSE g : IsSums(rows, Scenario, g)
<1>1. Total(rows) = it[Scenario]
    BY DEF Total, MapThenSumSet, MapThenFoldSet, IsSums, Pick
<1>2. IsSums(rows, Scenario, it)
    BY Zenon, SumsExist, DatasetAssumption
<1> QED BY Zenon, <1>1, <1>2

\* The sum of the scores of all scenarios is at most 1000 for each (create_evaluation).
LEMMA TotalBounds ==
    ASSUME NEW rows, \A x \in Scenario : rows[x].score \in Points
    PROVE  Total(rows) \in 0..(1000 * Cardinality(Scenario))
<1>1. PICK sums : IsSums(rows, Scenario, sums) /\ Total(rows) = sums[Scenario]
    BY Zenon, TotalIs
<1>0. IsFiniteSet(Scenario)
    BY Zenon, DatasetAssumption
<1> DEFINE Fits(r) == sums[r] \in Int /\ 0 <= sums[r] /\ sums[r] <= 1000 * Cardinality(r)
<1>2. SUFFICES ASSUME ~ Fits(Scenario) PROVE FALSE
  <2>1. Cardinality(Scenario) \in Nat
    BY <1>0, FS_CardinalityType
  <2> QED BY <1>1, <2>1
<1>3. PICK m \in SUBSET Scenario : ~ Fits(m) /\ \A r \in SUBSET Scenario : ~ Fits(r) /\ r \subseteq m => r = m
  <2> HIDE DEF Fits
  <2> DEFINE Bad == {r \in SUBSET Scenario : ~ Fits(r)}
  <2>1. Bad \subseteq SUBSET Scenario /\ Bad # {}
    BY Zenon, <1>2
  <2>2. PICK m \in Bad : \A r \in Bad : r \subseteq m => r = m
    <3> HIDE DEF Bad
    <3> QED BY <1>0, <2>1, SmallestSet
  <2> QED BY Zenon, <2>2
<1>4. m # {}
  <2>1. sums[{}] = 0
    BY Zenon, <1>1 DEF IsSums
  <2>2. Fits({})
    BY <2>1, FS_EmptySet
  <2> HIDE DEF Fits
  <2> QED BY Zenon, <1>3, <2>2
<1>5. PICK rest : rest = m \ {Pick(m)}
    BY Zenon
<1>6. Pick(m) \in m /\ rest # m /\ rest \in SUBSET Scenario
  <2> HIDE DEF Fits
  <2>1. Pick(m) \in m
    BY Zenon, <1>4, Picked
  <2> QED BY <1>5, <2>1
<1>7. Fits(rest)
  <2> HIDE DEF Fits
  <2> QED BY Zenon, <1>3, <1>5, <1>6
<1>8. sums[m] = rows[Pick(m)].score + sums[rest]
    BY Zenon, <1>1, <1>4, <1>5 DEF IsSums
<1>9. Cardinality(rest) = Cardinality(m) - 1 /\ Cardinality(m) \in Nat
    BY <1>5, <1>6, <1>0, FS_Subset, FS_RemoveElement, FS_CardinalityType
<1>10. rows[Pick(m)].score \in Points
    BY Zenon, <1>6
<1>11. ~ Fits(m)
  <2> HIDE DEF Fits
  <2> QED BY Zenon, <1>3
<1>12. PICK a, b, k, n, x : /\ a = sums[m] /\ b = sums[rest] /\ x = rows[Pick(m)].score
                            /\ n = Cardinality(m) /\ k = Cardinality(rest)
    BY Zenon
<1>13. b \in Int /\ 0 <= b /\ b <= 1000 * k
    BY <1>7, <1>12
<1>14. a = x + b /\ k = n - 1 /\ n \in Nat /\ x \in Points
    BY Zenon, <1>8, <1>9, <1>10, <1>12
<1>15. a \in Int /\ 0 <= a /\ a <= 1000 * n
    BY ONLY <1>13, <1>14, PointsAre
<1> QED BY <1>11, <1>12, <1>15

\* The dataset has at least one scenario.
LEMMA ScenariosAreCounted == Cardinality(Scenario) \in Nat /\ Cardinality(Scenario) # 0
BY DatasetAssumption, FS_CardinalityType, FS_EmptySet

\* The mean of the scores is a score, and it is the total up to a remainder.
LEMMA MeanBounds ==
    ASSUME NEW rows, \A x \in Scenario : rows[x].score \in Points
    PROVE  LET n == Cardinality(Scenario)
               q == Mean(rows)
               t == Total(rows)
           IN  /\ q \in Points /\ q \in Int /\ t \in Int
               /\ n * q <= t /\ t < n * q + n
<1>1. PICK n, q, t : n = Cardinality(Scenario) /\ q = Mean(rows) /\ t = Total(rows)
    BY Zenon
<1>2. n \in Nat /\ n # 0
    BY Zenon, <1>1, ScenariosAreCounted
<1>3. t \in 0..(1000 * n)
    BY <1>1, TotalBounds
<1>4. t \in Int /\ 0 <= t /\ t <= 1000 * n
    BY <1>2, <1>3
<1>5. q = t \div n
    BY Zenon, <1>1 DEF Mean
<1>6. q \in Int /\ n * q <= t /\ t < n * q + n
    BY <1>2, <1>4, <1>5, Quotient
<1>7. 0 <= q /\ q <= 1000
    BY <1>2, <1>4, <1>6, QuotientBounds
<1>8. q \in Points
    BY <1>6, <1>7, PointsAre
<1>9. t \in Int
    BY <1>4
<1> QED BY Zenon, <1>1, <1>6, <1>8, <1>9

\* Of the five graders of _grade between none and five pass.
LEMMA FiveGraders ==
    ASSUME NEW passing, passing \subseteq 1..5
    PROVE  Cardinality(passing) \in 0..5
<1>1. \A a, b \in Int : IsFiniteSet(a..b) /\ Cardinality(a..b) = IF a > b THEN 0 ELSE b - a + 1
    BY FS_Interval
<1>2. PICK a, b : a = 1 /\ b = 5
    BY Zenon
<1>3. a \in Int /\ b \in Int /\ ~ (a > b) /\ b - a + 1 = 5
    BY <1>2
<1>4. IsFiniteSet(a..b) /\ Cardinality(a..b) = 5 /\ passing \subseteq a..b
    BY Zenon, <1>1, <1>2, <1>3
<1>5. IsFiniteSet(passing) /\ Cardinality(passing) <= 5
    BY <1>4, FS_Subset
<1>6. Cardinality(passing) \in Nat
    BY <1>5, FS_CardinalityType
<1> QED BY <1>5, <1>6

\* The score of a scenario is the share of the five graders that pass.
LEMMA ResultType ==
    ASSUME NEW s, NEW x, NEW ev
    PROVE  ResultOf(s, x, ev) \in ResultRows
<1>1. PICK grades : grades = Grades(s, x, ev)
    BY Zenon
<1>2. DOMAIN grades = 1..5 /\ Len(grades) = 5
    BY <1>1 DEF Grades
<1>3. PICK passing : passing = {i \in DOMAIN grades : grades[i]}
    BY Zenon
<1>4. passing \subseteq 1..5
    BY <1>2, <1>3
<1>5. Cardinality(passing) \in 0..5
    BY Zenon, <1>4, FiveGraders
<1>7. Score(grades) = (1000 * Cardinality(passing)) \div 5
    BY <1>2, <1>3 DEF Score
<1>8. Score(grades) \in Points
    BY <1>5, <1>7, FifthsArePoints
<1>9. PICK score, passed : /\ score = Score(Grades(s, x, ev))
                           /\ passed = \A i \in DOMAIN Grades(s, x, ev) : Grades(s, x, ev)[i]
    BY Zenon
<1>10. passed \in BOOLEAN
    BY Zenon, <1>9
<1>11. ResultOf(s, x, ev) = [score |-> score, passed |-> passed]
    BY Zenon, <1>9 DEF ResultOf
<1> QED BY <1>1, <1>8, <1>9, <1>10, <1>11 DEF ResultRows

-----------------------------------------------------------------------------
\* The settlement of an evaluation.

\* The verdict on complete results: a score, and a gate that passes only if the minimum
\* and the bound on the regression are kept (settle_evaluation_execution).
LEMMA VerdictFits ==
    ASSUME NEW ev, NEW rows, evaluation[ev] \in EvaluationRows, Mean(rows) \in Points
    PROVE  LET y == Verdict(ev, rows)
           IN  /\ y \in EvaluationRows /\ y.status = "completed" /\ y.score = Mean(rows)
               /\ y.gate = "passed" =>
                      /\ y.score >= Minimum
                      /\ BaselineOf[ev] # None =>
                             y.score - evaluation[BaselineOf[ev]].score >= - MaxRegression
<1>1. PICK x, y, score, regression, passes :
         /\ x = evaluation[ev] /\ y = Verdict(ev, rows) /\ score = Mean(rows)
         /\ regression = Regression(ev, score)
         /\ passes = (score >= Minimum /\ regression # "failed")
    BY Zenon
<1>2. PICK gate : gate = IF passes THEN "passed" ELSE "failed"
    BY Zenon
<1>3. y = [x EXCEPT !.status = "completed", !.score = score, !.regression = regression, !.gate = gate]
    BY Zenon, <1>1, <1>2 DEF Verdict
<1>4. regression \in {"none", "not_configured", "passed", "failed"}
    BY <1>1 DEF Regression
<1>5. gate \in {"pending", "passed", "failed"} /\ (gate = "passed" => passes)
    BY <1>2
<1>6. x \in EvaluationRows /\ score \in Points
    BY Zenon, <1>1
<1>7. y \in EvaluationRows /\ y.status = "completed" /\ y.score = score /\ y.gate = gate
    BY <1>3, <1>4, <1>5, <1>6 DEF EvaluationRows
<1>8. gate = "passed" => score >= Minimum /\ regression # "failed"
    BY Zenon, <1>1, <1>5
<1>9. regression # "failed" /\ BaselineOf[ev] # None =>
          score - evaluation[BaselineOf[ev]].score >= - MaxRegression
    BY Zenon, <1>1 DEF Regression
<1> QED BY Zenon, <1>1, <1>7, <1>8, <1>9

\* What the locked settlement finds: the evaluation is running and has no result for
\* the scenario yet.
LEMMA CommitFinds ==
    ASSUME RunsInv, NEW ev \in Evaluation, NEW s \in Scenario, ending[<<ev, s>>] # None
    PROVE  /\ results[ev][s] = None
           /\ evaluation[ev].status = "running" /\ evaluation[ev].gate # "passed"
           /\ <<ev, s>> \in Execution
<1>1. /\ <<ev, s>> \in Execution /\ exec[<<ev, s>>].status # "none"
      /\ EvaluationFits(ev) /\ Unfinished(<<ev, s>>) /\ evaluation[ev] \in EvaluationRows
    BY Zenon, Kinds DEF RunsInv, RunTypes, EndingsFit, EvaluationsFit, Unfinished
<1>2. evaluation[ev].status # "none"
    BY Zenon, <1>1 DEF EvaluationFits
<1>3. results[ev][s] = None
    BY Zenon, <1>1, <1>2 DEF EvaluationFits
<1>4. Recorded(ev) # Scenario
    BY Zenon, <1>3 DEF Recorded
<1>5. evaluation[ev].status # "completed" /\ evaluation[ev].gate # "passed"
    BY Zenon, <1>1, <1>4 DEF EvaluationFits
<1>6. evaluation[ev].status = "running"
    BY <1>1, <1>2, <1>5 DEF EvaluationRows
<1> QED BY Zenon, <1>1, <1>3, <1>5, <1>6

\* What the settlement of <<ev, s>> writes.
Settled(ev, s, rows) ==
    /\ results' = [results EXCEPT ![ev] = rows]
    /\ evaluation' = IF Recorded(ev) \cup {s} # Scenario THEN evaluation
                     ELSE [evaluation EXCEPT ![ev] = Verdict(ev, rows)]

\* The assignments of settle_evaluation_execution, for the scenario of its execution.
LEMMA CommitWrites ==
    ASSUME NEW ev, NEW s, CommitEnd(<<ev, s>>)
    PROVE  /\ exec' = [exec EXCEPT ![<<ev, s>>] = ending[<<ev, s>>].row]
           /\ ending' = [ending EXCEPT ![<<ev, s>>] = None]
           /\ replay' = replay
           /\ \E rows : /\ rows = [results[ev] EXCEPT ![s] = ResultOf(s, ending[<<ev, s>>].row, ev)]
                        /\ Settled(ev, s, rows)
<1>1. PICK e : e = <<ev, s>> /\ e[1] = ev /\ e[2] = s
    OBVIOUS
<1>2. CommitEnd(e)
    BY Zenon, <1>1
<1>3. PICK rows : rows = [results[ev] EXCEPT ![s] = ResultOf(s, ending[e].row, ev)]
    BY Zenon
<1>4. /\ exec' = [exec EXCEPT ![e] = ending[e].row] /\ ending' = [ending EXCEPT ![e] = None]
      /\ replay' = replay /\ results' = [results EXCEPT ![ev] = rows]
      /\ evaluation' = Completed(e, rows)
    BY Zenon, <1>1, <1>2, <1>3 DEF CommitEnd
<1>5. Settled(ev, s, rows)
    BY Zenon, <1>1, <1>4 DEF Settled, Completed, Counted
<1> QED BY Zenon, <1>1, <1>3, <1>4, <1>5

\* The results with the new one among them.
LEMMA NewResults ==
    ASSUME RunsInv, NEW ev \in Evaluation, NEW s \in Scenario, NEW y \in ResultRows,
           NEW rows, rows = [results[ev] EXCEPT ![s] = y]
    PROVE  /\ rows \in [Scenario -> ResultRows \cup {None}]
           /\ rows[s] = y /\ y # None
           /\ \A t \in Scenario : t # s => rows[t] = results[ev][t]
           /\ {t \in Scenario : rows[t] # None} = Recorded(ev) \cup {s}
<1>1. results[ev] \in [Scenario -> ResultRows \cup {None}]
    BY Zenon DEF RunsInv, RunTypes
<1>2. /\ rows \in [Scenario -> ResultRows \cup {None}] /\ rows[s] = y
      /\ \A t \in Scenario : t # s => rows[t] = results[ev][t]
    BY Zenon, <1>1
<1>3. y # None
    BY Zenon, IdentityAssumption
<1>4. {t \in Scenario : rows[t] # None} = Recorded(ev) \cup {s}
    BY Zenon, <1>2, <1>3 DEF Recorded
<1> QED BY Zenon, <1>2, <1>3, <1>4

\* The evaluation itself: it stays running, or is complete with the last result.
LEMMA SettledFits ==
    ASSUME RunsInv, NEW ev \in Evaluation, NEW s \in Scenario, NEW y \in ResultRows, NEW rows,
           rows = [results[ev] EXCEPT ![s] = y], Settled(ev, s, rows),
           evaluation[ev].status = "running", evaluation[ev].gate # "passed"
    PROVE  /\ evaluation' \in [Evaluation -> EvaluationRows]
           /\ results' \in [Evaluation -> [Scenario -> ResultRows \cup {None}]]
           /\ results'[ev] = rows
           /\ \A w \in Evaluation : w # ev => evaluation'[w] = evaluation[w] /\ results'[w] = results[w]
           /\ evaluation'[ev].status = IF Recorded(ev) \cup {s} # Scenario THEN "running" ELSE "completed"
           /\ evaluation'[ev].status = "completed" => evaluation'[ev].score = Mean(rows)
           /\ evaluation'[ev].gate = "passed" =>
                  /\ evaluation'[ev].status = "completed" /\ evaluation'[ev].score >= Minimum
                  /\ BaselineOf[ev] # None =>
                         evaluation'[ev].score - evaluation[BaselineOf[ev]].score >= - MaxRegression
<1>1. {t \in Scenario : rows[t] # None} = Recorded(ev) \cup {s}
    BY NewResults
<1>2. /\ evaluation \in [Evaluation -> EvaluationRows] /\ evaluation[ev] \in EvaluationRows
      /\ results \in [Evaluation -> [Scenario -> ResultRows \cup {None}]]
      /\ rows \in [Scenario -> ResultRows \cup {None}]
    BY Zenon DEF RunsInv, RunTypes
<1>3. /\ results' \in [Evaluation -> [Scenario -> ResultRows \cup {None}]]
      /\ results'[ev] = rows
      /\ \A w \in Evaluation : w # ev => results'[w] = results[w]
    BY Zenon, <1>1, <1>2 DEF Settled
<1>4. CASE Recorded(ev) \cup {s} # Scenario
  <2>1. evaluation' = evaluation
    BY Zenon, <1>4 DEF Settled
  <2>2. "running" # "completed"
    OBVIOUS
  <2> QED BY Zenon, <1>2, <1>3, <1>4, <2>1, <2>2
<1>5. CASE Recorded(ev) \cup {s} = Scenario
  <2>1. \A t \in Scenario : rows[t].score \in Points
    <3>1. \A t \in Scenario : rows[t] \in ResultRows
      BY Zenon, <1>1, <1>2, <1>5
    <3> QED BY <3>1 DEF ResultRows
  <2>2. Mean(rows) \in Points
    BY Zenon, <2>1, MeanBounds
  <2>3. PICK verdict :
           /\ verdict = Verdict(ev, rows)
           /\ verdict \in EvaluationRows /\ verdict.status = "completed" /\ verdict.score = Mean(rows)
           /\ verdict.gate = "passed" =>
                  /\ verdict.score >= Minimum
                  /\ BaselineOf[ev] # None =>
                         verdict.score - evaluation[BaselineOf[ev]].score >= - MaxRegression
    BY Zenon, <1>2, <2>2, VerdictFits
  <2>4. evaluation' = [evaluation EXCEPT ![ev] = verdict]
    BY Zenon, <1>5, <2>3 DEF Settled
  <2>5. /\ evaluation' \in [Evaluation -> EvaluationRows] /\ evaluation'[ev] = verdict
        /\ \A w \in Evaluation : w # ev => evaluation'[w] = evaluation[w]
    BY Zenon, <1>2, <2>3, <2>4
  <2> QED BY Zenon, <1>3, <1>5, <2>3, <2>5
<1> QED BY Zenon, <1>4, <1>5

\* settle_evaluation_execution and the commit keep executions, evaluations and replays
\* consistent, however the ends of the executions of one evaluation interleave.
LEMMA CommitEndFits ==
    ASSUME RunsInv, NEW e \in Execution, CommitEnd(e)
    PROVE  RunsInv'
<1>1. /\ RunTypes /\ RowsFit /\ EndingsFit /\ EvaluationsFit /\ ReplaysFit
      /\ ending[e] # None
    BY Zenon DEF RunsInv, CommitEnd
<1>2. e \in Evaluation \X Scenario
    BY Zenon, <1>1 DEF EndingsFit
<1>3. PICK ev \in Evaluation, s \in Scenario : e = <<ev, s>>
    BY <1>2
<1>4. /\ results[ev][s] = None
      /\ evaluation[ev].status = "running" /\ evaluation[ev].gate # "passed"
    BY Zenon, <1>1, <1>3, CommitFinds
<1>5. PICK x, y : x = ending[e].row /\ y = ResultOf(s, x, ev)
    BY Zenon
<1>6. y \in ResultRows
    BY Zenon, <1>5, ResultType
<1>7. PICK rows : /\ rows = [results[ev] EXCEPT ![s] = y] /\ Settled(ev, s, rows)
                  /\ exec' = [exec EXCEPT ![e] = x] /\ ending' = [ending EXCEPT ![e] = None]
                  /\ replay' = replay
    BY Zenon, <1>3, <1>5, CommitWrites
<1>8. /\ Good(e, x) /\ x.status \in Terminal /\ (x.status = "cancelled" => x.finalized)
  <2>1. ending[e] \in Endings
    BY Zenon, <1>1 DEF RunTypes
  <2>2. x \in Rows
    BY <1>5, <2>1 DEF Endings
  <2> QED BY Zenon, <1>1, <1>5, <2>2 DEF EndingsFit, Good
<1>9. /\ exec' \in [Execution -> Rows] /\ RowsFit' /\ exec'[e] = x /\ x.status # "none"
      /\ \A f \in Execution : f # e => exec'[f] = exec[f]
    BY <1>1, <1>7, <1>8, RowsFrame
<1>10. /\ ending' \in [Execution -> Endings \cup {None}] /\ ending'[e] = None
       /\ \A f \in Execution : f # e => ending'[f] = ending[f]
    BY Zenon, <1>1, <1>7 DEF RunTypes
<1>11. /\ evaluation' \in [Evaluation -> EvaluationRows]
       /\ results' \in [Evaluation -> [Scenario -> ResultRows \cup {None}]]
       /\ results'[ev] = rows
       /\ \A w \in Evaluation : w # ev => evaluation'[w] = evaluation[w] /\ results'[w] = results[w]
       /\ evaluation'[ev].status = IF Recorded(ev) \cup {s} # Scenario THEN "running" ELSE "completed"
       /\ evaluation'[ev].status = "completed" => evaluation'[ev].score = Mean(rows)
       /\ evaluation'[ev].gate = "passed" =>
              /\ evaluation'[ev].status = "completed" /\ evaluation'[ev].score >= Minimum
              /\ BaselineOf[ev] # None =>
                     evaluation'[ev].score - evaluation[BaselineOf[ev]].score >= - MaxRegression
    BY <1>4, <1>6, <1>7, SettledFits
<1>12. /\ rows[s] # None
       /\ \A t \in Scenario : t # s => rows[t] = results[ev][t]
       /\ {t \in Scenario : rows[t] # None} = Recorded(ev) \cup {s}
    BY <1>6, <1>7, NewResults
<1>13. RunTypes'
    BY Zenon, <1>1, <1>7, <1>9, <1>10, <1>11 DEF RunTypes
<1>14. EndingsFit'
    BY Zenon, <1>1, <1>9, <1>10 DEF EndingsFit
<1>15. \A f \in Execution : f # e => (Unfinished(f)' <=> Unfinished(f))
    BY Zenon, <1>9, <1>10 DEF Unfinished
<1>16. ~ Unfinished(e)'
    BY <1>8, <1>9, <1>10 DEF Unfinished, Terminal, Live
<1>17. ReplaysFit'
  <2>1. \A c \in Copy : c # e /\ c \in Execution
    BY Zenon, <1>2, Kinds
  <2>2. \A c \in Copy : /\ exec[c].status # "none" => exec'[c].status # "none"
                        /\ Unfinished(c) => Unfinished(c)'
    BY Zenon, <1>9, <1>15, <2>1
  <2> QED BY Zenon, <1>1, <1>7, <2>2, ReplaysFrame
<1>18. \A b \in Evaluation : evaluation[b].status = "completed" => b # ev /\ evaluation'[b] = evaluation[b]
  <2>1. "running" # "completed"
    OBVIOUS
  <2> QED BY Zenon, <1>4, <1>11, <2>1
<1>19. EvaluationFits(ev)'
  <2>1. EvaluationFits(ev) /\ evaluation[ev].status # "none"
    BY <1>1, <1>4 DEF EvaluationsFit
  <2>2. BaselineOf[ev] # None => /\ evaluation[BaselineOf[ev]].status = "completed"
                                 /\ evaluation'[BaselineOf[ev]] = evaluation[BaselineOf[ev]]
    BY Zenon, <1>18, <2>1, DatasetAssumption DEF EvaluationFits
  <2>3. evaluation'[ev].status # "none"
    BY <1>11
  <2>4. \A t \in Scenario : results'[ev][t] = None <=> Unfinished(<<ev, t>>)'
    <3>1. ASSUME NEW t \in Scenario PROVE results'[ev][t] = None <=> Unfinished(<<ev, t>>)'
      <4>1. CASE t = s
        BY Zenon, <1>3, <1>11, <1>12, <1>16, <4>1
      <4>2. CASE t # s
        <5>1. <<ev, t>> # e
          BY <1>3, <4>2
        <5>2. results[ev][t] = None <=> Unfinished(<<ev, t>>)
          BY Zenon, <2>1 DEF EvaluationFits
        <5>3. <<ev, t>> \in Execution
          BY Zenon, Kinds
        <5> QED BY Zenon, <1>11, <1>12, <1>15, <4>2, <5>1, <5>2, <5>3
      <4> QED BY Zenon, <4>1, <4>2
    <3> QED BY Zenon, <3>1
  <2>5. Recorded(ev)' = Recorded(ev) \cup {s}
    BY Zenon, <1>11, <1>12 DEF Recorded
  <2>6. evaluation'[ev].status = "completed" <=> Recorded(ev)' = Scenario
    BY <1>11, <2>5
  <2>7. /\ evaluation'[ev].status = "completed" => evaluation'[ev].score = Mean(results'[ev])
        /\ evaluation'[ev].gate = "passed" =>
               /\ evaluation'[ev].status = "completed" /\ evaluation'[ev].score >= Minimum
               /\ BaselineOf[ev] # None =>
                      evaluation'[ev].score - evaluation'[BaselineOf[ev]].score >= - MaxRegression
    BY Zenon, <1>11, <2>2
  <2>8. BaselineOf[ev] # None => evaluation'[BaselineOf[ev]].status = "completed"
    BY Zenon, <2>2
  <2> QED BY Zenon, <2>3, <2>4, <2>6, <2>7, <2>8 DEF EvaluationFits
<1>20. ASSUME NEW w \in Evaluation, w # ev PROVE EvaluationFits(w)'
  <2>1. /\ EvaluationFits(w) /\ evaluation'[w] = evaluation[w] /\ results'[w] = results[w]
        /\ \A b \in Evaluation : evaluation[b].status = "completed" => evaluation'[b] = evaluation[b]
    BY Zenon, <1>1, <1>11, <1>18, <1>20 DEF EvaluationsFit
  <2>2. \A t \in Scenario : <<w, t>> # e /\ <<w, t>> \in Execution
    BY <1>3, <1>20, Kinds
  <2>3. \A t \in Scenario : /\ Unfinished(<<w, t>>)' <=> Unfinished(<<w, t>>)
                            /\ exec[<<w, t>>].status = "none" => exec'[<<w, t>>].status = "none"
    BY Zenon, <1>9, <1>15, <2>2
  <2> QED BY Zenon, <2>1, <2>3, OtherEvaluation
<1>21. EvaluationsFit'
    BY Zenon, <1>19, <1>20 DEF EvaluationsFit
<1> QED BY Zenon, <1>9, <1>13, <1>14, <1>17, <1>21 DEF RunsInv

-----------------------------------------------------------------------------
\* The actions, each as one of these steps.

\* The policy of the node that x is at allows it, by the document of now.
PolicyAllows(x) ==
    NodeOf(x).guarded =>
        bundle.status = "active" /\ Effect(bundle.document.rules, Context) = "allow"

EffectsOf(e) ==
    \/ effects' = effects
    \/ effects' = effects \cup {e} /\ exec[e].purpose = "run"

Moves(e, x) ==
    /\ Goes(e, x) \/ Ends(e, x)
    /\ x.path = exec[e].path \/ PolicyAllows(exec[e])
    /\ EffectsOf(e)

\* A node is executed only by leave of the current document, be the decision a new one
\* or one that is reused (evaluate_workflow_node_policy).
LEMMA PermittedIsAllowed ==
    ASSUME NEW e, NEW x, Good(e, x), NEW expired, Permitted(x, expired)
    PROVE  PolicyAllows(x)
<1> SUFFICES ASSUME NodeOf(x).guarded PROVE PolicyAllows(x)
    BY Zenon DEF PolicyAllows
<1>1. /\ Available(bundle)
      /\ Decision(x.decision, bundle, Context, StepCount(x), expired).effect = "allow"
    BY Zenon DEF Permitted, Permits
<1>2. DecisionFits(x.decision)
    BY Zenon DEF Good, RowFits
<1>3. CASE Decision(x.decision, bundle, Context, StepCount(x), expired)
             = [seq |-> StepCount(x), effect |-> Effect(bundle.document.rules, Context),
                digest |-> bundle.document]
  <2>1. Effect(bundle.document.rules, Context) = "allow"
    BY <1>1, <1>3
  <2> QED BY Zenon, <1>1, <2>1 DEF PolicyAllows, Available
<1>4. CASE /\ Decision(x.decision, bundle, Context, StepCount(x), expired) = x.decision
           /\ Reusable(x.decision, bundle, StepCount(x))
  <2>1. x.decision.effect = "allow" /\ x.decision.digest = bundle.document
    BY Zenon, <1>1, <1>4 DEF Reusable
  <2>2. x.decision # NoDecision
    BY <2>1 DEF NoDecision
  <2> QED BY Zenon, <1>1, <1>2, <2>1, <2>2 DEF PolicyAllows, Available, DecisionFits
<1> QED BY Zenon, <1>3, <1>4 DEF Decision

\* What the handlers of one execution find.
LEMMA Finds ==
    ASSUME RunsInv, NEW e \in Execution, exec[e].status # "none"
    PROVE  Good(e, exec[e])
BY Zenon, StartedIsGood DEF RunsInv

\* What a step of a live execution finds: its row is good and nobody is ending it.
LEMMA QueuedFinds ==
    ASSUME RunsInv, NEW e \in Execution, Queued(e) \/ Waiting(e)
    PROVE  /\ Good(e, exec[e]) /\ exec[e].status \in Live /\ ending[e] = None
           /\ exec[e].status # "none" /\ exec[e].status \notin Terminal
           /\ Unfinished(e) /\ ~ exec[e].finalized
<1>1. /\ exec[e].status \in Live /\ ending[e] = None
      /\ exec[e].status # "none" /\ exec[e].status \notin Terminal
    BY DEF Queued, Waiting, Live, Terminal
<1>2. Good(e, exec[e])
    BY Zenon, <1>1, Finds
<1> QED BY Zenon, <1>1, <1>2 DEF Unfinished, Good, RowFits

\* advance at an approval: the execution waits.
LEMMA SuspendMoves ==
    ASSUME RunsInv, bundle \in Bundles, NEW e \in Execution, NEW expired, SuspendNode(e, expired)
    PROVE  \E x : Moves(e, x)
<1>1. PICK x : x = [Decided(exec[e], expired) EXCEPT !.status = "waiting"]
    BY Zenon
<1>2. /\ Queued(e) /\ Permitted(exec[e], expired) /\ exec' = [exec EXCEPT ![e] = x]
      /\ ending' = ending /\ replay' = replay /\ evaluation' = evaluation /\ results' = results
      /\ effects' = effects
    BY Zenon, <1>1 DEF SuspendNode
<1>3. Good(e, exec[e]) /\ exec[e].status \in Live /\ ending[e] = None /\ exec[e].status = "queued"
    BY Zenon, <1>2, QueuedFinds DEF Queued
<1>4. Good(e, x) /\ x.status = "waiting" /\ SameRun(exec[e], x) /\ x.path = exec[e].path
    BY <1>1, <1>2, <1>3, WaitingRow
<1>5. x.status \in Live
    BY <1>4 DEF Live
<1>6. Goes(e, x)
    BY Zenon, <1>2, <1>3, <1>4, <1>5 DEF Goes
<1> QED BY Zenon, <1>2, <1>4, <1>6 DEF Moves, EffectsOf

\* The resolution of an approval: the execution is queued again.
LEMMA AnswerMoves ==
    ASSUME RunsInv, NEW e \in Execution, NEW answer \in Answers, AnswerWait(e, answer)
    PROVE  \E x : Moves(e, x)
<1>1. PICK x : x = Answered(exec[e], answer)
    BY Zenon
<1>2. /\ Waiting(e) /\ ending' = ending /\ replay' = replay
      /\ evaluation' = evaluation /\ results' = results /\ effects' = effects
      /\ exec' = [exec EXCEPT ![e].status = "queued", ![e].answer = answer]
    BY Zenon DEF AnswerWait
<1>3. Good(e, exec[e]) /\ exec[e].status \in Live /\ ending[e] = None /\ exec[e].status = "waiting"
    BY Zenon, <1>2, QueuedFinds DEF Waiting
<1>4. exec' = [exec EXCEPT ![e] = x]
  <2>1. exec \in [Execution -> Rows] /\ exec[e] \in Rows
    BY Zenon DEF RunsInv, RunTypes
  <2> QED BY <1>1, <1>2, <2>1 DEF Rows, Answered
<1>5. Good(e, x) /\ x.status = "queued" /\ SameRun(exec[e], x) /\ x.path = exec[e].path
    BY Zenon, <1>1, <1>3, AnsweredRow
<1>6. x.status \in Live
    BY <1>5 DEF Live
<1>7. Goes(e, x)
    BY Zenon, <1>2, <1>3, <1>4, <1>5, <1>6 DEF Goes
<1> QED BY Zenon, <1>2, <1>5, <1>7 DEF Moves, EffectsOf

\* cancel_workflow_run: the execution waits for its finalization.
LEMMA CancelMoves ==
    ASSUME RunsInv, NEW e \in Execution, CancelRun(e)
    PROVE  \E x : Moves(e, x)
<1>1. PICK x : x = Stopped(exec[e], "cancelled")
    BY Zenon
<1>2. /\ Queued(e) \/ Waiting(e)
      /\ exec' = [exec EXCEPT ![e] = x] /\ ending' = ending /\ replay' = replay
      /\ evaluation' = evaluation /\ results' = results /\ effects' = effects
    BY Zenon, <1>1 DEF CancelRun
<1>3. /\ Good(e, exec[e]) /\ exec[e].status \in Live /\ ending[e] = None
      /\ ~ exec[e].finalized
    BY Zenon, <1>2, QueuedFinds
<1>4. /\ Good(e, x) /\ x.status = "cancelled" /\ SameRun(exec[e], x) /\ x.path = exec[e].path
      /\ x.finalized = exec[e].finalized
    BY <1>1, <1>3, StoppedRow
<1>5. Goes(e, x)
    BY Zenon, <1>2, <1>3, <1>4 DEF Goes
<1> QED BY Zenon, <1>2, <1>4, <1>5 DEF Moves, EffectsOf

\* The effect of a tool marks only executions that are runs.
LEMMA MarksARun ==
    ASSUME NEW e, Good(e, exec[e]), exec[e].status \in Live, NEW done \in BOOLEAN,
           effects' = IF done /\ HasEffect(exec[e]) THEN effects \cup {e} ELSE effects
    PROVE  EffectsOf(e)
BY Zenon, OnlyARunHasEffects DEF EffectsOf

\* advance at any other node: the execution goes on or ends, by leave of the policy.
LEMMA CompleteMoves ==
    ASSUME RunsInv, bundle \in Bundles, NEW e \in Execution, NEW expired, CompleteNode(e, expired)
    PROVE  \E x : Moves(e, x)
<1>1. PICK x : x = Advanced(exec[e], expired)
    BY Zenon
<1>2. /\ Queued(e) /\ ~ Suspends(exec[e]) /\ Permitted(exec[e], expired)
      /\ evaluation' = evaluation /\ results' = results
      /\ effects' = IF HasEffect(exec[e]) THEN effects \cup {e} ELSE effects
      /\ IF x.status = "completed" THEN End(e, x)
         ELSE exec' = [exec EXCEPT ![e] = x] /\ ending' = ending /\ replay' = replay
    BY Zenon, <1>1 DEF CompleteNode
<1>3. /\ Good(e, exec[e]) /\ exec[e].status \in Live /\ ending[e] = None
      /\ exec[e].status = "queued" /\ exec[e].status # "none"
      /\ exec[e].status \notin Terminal /\ Unfinished(e)
    BY Zenon, <1>2, QueuedFinds DEF Queued
<1>4. Good(e, x) /\ x.status \in {"queued", "completed"} /\ SameRun(exec[e], x)
    BY <1>1, <1>2, <1>3, AdvancedRow
<1>5. PolicyAllows(exec[e])
    BY Zenon, <1>2, <1>3, PermittedIsAllowed
<1>6. EffectsOf(e)
  <2>1. TRUE \in BOOLEAN /\ effects' = IF TRUE /\ HasEffect(exec[e]) THEN effects \cup {e} ELSE effects
    BY Zenon, <1>2
  <2> QED BY Zenon, <1>3, <2>1, MarksARun
<1>7. CASE x.status = "completed"
  <2>1. x.status \in Terminal /\ x.status # "cancelled"
    BY <1>7 DEF Terminal
  <2>2. Ends(e, x)
    BY Zenon, <1>2, <1>3, <1>4, <1>7, <2>1 DEF Ends
  <2> QED BY Zenon, <1>5, <1>6, <2>2 DEF Moves
<1>8. CASE x.status # "completed"
  <2>1. x.status \in Live
    BY <1>4, <1>8 DEF Live
  <2>2. Goes(e, x)
    BY Zenon, <1>2, <1>3, <1>4, <1>8, <2>1 DEF Goes
  <2> QED BY Zenon, <1>5, <1>6, <2>2 DEF Moves
<1> QED BY Zenon, <1>7, <1>8

\* An execution that fails, from the row x it fails with.
LEMMA FailsMoves ==
    ASSUME RunsInv, NEW e \in Execution, Queued(e) \/ Waiting(e),
           NEW x, Good(e, x), SameRun(exec[e], x), x.path = exec[e].path,
           End(e, Failed(x)), UNCHANGED <<evaluation, results>>, EffectsOf(e)
    PROVE  \E y : Moves(e, y)
<1>1. PICK y : y = Failed(x)
    BY Zenon
<1>2. "failed" \in {"failed", "cancelled"}
    OBVIOUS
<1>3. Good(e, y) /\ y.status = "failed" /\ SameRun(x, y) /\ y.path = x.path
    BY Zenon, <1>1, <1>2, StoppedRow DEF Failed
<1>4. /\ ending[e] = None /\ exec[e].status # "none"
      /\ exec[e].status \notin Terminal /\ Unfinished(e)
    BY Zenon, QueuedFinds
<1>5. y.status \in Terminal /\ y.status # "cancelled"
    BY <1>3 DEF Terminal
<1>6. SameRun(exec[e], y) /\ y.path = exec[e].path
    BY Zenon, <1>3 DEF SameRun
<1>7. Ends(e, y)
    BY Zenon, <1>1, <1>3, <1>4, <1>5, <1>6 DEF Ends
<1> QED BY Zenon, <1>6, <1>7 DEF Moves

\* advance that fails the execution: it ends, perhaps after the effect of a run.
LEMMA FailMoves ==
    ASSUME RunsInv, bundle \in Bundles, NEW e \in Execution, FailNode(e)
    PROVE  \E x : Moves(e, x)
<1>1. Queued(e) /\ UNCHANGED <<evaluation, results>>
    BY Zenon DEF FailNode
<1>2. Good(e, exec[e]) /\ exec[e].status = "queued" /\ exec[e].status \in Live
    BY Zenon, <1>1, QueuedFinds DEF Queued
<1>3. CASE End(e, Failed(exec[e])) /\ effects' = effects
  <2>1. SameRun(exec[e], exec[e]) /\ EffectsOf(e)
    BY Zenon, <1>3 DEF SameRun, EffectsOf
  <2> QED BY Zenon, <1>1, <1>2, <1>3, <2>1, FailsMoves
<1>4. CASE /\ \E expired \in BOOLEAN :
                  Permitted(exec[e], expired) /\ End(e, Failed(Decided(exec[e], expired)))
           /\ \E done \in BOOLEAN :
                  effects' = IF done /\ HasEffect(exec[e]) THEN effects \cup {e} ELSE effects
  <2>1. PICK expired \in BOOLEAN :
           Permitted(exec[e], expired) /\ End(e, Failed(Decided(exec[e], expired)))
    BY Zenon, <1>4
  <2>2. PICK x : x = Decided(exec[e], expired)
    BY Zenon
  <2>3. Good(e, x) /\ SameRun(exec[e], x) /\ x.path = exec[e].path
    BY <1>2, <2>1, <2>2, DecidedFits
  <2>4. EffectsOf(e)
    BY Zenon, <1>2, <1>4, MarksARun
  <2>5. End(e, Failed(x))
    BY Zenon, <2>1, <2>2
  <2> QED BY Zenon, <1>1, <2>3, <2>4, <2>5, FailsMoves
<1> QED BY Zenon, <1>3, <1>4 DEF FailNode

\* The expiry of a wait ends its execution.
LEMMA TimeOutMoves ==
    ASSUME RunsInv, NEW e \in Execution, TimeOutWait(e)
    PROVE  \E x : Moves(e, x)
<1>1. /\ Waiting(e) /\ End(e, Failed(exec[e])) /\ UNCHANGED <<evaluation, results>>
      /\ EffectsOf(e)
    BY Zenon DEF TimeOutWait, EffectsOf
<1>2. Good(e, exec[e]) /\ SameRun(exec[e], exec[e])
    BY Zenon, <1>1, QueuedFinds DEF SameRun
<1> QED BY Zenon, <1>1, <1>2, FailsMoves

\* finalize_cancelled_once ends a cancelled execution, which stays cancelled.
LEMMA FinalizeMoves ==
    ASSUME RunsInv, NEW e \in Execution, FinalizeCancelled(e)
    PROVE  \E x : Moves(e, x)
<1>1. PICK x : x = [exec[e] EXCEPT !.finalized = TRUE]
    BY Zenon
<1>2. /\ exec[e].status = "cancelled" /\ ~ exec[e].finalized /\ ending[e] = None
      /\ End(e, x) /\ UNCHANGED <<evaluation, results>> /\ EffectsOf(e)
    BY Zenon, <1>1 DEF FinalizeCancelled, EffectsOf
<1>3. exec[e].status # "none" /\ "cancelled" \in Terminal
    BY <1>2 DEF Terminal
<1>4. Good(e, exec[e])
    BY Zenon, <1>3, Finds
<1>5. /\ Good(e, x) /\ x.status = "cancelled" /\ SameRun(exec[e], x) /\ x.path = exec[e].path
      /\ x.finalized
    BY <1>1, <1>2, <1>4, FinalizedRow
<1>6. Unfinished(e)
    BY Zenon, <1>2 DEF Unfinished
<1>7. Ends(e, x)
    BY Zenon, <1>2, <1>3, <1>5, <1>6 DEF Ends
<1> QED BY Zenon, <1>2, <1>5, <1>7 DEF Moves

\* Only deployments that are active are run, and those passed their checks.
LEMMA ActiveIsSound ==
    ASSUME DeploymentsInv, NEW v \in Version, Active(v)
    PROVE  v \in Sound
<1>1. deployment[v] # "none"
    BY DEF Active
<1> QED BY Zenon, <1>1 DEF DeploymentsInv, DeploymentsFit

\* start_workflow_run starts a run.
LEMMA RunStarts ==
    ASSUME RunsInv, DeploymentsInv, NEW e \in Root, NEW v \in Version, StartRun(e, v)
    PROVE  e \in Execution /\ \E x : Starts(e, x)
<1>1. PICK x : x = Fresh(v, "run", "live")
    BY Zenon
<1>2. /\ exec[e].status = "none" /\ exec' = [exec EXCEPT ![e] = x] /\ replay' = replay
      /\ ending' = ending /\ evaluation' = evaluation /\ results' = results /\ v \in Sound
    BY Zenon, <1>1, ActiveIsSound DEF StartRun
<1>3. e \in Execution /\ e \notin Evaluation \X Scenario /\ e \in Root \cup Copy
    BY Zenon, Kinds
<1>4. "run" \in {"run", "evaluation"} /\ "live" \in {"live", "simulation"} /\ "run" # "evaluation"
    OBVIOUS
<1>5. Good(e, x) /\ x.status = "queued"
    BY <1>1, <1>2, <1>3, <1>4, FreshRow
<1> QED BY Zenon, <1>2, <1>3, <1>5 DEF Starts

\* fork_workflow_run and create_workflow_replay start a copy at a checkpoint of its source,
\* simulated if the version has effects.
LEMMA CopyStarts ==
    ASSUME RunsInv, NEW c \in Copy, NEW e \in Execution, NEW named \in BOOLEAN,
           NEW purpose \in {"fork", "replay"}, NEW k \in Checkpoints(e),
           CopyRun(c, e, k, named, purpose)
    PROVE  c \in Execution /\ \E x : Starts(c, x)
<1>1. PICK mode : mode = ModeOf(named) /\ mode \in {"live", "simulation"}
    BY DEF ModeOf
<1>2. PICK x : x = FromCheckpoint(e, k, purpose, mode)
    BY Zenon
<1>3. /\ exec[c].status = "none" /\ exec[e].status # "none" /\ ~ Terminates(e, k)
      /\ exec' = [exec EXCEPT ![c] = x]
      /\ replay' = replay \/ replay' = [replay EXCEPT ![c] = "running"]
      /\ ending' = ending /\ evaluation' = evaluation /\ results' = results
    BY Zenon, <1>1, <1>2 DEF CopyRun
<1>4. Effectful(exec[e].version) => mode = "simulation"
    BY Zenon, <1>1 DEF CopyRun, ProfileFits, ModeOf
<1>5. c \in Execution /\ c \notin Evaluation \X Scenario /\ c \in Root \cup Copy
    BY Zenon, Kinds
<1>6. Good(e, exec[e])
    BY Zenon, <1>3, Finds
<1>7. Good(c, x) /\ x.status = "queued"
    BY <1>1, <1>2, <1>3, <1>4, <1>5, <1>6, CheckpointRow
<1> QED BY Zenon, <1>3, <1>5, <1>7 DEF Starts

\* The five kinds of steps.
Quiet == UNCHANGED <<exec, ending, replay, evaluation, results, effects>>
Outcome ==
    \/ Quiet
    \/ \E e \in Execution : \E x : Moves(e, x)
    \/ \E e \in Execution : \E x : Starts(e, x) /\ effects' = effects
    \/ \E ev \in Evaluation, v \in Sound, named \in BOOLEAN :
           StartEvaluation(ev, v, named) /\ effects' = effects
    \/ \E e \in Execution : CommitEnd(e) /\ effects' = effects

\* Every step of the system is of one of these kinds.
LEMMA Outcomes ==
    ASSUME RunsInv, DeploymentsInv, bundle \in Bundles, Next
    PROVE  Outcome
<1>1. CASE UNCHANGED experimentVars
    BY Zenon, <1>1 DEF Outcome, Quiet, experimentVars
<1>2. CASE Requests
  <2>1. CASE CreateProfile
    BY Zenon, <2>1 DEF CreateProfile, Outcome, Quiet
  <2>2. CASE \E e \in Root, v \in Version : StartRun(e, v)
    <3>1. PICK e \in Root, v \in Version : StartRun(e, v)
      BY Zenon, <2>2
    <3>2. effects' = effects
      BY Zenon, <3>1 DEF StartRun
    <3>3. e \in Execution /\ \E x : Starts(e, x)
      BY Zenon, <3>1, RunStarts
    <3> QED BY Zenon, <3>2, <3>3 DEF Outcome
  <2>3. CASE \E c \in Copy, e \in Execution, named \in BOOLEAN, purpose \in {"fork", "replay"} :
                 \E k \in Checkpoints(e) : CopyRun(c, e, k, named, purpose)
    <3>1. PICK c \in Copy, e \in Execution, named \in BOOLEAN, purpose \in {"fork", "replay"} :
                 \E k \in Checkpoints(e) : CopyRun(c, e, k, named, purpose)
      BY Zenon, <2>3
    <3>2. PICK k \in Checkpoints(e) : CopyRun(c, e, k, named, purpose)
      BY Zenon, <3>1
    <3>3. effects' = effects
      BY Zenon, <3>2 DEF CopyRun
    <3>4. c \in Execution /\ \E x : Starts(c, x)
      BY <3>2, CopyStarts
    <3> QED BY Zenon, <3>3, <3>4 DEF Outcome
  <2>4. CASE \E ev \in Evaluation, v \in Version, named \in BOOLEAN : StartEvaluation(ev, v, named)
    <3>1. PICK ev \in Evaluation, v \in Version, named \in BOOLEAN : StartEvaluation(ev, v, named)
      BY Zenon, <2>4
    <3>2. v \in Sound /\ effects' = effects
      BY Zenon, <3>1, ActiveIsSound DEF StartEvaluation
    <3> QED BY Zenon, <3>1, <3>2 DEF Outcome
  <2>5. CASE \E e \in Execution : CancelRun(e)
    BY Zenon, <2>5, CancelMoves DEF Outcome
  <2>6. CASE \E e \in Execution, answer \in {"approved", "denied"} : AnswerWait(e, answer)
    <3>1. PICK e \in Execution, answer \in Answers : AnswerWait(e, answer)
      BY Zenon, <2>6 DEF Answers
    <3> QED BY Zenon, <3>1, AnswerMoves DEF Outcome
  <2>7. CASE \E ev \in Evaluation, s \in Scenario : Annotate(ev, s)
    BY Zenon, <2>7 DEF Annotate, Outcome, Quiet
  <2> QED BY Zenon, <1>2, <2>1, <2>2, <2>3, <2>4, <2>5, <2>6, <2>7 DEF Requests
<1>3. CASE Operators
    BY Zenon, <1>3 DEF Operators, ChangeBundle, Outcome, Quiet
<1>4. CASE \E e \in Execution : EngineStep(e)
  <2>1. PICK e \in Execution : EngineStep(e)
    BY Zenon, <1>4
  <2>2. CASE \E expired \in BOOLEAN : SuspendNode(e, expired) \/ CompleteNode(e, expired)
    BY Zenon, <2>2, SuspendMoves, CompleteMoves DEF Outcome
  <2>3. CASE FailNode(e)
    BY Zenon, <2>3, FailMoves DEF Outcome
  <2>4. CASE TimeOutWait(e)
    BY Zenon, <2>4, TimeOutMoves DEF Outcome
  <2>5. CASE FinalizeCancelled(e)
    BY Zenon, <2>5, FinalizeMoves DEF Outcome
  <2>6. CASE CommitEnd(e)
    BY Zenon, <2>6 DEF Outcome, CommitEnd
  <2> QED BY Zenon, <2>1, <2>2, <2>3, <2>4, <2>5, <2>6 DEF EngineStep
<1> QED BY Zenon, <1>1, <1>2, <1>3, <1>4 DEF Next

\* Each of these steps keeps executions, evaluations and replays consistent.
LEMMA OutcomeFits ==
    ASSUME RunsInv, Outcome
    PROVE  RunsInv'
<1>1. CASE Quiet
    BY Zenon, <1>1, RunsFrame DEF Quiet
<1>2. CASE \E e \in Execution : \E x : Moves(e, x)
    BY Zenon, <1>2, GoesFits, EndsFits DEF Moves
<1>3. CASE \E e \in Execution : \E x : Starts(e, x) /\ effects' = effects
    BY Zenon, <1>3, StartsFits
<1>4. CASE \E ev \in Evaluation, v \in Sound, named \in BOOLEAN :
               StartEvaluation(ev, v, named) /\ effects' = effects
    BY Zenon, <1>4, StartEvaluationFits
<1>5. CASE \E e \in Execution : CommitEnd(e) /\ effects' = effects
    BY Zenon, <1>5, CommitEndFits
<1> QED BY Zenon, <1>1, <1>2, <1>3, <1>4, <1>5 DEF Outcome

\* What a step does to one execution and to its uncommitted end.
Same(f) == exec'[f] = exec[f] /\ ending'[f] = ending[f]

\* A step that moves e leaves the other executions alone.
LEMMA MovesOne ==
    ASSUME RunsInv, NEW e \in Execution, NEW x, Moves(e, x)
    PROVE  /\ \A f \in Execution : f # e => Same(f)
           /\ exec[e].status # "none" /\ ending[e] = None
           /\ evaluation' = evaluation /\ results' = results
           /\ \A c \in Copy : replay[c] # "running" => replay'[c] = replay[c]
           /\ exec'[e].purpose = exec[e].purpose
           /\ exec[e].status \in Terminal => exec'[e].status = exec[e].status
           /\ (IF ending'[e] # None THEN ending'[e].row ELSE exec'[e]) = x
<1>1. /\ exec \in [Execution -> Rows] /\ ending \in [Execution -> Endings \cup {None}]
      /\ DOMAIN replay = Copy
    BY Zenon DEF RunsInv, RunTypes
<1>2. CASE Goes(e, x)
  <2>1. /\ exec' = [exec EXCEPT ![e] = x] /\ ending' = ending /\ replay' = replay
        /\ evaluation' = evaluation /\ results' = results
        /\ exec[e].status \in Live /\ ending[e] = None /\ x.purpose = exec[e].purpose
    BY Zenon, <1>2 DEF Goes, SameRun
  <2>2. exec[e].status # "none" /\ exec[e].status \notin Terminal
    BY <2>1 DEF Live, Terminal
  <2>3. exec'[e] = x /\ \A f \in Execution : f # e => exec'[f] = exec[f]
    BY Zenon, <1>1, <2>1
  <2> QED BY Zenon, <2>1, <2>2, <2>3 DEF Same
<1>3. CASE Ends(e, x) /\ exec[e].purpose = "evaluation"
  <2>1. PICK last : last = [row |-> x, seen |-> Recorded(e[1])]
    BY Zenon
  <2>2. /\ exec' = exec /\ ending' = [ending EXCEPT ![e] = last] /\ replay' = replay
        /\ evaluation' = evaluation /\ results' = results
        /\ exec[e].status # "none" /\ ending[e] = None /\ x \in Rows
    BY Zenon, <1>3, <2>1 DEF Ends, End, Good
  <2>3. Recorded(e[1]) \subseteq Scenario
    BY Zenon DEF Recorded
  <2>4. last \in Endings /\ last.row = x
    BY <2>1, <2>2, <2>3 DEF Endings
  <2>5. last # None
    BY Zenon, <2>4, IdentityAssumption
  <2>6. ending'[e] = last /\ \A f \in Execution : f # e => ending'[f] = ending[f]
    BY Zenon, <1>1, <2>2
  <2> QED BY Zenon, <2>2, <2>4, <2>5, <2>6 DEF Same
<1>4. CASE Ends(e, x) /\ exec[e].purpose # "evaluation"
  <2>1. /\ exec' = [exec EXCEPT ![e] = x] /\ ending' = ending
        /\ replay' = IF Settles(e) THEN [replay EXCEPT ![e] = ReplayStatus(x)] ELSE replay
        /\ evaluation' = evaluation /\ results' = results
        /\ exec[e].status # "none" /\ ending[e] = None /\ x.purpose = exec[e].purpose
        /\ exec[e].status \in Terminal => x.status = exec[e].status
    BY Zenon, <1>4 DEF Ends, End, SameRun
  <2>2. exec'[e] = x /\ \A f \in Execution : f # e => exec'[f] = exec[f]
    BY Zenon, <1>1, <2>1
  <2>3. \A c \in Copy : replay[c] # "running" => replay'[c] = replay[c]
    BY Zenon, <1>1, <2>1 DEF Settles
  <2> QED BY Zenon, <2>1, <2>2, <2>3 DEF Same
<1> QED BY Zenon, <1>2, <1>3, <1>4 DEF Moves

\* A run, a fork or a replay that starts leaves the other executions alone.
LEMMA StartsOne ==
    ASSUME RunsInv, NEW e \in Execution, NEW x, Starts(e, x)
    PROVE  /\ \A f \in Execution : exec[f].status # "none" => Same(f)
           /\ evaluation' = evaluation /\ results' = results
           /\ \A c \in Copy : replay[c] # "none" => replay'[c] = replay[c]
<1>1. /\ exec \in [Execution -> Rows] /\ DOMAIN replay = Copy /\ ReplaysFit
    BY Zenon DEF RunsInv, RunTypes
<1>2. /\ exec' = [exec EXCEPT ![e] = x] /\ ending' = ending /\ exec[e].status = "none"
      /\ evaluation' = evaluation /\ results' = results
      /\ replay' = replay \/ (e \in Copy /\ replay' = [replay EXCEPT ![e] = "running"])
    BY Zenon DEF Starts
<1>3. \A f \in Execution : f # e => exec'[f] = exec[f]
    BY Zenon, <1>1, <1>2
<1>4. e \in Copy => replay[e] = "none"
    BY Zenon, <1>1, <1>2 DEF ReplaysFit
<1>5. \A c \in Copy : replay[c] # "none" => replay'[c] = replay[c]
    BY Zenon, <1>1, <1>2, <1>4
<1> QED BY Zenon, <1>2, <1>3, <1>5 DEF Same

\* An evaluation that starts leaves everything else alone.
LEMMA EvaluationStartsAlone ==
    ASSUME RunsInv, NEW ev \in Evaluation, NEW v, NEW named, StartEvaluation(ev, v, named)
    PROVE  /\ \A f \in Execution : exec[f].status # "none" => Same(f)
           /\ \A w \in Evaluation : evaluation[w].status # "none" => evaluation'[w] = evaluation[w]
           /\ results' = results /\ replay' = replay
<1>1. /\ \A f \in Execution : f \notin {ev} \X Scenario => exec'[f] = exec[f]
      /\ ending' = ending /\ results' = results /\ replay' = replay
      /\ evaluation[ev].status = "none"
    BY Zenon DEF StartEvaluation
<1>2. \A w \in Evaluation : w # ev => evaluation'[w] = evaluation[w]
    BY Zenon DEF StartEvaluation, RunsInv, RunTypes
<1>3. \A s \in Scenario : exec[<<ev, s>>].status = "none"
    BY Zenon, <1>1 DEF RunsInv, EvaluationsFit, EvaluationFits
<1>4. \A f \in {ev} \X Scenario : \E s \in Scenario : f = <<ev, s>>
    OBVIOUS
<1>5. \A f \in {ev} \X Scenario : exec[f].status = "none"
    BY Zenon, <1>3, <1>4
<1> QED BY Zenon, <1>1, <1>2, <1>5 DEF Same

\* A settlement touches one execution, of an evaluation that is running, and adds the
\* result of one scenario that has none.
LEMMA CommitsOne ==
    ASSUME RunsInv, NEW e \in Execution, CommitEnd(e)
    PROVE  /\ \A f \in Execution : f # e => Same(f)
           /\ ending[e] # None /\ replay' = replay
           /\ exec[e].purpose = "evaluation" /\ exec'[e].purpose = "evaluation"
           /\ exec[e].status \in Terminal => exec'[e].status = exec[e].status
           /\ \A w \in Evaluation :
                  /\ evaluation[w].status = "completed" => evaluation'[w] = evaluation[w]
                  /\ \A t \in Scenario : results[w][t] # None => results'[w][t] = results[w][t]
<1>1. /\ ending[e] # None /\ EndingsFit /\ RunTypes /\ RowsFit
    BY Zenon DEF RunsInv, CommitEnd
<1>2. /\ e \in Evaluation \X Scenario /\ exec[e].status # "none" /\ RowFits(e, ending[e].row)
      /\ exec[e].status \in Terminal => ending[e].row.status = exec[e].status
    BY Zenon, <1>1 DEF EndingsFit
<1>3. exec[e].purpose = "evaluation" /\ ending[e].row.purpose = "evaluation"
    BY Zenon, <1>1, <1>2, StartedIsGood DEF Good, RowFits
<1>4. PICK ev \in Evaluation, s \in Scenario : e = <<ev, s>>
    BY <1>2
<1>5. results[ev][s] = None /\ evaluation[ev].status = "running"
    BY Zenon, <1>1, <1>4, CommitFinds
<1>6. PICK rows, y : /\ rows = [results[ev] EXCEPT ![s] = y] /\ Settled(ev, s, rows)
                     /\ exec' = [exec EXCEPT ![e] = ending[e].row]
                     /\ ending' = [ending EXCEPT ![e] = None] /\ replay' = replay
    BY Zenon, <1>4, CommitWrites
<1>7. /\ exec'[e] = ending[e].row
      /\ \A f \in Execution : f # e => exec'[f] = exec[f] /\ ending'[f] = ending[f]
    BY Zenon, <1>1, <1>6 DEF RunTypes
<1>8. evaluation' = evaluation \/ \E z : evaluation' = [evaluation EXCEPT ![ev] = z]
    BY Zenon, <1>6 DEF Settled
<1>9. \A w \in Evaluation : w # ev => evaluation'[w] = evaluation[w]
    BY Zenon, <1>1, <1>8 DEF RunTypes
<1>10. /\ results'[ev] = rows
       /\ \A w \in Evaluation : w # ev => results'[w] = results[w]
    BY Zenon, <1>1, <1>6 DEF RunTypes, Settled
<1>11. \A t \in Scenario : t # s => rows[t] = results[ev][t]
    BY Zenon, <1>1, <1>6 DEF RunTypes
<1>12. "running" # "completed"
    OBVIOUS
<1>13. \A w \in Evaluation : evaluation[w].status = "completed" => evaluation'[w] = evaluation[w]
    BY Zenon, <1>5, <1>9, <1>12
<1>14. \A w \in Evaluation : \A t \in Scenario :
          results[w][t] # None => results'[w][t] = results[w][t]
    BY Zenon, <1>5, <1>10, <1>11
<1>15. \A f \in Execution : f # e => Same(f)
    BY Zenon, <1>7 DEF Same
<1> QED BY Zenon, <1>1, <1>2, <1>3, <1>6, <1>7, <1>13, <1>14, <1>15

\* A step sends effects for no execution but a run, and changes no purpose.
LEMMA EffectsFit ==
    ASSUME RunsInv, effects \subseteq Execution, OnlyRunsHaveEffects, Outcome
    PROVE  effects' \subseteq Execution /\ OnlyRunsHaveEffects'
<1>1. \A f \in effects : exec[f].status # "none" /\ exec[f].purpose = "run" /\ f \in Execution
  <2>1. SUFFICES ASSUME NEW f \in effects PROVE exec[f].status # "none"
    BY Zenon DEF OnlyRunsHaveEffects
  <2>2. f \in Execution /\ exec[f].purpose = "run"
    BY Zenon DEF OnlyRunsHaveEffects
  <2>3. exec[f] # NoExecution
    BY <2>2 DEF NoExecution
  <2> QED BY Zenon, <2>2, <2>3 DEF RunsInv, RowsFit, RowFits
<1>2. CASE Quiet
    BY Zenon, <1>2 DEF Quiet, OnlyRunsHaveEffects
<1>3. CASE \E e \in Execution : \E x : Moves(e, x)
  <2>1. PICK e, x : e \in Execution /\ Moves(e, x)
    BY Zenon, <1>3
  <2>2. /\ \A f \in Execution : f # e => Same(f)
        /\ exec'[e].purpose = exec[e].purpose
    BY Zenon, <2>1, MovesOne
  <2>3. \A f \in Execution : exec'[f].purpose = exec[f].purpose
    BY Zenon, <2>2 DEF Same
  <2> QED BY Zenon, <1>1, <2>1, <2>3 DEF Moves, EffectsOf, OnlyRunsHaveEffects
<1>4. CASE \E e \in Execution : \E x : Starts(e, x) /\ effects' = effects
  <2>1. \A f \in Execution : exec[f].status # "none" => Same(f)
    BY Zenon, <1>4, StartsOne
  <2> QED BY Zenon, <1>1, <1>4, <2>1 DEF Same, OnlyRunsHaveEffects
<1>5. CASE \E ev \in Evaluation, v \in Sound, named \in BOOLEAN :
               StartEvaluation(ev, v, named) /\ effects' = effects
  <2>1. \A f \in Execution : exec[f].status # "none" => Same(f)
    BY Zenon, <1>5, EvaluationStartsAlone
  <2> QED BY Zenon, <1>1, <1>5, <2>1 DEF Same, OnlyRunsHaveEffects
<1>6. CASE \E e \in Execution : CommitEnd(e) /\ effects' = effects
  <2>1. PICK e \in Execution : CommitEnd(e) /\ effects' = effects
    BY Zenon, <1>6
  <2>2. /\ \A f \in Execution : f # e => Same(f)
        /\ exec'[e].purpose = exec[e].purpose
    BY Zenon, <2>1, CommitsOne
  <2> QED BY Zenon, <1>1, <2>1, <2>2 DEF Same, OnlyRunsHaveEffects
<1> QED BY Zenon, <1>2, <1>3, <1>4, <1>5, <1>6 DEF Outcome

\* The rest of the state: profiles, annotations and the bundle.
OtherTypes ==
    /\ profile \in BOOLEAN
    /\ annotations \subseteq Evaluation \X Scenario
    /\ bundle \in Bundles
    /\ changes \in Nat

\* The inductive invariant, in the parts the proof treats one by one.
LEMMA Parts ==
    ReleasesInv <=> /\ DeploymentsInv /\ RunsInv /\ OtherTypes
                    /\ effects \subseteq Execution /\ OnlyRunsHaveEffects
BY Zenon DEF ReleasesInv, TypeOK, DeploymentsInv, DeploymentTypes, RunsInv, RunTypes, OtherTypes

\* The same after a step.
LEMMA PartsLater ==
    ASSUME DeploymentsInv', RunsInv', OtherTypes', effects' \subseteq Execution,
           OnlyRunsHaveEffects'
    PROVE  ReleasesInv'
BY Zenon DEF ReleasesInv, TypeOK, DeploymentsInv, DeploymentTypes, RunsInv, RunTypes, OtherTypes

\* The engine touches executions, evaluations, replays and effects only.
LEMMA EngineLeaves ==
    ASSUME NEW e, EngineStep(e)
    PROVE  UNCHANGED <<deploymentVars, profile, annotations, bundle, changes>>
<1>1. ASSUME NEW expired, SuspendNode(e, expired) \/ CompleteNode(e, expired)
      PROVE  UNCHANGED <<deploymentVars, profile, annotations, bundle, changes>>
    BY Zenon, <1>1 DEF SuspendNode, CompleteNode
<1>2. ASSUME FailNode(e) PROVE UNCHANGED <<deploymentVars, profile, annotations, bundle, changes>>
    BY Zenon, <1>2 DEF FailNode
<1>3. ASSUME TimeOutWait(e) \/ FinalizeCancelled(e)
      PROVE  UNCHANGED <<deploymentVars, profile, annotations, bundle, changes>>
    BY Zenon, <1>3 DEF TimeOutWait, FinalizeCancelled
<1>4. ASSUME CommitEnd(e) PROVE UNCHANGED <<deploymentVars, profile, annotations, bundle, changes>>
    BY Zenon, <1>4 DEF CommitEnd
<1> QED BY Zenon, <1>1, <1>2, <1>3, <1>4 DEF EngineStep

\* Profiles, annotations and bundles are made by requests and operators only.
LEMMA OthersFit ==
    ASSUME OtherTypes, Next
    PROVE  OtherTypes'
<1>1. CASE UNCHANGED <<profile, annotations, bundle, changes>>
    BY Zenon, <1>1 DEF OtherTypes
<1>2. CASE CreateProfile
    BY Zenon, <1>2 DEF CreateProfile, OtherTypes
<1>3. CASE \E ev \in Evaluation, s \in Scenario : Annotate(ev, s)
  <2>1. PICK ev \in Evaluation, s \in Scenario : Annotate(ev, s)
    BY Zenon, <1>3
  <2>2. /\ annotations' = {<<ev, s>>} /\ profile' = profile
        /\ bundle' = bundle /\ changes' = changes
    BY Zenon, <2>1 DEF Annotate
  <2>3. annotations' \subseteq Evaluation \X Scenario
    BY <2>2
  <2> QED BY Zenon, <2>2, <2>3 DEF OtherTypes
<1>4. CASE Operators
  <2>1. PICK new \in Bundles : ChangeBundle(new)
    BY Zenon, <1>4 DEF Operators
  <2>2. changes' = changes + 1 /\ bundle' = new /\ profile' = profile /\ annotations' = annotations
    BY Zenon, <2>1 DEF ChangeBundle
  <2>3. changes' \in Nat
    BY <2>2 DEF OtherTypes
  <2> QED BY Zenon, <2>2, <2>3 DEF OtherTypes
<1>5. CASE UNCHANGED experimentVars
    BY Zenon, <1>1, <1>5 DEF experimentVars
<1>6. ASSUME NEW e \in Execution, EngineStep(e)
      PROVE  UNCHANGED <<profile, annotations, bundle, changes>>
    BY Zenon, <1>6, EngineLeaves
<1>7. ASSUME Requests PROVE \/ UNCHANGED <<profile, annotations, bundle, changes>>
                            \/ CreateProfile
                            \/ \E ev \in Evaluation, s \in Scenario : Annotate(ev, s)
  <2>1. \A e, v : StartRun(e, v) => UNCHANGED <<profile, annotations, bundle, changes>>
    BY Zenon DEF StartRun
  <2>2. \A c, e, k, named, purpose : CopyRun(c, e, k, named, purpose)
            => UNCHANGED <<profile, annotations, bundle, changes>>
    BY Zenon DEF CopyRun
  <2>3. \A ev, v, named : StartEvaluation(ev, v, named)
            => UNCHANGED <<profile, annotations, bundle, changes>>
    BY Zenon DEF StartEvaluation
  <2>4. \A e, answer : CancelRun(e) \/ AnswerWait(e, answer)
            => UNCHANGED <<profile, annotations, bundle, changes>>
    BY Zenon DEF CancelRun, AnswerWait
  <2> QED BY Zenon, <1>7, <2>1, <2>2, <2>3, <2>4 DEF Requests
<1> QED BY Zenon, <1>1, <1>2, <1>3, <1>4, <1>5, <1>6, <1>7 DEF Next

\* Only deploy_workflow_version and the creation of versions touch deployments.
LEMMA DeploymentsNext ==
    ASSUME DeploymentsInv, Next
    PROVE  DeploymentsInv'
<1>1. CASE UNCHANGED deploymentVars
    BY Zenon, <1>1, DeploymentsFrame DEF deploymentVars, DeploymentsInv, DeploymentTypes
<1>2. CASE \E v \in Version : CreateVersion(v)
    BY Zenon, <1>2, DeploymentsFrame DEF CreateVersion, DeploymentsInv, DeploymentTypes
<1>3. CASE \E v \in Version : ReadPrior(v) \/ Deploy(v) \/ DeployFails(v)
    BY Zenon, <1>3, ReadPriorFits, DeployFits, DeployFailsFits
<1>4. ASSUME NEW e \in Execution, EngineStep(e) PROVE UNCHANGED deploymentVars
    BY Zenon, <1>4, EngineLeaves
<1>5. ASSUME Requests PROVE UNCHANGED deploymentVars
    BY Zenon, <1>5 DEF Requests, CreateProfile, StartRun, CopyRun, StartEvaluation, CancelRun,
            AnswerWait, Annotate
<1>6. ASSUME Operators PROVE UNCHANGED deploymentVars
    BY Zenon, <1>6 DEF Operators, ChangeBundle
<1> QED BY Zenon, <1>1, <1>2, <1>3, <1>4, <1>5, <1>6 DEF Next

\* At first there is no execution, evaluation or replay.
LEMMA RunsInitially ==
    ASSUME Init
    PROVE  RunsInv
<1>1. /\ \A e \in Execution : exec[e] = NoExecution /\ ending[e] = None
      /\ \A c \in Copy : replay[c] = "none"
      /\ \A ev \in Evaluation : evaluation[ev] = NoEvaluation
      /\ \A ev \in Evaluation : \A s \in Scenario : results[ev][s] = None
    BY Zenon DEF Init
<1>2. NoEvaluation \in EvaluationRows /\ NoEvaluation.status = "none" /\ NoEvaluation.gate = "pending"
    BY DEF NoEvaluation, EvaluationRows, Points
<1>3. RunTypes
  <2>1. "none" \in {"none", "running", "matched", "diverged", "cancelled", "failed"}
    OBVIOUS
  <2> QED BY Zenon, <1>2, <2>1, InitialRow DEF RunTypes, Init
<1>4. RowsFit /\ EndingsFit
    BY Zenon, <1>1 DEF RowsFit, EndingsFit
<1>5. ASSUME NEW ev \in Evaluation PROVE EvaluationFits(ev)
  <2>1. evaluation[ev].status = "none" /\ evaluation[ev].gate = "pending"
    BY Zenon, <1>1, <1>2
  <2>2. Recorded(ev) # Scenario
    BY Zenon, <1>1, DatasetAssumption DEF Recorded
  <2>3. \A s \in Scenario : results[ev][s] = None /\ exec[<<ev, s>>].status = "none"
    BY Zenon, <1>1, Kinds, InitialRow
  <2>4. "none" # "completed" /\ "pending" # "passed"
    OBVIOUS
  <2> QED BY Zenon, <2>1, <2>2, <2>3, <2>4 DEF EvaluationFits
<1>6. ReplaysFit
  <2>1. "none" # "running"
    OBVIOUS
  <2> QED BY Zenon, <1>1, <2>1 DEF ReplaysFit
<1> QED BY Zenon, <1>3, <1>4, <1>5, <1>6 DEF RunsInv, EvaluationsFit

-----------------------------------------------------------------------------
\* The theorems.

\* The inductive invariant holds at first.
LEMMA ReleasesInitially == Init => ReleasesInv
<1> SUFFICES ASSUME Init PROVE ReleasesInv
    OBVIOUS
<1>1. DeploymentsInv /\ RunsInv
    BY Zenon, DeploymentsInitially, RunsInitially DEF Init
<1>2. 0 \in Nat
    OBVIOUS
<1>3. OtherTypes /\ effects \subseteq Execution /\ OnlyRunsHaveEffects
    BY Zenon, <1>2, BundleAssumption DEF Init, OtherTypes, OnlyRunsHaveEffects
<1> QED BY Zenon, <1>1, <1>3, Parts

\* What a step that changes something is, and that the invariant survives it.
LEMMA ReleasesStep ==
    ASSUME ReleasesInv, [Next]_vars
    PROVE  Outcome /\ ReleasesInv'
<1>1. /\ DeploymentsInv /\ RunsInv /\ OtherTypes
      /\ effects \subseteq Execution /\ OnlyRunsHaveEffects
    BY Zenon, Parts
<1>2. CASE Next
  <2>1. Outcome
    BY Zenon, <1>1, <1>2, Outcomes DEF OtherTypes
  <2>2. DeploymentsInv' /\ RunsInv' /\ OtherTypes'
    BY Zenon, <1>1, <1>2, <2>1, DeploymentsNext, OutcomeFits, OthersFit
  <2>3. effects' \subseteq Execution /\ OnlyRunsHaveEffects'
    BY Zenon, <1>1, <2>1, EffectsFit
  <2>4. ReleasesInv'
    BY Zenon, <2>2, <2>3, PartsLater
  <2> QED BY Zenon, <2>1, <2>4
<1>3. CASE UNCHANGED vars
  <2>1. UNCHANGED deploymentVars /\ UNCHANGED experimentVars
    BY Zenon, <1>3 DEF vars
  <2>2. Outcome
    BY Zenon, <2>1 DEF Outcome, Quiet, experimentVars
  <2>3. OtherTypes'
    BY Zenon, <1>1, <2>1 DEF OtherTypes, experimentVars
  <2>4. DeploymentsInv'
    BY Zenon, <1>1, <2>1, DeploymentsFrame DEF deploymentVars, DeploymentsInv, DeploymentTypes
  <2>5. RunsInv' /\ effects' \subseteq Execution /\ OnlyRunsHaveEffects'
    BY Zenon, <1>1, <2>2, OutcomeFits, EffectsFit
  <2>6. ReleasesInv'
    BY Zenon, <2>3, <2>4, <2>5, PartsLater
  <2> QED BY Zenon, <2>2, <2>6
<1> QED BY Zenon, <1>2, <1>3

\* Deployments, executions, uncommitted ends, evaluations and replays agree at every
\* moment, whatever requests, operators and engine transactions interleave
\* (deploy_workflow_version, advance, settle_evaluation_execution).
THEOREM ReleasesAreConsistent == Spec => []ReleasesInv
<1>1. ReleasesInv /\ [Next]_vars => ReleasesInv'
    BY Zenon, ReleasesStep
<1> QED BY <1>1, ReleasesInitially, PTL DEF Spec

\* A workflow that was deployed has an active deployment (deploy_workflow_version).
THEOREM DeployedWorkflowsServe == Spec => []SomeVersionServes
<1>1. ReleasesInv => SomeVersionServes
    BY Zenon DEF ReleasesInv
<1> QED BY <1>1, ReleasesAreConsistent, PTL

\* Two active deployments of one workflow come only of transactions that overlapped
\* (deploy_workflow_version).
THEOREM OnlyOverlapsShareAWorkflow == Spec => []OneServesUnlessOverlapped
<1>1. ReleasesInv => OneServesUnlessOverlapped
    BY Zenon DEF ReleasesInv
<1> QED BY <1>1, ReleasesAreConsistent, PTL

\* No fork, replay or evaluation sends a tool's effect, through a subworkflow neither
\* (require_simulation_profile, _subworkflow_reference_issues).
THEOREM ExperimentsHaveNoEffects == Spec => []OnlyRunsHaveEffects
<1>1. ReleasesInv => OnlyRunsHaveEffects
    BY Zenon DEF ReleasesInv
<1> QED BY <1>1, ReleasesAreConsistent, PTL

\* An evaluation is complete exactly when every scenario has a result, however the
\* settlements interleave (settle_evaluation_execution).
THEOREM TheLastResultCompletes == Spec => []LastResultCompletes
<1>1. ReleasesInv => LastResultCompletes
    BY Zenon DEF ReleasesInv, EvaluationsFit, EvaluationFits, LastResultCompletes
<1> QED BY <1>1, ReleasesAreConsistent, PTL

\* A running evaluation or replay has an unfinished execution whose end will settle it
\* (settle_evaluation_execution, settle_workflow_replay, finalize_cancelled_once).
THEOREM NoVerdictIsForgotten == Spec => []VerdictIsComing
<1>1. ReleasesInv => VerdictIsComing
  <2> SUFFICES ASSUME ReleasesInv PROVE VerdictIsComing
    OBVIOUS
  <2>1. "running" # "completed" /\ "running" # "none"
    OBVIOUS
  <2>2. ASSUME NEW ev \in Evaluation, evaluation[ev].status = "running"
        PROVE  \E s \in Scenario : results[ev][s] = None /\ Unfinished(<<ev, s>>)
    <3>1. EvaluationFits(ev)
      BY Zenon DEF ReleasesInv, EvaluationsFit
    <3>2. Recorded(ev) # Scenario
      BY Zenon, <2>1, <2>2, <3>1 DEF EvaluationFits
    <3>3. PICK s \in Scenario : results[ev][s] = None
      BY Zenon, <3>2 DEF Recorded
    <3> QED BY Zenon, <2>1, <2>2, <3>1, <3>3 DEF EvaluationFits
  <2>3. \A c \in Copy : replay[c] = "running" => Unfinished(c)
    BY Zenon DEF ReleasesInv, ReplaysFit
  <2> QED BY Zenon, <2>2, <2>3 DEF VerdictIsComing
<1> QED BY <1>1, ReleasesAreConsistent, PTL

\* The score of a complete evaluation is the mean of its results, which are all there.
LEMMA CompleteScores ==
    ASSUME ReleasesInv, NEW ev \in Evaluation, evaluation[ev].status = "completed"
    PROVE  LET n == Cardinality(Scenario)
               q == evaluation[ev].score
               t == Total(results[ev])
           IN  q \in Int /\ t \in Int /\ n * q <= t /\ t < n * q + n
<1>1. EvaluationFits(ev) /\ results[ev] \in [Scenario -> ResultRows \cup {None}]
    BY Zenon DEF ReleasesInv, EvaluationsFit, TypeOK
<1>2. \A s \in Scenario : results[ev][s] \in ResultRows
    BY Zenon, <1>1 DEF EvaluationFits, Recorded
<1>3. \A s \in Scenario : results[ev][s].score \in Points
    BY <1>2 DEF ResultRows
<1>4. evaluation[ev].score = Mean(results[ev])
    BY Zenon, <1>1 DEF EvaluationFits
<1> QED BY Zenon, <1>3, <1>4, MeanBounds

\* A gate that passed is borne out by the results of the evaluation and of its baseline,
\* for every dataset, minimum and bound (settle_evaluation_execution).
THEOREM GatesAreEarned == Spec => []GateIsEarned
<1>1. ReleasesInv => GateIsEarned
  <2> SUFFICES ASSUME ReleasesInv PROVE GateIsEarned
    OBVIOUS
  <2> SUFFICES ASSUME NEW ev \in Evaluation, evaluation[ev].gate = "passed"
               PROVE  LET n == Cardinality(Scenario)
                          total == Total(results[ev])
                          b == BaselineOf[ev]
                      IN  /\ total >= n * Minimum
                          /\ b # None => total > Total(results[b]) - n * (MaxRegression + 1)
    BY Zenon DEF GateIsEarned
  <2>1. PICK n, b, q, t : /\ n = Cardinality(Scenario) /\ b = BaselineOf[ev]
                          /\ q = evaluation[ev].score /\ t = Total(results[ev])
    BY Zenon
  <2>2. "completed" # "none"
    OBVIOUS
  <2>3. /\ evaluation[ev].status = "completed" /\ q >= Minimum
        /\ b # None => /\ q - evaluation[b].score >= - MaxRegression
                       /\ evaluation[b].status = "completed"
    BY Zenon, <2>1, <2>2 DEF ReleasesInv, EvaluationsFit, EvaluationFits
  <2>4. q \in Int /\ t \in Int /\ n * q <= t /\ t < n * q + n
    BY Zenon, <2>1, <2>3, CompleteScores
  <2>5. n \in Nat /\ n # 0
    BY Zenon, <2>1, ScenariosAreCounted
  <2>6. Minimum \in Int /\ MaxRegression \in Int
    BY DatasetAssumption, PointsAre
  <2>7. t >= n * Minimum
    BY <2>3, <2>4, <2>5, <2>6, ReachesMinimum
  <2>8. ASSUME b # None PROVE t > Total(results[b]) - n * (MaxRegression + 1)
    <3>1. b \in Evaluation /\ evaluation[b].status = "completed"
      BY Zenon, <2>1, <2>3, <2>8, DatasetAssumption
    <3>2. PICK p, u : p = evaluation[b].score /\ u = Total(results[b])
      BY Zenon
    <3>3. p \in Int /\ u \in Int /\ u < n * p + n
      BY Zenon, <2>1, <3>1, <3>2, CompleteScores
    <3>4. q - p >= - MaxRegression
      BY Zenon, <2>3, <2>8, <3>2
    <3>5. t > u - n * (MaxRegression + 1)
      BY <2>4, <2>5, <2>6, <3>3, <3>4, RegressesLittle
    <3> QED BY Zenon, <3>2, <3>5
  <2> QED BY Zenon, <2>1, <2>7, <2>8
<1> QED BY <1>1, ReleasesAreConsistent, PTL

\* What one step may not revise.
Finality ==
    /\ \A ev \in Evaluation : \A s \in Scenario :
          results[ev][s] # None => results'[ev][s] = results[ev][s]
    /\ \A ev \in Evaluation :
          evaluation[ev].status = "completed" => evaluation'[ev] = evaluation[ev]
    /\ \A c \in Copy : replay[c] \notin {"none", "running"} => replay'[c] = replay[c]
    /\ \A e \in Execution :
          exec[e].status \in Terminal => exec'[e].status = exec[e].status

\* Every kind of step keeps to it.
LEMMA OutcomesAreFinal ==
    ASSUME RunsInv, Outcome
    PROVE  Finality
<1>1. "completed" # "none" /\ "none" \notin Terminal
    BY DEF Terminal
<1>2. CASE Quiet
    BY Zenon, <1>2 DEF Quiet, Finality
<1>3. CASE \E e \in Execution : \E x : Moves(e, x)
  <2>1. PICK e, x : e \in Execution /\ Moves(e, x)
    BY Zenon, <1>3
  <2>2. /\ \A f \in Execution : f # e => Same(f)
        /\ evaluation' = evaluation /\ results' = results
        /\ \A c \in Copy : replay[c] # "running" => replay'[c] = replay[c]
        /\ exec[e].status \in Terminal => exec'[e].status = exec[e].status
    BY Zenon, <2>1, MovesOne
  <2> QED BY Zenon, <2>2 DEF Finality, Same
<1>4. CASE \E e \in Execution : \E x : Starts(e, x) /\ effects' = effects
  <2>1. /\ \A f \in Execution : exec[f].status # "none" => Same(f)
        /\ evaluation' = evaluation /\ results' = results
        /\ \A c \in Copy : replay[c] # "none" => replay'[c] = replay[c]
    BY Zenon, <1>4, StartsOne
  <2> QED BY Zenon, <1>1, <2>1 DEF Finality, Same
<1>5. CASE \E ev \in Evaluation, v \in Sound, named \in BOOLEAN :
               StartEvaluation(ev, v, named) /\ effects' = effects
  <2>1. /\ \A f \in Execution : exec[f].status # "none" => Same(f)
        /\ \A w \in Evaluation : evaluation[w].status # "none" => evaluation'[w] = evaluation[w]
        /\ results' = results /\ replay' = replay
    BY Zenon, <1>5, EvaluationStartsAlone
  <2> QED BY Zenon, <1>1, <2>1 DEF Finality, Same
<1>6. CASE \E e \in Execution : CommitEnd(e) /\ effects' = effects
  <2>1. PICK e \in Execution : CommitEnd(e)
    BY Zenon, <1>6
  <2>2. /\ \A f \in Execution : f # e => Same(f)
        /\ replay' = replay
        /\ exec[e].status \in Terminal => exec'[e].status = exec[e].status
        /\ \A w \in Evaluation :
               /\ evaluation[w].status = "completed" => evaluation'[w] = evaluation[w]
               /\ \A t \in Scenario : results[w][t] # None => results'[w][t] = results[w][t]
    BY Zenon, <2>1, CommitsOne
  <2> QED BY Zenon, <2>2 DEF Finality, Same
<1> QED BY Zenon, <1>2, <1>3, <1>4, <1>5, <1>6 DEF Outcome

\* No step revises a result, a complete evaluation, a settled replay or an execution
\* that has ended (settle_evaluation_execution, create_evaluation_annotation).
THEOREM NoVerdictIsRevised == Spec => VerdictsAreFinal
<1>1. ReleasesInv /\ [Next]_vars => [Finality]_vars
    BY Zenon, ReleasesStep, OutcomesAreFinal, Parts
<1> QED BY <1>1, ReleasesAreConsistent, PTL DEF Spec, VerdictsAreFinal, Finality

\* The row an execution has after the step, committed or not.
RowAfter(e) == IF ending'[e] # None THEN ending'[e].row ELSE exec'[e]

\* The execution of a node by any kind of step is one its policy allows.
LEMMA OutcomesAreAllowed ==
    ASSUME RunsInv, Outcome, NEW f \in Execution,
           exec[f].status = "queued", ending[f] = None, Len(RowAfter(f).path) > Len(exec[f].path)
    PROVE  PolicyAllows(exec[f])
<1>1. exec[f].status # "none"
    OBVIOUS
<1>2. RowAfter(f).path # exec[f].path
  <2>1. exec[f].path \in Seq(Nat \ {0})
    BY DEF RunsInv, RunTypes, Rows
  <2>2. Len(exec[f].path) \in Nat
    BY <2>1
  <2>3. ~ (Len(exec[f].path) > Len(exec[f].path))
    BY <2>2
  <2> QED BY Zenon, <2>3
<1>3. ~ Same(f)
    BY Zenon, <1>2 DEF Same, RowAfter
<1>4. CASE Quiet
    BY Zenon, <1>3, <1>4 DEF Quiet, Same
<1>5. CASE \E e \in Execution : \E x : Moves(e, x)
  <2>1. PICK e, x : e \in Execution /\ Moves(e, x)
    BY Zenon, <1>5
  <2>2. f = e /\ RowAfter(e) = x
    BY Zenon, <1>3, <2>1, MovesOne DEF RowAfter
  <2> QED BY Zenon, <1>2, <2>1, <2>2 DEF Moves
<1>6. CASE \E e \in Execution : \E x : Starts(e, x) /\ effects' = effects
    BY Zenon, <1>1, <1>3, <1>6, StartsOne
<1>7. CASE \E ev \in Evaluation, v \in Sound, named \in BOOLEAN :
               StartEvaluation(ev, v, named) /\ effects' = effects
    BY Zenon, <1>1, <1>3, <1>7, EvaluationStartsAlone
<1>8. CASE \E e \in Execution : CommitEnd(e) /\ effects' = effects
    BY Zenon, <1>3, <1>8, CommitsOne
<1> QED BY Zenon, <1>4, <1>5, <1>6, <1>7, <1>8 DEF Outcome

\* A node with a policy does its work only if the document of now allows it, however
\* long the execution has waited (evaluate_workflow_node_policy).
THEOREM PoliciesAreCurrent == Spec => PolicyIsCurrent
<1>1. ReleasesInv /\ [Next]_vars =>
        [ \A e \in Execution :
            LET x == exec[e]
                y == IF ending'[e] # None THEN ending'[e].row ELSE exec'[e]
            IN  x.status = "queued" /\ ending[e] = None /\ Len(y.path) > Len(x.path)
                    /\ NodeOf(x).guarded
                => /\ bundle.status = "active"
                   /\ Effect(bundle.document.rules, Context) = "allow" ]_vars
  <2> SUFFICES ASSUME ReleasesInv, [Next]_vars, NEW f \in Execution,
                      exec[f].status = "queued", ending[f] = None,
                      Len(RowAfter(f).path) > Len(exec[f].path), NodeOf(exec[f]).guarded
               PROVE  bundle.status = "active" /\ Effect(bundle.document.rules, Context) = "allow"
    BY Zenon DEF RowAfter
  <2>1. RunsInv /\ Outcome
    BY Zenon, ReleasesStep, Parts
  <2> QED BY Zenon, <2>1, OutcomesAreAllowed DEF PolicyAllows
<1> QED BY <1>1, ReleasesAreConsistent, PTL DEF Spec, PolicyIsCurrent
=============================================================================
