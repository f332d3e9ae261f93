--------------------------- MODULE WorkflowGraph ---------------------------
(***************************************************************************)
(* Workflow definitions: typed nodes and labelled edges, the structural    *)
(* rules validate_workflow_definition enforces before a deployment, and    *)
(* the scheduler's reading of them: which current node is ready, and which *)
(* nodes follow a completed one.                                           *)
(*                                                                         *)
(* Several definitions share Node; a definition is what its entry node     *)
(* reaches.  Node ids are numbers because the scheduler sorts them.  The   *)
(* rules on names, keys and limits of node configurations are data.        *)
(***************************************************************************)
EXTENDS Naturals, FiniteSets

CONSTANTS
    Node,           \* node ids, in the order the engine sorts them
    Entry,          \* the entry nodes of the deployed definitions
    TypeOf,         \* [Node -> WorkflowNodeType]
    Edge,           \* records [source, target, branch]
    MaxIterations,  \* [Node -> config.max_iterations of a bounded loop]
    Referenced      \* [Node -> the entry a subworkflow node's deployment has]

WaitTypes == {"timer", "event", "approval", "request_information"}
NodeTypes == WaitTypes \cup
    {"input", "output", "condition", "parallel", "join", "bounded_loop", "subworkflow"}

Outgoing(n) == {d \in Edge : d.source = n}
Incoming(n) == {d \in Edge : d.target = n}
Along(n, branches) == {d.target : d \in {o \in Outgoing(n) : o.branch \in branches}}
Parents(n) == {d.source : d \in Incoming(n)}

\* The nodes reachable from an entry, found edge by edge.
Reachable(entry) ==
    LET within[k \in 0..Cardinality(Node)] ==
            IF k = 0 THEN {entry}
            ELSE LET before == within[k - 1]
                 IN  before \cup {d.target : d \in {o \in Edge : o.source \in before}}
    IN  within[Cardinality(Node)]

\* A node that has exactly one outgoing edge for each of the given branches.
Branches(n, branches) ==
    /\ Cardinality(Outgoing(n)) = Cardinality(branches)
    /\ {d.branch : d \in Outgoing(n)} = branches

\* The edges a node of each type must have.
NodeShape(n) ==
    CASE TypeOf[n] = "output" -> Outgoing(n) = {}
      [] TypeOf[n] = "condition" -> Branches(n, {"true", "false"})
      [] TypeOf[n] = "parallel" ->
            Cardinality(Outgoing(n)) >= 2 /\ \A d \in Outgoing(n) : d.branch = "default"
      [] TypeOf[n] = "join" -> Cardinality(Incoming(n)) >= 2 /\ Cardinality(Outgoing(n)) = 1
      [] TypeOf[n] = "bounded_loop" ->
            Branches(n, {"continue", "exit"}) /\ MaxIterations[n] > 0
      [] TypeOf[n] = "approval" -> Branches(n, {"approved", "denied"})
      [] TypeOf[n] \in {"timer", "event", "request_information", "subworkflow"} ->
            Branches(n, {"default"})
      [] OTHER -> Cardinality(Outgoing(n)) = 1

\* A set of nodes in which every node has a successor holds a cycle.
UnboundedCycle(nodes) ==
    \E S \in SUBSET {n \in nodes : TypeOf[n] # "bounded_loop"} :
        /\ S # {}
        /\ \A n \in S : \E d \in Outgoing(n) : d.target \in S

\* What a definition may not combine with a parallel fan-out.
ParallelMix(nodes) ==
    /\ \E n \in nodes : TypeOf[n] = "parallel"
    /\ \E n \in nodes : TypeOf[n] \in WaitTypes \cup {"subworkflow"}

\* The definition with this entry node is valid and executable.
Executable(entry) ==
    LET nodes == Reachable(entry)
    IN  /\ TypeOf[entry] = "input"
        /\ Incoming(entry) = {}
        /\ \E n \in nodes : TypeOf[n] = "output"
        /\ \A n \in nodes : TypeOf[n] \in NodeTypes /\ NodeShape(n)
        /\ ~ UnboundedCycle(nodes)
        /\ ~ ParallelMix(nodes)

\* The deployments a definition refers to exist and do not refer back to it.
References(entry) ==
    {Referenced[n] : n \in {m \in Reachable(entry) : TypeOf[m] = "subworkflow"}}

AcyclicReferences ==
    /\ \A entry \in Entry : References(entry) \subseteq Entry
    /\ ~ \E S \in SUBSET Entry : S # {} /\ \A entry \in S : References(entry) \cap S # {}

\* Only validated definitions are deployed, and every node is one of theirs.
ASSUME DeploymentAssumption ==
    /\ Node \subseteq Nat
    /\ IsFiniteSet(Node)
    /\ Entry \subseteq Node
    /\ \A n \in Node : \E entry \in Entry : n \in Reachable(entry)
    /\ \A d \in Edge : d.source \in Node /\ d.target \in Node
    /\ MaxIterations \in [Node -> Nat]
    /\ \A entry \in Entry : Executable(entry)
    /\ AcyclicReferences

-----------------------------------------------------------------------------
\* Mutant: a join runs after any of its predecessors.
AnyPredecessor(n, completed) == TypeOf[n] = "join" => Parents(n) \cap completed # {}

\* _node_ready: a join waits until all its predecessors have completed.
NodeReady(n, completed) == TypeOf[n] = "join" => Parents(n) \subseteq completed

Ready(current, completed) == {n \in current : NodeReady(n, completed)}

\* The scheduler sorts node ids and takes the first.
First(nodes, n) == n \in nodes /\ \A m \in nodes : n <= m

\* The nodes on a path, and a run_checkpoints row.
Completed(p) == {p[i] : i \in DOMAIN p}
Checkpoint(c, p, l) == [current |-> c, path |-> p, loops |-> l]
FreshLoops == [n \in Node |-> 0]

\* The branches a node may take: a condition reads the state, an approval its
\* resolution, a loop its counter; the other nodes have only one way on.
BranchesTaken(n, count) ==
    CASE TypeOf[n] = "condition" -> {"true", "false"}
      [] TypeOf[n] = "approval" -> {"approved", "denied"}
      [] TypeOf[n] = "bounded_loop" ->
            IF count < MaxIterations[n] THEN {"continue"} ELSE {"exit"}
      [] OTHER -> {"default"}

\* _next_nodes: a join's edge may carry any label, the other rules name theirs.
NextNodes(n, branch) ==
    IF TypeOf[n] \in {"condition", "approval", "bounded_loop"}
    THEN Along(n, {branch})
    ELSE {d.target : d \in Outgoing(n)}

\* _next_nodes counts an iteration only when it continues the loop.
LoopCount(n, branch, count) ==
    IF TypeOf[n] = "bounded_loop" /\ branch = "continue" THEN count + 1 ELSE count
=============================================================================
