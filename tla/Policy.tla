------------------------------- MODULE Policy -------------------------------
(***************************************************************************)
(* The typed policy engine and the decisions of workflow nodes.            *)
(*                                                                         *)
(* A bundle is its catalogue status, its document (whether it is enabled,  *)
(* and its ordered rules), and whether valid_until has passed.  The        *)
(* document stands for its content digest.                                 *)
(***************************************************************************)
EXTENDS Integers, Sequences, FiniteSets

\* A rule with no maximum_amount_minor.
NoMaximum == -1

\* The conditions under which evaluate skips a rule, negated.
Matches(rule, context) ==
    /\ rule.action = context.action
    /\ context.environment \in rule.environments
    /\ context.risk \in rule.risks
    /\ rule.maximum = NoMaximum \/ context.amount <= rule.maximum

Matching(rules, context) == {i \in DOMAIN rules : Matches(rules[i], context)}

\* The first rule that matches decides; none denies.
Effect(rules, context) ==
    LET matching == Matching(rules, context)
    IN  IF matching = {} THEN "deny"
        ELSE rules[CHOOSE i \in matching : \A j \in matching : i <= j].effect

\* evaluate raises for a disabled document and for one whose valid_until has passed.
Evaluates(bundle) == bundle.document.enabled /\ ~ bundle.expired

\* evaluate_workflow_node_policy raises for a bundle that is not active.
Available(bundle) == bundle.status = "active"

\* No decision on the node at hand yet.
NoDocument == [enabled |-> FALSE, rules |-> <<>>]
NoDecision == [seq |-> -1, effect |-> "none", digest |-> NoDocument]

\* Mutant: a decision is reused whatever the bundle has become.
ReusesAnyDocument(decision, bundle, seq) == decision.seq = seq

\* The latest decision on this node and step, if it has not expired, is reused.
Reusable(decision, bundle, seq) == decision.seq = seq /\ decision.digest = bundle.document

\* evaluate_workflow_node_policy, where it does not raise; ten minutes have passed
\* since the latest decision or not.
Decision(decision, bundle, context, seq, expired) ==
    IF ~ expired /\ Reusable(decision, bundle, seq) THEN decision
    ELSE [seq |-> seq, effect |-> Effect(bundle.document.rules, context),
          digest |-> bundle.document]

\* The node policy lets the node execute.
Permits(decision, bundle, context, seq, expired) ==
    /\ Available(bundle)
    /\ (~ expired /\ Reusable(decision, bundle, seq)) \/ Evaluates(bundle)
    /\ Decision(decision, bundle, context, seq, expired).effect = "allow"
=============================================================================
