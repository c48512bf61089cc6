-------------------------- MODULE DecisionEvaluation --------------------------
(***************************************************************************)
(* A decision table while its author adds rules to it, and the context     *)
(* while a client supplies more of it: what each rule and each further     *)
(* fact does to the decision.                                              *)
(***************************************************************************)
EXTENDS DecisionTable, FiniteSets, Functions

CONSTANTS
  Rules,       \* the rules an author may add
  Instances,   \* the contexts that instances give by themselves
  Supplied,    \* the values clients supply, per field
  MaxRules,    \* bound on the rules of the table
  MaxExtra     \* bound on the fields supplied

ASSUME EvaluationBounds == MaxRules \in Nat /\ MaxExtra \in Nat

(* Lists have an order in Python too; here no ordering operator meets one. *)
ASSUME ListsAreNotOrdered ==
  \A r \in Rules : \A k \in DOMAIN r.conditions :
    r.conditions[k].op \in {"<", "<=", ">", ">="}
      => r.conditions[k].value[1] # "list"

VARIABLES
  policy,    \* the hit policy
  rules,     \* the rules of the table, first one first
  instance,  \* the context extracted from the instance; empty without one
  extra      \* extra_context

vars == <<policy, rules, instance, extra>>

Context == BuildContext(instance, extra)
Decision == Evaluate(rules, policy, Context)

Init ==
  /\ policy \in Policies
  /\ rules = <<>>
  /\ instance \in Instances
  /\ extra = <<>>

AddRule(rule) ==
  /\ Len(rules) < MaxRules
  /\ rules' = Append(rules, rule)
  /\ UNCHANGED <<policy, instance, extra>>

SupplyExtra(field, value) ==
  /\ Cardinality(DOMAIN extra) < MaxExtra
  /\ field \notin DOMAIN extra
  /\ extra' = [f \in DOMAIN extra \cup {field} |->
                 IF f = field THEN value ELSE extra[f]]
  /\ UNCHANGED <<policy, rules, instance>>

Next ==
  \/ \E rule \in Rules : AddRule(rule)
  \/ \E field \in DOMAIN Supplied : \E value \in Supplied[field] :
       SupplyExtra(field, value)

Spec == Init /\ [][Next]_vars

-----------------------------------------------------------------------------
Answered == Decision.decision # Raised

Strictness == [PERMIT |-> 1, INDETERMINATE |-> 2, DENY |-> 3]

RespectsPolicy ==
  Answered /\ Answered' /\ Decision.matched # {} /\ rules' # rules =>
    CASE policy = "FIRST" -> Decision' = Decision
      [] policy = "COLLECT" ->
           Strictness[Decision.decision] <= Strictness[Decision'.decision]
      [] policy = "UNIQUE" ->
           Decision.error => Decision'.error

(* Adding a rule never weakens an answer already given, unless evaluating  *)
(* the new rule raises: under FIRST an answer stays what it was, under     *)
(* COLLECT it only gets stricter, and an ambiguity under UNIQUE remains    *)
(* (the hit policies of evaluate_decision_table).                          *)
NewRuleRespectsPolicy == [][RespectsPolicy]_vars

KeepsMatches ==
  \A f \in DOMAIN extra' \ DOMAIN extra :
    ~Known(Context, f)
      => \A i \in DOMAIN rules :
           RuleMatches(rules[i], Context) => RuleMatches(rules[i], Context')

(* A field that was absent so far satisfied no condition, != and not_in    *)
(* included, so learning its value can only add matching rules: nothing    *)
(* is permitted or denied for want of evidence (Condition.evaluate).  A    *)
(* value that overrides the instance's may take matches away.              *)
NewFactKeepsMatches == [][KeepsMatches]_vars

(* What the receipt lists as dimensions_checked is evidence enough: all    *)
(* of these fields were known, and the same table evaluated on them alone  *)
(* gives the same answer (_handle_evaluate_decision).                      *)
DimensionsReproduceDecision ==
  Answered =>
    LET dims == DimensionsChecked(rules, Decision)
        evidence == [f \in dims \cap DOMAIN Context |-> Context[f]]
    IN  /\ \A f \in dims : Known(Context, f)
        /\ Evaluate(rules, policy, evidence) = Decision

(* Under UNIQUE and COLLECT the order in which the rules are written       *)
(* decides nothing: neither the outcome nor the status code, nor whether   *)
(* the evaluation raises (evaluate_decision_table).                        *)
RuleOrderIsIrrelevant ==
  policy \in {"UNIQUE", "COLLECT"} =>
    \A order \in Bijection(DOMAIN rules, DOMAIN rules) :
      LET reordered == Evaluate([i \in DOMAIN rules |-> rules[order[i]]],
                                policy, Context)
      IN  /\ reordered.decision = Decision.decision
          /\ StatusCode(reordered) = StatusCode(Decision)
=============================================================================
