---------------------------- MODULE DecisionTable ----------------------------
(***************************************************************************)
(* Decision tables (decision.py): conditions, rules, hit policies, the     *)
(* context a table is evaluated in, and what evaluate_decision derives     *)
(* from the result for the receipt.  No state: DecisionEvaluation is built *)
(* on these operators.                                                     *)
(*                                                                         *)
(* A value is a pair of a kind and a payload: <<"null", 0>>,               *)
(* <<"number", n>>, <<"text", n>> with n the rank of the text in           *)
(* code-point order, or <<"list", S>> with S the set of its members.       *)
(* Whether a text contains another is the constant relation PartOf.        *)
(* A rule is [conditions, outcome], its conditions a sequence of           *)
(* [field, op, value]; a context is a function from fields to values.      *)
(***************************************************************************)
EXTENDS Integers, Sequences

CONSTANT PartOf

Null == <<"null", 0>>
Raised == "raised"

Policies == {"FIRST", "UNIQUE", "COLLECT"}
Outcomes == {"PERMIT", "DENY", "INDETERMINATE", "NOT_APPLICABLE"}

-----------------------------------------------------------------------------
(* ComparisonOp.evaluate *)

(* Only numbers with numbers and texts with texts have an order; the       *)
(* TypeError of any other pair counts as "does not hold".                  *)
Ordered(left, right) == left[1] = right[1] /\ left[1] \in {"number", "text"}

(* Nothing guards membership: it raises unless the right side is a list,   *)
(* or both sides are texts.                                                *)
OpRaises(op, left, right) ==
  /\ op \in {"in", "not_in"}
  /\ right[1] # "list"
  /\ ~(right[1] = "text" /\ left[1] = "text")

Member(left, right) ==
  IF right[1] = "list" THEN left \in right[2]
  ELSE <<left[2], right[2]>> \in PartOf

OpHolds(op, left, right) ==
  CASE op = "=="     -> left = right
    [] op = "!="     -> left # right
    [] op = "<"      -> Ordered(left, right) /\ left[2] < right[2]
    [] op = "<="     -> Ordered(left, right) /\ left[2] <= right[2]
    [] op = ">"      -> Ordered(left, right) /\ left[2] > right[2]
    [] op = ">="     -> Ordered(left, right) /\ left[2] >= right[2]
    [] op = "in"     -> Member(left, right)
    [] op = "not_in" -> ~Member(left, right)

-----------------------------------------------------------------------------
(* Condition.evaluate: an absent or null field satisfies no operator.      *)

Known(context, field) == field \in DOMAIN context /\ context[field] # Null

ConditionRaises(c, context) ==
  /\ Known(context, c.field)
  /\ OpRaises(c.op, context[c.field], c.value)

(* Mutant: an absent field differs from every value. *)
ConditionHoldsAbsentDiffers(c, context) ==
  IF Known(context, c.field)
  THEN ~ConditionRaises(c, context)
       /\ OpHolds(c.op, context[c.field], c.value)
  ELSE c.op \in {"!=", "not_in"}

ConditionHolds(c, context) ==
  /\ Known(context, c.field)
  /\ ~ConditionRaises(c, context)
  /\ OpHolds(c.op, context[c.field], c.value)

(* Rule.evaluate: conditions in order, up to the first that fails. *)

RuleMatches(rule, context) ==
  \A k \in DOMAIN rule.conditions : ConditionHolds(rule.conditions[k], context)

RuleRaises(rule, context) ==
  \E k \in DOMAIN rule.conditions :
    /\ ConditionRaises(rule.conditions[k], context)
    /\ \A j \in 1..(k - 1) : ConditionHolds(rule.conditions[j], context)

-----------------------------------------------------------------------------
(* evaluate_decision_table.  Every rule is evaluated before the hit policy *)
(* is looked at, so an exception in any rule ends the evaluation.          *)

(* The rules that match, by their places in the table. *)
MatchedRules(rules, context) ==
  {i \in DOMAIN rules : RuleMatches(rules[i], context)}

(* Mutant: INDETERMINATE is tested for before DENY. *)
CollectedSwapped(outcomes) ==
  IF "INDETERMINATE" \in outcomes THEN "INDETERMINATE"
  ELSE IF "DENY" \in outcomes THEN "DENY" ELSE "PERMIT"

Collected(outcomes) ==
  IF "DENY" \in outcomes THEN "DENY"
  ELSE IF "INDETERMINATE" \in outcomes THEN "INDETERMINATE"
  ELSE "PERMIT"

Result(decision, matched, error) ==
  [decision |-> decision, matched |-> matched, error |-> error]

FirstOf(matched) == CHOOSE i \in matched : \A j \in matched : i <= j
Several(matched) == \E i, j \in matched : i # j

(* Mutant: of several matches the latest rule decides. *)
ResolveLatest(policy, rules, matched) ==
  LET latest == CHOOSE i \in matched : \A j \in matched : j <= i
  IN  CASE matched = {} -> Result("NOT_APPLICABLE", {}, FALSE)
        [] matched # {} /\ policy = "COLLECT" ->
             Result(Collected({rules[i].outcome : i \in matched}),
                    matched, FALSE)
        [] OTHER -> Result(rules[latest].outcome, {latest}, FALSE)

Resolve(policy, rules, matched) ==
  CASE matched = {} -> Result("NOT_APPLICABLE", {}, FALSE)
    [] matched # {} /\ policy = "COLLECT" ->
         Result(Collected({rules[i].outcome : i \in matched}), matched, FALSE)
    [] Several(matched) /\ policy = "UNIQUE" ->
         Result("INDETERMINATE", matched, TRUE)
    [] OTHER ->
         Result(rules[FirstOf(matched)].outcome, {FirstOf(matched)}, FALSE)

Raises(rules, context) == \E i \in DOMAIN rules : RuleRaises(rules[i], context)

Evaluate(rules, policy, context) ==
  IF Raises(rules, context) THEN Result(Raised, {}, TRUE)
  ELSE Resolve(policy, rules, MatchedRules(rules, context))

-----------------------------------------------------------------------------
(* build_context_from_instance: the extra values override the instance's. *)
BuildContext(instance, extra) ==
  [f \in DOMAIN instance \cup DOMAIN extra |->
     IF f \in DOMAIN extra THEN extra[f] ELSE instance[f]]

FieldsOf(rule) ==
  {rule.conditions[k].field : k \in DOMAIN rule.conditions}

(* Mutant: only the fields of the first rule that matched. *)
DimensionsCheckedFirst(rules, result) ==
  IF result.matched = {} THEN {} ELSE FieldsOf(rules[FirstOf(result.matched)])

(* _handle_evaluate_decision: the fields of the rules that took part, as   *)
(* the receipt's dimensions_checked (their order is left out).             *)
DimensionsChecked(rules, result) ==
  UNION {FieldsOf(rules[i]) : i \in result.matched}

StatusCode(result) == IF result.error THEN "PROCESSING_ERROR" ELSE "OK"
=============================================================================
