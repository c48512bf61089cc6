------------------------ MODULE MCDecisionEvaluation ------------------------
(***************************************************************************)
(* TLC instances of DecisionEvaluation: a risk score, a role and the       *)
(* protocol of the instance, with rules that use every operator.           *)
(***************************************************************************)
EXTENDS DecisionEvaluation, TLC

Number(n) == <<"number", n>>
Text(n) == <<"text", n>>
List(S) == <<"list", S>>

(* Text 2 contains text 1. *)
MCPartOf == {<<1, 1>>, <<2, 2>>, <<3, 3>>, <<1, 2>>}

When(field, op, value) == [field |-> field, op |-> op, value |-> value]
Rule(conditions, outcome) == [conditions |-> conditions, outcome |-> outcome]

MCRules ==
  {Rule(<<>>, "PERMIT"),
   Rule(<<When("risk", ">=", Number(2))>>, "DENY"),
   Rule(<<When("risk", "<", Number(2))>>, "INDETERMINATE"),
   Rule(<<When("risk", "<=", Number(2)), When("role", "==", Text(1))>>, "PERMIT"),
   Rule(<<When("role", "!=", Text(1))>>, "DENY"),
   Rule(<<When("role", "in", List({Text(1), Number(1)}))>>, "PERMIT"),
   Rule(<<When("role", "not_in", Text(2))>>, "INDETERMINATE"),
   Rule(<<When("protocol", ">", Text(1)), When("risk", "in", Number(1))>>, "DENY"),
   Rule(<<When("protocol", "==", Text(2))>>, "NOT_APPLICABLE")}

MCInstances ==
  {<<>>, "protocol" :> Text(1), "protocol" :> Text(2)}

MCSupplied ==
  [risk |-> {Number(1), Number(2), Text(1)},
   role |-> {Text(1), Text(3), Number(1)},
   protocol |-> {Text(3), Null}]
=============================================================================
