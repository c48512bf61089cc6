----------------------- MODULE DecisionEvaluationProofs -----------------------
(***************************************************************************)
(* Decision tables, for every set of rules, whatever their conditions test *)
(* and in whatever order facts and rules arrive.                           *)
(***************************************************************************)
EXTENDS DecisionEvaluation, OperatorLemmas

-----------------------------------------------------------------------------
(* A table's rules are a list, and its hit policy is one of the three.     *)
Typed == IsList(rules) /\ policy \in Policies

(* Neither a new rule nor a new fact breaks the table.                     *)
LEMMA TypeInvariant == Spec => []Typed
<1>1. Init => Typed
  BY EmptyList DEF Init, Typed
<1>2. Typed /\ [Next]_vars => Typed'
  <2>1. ASSUME Typed, NEW rule, AddRule(rule) PROVE Typed'
    BY <2>1, AppendToList DEF AddRule, Typed
  <2>2. ASSUME Typed, NEW field, NEW value, SupplyExtra(field, value)
        PROVE  Typed'
    BY <2>2 DEF SupplyExtra, Typed
  <2>3. ASSUME Typed, UNCHANGED vars PROVE Typed'
    BY <2>3 DEF vars, Typed
  <2> QED BY <2>1, <2>2, <2>3 DEF Next
<1> QED BY <1>1, <1>2, PTL DEF Spec

-----------------------------------------------------------------------------
(* An answer comes of the rules that match, by the hit policy.             *)
LEMMA AnswerIsResolved ==
  ASSUME NEW rs, NEW p, NEW c, Evaluate(rs, p, c).decision # Raised
  PROVE  /\ ~Raises(rs, c)
         /\ Evaluate(rs, p, c) = Resolve(p, rs, MatchedRules(rs, c))
<1>1. CASE Raises(rs, c)
  <2>1. Evaluate(rs, p, c) = Result(Raised, {}, TRUE)
    BY <1>1 DEF Evaluate
  <2>2. Evaluate(rs, p, c).decision = Raised
    BY <2>1 DEF Result
  <2> QED BY <2>2
<1>2. CASE ~Raises(rs, c)
  BY <1>2 DEF Evaluate
<1> QED BY <1>1, <1>2

(* What each hit policy makes of the rules that match.                     *)
Single(rs, m) == Result(rs[FirstOf(m)].outcome, {FirstOf(m)}, FALSE)
Among(rs, m) == {rs[i].outcome : i \in m}

(* The four cases of Resolve, one for each kind of answer.                 *)
LEMMA Resolved ==
  ASSUME NEW p \in Policies, NEW rs, NEW m
  PROVE  /\ m = {} => Resolve(p, rs, m) = Result("NOT_APPLICABLE", {}, FALSE)
         /\ m # {} /\ p = "COLLECT" =>
              Resolve(p, rs, m) = Result(Collected(Among(rs, m)), m, FALSE)
         /\ m # {} /\ p = "UNIQUE" /\ Several(m) =>
              Resolve(p, rs, m) = Result("INDETERMINATE", m, TRUE)
         /\ m # {} /\ (p = "FIRST" \/ (p = "UNIQUE" /\ ~Several(m))) =>
              Resolve(p, rs, m) = Single(rs, m)
<1>1. m = {} => ~Several(m)
  BY DEF Several
<1> QED BY <1>1 DEF Resolve, Single, Among, Policies

(* The parts of a result.                                                  *)
LEMMA ResultFields ==
  ASSUME NEW d, NEW m, NEW e
  PROVE  /\ Result(d, m, e).decision = d /\ Result(d, m, e).matched = m
         /\ Result(d, m, e).error = e
BY DEF Result

(* The rules that took part are among those that match: all of them, or    *)
(* the first.                                                              *)
LEMMA FirstIsLeast ==
  ASSUME NEW m \in SUBSET Nat, m # {}
  PROVE  FirstOf(m) \in m /\ \A j \in m : FirstOf(m) <= j
BY LeastElement DEF FirstOf

(* No rule takes part only if none matches; else all do, or the first.     *)
LEMMA MatchedTakePart ==
  ASSUME NEW p \in Policies, NEW rs, NEW m \in SUBSET Nat
  PROVE  LET r == Resolve(p, rs, m)
         IN  /\ r.matched = {} <=> m = {}
             /\ r.matched = m \/ (r.matched = {FirstOf(m)} /\ FirstOf(m) \in m)
<1> DEFINE r == Resolve(p, rs, m)
<1>0. /\ m = {} => r = Result("NOT_APPLICABLE", {}, FALSE)
      /\ m # {} /\ p = "COLLECT" =>
           r = Result(Collected(Among(rs, m)), m, FALSE)
      /\ m # {} /\ p = "UNIQUE" /\ Several(m) =>
           r = Result("INDETERMINATE", m, TRUE)
      /\ m # {} /\ (p = "FIRST" \/ (p = "UNIQUE" /\ ~Several(m))) =>
           r = Single(rs, m)
  BY Resolved
<1> HIDE DEF r
<1>1. CASE m = {}
  <2>1. r = Result("NOT_APPLICABLE", {}, FALSE)
    BY <1>0, <1>1
  <2>2. r.matched = {}
    BY <2>1 DEF Result
  <2> QED BY <1>1, <2>2 DEF r
<1>2. CASE m # {} /\ (p = "COLLECT" \/ (p = "UNIQUE" /\ Several(m)))
  <2>1. \E d, e : r = Result(d, m, e)
    BY <1>0, <1>2
  <2>2. r.matched = m
    BY <2>1 DEF Result
  <2> QED BY <1>2, <2>2 DEF r
<1>3. CASE m # {} /\ (p = "FIRST" \/ (p = "UNIQUE" /\ ~Several(m)))
  <2>1. r.matched = {FirstOf(m)}
    BY <1>0, <1>3 DEF Single, Result
  <2>2. FirstOf(m) \in m
    BY <1>3, FirstIsLeast
  <2> QED BY <1>3, <2>1, <2>2 DEF r
<1> QED BY <1>1, <1>2, <1>3 DEF Policies

-----------------------------------------------------------------------------
(* A new rule may match beside those that matched; it comes last.          *)
LEMMA NewRuleMatches ==
  ASSUME NEW rs, IsList(rs), NEW rule, NEW c
  PROVE  LET m == MatchedRules(rs, c)
             n == MatchedRules(Append(rs, rule), c)
         IN  /\ m \in SUBSET (1..Len(rs)) /\ m \in SUBSET Nat
             /\ n \in SUBSET Nat
             /\ m \subseteq n /\ n \subseteq m \cup {Len(rs) + 1}
             /\ \A i \in m : Append(rs, rule)[i] = rs[i]
<1> DEFINE new == Append(rs, rule)
<1>1. /\ Len(new) = Len(rs) + 1 /\ IsList(new) /\ Len(rs) \in Nat
      /\ \A i \in 1..Len(rs) : new[i] = rs[i]
  BY AppendToList DEF IsList
<1> HIDE DEF new
<1>2. DOMAIN rs = 1..Len(rs) /\ DOMAIN new = 1..(Len(rs) + 1)
  BY <1>1 DEF IsList
<1>3. \A i : i \in MatchedRules(rs, c) <=>
               i \in 1..Len(rs) /\ RuleMatches(rs[i], c)
  BY <1>2 DEF MatchedRules
<1>4. \A i : i \in MatchedRules(new, c) <=>
               i \in 1..(Len(rs) + 1) /\ RuleMatches(new[i], c)
  BY <1>2 DEF MatchedRules
<1>5. \A i : i \in 1..(Len(rs) + 1) <=> i \in 1..Len(rs) \/ i = Len(rs) + 1
  BY <1>1
<1>6. /\ MatchedRules(rs, c) \in SUBSET (1..Len(rs))
      /\ MatchedRules(rs, c) \subseteq MatchedRules(new, c)
      /\ MatchedRules(new, c) \subseteq MatchedRules(rs, c) \cup {Len(rs) + 1}
      /\ \A i \in MatchedRules(rs, c) : new[i] = rs[i]
  BY <1>1, <1>3, <1>4, <1>5
<1>7. MatchedRules(rs, c) \in SUBSET Nat /\ MatchedRules(new, c) \in SUBSET Nat
  BY <1>1, <1>6
<1> QED BY <1>6, <1>7 DEF new

(* A stricter outcome among more does not make the answer weaker.          *)
LEMMA MoreIsStricter ==
  ASSUME NEW O, NEW P, O \subseteq P
  PROVE  Strictness[Collected(O)] <= Strictness[Collected(P)]
<1>1. /\ Strictness["PERMIT"] = 1 /\ Strictness["INDETERMINATE"] = 2
      /\ Strictness["DENY"] = 3
  BY DEF Strictness
<1>2. CASE "DENY" \in P
  BY <1>1, <1>2 DEF Collected
<1>3. CASE "DENY" \notin P
  BY <1>1, <1>3 DEF Collected
<1> QED BY <1>2, <1>3

(***************************************************************************)
(* A further rule never weakens an answer: under FIRST it stays, under     *)
(* COLLECT it gets stricter, under UNIQUE an ambiguity remains.            *)
(***************************************************************************)
THEOREM NewRulesRespectPolicy == Spec => NewRuleRespectsPolicy
<1>1. Typed /\ [Next]_vars => RespectsPolicy
  <2> SUFFICES ASSUME Typed, [Next]_vars,
                      Answered, Answered', Decision.matched # {},
                      rules' # rules
               PROVE  CASE policy = "FIRST" -> Decision' = Decision
                        [] policy = "COLLECT" ->
                             Strictness[Decision.decision]
                               <= Strictness[Decision'.decision]
                        [] policy = "UNIQUE" ->
                             Decision.error => Decision'.error
    BY DEF RespectsPolicy
  <2>1. PICK rule : AddRule(rule)
    BY DEF Next, SupplyExtra, vars
  <2>2. /\ rules' = Append(rules, rule) /\ policy' = policy
        /\ Context' = Context
    BY <2>1 DEF AddRule, Context
  <2> DEFINE m == MatchedRules(rules, Context)
             n == MatchedRules(rules', Context)
  <2>3. /\ Decision = Resolve(policy, rules, m)
        /\ Decision' = Resolve(policy, rules', n)
    <3>1. Decision = Resolve(policy, rules, m)
      BY AnswerIsResolved DEF Answered, Decision
    <3>2. Decision' = Evaluate(rules', policy, Context)
      BY <2>2 DEF Decision
    <3>3. Decision'.decision # Raised
      BY DEF Answered
    <3> QED BY <3>1, <3>2, <3>3, AnswerIsResolved
  <2>4. /\ m \in SUBSET (1..Len(rules)) /\ m \in SUBSET Nat /\ n \in SUBSET Nat
        /\ m \subseteq n /\ n \subseteq m \cup {Len(rules) + 1}
        /\ \A i \in m : rules'[i] = rules[i]
    BY <2>2, NewRuleMatches DEF Typed
  <2>5. policy \in Policies /\ Len(rules) \in Nat
    BY DEF Typed, IsList
  <2> HIDE DEF m, n
  <2>6. m # {} /\ n # {}
    BY <2>3, <2>4, <2>5, MatchedTakePart
  <2>7. CASE policy = "FIRST"
    <3>1. FirstOf(m) \in m /\ \A j \in m : FirstOf(m) <= j
      BY <2>4, <2>6, FirstIsLeast
    <3>2. FirstOf(n) \in n /\ \A j \in n : FirstOf(n) <= j
      BY <2>4, <2>6, FirstIsLeast
    <3>3. \A a, b : /\ a \in m /\ \A k \in m : a <= k
                    /\ b \in n /\ \A k \in n : b <= k
                    => a = b
      <4> SUFFICES ASSUME NEW a \in m, \A k \in m : a <= k,
                          NEW b \in n, \A k \in n : b <= k
                   PROVE  a = b
        OBVIOUS
      <4>1. a \in 1..Len(rules) /\ a \in n
        BY <2>4
      <4>2. b \in Nat /\ b <= a
        BY <2>4, <4>1
      <4>3. b # Len(rules) + 1
        BY <2>5, <4>1, <4>2
      <4>4. b \in m
        BY <2>4, <4>3
      <4> QED BY <2>4, <4>1, <4>2, <4>4
    <3>5. FirstOf(n) = FirstOf(m)
      BY <3>1, <3>2, <3>3, Zenon
    <3>6. Decision = Single(rules, m) /\ Decision' = Single(rules', n)
      BY <2>3, <2>5, <2>6, <2>7, Resolved
    <3>7. Single(rules', n) = Single(rules, m)
      BY <2>4, <3>1, <3>5 DEF Single
    <3> QED BY <2>7, <3>6, <3>7
  <2>8. CASE policy = "COLLECT"
    <3>1. /\ Decision = Result(Collected(Among(rules, m)), m, FALSE)
          /\ Decision' = Result(Collected(Among(rules', n)), n, FALSE)
      BY <2>3, <2>5, <2>6, <2>8, Resolved
    <3>2. /\ Decision.decision = Collected(Among(rules, m))
          /\ Decision'.decision = Collected(Among(rules', n))
      BY <3>1 DEF Result
    <3>3. Among(rules, m) \subseteq Among(rules', n)
      BY <2>4 DEF Among
    <3>4. Strictness[Decision.decision] <= Strictness[Decision'.decision]
      BY <3>2, <3>3, MoreIsStricter
    <3> QED BY <2>8, <3>4
  <2>9. CASE policy = "UNIQUE"
    <3>1. CASE Several(m)
      <4>1. Several(n)
        BY <2>4, <3>1 DEF Several
      <4>2. Decision' = Result("INDETERMINATE", n, TRUE)
        BY <2>3, <2>5, <2>6, <2>9, <4>1, Resolved
      <4>3. Decision'.error = TRUE
        BY <4>2 DEF Result
      <4> QED BY <2>9, <4>3, Zenon
    <3>2. CASE ~Several(m)
      <4>1. Decision = Single(rules, m)
        BY <2>3, <2>5, <2>6, <2>9, <3>2, Resolved
      <4>2. Decision.error = FALSE
        BY <4>1 DEF Single, Result
      <4> QED BY <2>9, <4>2, Zenon
    <3> QED BY <3>1, <3>2
  <2> QED BY <2>5, <2>7, <2>8, <2>9 DEF Policies
<1>2. Typed /\ [Next]_vars => [RespectsPolicy]_vars
  BY <1>1
<1> QED BY <1>2, TypeInvariant, PTL DEF Spec, NewRuleRespectsPolicy

-----------------------------------------------------------------------------
(* One context says no more than another: what is known in it is known, to *)
(* the same value, in the other.                                           *)
SaysNoMore(c, d) == \A f : Known(c, f) => f \in DOMAIN d /\ d[f] = c[f]

(* What holds, matches or raises in a context does so in one that says     *)
(* more.                                                                   *)
LEMMA HoldsInMore ==
  ASSUME NEW c, NEW d, SaysNoMore(c, d)
  PROVE  /\ \A con : ConditionHolds(con, c) => ConditionHolds(con, d)
         /\ \A con : ConditionRaises(con, c) => ConditionRaises(con, d)
         /\ \A rule : RuleMatches(rule, c) => RuleMatches(rule, d)
         /\ \A rule : RuleRaises(rule, c) => RuleRaises(rule, d)
<1>1. \A f : Known(c, f) => Known(d, f) /\ d[f] = c[f]
  BY DEF SaysNoMore, Known
<1>2. \A con : ConditionRaises(con, c) => ConditionRaises(con, d)
  BY <1>1 DEF ConditionRaises
<1>3. \A con : ConditionHolds(con, c) => ConditionHolds(con, d)
  <2> SUFFICES ASSUME NEW con, ConditionHolds(con, c)
               PROVE  ConditionHolds(con, d)
    OBVIOUS
  <2>1. /\ Known(c, con.field) /\ Known(d, con.field)
        /\ d[con.field] = c[con.field]
    BY <1>1 DEF ConditionHolds
  <2>2. ~ConditionRaises(con, d)
    BY <2>1 DEF ConditionHolds, ConditionRaises
  <2> QED BY <2>1, <2>2 DEF ConditionHolds
<1>4. \A rule : RuleMatches(rule, c) => RuleMatches(rule, d)
  BY <1>3 DEF RuleMatches
<1>5. \A rule : RuleRaises(rule, c) => RuleRaises(rule, d)
  BY <1>2, <1>3 DEF RuleRaises
<1> QED BY <1>2, <1>3, <1>4, <1>5

(***************************************************************************)
(* A field that was absent satisfied no condition, so its value takes no   *)
(* match away.                                                             *)
(***************************************************************************)
THEOREM NewFactsKeepMatches == Spec => NewFactKeepsMatches
<1>1. [Next]_vars => KeepsMatches
  <2> SUFFICES ASSUME [Next]_vars, NEW f \in DOMAIN extra' \ DOMAIN extra,
                      ~Known(Context, f), NEW i \in DOMAIN rules,
                      RuleMatches(rules[i], Context)
               PROVE  RuleMatches(rules[i], Context')
    BY DEF KeepsMatches
  <2>1. PICK field, value : SupplyExtra(field, value)
    BY DEF Next, AddRule, vars
  <2>2. /\ DOMAIN extra' = DOMAIN extra \cup {field} /\ instance' = instance
        /\ \A g \in DOMAIN extra : g # field => extra'[g] = extra[g]
    BY <2>1 DEF SupplyExtra
  <2>3. field = f
    BY <2>2
  <2>4. SaysNoMore(Context, Context')
    <3> SUFFICES ASSUME NEW g, Known(Context, g)
                 PROVE  g \in DOMAIN Context' /\ Context'[g] = Context[g]
      BY DEF SaysNoMore
    <3>1. g # f /\ g \in DOMAIN Context
      BY DEF Known
    <3>2. g \in DOMAIN instance \cup DOMAIN extra
      BY <3>1 DEF Context, BuildContext
    <3>3. g \in DOMAIN extra' <=> g \in DOMAIN extra
      BY <2>2, <2>3, <3>1
    <3>4. DOMAIN Context' = DOMAIN instance \cup DOMAIN extra'
      BY <2>2 DEF Context, BuildContext
    <3>5. Context[g] = IF g \in DOMAIN extra THEN extra[g] ELSE instance[g]
      BY <3>2 DEF Context, BuildContext
    <3>6. Context'[g] = IF g \in DOMAIN extra' THEN extra'[g] ELSE instance[g]
      BY <2>2, <3>2, <3>3 DEF Context, BuildContext
    <3> QED BY <2>2, <2>3, <3>1, <3>2, <3>3, <3>4, <3>5, <3>6
  <2> QED BY <2>4, HoldsInMore
<1>2. [Next]_vars => [KeepsMatches]_vars
  BY <1>1
<1> QED BY <1>2, PTL DEF Spec, NewFactKeepsMatches

-----------------------------------------------------------------------------
(* Without the rules that a context of less evidence leaves out, the hit   *)
(* policy gives what it gave, if those that took part are still there.     *)
LEMMA FewerMatchesResolve ==
  ASSUME NEW p \in Policies, NEW rs, NEW m \in SUBSET Nat, NEW n \in SUBSET m,
         Resolve(p, rs, m).matched \subseteq n
  PROVE  Resolve(p, rs, n) = Resolve(p, rs, m)
<1> DEFINE taken == Resolve(p, rs, m).matched
<1>1. (taken = {} <=> m = {}) /\ (taken = m \/ taken = {FirstOf(m)})
  BY MatchedTakePart
<1>2. CASE m = {} \/ taken = m
  <2>1. n = m
    BY <1>2
  <2> QED BY <2>1
<1>3. CASE m # {} /\ taken # m
  <2>1. taken = {FirstOf(m)}
    BY <1>1, <1>3
  <2>2. ~(p = "COLLECT") /\ ~(p = "UNIQUE" /\ Several(m))
    <3>1. ASSUME p = "COLLECT" \/ (p = "UNIQUE" /\ Several(m)) PROVE FALSE
      <4>1. \/ Resolve(p, rs, m)
                 = Result(Collected(Among(rs, m)), m, FALSE)
            \/ Resolve(p, rs, m) = Result("INDETERMINATE", m, TRUE)
        BY <1>3, <3>1, Resolved
      <4>2. ASSUME NEW d, NEW e, Resolve(p, rs, m) = Result(d, m, e)
            PROVE  taken = m
        BY <4>2, ResultFields
      <4>3. taken = m
        <5> HIDE DEF taken
        <5> QED BY <4>1, <4>2
      <4> QED BY <1>3, <4>3
    <3> QED BY <3>1
  <2>3. FirstOf(m) \in n /\ n # {} /\ n \in SUBSET Nat
    BY <2>1
  <2>4. FirstOf(n) = FirstOf(m)
    <3>1. FirstOf(m) \in m /\ \A j \in m : FirstOf(m) <= j
      BY <1>3, FirstIsLeast
    <3>2. FirstOf(n) \in n /\ \A j \in n : FirstOf(n) <= j
      BY <2>3, FirstIsLeast
    <3>3. \A a, b \in Nat : a <= b /\ b <= a => a = b
      OBVIOUS
    <3> QED BY <2>3, <3>1, <3>2, <3>3
  <2>5. Several(n) => Several(m)
    BY DEF Several
  <2>6. p = "FIRST" \/ (p = "UNIQUE" /\ ~Several(m))
    BY <2>2 DEF Policies
  <2>7. Resolve(p, rs, m) = Single(rs, m) /\ Resolve(p, rs, n) = Single(rs, n)
    BY <1>3, <2>3, <2>5, <2>6, Resolved
  <2> QED BY <2>4, <2>7 DEF Single
<1> QED BY <1>2, <1>3

(***************************************************************************)
(* The fields a receipt lists as checked were known, and the same table    *)
(* gives the same answer on them alone.                                    *)
(***************************************************************************)
THEOREM DimensionsAreEnough == Spec => []DimensionsReproduceDecision
<1>1. Typed => DimensionsReproduceDecision
  <2> DEFINE dims == DimensionsChecked(rules, Decision)
             evidence == [f \in dims \cap DOMAIN Context |-> Context[f]]
             m == MatchedRules(rules, Context)
             n == MatchedRules(rules, evidence)
  <2> SUFFICES ASSUME Typed, Answered
               PROVE  /\ \A f \in dims : Known(Context, f)
                      /\ Evaluate(rules, policy, evidence) = Decision
    BY DEF DimensionsReproduceDecision
  <2>1. ~Raises(rules, Context) /\ Decision = Resolve(policy, rules, m)
    BY AnswerIsResolved DEF Answered, Decision
  <2>2. /\ policy \in Policies /\ m \in SUBSET Nat
        /\ \A i \in m : i \in DOMAIN rules /\ RuleMatches(rules[i], Context)
    BY DEF Typed, IsList, MatchedRules
  <2>3. Decision.matched \subseteq m
    <3> HIDE DEF m
    <3>1. \/ Decision.matched = m
          \/ Decision.matched = {FirstOf(m)} /\ FirstOf(m) \in m
      BY <2>1, <2>2, MatchedTakePart
    <3> QED BY <3>1
  <2>4. ASSUME NEW i \in Decision.matched, NEW k \in DOMAIN rules[i].conditions
        PROVE  /\ Known(Context, rules[i].conditions[k].field)
               /\ rules[i].conditions[k].field \in dims
               /\ ConditionHolds(rules[i].conditions[k], Context)
    BY <2>2, <2>3 DEF RuleMatches, ConditionHolds, DimensionsChecked, FieldsOf
  <2>5. \A f \in dims : Known(Context, f)
    BY <2>4 DEF DimensionsChecked, FieldsOf
  <2>6. /\ DOMAIN evidence = dims
        /\ \A f \in dims : f \in DOMAIN Context /\ evidence[f] = Context[f]
    BY <2>5 DEF Known
  <2> HIDE DEF dims, evidence
  <2>7. SaysNoMore(evidence, Context)
    BY <2>6 DEF SaysNoMore, Known
  <2>8. ~Raises(rules, evidence)
    BY <2>1, <2>7, HoldsInMore DEF Raises
  <2>9. n \in SUBSET m
    BY <2>7, HoldsInMore DEF MatchedRules
  <2>10. Decision.matched \subseteq n
    <3> SUFFICES ASSUME NEW i \in Decision.matched,
                        NEW k \in DOMAIN rules[i].conditions
                 PROVE  ConditionHolds(rules[i].conditions[k], evidence)
      BY <2>2, <2>3 DEF MatchedRules, RuleMatches
    <3> DEFINE con == rules[i].conditions[k]
    <3>1. /\ con.field \in dims /\ Known(Context, con.field)
          /\ ConditionHolds(con, Context)
      BY <2>4
    <3> HIDE DEF con
    <3>2. /\ Known(evidence, con.field)
          /\ evidence[con.field] = Context[con.field]
      BY <2>6, <3>1 DEF Known
    <3>3. ConditionHolds(con, evidence)
      BY <3>1, <3>2 DEF ConditionHolds, ConditionRaises
    <3> QED BY <3>3 DEF con
  <2>11. Evaluate(rules, policy, evidence) = Resolve(policy, rules, n)
    BY <2>8 DEF Evaluate
  <2> HIDE DEF m, n
  <2>12. Resolve(policy, rules, n) = Resolve(policy, rules, m)
    BY <2>1, <2>2, <2>9, <2>10, FewerMatchesResolve
  <2> QED BY <2>1, <2>5, <2>11, <2>12
<1> QED BY <1>1, TypeInvariant, PTL

-----------------------------------------------------------------------------
(* What a hit policy other than FIRST answers is said by the outcomes of   *)
(* the rules that match, and by whether there are several.                 *)
LEMMA AnswerOfOutcomes ==
  ASSUME NEW p \in {"UNIQUE", "COLLECT"},
         NEW rs, NEW m \in SUBSET Nat, NEW ss, NEW n \in SUBSET Nat,
         Among(rs, m) = Among(ss, n),
         Several(m) <=> Several(n)
  PROVE  /\ Resolve(p, ss, n).decision = Resolve(p, rs, m).decision
         /\ Resolve(p, ss, n).error = Resolve(p, rs, m).error
<1>0. p \in Policies /\ (m = {} <=> n = {})
  BY DEF Policies, Among
<1>1. ASSUME NEW d, NEW e, NEW k, NEW l,
             Resolve(p, rs, m) = Result(d, k, e),
             Resolve(p, ss, n) = Result(d, l, e)
      PROVE  /\ Resolve(p, ss, n).decision = Resolve(p, rs, m).decision
             /\ Resolve(p, ss, n).error = Resolve(p, rs, m).error
  BY <1>1, ResultFields
<1>2. CASE m = {}
  <2>1. /\ Resolve(p, rs, m) = Result("NOT_APPLICABLE", {}, FALSE)
        /\ Resolve(p, ss, n) = Result("NOT_APPLICABLE", {}, FALSE)
    BY <1>0, <1>2, Resolved
  <2> QED BY <1>1, <2>1
<1>3. CASE m # {} /\ p = "COLLECT"
  <2>1. Resolve(p, rs, m) = Result(Collected(Among(rs, m)), m, FALSE)
    BY <1>0, <1>3, Resolved
  <2>2. Resolve(p, ss, n) = Result(Collected(Among(ss, n)), n, FALSE)
    BY <1>0, <1>3, Resolved
  <2> QED BY <1>1, <2>1, <2>2
<1>4. CASE m # {} /\ p = "UNIQUE" /\ Several(m)
  <2>1. /\ Resolve(p, rs, m) = Result("INDETERMINATE", m, TRUE)
        /\ Resolve(p, ss, n) = Result("INDETERMINATE", n, TRUE)
    BY <1>0, <1>4, Resolved
  <2> QED BY <1>1, <2>1
<1>5. CASE m # {} /\ p = "UNIQUE" /\ ~Several(m)
  <2>1. Resolve(p, rs, m) = Single(rs, m) /\ Resolve(p, ss, n) = Single(ss, n)
    BY <1>0, <1>5, Resolved
  <2>2. FirstOf(m) \in m /\ FirstOf(n) \in n
    BY <1>0, <1>5, FirstIsLeast
  <2>3. ss[FirstOf(n)].outcome \in Among(rs, m)
    BY <2>2 DEF Among
  <2>4. PICK i \in m : rs[i].outcome = ss[FirstOf(n)].outcome
    BY <2>3 DEF Among
  <2>5. i = FirstOf(m)
    BY <1>5, <2>2, <2>4 DEF Several
  <2>6. rs[FirstOf(m)].outcome = ss[FirstOf(n)].outcome
    BY <2>4, <2>5
  <2> QED BY <1>1, <2>1, <2>6 DEF Single
<1> QED BY <1>2, <1>3, <1>4, <1>5

(***************************************************************************)
(* Under UNIQUE and COLLECT no order of the rules changes the outcome, the *)
(* status, or whether the evaluation raises.                               *)
(***************************************************************************)
THEOREM OrderDecidesNothing == Spec => []RuleOrderIsIrrelevant
<1>1. Typed => RuleOrderIsIrrelevant
  <2> SUFFICES ASSUME Typed, policy \in {"UNIQUE", "COLLECT"},
                      NEW order \in Bijection(DOMAIN rules, DOMAIN rules)
               PROVE  LET r == Evaluate([i \in DOMAIN rules |-> rules[order[i]]],
                                        policy, Context)
                      IN  /\ r.decision = Decision.decision
                          /\ StatusCode(r) = StatusCode(Decision)
    BY DEF RuleOrderIsIrrelevant
  <2> DEFINE other == [i \in DOMAIN rules |-> rules[order[i]]]
             m == MatchedRules(rules, Context)
             n == MatchedRules(other, Context)
             r == Evaluate(other, policy, Context)
  <2>1. /\ order \in [DOMAIN rules -> DOMAIN rules]
        /\ \A a, b \in DOMAIN rules : order[a] = order[b] => a = b
        /\ \A t \in DOMAIN rules : \E s \in DOMAIN rules : order[s] = t
    BY DEF Bijection, Injection, Surjection, IsInjective
  <2>2. /\ DOMAIN other = DOMAIN rules
        /\ \A i \in DOMAIN rules : other[i] = rules[order[i]]
    OBVIOUS
  <2> HIDE DEF other
  <2>3. Raises(other, Context) <=> Raises(rules, Context)
    BY <2>1, <2>2 DEF Raises
  <2>4. /\ m \in SUBSET DOMAIN rules /\ n \in SUBSET DOMAIN rules
        /\ \A i \in DOMAIN rules : i \in n <=> order[i] \in m
    BY <2>1, <2>2 DEF MatchedRules
  <2>5. m \in SUBSET Nat /\ n \in SUBSET Nat
    BY <2>4 DEF Typed, IsList
  <2>6. Decision = Evaluate(rules, policy, Context)
    BY DEF Decision
  <2> SUFFICES r.decision = Decision.decision /\ r.error = Decision.error
    BY DEF StatusCode, other
  <2> HIDE DEF m, n, r
  <2>7. CASE Raises(rules, Context)
    <3>1. r = Result(Raised, {}, TRUE) /\ Decision = Result(Raised, {}, TRUE)
      BY <2>3, <2>6, <2>7 DEF Evaluate, r
    <3> QED BY <3>1
  <2>8. CASE ~Raises(rules, Context)
    <3>1. r = Resolve(policy, other, n) /\ Decision = Resolve(policy, rules, m)
      BY <2>3, <2>6, <2>8 DEF Evaluate, r, m, n
    <3>2. Among(rules, m) = Among(other, n)
      BY <2>1, <2>2, <2>4 DEF Among
    <3>3. Several(m) <=> Several(n)
      BY <2>1, <2>4 DEF Several
    <3>4. /\ Resolve(policy, other, n).decision
               = Resolve(policy, rules, m).decision
          /\ Resolve(policy, other, n).error = Resolve(policy, rules, m).error
      BY <2>5, <3>2, <3>3, AnswerOfOutcomes
    <3> QED BY <3>1, <3>4
  <2> QED BY <2>7, <2>8
<1> QED BY <1>1, TypeInvariant, PTL
=============================================================================
