----------------------- MODULE GovernanceEngineProofs -----------------------
(***************************************************************************)
(* What evaluate_transition promises, for every set of schema paths,       *)
(* documents and targets, and any number of evaluations, changes of the    *)
(* files and restarts.                                                     *)
(***************************************************************************)
EXTENDS GovernanceEngine, OperatorLemmas

-----------------------------------------------------------------------------
(***************************************************************************)
(* The decision: what evaluate_transition passes to append.                *)
(***************************************************************************)
LEMMA DocumentIsTree ==
  ASSUME NEW doc \in Documents, doc.workflow # NoWorkflow
  PROVE  IsTree(TreeOf(doc)) /\ TreeOf(doc) # NoWorkflow
<1>1. IsDocument(doc.workflow)
  BY DocumentsAssumption DEF IsDocument
<1> QED BY <1>1, ParsedIsTree, DocumentsAssumption DEF TreeOf

(* A state that is in no path allows no transition. *)
LEMMA ValidNeedsCurrent ==
  ASSUME NEW tree, NEW current, NEW target,
         IsValidTransition(tree, current, target)
  PROVE  FindCurrentState(tree, current) # {}
<1>1. Successors(tree, current) # {}
  BY DEF IsValidTransition, ValidTargets, AllowedTransitions
<1> QED BY <1>1 DEF Successors

(* The decision is the documented verdict, whichever document the receipt  *)
(* names.                                                                  *)
LEMMA OutcomeIsDocumented ==
  ASSUME NEW workflow \in BOOLEAN, NEW doc \in Documents,
         NEW target \in Targets, NEW named
  PROVE  Outcome(workflow, doc.current, TreeOf(doc), target, named).decision
           = DocumentedVerdict(workflow, doc, target)
<1> DEFINE o == Outcome(workflow, doc.current, TreeOf(doc), target, named)
           v == DocumentedVerdict(workflow, doc, target)
           valid == IsValidTransition(TreeOf(doc), doc.current, target)
<1>1. CASE ~workflow
  <2>1. o.decision = "NOT_APPLICABLE"
    BY <1>1 DEF Outcome
  <2>2. v = "NOT_APPLICABLE"
    BY <1>1 DEF DocumentedVerdict
  <2> QED BY <2>1, <2>2
<1>2. CASE workflow /\ doc.workflow = NoWorkflow
  <2>1. TreeOf(doc) = NoWorkflow
    BY <1>2 DEF TreeOf
  <2>2. o.decision = "INDETERMINATE"
    BY <1>2, <2>1 DEF Outcome
  <2>3. v = "INDETERMINATE"
    BY <1>2 DEF DocumentedVerdict
  <2> QED BY <2>2, <2>3
<1>3. CASE workflow /\ doc.workflow # NoWorkflow
  <2>1. IsTree(TreeOf(doc)) /\ TreeOf(doc) # NoWorkflow
    BY <1>3, DocumentIsTree
  <2>2. o.decision = IF valid THEN "PERMIT" ELSE "DENY"
    BY <1>3, <2>1, ValidNeedsCurrent DEF Outcome
  <2>3. v = IF IF DistinctOrdinals(TreeOf(doc))
               THEN AdjacentIn(TreeOf(doc), doc.current, target) # {}
               ELSE valid
            THEN "PERMIT" ELSE "DENY"
    BY <1>3 DEF DocumentedVerdict
  <2>4. DistinctOrdinals(TreeOf(doc)) =>
          (valid <=> AdjacentIn(TreeOf(doc), doc.current, target) # {})
    BY <2>1, ValidIsAdjacent
  <2> QED BY <2>2, <2>3, <2>4
<1> QED BY <1>1, <1>2, <1>3

(* What the receipt says of the request, beside the decision. *)
LEMMA OutcomeNames ==
  ASSUME NEW workflow \in BOOLEAN, NEW current, NEW tree, NEW target, NEW named
  PROVE  LET o == Outcome(workflow, current, tree, target, named)
         IN  /\ {"decision", "reasoning", "instance_id", "instance_version"}
                  \subseteq DOMAIN o
             /\ o["reasoning"][2] = current /\ o["reasoning"][3] = target
             /\ o["instance_id"] = named.id
             /\ o["instance_version"] = named.version
BY DEF Outcome

(* The receipt that Answer appends to an engine's chain. *)
ReceiptOf(engine, doc, target, named) ==
  NewReceipt(WithDefaults(Outcome(engine.workflow, doc.current, TreeOf(doc),
                                  target, named)),
             LastHash(engine.chain))

(* What a receipt states is the documented verdict on the document and the *)
(* target it names.                                                        *)
LEMMA ReceiptStates ==
  ASSUME NEW engine, engine.workflow \in BOOLEAN, NEW doc \in Documents,
         NEW target \in Targets, NEW named \in Documents
  PROVE  LET r == ReceiptOf(engine, doc, target, named)
         IN  /\ r["decision"] = DocumentedVerdict(engine.workflow, doc, target)
             /\ r["reasoning"][2] = doc.current /\ r["reasoning"][3] = target
             /\ r["instance_id"] = named.id
             /\ r["instance_version"] = named.version
<1> DEFINE o == Outcome(engine.workflow, doc.current, TreeOf(doc), target, named)
           r == ReceiptOf(engine, doc, target, named)
           F == {"decision", "reasoning", "instance_id", "instance_version"}
<1>1. F \subseteq ArgFields
  BY DEF ArgFields, HashedFields, RequiredFields
<1>2. F \subseteq DOMAIN o
  BY OutcomeNames
<1>3. \A f \in F : WithDefaults(o)[f] = o[f]
  <2> HIDE DEF F, o
  <2> QED BY <1>1, <1>2 DEF WithDefaults
<1>4. \A f \in F : r[f] = o[f]
  <2> HIDE DEF F
  <2> QED BY <1>1, <1>3, NewReceiptCarries DEF ReceiptOf
<1>5. o["decision"] = DocumentedVerdict(engine.workflow, doc, target)
  BY OutcomeIsDocumented
<1> QED BY <1>4, <1>5, OutcomeNames

-----------------------------------------------------------------------------
(***************************************************************************)
(* The inductive invariant.  An engine keeps whole receipts and the flag   *)
(* its model was inspected with; the request in hand is for a path that    *)
(* has an engine; and within a session all evaluations under one path saw  *)
(* the flag of the one engine there.                                       *)
(***************************************************************************)
IsEngine(e) ==
  /\ e = [workflow |-> e.workflow, chain |-> e.chain]
  /\ e.workflow \in {TRUE, FALSE, NotInspected}
  /\ IsList(e.chain) /\ \A i \in 1..Len(e.chain) : IsReceipt(e.chain[i])
  /\ e.workflow = NotInspected => e.chain = <<>>

IsRequest(r) ==
  /\ r \in [path : SchemaPaths, target : Targets, read : Documents \cup {NoFile}]
  /\ engines[r.path].workflow # NotInspected
  /\ Len(evaluations) < MaxEvaluations

IsEvaluation(e, last) ==
  /\ e.session \in 1..last /\ e.path \in SchemaPaths
  /\ e.target \in Targets /\ e.read \in Documents /\ e.workflow \in BOOLEAN

FilesTyped ==
  /\ schemaFile \in {TRUE, FALSE, NoFile}
  /\ instanceFile \in Documents \cup {NoFile}

Typed ==
  /\ FilesTyped
  /\ engines = [p \in SchemaPaths |-> engines[p]]
  /\ \A p \in SchemaPaths : IsEngine(engines[p])
  /\ request = NoRequest \/ IsRequest(request)
  /\ session \in Nat \ {0} /\ changes \in 0..MaxChanges
  /\ session <= changes + 1
  /\ IsList(evaluations) /\ Len(evaluations) <= MaxEvaluations
  /\ \A i \in 1..Len(evaluations) : IsEvaluation(evaluations[i], session)

(* An engine that has issued nothing is well formed.                       *)
LEMMA FreshEngine ==
  ASSUME NEW w \in {TRUE, FALSE, NotInspected}
  PROVE  IsEngine([workflow |-> w, chain |-> <<>>])
<1> DEFINE e == [workflow |-> w, chain |-> <<>>]
<1>1. e.workflow = w /\ e.chain = <<>>
  OBVIOUS
<1>2. e = [workflow |-> e.workflow, chain |-> e.chain]
  OBVIOUS
<1>3. \A i \in 1..Len(e.chain) : IsReceipt(e.chain[i])
  BY <1>1, EmptyList
<1> HIDE DEF e
<1>4. IsEngine(e)
  BY <1>1, <1>2, <1>3, EmptyList DEF IsEngine
<1> QED BY <1>4 DEF e

(* Query and BeginEvaluation: the engine of the path, made if need be. *)
LEMMA EngineCached ==
  ASSUME Typed, NEW path \in SchemaPaths, EngineAvailable(path),
         engines' = [engines EXCEPT ![path] = EngineFor(path)]
  PROVE  /\ engines' = [p \in SchemaPaths |-> engines'[p]]
         /\ \A p \in SchemaPaths : IsEngine(engines'[p])
         /\ \A p \in SchemaPaths \ {path} : engines'[p] = engines[p]
         /\ engines'[path].workflow # NotInspected
         /\ \/ engines' = engines
            \/ /\ engines[path].workflow = NotInspected
               /\ schemaFile \in BOOLEAN
               /\ engines'[path] = [workflow |-> schemaFile, chain |-> <<>>]
<1>1. /\ engines' = [p \in SchemaPaths |-> engines'[p]]
      /\ \A p \in SchemaPaths \ {path} : engines'[p] = engines[p]
      /\ engines'[path] = EngineFor(path)
  BY DEF Typed
<1>2. IsEngine(engines[path])
  BY DEF Typed
<1>3. engines[path] = NoEngine <=> engines[path].workflow = NotInspected
  BY <1>2 DEF IsEngine, NoEngine
<1>4. CASE engines[path] = NoEngine
  <2>1. schemaFile \in BOOLEAN
    BY <1>4 DEF Typed, FilesTyped, EngineAvailable
  <2>2. engines'[path] = [workflow |-> schemaFile, chain |-> <<>>]
    BY <1>1, <1>4 DEF EngineFor, NewEngine
  <2>3. schemaFile # NotInspected
    BY <2>1, AbsenceAssumption
  <2>4. IsEngine(engines'[path])
    BY <2>1, <2>2, FreshEngine
  <2> QED BY <1>1, <1>3, <1>4, <2>1, <2>2, <2>3, <2>4 DEF Typed
<1>5. CASE engines[path] # NoEngine
  <2>1. engines' = engines
    BY <1>5 DEF Typed, EngineFor
  <2> QED BY <1>1, <1>3, <1>5, <2>1 DEF Typed
<1> QED BY <1>4, <1>5

(* What Answer records of a request. *)
EvaluationOf(r) ==
  [session |-> session, path |-> r.path, target |-> r.target, read |-> r.read,
   workflow |-> engines[r.path].workflow,
   receipt |-> ReceiptOf(engines[r.path], r.read, r.target, instanceFile)]

(* Answer: one more receipt in the chain of the engine, one more evaluation. *)
LEMMA AnswerAppends ==
  ASSUME Typed, Answer
  PROVE  LET p == request.path
             r == ReceiptOf(engines[p], request.read, request.target,
                            instanceFile)
         IN  /\ request \in [path : SchemaPaths, target : Targets,
                             read : Documents \cup {NoFile}]
             /\ Len(evaluations) < MaxEvaluations
             /\ request.read \in Documents /\ instanceFile \in Documents
             /\ engines[p].workflow \in BOOLEAN
             /\ engines' = [q \in SchemaPaths |-> engines'[q]]
             /\ \A q \in SchemaPaths \ {p} : engines'[q] = engines[q]
             /\ engines'[p] = [workflow |-> engines[p].workflow,
                               chain |-> Append(engines[p].chain, r)]
             /\ evaluations' = Append(evaluations, EvaluationOf(request))
<1> DEFINE p == request.path
           e == engines[p]
           r == ReceiptOf(e, request.read, request.target, instanceFile)
           answered == Appended(e, WithDefaults(
                         Outcome(e.workflow, request.read.current,
                                 TreeOf(request.read), request.target,
                                 instanceFile)))
<1>1. /\ IsRequest(request) /\ request.read # NoFile /\ instanceFile # NoFile
      /\ engines' = [engines EXCEPT ![p] = answered]
      /\ evaluations' =
            Append(evaluations,
                   [session |-> session, path |-> p,
                    target |-> request.target, read |-> request.read,
                    workflow |-> e.workflow,
                    receipt |-> answered.chain[Len(answered.chain)]])
  BY DEF Answer, Typed
<1>2. /\ request \in [path : SchemaPaths, target : Targets,
                      read : Documents \cup {NoFile}]
      /\ Len(evaluations) < MaxEvaluations
      /\ request.read \in Documents /\ instanceFile \in Documents
  BY <1>1 DEF IsRequest, Typed, FilesTyped
<1>3. p \in SchemaPaths /\ IsEngine(e) /\ e.workflow # NotInspected
  BY <1>1, <1>2 DEF Typed, IsRequest
<1>4. e.workflow \in BOOLEAN
  BY <1>3 DEF IsEngine
<1>5. answered = [workflow |-> e.workflow, chain |-> Append(e.chain, r)]
  <2>1. r = NewReceipt(WithDefaults(Outcome(e.workflow, request.read.current,
                                            TreeOf(request.read),
                                            request.target, instanceFile)),
                       LastHash(e.chain))
    BY DEF ReceiptOf
  <2>2. answered = [e EXCEPT !.chain = Append(e.chain, r)]
    BY <2>1 DEF Appended
  <2> HIDE DEF answered, r, e
  <2> QED BY <1>3, <2>2 DEF IsEngine
<1>6. answered.chain[Len(answered.chain)] = r
  <2> HIDE DEF r, e, answered
  <2>1. IsList(e.chain)
    BY <1>3 DEF IsEngine
  <2>2. answered.chain = Append(e.chain, r)
    BY <1>5
  <2> QED BY <2>1, <2>2, AppendToList
<1> HIDE DEF answered
<1>7. /\ engines' = [q \in SchemaPaths |-> engines'[q]]
      /\ \A q \in SchemaPaths \ {p} : engines'[q] = engines[q]
      /\ engines'[p] = answered
  BY <1>1, <1>3 DEF Typed
<1>8. evaluations' = Append(evaluations, EvaluationOf(request))
  BY <1>1, <1>6 DEF EvaluationOf
<1> QED BY <1>2, <1>4, <1>5, <1>7, <1>8

(* The engines of a process, and the evaluations clients were handed, are  *)
(* well formed in every reachable state; each engine's chain is a list of  *)
(* receipts.                                                               *)
THEOREM TypeInvariant == Spec => []Typed
<1>1. Init => Typed
  <2>1. IsEngine(NoEngine)
    BY FreshEngine DEF NoEngine
  <2>2. IsList(<<>>) /\ Len(<<>>) = 0
    BY EmptyList
  <2> SUFFICES ASSUME Init PROVE Typed
    OBVIOUS
  <2>3. /\ engines = [p \in SchemaPaths |-> engines[p]]
        /\ \A p \in SchemaPaths : IsEngine(engines[p])
    BY <2>1 DEF Init
  <2>4. /\ IsList(evaluations) /\ Len(evaluations) <= MaxEvaluations
        /\ \A i \in 1..Len(evaluations) : IsEvaluation(evaluations[i], session)
    BY <2>2, EngineBounds DEF Init
  <2>5. FilesTyped
    BY DEF Init, FilesTyped
  <2> QED BY <2>3, <2>4, <2>5, EngineBounds DEF Init, Typed
<1>2. Typed /\ [Next]_vars => Typed'
  <2> SUFFICES ASSUME Typed, [Next]_vars PROVE Typed'
    OBVIOUS
  <2>1. ASSUME NEW path \in SchemaPaths, Query(path) PROVE Typed'
    <3>1. request = NoRequest /\ request' = NoRequest
      BY <2>1 DEF Query
    <3>2. engines' = [p \in SchemaPaths |-> engines'[p]]
          /\ \A p \in SchemaPaths : IsEngine(engines'[p])
      BY <2>1, EngineCached DEF Query
    <3>3. UNCHANGED <<files, session, evaluations>>
      BY <2>1 DEF Query
    <3> QED BY <3>1, <3>2, <3>3 DEF Typed, FilesTyped, files
  <2>2. ASSUME NEW path \in SchemaPaths, NEW target \in Targets,
               BeginEvaluation(path, target)
        PROVE  Typed'
    <3>1. /\ request' = [path |-> path, target |-> target, read |-> NoFile]
          /\ Len(evaluations) < MaxEvaluations
          /\ UNCHANGED <<files, session, evaluations>>
      BY <2>2 DEF BeginEvaluation
    <3>2. /\ engines' = [p \in SchemaPaths |-> engines'[p]]
          /\ \A p \in SchemaPaths : IsEngine(engines'[p])
          /\ engines'[path].workflow # NotInspected
      BY <2>2, EngineCached DEF BeginEvaluation
    <3>3. IsRequest(request)'
      BY <3>1, <3>2 DEF IsRequest
    <3> QED BY <3>1, <3>2, <3>3 DEF Typed, FilesTyped, files
  <2>3. CASE ReadWorkflow
    <3>1. /\ IsRequest(request) /\ instanceFile \in Documents
          /\ request' = [request EXCEPT !.read = instanceFile]
          /\ engines' = engines /\ evaluations' = evaluations
      BY <2>3 DEF ReadWorkflow, Typed, FilesTyped
    <3>2. /\ request' \in [path : SchemaPaths, target : Targets,
                           read : Documents \cup {NoFile}]
          /\ request'.path = request.path
      BY <3>1 DEF IsRequest
    <3>3. IsRequest(request)'
      BY <3>1, <3>2 DEF IsRequest
    <3> QED BY <2>3, <3>3 DEF ReadWorkflow, Typed, FilesTyped, files
  <2>4. CASE ReadFails
    BY <2>4 DEF ReadFails, Typed, FilesTyped, files
  <2>5. CASE Answer
    <3> DEFINE p == request.path
               r == ReceiptOf(engines[p], request.read, request.target,
                              instanceFile)
               e == EvaluationOf(request)
    <3>1. /\ request \in [path : SchemaPaths, target : Targets,
                          read : Documents \cup {NoFile}]
          /\ Len(evaluations) < MaxEvaluations
          /\ request.read \in Documents
          /\ engines[p].workflow \in BOOLEAN
          /\ engines' = [q \in SchemaPaths |-> engines'[q]]
          /\ \A q \in SchemaPaths \ {p} : engines'[q] = engines[q]
          /\ engines'[p] = [workflow |-> engines[p].workflow,
                            chain |-> Append(engines[p].chain, r)]
          /\ evaluations' = Append(evaluations, e)
      BY <2>5, AnswerAppends
    <3>2. UNCHANGED <<files, session>> /\ request' = NoRequest
      BY <2>5 DEF Answer
    <3>3. IsReceipt(r)
      BY NewReceiptSealed DEF ReceiptOf
    <3>4. IsEngine(engines'[p])
      <4> HIDE DEF r
      <4>1. IsList(engines[p].chain)
            /\ \A i \in 1..Len(engines[p].chain) : IsReceipt(engines[p].chain[i])
        BY <3>1 DEF Typed, IsEngine
      <4> DEFINE c == Append(engines[p].chain, r)
      <4>2. /\ Len(c) = Len(engines[p].chain) + 1 /\ IsList(c)
            /\ \A i \in 1..Len(engines[p].chain) : c[i] = engines[p].chain[i]
            /\ c[Len(engines[p].chain) + 1] = r
        BY <4>1, AppendToList
      <4> HIDE DEF c
      <4>3. ASSUME NEW i \in 1..Len(c) PROVE IsReceipt(c[i])
        <5>1. CASE i = Len(engines[p].chain) + 1
          BY <3>3, <4>2, <5>1
        <5>2. CASE i \in 1..Len(engines[p].chain)
          BY <4>1, <4>2, <5>2
        <5> QED BY <4>1, <4>2, <5>1, <5>2 DEF IsList
      <4>4. engines[p].workflow # NotInspected
        BY <3>1, AbsenceAssumption
      <4>5. engines'[p] = [workflow |-> engines[p].workflow, chain |-> c]
        BY <3>1 DEF c
      <4> DEFINE f == [workflow |-> engines[p].workflow, chain |-> c]
      <4>6. f.workflow = engines[p].workflow /\ f.chain = c
            /\ f = [workflow |-> f.workflow, chain |-> f.chain]
        OBVIOUS
      <4> HIDE DEF f
      <4>7. f.workflow \in {TRUE, FALSE, NotInspected}
        BY <3>1, <4>6
      <4>8. IsEngine(f)
        BY <4>2, <4>3, <4>4, <4>6, <4>7 DEF IsEngine
      <4> QED BY <4>5, <4>8 DEF f
    <3>5. \A q \in SchemaPaths : IsEngine(engines'[q])
      BY <3>1, <3>4 DEF Typed
    <3>6. IsEvaluation(e, session)
      BY <3>1, <3>2 DEF EvaluationOf, IsEvaluation, Typed
    <3>7. /\ IsList(evaluations') /\ Len(evaluations') <= MaxEvaluations
          /\ \A i \in 1..Len(evaluations') :
               IsEvaluation(evaluations'[i], session)
      <4> HIDE DEF e
      <4>1. IsList(evaluations) /\ Len(evaluations) \in Nat
        BY DEF Typed, IsList
      <4>2. /\ Len(evaluations') = Len(evaluations) + 1 /\ IsList(evaluations')
            /\ \A i \in 1..Len(evaluations) : evaluations'[i] = evaluations[i]
            /\ evaluations'[Len(evaluations) + 1] = e
        BY <3>1, <4>1, AppendToList
      <4>3. ASSUME NEW i \in 1..Len(evaluations)
            PROVE  IsEvaluation(evaluations'[i], session)
        BY <4>2 DEF Typed
      <4> QED BY <3>1, <3>6, <4>1, <4>2, <4>3, EngineBounds
    <3> QED BY <3>1, <3>2, <3>5, <3>7 DEF Typed, FilesTyped, files
  <2>6. ASSUME NEW doc \in Documents \cup {NoFile}, WriteInstance(doc)
        PROVE  Typed'
    <3>1. IsRequest(request)' <=> IsRequest(request)
      BY <2>6 DEF WriteInstance, IsRequest
    <3>2. FilesTyped'
      BY <2>6 DEF WriteInstance, Typed, FilesTyped
    <3> QED BY <2>6, <3>1, <3>2, EngineBounds DEF WriteInstance, Typed
  <2>7. ASSUME NEW c \in {TRUE, FALSE, NoFile}, PublishSchema(c) PROVE Typed'
    <3>1. IsRequest(request)' <=> IsRequest(request)
      BY <2>7 DEF PublishSchema, IsRequest
    <3>2. FilesTyped'
      BY <2>7 DEF PublishSchema, Typed, FilesTyped
    <3> QED BY <2>7, <3>1, <3>2, EngineBounds DEF PublishSchema, Typed
  <2>8. CASE Restart
    <3>1. /\ engines' = [p \in SchemaPaths |-> NoEngine] /\ request' = NoRequest
          /\ session' = session + 1 /\ changes < MaxChanges
          /\ changes' = changes + 1
          /\ UNCHANGED <<schemaFile, instanceFile, evaluations>>
      BY <2>8 DEF Restart
    <3>2. IsEngine(NoEngine)
      BY FreshEngine DEF NoEngine
    <3>3. \A i \in 1..Len(evaluations') :
            IsEvaluation(evaluations'[i], session')
      BY <3>1 DEF Typed, IsEvaluation
    <3>4. FilesTyped'
      BY <3>1 DEF Typed, FilesTyped
    <3> QED BY <3>1, <3>2, <3>3, <3>4, EngineBounds DEF Typed
  <2>9. CASE UNCHANGED vars
    <3>1. IsRequest(request)' <=> IsRequest(request)
      BY <2>9 DEF vars, IsRequest
    <3>2. FilesTyped'
      BY <2>9 DEF vars, Typed, FilesTyped
    <3> QED BY <2>9, <3>1, <3>2 DEF vars, Typed
  <2> QED BY <2>1, <2>2, <2>3, <2>4, <2>5, <2>6, <2>7, <2>8, <2>9
          DEF Next, Environment
<1> QED BY <1>1, <1>2, PTL DEF Spec

(* TypeOK is a consequence: every file, engine and request is of its kind. *)
THEOREM TypeCorrect == Spec => []TypeOK
<1>1. Typed => TypeOK
  <2> SUFFICES ASSUME Typed PROVE TypeOK
    OBVIOUS
  <2>1. ASSUME NEW p \in SchemaPaths
        PROVE  /\ engines[p].workflow \in {TRUE, FALSE, NotInspected}
               /\ \A i \in DOMAIN engines[p].chain :
                    IsReceipt(engines[p].chain[i])
    BY DEF Typed, IsEngine, IsList
  <2>2. request = NoRequest
        \/ request \in [path : SchemaPaths, target : Targets,
                        read : Documents \cup {NoFile}]
    BY DEF Typed, IsRequest
  <2>3. session \in 1..(MaxChanges + 1) /\ changes \in 0..MaxChanges
    BY EngineBounds DEF Typed
  <2> QED BY <2>1, <2>2, <2>3 DEF Typed, FilesTyped, TypeOK
<1> QED BY <1>1, TypeInvariant, PTL

-----------------------------------------------------------------------------
(***************************************************************************)
(* What a step can do to the engines and the evaluations: answer a         *)
(* request, end the process, put one engine into the cache, or nothing.    *)
(***************************************************************************)
Caches(path) ==
  /\ engines[path].workflow = NotInspected /\ schemaFile \in BOOLEAN
  /\ engines'[path] = [workflow |-> schemaFile, chain |-> <<>>]
  /\ \A p \in SchemaPaths \ {path} : engines'[p] = engines[p]

Quiet ==
  /\ UNCHANGED <<session, evaluations>>
  /\ \/ engines' = engines
     \/ \E path \in SchemaPaths : Caches(path)

(* Every step answers an evaluation, restarts the process, or does neither *)
(* and at most fills the cache.                                            *)
LEMMA StepKinds ==
  ASSUME Typed, [Next]_vars
  PROVE  Answer \/ Restart \/ Quiet
<1>1. ASSUME NEW path \in SchemaPaths, EngineAvailable(path),
             engines' = [engines EXCEPT ![path] = EngineFor(path)]
      PROVE  engines' = engines \/ Caches(path)
  BY <1>1, EngineCached DEF Caches
<1>2. ASSUME NEW path \in SchemaPaths, Query(path) PROVE Quiet
  BY <1>1, <1>2 DEF Query, Quiet
<1>3. ASSUME NEW path \in SchemaPaths, NEW target \in Targets,
             BeginEvaluation(path, target)
      PROVE  Quiet
  BY <1>1, <1>3 DEF BeginEvaluation, Quiet
<1>4. ReadWorkflow \/ ReadFails => Quiet
  BY DEF ReadWorkflow, ReadFails, Quiet
<1>5. ASSUME NEW doc, WriteInstance(doc) PROVE Quiet
  BY <1>5 DEF WriteInstance, Quiet
<1>6. ASSUME NEW c, PublishSchema(c) PROVE Quiet
  BY <1>6 DEF PublishSchema, Quiet
<1>7. UNCHANGED vars => Quiet
  BY DEF vars, Quiet
<1> QED BY <1>2, <1>3, <1>4, <1>5, <1>6, <1>7 DEF Next, Environment

(* One more evaluation, in the terms of the list. *)
LEMMA AnswerRecords ==
  ASSUME Typed, Answer
  PROVE  LET e == EvaluationOf(request)
         IN  /\ Len(evaluations') = Len(evaluations) + 1
             /\ DOMAIN evaluations = 1..Len(evaluations)
             /\ DOMAIN evaluations' = 1..(Len(evaluations) + 1)
             /\ \A i \in 1..Len(evaluations) : evaluations'[i] = evaluations[i]
             /\ evaluations'[Len(evaluations) + 1] = e
             /\ session' = session /\ e.session = session
             /\ e.path \in SchemaPaths
             /\ e.workflow = engines[e.path].workflow /\ e.workflow \in BOOLEAN
             /\ engines'[e.path].workflow = e.workflow
             /\ engines'[e.path].chain = Append(engines[e.path].chain, e.receipt)
             /\ \A q \in SchemaPaths \ {e.path} : engines'[q] = engines[q]
<1> DEFINE e == EvaluationOf(request)
<1>1. evaluations' = Append(evaluations, e) /\ IsList(evaluations)
  BY AnswerAppends DEF Typed
<1>2. /\ e.session = session /\ e.path = request.path
      /\ e.workflow = engines[request.path].workflow
      /\ e.receipt = ReceiptOf(engines[request.path], request.read,
                               request.target, instanceFile)
  BY DEF EvaluationOf
<1>3. /\ request.path \in SchemaPaths /\ engines[request.path].workflow \in BOOLEAN
      /\ engines'[request.path]
           = [workflow |-> engines[request.path].workflow,
              chain |-> Append(engines[request.path].chain,
                               ReceiptOf(engines[request.path], request.read,
                                         request.target, instanceFile))]
      /\ \A q \in SchemaPaths \ {request.path} : engines'[q] = engines[q]
  BY AnswerAppends
<1>4. session' = session
  BY DEF Answer
<1> HIDE DEF e
<1>5. /\ Len(evaluations') = Len(evaluations) + 1
      /\ \A i \in 1..Len(evaluations) : evaluations'[i] = evaluations[i]
      /\ evaluations'[Len(evaluations) + 1] = e
      /\ IsList(evaluations')
  BY <1>1, AppendToList
<1>6. /\ DOMAIN evaluations = 1..Len(evaluations)
      /\ DOMAIN evaluations' = 1..(Len(evaluations) + 1)
  BY <1>1, <1>5 DEF IsList
<1>7. /\ engines'[e.path].workflow = e.workflow
      /\ engines'[e.path].chain = Append(engines[e.path].chain, e.receipt)
  BY <1>2, <1>3
<1> QED BY <1>2, <1>3, <1>4, <1>5, <1>6, <1>7 DEF e

(***************************************************************************)
(* Within a session every evaluation under a path saw the flag of the same *)
(* engine, and every decision is the documented verdict on what it saw.    *)
(***************************************************************************)
ModelKept ==
  /\ \A i \in 1..Len(evaluations) :
       evaluations[i].session = session
         => evaluations[i].workflow = engines[evaluations[i].path].workflow
  /\ \A i, j \in 1..Len(evaluations) :
       /\ evaluations[i].session = evaluations[j].session
       /\ evaluations[i].path = evaluations[j].path
       => evaluations[i].workflow = evaluations[j].workflow

(* The model an engine holds is the one its session answered by.           *)
LEMMA ModelInvariant == Spec => []ModelKept
<1>1. Init => ModelKept
  BY EmptyList DEF Init, ModelKept
<1>2. Typed /\ ModelKept /\ [Next]_vars => ModelKept'
  <2> SUFFICES ASSUME Typed, ModelKept, [Next]_vars PROVE ModelKept'
    OBVIOUS
  <2>0. /\ Len(evaluations) \in Nat
        /\ \A i \in 1..Len(evaluations) : evaluations[i].path \in SchemaPaths
                                          /\ evaluations[i].workflow \in BOOLEAN
                                          /\ evaluations[i].session \in 1..session
    BY DEF Typed, IsList, IsEvaluation
  <2>1. CASE Answer
    <3> DEFINE e == EvaluationOf(request)
    <3>1. /\ Len(evaluations') = Len(evaluations) + 1
          /\ \A i \in 1..Len(evaluations) : evaluations'[i] = evaluations[i]
          /\ evaluations'[Len(evaluations) + 1] = e
          /\ session' = session /\ e.session = session
          /\ e.path \in SchemaPaths /\ e.workflow = engines[e.path].workflow
          /\ \A q \in SchemaPaths : engines'[q].workflow = engines[q].workflow
      BY <2>1, AnswerRecords
    <3> HIDE DEF e
    <3>2. ASSUME NEW i \in 1..Len(evaluations'), evaluations'[i].session = session
          PROVE  evaluations'[i].workflow
                   = engines[evaluations'[i].path].workflow
      <4>1. CASE i \in 1..Len(evaluations)
        BY <3>1, <3>2, <4>1 DEF ModelKept
      <4>2. CASE i = Len(evaluations) + 1
        BY <3>1, <4>2
      <4> QED BY <2>0, <3>1, <4>1, <4>2
    <3>3. ASSUME NEW i \in 1..Len(evaluations'), NEW j \in 1..Len(evaluations'),
                 evaluations'[i].session = evaluations'[j].session,
                 evaluations'[i].path = evaluations'[j].path
          PROVE  evaluations'[i].workflow = evaluations'[j].workflow
      <4>1. CASE evaluations'[i].session = session
        BY <3>2, <3>3, <4>1
      <4>2. CASE evaluations'[i].session # session
        <5>1. i \in 1..Len(evaluations) /\ j \in 1..Len(evaluations)
          BY <2>0, <3>1, <3>3, <4>2
        <5> QED BY <3>1, <3>3, <5>1 DEF ModelKept
      <4> QED BY <4>1, <4>2
    <3>4. \A i \in 1..Len(evaluations') :
            evaluations'[i].path \in SchemaPaths
      BY <2>0, <3>1
    <3> QED BY <3>1, <3>2, <3>3, <3>4 DEF ModelKept
  <2>2. CASE Restart
    <3>1. session' = session + 1 /\ evaluations' = evaluations
      BY <2>2 DEF Restart
    <3>2. \A i \in 1..Len(evaluations) : evaluations[i].session # session'
      BY <2>0, <3>1 DEF Typed
    <3> QED BY <3>1, <3>2 DEF ModelKept
  <2>3. CASE Quiet
    <3>1. session' = session /\ evaluations' = evaluations
      BY <2>3 DEF Quiet
    <3>2. ASSUME NEW i \in 1..Len(evaluations), evaluations[i].session = session
          PROVE  evaluations[i].workflow = engines'[evaluations[i].path].workflow
      <4>1. engines[evaluations[i].path].workflow # NotInspected
        BY <2>0, <3>2, AbsenceAssumption DEF ModelKept
      <4>2. engines'[evaluations[i].path] = engines[evaluations[i].path]
        BY <2>0, <2>3, <4>1 DEF Quiet, Caches
      <4> QED BY <3>2, <4>2 DEF ModelKept
    <3> QED BY <3>1, <3>2 DEF ModelKept
  <2> QED BY <2>1, <2>2, <2>3, StepKinds
<1> QED BY <1>1, <1>2, TypeInvariant, PTL DEF Spec

(***************************************************************************)
(* Every answer is the documented verdict on the document the request      *)
(* read, whatever was written, published or restarted meanwhile.           *)
(***************************************************************************)
THEOREM DecisionsDocumented == Spec => []DecisionsAreDocumented
<1>1. Init => DecisionsAreDocumented
  BY EmptyList DEF Init, DecisionsAreDocumented
<1>2. Typed /\ DecisionsAreDocumented /\ [Next]_vars => DecisionsAreDocumented'
  <2> SUFFICES ASSUME Typed, DecisionsAreDocumented, [Next]_vars
               PROVE  DecisionsAreDocumented'
    OBVIOUS
  <2>1. CASE Answer
    <3> DEFINE e == EvaluationOf(request)
    <3>1. /\ DOMAIN evaluations = 1..Len(evaluations)
          /\ DOMAIN evaluations' = 1..(Len(evaluations) + 1)
          /\ \A i \in 1..Len(evaluations) : evaluations'[i] = evaluations[i]
          /\ evaluations'[Len(evaluations) + 1] = e
          /\ Len(evaluations) \in Nat
      BY <2>1, AnswerRecords DEF Typed, IsList
    <3>2. /\ request \in [path : SchemaPaths, target : Targets,
                          read : Documents \cup {NoFile}]
          /\ request.read \in Documents /\ instanceFile \in Documents
          /\ engines[request.path].workflow \in BOOLEAN
      BY <2>1, AnswerAppends
    <3>3. e.receipt["decision"]
            = DocumentedVerdict(e.workflow, e.read, e.target)
      <4>1. /\ e.receipt = ReceiptOf(engines[request.path], request.read,
                                     request.target, instanceFile)
            /\ e.workflow = engines[request.path].workflow
            /\ e.read = request.read /\ e.target = request.target
        BY DEF EvaluationOf
      <4> HIDE DEF e
      <4> QED BY <3>2, <4>1, ReceiptStates
    <3> HIDE DEF e
    <3> QED BY <3>1, <3>3 DEF DecisionsAreDocumented
  <2>2. CASE evaluations' = evaluations
    BY <2>2 DEF DecisionsAreDocumented
  <2> QED BY <2>1, <2>2, StepKinds DEF Restart, Quiet
<1> QED BY <1>1, <1>2, TypeInvariant, PTL DEF Spec

(***************************************************************************)
(* One engine answers the same document and target the same way, whatever  *)
(* is published under its schema path meanwhile.                           *)
(***************************************************************************)
THEOREM EngineReplays == Spec => []ReplaysWithinEngine
<1>1. Typed /\ ModelKept /\ DecisionsAreDocumented => ReplaysWithinEngine
  BY DEF Typed, IsList, ModelKept, DecisionsAreDocumented, ReplaysWithinEngine
<1> QED BY <1>1, TypeInvariant, ModelInvariant, DecisionsDocumented, PTL

-----------------------------------------------------------------------------
(***************************************************************************)
(* The chain of an engine and the receipts that were handed out.           *)
(***************************************************************************)
Answered(chain, evals, issued) ==
  \E answer \in [DOMAIN chain -> issued] :
     /\ \A i, j \in DOMAIN chain : i < j => answer[i] < answer[j]
     /\ \A k \in issued : \E i \in DOMAIN chain : answer[i] = k
     /\ \A i \in DOMAIN chain : chain[i] = evals[answer[i]].receipt

(* An engine that issued nothing has answered nothing.                     *)
LEMMA NothingAnswered ==
  ASSUME NEW evals
  PROVE  VerifyChain(<<>>) /\ Answered(<<>>, evals, {})
<1>1. DOMAIN <<>> = {} /\ 1..Len(<<>>) = {}
  BY EmptyList DEF IsList
<1>2. [i \in {} |-> i] \in [{} -> {}]
  OBVIOUS
<1> QED BY <1>1, <1>2 DEF VerifyChain, Answered

(* Evaluations of another path or session do not disturb the map. *)
LEMMA AnsweredStill ==
  ASSUME NEW chain, NEW evals, NEW more, NEW issued,
         Answered(chain, evals, issued), \A k \in issued : more[k] = evals[k]
  PROVE  Answered(chain, more, issued)
BY DEF Answered

(* The map is extended by the newest position and the newest evaluation. *)
LEMMA AnsweredMore ==
  ASSUME NEW chain, IsList(chain), NEW n \in Nat, NEW issued \in SUBSET (1..n),
         NEW evals, NEW more, Answered(chain, evals, issued),
         \A k \in 1..n : more[k] = evals[k]
  PROVE  Answered(Append(chain, more[n + 1].receipt), more, issued \cup {n + 1})
<1> DEFINE r == more[n + 1].receipt
           longer == Append(chain, r)
           l == Len(chain)
<1>1. /\ DOMAIN chain = 1..l /\ l \in Nat /\ DOMAIN longer = 1..(l + 1)
      /\ \A i \in 1..l : longer[i] = chain[i]
      /\ longer[l + 1] = r
  BY AppendToList DEF IsList
<1>2. PICK answer \in [1..l -> issued] :
        /\ \A i, j \in 1..l : i < j => answer[i] < answer[j]
        /\ \A k \in issued : \E i \in 1..l : answer[i] = k
        /\ \A i \in 1..l : chain[i] = evals[answer[i]].receipt
  BY <1>1 DEF Answered
<1> DEFINE next == [i \in 1..(l + 1) |-> IF i = l + 1 THEN n + 1 ELSE answer[i]]
<1> HIDE DEF longer, l
<1>3. /\ next \in [1..(l + 1) -> issued \cup {n + 1}]
      /\ next[l + 1] = n + 1 /\ \A i \in 1..l : next[i] = answer[i]
  BY <1>1
<1> HIDE DEF next
<1>4. \A i \in 1..l : answer[i] \in 1..n
  BY <1>2
<1>5. ASSUME NEW i \in 1..(l + 1), NEW j \in 1..(l + 1), i < j
      PROVE  next[i] < next[j]
  <2>1. i \in 1..l /\ next[i] = answer[i] /\ answer[i] \in 1..n
    BY <1>1, <1>3, <1>4, <1>5
  <2>2. CASE j = l + 1
    BY <1>3, <2>1, <2>2
  <2>3. CASE j \in 1..l
    BY <1>2, <1>3, <1>5, <2>1, <2>3
  <2> QED BY <1>1, <2>2, <2>3
<1>6. ASSUME NEW k \in issued \cup {n + 1}
      PROVE  \E i \in 1..(l + 1) : next[i] = k
  BY <1>1, <1>2, <1>3
<1>7. ASSUME NEW i \in 1..(l + 1) PROVE longer[i] = more[next[i]].receipt
  <2>1. CASE i = l + 1
    BY <1>1, <1>3, <2>1
  <2>2. CASE i \in 1..l
    BY <1>1, <1>2, <1>3, <1>4, <2>2
  <2> QED BY <1>1, <2>1, <2>2
<1>8. Answered(longer, more, issued \cup {n + 1})
  <2>1. next \in [DOMAIN longer -> issued \cup {n + 1}]
    BY <1>1, <1>3
  <2> SUFFICES /\ \A i, j \in DOMAIN longer : i < j => next[i] < next[j]
               /\ \A k \in issued \cup {n + 1} :
                    \E i \in DOMAIN longer : next[i] = k
               /\ \A i \in DOMAIN longer : longer[i] = more[next[i]].receipt
    BY <2>1, Zenon DEF Answered
  <2> QED BY <1>1, <1>5, <1>6, <1>7
<1> QED BY <1>8 DEF longer

(* AnswersAreTheChain, path by path.                                       *)
LEMMA AnswersAsOne ==
  AnswersAreTheChain
    <=> \A p \in SchemaPaths : /\ VerifyChain(engines[p].chain)
                               /\ Answered(engines[p].chain, evaluations,
                                           IssuedBy(p))
BY DEF AnswersAreTheChain, Answered

(***************************************************************************)
(* Within a session, what clients were handed under a path is the chain of *)
(* its engine, in order and without a gap, and the chain verifies.         *)
(***************************************************************************)
THEOREM ChainsAreAnswers == Spec => []AnswersAreTheChain
<1>1. Init => AnswersAreTheChain
  <2> SUFFICES ASSUME Init, NEW p \in SchemaPaths
               PROVE  VerifyChain(engines[p].chain)
                      /\ Answered(engines[p].chain, evaluations, IssuedBy(p))
    BY AnswersAsOne
  <2>1. engines[p].chain = <<>> /\ IssuedBy(p) = {}
    BY EmptyList DEF Init, NoEngine, IssuedBy, IsList
  <2> QED BY <2>1, NothingAnswered
<1>2. Typed /\ ModelKept /\ AnswersAreTheChain /\ [Next]_vars
        => AnswersAreTheChain'
  <2> SUFFICES ASSUME Typed, ModelKept, AnswersAreTheChain, [Next]_vars,
                      NEW p \in SchemaPaths
               PROVE  /\ VerifyChain(engines'[p].chain)
                      /\ Answered(engines'[p].chain, evaluations', IssuedBy(p)')
    BY DEF AnswersAreTheChain, Answered
  <2>1. /\ VerifyChain(engines[p].chain)
        /\ Answered(engines[p].chain, evaluations, IssuedBy(p))
    BY AnswersAsOne
  <2>2. /\ IsList(engines[p].chain) /\ DOMAIN evaluations = 1..Len(evaluations)
        /\ Len(evaluations) \in Nat
        /\ \A i \in 1..Len(evaluations) : evaluations[i].session \in 1..session
                                          /\ evaluations[i].workflow \in BOOLEAN
    BY DEF Typed, IsEngine, IsList, IsEvaluation
  <2>3. CASE Answer
    <3> DEFINE e == EvaluationOf(request)
               n == Len(evaluations)
    <3>1. /\ DOMAIN evaluations' = 1..(n + 1)
          /\ \A i \in 1..n : evaluations'[i] = evaluations[i]
          /\ evaluations'[n + 1] = e
          /\ session' = session /\ e.session = session
          /\ e.path \in SchemaPaths
          /\ engines'[e.path].chain = Append(engines[e.path].chain, e.receipt)
          /\ \A q \in SchemaPaths \ {e.path} : engines'[q] = engines[q]
      BY <2>3, AnswerRecords
    <3>2. VerifyHash(e.receipt)
          /\ e.receipt["previous_hash"] = LastHash(engines[e.path].chain)
      <4>1. e.path = request.path
            /\ e.receipt = ReceiptOf(engines[request.path], request.read,
                                     request.target, instanceFile)
        BY DEF EvaluationOf
      <4> HIDE DEF e
      <4> QED BY <4>1, NewReceiptSealed DEF ReceiptOf
    <3> HIDE DEF e, n
    <3>3. IssuedBy(p) \in SUBSET (1..n)
      BY <2>2 DEF IssuedBy, n
    <3>4. CASE p = e.path
      <4>1. IssuedBy(p)' = IssuedBy(p) \cup {n + 1}
        BY <2>2, <3>1, <3>4 DEF IssuedBy, n
      <4>2. VerifyChain(engines'[p].chain)
        <5> DEFINE c == engines[p].chain
                   r == e.receipt
        <5>1. IsList(c) /\ VerifyChain(c) /\ VerifyHash(r)
              /\ r["previous_hash"] = LastHash(c)
          BY <2>1, <2>2, <3>2, <3>4
        <5>2. engines'[p].chain = Append(c, r)
          BY <3>1, <3>4
        <5> HIDE DEF c, r
        <5>3. VerifyChain(Append(c, r))
          BY <5>1, AppendVerifies
        <5> QED BY <5>2, <5>3
      <4>3. engines'[p].chain
              = Append(engines[p].chain, evaluations'[n + 1].receipt)
        BY <3>1, <3>4
      <4>4. Answered(engines'[p].chain, evaluations', IssuedBy(p) \cup {n + 1})
        <5> DEFINE c == engines[p].chain
                   more == evaluations'
        <5>1. n \in Nat /\ IsList(c) /\ Answered(c, evaluations, IssuedBy(p))
          BY <2>1, <2>2 DEF n
        <5>2. /\ \A k \in 1..n : more[k] = evaluations[k]
              /\ engines'[p].chain = Append(c, more[n + 1].receipt)
          BY <3>1, <4>3
        <5> HIDE DEF c, more
        <5>3. Answered(Append(c, more[n + 1].receipt), more,
                       IssuedBy(p) \cup {n + 1})
          BY <3>3, <5>1, <5>2, AnsweredMore
        <5> QED BY <5>2, <5>3 DEF more
      <4> QED BY <4>1, <4>2, <4>4
    <3>5. CASE p # e.path
      <4>1. IssuedBy(p)' = IssuedBy(p)
        BY <2>2, <3>1, <3>5 DEF IssuedBy, n
      <4>2. engines'[p] = engines[p]
        BY <3>1, <3>5
      <4>3. \A k \in IssuedBy(p) : evaluations'[k] = evaluations[k]
        BY <3>1, <3>3
      <4>4. Answered(engines[p].chain, evaluations', IssuedBy(p))
        BY <2>1, <4>3, AnsweredStill
      <4> QED BY <2>1, <4>1, <4>2, <4>4
    <3> QED BY <3>4, <3>5
  <2>4. CASE Restart
    <3>1. session' = session + 1 /\ evaluations' = evaluations
          /\ engines'[p].chain = <<>>
      BY <2>4 DEF Restart, NoEngine
    <3>2. IssuedBy(p)' = {}
      BY <2>2, <3>1 DEF IssuedBy, Typed
    <3> QED BY <3>1, <3>2, NothingAnswered
  <2>5. CASE Quiet
    <3>1. session' = session /\ evaluations' = evaluations
          /\ IssuedBy(p)' = IssuedBy(p)
      BY <2>5 DEF Quiet, IssuedBy
    <3>2. CASE engines'[p] = engines[p]
      BY <2>1, <3>1, <3>2
    <3>3. CASE Caches(p)
      <4>1. engines'[p].chain = <<>>
        BY <3>3 DEF Caches
      <4>2. IssuedBy(p) = {}
        BY <2>2, <3>3, AbsenceAssumption DEF IssuedBy, ModelKept, Caches
      <4> QED BY <3>1, <4>1, <4>2, NothingAnswered
    <3> QED BY <2>5, <3>2, <3>3 DEF Quiet, Caches
  <2> QED BY <2>3, <2>4, <2>5, StepKinds
<1> QED BY <1>1, <1>2, TypeInvariant, ModelInvariant, PTL DEF Spec

-----------------------------------------------------------------------------
(***************************************************************************)
(* The refinement: what the requests, with their two reads, failures and   *)
(* restarts, come to for a client.                                         *)
(***************************************************************************)
Statements(chain) == [i \in DOMAIN chain |-> StatementIn(chain[i])]

Answers(evals) ==
  [i \in DOMAIN evals |-> StatementIn(evals[i].receipt)]

(* No receipts, no statements.                                             *)
LEMMA NoStatements == Statements(<<>>) = <<>> /\ Answers(<<>>) = <<>>
<1>1. DOMAIN <<>> = 1..0
  BY EmptyList DEF IsList
<1> DEFINE s == Statements(<<>>)
           t == Answers(<<>>)
<1>2. s = [i \in 1..0 |-> s[i]] /\ t = [i \in 1..0 |-> t[i]]
  BY <1>1 DEF Statements, Answers
<1> HIDE DEF s, t
<1>3. IsList(s) /\ Len(s) = 0 /\ IsList(t) /\ Len(t) = 0
  BY <1>2, FunctionIsList
<1> QED BY <1>3, EmptyList DEF s, t

(* One more receipt in a chain is one more statement of its ledger.        *)
LEMMA StatementsAppend ==
  ASSUME NEW c, IsList(c), NEW r
  PROVE  Statements(Append(c, r)) = Append(Statements(c), StatementIn(r))
<1> DEFINE d == Append(c, r)
           s == Statements(c)
           t == Statements(d)
           l == Len(c)
<1>1. /\ l \in Nat /\ DOMAIN c = 1..l /\ DOMAIN d = 1..(l + 1)
      /\ \A i \in 1..l : d[i] = c[i]
      /\ d[l + 1] = r
  BY AppendToList DEF IsList
<1> HIDE DEF d, l
<1>2. /\ s = [i \in 1..l |-> s[i]] /\ t = [i \in 1..(l + 1) |-> t[i]]
      /\ \A i \in 1..l : t[i] = s[i]
      /\ t[l + 1] = StatementIn(r)
  BY <1>1 DEF Statements
<1> HIDE DEF s, t
<1>3. IsList(s) /\ Len(s) = l /\ IsList(t) /\ Len(t) = l + 1
  BY <1>1, <1>2, FunctionIsList
<1>4. t = Append(s, StatementIn(r))
  BY <1>2, <1>3, AppendUnique
<1> QED BY <1>4 DEF s, t, d

(* One more evaluation is one more answer of the service.                  *)
LEMMA AnswersAppend ==
  ASSUME NEW c, IsList(c), NEW e
  PROVE  Answers(Append(c, e)) = Append(Answers(c), StatementIn(e.receipt))
<1> DEFINE d == Append(c, e)
           s == Answers(c)
           t == Answers(d)
           l == Len(c)
<1>1. /\ l \in Nat /\ DOMAIN c = 1..l /\ DOMAIN d = 1..(l + 1)
      /\ \A i \in 1..l : d[i] = c[i]
      /\ d[l + 1] = e
  BY AppendToList DEF IsList
<1> HIDE DEF d, l
<1>2. /\ s = [i \in 1..l |-> s[i]] /\ t = [i \in 1..(l + 1) |-> t[i]]
      /\ \A i \in 1..l : t[i] = s[i]
      /\ t[l + 1] = StatementIn(e.receipt)
  BY <1>1 DEF Answers
<1> HIDE DEF s, t
<1>3. IsList(s) /\ Len(s) = l /\ IsList(t) /\ Len(t) = l + 1
  BY <1>1, <1>2, FunctionIsList
<1>4. t = Append(s, StatementIn(e.receipt))
  BY <1>2, <1>3, AppendUnique
<1> QED BY <1>4 DEF s, t, d

(* The abstract variables. *)
Models == [p \in SchemaPaths |-> engines[p].workflow]
Ledgers == [p \in SchemaPaths |-> Statements(engines[p].chain)]

(* A client that was told nothing and owns no model. *)
LEMMA InitRefines ==
  ASSUME Init
  PROVE  Service!Init
<1>1. \A p \in SchemaPaths : engines[p].workflow = NotInspected
                             /\ engines[p].chain = <<>>
  BY DEF Init, NoEngine
<1>2. Models = [p \in SchemaPaths |-> NotInspected]
  BY <1>1 DEF Models
<1>3. Ledgers = [p \in SchemaPaths |-> <<>>]
  BY <1>1, NoStatements DEF Ledgers
<1>4. Answers(evaluations) = <<>>
  BY NoStatements DEF Init
<1> QED BY <1>2, <1>3, <1>4
        DEF Service!Init, Models, Ledgers, Statements, Answers

DecisionOn(path, doc, named, goal) ==
  [decision |-> Verdicts[Models[path]][doc][goal],
   from |-> doc.current, to |-> goal,
   id |-> named.id, version |-> named.version]

Decides(path, doc, named, goal) ==
  /\ Models[path] # NotInspected
  /\ Models' = Models
  /\ Answers(evaluations')
       = Append(Answers(evaluations), DecisionOn(path, doc, named, goal))
  /\ Ledgers' = [Ledgers EXCEPT ![path] =
                   Append(@, DecisionOn(path, doc, named, goal))]

(* Answer is Decide, on the document that was read first, naming the one   *)
(* that was read second.                                                   *)
LEMMA AnswerIsDecide ==
  ASSUME Typed, Answer
  PROVE  Service!Next
<1> DEFINE e == EvaluationOf(request)
           p == request.path
           st == StatementIn(e.receipt)
<1>1. /\ p \in SchemaPaths /\ request.target \in Targets
      /\ request.read \in Documents /\ instanceFile \in Documents
      /\ engines[p].workflow \in BOOLEAN
      /\ evaluations' = Append(evaluations, e)
  BY AnswerAppends
<1>2. /\ e.path = p /\ e.workflow = engines[p].workflow
      /\ e.receipt = ReceiptOf(engines[p], request.read, request.target,
                               instanceFile)
  BY DEF EvaluationOf
<1>3. /\ engines'[p].workflow = e.workflow
      /\ engines'[p].chain = Append(engines[p].chain, e.receipt)
      /\ \A q \in SchemaPaths \ {p} : engines'[q] = engines[q]
  BY <1>2, AnswerRecords
<1>4. IsList(evaluations) /\ IsList(engines[p].chain)
  BY <1>1 DEF Typed, IsEngine
<1>5. st = DecisionOn(p, request.read, instanceFile, request.target)
  <2>1. Verdicts[engines[p].workflow][request.read][request.target]
          = DocumentedVerdict(engines[p].workflow, request.read, request.target)
    BY <1>1 DEF Verdicts
  <2> HIDE DEF e
  <2> QED BY <1>1, <1>2, <2>1, ReceiptStates DEF StatementIn, DecisionOn, Models
<1> HIDE DEF e, p
<1>6. Models' = Models
  BY <1>2, <1>3 DEF Models
<1>7. Answers(evaluations') = Append(Answers(evaluations), st)
  BY <1>1, <1>4, AnswersAppend
<1>8. Ledgers' = [Ledgers EXCEPT ![p] = Append(@, st)]
  <2>1. Statements(engines'[p].chain) = Append(Statements(engines[p].chain), st)
    BY <1>3, <1>4, StatementsAppend
  <2> HIDE DEF st
  <2> QED BY <1>1, <1>3, <2>1 DEF Ledgers
<1>9. Models[p] # NotInspected
  BY <1>1, AbsenceAssumption DEF Models
<1> HIDE DEF st
<1>10. Decides(p, request.read, instanceFile, request.target)
  BY <1>1, <1>5, <1>6, <1>7, <1>8, <1>9 DEF Decides
<1>11. \E path \in SchemaPaths, doc, named \in Documents, goal \in Targets :
         Decides(path, doc, named, goal)
  BY <1>1, <1>10
<1> QED BY <1>11
        DEF Service!Next, Service!Decide, Service!Statement, Decides,
            DecisionOn, Models, Ledgers, Statements, Answers

(* A restart of the server is the service's end of a process.              *)
LEMMA RestartIsEndProcess ==
  ASSUME Restart
  PROVE  Service!Next
<1>1. /\ \A p \in SchemaPaths : engines'[p].workflow = NotInspected
                                /\ engines'[p].chain = <<>>
      /\ evaluations' = evaluations
  BY DEF Restart, NoEngine
<1>2. Models' = [p \in SchemaPaths |-> NotInspected]
  BY <1>1 DEF Models
<1>3. Ledgers' = [p \in SchemaPaths |-> <<>>]
  BY <1>1, NoStatements DEF Ledgers
<1>4. Service!EndProcess
  BY <1>1, <1>2, <1>3
     DEF Service!EndProcess, Models, Ledgers, Statements, Answers
<1> QED BY <1>4 DEF Service!Next

(* An engine that is made opens the model; all else changes nothing that a *)
(* client was promised.                                                    *)
LEMMA QuietIsOpenOrNothing ==
  ASSUME Typed, Quiet
  PROVE  [Service!Next]_(Service!vars)
<1>1. evaluations' = evaluations
  BY DEF Quiet
<1>2. CASE engines' = engines
  BY <1>1, <1>2 DEF Service!vars
<1>3. ASSUME NEW path \in SchemaPaths, Caches(path) PROVE Service!Next
  <2>1. /\ engines[path].workflow = NotInspected /\ schemaFile \in BOOLEAN
        /\ engines'[path].workflow = schemaFile /\ engines'[path].chain = <<>>
        /\ \A p \in SchemaPaths \ {path} : engines'[p] = engines[p]
    BY <1>3 DEF Caches
  <2>2. engines[path].chain = <<>>
    BY <2>1 DEF Typed, IsEngine
  <2>3. Models' = [Models EXCEPT ![path] = schemaFile]
    BY <2>1 DEF Models
  <2>4. Ledgers' = Ledgers
    BY <2>1, <2>2 DEF Ledgers
  <2>5. Models[path] = NotInspected
    BY <2>1 DEF Models
  <2>6. Service!Open(path)
    BY <1>1, <2>1, <2>3, <2>4, <2>5
       DEF Service!Open, Models, Ledgers, Statements, Answers
  <2> QED BY <2>6 DEF Service!Next
<1> QED BY <1>2, <1>3 DEF Quiet

(***************************************************************************)
(* Every behaviour of the engines, with their two reads, failed requests,  *)
(* republished schemas and restarts, is one of GovernanceService: a        *)
(* decision is atomic, and it is in the ledger exactly when it was         *)
(* answered.                                                               *)
(***************************************************************************)
THEOREM ServiceImplemented == Spec => ImplementsService
<1>1. Init => Service!Init
  BY InitRefines
<1>2. Typed /\ [Next]_vars => [Service!Next]_(Service!vars)
  BY StepKinds, AnswerIsDecide, RestartIsEndProcess, QuietIsOpenOrNothing
<1> QED BY <1>1, <1>2, TypeInvariant, PTL
        DEF Spec, ImplementsService, Service!Spec
=============================================================================
