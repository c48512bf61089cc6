-------------------------- MODULE GovernanceEngine --------------------------
(***************************************************************************)
(* evaluate_transition from request to receipt: the engine cache of the    *)
(* MCP server, the engines with the chain each keeps, and the two files a  *)
(* request reads while other programs may replace them.                    *)
(*                                                                         *)
(* The server takes one request at a time (run_stdio).  Within a request   *)
(* it inspects the schema if no engine is cached under that path, parses   *)
(* the instance for its state and workflow, parses the instance again for  *)
(* its identity, and then decides and appends without further input.       *)
(***************************************************************************)
EXTENDS Receipts, Workflow

CONSTANTS
  SchemaPaths,     \* the strings by which clients name the one schema file
  Documents,       \* the documents that may be at the instance path
  Targets,         \* the target states clients ask for
  NoFile,          \* there is no readable file at the path
  NoWorkflow,      \* the document has no workflow element
  NotInspected,    \* no engine has read the schema under that path
  NoRequest,
  MaxEvaluations,  \* bound on the evaluations answered
  MaxChanges       \* bound on the writes, publications and restarts

ASSUME EngineBounds == MaxEvaluations \in Nat /\ MaxChanges \in Nat

ASSUME DocumentsAssumption ==
  \A d \in Documents :
    \/ d.workflow = NoWorkflow
    \/ /\ DOMAIN d.workflow = 1..Len(d.workflow) /\ Len(d.workflow) \in Nat
       /\ \A i \in DOMAIN d.workflow :
            d.workflow[i].ordinal \in Int \cup {Unparsable}
       /\ ParseWorkflowCluster(d.workflow) # NoWorkflow

ASSUME AbsenceAssumption ==
  /\ {NotInspected, NoFile} \cap BOOLEAN = {} /\ NoFile \notin Documents
  /\ NoRequest \notin [path : SchemaPaths, target : Targets,
                       read : Documents \cup {NoFile}]

VARIABLES
  schemaFile,    \* NoFile, or whether the schema on disk defines a workflow
  instanceFile,  \* NoFile, or the document on disk
  engines,       \* mcp_server._engines: path |-> its engine, or NoEngine
  request,       \* the evaluate_transition being handled, or NoRequest
  session,       \* how often the server process was started
  evaluations,   \* history: what each answered evaluation saw and returned
  changes        \* how many writes, publications and restarts there were

vars == <<schemaFile, instanceFile, engines, request, session, evaluations,
          changes>>

files == <<schemaFile, instanceFile, changes>>

-----------------------------------------------------------------------------
(* A path that is no key of _engines. *)
NoEngine == [workflow |-> NotInspected, chain |-> <<>>]

(* GovernanceEngine.__init__ *)
NewEngine == [workflow |-> schemaFile, chain |-> <<>>]

(* Mutant: the schema is inspected again on every call, the chain kept. *)
EngineForReinspecting(path) ==
  IF engines[path] = NoEngine THEN NewEngine
  ELSE IF schemaFile = NoFile THEN engines[path]
  ELSE [engines[path] EXCEPT !.workflow = schemaFile]

(* Mutant: an engine whose schema was republished is made anew, and its     *)
(* chain is lost.                                                          *)
EngineForReplacing(path) ==
  IF engines[path] = NoEngine THEN NewEngine
  ELSE IF schemaFile = NoFile \/ schemaFile = engines[path].workflow
  THEN engines[path]
  ELSE NewEngine

(* _get_engine *)
EngineFor(path) ==
  IF engines[path] = NoEngine THEN NewEngine ELSE engines[path]

(* Mutant: an engine is cached although its schema could not be read. *)
EngineAvailableAlways(path) == TRUE

EngineAvailable(path) == engines[path] # NoEngine \/ schemaFile # NoFile

(* GovernanceEngine.evaluate_transition: the arguments given to append.    *)
(* named is the document the instance is identified by.                    *)
Outcome(workflow, current, tree, target, named) ==
  LET Decided(decision, status, errors, why) ==
        [decision |-> decision, status_code |-> status, errors |-> errors,
         reasoning |-> <<why, current, target>>,
         dimensions_checked |-> "workflow", timestamp |-> "now",
         instance_id |-> named.id, instance_version |-> named.version]
  IN  CASE ~workflow ->
             Decided("NOT_APPLICABLE", "OK", Empty, "no workflow governance")
        [] workflow /\ tree = NoWorkflow ->
             Decided("INDETERMINATE", "MISSING_ATTRIBUTE", "no tree", "no tree")
        [] OTHER ->
             IF FindCurrentState(tree, current) = {}
             THEN Decided("DENY", "OK", "unknown state", "state not found")
             ELSE IF IsValidTransition(tree, current, target)
             THEN Decided("PERMIT", "OK", Empty, "valid in paths")
             ELSE Decided("DENY", "OK", "invalid transition", "not in any path")

(* extract_workflow_from_instance *)
TreeOf(doc) ==
  IF doc.workflow = NoWorkflow THEN NoWorkflow
  ELSE ParseWorkflowCluster(doc.workflow)

(* ReceiptChain.append on the engine's chain. *)
Appended(engine, args) ==
  [engine EXCEPT !.chain = Append(@, NewReceipt(args, LastHash(@)))]

-----------------------------------------------------------------------------
Init ==
  /\ schemaFile \in {TRUE, FALSE}
  /\ instanceFile \in Documents
  /\ engines = [p \in SchemaPaths |-> NoEngine]
  /\ request = NoRequest
  /\ session = 1
  /\ evaluations = <<>>
  /\ changes = 0

(* get_governance_status and get_allowed_transitions change nothing but    *)
(* the engine cache, also when the instance cannot be read.                *)
Query(path) ==
  /\ request = NoRequest
  /\ EngineAvailable(path)
  /\ engines' = [engines EXCEPT ![path] = EngineFor(path)]
  /\ UNCHANGED <<files, request, session, evaluations>>

(* evaluate_transition, up to the engine; an unreadable schema raises and  *)
(* leaves no engine behind.                                                *)
BeginEvaluation(path, target) ==
  /\ request = NoRequest
  /\ Len(evaluations) < MaxEvaluations
  /\ EngineAvailable(path)
  /\ engines' = [engines EXCEPT ![path] = EngineFor(path)]
  /\ request' = [path |-> path, target |-> target, read |-> NoFile]
  /\ UNCHANGED <<files, session, evaluations>>

(* The first parse of the instance. *)
ReadWorkflow ==
  /\ request # NoRequest
  /\ request.read = NoFile
  /\ instanceFile # NoFile
  /\ request' = [request EXCEPT !.read = instanceFile]
  /\ UNCHANGED <<files, engines, session, evaluations>>

(* Mutant: the receipt is appended before the identity is known to be      *)
(* readable.                                                               *)
ReadFailsAfterAppend ==
  /\ request # NoRequest
  /\ instanceFile = NoFile
  /\ request' = NoRequest
  /\ engines' = [engines EXCEPT ![request.path] =
                   Appended(@, WithDefaults([decision |-> "INDETERMINATE"]))]
  /\ UNCHANGED <<files, session, evaluations>>

(* A parse that raises is answered with an error and nothing is appended. *)
ReadFails ==
  /\ request # NoRequest
  /\ instanceFile = NoFile
  /\ request' = NoRequest
  /\ UNCHANGED <<files, engines, session, evaluations>>

(* The second parse, the decision, the receipt and the answer. *)
Answer ==
  /\ request # NoRequest
  /\ request.read # NoFile
  /\ instanceFile # NoFile
  /\ LET doc == request.read
         engine == engines[request.path]
         args == Outcome(engine.workflow, doc.current, TreeOf(doc),
                         request.target, instanceFile)
         answered == Appended(engine, WithDefaults(args))
     IN  /\ engines' = [engines EXCEPT ![request.path] = answered]
         /\ evaluations' =
              Append(evaluations,
                     [session |-> session, path |-> request.path,
                      target |-> request.target, read |-> doc,
                      workflow |-> engine.workflow,
                      receipt |-> answered.chain[Len(answered.chain)]])
  /\ request' = NoRequest
  /\ UNCHANGED <<files, session>>

-----------------------------------------------------------------------------
(* Other programs *)

WriteInstance(doc) ==
  /\ changes < MaxChanges
  /\ instanceFile' = doc
  /\ changes' = changes + 1
  /\ UNCHANGED <<schemaFile, engines, request, session, evaluations>>

PublishSchema(content) ==
  /\ changes < MaxChanges
  /\ schemaFile' = content
  /\ changes' = changes + 1
  /\ UNCHANGED <<instanceFile, engines, request, session, evaluations>>

(* The process ends, at any point of a request, and is started again. *)
Restart ==
  /\ changes < MaxChanges
  /\ engines' = [p \in SchemaPaths |-> NoEngine]
  /\ request' = NoRequest
  /\ session' = session + 1
  /\ changes' = changes + 1
  /\ UNCHANGED <<schemaFile, instanceFile, evaluations>>

Environment ==
  \/ \E doc \in (Documents \cup {NoFile}) \ {instanceFile} : WriteInstance(doc)
  \/ \E c \in {TRUE, FALSE, NoFile} \ {schemaFile} : PublishSchema(c)
  \/ Restart

Next ==
  \/ \E path \in SchemaPaths : Query(path)
  \/ \E path \in SchemaPaths, target \in Targets : BeginEvaluation(path, target)
  \/ ReadWorkflow
  \/ ReadFails
  \/ Answer
  \/ Environment

Spec == Init /\ [][Next]_vars

-----------------------------------------------------------------------------
(* The documents, schemas and requests are of their kinds, and an engine   *)
(* is a workflow flag with a list of whole receipts.                       *)
TypeOK ==
  /\ schemaFile \in {TRUE, FALSE, NoFile}
  /\ instanceFile \in Documents \cup {NoFile}
  /\ \A p \in SchemaPaths :
       /\ engines[p].workflow \in {TRUE, FALSE, NotInspected}
       /\ \A i \in DOMAIN engines[p].chain : IsReceipt(engines[p].chain[i])
  /\ \/ request = NoRequest
     \/ request \in [path : SchemaPaths, target : Targets,
                     read : Documents \cup {NoFile}]
  /\ session \in 1..(MaxChanges + 1)
  /\ Len(evaluations) <= MaxEvaluations
  /\ changes \in 0..MaxChanges

(* Every answer is the documented one for the document whose state and     *)
(* workflow the request read: NOT_APPLICABLE when the engine's model has   *)
(* no workflow, INDETERMINATE when the document has no workflow element,   *)
(* PERMIT exactly when the target is at the next position of a path that   *)
(* holds the current state, DENY otherwise (evaluate_transition).  Where   *)
(* states of a path share an ordinal the documentation does not say which  *)
(* is next, and the verdict is what the code makes of the document.        *)
DocumentedVerdict(workflow, doc, target) ==
  CASE ~workflow -> "NOT_APPLICABLE"
    [] workflow /\ doc.workflow = NoWorkflow -> "INDETERMINATE"
    [] OTHER ->
         IF IF DistinctOrdinals(TreeOf(doc))
            THEN AdjacentIn(TreeOf(doc), doc.current, target) # {}
            ELSE IsValidTransition(TreeOf(doc), doc.current, target)
         THEN "PERMIT" ELSE "DENY"

DecisionsAreDocumented ==
  \A i \in DOMAIN evaluations :
    LET e == evaluations[i]
    IN  e.receipt["decision"] = DocumentedVerdict(e.workflow, e.read, e.target)

(* Within a session the receipts handed to clients are the chain of the    *)
(* engine that issued them, in the order of the answers: a request that    *)
(* failed between its two reads left no receipt, no answer shares one, and *)
(* the chain verifies (append, _get_engine).                               *)
IssuedBy(path) ==
  {i \in DOMAIN evaluations :
     evaluations[i].session = session /\ evaluations[i].path = path}

AnswersAreTheChain ==
  \A p \in SchemaPaths :
    LET chain == engines[p].chain
    IN  /\ VerifyChain(chain)
        /\ \E answer \in [DOMAIN chain -> IssuedBy(p)] :
             /\ \A i, j \in DOMAIN chain : i < j => answer[i] < answer[j]
             /\ \A k \in IssuedBy(p) : \E i \in DOMAIN chain : answer[i] = k
             /\ \A i \in DOMAIN chain :
                  chain[i] = evaluations[answer[i]].receipt

(* "Same inputs replay to the same decision and receipt (excluding         *)
(* timestamp)" (docs/PRD.md P1-11), as far as one engine is asked: its     *)
(* answers depend on the document and the target only, whatever is         *)
(* published under its schema path meanwhile.                              *)
ReplaysWithinEngine ==
  \A i, j \in DOMAIN evaluations :
    LET a == evaluations[i]
        b == evaluations[j]
    IN  /\ a.session = b.session /\ a.path = b.path
        /\ a.read = b.read /\ a.target = b.target
        => a.receipt["decision"] = b.receipt["decision"]

(* Each request, with its two reads and whatever happens between them, is  *)
(* one step of GovernanceService or none: a decision is the verdict on one *)
(* document under the model the engine was opened with, it is in the       *)
(* ledger exactly when it was answered, and ledgers are only ever lost all *)
(* at once (evaluate_transition, _get_engine).                             *)
StatementIn(receipt) ==
  [decision |-> receipt["decision"],
   from |-> receipt["reasoning"][2], to |-> receipt["reasoning"][3],
   id |-> receipt["instance_id"], version |-> receipt["instance_version"]]

Verdicts ==
  [workflow \in BOOLEAN |-> [doc \in Documents |-> [target \in Targets |->
     DocumentedVerdict(workflow, doc, target)]]]

Service == INSTANCE GovernanceService WITH
  Paths <- SchemaPaths, Docs <- Documents, Goals <- Targets,
  Verdict <- Verdicts, Closed <- NotInspected,
  models <- [p \in SchemaPaths |-> engines[p].workflow],
  ledgers <- [p \in SchemaPaths |-> [i \in DOMAIN engines[p].chain |->
                                       StatementIn(engines[p].chain[i])]],
  answers <- [i \in DOMAIN evaluations |-> StatementIn(evaluations[i].receipt)]

ImplementsService == Service!Spec

(* "Receipts bind to the data instance via instance_id and                 *)
(* instance_version, ensuring the provenance trail belongs to the correct  *)
(* lineage" (docs/test-harness/receipts.md): the identity in a receipt is  *)
(* that of the document the decision was made about.                       *)
ReceiptNamesEvaluatedDocument ==
  \A i \in DOMAIN evaluations :
    LET e == evaluations[i]
    IN  /\ e.receipt["instance_id"] = e.read.id
        /\ e.receipt["instance_version"] = e.read.version

=============================================================================
