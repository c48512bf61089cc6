---------------------------- MODULE InstanceContent ----------------------------
(***************************************************************************)
(* The governance content of an instance: the states of its workflow       *)
(* (workflow.py), attestation (attestation.py), subject, providers and     *)
(* participations (party_role.py) and audit records (provenance.py), read  *)
(* from the elements of a document and held against what a caller          *)
(* requires; and the model inspector (model_inspector.py), which says      *)
(* whether the data model has a place for such content at all.             *)
(*                                                                         *)
(* An author adds elements to the instance, a caller requires more and     *)
(* more.  The readers and validators keep no state: what they answer is a  *)
(* function of the document and the requirements.                          *)
(***************************************************************************)
EXTENDS Workflow

CONSTANTS
  Models,       \* the data models, as the keys of their slots
  Elements,     \* the elements an author may add
  Functions,    \* the functions of participations
  Nobody,       \* a participation without performer
  Ancestries,   \* the chains of ancestors a state element may have
  Ordinals,     \* the texts of its ordinal child
  Symbols,      \* the texts of its symbol child
  Requirements, \* the requirements a caller may begin with
  RetentionN,   \* retention_n and min_records
  MaxElements,  \* bound on the elements of an instance
  MaxElems,     \* bound on the state elements of its workflow
  MaxRequired   \* bound on the requirements added

ASSUME ContentBounds ==
  {RetentionN, MaxElements, MaxElems, MaxRequired} \subseteq Nat

ASSUME OrdinalsAssumption == Ordinals \subseteq Int \cup {Unparsable}

ASSUME AncestriesAssumption == Ancestries \subseteq Seq(STRING)

(* The text of pending: none, or one of the four spellings of xs:boolean.  *)
Texts == {"none", "true", "false", "0", "1"}
Parts == {"committer", "proof", "committed", "reason"}
AuditParts == {"system-id", "timestamp", "system-user"}

(* The requirements beside parts and functions.  All three share one set,  *)
(* so a function has none of their names.                                  *)
Flags == {"completed", "subject", "provider", "audit", "system-user"}

ASSUME FunctionsAssumption == Functions \cap (Parts \cup Flags) = {}

(* The elements as they are parsed: of a party its name and the link of    *)
(* its reference, of an audit record and an attestation which of their     *)
(* parts are there.                                                        *)
Party == [name : STRING, ref : STRING]
Parties == [name : {"subject", "provider"}, qualified : BOOLEAN]
Participations ==
  [name : {"Participation"}, qualified : BOOLEAN,
   performer : Party \cup {Nobody}, function : Functions \cup {""}]
Attestations ==
  [name : {"attestation"}, qualified : BOOLEAN,
   pending : Texts, parts : SUBSET Parts]
AuditRecords ==
  [name : {"Audit"}, qualified : BOOLEAN, parts : SUBSET AuditParts]
StateElements ==
  [ancestors : Ancestries, ordinal : Ordinals, symbol : Symbols]

ASSUME ElementsAssumption ==
  Elements \subseteq
    Parties \cup Participations \cup Attestations \cup AuditRecords

VARIABLES
  slots,      \* the slots the data model declares
  doc,        \* the elements of the instance, in document order
  elems,      \* the state elements of its workflow, in document order
  required,   \* the requirements in force
  retention,  \* the retention level in force
  added       \* how many requirements were added

vars == <<slots, doc, elems, required, retention, added>>

-----------------------------------------------------------------------------
(* model_inspector: a slot is known by its name, or by the reference with  *)
(* the prefix sdc4.                                                        *)
SlotOf(e) ==
  IF e.name \in {"Audit", "Participation"} THEN <<"sdc4", e.name>>
  ELSE <<e.name>>

(* The slots of each dimension; a slot counts whatever its cardinality.    *)
Defining ==
  [workflow |-> {<<"workflow">>}, audit |-> {<<"sdc4", "Audit">>},
   attestation |-> {<<"attestation">>},
   party_role |-> {<<"subject">>, <<"provider">>, <<"sdc4", "Participation">>},
   protocol |-> {<<"protocol">>}, acs |-> {<<"acs">>},
   xdlink |-> {<<"sdc4", "XdLink">>}]

(* GovernanceModel.active_dimensions *)
ActiveDimensions == {d \in DOMAIN Defining : Defining[d] \cap slots # {}}

(* Mutant: participations alone do not count as governance. *)
HasGovernanceBySubject ==
  ActiveDimensions \cap {"workflow", "audit", "attestation"} # {}
    \/ slots \cap {<<"subject">>, <<"provider">>} # {}

(* GovernanceModel.has_governance *)
HasGovernance ==
  ActiveDimensions \cap {"workflow", "audit", "attestation", "party_role"} # {}

(* validate_governance; the instance is not looked at. *)
ValidateGovernance == IF HasGovernance THEN "PERMIT" ELSE "NOT_APPLICABLE"

-----------------------------------------------------------------------------
(* _find_all_elements: the places of the elements in the namespace, or     *)
(* else of the bare ones.                                                  *)
FindAll(name) ==
  LET named == {i \in DOMAIN doc : doc[i].name = name}
      qualified == {i \in named : doc[i].qualified}
  IN  IF qualified # {} THEN qualified ELSE named

ElementsOf(name) == {doc[i] : i \in FindAll(name)}

(* Mutant: the element latest in the document is taken. *)
FindElementLatest(name) ==
  doc[CHOOSE i \in FindAll(name) : \A j \in FindAll(name) : i >= j]

(* _find_element, root.find: the first of them, where there is one. *)
FindElement(name) ==
  doc[CHOOSE i \in FindAll(name) : \A j \in FindAll(name) : i <= j]

(* extract_attestation_from_element: whether it is pending, as far as the  *)
(* text says so.                                                           *)
Pending(attestation) ==
  CASE attestation.pending = "none" -> "unknown"
    [] attestation.pending = "true" -> "pending"
    [] OTHER -> "completed"

(* Mutant: the checks of validate_attestation are alternatives. *)
AttestationErrorsElse ==
  LET a == FindElement("attestation")
  IN  IF FindAll("attestation") = {} THEN {"attestation"}
      ELSE IF "completed" \in required
      THEN {"completed" : x \in {Pending(a)} \ {"completed"}}
      ELSE required \cap (Parts \ a.parts)

(* validate_attestation *)
AttestationErrors ==
  LET a == FindElement("attestation")
  IN  IF FindAll("attestation") = {} THEN {"attestation"}
      ELSE required \cap
             ((Parts \ a.parts)
               \cup {"completed" : x \in {Pending(a)} \ {"completed"}})

(* validate_party_role: subject, provider, and a participation for each    *)
(* function required.                                                      *)
PartyErrors ==
  required \cap
    ({n \in {"subject", "provider"} : FindAll(n) = {}}
      \cup {f \in Functions :
              \A p \in ElementsOf("Participation") : p.function # f})

(* Mutant: the actor takes part, and somebody has the function. *)
ActorErrorsAnyone(actor, function) ==
  LET all == ElementsOf("Participation")
  IN  IF /\ \E p \in all : p.performer # Nobody
                         /\ actor \in {p.performer.name, p.performer.ref}
         /\ \E p \in all : p.function = function
      THEN {} ELSE {"function"}

(* check_actor_role *)
ActorErrors(actor, function) ==
  LET mine == {p \in ElementsOf("Participation") :
                 /\ p.performer # Nobody
                 /\ actor \in {p.performer.name, p.performer.ref}}
  IN  CASE mine = {} -> {"actor"}
        [] mine # {} /\ (\A p \in mine : p.function # function) -> {"function"}
        [] OTHER -> {}

(* _validate_retention; every record has a hash by then, so that the       *)
(* check of full_chain for missing hashes finds nothing.                   *)
TooFew(count) ==
  IF retention = "most_recent" THEN count < 1 ELSE count < RetentionN

(* validate_provenance.  Extraction leaves activity_type empty, so that    *)
(* allowed_activity_types refuses nothing.                                 *)
ProvenanceErrors ==
  LET records == FindAll("Audit")
      needed == AuditParts \ (IF "system-user" \in required THEN {}
                              ELSE {"system-user"})
      faults == {x \in records \X needed : x[2] \notin doc[x[1]].parts}
  IN  CASE "audit" \in required /\ records = {} -> {<<0, "audit">>}
        [] "audit" \in required /\ records # {}
             /\ TooFew(Cardinality(records)) -> faults \cup {<<0, "retention">>}
        [] OTHER -> faults

-----------------------------------------------------------------------------
(* No requirements given: the defaults of the three validators. *)
Defaults == {"completed", "committer", "audit"}
Requirable == Parts \cup Functions \cup Flags

Init ==
  /\ slots \in Models
  /\ doc = <<>>
  /\ elems = <<>>
  /\ required \in Requirements
  /\ retention = "most_recent"
  /\ added = 0

(* The instance stays valid against its model. *)
AddElement(e) ==
  /\ Len(doc) < MaxElements
  /\ SlotOf(e) \in slots
  /\ doc' = Append(doc, e)
  /\ UNCHANGED <<slots, elems, required, retention, added>>

AddState(e) ==
  /\ Len(elems) < MaxElems
  /\ <<"workflow">> \in slots
  /\ elems' = Append(elems, e)
  /\ UNCHANGED <<slots, doc, required, retention, added>>

Require(what) ==
  /\ added < MaxRequired
  /\ what \notin required
  /\ required' = required \cup {what}
  /\ added' = added + 1
  /\ UNCHANGED <<slots, doc, elems, retention>>

Retain(level) ==
  /\ added < MaxRequired
  /\ retention = "most_recent"
  /\ retention' = level
  /\ added' = added + 1
  /\ UNCHANGED <<slots, doc, elems, required>>

Next ==
  \/ \E e \in Elements : AddElement(e)
  \/ \E e \in StateElements : AddState(e)
  \/ \E what \in Requirable : Require(what)
  \/ \E level \in {"last_n", "full_chain"} : Retain(level)

Spec == Init /\ [][Next]_vars

-----------------------------------------------------------------------------
(* _parse_workflow_cluster: the paths of the workflow, as it is read. *)
tree == ParseWorkflowCluster(elems)

(* In a workflow whose paths give every state an ordinal of its own, the   *)
(* allowed transitions are exactly the documented ones, each listed with   *)
(* exactly the paths that have it: none is missing because a symbol is     *)
(* shared by several paths or repeated in one, none skips a state, and the *)
(* order of the document does not matter (next_states,                     *)
(* get_allowed_transitions).                                               *)
AllowedIsAdjacent ==
  DistinctOrdinals(tree) =>
    \A s \in SymbolsIn(tree) :
      AllowedTransitions(tree, s)
        = {[target |-> t, paths |-> AdjacentIn(tree, s, t)] :
             t \in {u \in SymbolsIn(tree) : AdjacentIn(tree, s, u) # {}}}

(* The items of a list at some of its places, in their order. *)
PlaceIn(S, n) == CHOOSE i \in S : Cardinality({k \in S : k < i}) = n - 1
Sublist(s, S) == [n \in 1..Cardinality(S) |-> s[PlaceIn(S, n)]]

(* A state counts for the workflow however deep in adapters the document   *)
(* carries it, and one unreadable state costs no other state its place:    *)
(* without the adapters and without the unreadable elements the document   *)
(* has the same states and allows the same transitions                     *)
(* (_parse_workflow_cluster, _parse_ordinal_state; before 4.2.1 no         *)
(* schema-valid instance had a state).                                     *)
WithoutAdapters(e) ==
  [e EXCEPT !.ancestors = Sublist(e.ancestors, Clusters(e))]

AdaptersAndBadStatesIgnored ==
  LET good == Sublist(elems, {i \in DOMAIN elems : HasState(elems[i])})
      bare == ParseWorkflowCluster([i \in DOMAIN good |->
                                      WithoutAdapters(good[i])])
  IN  /\ DOMAIN bare = DOMAIN tree
      /\ \A c \in DOMAIN tree : Range(bare[c]) = Range(tree[c])
      /\ \A s \in SymbolsIn(tree) :
           AllowedTransitions(bare, s) = AllowedTransitions(tree, s)

(* Whoever requires more of the same instance never gets a refusal turned  *)
(* into an acceptance: no requirement stands in for another, or hides the  *)
(* check of another (validate_attestation, validate_party_role,            *)
(* validate_provenance).                                                   *)
MoreRequiredNeverAccepts ==
  [][ doc' = doc =>
        /\ AttestationErrors' = {} => AttestationErrors = {}
        /\ PartyErrors' = {} => PartyErrors = {}
        /\ ProvenanceErrors' = {} => ProvenanceErrors = {} ]_vars

(* An author who adds a complete element in the namespace style of those   *)
(* of its name never gets an accepted instance refused: evidence is not    *)
(* outweighed by further evidence (the validators, _find_all_elements).    *)
(* An element in the namespace beside bare ones hides them, and is         *)
(* excluded.                                                               *)
Complete(e) == e.name = "Audit" => e.parts = AuditParts

MoreEvidenceNeverRefuses ==
  [][ doc' # doc =>
        LET e == Last(doc')
        IN  /\ Complete(e)
            /\ \A i \in DOMAIN doc : doc[i].name = e.name => doc[i].qualified = e.qualified
            => /\ AttestationErrors = {} => AttestationErrors' = {}
               /\ PartyErrors = {} => PartyErrors' = {}
               /\ ProvenanceErrors = {} => ProvenanceErrors' = {} ]_vars

(* Nobody has a role by way of another's participation: those who pass for *)
(* a function are the names and references of the performers of a          *)
(* participation in force that has this function, and where one passes,    *)
(* the instance has the function (check_actor_role, validate_party_role).  *)
Designations(e) ==
  (IF e.performer = Nobody THEN {} ELSE {e.performer.name, e.performer.ref})
    \ {""}
Actors ==
  UNION {Designations(e) : e \in {x \in Elements : x.name = "Participation"}}

RolesAreNotBorrowed ==
  \A f \in Functions :
    LET passing == {n \in Actors : ActorErrors(n, f) = {}}
        holders == {e \in ElementsOf("Participation") : e.function = f}
    IN  /\ passing = UNION {Designations(e) : e \in holders}
        /\ passing # {} => f \notin PartyErrors

(* A model whose instances carry governance content is never told that     *)
(* governance is not applicable (validate_governance, inspect_model).      *)
ContentIsGoverned ==
  doc # <<>> \/ elems # <<>> => ValidateGovernance # "NOT_APPLICABLE"

(* "pending | xs:boolean | True if outstanding; false if completed"        *)
(* (docs/RM_Reference.md) and "Pending attestation | pending=true | DENY"  *)
(* (docs/test-harness/attestation.md): an attestation whose pending flag   *)
(* is true, in either of the two spellings xs:boolean has for it, does not *)
(* pass where a completed one is required.                                 *)
PendingIsNotCompleted ==
  /\ FindAll("attestation") # {} /\ "completed" \in required
  /\ FindElement("attestation").pending \in {"true", "1"}
  => AttestationErrors # {}
=============================================================================
