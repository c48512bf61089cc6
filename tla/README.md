# A TLA+ model of sdcgovernance

sdcgovernance answers governance questions about SDC4 data instances (may this
transition be made, what does this decision table say) and issues a hash-chained
receipt for each answer. It runs as a library and as an MCP server on stdio.
This directory models every part of it that keeps state or decides something,
checks them with TLC on small instances, and proves the safety properties with
TLAPS, for every value of the constants. Source paths below are relative to the
repository's `src/sdcgovernance/`.

To run everything: `tlc -config <cfg> <module>` for each pair in the table of
runs, and `tlapm <module>` for each of the modules of section 4.

## 1. The system

| Component | State | Operations | Talks to |
|---|---|---|---|
| Receipts, `receipts.py` | a chain: a list of mutable `Receipt` objects | `append`, `verify_chain`, `verify_hash`, `to_list`, and assignment by whoever holds a receipt | canonicalization |
| Workflow, `workflow.py` | none | tree of an instance, allowed transitions; tree of a data model by a worklist over component references | lxml |
| Engine, `engine.py` | the inspected model (fixed at construction) and one chain | `get_allowed_transitions`, `evaluate_transition` | model inspector, workflow, receipts |
| Decision tables, `decision.py` | none | evaluation under FIRST, UNIQUE, COLLECT; context of an instance | receipts |
| Table registry, `tables.py` | tables by id and version, in insertion order; a directory with one file per version | `register`, `get`, `versions`, `list`, `save`, `save_one`, `load` | the file system, shared with other processes |
| MCP server, `mcp_server.py` | engine cache by schema path, one registry, one directory | nine tools over JSON-RPC, one line at a time | all of the above |
| Model inspector, `model_inspector.py` | none | which governance dimensions a schema defines | lxml |
| Attestation, party/role, provenance | none | extraction from an instance, validation against requirements; `check_actor_role`; PROV-O export | lxml, rdflib |
| SHACL, `shacl_runtime.py` | none | validation of a graph against shapes | pyshacl |
| MTCP evidence packs, `mtcp.py`; RFC 8785, `jcs.py` | none | hash of a pack under two conventions; canonical JSON | |
| `validate_governance`, `__init__.py` | none | inspection only; instances are not validated yet | model inspector |

**Interaction.** A tool call looks up or makes the engine of a schema path,
parses the instance (twice, for `evaluate_transition`), decides, appends to the
engine's chain and answers. `evaluate_decision` resolves a table in the
registry or inline, evaluates it and issues a receipt that belongs to no chain
of the server: the client passes `previous_hash`. `register_decision_table`
changes the registry and then writes a file.

**What is hard.** The server is single-threaded, so the concurrency is outside
it: a client that pipelines, gives up and asks again; programs that replace the
schema and the instance between two reads of one request, other servers and
editors on the directory of tables, holders of
receipt objects that outlive the call which returned them, and the end of the
process between any two steps. The rest is boundary work: ordinals and versions
that tie, absent and null evidence, exceptions in the middle of an evaluation,
cyclic schemas, input lines of the wrong shape, elements in two namespace
styles, the notation of numbers. `PROJECT.json` lists each hazard at its line with the
properties that cover it.

**What makes each component correct.** A chain accepts what it issued and
rejects what was altered. A decision is the documented one for the document it
was made about, and its receipt is in the chain, once, in order. A table's
answer rests on the evidence the receipt lists, and on the rules and not their
arrangement except under FIRST. A table version that is acknowledged is served,
one that is served was registered, and receipts resolve. The workflow of a
model is what its workflow element reaches, and finding it ends. Every request
is answered, in order and once, and what a client does after a lost answer gets
the answer it would have got. Requirements and evidence are monotone: asking
for more is never answered more leniently, and showing more is never refused
for it. A document keeps its hash however it is written, and only then.

## 2. The modules

| Module | Models | Composed of |
|---|---|---|
| `Receipts` | fields of a receipt, the hashed content, sealing, verification (operators) | |
| `ReceiptChain` | one chain and the holders of its receipts | `Receipts` |
| `Workflow` | the tree of an instance and its transitions (operators) | |
| `ModelWorkflow` | extraction of the workflow from a data model | |
| `GovernanceService` | what engines promise: each decision is one step (abstract) | |
| `GovernanceEngine` | engine cache, engines with their chains, the two files, restarts; implements `GovernanceService` | `Receipts`, `Workflow`, `GovernanceService` |
| `DecisionTable` | conditions, rules, hit policies, context (operators) | |
| `DecisionEvaluation` | a table and a context that grow | `DecisionTable` |
| `TableRegistry` | server processes, their registries, the directory | |
| `McpServer` | the request loop on stdio and its client, crashes and restarts | `Receipts` |
| `InstanceContent` | instances: workflow states, attestation, parties, participations, audit records and their validators; the model inspector; `validate_governance` | `Workflow` |
| `Canonicalization` | RFC 8785 and the legacy convention on flat objects (operators) | |
| `EvidencePack` | evidence packs between issuer and verifier | `Canonicalization` |
| `MC...` | the constants of the TLC instances | |
| `OperatorLemmas` | what the operators of `Receipts` and `Workflow` return; naturals and lists | `Receipts`, `Workflow` |
| `HashProofs` | theorems about what a hash fixes: of a receipt and of an evidence pack | `ReceiptChain`, `EvidencePack`, `OperatorLemmas` |
| `InstanceContentProofs`, `GovernanceEngineProofs`, `DecisionEvaluationProofs`, `TableRegistryProofs`, `McpServerProofs`, `ModelWorkflowProofs` | theorems about the module named before `Proofs` | that module, `OperatorLemmas` |

Operators named `...Replacing`, `...Unchecked` and so on, marked "Mutant" in
their comment, are plausible bugs of the definition that follows them: each
property is known to fail when one of them takes that definition's place.

### Receipts and ReceiptChain

`RequiredFields` and `LeftOutAt` are the two halves of the dictionary that
`_compute_hash` builds: what is always hashed, and what only when it is not at
its default. `NewReceipt` is the constructor with `__post_init__`; `LastHash`,
`Linked` and `VerifyChain` are `last_hash` and `verify_chain`. SHA-256 over the
canonical bytes is a term, `Sha256(content) = <<content>>`: no two contents
collide and none contains its own digest. Field values are opaque; what they
tell apart is whether they are empty, because the code tests that.

The chain holds objects, and `append` and `receipts` hand them out;
`dataclass(frozen=False)` lets a holder write to them. `AssignValue` and
`AssignDigest` are such writes. `issued` and `exported` are history: what
`append` returned, and the last `to_list`. Assigning to a list inside a field
is the same as assigning the field. (`docs/dev/architecture.md:108` calls
receipts immutable; they are tamper-evident, which is what is checked.)

### Workflow

A state element is its chain of ancestors with the texts of its `ordinal` and
`symbol`. `Container` is the walk to the nearest ancestor that is no adapter,
the first of `Clusters`;
`ParseWorkflowCluster` groups the states by it: a tree maps each container
that has a state to its path, and a path maps positions in the document to
states. `NextStates` is `next_states`:
the state after the first one with the current ordinal in a stable sort.
`NextOf` puts it into the path of the match. `IsAdjacent` is the documented
meaning (`docs/user/workflow.md`), stated without sorting. Labels of paths are
their containers, and their order is left out. Ordinals are integers:
only their order matters, and `nan`, which `float()` accepts and which has no
order, is left out. Two states of equal ordinal in one path are read, but
`AllowedIsAdjacent` is stated for distinct ordinals: the code lets a
transition go from one to the other, which the documentation does not.

### ModelWorkflow

A schema is a graph: which components a component refers to, whether it is an
ordinal, annotated, bound to a workflow or SCXML vocabulary, and has a usable
enumeration. `Skip` and `Visit` are the two ways through the body of the loop
of `_ordinals_reachable_from`; `Extract` is `_extract_workflow_components` with
`only=reachable or None`. References are pushed in document order, which the
model leaves open. Repeated references to one component are pushed once in the
model; in the code the repetition is popped and skipped.

### GovernanceEngine

`engines` is `_engines`, keyed by the string the client used, so two spellings
of one path are two engines with two chains. A request is the sequence
`BeginEvaluation` (engine), `ReadWorkflow` (first parse), `Answer` (second
parse, decision, receipt): between these another program may act. The decision
itself and the append read nothing from outside and are one step. `ReadFails`
is any exception of a parse, answered as a tool error; an unreadable schema
ends a request before it has an effect and needs no action. `evaluations` is
history. Files are what a parse of them yields; the schema is whether it
defines a workflow, the only thing of the model that decides here. An engine
that is not in the cache is `NoEngine`: its model is `NotInspected` and its
chain empty. `DocumentedVerdict` is what the documentation says of a document
and a target, without the code's way through the tree. `AnswersAreTheChain`
asks for a map from the positions of a chain to the evaluations of its session,
increasing and onto: one for one, in order, none without an answer.

`GovernanceService` says what this amounts to: a model is opened and stays as
it was, a decision is one step that is the verdict on one document and is
entered in a ledger and answered at once, and ledgers are lost only together.
`ImplementsService` maps `engines` to models and ledgers and `evaluations` to
answers, and the constant `Verdict` to `DocumentedVerdict`; the two reads of a request, its failures and the writes of other
programs are stutters. The abstract decision names *some* document beside the
one it is about: that these are the same is what `identity_of_receipt` refutes.

### DecisionTable and DecisionEvaluation

Values are numbers, texts, lists (as sets) and null. Booleans, objects and the
order of lists are left out; `ListsAreNotOrdered` excludes the comparison of
lists. `OpRaises` says when an operator raises, which ends the whole
evaluation: every rule is evaluated before the hit policy is looked at, so
under FIRST a rule behind the deciding one can still do it. The rules that
match are the set of their places, which says what the code's list of
`(index, rule)` says, since the list is in the order of the places; `FirstOf` is
its head and `Several` that it is longer than one. A table grows by
rules and a context by supplied fields, so that the properties can speak of
what one more of either does.

### TableRegistry

A process is down, loading, serving, or in one of the two stages of saving.
`Start` lists the directory once (`Listed`), `LoadFile` and `LoadRefuses` take
the first unread file in the order of names (`NextFile`), `Register` changes the
registry, `Truncate` and `Write` are the two
halves of `Path.write_text`. `SaveFails` is an exception between or before
them. `Crash` and `Edit` may come anywhere. When another process has the
file open too, or wrote it in between (`Overlaps`), `Write` may leave a mixture,
which is no JSON text (`Torn`); a write that failed part way leaves `Torn` as
well. Ids and versions are sequences of the pieces that `--` separates, because
`file_name` joins the two with `--`, and a piece is a sequence of the parts
between dots, because `_version_key` splits there: `VersionKey` is that tuple,
`Precedes` (external) Python's order of tuples, `Number` is `int` of a part of
digits and `TextRank` the order of texts. A
table stands for its content and its hash. `registered`, `acked` and
`receipts` are history; a receipt also notes which versions of the id had been
acknowledged when it was issued. `Higher` states the order that is promised
without tuples, so that `SupersededIsNotApplied` compares two definitions. It and
`AcknowledgedIsServed` exclude versions that share
their file with another one that was registered. Left out: domain and policy labels, `list`, `save` of a
whole registry, files with a list of records or without a hash (written by
hand), and embedding programs that catch the exception of `load`: there, the
record whose hash did not match stays registered, because `load` registers
before it compares.

### McpServer

A line of input is a record of what the server looks at: what `json.loads`
makes of it (`text`), the id, the method, whether `params` and `arguments` are
objects; `Lines` are those that are no call of the two tools with state.
`Refused` to `HandleRequest` are the branches of `_handle_request` in
their order; `ReadLine` is one turn of the loop up to the reply, `WriteReply`
the write and flush, so that `Crash` may come between the effect and the
answer. `Abort` is an exception that nothing catches: a text nested too deep
(`RecursionError`) or a number too long (`ValueError`), both legal JSON, or a
line that is no UTF-8. The last is met when a block of input is decoded, which
may be before the lines in front of it are read, and these are lost then.
Registration is one step here, against a directory that `Loaded` reads back;
`TableRegistry` takes it apart, with the save that fails. Of a reply to a
registration the error and the table are kept, not `registered_at`, which names
another time after a reload. The client is external: it numbers its
requests, waits for one evaluation at a time but gives up at will, and appends
to its chain the receipt of the answer it waits for. Its ids count upwards, so
that `RepliesInOrder` can say in terms of ids that what is answered is what was
asked, each once and in order, and after a crash the beginning of it
(`LinesAssumption`: a line without an object has no id, and the notification
that ends initialization is sent as one). Of the nine tools,
registration and evaluation have state; the others are "answers" or "fails".

### InstanceContent

An instance is a sequence of its parsed elements, each in the namespace or
not, and beside it the state elements of its workflow: nothing that reads the
one reads the other, so their mutual order is left out. `tree` is what
`_parse_workflow_cluster` makes of the state elements, and the two invariants
about it compare the operators of `Workflow` with their documented meaning;
`Sublist` is the items of a list at some of its places, by counting the places
before each.
`FindAll` is the places of the elements of a name and prefers those in the
namespace, as `_find_all_elements` does; the single elements are at the first
of them (`FindElement`). `Pending` keeps the text of the flag,
because the code compares text. The validators are sets of errors. An author
adds elements for which the data model has a slot, a caller adds requirements,
so that properties can speak of one more of either. `Defaults` are the
requirements a validator assumes when it is given none. All requirements share
one set, so a required function has none of the names of the others
(`FunctionsAssumption`); the code keeps them in fields of their own. Left out:
`allowed_activity_types`, because extraction never sets an activity type, and
the hashes of `full_chain`, which are never missing.

### Canonicalization and EvidencePack

A number is its digits and the place of the decimal point; what is written is
kept as digits before and after the point and an exponent with its padding, so
that two serializations are equal exactly when their records are. Digits have
no bound (`JsonValues`). `PythonFloat`
is `repr` (external), from which `Significant`, `Trailing` and `Exponent` get
the digits as `_es_number_to_string` does from a `Decimal`, and `Layout` is its
four cases. Keys are code points and are sorted by the bytes of UTF-16-BE
(`Bytes`), or by code point in the legacy form; a form is the set of its members
with the place each has in that order. The issuer that has migrated is
an ECMAScript program, with a definition of its own (`EcmaText`, `EcmaForm`)
that shares only the digits: agreement with it is what `RelayedPackVerifies`
checks. A hash is a term of the form it commits to (`PackHash`), and none at all
is the empty text (`NoPackHash`).

## 3. The runs

Passing runs. Each property is one a mutant of the code is known to break.

| Run | Configuration | What it shows |
|---|---|---|
| `receipt_chain` | `MCReceiptChain.cfg` | `UnalteredVerifies`; `SingleAlterationDetected`: one differing field, whichever, makes verification fail; `ExportedHeadFixesPrefix`: who recomputes hashes cannot keep an auditor's head hash; `HashesUnique` |
| `workflow_document` | `MCInstanceWorkflow.cfg` | `AllowedIsAdjacent`: allowed transitions are the documented ones with the right paths; `AdaptersAndBadStatesIgnored` |
| `governance_engine` | `MCGovernanceEngine.cfg` | `DecisionsAreDocumented`, `AnswersAreTheChain`, `ReplaysWithinEngine`, under any replacement of files and restart; `ImplementsService`: the refinement of `GovernanceService` |
| `decision_evaluation` | `MCDecisionEvaluation.cfg` | `NewRuleRespectsPolicy` and `NewFactKeepsMatches` (action properties), `DimensionsReproduceDecision`, `RuleOrderIsIrrelevant` |
| `table_registry` | `MCTableRegistry.cfg` | `ReceiptsResolve`, `ServedTablesWereRegistered`, `AcknowledgedIsServed`; `SupersededIsNotApplied`: an evaluation that names no version uses none below an acknowledged one |
| `model_workflow` | `MCModelWorkflow.cfg` | `FindsTheReachable`, `OnlyTheWorkflow`, and that the walk ends (`WalkEnds`) |
| `mcp_server` | `MCMcpServer.cfg` | `RepliesInOrder`; `ClientChainVerifies` through crashes, late answers and retries; `OneAnswerPerRegistration`; `RequestsAreAnswered` (liveness) |
| `instance_content` | `MCInstanceContent.cfg` | `MoreRequiredNeverAccepts` and `MoreEvidenceNeverRefuses` (action properties), `RolesAreNotBorrowed`, `ContentIsGoverned` |
| `evidence_pack` | `MCEvidencePack.cfg` | `ValidPackHasTheIssuedValues`: accepting two conventions loses no integrity; `RelayedPackVerifies`: any order and spelling of the same values verifies; `LegacyIsReportedOfLegacy` |

Runs that find a statement of the repository violated. Each is a finding in
`PROJECT.json`, with the quotation.

| Run | Statement | What happens |
|---|---|---|
| `identity_of_receipt` | receipts bind to the data instance | the instance is replaced between the two parses |
| `forgotten_version` | a version means one thing forever | a failed save leaves the entry registered until the restart |
| `pending_attestation` | a pending attestation is denied | `pending` is `1`, the other spelling of true, and the attestation passes |

**Bounds, and why they are enough.**

- `MaxReceipts = 3`, `MaxAssigns = 2`: a receipt with one before and one after
  it, and a second assignment that recomputes a hash to hide the first. The
  theorems cover every bound.
- `MaxElems = 4`: two paths of two states or one of four, a state that leads
  nowhere, equal symbols in one path and in several, gaps, equal ordinals,
  every order of the document; three nestings in and behind adapters.
- Three evaluations and two changes: two answers of one engine with a change
  between them and one of another engine or session. Two spellings are
  symmetric.
- Three rules out of nine that use every operator and outcome; two supplied
  fields over three, with values of the wrong kind and null. Two rules suffice
  for each hit policy; the third shows that a pair stays decided.
- Two servers, the versions 1.9 and 1.10 of one id, which order one way as
  numbers and the other way as texts and as file names, and a version of another id, a text that
  shares a file with one of them; two tables, three calls, one receipt, one
  crash, one fault. The properties speak of one process, one version or two of
  one id, and one receipt at a time; the second server and the fault are the
  disturbance. With no more than one crash per run a process starts twice.
  Numbers beside texts under one id, versions that continue one another and
  versions that are equal as numbers (1.0 and 1.00) are left to the theorem.
- Three components with up to two references each: every cycle and shared part
  of three nodes, an undefined name, an ordinal inside an ordinal.
- Three requests, one line of any other kind, one restart, one table version
  with two contents: a decision asked for, given up and asked again after a
  registration, on either side of a crash; a line of every kind before, between
  or behind them. One bad line is enough, since nothing but the reply in hand
  outlives a turn of the loop.
- Two elements and two more requirements, every kind in both namespace styles:
  a retention of two records met and missed, two participations of one actor or
  of two, performers with name and reference. The validators compare elements
  with requirements one by one. One workflow state is enough to be content.
- Two fields with keys on both sides of the surrogates, two changes; one or two
  digits at each exponent where either notation changes and next to it, both
  zeros, the largest safe integer and the next. The second field shows that
  order matters; it has one number in both spellings, or a text.

Deadlock is checked for `receipt_chain`, where `to_list` is always possible.
The other systems stop: the walk ends, and the bounds of the others are
reached.

**Fairness.** `ModelWorkflow` assumes `WF_vars(Next)`: the loop of one thread
takes its next iteration as long as there is one. `McpServer` assumes
`WF_vars(ServerStep)`: the loop of `run_stdio` goes on while it has a line, a
reply or the end of its input; nothing makes the client send, read or close
anything, nor the process crash or be restarted, and a request to a process
that crashed, or whose input is not all UTF-8, needs no answer. (A client that stops reading while the pipe is
full blocks the server; the pipe is not bounded in the model.) No other module
states that something must happen.

## 4. The proofs

Each theorem holds for every value of the constants that the named assumptions
of its module admit: every set of documents, keys, tables, rules and processes,
and every bound.

| Module | Theorem | Property |
|---|---|---|
| `HashProofs` | `TypeCorrect` | `TypeOK` of `ReceiptChain` |
| | `IntactInvariant` | the inductive invariant `IntactInv` |
| | `UnalteredAccepted` | `UnalteredVerifies` |
| | `AlterationRejected` | `SingleAlterationDetected` |
| | `ExportFixesPrefix` | `ExportedHeadFixesPrefix` |
| | `HashesNeverRepeat` | `HashesUnique` |
| | `SerializeIsEcmaScript` | of the operators: numbers |
| | `KeyOrderIsEcmaScript` | of the operators: the order of keys |
| | `CanonicalizeIsEcmaScript` | of the operators: whole objects |
| | `PackInvariant` | the inductive invariant `PackInv` |
| | `ValidPackIsAsIssued` | `ValidPackHasTheIssuedValues` |
| | `RelayedPackStillVerifies` | `RelayedPackVerifies` |
| | `LegacyReportIsRight` | `LegacyIsReportedOfLegacy` |
| `InstanceContentProofs` | `TransitionsAreDocumented` | `AllowedIsAdjacent` |
| | `OnlyStatesCount` | `AdaptersAndBadStatesIgnored` |
| | `ContentGoverned` | `ContentIsGoverned` |
| | `RolesNotBorrowed` | `RolesAreNotBorrowed` |
| | `MoreRequired` | `MoreRequiredNeverAccepts`, an action property |
| | `MoreEvidence` | `MoreEvidenceNeverRefuses`, an action property |
| `GovernanceEngineProofs` | `TypeInvariant`, `TypeCorrect` | `Typed`, `TypeOK` |
| | `DecisionsDocumented` | `DecisionsAreDocumented` |
| | `EngineReplays` | `ReplaysWithinEngine` |
| | `ChainsAreAnswers` | `AnswersAreTheChain` |
| | `ServiceImplemented` | `ImplementsService`, the refinement |
| `TableRegistryProofs` | `TypeInvariant`, `TypeCorrect` | `Typed`, `TypeOK` |
| | `ServedWereRegistered` | `ServedTablesWereRegistered` |
| | `ReceiptsAreResolved` | `ReceiptsResolve` |
| | `SupersededNotApplied` | `SupersededIsNotApplied` |
| | `AcknowledgedServed` | `AcknowledgedIsServed` |
| `McpServerProofs` | `TypeInvariant`, `TypeCorrect` | `Typed`, `TypeOK` |
| | `RegistrationsAnsweredAlike` | `OneAnswerPerRegistration` |
| | `ChainKeptVerifies` | `ClientChainVerifies` |
| | `RepliesComeInOrder` | `RepliesInOrder` |
| `ModelWorkflowProofs` | `TypeCorrect` | `TypeOK` |
| | `WalkFindsTheReachable` | `FindsTheReachable` |
| | `PathsAreTheWorkflow` | `OnlyTheWorkflow` |
| `DecisionEvaluationProofs` | `NewRulesRespectPolicy` | `NewRuleRespectsPolicy`, an action property |
| | `NewFactsKeepMatches` | `NewFactKeepsMatches`, an action property |
| | `DimensionsAreEnough` | `DimensionsReproduceDecision` |
| | `OrderDecidesNothing` | `RuleOrderIsIrrelevant` |

**Assumptions.** Bounds are naturals. The rest says what inputs are:

- A call gives every argument field (after defaults), and holders assign only
  to fields of the dataclass (`ReceiptChain`).
- A parsed ordinal is a number, or a text that is none (`InstanceContent`, and
  the documents of `GovernanceEngine`).
- The ancestors of a state element are a sequence of names
  (`AncestriesAssumption`).
- A pack is a sequence of fields, each a code point with a JSON value, no key
  twice and no key a surrogate (`PacksAssumption`). A number is zero, or any
  digits without zeros at either end with a place of the point.
- Marks for what is absent (`NoFile`, `NotInspected`, `Nothing`, `Torn`,
  `Null`, `NotText`) are no documents, entries, records or ids
  (`AbsenceAssumption`).
- No id and no version is empty; both are sequences of sequences of parts
  (`KeysAssumption`). A part of digits has a natural number
  (`NumberAssumption`). The orders of texts and of file names are ranks, and
  file names are equal when their ranks are (`RankAssumption`).
- A schema has finitely many components (`ComponentsAssumption`).
- Elements are parties, participations, attestations and audit records
  (`ElementsAssumption`), and functions have none of the names of the other
  requirements (`FunctionsAssumption`).

SHA-256 is a term; collision freedom is a lemma of that definition
(`Sha256Facts`), not an axiom, and it is where the abstraction lies. That
canonicalization is injective on contents is part of it.

**The receipt chain.** `IntactInv` joins two facts: every issued receipt is
sealed over its own fields (`IssuedSealed`), and as long as nothing was
assigned the chain verifies (`UnalteredVerifies`). With `TypeOK` it is
inductive. An append keeps the first because `NewReceipt` computes the hash
last (`NewReceiptSealed`), and the second because `LastHash` reads the receipt
that `Append` puts the new one behind; an assignment makes the second say
nothing and leaves `issued` alone. The sealing of what was *issued* is needed
beside it, because once something was assigned the chain itself says nothing
about how its receipts began. `AlterationRejected` follows from what a hash
binds: equal hashes mean equal contents, and equal contents equal fields
(`ContentBindsFields`), as a field that is left out at its default is
determined by its absence. `ExportFixesPrefix` goes backwards along the links
(`HeadFixesPrefix`), and `HashesNeverRepeat` too; both steps back are put as a
least counterexample (`LeastElement`), since induction theorems with an
operator as a parameter are not available to the prover.

**Workflow.** Where ordinals are distinct, the successor in sorted order is the
state with one more smaller ordinal (`FollowsIsNextPosition`, by cardinality),
and `next_states` finds it (`NextStatesFollow`). With that, a successor in a
path is an adjacent state in it (`SuccessorsAreAdjacent`), and the list of
allowed transitions is the list of the documented ones (`AllowedAreAdjacent`).
`TransitionsAreDocumented` needs only that what was read is a list of state
elements (`Authored`), and so does `OnlyStatesCount`. There, the places that are
left are numbered in their order: how many of them come before a place is an
injection into as many numbers, hence a bijection (`PlacesInOrder`). Without
adapters the first ancestor is the one that was the nearest cluster
(`SameContainer`), so each path of the bare document has at n what the path of
the document has at the n-th place that is left (`Renumbers`), and nothing in
`next_states` and `get_allowed_transitions` depends on more than the order of
places (`RenumberedNext`, `RenumberedTransitions`).

**The engines.** The same lemmas give that every verdict is the documented one
(`ReceiptStates`), so `DecisionsAreDocumented` holds of each evaluation from
its step on; here nothing that other programs do counts, as the request carries
its own readings. `ModelKept` says that within a session every evaluation
under a path was made with the model its engine has now: replay follows, and
it is what a second reading of the schema would break. `ChainsAreAnswers`
carries the map of `AnswersAreTheChain` along (`Answered`): an answer extends
it by one place, anything else of another path or session does not disturb it
(`AnsweredStill`), a restart empties both sides. `ServiceImplemented` is the
step simulation: an answer is `Decide` on the document read first, naming the
one read second, a restart is `EndProcess`, and every other step opens a model
or stutters (`StepKinds`); ledger and answers both get the statement of the one
new receipt (`StatementsAppend`, `AnswersAppend`).

**The registry.** `Typed` adds to the types that a process has files to read
exactly while it loads, and that what it saves was asked of it. `Known`: held
entries, and the *hashes* that whole records carry, are of registrations; the
tables in records need not be, since files are edited, and the check of the
hash at load is what closes the gap. `OneContent` and `SavingHeld` say that a
process has one content per version, and `ReceiptIn` that it still holds what
its receipts name. `Kept` is the hard one: as long as one process
registers, the file of an acknowledged entry carries that entry's hash or is
torn (`OnDisk`), and the process holds the entry or has the file still to read
(`InMemory`). A torn or edited file is refused, and then nothing is served.
`SupersededNotApplied` adds to `Kept` that `Latest` is a version held and
none held is above it (`LatestIsHeld`). That one exists is an argument over the
list of versions (`HighestExists`), for which the tuples of `_version_key` must
be in a total and transitive order (`TuplesOrdered`, `TuplesTransitive`); that
its highest is the one the statement means is `HigherComesLater`.

**The request loop.** `AnsweredByDisk`: registry and directory agree, and every
reply to a registration is the one that the directory would give now; it never
changes a version, so repeated registrations are answered alike, across
restarts too. `Awaiting` and `Kept`: whatever comes under the awaited id is
linked to the end of the chain the client has, because the client asks for no
other decision before it has that answer or gives it up, and an id is used
once.
The order of replies rests on three invariants about ids: lines are sent with
growing ids, replies written with growing ids, all before the one in hand, and
an id was asked exactly when it was written or is in hand
(`SentUpwards`, `WrittenUpwards`, `AskedAnswered`).

**The walk.** `Walking`: found are the ordinals among the visited; visited and
pending are reachable; what a visited component refers to is visited or
pending. When nothing is pending, the visited components are closed under
references, and the reachable ones are the least such set. `Extracted` says
that paths come of the finished walk.

**Decision tables.** No invariant is needed but that the rules are a list. The
rules that take part are all that match, or the first (`MatchedTakePart`); a
context that says no more than another makes no more conditions hold or raise
(`HoldsInMore`), which is what an absent field satisfying nothing gives; with
fewer matches among which those that took part remain, the hit policy answers
the same (`FewerMatchesResolve`). An order of the rules is a permutation, and
under UNIQUE and COLLECT the answer is a matter of the outcomes of the matching
rules and of whether there are several (`AnswerOfOutcomes`).

**The content of instances.** `Authored`, lists of elements each of which has a
slot in the model, is inductive and carries all six theorems.
`ContentGoverned` needs the slots: every kind of element has its slot in a
dimension that `has_governance` asks for. `RolesNotBorrowed` is exact: the
actors who pass for a function are the designations of its holders, neither
more nor fewer. `MoreRequired` holds because each check only takes its own
requirement away from what is missing and none returns before another; the
stricter retention refuses more as soon as there is a record at all
(`PlacesFound`). `MoreEvidence` is about places: one more element in the same
style is found beside the others (`AddedIsFound`), the first of them stays the
first (`LeastStays`), so the attestation that counts is the same, and counts
of records only grow.

**Evidence packs.** What `_es_number_to_string` and ECMAScript write, and what
`repr` writes in between, are texts that *spell* a number: read digit by digit,
after the zeros in front, they have the digits of the number, and zeros behind
them (`Spells`; `PythonFloatSpells`, `PythonIntSpells`, `EcmaSpells`). A text
spells one number at most (`SpelledOnce`), and stripping its zeros gives the
number's own digits back (`ReadBack`), so the digits that reach `Layout` are
those ECMAScript lays out, and the four cases of `Layout` are the cases of
Number::toString (`LayoutIsEcmaText`). That is `SerializeIsEcmaScript`, for
digits of every length and each exponent. For the order of keys, a position in
one list of bytes is a position in the list of code units and a half of it
(`PairOrder`). `PackInv`, which TLC checked on the instance of `evidence_pack`
too, says that what arrives are fields of JSON values and that the hash is
lost or that of the pack *as issued*, under the scheme it was issued with. A
pack that verifies then has one of its two forms equal to the one that was
issued (`HashedForm`). Both conventions write texts of the value itself
(`BothWrite`), and values that share a text have one meaning (`WrittenOnce`), so
even a form that is conformant for one pack and legacy for another is of packs
with the same meanings (`FormsOfOneMeaning`): trying two conventions lets no
other value pass. `RelayedPackStillVerifies` needs that the ECMAScript form
depends on the meanings only (`EcmaFormIsOfMeanings`), and
`LegacyReportIsRight` that the legacy form tells the spellings of a number apart
(`DumpsTellsApart`). That two forms never have one SHA-256 is part of the term.

**Only model-checked.**

- Liveness (`WalkEnds`, `RequestsAreAnswered`): the prover handles neither
  fairness nor ENABLED.
- The violations of section 3, which are single behaviours.

## 5. What is not modelled

- **SHACL**: the outcome is pyshacl's; the wrapper turns `conforms` into PERMIT
  or DENY and failures into INDETERMINATE.
- **Provenance records and their RDF export**: a fresh record of the arguments,
  and a list of triples; no state and no decision.
- **Nested values and string escapes** of the canonical forms: escapes map
  characters to distinct texts one by one, and a nested value is serialized by
  the same rules between delimiters.
- **XML**: layout, comments, encodings and the errors of the parser beyond "it
  cannot be read".
- **The registry** beyond what the server uses: `save` of a whole registry,
  `list`, domain and policy labels, hand-written files with lists of records.
- **Tool arguments**: that each is a string or a number is checked in the tools
  and answered as a tool error, which is the "failing" tool.

### Disagreements that no run covers

Between the code and what the repository says of it:

- A workflow element typed to a component that reaches no ordinal falls back to
  the bound ordinals (`workflow.py:168`; `CHANGELOG.md:71` reserves this for
  the generic type).
- Two table versions may share a file name, and the second overwrites the first
  (`tables.py:161`; `docs/user/mcp-server.md:228`).
- A schema that is republished is not noticed while its engine is cached, so
  the same files are answered differently before and after a restart
  (`mcp_server.py:104`; `docs/dev/architecture.md:107`: "Same inputs produce
  same outputs").
- COLLECT answers PERMIT when all matching rules say NOT_APPLICABLE
  (`decision.py:241`; `docs/user/decision-tables.md:60`).
- `verify_evidence_pack` computes the conformant hash first, which raises for
  an integer beyond 2^53 or a NaN, also for a pack that is valid under the
  legacy convention; and a migrated pack with the float 1e16, written as
  10000000000000000 by ECMAScript, is read back as such an integer
  (`mtcp.py:116`; `mtcp.py:101`: "an Evidence Pack verifies whichever side has
  migrated"). That the conventions differ "whenever it contains an integral
  float" (`mtcp.py:100`) fails from 1e21 on, harmlessly.
- The `full_chain` retention detects no altered, removed or reordered record
  (`provenance.py:431`; `docs/PRD.md:223` asks for a DENY), and
  `record_provenance` appends to no chain (`docs/PRD.md:221`).
- `allowed_activity_types` never refuses anything, because extraction sets no
  activity type (`provenance.py:249`).
- A `tools/call`, `ping` or `tools/list` without an id is answered, under the
  id null (`mcp_server.py:683`: "None for notifications"); an id that is a
  fraction is refused as no number (`mcp_server.py:697`).
- `previous_hash` may end in a newline (`mcp_server.py:498`, whose `$` matches
  before it).
- `README.md:30` says PERMIT where a model defines no governance and the code
  says NOT_APPLICABLE; `docs/PRD.md` and `docs/test-harness/decision-tables.md`
  say INDETERMINATE where no rule matches and the code says NOT_APPLICABLE.
- Registering the same content again is called a no-op but rewrites the file,
  so that a crash in between leaves a torn file and no server starts on the
  directory.
- One lineage may have several chains (`receipts.py:265` speaks of one).

Between what a reader may expect and the code:

- `validate_governance` answers PERMIT for every instance of a governed model,
  and NOT_APPLICABLE for one with only a protocol, an ACS or links, though
  these are reported as active dimensions.
- A slot counts also when its `maxOccurs` is 0, and only under the literal
  prefix `sdc4:` where it is a reference.
- Elements in the namespace hide bare ones of the same name, so that one
  qualified element may take evidence away.
- `check_actor_role` with the actor "" matches a performer without a name.
- Under FIRST a rule that is never reached may raise.
- `validate_shacl_from_strings` raises where `validate_shacl` answers
  INDETERMINATE.
- Activity nodes of the RDF export are numbered from 0 in each export, so two
  exports in one store run together.

## 6. The plan

Done, in this order: `Receipts`, `ReceiptChain` and its proofs; `Workflow`;
`GovernanceEngine`; `DecisionTable`; `TableRegistry`; `ModelWorkflow`;
`GovernanceService` and the refinement; `McpServer`; `InstanceContent`;
`Canonicalization` and `EvidencePack`; the proofs about instances,
engines and their service, the registry, the request loop, the walk over a
data model, decision tables and evidence packs. Every safety property that a
passing run checks has its theorem.

What is left would extend the model: nested values in the canonical forms, and
provenance records with their hashes.
