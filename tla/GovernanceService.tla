------------------------- MODULE GovernanceService -------------------------
(***************************************************************************)
(* What the governance engines promise their clients, without the reads of *)
(* a request, the failures between them or the files they read: a decision *)
(* is one step.  A model that was opened stays as it was until the process *)
(* ends; each decision is the verdict on one document under that model,    *)
(* and it is entered in the ledger of the model and answered in the same   *)
(* step.  GovernanceEngine implements this.                                *)
(***************************************************************************)
EXTENDS Sequences

CONSTANTS
  Paths,             \* the names models are opened under
  Docs,              \* the documents that can be decided about
  Goals,             \* the target states
  Verdict,           \* the decision, by model, document and target
  Closed             \* the model is not open

VARIABLES
  models,   \* path |-> Closed, or whether the model governs a workflow
  ledgers,  \* path |-> the statements made under the open model
  answers   \* everything ever answered

vars == <<models, ledgers, answers>>

(* What a receipt says.  The document it names is not promised to be the   *)
(* one that was decided about.                                             *)
Statement(path, doc, named, goal) ==
  [decision |-> Verdict[models[path]][doc][goal],
   from |-> doc.current, to |-> goal,
   id |-> named.id, version |-> named.version]

Init ==
  /\ models = [p \in Paths |-> Closed]
  /\ ledgers = [p \in Paths |-> <<>>]
  /\ answers = <<>>

Open(path) ==
  /\ models[path] = Closed
  /\ \E governed \in BOOLEAN :
       models' = [models EXCEPT ![path] = governed]
  /\ UNCHANGED <<ledgers, answers>>

Decide(path, doc, named, goal) ==
  /\ models[path] # Closed
  /\ UNCHANGED models
  /\ answers' = Append(answers, Statement(path, doc, named, goal))
  /\ ledgers' = [ledgers EXCEPT ![path] =
                   Append(@, Statement(path, doc, named, goal))]

EndProcess ==
  /\ models' = [p \in Paths |-> Closed]
  /\ ledgers' = [p \in Paths |-> <<>>]
  /\ UNCHANGED answers

Next ==
  \/ \E path \in Paths : Open(path)
  \/ \E path \in Paths, doc, named \in Docs, goal \in Goals :
       Decide(path, doc, named, goal)
  \/ EndProcess

Spec == Init /\ [][Next]_vars
=============================================================================
