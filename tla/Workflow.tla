------------------------------ MODULE Workflow ------------------------------
(***************************************************************************)
(* workflow.py: the workflow tree of an instance document and the          *)
(* transitions it allows.  No state: GovernanceEngine evaluates            *)
(* transitions with these operators, InstanceContent checks them over      *)
(* every document up to a bound.                                           *)
(*                                                                         *)
(* A path is the list of its states, as a function on the positions they   *)
(* have in the document; a tree is a function from the elements that hold  *)
(* states to their paths.  The order of the paths shows only in the order  *)
(* of the lists that are returned, which are sets here.  Only the order of *)
(* the ordinals matters, so integers stand for the floats of the code.     *)
(***************************************************************************)
EXTENDS Integers, Sequences, SequencesExt, FiniteSets, TLC

CONSTANT Unparsable      \* the text of an ordinal that float() refuses

-----------------------------------------------------------------------------
(* Reading the document                                                    *)

(* A state element: its ancestors below the workflow element, nearest      *)
(* first, and the texts of its ordinal and symbol children.                *)
WorkflowElement == "workflow"
Transparent == {"XdAdapter", "XdAdapter-value"}

(* Mutant: adapters are taken for sub-clusters. *)
ContainerNearest(e) ==
  IF e.ancestors = <<>> THEN WorkflowElement ELSE Head(e.ancestors)

(* Where the ancestors of a state are no adapters. *)
Clusters(e) == {i \in DOMAIN e.ancestors : e.ancestors[i] \notin Transparent}

(* The path a state belongs to: its nearest ancestor that is no adapter.   *)
Container(e) ==
  IF Clusters(e) = {} THEN WorkflowElement
  ELSE e.ancestors[CHOOSE i \in Clusters(e) : \A j \in Clusters(e) : i <= j]

HasState(e) == e.ordinal # Unparsable

ParseOrdinalState(e) ==
  [ordinal |-> e.ordinal,
   symbol  |-> IF e.symbol # "" THEN e.symbol ELSE ToString(e.ordinal)]

StatesIn(elems, c) ==
  [i \in {k \in DOMAIN elems : Container(elems[k]) = c /\ HasState(elems[k])} |->
     ParseOrdinalState(elems[i])]

(* One path for each container that has a state. *)
ParseWorkflowCluster(elems) ==
  [c \in {Container(elems[i]) : i \in {k \in DOMAIN elems : HasState(elems[k])}} |->
     StatesIn(elems, c)]

-----------------------------------------------------------------------------
(* Transitions                                                             *)

(* Position i comes before j in sorted(states, key=ordinal): the sort is   *)
(* stable, so states of equal ordinal keep the order of the document.      *)
SortedBefore(states, i, j) ==
  \/ states[i].ordinal < states[j].ordinal
  \/ states[i].ordinal = states[j].ordinal /\ i < j

(* Mutant: any later state is next, so that states can be skipped. *)
FollowsAnywhere(states, i, j) == SortedBefore(states, i, j)

Follows(states, i, j) ==
  /\ SortedBefore(states, i, j)
  /\ \A k \in DOMAIN states :
       ~(SortedBefore(states, i, k) /\ SortedBefore(states, k, j))

(* next_states: the successor of the first state in sorted order that has  *)
(* this ordinal; when that one is last there is no other.                  *)
NextStates(states, ordinal) ==
  {j \in DOMAIN states :
     \E i \in DOMAIN states :
       /\ states[i].ordinal = ordinal
       /\ \A k \in DOMAIN states : states[k].ordinal = ordinal => i <= k
       /\ Follows(states, i, j)}

(* find_current_state: the <<path, state>> positions with this symbol. *)
FindCurrentState(tree, symbol) ==
  {x \in UNION {{p} \X DOMAIN tree[p] : p \in DOMAIN tree} :
     tree[x[1]][x[2]].symbol = symbol}

(* The position after that of a match in its path. *)
NextOf(tree, m) ==
  {m[1]} \X NextStates(tree[m[1]], tree[m[1]][m[2]].ordinal)

(* Mutant: only the first path that holds the current state is followed. *)
SuccessorsInFirstPath(tree, symbol) ==
  UNION {NextOf(tree, m) :
           m \in {x \in FindCurrentState(tree, symbol) :
                    \A y \in FindCurrentState(tree, symbol) : x[2] <= y[2]}}

Successors(tree, symbol) ==
  UNION {NextOf(tree, m) : m \in FindCurrentState(tree, symbol)}

(* get_allowed_transitions: one entry for each target symbol, with the     *)
(* paths in which it is next.                                              *)
AllowedTransitions(tree, symbol) ==
  LET SymbolAt(x) == tree[x[1]][x[2]].symbol
      next == Successors(tree, symbol)
  IN  {[target |-> t, paths |-> {x[1] : x \in {y \in next : SymbolAt(y) = t}}] :
       t \in {SymbolAt(x) : x \in next}}

ValidTargets(tree, symbol) ==
  {t.target : t \in AllowedTransitions(tree, symbol)}

IsValidTransition(tree, current, target) ==
  target \in ValidTargets(tree, current)

-----------------------------------------------------------------------------
(* The documented meaning of a transition (docs/user/workflow.md): the     *)
(* target is at position N+1 of a path in which the current state is at N. *)

(* The position of a state: how many smaller ordinals its path has. *)
Position(states, i) ==
  Cardinality({states[k].ordinal : k \in {l \in DOMAIN states :
                                   states[l].ordinal < states[i].ordinal}})

IsAdjacent(states, current, target) ==
  \E i, j \in DOMAIN states :
    /\ states[i].symbol = current
    /\ states[j].symbol = target
    /\ Position(states, j) = Position(states, i) + 1

AdjacentIn(tree, current, target) ==
  {p \in DOMAIN tree : IsAdjacent(tree[p], current, target)}

DistinctOrdinals(tree) ==
  \A p \in DOMAIN tree : \A i, j \in DOMAIN tree[p] :
    tree[p][i].ordinal = tree[p][j].ordinal => i = j

SymbolsIn(tree) ==
  UNION {{tree[p][i].symbol : i \in DOMAIN tree[p]} : p \in DOMAIN tree}
=============================================================================
