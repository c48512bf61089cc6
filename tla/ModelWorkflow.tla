---------------------------- MODULE ModelWorkflow ----------------------------
(***************************************************************************)
(* extract_workflow_from_model (workflow.py): which ordinal components of  *)
(* a data model are its workflow.  The components reachable from the type  *)
(* of the DM's workflow element are collected by a worklist over a graph   *)
(* that the schema's author drew, with cycles, shared parts and names that *)
(* nothing defines; the result decides which components become paths.      *)
(*                                                                         *)
(* A component is a complexType named mc-...: the components its elements  *)
(* are typed to, whether it restricts XdOrdinalType, whether it has an     *)
(* appinfo annotation, whether that binds a workflow or SCXML vocabulary,  *)
(* and whether any enumeration of it reads as a number.                    *)
(***************************************************************************)
EXTENDS Naturals, Sequences, SequencesExt, FiniteSets, TLC

CONSTANTS
  Components,  \* the components the schema defines
  Undefined,   \* an mc- name that no complexType has
  Generic,     \* the workflow element is typed to no model component
  Starts,      \* what the workflow element may be typed to
  NotExtracted,
  Kinds,       \* [ordinal, annotated, bound, states]: what a component may be
  MaxRefs      \* bound on the distinct components one component refers to

ASSUME KindsAssumption ==
  /\ Kinds \subseteq [ordinal : BOOLEAN, annotated : BOOLEAN,
                      bound : BOOLEAN, states : BOOLEAN]
  /\ \A k \in Kinds : k.bound => k.annotated

(* A schema is a finite text. *)
ASSUME ComponentsAssumption == IsFiniteSet(Components)

Names == Components \cup {Undefined}

ASSUME StartsAssumption ==
  Undefined \notin Components /\ Starts \subseteq Names \cup {Generic}

ASSUME RefsAssumption == MaxRefs \in Nat

VARIABLES
  kind,     \* the kind of each component
  refs,     \* the components each component refers to
  start,    \* the component the workflow element is typed to, or Generic
  pending,  \* the stack of names still to visit
  seen,     \* the components visited
  found,    \* the ordinal components visited
  paths     \* the components that became paths, once extracted

vars == <<kind, refs, start, pending, seen, found, paths>>
model == <<kind, refs, start>>

Walked == pending = <<>>

-----------------------------------------------------------------------------
Init ==
  /\ kind \in [Components -> Kinds]
  /\ refs \in [Components -> {R \in SUBSET Names : Cardinality(R) <= MaxRefs}]
  /\ start \in Starts
  /\ pending = IF start = Generic THEN <<>> ELSE <<start>>
  /\ seen = {} /\ found = {}
  /\ paths = NotExtracted

Top == Last(pending)
Skipped == Top \in seen \cup {Undefined}

(* Mutant: a name counts as seen before it is looked up. *)
SkipMarkingSeen ==
  /\ ~Walked
  /\ Skipped
  /\ pending' = Front(pending)
  /\ seen' = seen \cup {Top}
  /\ UNCHANGED <<model, found, paths>>

(* Mutant: a name that nothing defines stays on the stack. *)
SkipKeepingUndefined ==
  /\ ~Walked
  /\ Skipped
  /\ pending' = IF Top = Undefined THEN pending ELSE Front(pending)
  /\ UNCHANGED <<model, seen, found, paths>>

(* A name is popped that was visited before, or that nothing defines. *)
Skip ==
  /\ ~Walked
  /\ Skipped
  /\ pending' = Front(pending)
  /\ UNCHANGED <<model, seen, found, paths>>

(* Mutant: an ordinal component is not looked into. *)
VisitStoppingAtOrdinals ==
  /\ ~Walked
  /\ ~Skipped
  /\ seen' = seen \cup {Top}
  /\ found' = IF kind[Top].ordinal THEN found \cup {Top} ELSE found
  /\ \E children \in SetToSeqs(IF kind[Top].ordinal THEN {}
                               ELSE refs[Top] \ seen') :
       pending' = Front(pending) \o children
  /\ UNCHANGED <<model, paths>>

(* A component is visited: what it refers to and was not visited is pushed *)
(* in document order, which is any order here.                             *)
Visit ==
  /\ ~Walked
  /\ ~Skipped
  /\ seen' = seen \cup {Top}
  /\ found' = IF kind[Top].ordinal THEN found \cup {Top} ELSE found
  /\ \E children \in SetToSeqs(refs[Top] \ seen') :
       pending' = Front(pending) \o children
  /\ UNCHANGED <<model, paths>>

(* Mutant: every ordinal component is a path, as before 4.2.4. *)
QualifiesUnbound(c) ==
  IF found # {} THEN c \in found ELSE kind[c].annotated

(* _extract_workflow_components with only=reachable or None: a component   *)
(* qualifies by being reached, or, if none was, by its binding.            *)
Qualifies(c) ==
  IF found # {} THEN c \in found ELSE kind[c].bound

Extract ==
  /\ Walked
  /\ paths = NotExtracted
  /\ paths' = {c \in Components :
                 kind[c].ordinal /\ Qualifies(c) /\ kind[c].states}
  /\ UNCHANGED <<model, pending, seen, found>>

Next == Skip \/ Visit \/ Extract

Spec == Init /\ [][Next]_vars /\ WF_vars(Next)

-----------------------------------------------------------------------------
(* What can be reached from the workflow element's type: the names in      *)
(* every set that has the type and is closed under reference.              *)
Closed(S) == \A c \in S \cap Components : refs[c] \subseteq S
Reachable ==
  {c \in Components : start # Generic /\
     \A S \in SUBSET Names : start \in S /\ Closed(S) => c \in S}

(* The walk is of the kinds above, and never visits what nothing defines.  *)
TypeOK ==
  /\ kind \in [Components -> Kinds]
  /\ refs \in [Components -> SUBSET Names]
  /\ start \in Starts
  /\ pending \in Seq(Names)
  /\ found \subseteq seen /\ seen \subseteq Components
  /\ paths \in (SUBSET Components) \cup {NotExtracted}

(* The walk finds the ordinal components reachable from the type of the    *)
(* workflow element, all of them when it ends and no others at any time,   *)
(* whatever cycles and shared parts the model has                          *)
(* (_ordinals_reachable_from).                                             *)
FindsTheReachable ==
  LET ordinals == {c \in Reachable : kind[c].ordinal}
  IN  found \subseteq ordinals /\ (Walked => found = ordinals)

(* The walk ends on every model, and the paths are extracted: each step of *)
(* the loop follows the one before it.                                     *)
WalkEnds == <>(paths # NotExtracted)

(* "Only the workflow is the workflow" (CHANGELOG 4.2.4): a component that *)
(* neither the workflow element reaches nor a vocabulary binds is never a  *)
(* path, and where something is reached, nothing else is.                  *)
OnlyTheWorkflow ==
  paths # NotExtracted =>
    \A c \in paths :
      \/ c \in Reachable
      \/ kind[c].bound /\ ~\E d \in Reachable : kind[d].ordinal
=============================================================================
