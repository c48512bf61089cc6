--------------------------- MODULE MCModelWorkflow ---------------------------
(***************************************************************************)
(* TLC instances of ModelWorkflow.                                         *)
(***************************************************************************)
EXTENDS ModelWorkflow

CONSTANTS c1, c2, c3

Kind(ordinal, annotated, bound, states) ==
  [ordinal |-> ordinal, annotated |-> annotated, bound |-> bound,
   states |-> states]

Cluster == Kind(FALSE, TRUE, FALSE, FALSE)
Scale == Kind(TRUE, TRUE, FALSE, TRUE)
BareScale == Kind(TRUE, FALSE, FALSE, TRUE)
BoundScale == Kind(TRUE, TRUE, TRUE, TRUE)
EmptyScale == Kind(TRUE, TRUE, TRUE, FALSE)

(* A cluster, a scale that is no workflow, one bound to a vocabulary, and  *)
(* one without a usable enumeration.                                       *)
MostKinds == {Cluster, Scale, BoundScale, EmptyScale}
AllKinds == {Cluster, Scale, BareScale, BoundScale, EmptyScale}
=============================================================================
