------------------------- MODULE MCGovernanceEngine -------------------------
(***************************************************************************)
(* TLC instances of GovernanceEngine.                                      *)
(***************************************************************************)
EXTENDS GovernanceEngine

State(cluster, ordinal, symbol) ==
  [ancestors |-> <<"XdAdapter", cluster>>, ordinal |-> ordinal,
   symbol |-> symbol]

(* draft, review, then approved in one path and rejected in the other. *)
Branching ==
  <<State("approval", 0, "draft"), State("approval", 1, "review"),
    State("approval", 2, "approved"),
    State("rejection", 0, "draft"), State("rejection", 1, "review"),
    State("rejection", 2, "rejected")>>

Doc(id, version, current, workflow) ==
  [id |-> id, version |-> version, current |-> current, workflow |-> workflow]

(* Two versions of an instance, and another one without a workflow. *)
TwoVersions ==
  {Doc("i1", "1", "draft", Branching), Doc("i1", "2", "review", Branching)}

(* The engine treats every schema path alike. *)
PathSymmetry == Permutations(SchemaPaths)

MCDocuments == TwoVersions \cup {Doc("i2", "1", "draft", NoWorkflow)}
=============================================================================
