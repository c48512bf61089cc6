-------------------------- MODULE MCInstanceContent --------------------------
(***************************************************************************)
(* TLC instances of InstanceContent.                                       *)
(***************************************************************************)
EXTENDS InstanceContent

Slots ==
  {<<"workflow">>, <<"attestation">>, <<"subject">>, <<"provider">>,
   <<"sdc4", "Participation">>, <<"sdc4", "Audit">>}

(* Every kind of content, one kind only, or none that is validated.        *)
MCModels == {Slots, {<<"protocol">>}} \cup {{s} : s \in Slots}

Attestation(pending, parts, qualified) ==
  [name |-> "attestation", qualified |-> qualified, pending |-> pending,
   parts |-> parts]
Participation(performer, function, qualified) ==
  [name |-> "Participation", qualified |-> qualified, performer |-> performer,
   function |-> function]
Audit(parts, qualified) ==
  [name |-> "Audit", qualified |-> qualified, parts |-> parts]
Plain(name, qualified) == [name |-> name, qualified |-> qualified]

(* Known by name, by reference, by both, or by neither. *)
Alice == [name |-> "alice", ref |-> ""]
Bob == [name |-> "", ref |-> "bob"]
Carol == [name |-> "carol", ref |-> "carol-ref"]
Unnamed == [name |-> "", ref |-> ""]

MCElements ==
  UNION {{Attestation(t, ps, q) :
            t \in Texts, ps \in {{}, {"committer"}, Parts}}
         \cup {Participation(p, f, q) :
            p \in {Nobody, Unnamed, Alice, Bob, Carol}, f \in {"", "approver"}}
         \cup {Audit(ps, q) :
            ps \in {AuditParts} \cup {AuditParts \ {x} : x \in AuditParts}}
         \cup {Plain(n, q) : n \in {"subject", "provider"}} :
           q \in BOOLEAN}

MCRequirements == {{}, Defaults}

(* Of the workflow alone: a state directly in a sub-cluster, behind        *)
(* adapters in the same one, and behind an adapter in a sub-cluster of it. *)
WorkflowOnly == {{<<"workflow">>}}
Nestings ==
  {<<"c1">>, <<"XdAdapter-value", "XdAdapter", "c1">>,
   <<"XdAdapter", "c2", "c1">>}
OrdinalTexts == {0, 1, 3, Unparsable}

(* Beside the other content: one state is enough. *)
DirectOnly == {<<>>}
=============================================================================
