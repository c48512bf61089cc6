--------------------------- MODULE MCReceiptChain ---------------------------
(***************************************************************************)
(* TLC instances of ReceiptChain.                                          *)
(***************************************************************************)
EXTENDS ReceiptChain

(* Two calls: a bare one, and one that gives every left-out field a value. *)
(* Both read the same clock, so equal calls differ only in their link.     *)
BareCall == WithDefaults([decision |-> "PERMIT", timestamp |-> "t0"])

FullCall ==
  WithDefaults([decision |-> "DENY", timestamp |-> "t0", reasoning |-> "why",
                instance_id |-> "i1", instance_version |-> "1",
                source_instance_id |-> "s1", source_version_id |-> "s-1",
                obligations |-> "notify", context_hash |-> "c1",
                table_id |-> "t", table_version |-> "1",
                table_hash |-> "h1"])

MCCalls == {BareCall, FullCall}

(* Two fields that are always hashed, two that may be left out, and the    *)
(* one that selects the canonicalization.  Each may be emptied or given    *)
(* another value.                                                          *)
MCAssignments ==
  [f \in {"decision", "reasoning", "obligations", "table_hash",
          "canonicalization"} |->
     IF f = "canonicalization" THEN {LegacyScheme, CurrentScheme}
     ELSE {Empty, "other"}]
=============================================================================
