------------------------------ MODULE Receipts ------------------------------
(***************************************************************************)
(* The decision receipt of receipts.py: which fields there are, which of   *)
(* them are hashed, how a receipt is sealed when it is constructed, and    *)
(* what verify_hash and verify_chain compute.  No state: ReceiptChain,     *)
(* GovernanceEngine and the table tools are built on these operators.      *)
(*                                                                         *)
(* A receipt is a function from field names to values.  The value of a     *)
(* field is opaque: a string stands for a text, a list or an enum member,  *)
(* and Empty for "" and [], the falsy values the code tests for.           *)
(***************************************************************************)
EXTENDS Naturals, Sequences

Empty == ""
LegacyScheme == "legacy-json-dumps"
CurrentScheme == "rfc8785"

(* The dataclass defaults: no previous receipt, nothing hashed yet. *)
NoHash == <<>>

(* The keys that are always in the hashed content ... *)
RequiredFields ==
  {"decision", "reasoning", "status_code", "instance_id", "instance_version",
   "timestamp", "previous_hash", "dimensions_checked", "errors",
   "context_hash"}

(* ... and those that are left out when they hold the value given here, so *)
(* that receipts issued before the field existed still verify.             *)
LeftOutAt ==
  [f \in {"source_instance_id", "source_version_id", "obligations",
          "table_id", "table_version", "table_hash", "canonicalization"} |->
     IF f = "canonicalization" THEN LegacyScheme ELSE Empty]

HashedFields == RequiredFields \cup DOMAIN LeftOutAt
ReceiptFields == HashedFields \cup {"receipt_hash"}
IsReceipt(r) == r = [f \in ReceiptFields |-> r[f]]

(* What ReceiptChain.append takes from its caller, plus the clock reading. *)
ArgFields == HashedFields \ {"previous_hash", "canonicalization"}

(* The keyword defaults of append, overridden by the arguments given. *)
WithDefaults(args) ==
  [f \in ArgFields |->
     IF f \in DOMAIN args THEN args[f]
     ELSE IF f = "status_code" THEN "OK" ELSE Empty]

-----------------------------------------------------------------------------
(* SHA-256 of the canonical bytes, as a term: two digests are equal only   *)
(* when the canonicalised contents are.                                    *)
Sha256(content) == <<content>>

(* Mutant: obligations are emitted but not hashed, as before 4.2.3. *)
HashedKeysWithoutObligations(r) ==
  {f \in HashedFields \ {"obligations"} :
     f \in DOMAIN LeftOutAt => r[f] # LeftOutAt[f]}

(* Mutant: the link to the previous receipt is not hashed. *)
HashedKeysWithoutLink(r) ==
  {f \in HashedFields \ {"previous_hash"} :
     f \in DOMAIN LeftOutAt => r[f] # LeftOutAt[f]}

HashedKeys(r) ==
  {f \in HashedFields : f \in DOMAIN LeftOutAt => r[f] # LeftOutAt[f]}

Content(r) == [f \in HashedKeys(r) |-> r[f]]

ComputeHash(r) == Sha256(Content(r))

VerifyHash(r) == r["receipt_hash"] = ComputeHash(r)

(* Receipt(...) followed by __post_init__: the hash is computed once, over *)
(* the fields the constructor was given.                                   *)
NewReceipt(args, previous) ==
  LET unsealed == [f \in HashedFields |->
                     CASE f = "previous_hash" -> previous
                       [] f = "canonicalization" -> CurrentScheme
                       [] OTHER -> args[f]]
  IN  [f \in ReceiptFields |->
         IF f = "receipt_hash" THEN ComputeHash(unsealed) ELSE unsealed[f]]

-----------------------------------------------------------------------------
(* Mutant: the hash of the oldest receipt instead of the newest. *)
LastHashOldest(receipts) ==
  IF receipts = <<>> THEN NoHash ELSE receipts[1]["receipt_hash"]

LastHash(receipts) ==
  IF receipts = <<>> THEN NoHash ELSE receipts[Len(receipts)]["receipt_hash"]

(* Mutant: verify_chain checks every hash but no link. *)
LinkedUnchecked(receipts, i) == TRUE

Linked(receipts, i) ==
  receipts[i]["previous_hash"] =
     IF i = 1 THEN NoHash ELSE receipts[i - 1]["receipt_hash"]

VerifyChain(receipts) ==
  \A i \in 1..Len(receipts) : VerifyHash(receipts[i]) /\ Linked(receipts, i)
=============================================================================
