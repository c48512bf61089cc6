---------------------------- MODULE ReceiptChain ----------------------------
(***************************************************************************)
(* One ReceiptChain object and the callers that hold its receipts.         *)
(*                                                                         *)
(* append returns the Receipt object it stored, the receipts property      *)
(* returns a new list of the same objects, and the dataclass is not        *)
(* frozen: a holder can assign to a field of a stored receipt, which is    *)
(* the action Assign (the test suite does this to show that verification   *)
(* notices).  to_list copies the chain; exported is the last such copy, as *)
(* it was handed to an auditor.  issued is history: every receipt as       *)
(* append returned it.                                                     *)
(***************************************************************************)
EXTENDS Receipts

CONSTANTS
  Calls,          \* the argument records append may be called with
  Assignments,    \* field |-> the set of values a holder may assign to it
  MaxReceipts,    \* bound on the number of appends
  MaxAssigns      \* bound on the number of assignments

ASSUME BoundsAssumption == MaxReceipts \in Nat /\ MaxAssigns \in Nat
ASSUME CallsAssumption == \A args \in Calls : DOMAIN args = ArgFields
ASSUME AssignmentsAssumption == DOMAIN Assignments \subseteq ReceiptFields

VARIABLES
  chain,      \* ReceiptChain._receipts, the objects' present contents
  issued,     \* the same receipts as they were when append returned them
  exported,   \* the last result of to_list
  assigns     \* how many assignments have been made

vars == <<chain, issued, exported, assigns>>

Init ==
  /\ chain = <<>>
  /\ issued = <<>>
  /\ exported = <<>>
  /\ assigns = 0

(* Mutant: the new receipt takes the place of the list. *)
AppendReceiptReplacing(args) ==
  /\ Len(chain) < MaxReceipts
  /\ LET receipt == NewReceipt(args, LastHash(chain))
     IN  /\ chain' = <<receipt>>
         /\ issued' = Append(issued, receipt)
  /\ UNCHANGED <<exported, assigns>>

(* append: the new receipt is linked to whatever the last object's         *)
(* receipt_hash is now.                                                    *)
AppendReceipt(args) ==
  /\ Len(chain) < MaxReceipts
  /\ LET receipt == NewReceipt(args, LastHash(chain))
     IN  /\ chain' = Append(chain, receipt)
         /\ issued' = Append(issued, receipt)
  /\ UNCHANGED <<exported, assigns>>

(* A holder assigns to a field of a receipt object that is in the chain:   *)
(* some value of its own, or, for the two hash fields, a digest it can     *)
(* compute or has seen.                                                    *)
DigestsFor(i) ==
  {NoHash, ComputeHash(chain[i])}
    \cup {chain[j]["receipt_hash"] : j \in 1..Len(chain)}

Assign(i, f, v) ==
  /\ assigns < MaxAssigns
  /\ v # chain[i][f]
  /\ chain' = [chain EXCEPT ![i] = [@ EXCEPT ![f] = v]]
  /\ assigns' = assigns + 1
  /\ UNCHANGED <<issued, exported>>

AssignValue(i) ==
  \E f \in DOMAIN Assignments : \E v \in Assignments[f] : Assign(i, f, v)

AssignDigest(i) ==
  \E f \in {"previous_hash", "receipt_hash"} :
    \E v \in DigestsFor(i) : Assign(i, f, v)

(* to_list: every field of every receipt is copied. *)
ToList ==
  /\ exported' = chain
  /\ UNCHANGED <<chain, issued, assigns>>

Next ==
  \/ \E args \in Calls : AppendReceipt(args)
  \/ \E i \in 1..Len(chain) : AssignValue(i) \/ AssignDigest(i)
  \/ ToList

Spec == Init /\ [][Next]_vars

-----------------------------------------------------------------------------
IsChain(s) ==
  /\ s = [i \in 1..Len(s) |-> s[i]]
  /\ Len(s) \in 0..MaxReceipts
  /\ \A i \in 1..Len(s) : IsReceipt(s[i])

(* Every list holds whole receipts: no step adds, drops or renames a field *)
(* of the Receipt dataclass, and the chain never shrinks below what was    *)
(* issued.                                                                 *)
TypeOK ==
  /\ IsChain(chain)
  /\ IsChain(issued)
  /\ IsChain(exported)
  /\ Len(chain) = Len(issued)
  /\ Len(exported) <= Len(chain)
  /\ assigns \in 0..MaxAssigns

(* The fields whose present value is not the one append gave them. *)
Altered ==
  {x \in (1..Len(issued)) \X ReceiptFields :
     chain[x[1]][x[2]] # issued[x[1]][x[2]]}

(* verify_chain accepts every chain that append alone has built, whatever  *)
(* was appended and whatever the clock read (verify_chain, append).        *)
UnalteredVerifies == assigns = 0 => VerifyChain(chain)

(* A single field that differs from what was issued makes verify_chain     *)
(* fail, whichever of the receipt's fields it is, however long ago it was  *)
(* issued and however many receipts were appended since: every field is    *)
(* bound by _compute_hash (obligations were not until 4.2.3).              *)
SingleAlterationDetected ==
  \A i \in 1..Len(chain), f \in ReceiptFields :
    Altered = {<<i, f>>} => ~VerifyChain(chain)

(* An auditor who kept a copy of the chain that verified, or only its last *)
(* receipt_hash, is not deceived: if the chain verifies today and still    *)
(* has that hash at that position, then nothing in that prefix has         *)
(* changed, even if a holder recomputed every hash it could.               *)
ExportedHeadFixesPrefix ==
  LET n == Len(exported)
  IN  /\ n > 0
      /\ VerifyChain(exported)
      /\ VerifyChain(chain)
      /\ chain[n]["receipt_hash"] = exported[n]["receipt_hash"]
      => \A i \in 1..n : chain[i] = exported[i]

(* The receipts of a chain have distinct hashes, also when two evaluations *)
(* are identical and the clock returned the same timestamp for both: the   *)
(* link to the previous receipt tells them apart.                          *)
HashesUnique ==
  VerifyChain(chain) =>
    \A i, j \in 1..Len(chain) :
      chain[i]["receipt_hash"] = chain[j]["receipt_hash"] => i = j

=============================================================================
