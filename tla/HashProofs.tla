----------------------------- MODULE HashProofs -----------------------------
(***************************************************************************)
(* What the hashes of receipts and of evidence packs prove: the promises   *)
(* of ReceiptChain, for every set of calls and of assignments, and those   *)
(* of EvidencePack, for every set of packs and of values.                  *)
(***************************************************************************)
EXTENDS ReceiptChain, EvidencePack, OperatorLemmas

(***************************************************************************)
(* Receipts.                                                               *)
(***************************************************************************)

-----------------------------------------------------------------------------
(***************************************************************************)
(* Two chains that verify and have the same receipt_hash at position n are *)
(* equal up to n (verify_chain).                                           *)
(***************************************************************************)
LEMMA HeadFixesPrefix ==
  ASSUME NEW c, NEW d, NEW n \in Nat \ {0},
         Len(c) \in Nat, Len(d) \in Nat, n <= Len(c), n <= Len(d),
         \A i \in 1..n : IsReceipt(c[i]) /\ IsReceipt(d[i]),
         VerifyChain(c), VerifyChain(d),
         c[n]["receipt_hash"] = d[n]["receipt_hash"]
  PROVE  \A i \in 1..n : c[i] = d[i]
<1> DEFINE Differ == {k \in Nat : k < n /\ c[n - k] # d[n - k]}
<1>1. SUFFICES ASSUME Differ # {} PROVE FALSE
  <2>1. SUFFICES ASSUME NEW i \in 1..n PROVE c[i] = d[i]
    OBVIOUS
  <2>2. n - i \in Nat /\ n - i < n /\ n - (n - i) = i
    OBVIOUS
  <2>3. n - i \notin Differ
    BY <1>1
  <2> QED BY <2>2, <2>3
<1>2. PICK k \in Differ : \A j \in Differ : k <= j
  BY <1>1, LeastElement
<1> DEFINE p == n - k
<1>3. p \in 1..n /\ c[p] # d[p]
  BY <1>2
<1>4. /\ VerifyHash(c[p]) /\ VerifyHash(d[p])
      /\ IsReceipt(c[p]) /\ IsReceipt(d[p])
  BY <1>3 DEF VerifyChain
<1>5. c[p]["receipt_hash"] = d[p]["receipt_hash"]
  <2>1. CASE k = 0
    BY <2>1
  <2>2. CASE k > 0
    <3>1. k - 1 \in Nat /\ k - 1 < n /\ n - (k - 1) = p + 1
      BY <1>2, <2>2
    <3>2. c[p + 1] = d[p + 1]
      <4>1. k - 1 \notin Differ
        BY <1>2, <2>2
      <4> QED BY <3>1, <4>1
    <3>3. p + 1 \in 1..Len(c) /\ p + 1 \in 1..Len(d) /\ p + 1 # 1
      BY <1>2, <1>3, <2>2
    <3>4. Linked(c, p + 1) /\ Linked(d, p + 1)
      BY <3>3 DEF VerifyChain
    <3>5. (p + 1) - 1 = p
      BY <1>3
    <3>6. /\ c[p + 1]["previous_hash"] = c[p]["receipt_hash"]
          /\ d[p + 1]["previous_hash"] = d[p]["receipt_hash"]
      BY <3>3, <3>4, <3>5 DEF Linked
    <3> QED BY <3>2, <3>6
  <2> QED BY <1>2, <2>1, <2>2
<1> QED BY <1>3, <1>4, <1>5, VerifiedReceiptFixed

(***************************************************************************)
(* No two receipts of a chain that verifies have the same hash.            *)
(***************************************************************************)
LEMMA VerifiedHashesUnique ==
  ASSUME NEW c, Len(c) \in Nat, VerifyChain(c)
  PROVE  \A i, j \in 1..Len(c) :
           c[i]["receipt_hash"] = c[j]["receipt_hash"] => i = j
<1> DEFINE Same(i, j) == c[i]["receipt_hash"] = c[j]["receipt_hash"]
           Again == {i \in Nat : i \in 1..Len(c)
                                  /\ \E j \in (i+1)..Len(c) : Same(i, j)}
<1>1. SUFFICES ASSUME Again # {} PROVE FALSE
  <2>1. SUFFICES ASSUME NEW i \in 1..Len(c), NEW j \in 1..Len(c),
                        Same(i, j), i < j
                 PROVE  FALSE
    OBVIOUS
  <2>2. i \in Again
    BY <2>1
  <2> QED BY <1>1, <2>2
<1>2. PICK i \in Again : \A k \in Again : i <= k
  BY <1>1, LeastElement
<1>3. PICK j \in (i+1)..Len(c) : Same(i, j)
  BY <1>2
<1>4. i \in 1..Len(c) /\ j \in 1..Len(c) /\ j # 1 /\ j - 1 \in i..Len(c)
  BY <1>2, <1>3
<1>5. VerifyHash(c[i]) /\ VerifyHash(c[j]) /\ Linked(c, i) /\ Linked(c, j)
  BY <1>4 DEF VerifyChain
<1>6. c[i]["previous_hash"] = c[j]["previous_hash"]
  <2>1. ComputeHash(c[i]) = ComputeHash(c[j])
    BY <1>3, <1>5 DEF VerifyHash
  <2>2. "previous_hash" \in HashedFields
    BY DEF HashedFields, RequiredFields
  <2> QED BY <2>1, <2>2, HashBindsFields
<1>7. c[j]["previous_hash"] = c[j - 1]["receipt_hash"]
  BY <1>4, <1>5 DEF Linked
<1>8. CASE i = 1
  <2>1. c[j - 1]["receipt_hash"] = NoHash
    BY <1>5, <1>6, <1>7, <1>8 DEF Linked
  <2>2. j - 1 \in 1..Len(c)
    BY <1>4
  <2>3. c[j - 1]["receipt_hash"] = Sha256(Content(c[j - 1]))
    BY <2>2 DEF VerifyChain, VerifyHash, ComputeHash
  <2> QED BY <2>1, <2>3, Sha256Facts
<1>9. CASE i # 1
  <2>1. c[i - 1]["receipt_hash"] = c[j - 1]["receipt_hash"]
    BY <1>5, <1>6, <1>7, <1>9 DEF Linked
  <2>2. i - 1 \in Nat /\ i - 1 \in 1..Len(c) /\ j - 1 \in ((i-1)+1)..Len(c)
    BY <1>3, <1>4, <1>9
  <2>3. i - 1 \in Again
    BY <2>1, <2>2
  <2> QED BY <1>2, <1>4, <2>3
<1> QED BY <1>8, <1>9

-----------------------------------------------------------------------------
(* A chain is a list.                                                      *)
LEMMA ChainIsList == ASSUME NEW s, IsChain(s) PROVE IsList(s)
BY BoundsAssumption DEF IsChain, IsList

(* append and an assignment keep a list of whole receipts one. *)
LEMMA AppendKeepsChain ==
  ASSUME NEW s, NEW r, IsChain(s), IsReceipt(r), Len(s) < MaxReceipts
  PROVE  IsChain(Append(s, r))
<1> DEFINE t == Append(s, r)
<1>1. Len(s) \in Nat /\ Len(s) + 1 \in 0..MaxReceipts
  BY BoundsAssumption DEF IsChain
<1>2. /\ Len(t) = Len(s) + 1 /\ IsList(t)
      /\ \A i \in 1..Len(s) : t[i] = s[i]
      /\ t[Len(s) + 1] = r
  BY ChainIsList, AppendToList
<1> HIDE DEF t
<1>3. ASSUME NEW i \in 1..(Len(s) + 1) PROVE IsReceipt(t[i])
  <2>1. CASE i = Len(s) + 1
    BY <1>2, <2>1
  <2>2. CASE i \in 1..Len(s)
    BY <1>2, <2>2 DEF IsChain
  <2> QED BY <1>1, <2>1, <2>2
<1>4. IsChain(t)
  BY <1>1, <1>2, <1>3 DEF IsChain, IsList
<1> QED BY <1>4 DEF t

(* A receipt replaced in a chain leaves a chain.                           *)
LEMMA ReplaceKeepsChain ==
  ASSUME NEW s, NEW r, IsChain(s), IsReceipt(r), NEW i \in 1..Len(s)
  PROVE  IsChain([s EXCEPT ![i] = r])
<1> DEFINE t == [s EXCEPT ![i] = r]
<1>1. /\ Len(t) = Len(s) /\ IsList(t)
      /\ \A j \in 1..Len(s) : t[j] = IF j = i THEN r ELSE s[j]
  BY ChainIsList, ReplaceInList
<1> HIDE DEF t
<1>2. \A j \in 1..Len(s) : IsReceipt(t[j])
  BY <1>1 DEF IsChain
<1>3. IsChain(t)
  BY <1>1, <1>2 DEF IsChain, IsList
<1> QED BY <1>3 DEF t

(* Assigning to one field leaves the others, and the shape, alone. *)
LEMMA AssignField ==
  ASSUME NEW r, NEW f \in ReceiptFields, NEW v, IsReceipt(r)
  PROVE  IsReceipt([r EXCEPT ![f] = v])
<1> DEFINE t == [r EXCEPT ![f] = v]
<1>1. DOMAIN r = ReceiptFields
  BY DEF IsReceipt
<1>2. t = [g \in ReceiptFields |-> t[g]]
  BY <1>1
<1> QED BY <1>2 DEF IsReceipt

-----------------------------------------------------------------------------
(***************************************************************************)
(* The chain, the issued receipts and the exported copy are always lists   *)
(* of whole receipts: append adds one to both, an assignment keeps the     *)
(* length and the fields, to_list copies.                                  *)
(***************************************************************************)
THEOREM TypeCorrect == Spec => []TypeOK
<1>1. Init => TypeOK
  BY BoundsAssumption DEF Init, TypeOK, IsChain
<1>2. TypeOK /\ [Next]_vars => TypeOK'
  <2> SUFFICES ASSUME TypeOK, [Next]_vars PROVE TypeOK'
    OBVIOUS
  <2> USE DEF TypeOK
  <2>1. ASSUME NEW args \in Calls, AppendReceipt(args) PROVE TypeOK'
    <3> DEFINE r == NewReceipt(args, LastHash(chain))
    <3>1. chain' = Append(chain, r) /\ issued' = Append(issued, r)
      BY <2>1 DEF AppendReceipt
    <3>2. IsReceipt(r)
      BY NewReceiptSealed
    <3> HIDE DEF r
    <3>3. Len(chain) < MaxReceipts
      BY <2>1 DEF AppendReceipt
    <3>4. IsChain(chain)'
      BY <3>1, <3>2, <3>3, AppendKeepsChain
    <3>5. IsChain(issued)'
      BY <3>1, <3>2, <3>3, AppendKeepsChain
    <3>6. Len(chain') = Len(chain) + 1 /\ Len(issued') = Len(issued) + 1
      BY <3>1, ChainIsList, AppendToList
    <3>7. Len(exported) \in Nat /\ Len(chain) \in Nat
      BY BoundsAssumption DEF IsChain
    <3> QED BY <2>1, <3>4, <3>5, <3>6, <3>7 DEF AppendReceipt
  <2>2. ASSUME NEW i \in 1..Len(chain), NEW f \in ReceiptFields, NEW v,
               Assign(i, f, v)
        PROVE  TypeOK'
    <3> DEFINE r == [chain[i] EXCEPT ![f] = v]
    <3>1. chain' = [chain EXCEPT ![i] = r]
      BY <2>2 DEF Assign
    <3>2. IsReceipt(r)
      BY AssignField DEF IsChain
    <3> HIDE DEF r
    <3>3. Len(chain') = Len(chain) /\ IsChain(chain)'
      BY <3>1, <3>2, ChainIsList, ReplaceInList, ReplaceKeepsChain
    <3> QED BY <2>2, <3>3, BoundsAssumption DEF Assign
  <2>3. ASSUME NEW i \in 1..Len(chain), AssignValue(i) PROVE TypeOK'
    BY <2>2, <2>3, AssignmentsAssumption DEF AssignValue
  <2>4. ASSUME NEW i \in 1..Len(chain), AssignDigest(i) PROVE TypeOK'
    <3>1. {"previous_hash", "receipt_hash"} \subseteq ReceiptFields
      BY DEF ReceiptFields, HashedFields, RequiredFields
    <3> QED BY <2>2, <2>4, <3>1 DEF AssignDigest
  <2>5. CASE ToList
    <3>1. Len(chain) \in Nat
      BY BoundsAssumption DEF IsChain
    <3> QED BY <2>5, <3>1 DEF ToList, IsChain
  <2>6. CASE UNCHANGED vars
    BY <2>6 DEF vars, IsChain
  <2> QED BY <2>1, <2>3, <2>4, <2>5, <2>6 DEF Next
<1> QED BY <1>1, <1>2, PTL DEF Spec

(***************************************************************************)
(* The strengthening behind the next two theorems: what append returned    *)
(* was sealed, and until somebody assigns to a field the chain is linked.  *)
(***************************************************************************)
IssuedSealed == \A i \in 1..Len(issued) : VerifyHash(issued[i])

IntactInv == IssuedSealed /\ UnalteredVerifies

(* Issued receipts verify, and so does a chain nobody altered, in every    *)
(* reachable state.                                                        *)
THEOREM IntactInvariant == Spec => []IntactInv
<1>1. Init => IntactInv
  BY DEF Init, IntactInv, IssuedSealed, UnalteredVerifies, VerifyChain
<1>2. TypeOK /\ IntactInv /\ [Next]_vars => IntactInv'
  <2> SUFFICES ASSUME TypeOK, IntactInv, [Next]_vars PROVE IntactInv'
    OBVIOUS
  <2> USE DEF IntactInv
  <2>1. ASSUME NEW args \in Calls, AppendReceipt(args) PROVE IntactInv'
    <3> DEFINE r == NewReceipt(args, LastHash(chain))
    <3>1. /\ chain' = Append(chain, r) /\ issued' = Append(issued, r)
          /\ assigns' = assigns
      BY <2>1 DEF AppendReceipt
    <3>2. VerifyHash(r) /\ r["previous_hash"] = LastHash(chain)
      BY NewReceiptSealed
    <3> HIDE DEF r
    <3>3. /\ Len(chain) \in Nat /\ Len(issued) \in Nat
          /\ IsChain(chain) /\ IsChain(issued)
      BY BoundsAssumption DEF TypeOK, IsChain
    <3>4. IssuedSealed'
      <4> SUFFICES ASSUME NEW i \in 1..(Len(issued) + 1)
                   PROVE  VerifyHash(issued'[i])
        BY <3>1, <3>3, ChainIsList, AppendToList DEF IssuedSealed
      <4>1. CASE i = Len(issued) + 1
        BY <3>1, <3>2, <3>3, <4>1, ChainIsList, AppendToList
      <4>2. CASE i \in 1..Len(issued)
        BY <3>1, <3>3, <4>2, ChainIsList, AppendToList DEF IssuedSealed
      <4> QED BY <3>3, <4>1, <4>2
    <3>5. UnalteredVerifies'
      <4> SUFFICES ASSUME assigns = 0, NEW i \in 1..(Len(chain) + 1)
                   PROVE  VerifyHash(chain'[i]) /\ Linked(chain', i)
        BY <3>1, <3>3, ChainIsList, AppendToList
           DEF UnalteredVerifies, VerifyChain
      <4>1. CASE i = Len(chain) + 1
        <5>1. chain'[i] = r /\ (i # 1 => chain'[i - 1] = chain[i - 1])
          BY <3>1, <3>3, <4>1, ChainIsList, AppendToList
        <5>2. chain = <<>> <=> i = 1
          BY <3>3, <4>1, ChainIsList, EmptyList
        <5>3. i # 1 => i - 1 = Len(chain)
          BY <3>3, <4>1
        <5> QED BY <3>2, <5>1, <5>2, <5>3 DEF Linked, LastHash
      <4>2. CASE i \in 1..Len(chain)
        <5>1. chain'[i] = chain[i] /\ (i # 1 => chain'[i - 1] = chain[i - 1])
          BY <3>1, <3>3, <4>2, ChainIsList, AppendToList
        <5>2. VerifyHash(chain[i]) /\ Linked(chain, i)
          BY <4>2 DEF UnalteredVerifies, VerifyChain
        <5> QED BY <5>1, <5>2 DEF Linked
      <4> QED BY <3>3, <4>1, <4>2
    <3> QED BY <3>4, <3>5
  <2>2. ASSUME NEW i \in 1..Len(chain), NEW f, NEW v, Assign(i, f, v)
        PROVE  IntactInv'
    <3>1. assigns' # 0 /\ issued' = issued
      BY <2>2, BoundsAssumption DEF Assign, TypeOK
    <3> QED BY <3>1 DEF IssuedSealed, UnalteredVerifies
  <2>3. CASE ToList \/ UNCHANGED vars
    BY <2>3 DEF ToList, vars, IssuedSealed, UnalteredVerifies
  <2> QED BY <2>1, <2>2, <2>3 DEF Next, AssignValue, AssignDigest
<1> QED BY <1>1, <1>2, TypeCorrect, PTL DEF Spec

(***************************************************************************)
(* verify_chain accepts whatever append built.                             *)
(***************************************************************************)
THEOREM UnalteredAccepted == Spec => []UnalteredVerifies
<1>1. IntactInv => UnalteredVerifies
  BY DEF IntactInv
<1> QED BY <1>1, IntactInvariant, PTL

(***************************************************************************)
(* verify_chain rejects a chain in which one field of one receipt differs  *)
(* from what append issued.                                                *)
(***************************************************************************)
THEOREM AlterationRejected == Spec => []SingleAlterationDetected
<1>1. TypeOK /\ IntactInv => SingleAlterationDetected
  <2> SUFFICES ASSUME TypeOK, IntactInv, NEW i \in 1..Len(chain),
                      NEW f \in ReceiptFields, Altered = {<<i, f>>},
                      VerifyChain(chain)
               PROVE  FALSE
    BY DEF SingleAlterationDetected
  <2>1. \A g \in ReceiptFields : chain[i][g] # issued[i][g] <=> g = f
    <3>1. ASSUME NEW g \in ReceiptFields
          PROVE  <<i, g>> \in Altered <=> chain[i][g] # issued[i][g]
      BY DEF Altered, TypeOK
    <3> QED BY <3>1
  <2>2. VerifyHash(chain[i]) /\ VerifyHash(issued[i])
    BY DEF VerifyChain, IntactInv, IssuedSealed, TypeOK
  <2>3. CASE f = "receipt_hash"
    <3>1. \A g \in HashedFields : chain[i][g] = issued[i][g]
      BY <2>1, <2>3 DEF ReceiptFields, HashedFields, RequiredFields, LeftOutAt
    <3> QED BY <2>1, <2>2, <2>3, <3>1, SameFieldsSameHash DEF VerifyHash
  <2>4. CASE f \in HashedFields
    <3>1. chain[i]["receipt_hash"] = issued[i]["receipt_hash"]
      BY <2>1, <2>4 DEF ReceiptFields, HashedFields, RequiredFields, LeftOutAt
    <3>2. chain[i][f] = issued[i][f]
      <4>1. ComputeHash(chain[i]) = ComputeHash(issued[i])
        BY <2>2, <3>1 DEF VerifyHash
      <4> QED BY <2>4, <4>1, HashBindsFields
    <3> QED BY <2>1, <3>2
  <2> QED BY <2>3, <2>4 DEF ReceiptFields
<1> QED BY <1>1, TypeCorrect, IntactInvariant, PTL

(***************************************************************************)
(* A kept head hash commits to the whole prefix before it.                 *)
(***************************************************************************)
THEOREM ExportFixesPrefix == Spec => []ExportedHeadFixesPrefix
<1>1. TypeOK => ExportedHeadFixesPrefix
  <2> SUFFICES ASSUME TypeOK, Len(exported) > 0, VerifyChain(exported),
                      VerifyChain(chain),
                      chain[Len(exported)]["receipt_hash"]
                        = exported[Len(exported)]["receipt_hash"]
               PROVE  \A i \in 1..Len(exported) : chain[i] = exported[i]
    BY DEF ExportedHeadFixesPrefix
  <2>1. /\ Len(exported) \in Nat \ {0} /\ Len(chain) \in Nat
        /\ Len(exported) <= Len(chain)
        /\ \A i \in 1..Len(exported) : IsReceipt(chain[i])
                                       /\ IsReceipt(exported[i])
    BY BoundsAssumption DEF TypeOK, IsChain
  <2> QED BY <2>1, HeadFixesPrefix
<1> QED BY <1>1, TypeCorrect, PTL

(***************************************************************************)
(* No two receipts of a verified chain share a hash, whatever the clock    *)
(* read.                                                                   *)
(***************************************************************************)
THEOREM HashesNeverRepeat == Spec => []HashesUnique
<1>1. TypeOK => HashesUnique
  <2>1. TypeOK => Len(chain) \in Nat
    BY BoundsAssumption DEF TypeOK, IsChain
  <2> QED BY <2>1, VerifiedHashesUnique DEF HashesUnique
<1> QED BY <1>1, TypeCorrect, PTL

-----------------------------------------------------------------------------
(***************************************************************************)
(* The numbers of an evidence pack.                                        *)
(***************************************************************************)

(***************************************************************************)
(* The numbers other than zero.                                            *)
(***************************************************************************)
NonZero(value) == Number(value) /\ value.digits # <<0>>

(***************************************************************************)
(* The digits a text has, on both sides of the point.                      *)
(***************************************************************************)
Digits(written) == written.whole \o written.fraction

(***************************************************************************)
(* The text spells the number: its digits are those of the number, m zeros *)
(* before them and any number after, and its point and exponent put the    *)
(* decimal point after the n-th.                                           *)
(***************************************************************************)
Spells(written, value, m) ==
  /\ written.kind = "number" /\ written.neg = value.neg
  /\ written.whole \in Seq(0..9) /\ written.fraction \in Seq(0..9)
  /\ Len(Digits(written)) >= m + Len(value.digits)
  /\ \A i \in 1..Len(Digits(written)) : Digits(written)[i] = Digit(value, i - m)
  /\ Len(written.whole) - m
       + (IF written.exp = <<>> THEN 0 ELSE written.exp[1]) = value.n

(***************************************************************************)
(* What JsonValues says of a number other than zero.                       *)
(***************************************************************************)
LEMMA NonZeroShape ==
  ASSUME NEW v \in JsonValues, NonZero(v)
  PROVE  /\ v.digits \in Seq(0..9) /\ Len(v.digits) \in Nat \ {0}
         /\ v.digits[1] # 0 /\ v.digits[Len(v.digits)] # 0
         /\ v.n \in Int /\ v.neg \in BOOLEAN
         /\ v.kind = "int" => Len(v.digits) <= v.n
<1>1. v.digits # <<>> /\ v.digits[1] # 0 /\ v.digits[Len(v.digits)] # 0
  BY DEF JsonValues, NonZero
<1>2. v.digits \in Seq(0..9) /\ v.n \in Int /\ v.neg \in BOOLEAN
  BY DEF JsonValues
<1>3. Len(v.digits) \in Nat \ {0}
  BY <1>1, <1>2
<1> QED BY <1>1, <1>2, <1>3 DEF JsonValues

(***************************************************************************)
(* Past its digits a number has zeros.                                     *)
(***************************************************************************)
LEMMA DigitRange ==
  ASSUME NEW v \in JsonValues, NEW i \in Int
  PROVE  /\ Digit(v, i) \in 0..9
         /\ i \in 1..Len(v.digits) => Digit(v, i) = v.digits[i]
         /\ i \notin 1..Len(v.digits) => Digit(v, i) = 0
<1>1. v.digits \in Seq(0..9)
  BY DEF JsonValues
<1> QED BY <1>1 DEF Digit

(***************************************************************************)
(* The digits before the point (str, repr).                                *)
(***************************************************************************)
LEMMA WholeShape ==
  ASSUME NEW v \in JsonValues
  PROVE  /\ Whole(v) \in Seq(0..9)
         /\ v.n >= 1 => /\ Len(Whole(v)) = v.n
                        /\ \A i \in 1..v.n : Whole(v)[i] = Digit(v, i)
         /\ v.n < 1 => Whole(v) = << 0 >>
<1>1. v.n \in Int
  BY DEF JsonValues
<1>2. CASE v.n >= 1
  <2>1. \A i \in 1..v.n : Digit(v, i) \in 0..9
    BY <1>1, DigitRange
  <2>2. Whole(v) = [i \in 1..v.n |-> Digit(v, i)]
    BY <1>2 DEF Whole
  <2>3. v.n \in Nat
    BY <1>1, <1>2
  <2>4. Whole(v) \in Seq(0..9)
    BY <2>1, <2>2, <2>3
  <2> QED BY <1>2, <2>2, <2>3, <2>4, <2>1
<1>3. CASE v.n < 1
  <2>1. Whole(v) = <<0>> /\ ~(v.n >= 1)
    BY <1>1, <1>3 DEF Whole
  <2>2. <<0>> \in Seq(0..9)
    OBVIOUS
  <2> QED BY <2>1, <2>2
<1>4. v.n >= 1 \/ v.n < 1
  BY <1>1
<1> QED BY <1>2, <1>3, <1>4

(***************************************************************************)
(* The digits after the point (str, repr).                                 *)
(***************************************************************************)
LEMMA FractionShape ==
  ASSUME NEW v \in JsonValues
  PROVE  /\ Fraction(v) \in Seq(0..9)
         /\ v.n >= Len(v.digits) => Fraction(v) = <<>>
         /\ v.n < Len(v.digits) =>
              /\ Len(Fraction(v)) = Len(v.digits) - v.n
              /\ \A i \in 1..(Len(v.digits) - v.n) :
                   Fraction(v)[i] = Digit(v, v.n + i)
<1>1. v.n \in Int /\ Len(v.digits) \in Nat
  BY DEF JsonValues
<1>2. CASE v.n < Len(v.digits)
  <2> DEFINE k == Len(v.digits) - v.n
  <2>1. k \in Nat
    BY <1>1, <1>2
  <2>2. \A i \in 1..k : Digit(v, v.n + i) \in 0..9
    <3> TAKE i \in 1..k
    <3>1. v.n + i \in Int
      BY <1>1, <2>1
    <3> QED BY <3>1, DigitRange
  <2>3. Fraction(v) = [i \in 1..k |-> Digit(v, v.n + i)]
    BY <1>1, <1>2 DEF Fraction
  <2> HIDE DEF k
  <2>4. /\ Fraction(v) \in Seq(0..9) /\ Len(Fraction(v)) = k
        /\ \A i \in 1..k : Fraction(v)[i] = Digit(v, v.n + i)
    BY <2>1, <2>2, <2>3
  <2> QED BY <1>1, <1>2, <2>4 DEF k
<1>3. CASE v.n >= Len(v.digits)
  BY <1>1, <1>3 DEF Fraction
<1> QED BY <1>1, <1>2, <1>3

(* The zeros that a number below one begins with. *)
Lead(v) == IF v.n >= 1 THEN 0 ELSE 1 - v.n

(***************************************************************************)
(* Together they are the digits of the number, after the zeros of a number *)
(* below one; the lone zero repr puts after the point of a whole number    *)
(* adds none.                                                              *)
(***************************************************************************)
LEMMA PlainDigits ==
  ASSUME NEW v \in JsonValues, NonZero(v), NEW f \in Seq(0..9),
         \/ f = Fraction(v)
         \/ f = << 0 >> /\ Fraction(v) = <<>>
  PROVE  /\ Lead(v) \in Nat /\ Len(Whole(v)) - Lead(v) = v.n
         /\ Len(Whole(v) \o f) >= Lead(v) + Len(v.digits)
         /\ \A i \in 1..Len(Whole(v) \o f) :
              (Whole(v) \o f)[i] = Digit(v, i - Lead(v))
<1> DEFINE k == Len(v.digits)
           m == Lead(v)
           all == Whole(v) \o f
<1>1. v.n \in Int /\ k \in Nat \ {0}
  BY NonZeroShape
<1>2. Whole(v) \in Seq(0..9) /\ Fraction(v) \in Seq(0..9)
  BY WholeShape, FractionShape
<1>3. /\ Len(all) = Len(Whole(v)) + Len(f)
      /\ \A i \in 1..Len(all) :
           all[i] = IF i <= Len(Whole(v)) THEN Whole(v)[i]
                    ELSE f[i - Len(Whole(v))]
  BY <1>2, ConcatProperties
<1>4. \A i \in Int : i \notin 1..k => Digit(v, i) = 0
  BY DigitRange
<1>5. CASE v.n >= k
  <2>1. Fraction(v) = <<>> /\ v.n >= 1 /\ m = 0
    BY <1>1, <1>5, FractionShape DEF Lead
  <2>2. Len(Whole(v)) = v.n /\ \A i \in 1..v.n : Whole(v)[i] = Digit(v, i)
    BY <2>1, WholeShape
  <2>3. f = <<>> \/ f = <<0>>
    BY <2>1
  <2>4. /\ Len(all) \in {v.n, v.n + 1}
        /\ \A i \in 1..Len(all) : all[i] = Digit(v, i)
    <3>1. CASE f = <<>>
      BY <1>1, <1>3, <2>2, <3>1
    <3>2. CASE f = <<0>>
      <4>1. Len(f) = 1 /\ f[1] = 0
        BY <3>2
      <4>2. Digit(v, v.n + 1) = 0
        BY <1>1, <1>4, <1>5
      <4> QED BY <1>1, <1>3, <2>2, <4>1, <4>2
    <3> QED BY <2>3, <3>1, <3>2
  <2> QED BY <1>1, <1>5, <2>1, <2>2, <2>4
<1>6. CASE v.n < k
  <2>1. /\ Len(Fraction(v)) = k - v.n
        /\ \A i \in 1..(k - v.n) : Fraction(v)[i] = Digit(v, v.n + i)
    BY <1>6, FractionShape
  <2>2. f = Fraction(v)
    <3>1. Fraction(v) # <<>>
      BY <1>1, <1>6, <2>1
    <3> QED BY <3>1
  <2>3. CASE v.n >= 1
    <3>1. Len(Whole(v)) = v.n /\ \A i \in 1..v.n : Whole(v)[i] = Digit(v, i)
      BY <2>3, WholeShape
    <3>2. ASSUME NEW i \in 1..Len(all) PROVE all[i] = Digit(v, i)
      <4>1. CASE i <= v.n
        BY <1>1, <1>3, <3>1, <4>1
      <4>2. CASE i > v.n
        <5>1. i - v.n \in 1..(k - v.n) /\ v.n + (i - v.n) = i
          BY <1>1, <1>3, <2>1, <2>2, <3>1, <4>2
        <5>2. all[i] = Fraction(v)[i - v.n]
          BY <1>1, <1>3, <2>2, <3>1, <4>2
        <5> QED BY <2>1, <5>1, <5>2
      <4> QED BY <1>1, <1>3, <2>1, <2>2, <3>1, <4>1, <4>2
    <3>3. Len(all) = k /\ m = 0
      BY <1>1, <1>3, <2>1, <2>2, <2>3, <3>1 DEF Lead
    <3>4. \A i \in 1..Len(all) : i - m = i
      BY <3>3, <1>1
    <3> QED BY <1>1, <3>1, <3>2, <3>3, <3>4
  <2>4. CASE v.n < 1
    <3>1. Whole(v) = <<0>> /\ Len(Whole(v)) = 1 /\ Whole(v)[1] = 0
      BY <2>4, WholeShape
    <3>2. m = 1 - v.n /\ m \in Nat \ {0} /\ Len(all) = m + k
      BY <1>1, <1>3, <2>1, <2>2, <2>4, <3>1 DEF Lead
    <3> HIDE DEF m, all
    <3>3. ASSUME NEW i \in 1..Len(all) PROVE all[i] = Digit(v, i - m)
      <4>1. CASE i = 1
        BY <1>1, <1>3, <1>4, <3>1, <3>2, <4>1
      <4>2. CASE i > 1
        <5>1. i - 1 \in 1..(k - v.n) /\ v.n + (i - 1) = i - m
          BY <1>1, <3>2, <4>2
        <5>2. all[i] = Fraction(v)[i - 1]
          BY <1>1, <1>3, <2>2, <3>1, <3>2, <4>2
        <5> QED BY <2>1, <5>1, <5>2
      <4> QED BY <1>1, <3>2, <4>1, <4>2
    <3>4. Len(Whole(v)) - m = v.n /\ Len(all) >= m + k
      BY <1>1, <3>1, <3>2
    <3> QED BY <3>2, <3>3, <3>4 DEF m, all
  <2> QED BY <1>1, <2>3, <2>4
<1>7. v.n >= k \/ v.n < k
  BY <1>1
<1> QED BY <1>5, <1>6, <1>7

(***************************************************************************)
(* With an exponent, there is one digit before the point.                  *)
(***************************************************************************)
LEMMA ExponentDigits ==
  ASSUME NEW v \in JsonValues, NonZero(v)
  PROVE  /\ <<Head(v.digits)>> \in Seq(0..9) /\ Tail(v.digits) \in Seq(0..9)
         /\ Len(<<Head(v.digits)>> \o Tail(v.digits)) = Len(v.digits)
         /\ \A i \in 1..Len(<<Head(v.digits)>> \o Tail(v.digits)) :
              (<<Head(v.digits)>> \o Tail(v.digits))[i] = Digit(v, i)
<1>1. v.digits \in Seq(0..9) /\ v.digits # <<>>
  BY NonZeroShape
<1>2. Head(v.digits) \in 0..9 /\ Tail(v.digits) \in Seq(0..9)
  BY <1>1, HeadTailProperties
<1>3. <<Head(v.digits)>> \o Tail(v.digits) = v.digits
  BY <1>1
<1>4. \A i \in 1..Len(v.digits) : v.digits[i] = Digit(v, i)
  BY <1>1, DigitRange
<1> QED BY <1>2, <1>3, <1>4

(***************************************************************************)
(* repr of a float spells the float.                                       *)
(***************************************************************************)
LEMMA PythonFloatSpells ==
  ASSUME NEW v \in JsonValues, NonZero(v)
  PROVE  \E m \in Nat : Spells(PythonFloat(v), v, m)
<1>1. v.n \in Int /\ Number(v)
  BY NonZeroShape DEF NonZero
<1>2. CASE -4 < v.n /\ v.n <= 16
  <2> DEFINE f == IF Fraction(v) = <<>> THEN <<0>> ELSE Fraction(v)
             m == Lead(v)
  <2>1. f \in Seq(0..9)
    <3>1. <<0>> \in Seq(0..9)
      OBVIOUS
    <3> QED BY <3>1, FractionShape
  <2>2. f = Fraction(v) \/ (f = <<0>> /\ Fraction(v) = <<>>)
    OBVIOUS
  <2>3. PythonFloat(v) = [kind |-> "number", neg |-> v.neg, whole |-> Whole(v),
                          fraction |-> f, exp |-> <<>>]
    BY <1>1, <1>2 DEF PythonFloat, Written
  <2> HIDE DEF f
  <2>4. /\ m \in Nat /\ Len(Whole(v)) - m = v.n
        /\ Len(Whole(v) \o f) >= m + Len(v.digits)
        /\ \A i \in 1..Len(Whole(v) \o f) : (Whole(v) \o f)[i] = Digit(v, i - m)
    BY <2>1, <2>2, PlainDigits
  <2> HIDE DEF m
  <2>5. Whole(v) \in Seq(0..9)
    BY WholeShape
  <2>6. Len(Whole(v)) - m + 0 = v.n
    BY <2>4, <1>1
  <2>7. Digits(PythonFloat(v)) = Whole(v) \o f
    BY <2>3 DEF Digits
  <2>8. Spells(PythonFloat(v), v, m)
    BY <2>1, <2>3, <2>4, <2>5, <2>6, <2>7 DEF Spells
  <2> QED BY <2>4, <2>8
<1>3. CASE ~(-4 < v.n /\ v.n <= 16)
  <2> DEFINE w == <<Head(v.digits)>>
             f == Tail(v.digits)
             z == IF v.n - 1 \in -9..9 THEN 1 ELSE 0
  <2>1. PythonFloat(v) = [kind |-> "number", neg |-> v.neg, whole |-> w,
                          fraction |-> f, exp |-> <<v.n - 1, z>>]
    BY <1>1, <1>3 DEF PythonFloat, Written
  <2>2. /\ w \in Seq(0..9) /\ f \in Seq(0..9)
        /\ Len(w \o f) = Len(v.digits)
        /\ \A i \in 1..Len(w \o f) : (w \o f)[i] = Digit(v, i)
    BY ExponentDigits
  <2>3. Len(w) = 1
    OBVIOUS
  <2>4. <<v.n - 1, z>> # <<>> /\ <<v.n - 1, z>>[1] = v.n - 1
    OBVIOUS
  <2> HIDE DEF w, f, z
  <2>5. \A i \in 1..Len(w \o f) : i - 0 = i
    BY <2>2
  <2>6. Len(w) - 0 + (v.n - 1) = v.n
    BY <1>1, <2>3
  <2>7. Len(w \o f) >= 0 + Len(v.digits)
    BY <2>2, NonZeroShape
  <2>8. Spells(PythonFloat(v), v, 0)
    BY <2>1, <2>2, <2>4, <2>5, <2>6, <2>7 DEF Spells, Digits
  <2> QED BY <2>8
<1> QED BY <1>2, <1>3

(***************************************************************************)
(* str of an int spells the int.                                           *)
(***************************************************************************)
LEMMA PythonIntSpells ==
  ASSUME NEW v \in JsonValues, NonZero(v), v.kind = "int"
  PROVE  Spells(PythonInt(v), v, 0)
<1>1. v.n \in Int /\ Number(v) /\ Len(v.digits) \in Nat \ {0} /\ v.n >= Len(v.digits)
  BY NonZeroShape DEF NonZero
<1>2. Fraction(v) = <<>> /\ v.n >= 1
  BY <1>1, FractionShape
<1>3. PythonInt(v) = [kind |-> "number", neg |-> v.neg, whole |-> Whole(v),
                      fraction |-> Fraction(v), exp |-> <<>>]
  BY <1>1, <1>2 DEF PythonInt, Written
<1>4. /\ Len(Whole(v)) - 0 = v.n
      /\ Len(Whole(v) \o Fraction(v)) >= 0 + Len(v.digits)
      /\ \A i \in 1..Len(Whole(v) \o Fraction(v)) :
           (Whole(v) \o Fraction(v))[i] = Digit(v, i - 0)
  <2>1. Lead(v) = 0
    BY <1>2 DEF Lead
  <2> QED BY <2>1, FractionShape, PlainDigits
<1>5. Whole(v) \in Seq(0..9) /\ Fraction(v) \in Seq(0..9)
  BY WholeShape, FractionShape
<1>6. Len(Whole(v)) - 0 + 0 = v.n
  BY <1>1, <1>4
<1> QED BY <1>3, <1>4, <1>5, <1>6 DEF Spells, Digits

(***************************************************************************)
(* Number::toString spells the number.                                     *)
(***************************************************************************)
LEMMA EcmaSpells ==
  ASSUME NEW v \in JsonValues, NonZero(v)
  PROVE  \E m \in Nat : Spells(EcmaText(v), v, m)
<1>1. v.n \in Int /\ Number(v)
  BY NonZeroShape DEF NonZero
<1>2. CASE v.n \in -5..21
  <2> DEFINE m == Lead(v)
  <2>1. EcmaText(v) = [kind |-> "number", neg |-> v.neg, whole |-> Whole(v),
                       fraction |-> Fraction(v), exp |-> <<>>]
    BY <1>1, <1>2 DEF EcmaText, Written, NonZero
  <2>2. /\ m \in Nat /\ Len(Whole(v)) - m = v.n
        /\ Len(Whole(v) \o Fraction(v)) >= m + Len(v.digits)
        /\ \A i \in 1..Len(Whole(v) \o Fraction(v)) :
             (Whole(v) \o Fraction(v))[i] = Digit(v, i - m)
    BY FractionShape, PlainDigits
  <2> HIDE DEF m
  <2>3. Whole(v) \in Seq(0..9) /\ Fraction(v) \in Seq(0..9)
    BY WholeShape, FractionShape
  <2>4. Len(Whole(v)) - m + 0 = v.n
    BY <1>1, <2>2
  <2>5. Spells(EcmaText(v), v, m)
    BY <2>1, <2>2, <2>3, <2>4 DEF Spells, Digits
  <2> QED BY <2>2, <2>5
<1>3. CASE v.n \notin -5..21
  <2> DEFINE w == <<Head(v.digits)>>
             f == Tail(v.digits)
  <2>1. EcmaText(v) = [kind |-> "number", neg |-> v.neg, whole |-> w,
                       fraction |-> f, exp |-> <<v.n - 1, 0>>]
    BY <1>1, <1>3 DEF EcmaText, Written, NonZero
  <2>2. /\ w \in Seq(0..9) /\ f \in Seq(0..9)
        /\ Len(w \o f) = Len(v.digits)
        /\ \A i \in 1..Len(w \o f) : (w \o f)[i] = Digit(v, i)
    BY ExponentDigits
  <2>3. Len(w) = 1
    OBVIOUS
  <2>4. <<v.n - 1, 0>> # <<>> /\ <<v.n - 1, 0>>[1] = v.n - 1
    OBVIOUS
  <2> HIDE DEF w, f
  <2>5. \A i \in 1..Len(w \o f) : i - 0 = i
    BY <2>2
  <2>6. Len(w) - 0 + (v.n - 1) = v.n
    BY <1>1, <2>3
  <2>7. Len(w \o f) >= 0 + Len(v.digits)
    BY <2>2, NonZeroShape
  <2>8. Spells(EcmaText(v), v, 0)
    BY <2>1, <2>2, <2>4, <2>5, <2>6, <2>7 DEF Spells, Digits
  <2> QED BY <2>8
<1> QED BY <1>2, <1>3

(***************************************************************************)
(* A text spells no two numbers.                                           *)
(***************************************************************************)
LEMMA SpelledOnce ==
  ASSUME NEW v \in JsonValues, NEW u \in JsonValues, NonZero(v), NonZero(u),
         NEW w, NEW m \in Nat, NEW l \in Nat,
         Spells(w, v, m), Spells(w, u, l)
  PROVE  v.neg = u.neg /\ v.digits = u.digits /\ v.n = u.n /\ l = m
<1> DEFINE all == Digits(w)
           k == Len(v.digits)
           h == Len(u.digits)
<1>1. /\ k \in Nat \ {0} /\ h \in Nat \ {0}
      /\ v.digits \in Seq(0..9) /\ u.digits \in Seq(0..9)
      /\ v.digits[1] # 0 /\ v.digits[k] # 0 /\ u.digits[1] # 0 /\ u.digits[h] # 0
  <2>1. /\ k \in Nat \ {0} /\ v.digits \in Seq(0..9)
        /\ v.digits[1] # 0 /\ v.digits[k] # 0
    BY NonZeroShape
  <2>2. /\ h \in Nat \ {0} /\ u.digits \in Seq(0..9)
        /\ u.digits[1] # 0 /\ u.digits[h] # 0
    BY NonZeroShape
  <2> QED BY <2>1, <2>2
<1>2. /\ \A i \in 1..Len(all) : all[i] = Digit(v, i - m)
      /\ \A i \in 1..Len(all) : all[i] = Digit(u, i - l)
      /\ Len(all) >= m + k /\ Len(all) >= l + h /\ Len(all) \in Nat
  <2>1. all \in Seq(0..9)
    BY ConcatProperties DEF Spells, Digits
  <2> QED BY <2>1 DEF Spells
<1>3. /\ \A i \in Int : i \notin 1..k => Digit(v, i) = 0
      /\ \A i \in Int : i \notin 1..h => Digit(u, i) = 0
      /\ \A i \in 1..k : Digit(v, i) = v.digits[i]
      /\ \A i \in 1..h : Digit(u, i) = u.digits[i]
  BY DigitRange
<1> HIDE DEF all, k, h
<1>4. /\ m + 1 \in 1..Len(all) /\ l + 1 \in 1..Len(all)
      /\ m + k \in 1..Len(all) /\ l + h \in 1..Len(all)
  BY <1>1, <1>2
<1>5. /\ Digit(v, 1) # 0 /\ Digit(v, k) # 0
      /\ Digit(u, 1) # 0 /\ Digit(u, h) # 0
  BY <1>1, <1>3
<1>6. /\ all[m + 1] # 0 /\ all[m + k] # 0
      /\ all[l + 1] # 0 /\ all[l + h] # 0
  <2>1. (m + 1) - m = 1 /\ (m + k) - m = k /\ (l + 1) - l = 1 /\ (l + h) - l = h
    BY <1>1
  <2> QED BY <1>2, <1>4, <1>5, <2>1
<1>7. /\ (m + 1) - l \in 1..h /\ (m + k) - l \in 1..h
      /\ (l + 1) - m \in 1..k /\ (l + h) - m \in 1..k
  <2>1. Digit(u, (m + 1) - l) # 0 /\ Digit(u, (m + k) - l) # 0
    BY <1>2, <1>4, <1>6
  <2>2. Digit(v, (l + 1) - m) # 0 /\ Digit(v, (l + h) - m) # 0
    BY <1>2, <1>4, <1>6
  <2>3. /\ (m + 1) - l \in Int /\ (m + k) - l \in Int
        /\ (l + 1) - m \in Int /\ (l + h) - m \in Int
    BY <1>1
  <2> QED BY <1>3, <2>1, <2>2, <2>3
<1>8. l = m /\ h = k
  BY <1>1, <1>7
<1>9. \A i \in 1..k : v.digits[i] = u.digits[i]
  <2> TAKE i \in 1..k
  <2>1. i + m \in 1..Len(all) /\ (i + m) - m = i
    BY <1>1, <1>2
  <2>2. Digit(v, i) = Digit(u, i)
    BY <1>2, <1>8, <2>1
  <2> QED BY <1>3, <1>8, <2>2
<1>10. v.digits = u.digits
  BY <1>1, <1>8, <1>9 DEF h, k
<1>11. v.n = u.n /\ v.neg = u.neg
  BY <1>8 DEF Spells
<1> QED BY <1>8, <1>10, <1>11

(***************************************************************************)
(* Of a text that spells a number, _es_number_to_string keeps the number's *)
(* own digits: what Decimal drops before them and what the loop folds into *)
(* the exponent after them are the zeros.                                  *)
(***************************************************************************)
LEMMA ReadBack ==
  ASSUME NEW v \in JsonValues, NonZero(v), NEW w, NEW m \in Nat, Spells(w, v, m)
  PROVE  /\ Len(Significant(w)) = Len(Digits(w)) - m
         /\ Trailing(Significant(w)) = Len(Digits(w)) - m - Len(v.digits)
         /\ SubSeq(Significant(w), 1,
                   Len(Significant(w)) - (Len(Digits(w)) - m - Len(v.digits)))
              = v.digits
<1> DEFINE all == Digits(w)
           k == Len(v.digits)
           L == Len(all)
           t == L - m - k
           s == SubSeq(all, m + 1, L)
<1>1. k \in Nat \ {0} /\ v.digits \in Seq(0..9) /\ v.digits[1] # 0 /\ v.digits[k] # 0
  BY NonZeroShape
<1>2. /\ all \in Seq(0..9) /\ L \in Nat /\ L >= m + k
      /\ \A i \in 1..L : all[i] = Digit(v, i - m)
  <2>1. all \in Seq(0..9)
    BY ConcatProperties DEF Spells, Digits
  <2> QED BY <2>1 DEF Spells
<1>3. /\ \A i \in Int : i \notin 1..k => Digit(v, i) = 0
      /\ \A i \in 1..k : Digit(v, i) = v.digits[i]
  BY DigitRange
<1> HIDE DEF all, k
<1>4. m + 1 \in 1..L /\ t \in Nat
  BY <1>1, <1>2
<1>5. all[m + 1] # 0 /\ \A j \in 1..m : all[j] = 0
  <2>1. all[m + 1] = Digit(v, 1)
    <3>1. (m + 1) - m = 1
      OBVIOUS
    <3> QED BY <1>2, <1>4, <3>1
  <2>2. Digit(v, 1) # 0
    BY <1>1, <1>3
  <2>3. ASSUME NEW j \in 1..m PROVE all[j] = 0
    <3>1. j \in 1..L /\ j - m \in Int /\ j - m \notin 1..k
      BY <1>1, <1>2
    <3> QED BY <1>2, <1>3, <3>1
  <2> QED BY <2>1, <2>2, <2>3
<1>6. Significant(w) = s
  <2> DEFINE First(i) == all[i] # 0 /\ \A j \in 1..(i - 1) : all[j] = 0
  <2>1. DOMAIN all = 1..L
    BY <1>2
  <2>2. First(m + 1)
    BY <1>5
  <2>3. ASSUME NEW i \in 1..L, First(i) PROVE i = m + 1
    <3>1. ~(i < m + 1)
      BY <1>5, <2>3
    <3>2. ~(i > m + 1)
      <4>1. i > m + 1 => m + 1 \in 1..(i - 1)
        OBVIOUS
      <4> QED BY <1>5, <2>3, <4>1
    <3> QED BY <3>1, <3>2
  <2> HIDE DEF First
  <2>4. (CHOOSE i \in 1..L : First(i)) = m + 1
    BY <1>4, <2>2, <2>3
  <2>5. Significant(w) = SubSeq(all, CHOOSE i \in DOMAIN all : First(i), L)
    BY DEF Significant, First, all, Digits
  <2> QED BY <2>1, <2>4, <2>5
<1>7. /\ s \in Seq(0..9) /\ Len(s) = L - m
      /\ \A i \in 1..(L - m) : s[i] = Digit(v, i)
  <2>1. s \in Seq(0..9) /\ Len(s) = L - m
        /\ \A i \in 1..(L - m) : s[i] = all[m + i]
    BY <1>2, <1>4, SubSeqProperties
  <2>2. ASSUME NEW i \in 1..(L - m) PROVE s[i] = Digit(v, i)
    <3>1. m + i \in 1..L /\ (m + i) - m = i
      BY <1>2
    <3> QED BY <1>2, <2>1, <3>1
  <2> QED BY <2>1, <2>2
<1> HIDE DEF s
<1>8. Trailing(s) = t
  <2> DEFINE Ends(q) == /\ s[Len(s) - q] # 0
                        /\ \A j \in (Len(s) - q + 1)..Len(s) : s[j] = 0
  <2>1. t \in 0..(Len(s) - 1) /\ Len(s) - t = k
    BY <1>1, <1>2, <1>4, <1>7
  <2>2. s[k] # 0 /\ \A j \in (k + 1)..Len(s) : s[j] = 0
    <3>1. k \in 1..(L - m)
      BY <1>1, <1>2
    <3>2. s[k] # 0
      BY <1>1, <1>3, <1>7, <3>1
    <3>3. ASSUME NEW j \in (k + 1)..Len(s) PROVE s[j] = 0
      <4>1. j \in 1..(L - m) /\ j \notin 1..k
        BY <1>1, <1>7
      <4> QED BY <1>3, <1>7, <4>1
    <3> QED BY <3>2, <3>3
  <2>3. Ends(t)
    BY <2>1, <2>2
  <2>4. ASSUME NEW q \in 0..(Len(s) - 1), Ends(q) PROVE q = t
    <3>1. Len(s) \in Nat /\ k \in Nat
      BY <1>1, <1>7
    <3>2. ~(q < t)
      <4>1. q < t => Len(s) - q \in (k + 1)..Len(s)
        BY <2>1, <3>1
      <4> QED BY <2>2, <2>4, <4>1
    <3>3. ~(q > t)
      <4>1. q > t => k \in (Len(s) - q + 1)..Len(s)
        BY <2>1, <3>1
      <4> QED BY <2>2, <2>4, <4>1
    <3> QED BY <1>4, <3>2, <3>3
  <2>5. Trailing(s) = CHOOSE q \in 0..(Len(s) - 1) : Ends(q)
    BY DEF Trailing
  <2> HIDE DEF Ends
  <2> QED BY <2>1, <2>3, <2>4, <2>5
<1>9. SubSeq(s, 1, Len(s) - t) = v.digits
  <2>1. Len(s) - t = k /\ k \in 1..Len(s)
    BY <1>1, <1>2, <1>7
  <2>2. /\ SubSeq(s, 1, k) \in Seq(0..9) /\ Len(SubSeq(s, 1, k)) = k
        /\ \A i \in 1..k : SubSeq(s, 1, k)[i] = s[i]
    BY <1>7, <2>1
  <2>3. \A i \in 1..k : s[i] = v.digits[i]
    BY <1>1, <1>2, <1>3, <1>7
  <2>4. SubSeq(s, 1, k) = v.digits
    BY <1>1, <2>2, <2>3 DEF k
  <2> QED BY <2>1, <2>4
<1> QED BY <1>6, <1>7, <1>8, <1>9 DEF all, k

(***************************************************************************)
(* Given the digits and the place of the point, _es_number_to_string       *)
(* writes what ECMAScript writes.                                          *)
(***************************************************************************)
LEMMA LayoutIsEcmaText ==
  ASSUME NEW v \in JsonValues, NonZero(v)
  PROVE  Layout(v, v.digits, v.n) = EcmaText(v)
<1> DEFINE d == v.digits
           k == Len(d)
<1>1. v.n \in Int /\ k \in Nat \ {0}
  BY NonZeroShape
<1>2. d \in Seq(0..9)
  BY NonZeroShape
<1>3. Number(v) /\ v.digits # <<0>>
  BY DEF NonZero
<1>4. \A i \in Int : /\ i \in 1..k => Digit(v, i) = d[i]
                     /\ i \notin 1..k => Digit(v, i) = 0
  BY DigitRange
<1>5. v.n \in -5..21 => EcmaText(v) = Written(v, Whole(v), Fraction(v), <<>>)
  BY <1>3 DEF EcmaText
<1>6. v.n \notin -5..21 =>
        EcmaText(v) = Written(v, <<Head(d)>>, Tail(d), <<v.n - 1, 0>>)
  BY <1>3 DEF EcmaText
<1>7. \A n \in Int : (-5 <= n /\ n <= 21) <=> n \in -5..21
  OBVIOUS
<1>8. SUFFICES Layout(v, d, v.n) = EcmaText(v)
  OBVIOUS
<1>9. Fraction(v) \in Seq(0..9) /\ Whole(v) \in Seq(0..9)
  BY FractionShape, WholeShape
<1>10. /\ v.n >= k => Fraction(v) = <<>>
       /\ v.n < k => /\ Len(Fraction(v)) = k - v.n
                     /\ \A i \in 1..(k - v.n) : Fraction(v)[i] = Digit(v, v.n + i)
       /\ v.n >= 1 => /\ Len(Whole(v)) = v.n
                      /\ \A i \in 1..v.n : Whole(v)[i] = Digit(v, i)
       /\ v.n < 1 => Whole(v) = <<0>>
  BY FractionShape, WholeShape
<1> HIDE DEF d, k
<1>11. CASE k <= v.n /\ v.n <= 21
  <2> DEFINE w == d \o Zeros(v.n - k)
  <2>1. Layout(v, d, v.n) = Written(v, w, <<>>, <<>>)
    BY <1>1, <1>11 DEF Layout, k
  <2>2. v.n - k \in Nat
    BY <1>1, <1>11
  <2>3. /\ Zeros(v.n - k) \in Seq(0..9) /\ Len(Zeros(v.n - k)) = v.n - k
        /\ \A i \in 1..(v.n - k) : Zeros(v.n - k)[i] = 0
    BY <2>2 DEF Zeros
  <2>4. /\ w \in Seq(0..9) /\ Len(w) = v.n
        /\ \A i \in 1..v.n : w[i] = IF i <= k THEN d[i] ELSE Zeros(v.n - k)[i - k]
    <3>1. /\ w \in Seq(0..9) /\ Len(w) = k + (v.n - k)
          /\ \A i \in 1..(k + (v.n - k)) :
               w[i] = IF i <= k THEN d[i] ELSE Zeros(v.n - k)[i - k]
      BY <1>2, <2>3, ConcatProperties DEF k
    <3>2. k + (v.n - k) = v.n
      BY <1>1
    <3> QED BY <3>1, <3>2
  <2>5. ASSUME NEW i \in 1..v.n PROVE w[i] = Digit(v, i)
    <3>1. i \in Int /\ (i <= k => i \in 1..k)
          /\ (~(i <= k) => i - k \in 1..(v.n - k) /\ i \notin 1..k)
      BY <1>1, <1>11
    <3> QED BY <1>4, <2>3, <2>4, <3>1
  <2>6. Fraction(v) = <<>> /\ v.n >= 1
    BY <1>1, <1>11, <1>9, <1>10
  <2>7. /\ Whole(v) \in Seq(0..9) /\ Len(Whole(v)) = v.n
        /\ \A i \in 1..v.n : Whole(v)[i] = Digit(v, i)
    BY <2>6, <1>9, <1>10
  <2> HIDE DEF w
  <2>8. w = Whole(v)
    BY <2>4, <2>5, <2>7
  <2>9. v.n \in -5..21
    BY <1>1, <1>11, <1>7
  <2> QED BY <1>5, <2>1, <2>6, <2>8, <2>9
<1>12. CASE v.n < k /\ 0 < v.n /\ v.n <= 21
  <2> DEFINE w == SubSeq(d, 1, v.n)
             f == SubSeq(d, v.n + 1, k)
  <2>1. Layout(v, d, v.n) = Written(v, w, f, <<>>)
    BY <1>1, <1>12 DEF Layout, k
  <2>2. /\ w \in Seq(0..9) /\ Len(w) = v.n /\ \A i \in 1..v.n : w[i] = d[i]
    BY <1>1, <1>2, <1>12 DEF k
  <2>3. /\ f \in Seq(0..9) /\ Len(f) = k - v.n
        /\ \A i \in 1..(k - v.n) : f[i] = d[v.n + i]
    <3>1. v.n + 1 \in 1..k /\ k - (v.n + 1) + 1 = k - v.n
      BY <1>1, <1>12
    <3>2. /\ f \in Seq(0..9) /\ Len(f) = k - (v.n + 1) + 1
          /\ \A i \in 1..(k - (v.n + 1) + 1) : f[i] = d[(v.n + 1) + i - 1]
      <4>1. \A i \in (v.n + 1)..k : d[i] \in 0..9
        BY <1>1, <1>2, <3>1 DEF k
      <4>2. v.n + 1 \in Int /\ k \in Int /\ v.n + 1 <= k
        BY <1>1, <3>1
      <4> QED BY <4>1, <4>2, SubSeqProperties
    <3>3. \A i \in Int : (v.n + 1) + i - 1 = v.n + i
      BY <1>1
    <3> QED BY <1>1, <3>1, <3>2, <3>3
  <2>4. /\ Whole(v) \in Seq(0..9) /\ Len(Whole(v)) = v.n
        /\ \A i \in 1..v.n : Whole(v)[i] = Digit(v, i)
    BY <1>1, <1>12, <1>9, <1>10
  <2>5. /\ Fraction(v) \in Seq(0..9) /\ Len(Fraction(v)) = k - v.n
        /\ \A i \in 1..(k - v.n) : Fraction(v)[i] = Digit(v, v.n + i)
    BY <1>1, <1>12, <1>9, <1>10
  <2>6. \A i \in 1..v.n : Digit(v, i) = d[i]
    BY <1>1, <1>4, <1>12
  <2>7. \A i \in 1..(k - v.n) : Digit(v, v.n + i) = d[v.n + i]
    <3> TAKE i \in 1..(k - v.n)
    <3>1. v.n + i \in 1..k
      BY <1>1, <1>12
    <3> QED BY <1>4, <3>1
  <2> HIDE DEF w, f
  <2>8. w = Whole(v)
    BY <2>2, <2>4, <2>6
  <2>9. f = Fraction(v)
    BY <2>3, <2>5, <2>7
  <2>10. v.n \in -5..21
    BY <1>1, <1>12, <1>7
  <2> QED BY <1>5, <2>1, <2>8, <2>9, <2>10
<1>13. CASE -6 < v.n /\ v.n <= 0
  <2> DEFINE z == Zeros(-v.n)
             f == z \o d
  <2>1. Layout(v, d, v.n) = Written(v, <<0>>, f, <<>>)
    BY <1>1, <1>13 DEF Layout, k
  <2>2. -v.n \in Nat
    BY <1>1, <1>13
  <2>3. z \in Seq(0..9) /\ Len(z) = -v.n /\ \A i \in 1..(-v.n) : z[i] = 0
    BY <2>2 DEF Zeros
  <2> HIDE DEF z
  <2>4. /\ f \in Seq(0..9) /\ Len(f) = k - v.n
        /\ \A i \in 1..(k - v.n) : f[i] = IF i <= -v.n THEN z[i] ELSE d[i - (-v.n)]
    <3>1. /\ f \in Seq(0..9) /\ Len(f) = -v.n + k
          /\ \A i \in 1..(-v.n + k) :
               f[i] = IF i <= -v.n THEN z[i] ELSE d[i - (-v.n)]
      BY <1>2, <2>3, ConcatProperties DEF k
    <3>2. -v.n + k = k - v.n
      BY <1>1
    <3> QED BY <3>1, <3>2
  <2>5. /\ Fraction(v) \in Seq(0..9) /\ Len(Fraction(v)) = k - v.n
        /\ \A i \in 1..(k - v.n) : Fraction(v)[i] = Digit(v, v.n + i)
    BY <1>1, <1>13, <1>9, <1>10
  <2>6. ASSUME NEW i \in 1..(k - v.n) PROVE f[i] = Digit(v, v.n + i)
    <3>1. CASE i <= -v.n
      <4>1. i \in 1..(-v.n) /\ v.n + i \in Int /\ v.n + i \notin 1..k
        BY <1>1, <1>13, <3>1
      <4> QED BY <1>4, <2>3, <2>4, <3>1, <4>1
    <3>2. CASE ~(i <= -v.n)
      <4>1. v.n + i \in 1..k /\ i - (-v.n) = v.n + i
        BY <1>1, <1>13, <3>2
      <4> QED BY <1>4, <2>4, <3>2, <4>1
    <3> QED BY <3>1, <3>2
  <2> HIDE DEF f
  <2>7. f = Fraction(v)
    BY <2>4, <2>5, <2>6
  <2>8. Whole(v) = <<0>>
    BY <1>1, <1>13, <1>9, <1>10
  <2>9. v.n \in -5..21
    BY <1>1, <1>13, <1>7
  <2> QED BY <1>5, <2>1, <2>7, <2>8, <2>9
<1>14. CASE v.n \notin -5..21
  <2>1. Layout(v, d, v.n) = Written(v, <<d[1]>>, Tail(d), <<v.n - 1, 0>>)
    <3>1. /\ ~(k <= v.n /\ v.n <= 21)
          /\ ~(v.n < k /\ 0 < v.n /\ v.n <= 21)
          /\ ~(-6 < v.n /\ v.n <= 0)
      BY <1>1, <1>14, <1>7
    <3> QED BY <3>1 DEF Layout, k
  <2>2. Head(d) = d[1]
    BY <1>2, <1>1 DEF k
  <2> QED BY <1>6, <1>14, <2>1, <2>2
<1> QED BY <1>1, <1>11, <1>12, <1>13, <1>14

(***************************************************************************)
(* _es_number_to_string, which starts from Python's repr, is ECMAScript's  *)
(* Number::toString.                                                       *)
(***************************************************************************)
LEMMA EsNumberToStringIsEcmaText ==
  ASSUME NEW v \in JsonValues, NonZero(v)
  PROVE  EsNumberToString(v) = EcmaText(v)
<1> DEFINE w == PythonFloat(v)
           digits == Significant(w)
           t == Trailing(digits)
           s == SubSeq(digits, 1, Len(digits) - t)
<1>1. PICK m \in Nat : Spells(w, v, m)
  BY PythonFloatSpells
<1>2. /\ Len(digits) = Len(Digits(w)) - m
      /\ t = Len(Digits(w)) - m - Len(v.digits)
      /\ SubSeq(digits, 1, Len(digits) - (Len(Digits(w)) - m - Len(v.digits)))
           = v.digits
  BY <1>1, ReadBack
<1>3. s = v.digits
  BY <1>2
<1>4. Exponent(w) + t + Len(s) = v.n
  <2> DEFINE e == IF w.exp = <<>> THEN 0 ELSE w.exp[1]
  <2>1. w.whole \in Seq(0..9) /\ w.fraction \in Seq(0..9)
    BY <1>1 DEF Spells
  <2>2. Len(w.whole) - m + e = v.n
    BY <1>1 DEF Spells
  <2>3. /\ Len(Digits(w)) = Len(w.whole) + Len(w.fraction)
        /\ Len(w.whole) \in Nat /\ Len(w.fraction) \in Nat
    BY <2>1, ConcatProperties DEF Digits
  <2>4. e \in Int
    BY NonZeroShape DEF PythonFloat, Written
  <2>5. Exponent(w) = e - Len(w.fraction)
    BY DEF Exponent
  <2>6. Len(v.digits) \in Nat
    BY NonZeroShape
  <2> HIDE DEF e, w, s, digits, t
  <2>7. \A a, b, k \in Nat : (e - b) + (a + b - m - k) + k = a - m + e
    BY <2>4
  <2>8. t = Len(w.whole) + Len(w.fraction) - m - Len(v.digits)
    BY <1>2, <2>3
  <2>9. (e - Len(w.fraction))
          + (Len(w.whole) + Len(w.fraction) - m - Len(v.digits)) + Len(v.digits)
          = Len(w.whole) - m + e
    BY <2>3, <2>6, <2>7
  <2> QED BY <1>3, <2>5, <2>2, <2>8, <2>9
<1>5. EsNumberToString(v) = Layout(v, s, Exponent(w) + t + Len(s))
  BY DEF EsNumberToString
<1> HIDE DEF w, digits, t, s
<1> QED BY <1>3, <1>4, <1>5, LayoutIsEcmaText

(***************************************************************************)
(* Every value canonicalize accepts is written as ECMAScript writes it: a  *)
(* float of any size, and the ints up to 2^53 - 1 (_serialize, jcs.py).    *)
(***************************************************************************)
THEOREM SerializeIsEcmaScript ==
  ASSUME NEW v \in JsonValues, ~Raises(v)
  PROVE  Serialize(v) = EcmaText(v)
<1>1. CASE v.kind = "int"
  <2>1. Serialize(v) = PythonInt(v) /\ Number(v)
    BY <1>1 DEF Serialize, Number
  <2>2. CASE v.digits = <<0>>
    <3>1. EcmaText(v) = [PythonInt(v) EXCEPT !.neg = FALSE]
      BY <2>1, <2>2 DEF EcmaText
    <3>2. v.neg = FALSE
      BY <1>1, <2>2 DEF JsonValues
    <3> QED BY <2>1, <3>1, <3>2 DEF PythonInt, Written
  <2>3. CASE v.digits # <<0>>
    <3>1. NonZero(v)
      BY <2>1, <2>3 DEF NonZero
    <3>2. v.n \in Int /\ Len(v.digits) \in Nat \ {0} /\ Len(v.digits) <= v.n
      BY <1>1, <3>1, NonZeroShape
    <3>3. ~(v.n > 16)
      BY <1>1 DEF Raises
    <3>4. v.n \in -5..21 /\ v.n >= Len(v.digits)
      <4>1. \A n \in Int, k \in Nat \ {0} : k <= n /\ ~(n > 16) => n \in -5..21
        OBVIOUS
      <4> QED BY <3>2, <3>3, <4>1
    <3>5. Fraction(v) = <<>>
      BY <3>4, FractionShape
    <3>6. EcmaText(v) = Written(v, Whole(v), Fraction(v), <<>>)
      BY <2>1, <2>3, <3>4 DEF EcmaText
    <3> QED BY <2>1, <3>5, <3>6 DEF PythonInt
  <2> QED BY <2>2, <2>3
<1>2. CASE v.kind = "float"
  <2>1. Number(v)
    BY <1>2 DEF Number
  <2>2. CASE v.digits = <<0>>
    BY <1>2, <2>1, <2>2 DEF Serialize, EcmaText
  <2>3. CASE v.digits # <<0>>
    <3>1. Serialize(v) = EsNumberToString(v)
      BY <1>2, <2>3 DEF Serialize
    <3> QED BY <2>1, <2>3, <3>1, EsNumberToStringIsEcmaText DEF NonZero
  <2> QED BY <2>2, <2>3
<1>3. CASE ~Number(v)
  <2>1. v.kind # "int" /\ v.kind # "float"
    BY <1>3 DEF Number
  <2> QED BY <1>3, <2>1 DEF Serialize, EcmaText
<1> QED BY <1>1, <1>2, <1>3 DEF Number

(***************************************************************************)
(* The texts of zero; minus zero is written 0 by ECMAScript and -0.0 by    *)
(* repr.                                                                   *)
(***************************************************************************)
LEMMA ZeroShape ==
  ASSUME NEW v \in JsonValues, Number(v), v.digits = << 0 >>
  PROVE  /\ v.n = 1 /\ v.neg \in BOOLEAN
         /\ PythonInt(v) = [kind |-> "number", neg |-> v.neg, whole |-> << 0 >>,
                            fraction |-> <<>>, exp |-> <<>>]
         /\ PythonFloat(v) = [kind |-> "number", neg |-> v.neg, whole |-> << 0 >>,
                              fraction |-> << 0 >>, exp |-> <<>>]
         /\ EcmaText(v) = [kind |-> "number", neg |-> FALSE, whole |-> << 0 >>,
                           fraction |-> <<>>, exp |-> <<>>]
<1>1. v.n = 1 /\ v.neg \in BOOLEAN
  BY DEF JsonValues
<1>2. Whole(v) = <<0>>
  <2>1. Len(v.digits) = 1 /\ v.digits[1] = 0
    OBVIOUS
  <2>2. Digit(v, 1) = 0
    BY <2>1, DigitRange
  <2>3. Whole(v) = [i \in 1..1 |-> Digit(v, i)]
    BY <1>1 DEF Whole
  <2>4. Whole(v) \in Seq(0..9) /\ Len(Whole(v)) = 1 /\ Whole(v)[1] = 0
    <3>1. v.n >= 1 /\ 1 \in 1..v.n
      BY <1>1
    <3>2. Len(Whole(v)) = v.n /\ Whole(v)[1] = Digit(v, 1)
      BY <3>1, WholeShape
    <3> QED BY <1>1, <2>2, <3>2, WholeShape
  <2> QED BY <2>4
<1>3. Fraction(v) = <<>>
  <2>1. Len(v.digits) = 1
    OBVIOUS
  <2>2. v.n >= Len(v.digits)
    BY <1>1, <2>1
  <2> QED BY <2>2, FractionShape
<1>4. PythonInt(v) = [kind |-> "number", neg |-> v.neg, whole |-> <<0>>,
                      fraction |-> <<>>, exp |-> <<>>]
  BY <1>2 DEF PythonInt, Written
<1>5. -4 < v.n /\ v.n <= 16
  BY <1>1
<1>6. PythonFloat(v) = [kind |-> "number", neg |-> v.neg, whole |-> <<0>>,
                        fraction |-> <<0>>, exp |-> <<>>]
  BY <1>2, <1>3, <1>5 DEF PythonFloat, Written
<1>7. EcmaText(v) = [PythonInt(v) EXCEPT !.neg = FALSE]
  BY DEF EcmaText
<1>8. EcmaText(v) = [kind |-> "number", neg |-> FALSE, whole |-> <<0>>,
                     fraction |-> <<>>, exp |-> <<>>]
  <2>1. \A b, c : [[kind |-> "number", neg |-> b, whole |-> <<0>>,
                    fraction |-> <<>>, exp |-> <<>>] EXCEPT !.neg = c]
                  = [kind |-> "number", neg |-> c, whole |-> <<0>>,
                     fraction |-> <<>>, exp |-> <<>>]
    OBVIOUS
  <2>2. EcmaText(v) = [[kind |-> "number", neg |-> v.neg, whole |-> <<0>>,
                       fraction |-> <<>>, exp |-> <<>>] EXCEPT !.neg = FALSE]
    BY <1>4, <1>7, Zenon
  <2> QED BY <2>1, <2>2, Zenon
<1> QED BY <1>1, <1>4, <1>6, <1>8

(***************************************************************************)
(* The text of a number other than zero is no text of zero.                *)
(***************************************************************************)
LEMMA SpelledIsNotZero ==
  ASSUME NEW v \in JsonValues, NonZero(v), NEW w, NEW m \in Nat, Spells(w, v, m)
  PROVE  /\ ~(w.whole = << 0 >> /\ w.fraction = <<>>)
         /\ ~(w.whole = << 0 >> /\ w.fraction = << 0 >>)
<1> DEFINE all == Digits(w)
<1>1. v.digits[1] # 0 /\ Len(v.digits) \in Nat \ {0}
  BY NonZeroShape
<1>2. all \in Seq(0..9)
  BY ConcatProperties DEF Spells, Digits
<1>3. m + 1 \in 1..Len(all) /\ (m + 1) - m = 1
  BY <1>1, <1>2 DEF Spells
<1>4. all[m + 1] = Digit(v, 1)
  BY <1>3 DEF Spells
<1>5. Digit(v, 1) # 0
  BY <1>1, DigitRange
<1>6. ASSUME w.whole = << 0 >>, w.fraction = <<>> PROVE FALSE
  <2>1. all = <<0>>
    BY <1>6 DEF Digits
  <2> QED BY <1>3, <1>4, <1>5, <2>1
<1>7. ASSUME w.whole = << 0 >>, w.fraction = << 0 >> PROVE FALSE
  <2>1. <<0>> \in Seq(0..9) /\ Len(<<0>>) = 1 /\ <<0>>[1] = 0
    OBVIOUS
  <2>2. /\ Len(all) = 1 + 1
        /\ \A i \in 1..(1 + 1) : all[i] = IF i <= 1 THEN <<0>>[i] ELSE <<0>>[i - 1]
    BY <1>7, <2>1, ConcatProperties DEF Digits
  <2>3. Len(all) = 2 /\ all[1] = 0 /\ all[2] = 0
    BY <2>2
  <2> HIDE DEF all
  <2>4. m + 1 = 1 \/ m + 1 = 2
    BY <1>3, <2>3
  <2> QED BY <1>4, <1>5, <2>3, <2>4
<1> QED BY <1>6, <1>7

(***************************************************************************)
(* The text is one of those of the value.                                  *)
(***************************************************************************)
Writes(written, value) ==
  \/ ~Number(value) /\ written = Written(value, value.digits, <<>>, <<>>)
  \/ NonZero(value) /\ \E m \in Nat : Spells(written, value, m)
  \/ /\ Number(value) /\ value.digits = <<0>>
     /\ written.kind = "number" /\ written.whole = <<0>>
     /\ written.fraction = <<>> \/ written.fraction = <<0>>

(***************************************************************************)
(* Both json.dumps and ECMAScript write a text of the value.               *)
(***************************************************************************)
LEMMA BothWrite ==
  ASSUME NEW v \in JsonValues
  PROVE  Writes(Dumps(v), v) /\ Writes(EcmaText(v), v)
<1>1. CASE ~Number(v)
  <2>1. v.kind # "int" /\ v.kind # "float"
    BY <1>1 DEF Number
  <2> QED BY <1>1, <2>1 DEF Writes, Dumps, EcmaText
<1>2. CASE NonZero(v)
  <2>1. \E m \in Nat : Spells(EcmaText(v), v, m)
    BY <1>2, EcmaSpells
  <2>2. CASE v.kind = "int"
    <3>1. Spells(PythonInt(v), v, 0)
      BY <1>2, <2>2, PythonIntSpells
    <3>2. Dumps(v) = PythonInt(v)
      BY <2>2 DEF Dumps
    <3> QED BY <1>2, <2>1, <3>1, <3>2 DEF Writes
  <2>3. CASE v.kind = "float"
    <3>1. \E m \in Nat : Spells(PythonFloat(v), v, m)
      BY <1>2, PythonFloatSpells
    <3>2. Dumps(v) = PythonFloat(v)
      BY <2>3 DEF Dumps
    <3> QED BY <1>2, <2>1, <3>1, <3>2 DEF Writes
  <2> QED BY <1>2, <2>2, <2>3 DEF NonZero, Number
<1>3. CASE Number(v) /\ v.digits = <<0>>
  <2>1. Dumps(v) = PythonInt(v) \/ Dumps(v) = PythonFloat(v)
    BY <1>3 DEF Number, Dumps
  <2>2. /\ PythonInt(v).kind = "number" /\ PythonInt(v).whole = <<0>>
        /\ PythonInt(v).fraction = <<>>
        /\ PythonFloat(v).kind = "number" /\ PythonFloat(v).whole = <<0>>
        /\ PythonFloat(v).fraction = <<0>>
        /\ EcmaText(v).kind = "number" /\ EcmaText(v).whole = <<0>>
        /\ EcmaText(v).fraction = <<>>
    BY <1>3, ZeroShape
  <2> QED BY <1>3, <2>1, <2>2 DEF Writes
<1> QED BY <1>1, <1>2, <1>3 DEF NonZero

(***************************************************************************)
(* Values that share a text have one meaning.                              *)
(***************************************************************************)
LEMMA WrittenOnce ==
  ASSUME NEW v \in JsonValues, NEW u \in JsonValues, NEW w,
         Writes(w, v), Writes(w, u)
  PROVE  Meaning(v) = Meaning(u)
<1>1. /\ v.neg \in BOOLEAN /\ u.neg \in BOOLEAN
      /\ v.kind # "number" /\ u.kind # "number"
      /\ ~Number(v) => v.neg = FALSE /\ v.n = 1
      /\ ~Number(u) => u.neg = FALSE /\ u.n = 1
      /\ Number(v) /\ v.digits = <<0>> => v.n = 1
      /\ Number(u) /\ u.digits = <<0>> => u.n = 1
  BY DEF JsonValues
<1>2. CASE ~Number(v)
  <2>1. w = Written(v, v.digits, <<>>, <<>>)
    BY <1>2 DEF Writes, NonZero
  <2>2. w.kind = v.kind /\ w.whole = v.digits
    BY <1>2, <2>1 DEF Written
  <2>3. ~Number(u)
    BY <1>1, <2>2 DEF Writes, Spells
  <2>4. w = Written(u, u.digits, <<>>, <<>>)
    BY <2>3 DEF Writes, NonZero
  <2>5. w.kind = u.kind /\ w.whole = u.digits
    BY <2>3, <2>4 DEF Written
  <2> QED BY <1>1, <1>2, <2>2, <2>3, <2>5 DEF Meaning
<1>3. CASE ~Number(u)
  <2>1. w = Written(u, u.digits, <<>>, <<>>)
    BY <1>3 DEF Writes, NonZero
  <2>2. w.kind = u.kind /\ w.whole = u.digits
    BY <1>3, <2>1 DEF Written
  <2>3. ~Number(v)
    BY <1>1, <2>2 DEF Writes, Spells
  <2> QED BY <1>2, <2>3
<1>4. CASE NonZero(v) /\ NonZero(u)
  <2>1. PICK m \in Nat : Spells(w, v, m)
    BY <1>4 DEF Writes, NonZero
  <2>2. PICK l \in Nat : Spells(w, u, l)
    BY <1>4 DEF Writes, NonZero
  <2>3. v.neg = u.neg /\ v.digits = u.digits /\ v.n = u.n
    BY <1>4, <2>1, <2>2, SpelledOnce
  <2> QED BY <1>4, <2>3 DEF Meaning, NonZero
<1>5. CASE NonZero(v) /\ Number(u) /\ u.digits = <<0>>
  <2>1. PICK m \in Nat : Spells(w, v, m)
    BY <1>5 DEF Writes, NonZero
  <2>2. w.whole = <<0>> /\ (w.fraction = <<>> \/ w.fraction = <<0>>)
    BY <1>5 DEF Writes, NonZero
  <2> QED BY <1>5, <2>1, <2>2, SpelledIsNotZero
<1>6. CASE NonZero(u) /\ Number(v) /\ v.digits = <<0>>
  <2>1. PICK m \in Nat : Spells(w, u, m)
    BY <1>6 DEF Writes, NonZero
  <2>2. w.whole = <<0>> /\ (w.fraction = <<>> \/ w.fraction = <<0>>)
    BY <1>6 DEF Writes, NonZero
  <2> QED BY <1>6, <2>1, <2>2, SpelledIsNotZero
<1>7. CASE Number(v) /\ Number(u) /\ v.digits = <<0>> /\ u.digits = <<0>>
  <2>1. (v.neg /\ v.digits # <<0>>) = FALSE /\ (u.neg /\ u.digits # <<0>>) = FALSE
    BY <1>7
  <2> QED BY <1>1, <1>7, <2>1 DEF Meaning
<1> QED BY <1>2, <1>3, <1>4, <1>5, <1>6, <1>7 DEF NonZero

(***************************************************************************)
(* Values of one meaning have one ECMAScript text.                         *)
(***************************************************************************)
LEMMA MeaningFixesEcmaText ==
  ASSUME NEW v \in JsonValues, NEW u \in JsonValues, Meaning(v) = Meaning(u)
  PROVE  EcmaText(v) = EcmaText(u)
<1>1. /\ v.neg \in BOOLEAN /\ u.neg \in BOOLEAN
      /\ v.kind # "number" /\ u.kind # "number"
      /\ ~Number(v) => v.neg = FALSE
      /\ ~Number(u) => u.neg = FALSE
  BY DEF JsonValues
<1>2. /\ (IF Number(v) THEN "number" ELSE v.kind)
           = (IF Number(u) THEN "number" ELSE u.kind)
      /\ (v.neg /\ v.digits # <<0>>) = (u.neg /\ u.digits # <<0>>)
      /\ v.digits = u.digits /\ v.n = u.n
  BY DEF Meaning
<1>3. Number(v) <=> Number(u)
  BY <1>1, <1>2
<1>4. CASE ~Number(v)
  <2>1. v.kind = u.kind /\ v.neg = u.neg
    BY <1>1, <1>2, <1>3, <1>4
  <2>2. /\ EcmaText(v) = Written(v, v.digits, <<>>, <<>>)
        /\ EcmaText(u) = Written(u, u.digits, <<>>, <<>>)
    BY <1>3, <1>4 DEF EcmaText
  <2> QED BY <1>2, <1>3, <1>4, <2>1, <2>2 DEF Written
<1>5. CASE NonZero(v)
  <2>1. NonZero(u) /\ v.neg = u.neg
    BY <1>1, <1>2, <1>3, <1>5 DEF NonZero
  <2>2. Whole(v) = Whole(u) /\ Fraction(v) = Fraction(u)
    BY <1>2 DEF Whole, Fraction, Digit
  <2>3. \A a, b, c : Written(v, a, b, c) = Written(u, a, b, c)
    BY <1>5, <2>1 DEF Written, NonZero
  <2>4. CASE v.n \in -5..21
    <3>1. /\ EcmaText(v) = Written(v, Whole(v), Fraction(v), <<>>)
          /\ EcmaText(u) = Written(u, Whole(u), Fraction(u), <<>>)
      BY <1>2, <1>5, <2>1, <2>4 DEF EcmaText, NonZero
    <3> QED BY <2>2, <2>3, <3>1
  <2>5. CASE v.n \notin -5..21
    <3>1. /\ EcmaText(v) = Written(v, <<Head(v.digits)>>, Tail(v.digits),
                                   <<v.n - 1, 0>>)
          /\ EcmaText(u) = Written(u, <<Head(u.digits)>>, Tail(u.digits),
                                   <<u.n - 1, 0>>)
      BY <1>2, <1>5, <2>1, <2>5 DEF EcmaText, NonZero
    <3> QED BY <1>2, <2>3, <3>1
  <2> QED BY <2>4, <2>5
<1>6. CASE Number(v) /\ v.digits = <<0>>
  <2>1. Number(u) /\ u.digits = <<0>>
    BY <1>2, <1>3, <1>6
  <2>2. EcmaText(v) = [kind |-> "number", neg |-> FALSE, whole |-> <<0>>,
                       fraction |-> <<>>, exp |-> <<>>]
    BY <1>6, ZeroShape
  <2>3. EcmaText(u) = [kind |-> "number", neg |-> FALSE, whole |-> <<0>>,
                       fraction |-> <<>>, exp |-> <<>>]
    BY <2>1, ZeroShape
  <2> QED BY <2>2, <2>3
<1> QED BY <1>4, <1>5, <1>6 DEF NonZero

(***************************************************************************)
(* json.dumps tells any two values apart, even the int and the float of a  *)
(* number (canonical_json).                                                *)
(***************************************************************************)
LEMMA DumpsTellsApart ==
  ASSUME NEW v \in JsonValues, NEW u \in JsonValues, Dumps(v) = Dumps(u)
  PROVE  v = u
<1>1. Meaning(v) = Meaning(u)
  BY BothWrite, WrittenOnce
<1>2. ASSUME NEW x \in JsonValues
      PROVE  /\ Dumps(x).neg = x.neg
             /\ x.kind = "int" => Dumps(x).fraction = <<>> /\ Dumps(x).exp = <<>>
             /\ x.kind = "float" => Dumps(x).fraction # <<>> \/ Dumps(x).exp # <<>>
  BY DEF Dumps, PythonInt, PythonFloat, Written
<1>3. v.digits = u.digits /\ v.n = u.n
      /\ (IF Number(v) THEN "number" ELSE v.kind)
           = (IF Number(u) THEN "number" ELSE u.kind)
  BY <1>1 DEF Meaning
<1>4. v.kind = u.kind
  <2>1. v.kind # "number" /\ u.kind # "number"
    BY DEF JsonValues
  <2> QED BY <1>2, <1>3, <2>1 DEF Number
<1>5. v.neg = u.neg
  BY <1>2
<1> QED BY <1>3, <1>4, <1>5 DEF JsonValues

-----------------------------------------------------------------------------

(***************************************************************************)
(* Two code units compare as their bytes do, the high one first.           *)
(***************************************************************************)
LEMMA HighLow ==
  ASSUME NEW x \in Nat, NEW y \in Nat, NEW a, NEW b, NEW c, NEW d,
         a = x \div 256, b = x % 256, c = y \div 256, d = y % 256
  PROVE  /\ x < y <=> a < c \/ (a = c /\ b < d)
         /\ x = y <=> a = c /\ b = d
<1>1. /\ x \div 256 \in Nat /\ x % 256 \in Nat /\ (x % 256) < 256
      /\ x = 256 * (x \div 256) + (x % 256)
  OBVIOUS
<1>2. /\ y \div 256 \in Nat /\ y % 256 \in Nat /\ (y % 256) < 256
      /\ y = 256 * (y \div 256) + (y % 256)
  OBVIOUS
<1>3. \A k, l, m, n \in Nat : l < 256 /\ n < 256 =>
        /\ 256 * k + l < 256 * m + n <=> k < m \/ (k = m /\ l < n)
        /\ 256 * k + l = 256 * m + n <=> k = m /\ l = n
  OBVIOUS
<1>4. a \in Nat /\ b \in Nat /\ b < 256 /\ x = 256 * a + b
  BY <1>1, Zenon
<1>5. c \in Nat /\ d \in Nat /\ d < 256 /\ y = 256 * c + d
  BY <1>2, Zenon
<1> QED BY <1>3, <1>4, <1>5

(***************************************************************************)
(* A positive number is 2p - 1 or 2p.                                      *)
(***************************************************************************)
LEMMA HalfOf ==
  ASSUME NEW i \in Nat \ {0}
  PROVE  \E p \in Nat \ {0} : i = 2 * p - 1 \/ i = 2 * p
<1>1. (i + 1) \div 2 \in Nat
  OBVIOUS
<1>2. 2 * ((i + 1) \div 2) <= i + 1 /\ i + 1 < 2 * ((i + 1) \div 2) + 2
  OBVIOUS
<1> DEFINE p == (i + 1) \div 2
<1> HIDE DEF p
<1>3. p \in Nat /\ 2 * p <= i + 1 /\ i + 1 < 2 * p + 2
  BY <1>1, <1>2, Zenon DEF p
<1>4. p \in Nat \ {0} /\ (i = 2 * p - 1 \/ i = 2 * p)
  BY <1>3
<1> QED BY <1>4

(***************************************************************************)
(* Where each place of a sequence compares as two places of another do, so *)
(* do the sequences.                                                       *)
(***************************************************************************)
LEMMA PairOrder ==
  ASSUME NEW U \in Nat, NEW W \in Nat, NEW u, NEW w, NEW bu, NEW bw,
         Len(u) = U, Len(w) = W, Len(bu) = 2 * U, Len(bw) = 2 * W,
         \A p \in (1..U) \cap (1..W) :
           /\ u[p] < w[p] <=> \/ bu[2 * p - 1] < bw[2 * p - 1]
                              \/ /\ bu[2 * p - 1] = bw[2 * p - 1]
                                 /\ bu[2 * p] < bw[2 * p]
           /\ u[p] = w[p] <=> /\ bu[2 * p - 1] = bw[2 * p - 1]
                              /\ bu[2 * p] = bw[2 * p]
  PROVE  Before(bu, bw) <=> Before(u, w)
<1>1. Before(bu, bw) <=>
        \E i \in 1..(2 * W) :
          /\ \A j \in 1..(i - 1) : j <= 2 * U /\ bu[j] = bw[j]
          /\ i > 2 * U \/ bu[i] < bw[i]
  <2>1. Before(bu, bw) <=>
          \E i \in 1..Len(bw) :
            /\ \A j \in 1..(i - 1) : j <= Len(bu) /\ bu[j] = bw[j]
            /\ i > Len(bu) \/ bu[i] < bw[i]
    BY Zenon DEF Before
  <2> QED BY <2>1
<1>2. Before(u, w) <=>
        \E i \in 1..W :
          /\ \A j \in 1..(i - 1) : j <= U /\ u[j] = w[j]
          /\ i > U \/ u[i] < w[i]
  BY Zenon DEF Before
<1>3. ASSUME Before(bu, bw) PROVE Before(u, w)
  <2>1. PICK i \in 1..(2 * W) :
          /\ \A j \in 1..(i - 1) : j <= 2 * U /\ bu[j] = bw[j]
          /\ i > 2 * U \/ bu[i] < bw[i]
    BY <1>1, <1>3
  <2>2. PICK p \in 1..W : i = 2 * p - 1 \/ i = 2 * p
    <3>0. i \in Nat \ {0}
      OBVIOUS
    <3>1. PICK p \in Nat \ {0} : i = 2 * p - 1 \/ i = 2 * p
      BY <3>0, HalfOf
    <3>2. p \in 1..W
      BY <3>1
    <3> QED BY <3>1, <3>2
  <2>3. ASSUME NEW q \in 1..(p - 1) PROVE q <= U /\ u[q] = w[q]
    <3>1. 2 * q - 1 \in 1..(i - 1) /\ 2 * q \in 1..(i - 1)
      BY <2>2
    <3>2. 2 * q <= 2 * U /\ bu[2 * q] = bw[2 * q] /\ bu[2 * q - 1] = bw[2 * q - 1]
      BY <2>1, <3>1
    <3>3. q \in 1..U /\ q \in 1..W
      BY <2>2, <3>2
    <3> QED BY <3>2, <3>3
  <2>4. p > U \/ u[p] < w[p]
    <3>1. SUFFICES ASSUME p <= U PROVE u[p] < w[p]
      BY <2>2
    <3>2. p \in 1..U /\ p \in 1..W /\ i <= 2 * U
      BY <2>2, <3>1
    <3>3. bu[i] < bw[i]
      BY <2>1, <3>2
    <3>4. CASE i = 2 * p - 1
      BY <3>2, <3>3, <3>4
    <3>5. CASE i = 2 * p
      <4>1. 2 * p - 1 \in 1..(i - 1)
        BY <3>5
      <4>2. bu[2 * p - 1] = bw[2 * p - 1]
        BY <2>1, <4>1
      <4> QED BY <3>2, <3>3, <3>5, <4>2
    <3> QED BY <2>2, <3>4, <3>5
  <2> QED BY <1>2, <2>3, <2>4
<1>4. ASSUME Before(u, w) PROVE Before(bu, bw)
  <2>1. PICK p \in 1..W :
          /\ \A q \in 1..(p - 1) : q <= U /\ u[q] = w[q]
          /\ p > U \/ u[p] < w[p]
    BY <1>2, <1>4
  <2>2. ASSUME NEW j \in 1..(2 * p - 2) PROVE j <= 2 * U /\ bu[j] = bw[j]
    <3>1. PICK q \in 1..(p - 1) : j = 2 * q - 1 \/ j = 2 * q
      <4>0. j \in Nat \ {0}
        OBVIOUS
      <4>1. PICK q \in Nat \ {0} : j = 2 * q - 1 \/ j = 2 * q
        BY <4>0, HalfOf
      <4>2. q \in 1..(p - 1)
        BY <4>1
      <4> QED BY <4>1, <4>2
    <3>2. q \in 1..U /\ q \in 1..W /\ u[q] = w[q]
      BY <2>1
    <3>3. bu[2 * q - 1] = bw[2 * q - 1] /\ bu[2 * q] = bw[2 * q]
      BY <3>2
    <3>4. j <= 2 * U
      BY <3>1, <3>2
    <3> QED BY <3>1, <3>3, <3>4
  <2>3. CASE p > U
    <3> DEFINE i == 2 * p - 1
    <3>1. i \in 1..(2 * W) /\ i > 2 * U /\ i - 1 = 2 * p - 2
      BY <2>3
    <3> HIDE DEF i
    <3>2. \A j \in 1..(i - 1) : j <= 2 * U /\ bu[j] = bw[j]
      BY <2>2, <3>1
    <3> QED BY <1>1, <3>1, <3>2
  <2>4. CASE p <= U /\ bu[2 * p - 1] < bw[2 * p - 1]
    <3> DEFINE i == 2 * p - 1
    <3>1. i \in 1..(2 * W) /\ i - 1 = 2 * p - 2
      OBVIOUS
    <3>2. bu[i] < bw[i]
      <4>1. p \in 1..U /\ p \in 1..W
        BY <2>4
      <4> QED BY <2>4, <4>1
    <3> HIDE DEF i
    <3>3. \A j \in 1..(i - 1) : j <= 2 * U /\ bu[j] = bw[j]
      BY <2>2, <3>1
    <3> QED BY <1>1, <3>1, <3>2, <3>3
  <2>5. CASE p <= U /\ bu[2 * p - 1] = bw[2 * p - 1]
             /\ bu[2 * p] < bw[2 * p]
    <3> DEFINE i == 2 * p
    <3>1. i \in 1..(2 * W) /\ i - 1 = 2 * p - 1
      OBVIOUS
    <3>2. p \in 1..U /\ p \in 1..W
      BY <2>5
    <3>3. bu[i] < bw[i]
      BY <2>5, <3>2
    <3>4. bu[2 * p - 1] = bw[2 * p - 1] /\ 2 * p - 1 <= 2 * U
      BY <2>5, <3>2
    <3>5. ASSUME NEW j \in 1..(2 * p - 1) PROVE j <= 2 * U /\ bu[j] = bw[j]
      <4>1. j \in 1..(2 * p - 2) \/ j = 2 * p - 1
        OBVIOUS
      <4> QED BY <2>2, <3>4, <4>1
    <3> HIDE DEF i
    <3>6. \A j \in 1..(i - 1) : j <= 2 * U /\ bu[j] = bw[j]
      BY <3>1, <3>5
    <3> QED BY <1>1, <3>1, <3>3, <3>6
  <2>6. p <= U => p \in 1..U /\ p \in 1..W
    OBVIOUS
  <2> QED BY <2>1, <2>3, <2>4, <2>5, <2>6
<1> QED BY <1>3, <1>4

(***************************************************************************)
(* The bytes of a key are the high and the low byte of its code units.     *)
(***************************************************************************)
LEMMA CodeUnitsShape ==
  ASSUME NEW key \in CodePoints
  PROVE  /\ Len(CodeUnits(key)) \in Nat
         /\ \A i \in 1..Len(CodeUnits(key)) : CodeUnits(key)[i] \in Nat
         /\ Len(Bytes(key)) = 2 * Len(CodeUnits(key))
         /\ \A p \in 1..Len(CodeUnits(key)) :
              /\ Bytes(key)[2 * p - 1] = CodeUnits(key)[p] \div 256
              /\ Bytes(key)[2 * p] = CodeUnits(key)[p] % 256
<1>1. key \in Nat
  BY DEF CodePoints
<1>2. /\ Len(CodeUnits(key)) \in Nat
      /\ \A i \in 1..Len(CodeUnits(key)) : CodeUnits(key)[i] \in Nat
  <2>1. CASE key < 65536
    BY <1>1, <2>1 DEF CodeUnits
  <2>2. CASE key >= 65536
    <3>1. key - 65536 \in Nat
      BY <1>1, <2>2
    <3>2. (key - 65536) \div 1024 \in Nat /\ (key - 65536) % 1024 \in Nat
      BY <3>1
    <3> DEFINE a == 55296 + ((key - 65536) \div 1024)
               b == 56320 + ((key - 65536) % 1024)
    <3>3. a \in Nat /\ b \in Nat
      BY <3>2
    <3>4. CodeUnits(key) = <<a, b>>
      BY <1>1, <2>2 DEF CodeUnits
    <3> HIDE DEF a, b
    <3> QED BY <3>3, <3>4
  <2> QED BY <1>1, <2>1, <2>2
<1> DEFINE u == CodeUnits(key)
           n == Len(u)
           b == Bytes(key)
<1>3. b = [i \in 1..(2 * n) |-> IF i % 2 = 1 THEN u[(i + 1) \div 2] \div 256
                               ELSE u[i \div 2] % 256]
  BY DEF Bytes
<1>4. n \in Nat
  BY <1>2
<1> HIDE DEF u, n, b
<1>5. Len(b) = 2 * n
  <2>1. 2 * n \in Nat
    BY <1>4
  <2>2. b = [i \in 1..(2 * n) |-> b[i]]
    BY <1>3, Zenon
  <2> QED BY <2>1, <2>2
<1>6. ASSUME NEW p \in 1..n
      PROVE  b[2 * p - 1] = u[p] \div 256 /\ b[2 * p] = u[p] % 256
  <2>1. 2 * p - 1 \in 1..(2 * n) /\ 2 * p \in 1..(2 * n)
    BY <1>4
  <2>2. p \in Nat
    OBVIOUS
  <2>3. (2 * p - 1) % 2 = 1 /\ ((2 * p - 1) + 1) \div 2 = p
    BY <2>2
  <2>4. (2 * p) % 2 # 1 /\ (2 * p) \div 2 = p
    BY <2>2
  <2> DEFINE i == 2 * p - 1
             j == 2 * p
  <2>5. i \in 1..(2 * n) /\ i % 2 = 1 /\ (i + 1) \div 2 = p
    BY <2>1, <2>3, Zenon
  <2>6. j \in 1..(2 * n) /\ j % 2 # 1 /\ j \div 2 = p
    BY <2>1, <2>4, Zenon
  <2> HIDE DEF i, j
  <2>7. b[i] = u[p] \div 256
    BY <1>3, <2>5, Zenon
  <2>8. b[j] = u[p] % 256
    BY <1>3, <2>6, Zenon
  <2> QED BY <2>7, <2>8, Zenon DEF i, j
<1> QED BY <1>2, <1>5, <1>6, Zenon DEF u, n, b

(***************************************************************************)
(* Sorting keys by their UTF-16-BE bytes, as canonicalize does, is sorting *)
(* them by their code units, as ECMAScript does, whatever the characters   *)
(* (canonicalize).                                                         *)
(***************************************************************************)
THEOREM KeyOrderIsEcmaScript ==
  ASSUME NEW k \in CodePoints, NEW l \in CodePoints
  PROVE  Before(Bytes(k), Bytes(l)) <=> Before(CodeUnits(k), CodeUnits(l))
<1> DEFINE u == CodeUnits(k)
           w == CodeUnits(l)
           bu == Bytes(k)
           bw == Bytes(l)
<1>1. /\ Len(u) \in Nat /\ Len(bu) = 2 * Len(u)
      /\ \A p \in 1..Len(u) : u[p] \in Nat
      /\ \A p \in 1..Len(u) : bu[2 * p - 1] = u[p] \div 256 /\ bu[2 * p] = u[p] % 256
  BY CodeUnitsShape, Zenon
<1>2. /\ Len(w) \in Nat /\ Len(bw) = 2 * Len(w)
      /\ \A p \in 1..Len(w) : w[p] \in Nat
      /\ \A p \in 1..Len(w) : bw[2 * p - 1] = w[p] \div 256 /\ bw[2 * p] = w[p] % 256
  BY CodeUnitsShape, Zenon
<1> HIDE DEF u, w, bu, bw
<1>3. \A p \in (1..Len(u)) \cap (1..Len(w)) :
        /\ u[p] < w[p] <=> \/ bu[2 * p - 1] < bw[2 * p - 1]
                           \/ /\ bu[2 * p - 1] = bw[2 * p - 1]
                              /\ bu[2 * p] < bw[2 * p]
        /\ u[p] = w[p] <=> /\ bu[2 * p - 1] = bw[2 * p - 1]
                           /\ bu[2 * p] = bw[2 * p]
  <2> TAKE p \in (1..Len(u)) \cap (1..Len(w))
  <2>1. u[p] \in Nat /\ w[p] \in Nat
    BY <1>1, <1>2, Zenon
  <2>2. bu[2 * p - 1] = u[p] \div 256 /\ bu[2 * p] = u[p] % 256
    <3>1. p \in 1..Len(u)
      OBVIOUS
    <3> QED BY <1>1, <3>1, Zenon
  <2>3. bw[2 * p - 1] = w[p] \div 256 /\ bw[2 * p] = w[p] % 256
    <3>1. p \in 1..Len(w)
      OBVIOUS
    <3> QED BY <1>2, <3>1, Zenon
  <2>4. ASSUME NEW x, NEW y, x = u[p], y = w[p],
               NEW a, NEW b, NEW c, NEW d,
               a = bu[2 * p - 1], b = bu[2 * p], c = bw[2 * p - 1], d = bw[2 * p]
        PROVE  /\ x < y <=> a < c \/ (a = c /\ b < d)
               /\ x = y <=> a = c /\ b = d
    <3>1. x \in Nat /\ y \in Nat
      BY <2>1, <2>4, Zenon
    <3>2. /\ a = x \div 256 /\ b = x % 256
          /\ c = y \div 256 /\ d = y % 256
      BY <2>2, <2>3, <2>4, Zenon
    <3> QED BY <3>1, <3>2, HighLow
  <2> QED BY <2>4
<1>4. Before(bu, bw) <=> Before(u, w)
  <2> DEFINE U == Len(u)
             W == Len(w)
  <2>1. U \in Nat /\ W \in Nat /\ Len(bu) = 2 * U /\ Len(bw) = 2 * W
    BY <1>1, <1>2, Zenon
  <2> QED BY <1>3, <2>1, PairOrder, Zenon
<1> QED BY <1>4, Zenon DEF u, w, bu, bw

-----------------------------------------------------------------------------

(***************************************************************************)
(* The hash is lost, or that of the pack as it was issued.                 *)
(***************************************************************************)
PackInv ==
  /\ WellFormed(fields) /\ WellFormed(pack.fields)
  /\ pack.scheme \in {"rfc8785", "mtcp-legacy"}
  /\ hash \in {NoPackHash,
               PackHash(IF pack.scheme = "rfc8785" THEN EcmaForm(pack.fields)
                        ELSE CanonicalJson(pack.fields))}

(***************************************************************************)
(* A field of a pack is a key and a value.                                 *)
(***************************************************************************)
LEMMA FieldShape ==
  ASSUME NEW fs, WellFormed(fs), NEW f \in ToSet(fs)
  PROVE  /\ f \in [key : CodePoints, value : JsonValues]
         /\ f.key \in CodePoints /\ f.value \in JsonValues /\ f.key \in Keys(fs)
<1>1. PICK i \in DOMAIN fs : f = fs[i]
  BY DEF ToSet
<1>2. f \in [key : CodePoints, value : JsonValues]
  <2> DEFINE S == [key : CodePoints, value : JsonValues]
  <2>1. fs \in Seq(S)
    BY DEF WellFormed
  <2> HIDE DEF S
  <2>2. f \in S
    BY <1>1, <2>1
  <2> QED BY <2>2 DEF S
<1> QED BY <1>1, <1>2 DEF Keys

(***************************************************************************)
(* The keys and the meanings of a pack depend on the set of its fields.    *)
(***************************************************************************)
LEMMA FieldsAsSets ==
  ASSUME NEW fs, WellFormed(fs)
  PROVE  /\ Keys(fs) = {f.key : f \in ToSet(fs)}
         /\ Keys(fs) \subseteq CodePoints
         /\ Meanings(fs) = {<<f.key, Meaning(f.value)>> : f \in ToSet(fs)}
<1>1. Keys(fs) = {f.key : f \in ToSet(fs)}
  BY DEF Keys, ToSet
<1>2. Meanings(fs) = {<<f.key, Meaning(f.value)>> : f \in ToSet(fs)}
  BY DEF Meanings, ToSet
<1> QED BY <1>1, <1>2, FieldShape

(***************************************************************************)
(* jcs.py and the ECMAScript implementation derive the same form from any  *)
(* fields jcs.py accepts: the same texts, in the same order                *)
(* (canonicalize).                                                         *)
(***************************************************************************)
THEOREM CanonicalizeIsEcmaScript ==
  ASSUME NEW fs, WellFormed(fs), \A i \in DOMAIN fs : ~Raises(fs[i].value)
  PROVE  Canonicalize(fs) = EcmaForm(fs)
<1> DEFINE P(key) == Cardinality({k \in Keys(fs) : Before(Bytes(k), Bytes(key))})
           Q(key) ==
             Cardinality({k \in Keys(fs) : Before(CodeUnits(k), CodeUnits(key))})
<1>1. ASSUME NEW key \in CodePoints PROVE P(key) = Q(key)
  <2>1. \A k \in Keys(fs) :
          Before(Bytes(k), Bytes(key)) <=> Before(CodeUnits(k), CodeUnits(key))
    BY FieldsAsSets, KeyOrderIsEcmaScript
  <2>2. {k \in Keys(fs) : Before(Bytes(k), Bytes(key))}
          = {k \in Keys(fs) : Before(CodeUnits(k), CodeUnits(key))}
    BY <2>1
  <2> QED BY <2>2
<1>2. ASSUME NEW f \in ToSet(fs) PROVE Serialize(f.value) = EcmaText(f.value)
  <2>1. ~Raises(f.value)
    BY DEF ToSet
  <2> QED BY <2>1, FieldShape, SerializeIsEcmaScript
<1>3. ASSUME NEW f \in ToSet(fs)
      PROVE  <<P(f.key), f.key, Serialize(f.value)>>
               = <<Q(f.key), f.key, EcmaText(f.value)>>
  <2>1. f.key \in CodePoints
    BY FieldShape
  <2>2. P(f.key) = Q(f.key)
    BY <1>1, <2>1
  <2> HIDE DEF P, Q
  <2> QED BY <1>2, <2>2
<1>4. Canonicalize(fs) = {<<P(f.key), f.key, Serialize(f.value)>> : f \in ToSet(fs)}
  BY DEF Canonicalize
<1>5. EcmaForm(fs) = {<<Q(f.key), f.key, EcmaText(f.value)>> : f \in ToSet(fs)}
  BY DEF EcmaForm
<1> HIDE DEF P, Q
<1> QED BY <1>3, <1>4, <1>5

(***************************************************************************)
(* Packs with the same form have the same keys, each with the same text;   *)
(* so do packs of which each has, in its own convention, the same form.    *)
(***************************************************************************)
LEMMA FormsFixMembers ==
  ASSUME NEW fs, NEW gs, WellFormed(fs), WellFormed(gs)
  PROVE  /\ EcmaForm(fs) = EcmaForm(gs) =>
              \A f \in ToSet(fs) : \E g \in ToSet(gs) :
                f.key = g.key /\ EcmaText(f.value) = EcmaText(g.value)
         /\ CanonicalJson(fs) = CanonicalJson(gs) =>
              \A f \in ToSet(fs) : \E g \in ToSet(gs) :
                f.key = g.key /\ Dumps(f.value) = Dumps(g.value)
         /\ EcmaForm(fs) = CanonicalJson(gs) =>
              /\ \A f \in ToSet(fs) : \E g \in ToSet(gs) :
                   f.key = g.key /\ EcmaText(f.value) = Dumps(g.value)
              /\ \A g \in ToSet(gs) : \E f \in ToSet(fs) :
                   f.key = g.key /\ EcmaText(f.value) = Dumps(g.value)
<1> DEFINE P(hs, key) ==
             Cardinality({k \in Keys(hs) : Before(CodeUnits(k), CodeUnits(key))})
           Q(hs, key) == Cardinality({k \in Keys(hs) : k < key})
<1>1. \A hs : EcmaForm(hs)
                = {<<P(hs, f.key), f.key, EcmaText(f.value)>> : f \in ToSet(hs)}
  BY DEF EcmaForm
<1>2. \A hs : CanonicalJson(hs)
                = {<<Q(hs, f.key), f.key, Dumps(f.value)>> : f \in ToSet(hs)}
  BY DEF CanonicalJson
<1> HIDE DEF P, Q
<1>3. ASSUME EcmaForm(fs) = EcmaForm(gs), NEW f \in ToSet(fs)
      PROVE  \E g \in ToSet(gs) : f.key = g.key /\ EcmaText(f.value) = EcmaText(g.value)
  <2>1. <<P(fs, f.key), f.key, EcmaText(f.value)>> \in EcmaForm(gs)
    BY <1>1, <1>3
  <2>2. PICK g \in ToSet(gs) : <<P(fs, f.key), f.key, EcmaText(f.value)>>
                             = <<P(gs, g.key), g.key, EcmaText(g.value)>>
    BY <1>1, <2>1
  <2> QED BY <2>2
<1>4. ASSUME CanonicalJson(fs) = CanonicalJson(gs), NEW f \in ToSet(fs)
      PROVE  \E g \in ToSet(gs) : f.key = g.key /\ Dumps(f.value) = Dumps(g.value)
  <2>1. <<Q(fs, f.key), f.key, Dumps(f.value)>> \in CanonicalJson(gs)
    BY <1>2, <1>4
  <2>2. PICK g \in ToSet(gs) : <<Q(fs, f.key), f.key, Dumps(f.value)>>
                             = <<Q(gs, g.key), g.key, Dumps(g.value)>>
    BY <1>2, <2>1
  <2> QED BY <2>2
<1>5. ASSUME EcmaForm(fs) = CanonicalJson(gs), NEW f \in ToSet(fs)
      PROVE  \E g \in ToSet(gs) : f.key = g.key /\ EcmaText(f.value) = Dumps(g.value)
  <2>1. <<P(fs, f.key), f.key, EcmaText(f.value)>> \in CanonicalJson(gs)
    BY <1>1, <1>5
  <2>2. PICK g \in ToSet(gs) : <<P(fs, f.key), f.key, EcmaText(f.value)>>
                             = <<Q(gs, g.key), g.key, Dumps(g.value)>>
    BY <1>2, <2>1
  <2> QED BY <2>2
<1>6. ASSUME EcmaForm(fs) = CanonicalJson(gs), NEW g \in ToSet(gs)
      PROVE  \E f \in ToSet(fs) : f.key = g.key /\ EcmaText(f.value) = Dumps(g.value)
  <2>1. <<Q(gs, g.key), g.key, Dumps(g.value)>> \in EcmaForm(fs)
    BY <1>2, <1>6
  <2>2. PICK f \in ToSet(fs) : <<Q(gs, g.key), g.key, Dumps(g.value)>>
                             = <<P(fs, f.key), f.key, EcmaText(f.value)>>
    BY <1>1, <2>1
  <2> QED BY <2>2
<1> QED BY <1>3, <1>4, <1>5, <1>6

(***************************************************************************)
(* What it takes for two packs to have the same meanings.                  *)
(***************************************************************************)
LEMMA SameMeanings ==
  ASSUME NEW fs, NEW gs, WellFormed(fs), WellFormed(gs),
         \A f \in ToSet(fs) : \E g \in ToSet(gs) :
           f.key = g.key /\ Meaning(f.value) = Meaning(g.value),
         \A g \in ToSet(gs) : \E f \in ToSet(fs) :
           f.key = g.key /\ Meaning(f.value) = Meaning(g.value)
  PROVE  Meanings(fs) = Meanings(gs)
<1>1. Meanings(fs) = {<<f.key, Meaning(f.value)>> : f \in ToSet(fs)}
  BY FieldsAsSets
<1>2. Meanings(gs) = {<<f.key, Meaning(f.value)>> : f \in ToSet(gs)}
  BY FieldsAsSets
<1> QED BY <1>1, <1>2

(***************************************************************************)
(* The conformant form determines the meanings of the fields, and they it: *)
(* neither the order nor the spelling of the fields counts.                *)
(***************************************************************************)
LEMMA EcmaFormIsOfMeanings ==
  ASSUME NEW fs, NEW gs, WellFormed(fs), WellFormed(gs)
  PROVE  EcmaForm(fs) = EcmaForm(gs) <=> Meanings(fs) = Meanings(gs)
<1>1. ASSUME EcmaForm(fs) = EcmaForm(gs) PROVE Meanings(fs) = Meanings(gs)
  <2>1. ASSUME NEW hs, NEW js, WellFormed(hs), WellFormed(js),
               EcmaForm(hs) = EcmaForm(js), NEW f \in ToSet(hs)
        PROVE  \E g \in ToSet(js) : f.key = g.key /\ Meaning(f.value) = Meaning(g.value)
    <3>1. PICK g \in ToSet(js) : f.key = g.key /\ EcmaText(f.value) = EcmaText(g.value)
      BY <2>1, FormsFixMembers
    <3>2. f.value \in JsonValues /\ g.value \in JsonValues
      BY <2>1, FieldShape
    <3>3. Meaning(f.value) = Meaning(g.value)
      BY <3>1, <3>2, BothWrite, WrittenOnce
    <3> QED BY <3>1, <3>3
  <2>2. \A f \in ToSet(fs) : \E g \in ToSet(gs) :
          f.key = g.key /\ Meaning(f.value) = Meaning(g.value)
    BY <1>1, <2>1
  <2>3. \A g \in ToSet(gs) : \E f \in ToSet(fs) :
          f.key = g.key /\ Meaning(f.value) = Meaning(g.value)
    BY <1>1, <2>1
  <2> QED BY <2>2, <2>3, SameMeanings
<1>2. ASSUME Meanings(fs) = Meanings(gs) PROVE EcmaForm(fs) = EcmaForm(gs)
  <2> DEFINE P(K, key) == Cardinality({k \in K : Before(CodeUnits(k), CodeUnits(key))})
  <2>1. ASSUME NEW hs, NEW js, WellFormed(hs), WellFormed(js),
               Meanings(hs) = Meanings(js), NEW f \in ToSet(hs)
        PROVE  \E g \in ToSet(js) :
                 f.key = g.key /\ EcmaText(f.value) = EcmaText(g.value)
    <3>1. <<f.key, Meaning(f.value)>> \in Meanings(js)
      BY <2>1, FieldsAsSets
    <3>2. PICK g \in ToSet(js) :
            <<f.key, Meaning(f.value)>> = <<g.key, Meaning(g.value)>>
      BY <2>1, <3>1, FieldsAsSets
    <3>3. f.key = g.key /\ Meaning(f.value) = Meaning(g.value)
      BY <3>2
    <3>4. f.value \in JsonValues /\ g.value \in JsonValues
      BY <2>1, FieldShape
    <3> QED BY <3>3, <3>4, MeaningFixesEcmaText
  <2>2. \A f \in ToSet(fs) : \E g \in ToSet(gs) :
          f.key = g.key /\ EcmaText(f.value) = EcmaText(g.value)
    BY <1>2, <2>1
  <2>3. \A g \in ToSet(gs) : \E f \in ToSet(fs) :
          f.key = g.key /\ EcmaText(f.value) = EcmaText(g.value)
    <3> TAKE g \in ToSet(gs)
    <3>1. PICK f \in ToSet(fs) : g.key = f.key /\ EcmaText(g.value) = EcmaText(f.value)
      BY <1>2, <2>1
    <3> QED BY <3>1
  <2>4. Keys(fs) = Keys(gs)
    <3>1. /\ Keys(fs) = {f.key : f \in ToSet(fs)}
          /\ Keys(gs) = {f.key : f \in ToSet(gs)}
      BY FieldsAsSets
    <3> QED BY <2>2, <2>3, <3>1
  <2>5. /\ EcmaForm(fs)
             = {<<P(Keys(fs), f.key), f.key, EcmaText(f.value)>> : f \in ToSet(fs)}
        /\ EcmaForm(gs)
             = {<<P(Keys(gs), f.key), f.key, EcmaText(f.value)>> : f \in ToSet(gs)}
    BY DEF EcmaForm
  <2> HIDE DEF P
  <2> QED BY <2>2, <2>3, <2>4, <2>5
<1> QED BY <1>1, <1>2

(***************************************************************************)
(* The legacy form determines the fields, and they it: the spelling        *)
(* counts.                                                                 *)
(***************************************************************************)
LEMMA CanonicalJsonIsOfFields ==
  ASSUME NEW fs, NEW gs, WellFormed(fs), WellFormed(gs)
  PROVE  CanonicalJson(fs) = CanonicalJson(gs) <=> ToSet(fs) = ToSet(gs)
<1>1. ASSUME NEW hs, NEW js, WellFormed(hs), WellFormed(js),
             CanonicalJson(hs) = CanonicalJson(js), NEW f \in ToSet(hs)
      PROVE  f \in ToSet(js)
  <2>1. PICK g \in ToSet(js) : f.key = g.key /\ Dumps(f.value) = Dumps(g.value)
    BY <1>1, FormsFixMembers
  <2>2. /\ f \in [key : CodePoints, value : JsonValues] /\ f.value \in JsonValues
        /\ g \in [key : CodePoints, value : JsonValues] /\ g.value \in JsonValues
    BY <1>1, FieldShape
  <2>3. f.value = g.value
    BY <2>1, <2>2, DumpsTellsApart
  <2>4. f = g
    BY <2>1, <2>2, <2>3
  <2> QED BY <2>4
<1>2. ASSUME CanonicalJson(fs) = CanonicalJson(gs) PROVE ToSet(fs) = ToSet(gs)
  BY <1>1, <1>2
<1>3. ASSUME ToSet(fs) = ToSet(gs) PROVE CanonicalJson(fs) = CanonicalJson(gs)
  <2>1. Keys(fs) = Keys(gs)
    BY <1>3, FieldsAsSets
  <2> QED BY <1>3, <2>1, Zenon DEF CanonicalJson
<1> QED BY <1>2, <1>3

(***************************************************************************)
(* A form that both conventions write, each for a pack of its own, is of   *)
(* packs with the same meanings: trying the second convention after the    *)
(* first accepts nothing else.                                             *)
(***************************************************************************)
LEMMA FormsOfOneMeaning ==
  ASSUME NEW fs, NEW gs, WellFormed(fs), WellFormed(gs),
         EcmaForm(fs) = CanonicalJson(gs)
  PROVE  Meanings(fs) = Meanings(gs)
<1>1. ASSUME NEW f \in ToSet(fs), NEW g \in ToSet(gs),
             EcmaText(f.value) = Dumps(g.value)
      PROVE  Meaning(f.value) = Meaning(g.value)
  <2>1. f.value \in JsonValues /\ g.value \in JsonValues
    BY FieldShape
  <2> QED BY <1>1, <2>1, BothWrite, WrittenOnce
<1>2. \A f \in ToSet(fs) : \E g \in ToSet(gs) :
        f.key = g.key /\ Meaning(f.value) = Meaning(g.value)
  BY <1>1, FormsFixMembers
<1>3. \A g \in ToSet(gs) : \E f \in ToSet(fs) :
        f.key = g.key /\ Meaning(f.value) = Meaning(g.value)
  BY <1>1, FormsFixMembers
<1> QED BY <1>2, <1>3, SameMeanings

(***************************************************************************)
(* The other spelling of a number is a value.                              *)
(***************************************************************************)
LEMMA RespelledIsJson ==
  ASSUME NEW v \in JsonValues, Number(v), Fraction(v) = <<>>,
         NEW kind \in {"int", "float"}
  PROVE  [v EXCEPT !.kind = kind, !.neg = @ /\ v.digits # << 0 >>] \in JsonValues
<1> DEFINE w == [v EXCEPT !.kind = kind, !.neg = @ /\ v.digits # <<0>>]
<1>1. /\ v \in [kind : {"int", "float", "text", "bool", "nan"}, neg : BOOLEAN,
                digits : Seq(0..9), n : Int]
      /\ \/ v.digits = <<0>> /\ v.n = 1
         \/ v.digits # <<>> /\ v.digits[1] # 0 /\ v.digits[Len(v.digits)] # 0
  BY DEF JsonValues
<1>2. Len(v.digits) <= v.n
  <2>1. v.n \in Int /\ Len(v.digits) \in Nat
    BY <1>1
  <2>2. ~(v.n < Len(v.digits))
    <3>1. SUFFICES ASSUME v.n < Len(v.digits) PROVE FALSE
      OBVIOUS
    <3>2. Len(Fraction(v)) = Len(v.digits) - v.n
      BY <3>1, FractionShape
    <3>3. Len(Fraction(v)) = 0
      OBVIOUS
    <3> QED BY <2>1, <3>1, <3>2, <3>3
  <2> QED BY <2>1, <2>2
<1>3. /\ w.kind = kind /\ w.digits = v.digits /\ w.n = v.n
      /\ w.neg = (v.neg /\ v.digits # <<0>>)
  BY <1>1
<1>4. w \in [kind : {"int", "float", "text", "bool", "nan"}, neg : BOOLEAN,
             digits : Seq(0..9), n : Int]
  BY <1>1
<1>5. w.digits = <<0>> => ~w.neg
  BY <1>3
<1>6. Number(w)
  BY <1>3 DEF Number
<1> HIDE DEF w
<1>7. w \in JsonValues
  BY <1>1, <1>2, <1>3, <1>4, <1>5, <1>6 DEF JsonValues
<1> QED BY <1>7 DEF w

(***************************************************************************)
(* A pack with a value replaced is a pack.                                 *)
(***************************************************************************)
LEMMA AlteredIsWellFormed ==
  ASSUME NEW fs, WellFormed(fs), NEW i \in DOMAIN fs, NEW v \in JsonValues
  PROVE  WellFormed([fs EXCEPT ![i].value = v])
<1> DEFINE S == [key : CodePoints, value : JsonValues]
<1>1. fs \in Seq(S) /\ fs[i] \in S
  <2>1. fs \in Seq(S)
    BY DEF WellFormed
  <2> HIDE DEF S
  <2> QED BY <2>1
<1>2. [fs[i] EXCEPT !.value = v] \in S
  BY <1>1
<1>3. [fs EXCEPT ![i].value = v] = [fs EXCEPT ![i] = [fs[i] EXCEPT !.value = v]]
  BY <1>1
<1> HIDE DEF S
<1>4. [fs EXCEPT ![i] = [fs[i] EXCEPT !.value = v]] \in Seq(S)
  BY <1>1, <1>2
<1> QED BY <1>3, <1>4 DEF WellFormed, S

(***************************************************************************)
(* A pack in another order is a pack.                                      *)
(***************************************************************************)
LEMMA ReversedIsWellFormed ==
  ASSUME NEW fs, WellFormed(fs)
  PROVE  WellFormed(Reverse(fs))
<1> DEFINE S == [key : CodePoints, value : JsonValues]
<1>1. fs \in Seq(S)
  BY DEF WellFormed
<1> HIDE DEF S
<1>2. \A i \in 1..Len(fs) : fs[(Len(fs) - i) + 1] \in S
  BY <1>1
<1>3. Reverse(fs) \in Seq(S)
  BY <1>1, <1>2 DEF Reverse
<1> QED BY <1>3 DEF WellFormed, S

(***************************************************************************)
(* On the way a pack stays a pack, and its hash that of what was issued.   *)
(***************************************************************************)
THEOREM PackInvariant == PackSpec => []PackInv
<1>1. PackInit => PackInv
  <2> SUFFICES ASSUME PackInit PROVE PackInv
    OBVIOUS
  <2>1. /\ pack \in [fields : Packs, scheme : {"rfc8785", "mtcp-legacy"}]
        /\ fields = pack.fields
        /\ hash = PackHash(IF pack.scheme = "rfc8785" THEN EcmaForm(fields)
                           ELSE CanonicalJson(fields))
    BY DEF PackInit
  <2>2. pack.fields \in Packs /\ pack.scheme \in {"rfc8785", "mtcp-legacy"}
    BY <2>1
  <2>3. WellFormed(pack.fields)
    BY <2>2, PacksAssumption DEF WellFormed
  <2> QED BY <2>1, <2>2, <2>3 DEF PackInv
<1>2. PackInv /\ [PackNext]_packVars => PackInv'
  <2> SUFFICES ASSUME PackInv, [PackNext]_packVars PROVE PackInv'
    OBVIOUS
  <2>1. WellFormed(fields)
    BY DEF PackInv
  <2>2. ASSUME UNCHANGED pack, WellFormed(fields)', UNCHANGED hash \/ hash' = NoPackHash
        PROVE  PackInv'
    BY <2>2 DEF PackInv, PackHash
  <2>3. CASE Reorder
    <3>1. fields' = Reverse(fields) /\ UNCHANGED <<pack, hash>>
      BY <2>3 DEF Reorder, Change
    <3>2. WellFormed(fields)'
      BY <2>1, <3>1, ReversedIsWellFormed
    <3> QED BY <2>2, <3>1, <3>2
  <2>4. ASSUME NEW i \in DOMAIN fields, Respell(i) PROVE PackInv'
    <3> DEFINE value == fields[i].value
    <3>1. PICK kind \in {"int", "float"} :
            fields' = [fields EXCEPT
                         ![i].value = [value EXCEPT !.kind = kind,
                                                    !.neg = @ /\ value.digits # <<0>>]]
      BY <2>4 DEF Respell
    <3>2. UNCHANGED <<pack, hash>> /\ Number(value) /\ Fraction(value) = <<>>
      BY <2>4 DEF Respell, Change
    <3>3. value \in JsonValues
      <4>1. fields[i] \in ToSet(fields)
        BY DEF ToSet
      <4> QED BY <2>1, <4>1, FieldShape
    <3>4. [value EXCEPT !.kind = kind, !.neg = @ /\ value.digits # <<0>>] \in JsonValues
      BY <3>2, <3>3, RespelledIsJson
    <3>5. WellFormed(fields)'
      BY <2>1, <3>1, <3>4, AlteredIsWellFormed
    <3> QED BY <2>2, <3>2, <3>5
  <2>5. ASSUME NEW i \in DOMAIN fields, NEW value \in Values, Alter(i, value)
        PROVE  PackInv'
    <3>1. fields' = [fields EXCEPT ![i].value = value] /\ UNCHANGED <<pack, hash>>
      BY <2>5 DEF Alter, Change
    <3>2. value \in JsonValues
      BY PacksAssumption
    <3>3. WellFormed(fields)'
      BY <2>1, <3>1, <3>2, AlteredIsWellFormed
    <3> QED BY <2>2, <3>1, <3>3
  <2>6. CASE LoseHash
    <3>1. UNCHANGED <<pack, fields>> /\ hash' = NoPackHash
      BY <2>6 DEF LoseHash, Change
    <3> QED BY <2>1, <2>2, <3>1
  <2>7. CASE UNCHANGED packVars
    BY <2>1, <2>2, <2>7 DEF packVars
  <2> QED BY <2>3, <2>4, <2>5, <2>6, <2>7 DEF PackNext
<1> QED BY <1>1, <1>2, PTL DEF PackSpec

(***************************************************************************)
(* What verify_evidence_pack reports, of the conformant hash as the issuer *)
(* computes it.                                                            *)
(***************************************************************************)
LEMMA VerifyCases ==
  ASSUME PackInv
  PROVE  /\ Verify = "rfc8785" => hash = PackHash(EcmaForm(fields))
         /\ Verify = "mtcp-legacy" => /\ hash = PackHash(CanonicalJson(fields))
                                     /\ hash # PackHash(EcmaForm(fields))
         /\ (\A i \in DOMAIN fields : ~Raises(fields[i].value))
              /\ hash = PackHash(EcmaForm(fields)) => Verify = "rfc8785"
         /\ hash = PackHash(CanonicalJson(fields)) => Verify # ""
<1>1. CASE \E i \in DOMAIN fields : Raises(fields[i].value)
  BY <1>1 DEF Verify
<1>2. CASE \A i \in DOMAIN fields : ~Raises(fields[i].value)
  <2>1. Canonicalize(fields) = EcmaForm(fields)
    BY <1>2, CanonicalizeIsEcmaScript DEF PackInv
  <2>2. Verify = IF hash = PackHash(Canonicalize(fields)) THEN "rfc8785"
                 ELSE IF hash = PackHash(CanonicalJson(fields))
                      THEN "mtcp-legacy" ELSE ""
    BY <1>2 DEF Verify
  <2> QED BY <2>1, <2>2
<1> QED BY <1>1, <1>2

(***************************************************************************)
(* A hash fixes the form it is of.                                         *)
(***************************************************************************)
LEMMA HashedForm ==
  ASSUME PackInv, NEW form, hash = PackHash(form)
  PROVE  /\ pack.scheme = "rfc8785" => form = EcmaForm(pack.fields)
         /\ pack.scheme # "rfc8785" => form = CanonicalJson(pack.fields)
         /\ hash # NoPackHash
<1>1. \A a, b : PackHash(a) = PackHash(b) => a = b
  BY DEF PackHash
<1>2. \A a : PackHash(a) # NoPackHash
  BY DEF PackHash, NoPackHash
<1> QED BY <1>1, <1>2 DEF PackInv

(***************************************************************************)
(* A pack that verifies, under either canonicalization, has the values     *)
(* that were issued (verify_evidence_pack).                                *)
(***************************************************************************)
THEOREM ValidPackIsAsIssued == PackSpec => []ValidPackHasTheIssuedValues
<1>1. PackInv => ValidPackHasTheIssuedValues
  <2> SUFFICES ASSUME PackInv, Verify \in {"rfc8785", "mtcp-legacy"}
               PROVE  Meanings(fields) = Meanings(pack.fields)
    BY DEF ValidPackHasTheIssuedValues
  <2>1. WellFormed(fields) /\ WellFormed(pack.fields)
    BY DEF PackInv
  <2>2. CASE Verify = "rfc8785"
    <3>1. hash = PackHash(EcmaForm(fields))
      BY <2>2, VerifyCases
    <3>2. \/ EcmaForm(fields) = EcmaForm(pack.fields)
          \/ EcmaForm(fields) = CanonicalJson(pack.fields)
      BY <3>1, HashedForm
    <3> QED BY <2>1, <3>2, EcmaFormIsOfMeanings, FormsOfOneMeaning
  <2>3. CASE Verify = "mtcp-legacy"
    <3>1. hash = PackHash(CanonicalJson(fields))
      BY <2>3, VerifyCases
    <3>2. \/ CanonicalJson(fields) = EcmaForm(pack.fields)
          \/ CanonicalJson(fields) = CanonicalJson(pack.fields)
      BY <3>1, HashedForm
    <3>3. ASSUME CanonicalJson(fields) = EcmaForm(pack.fields)
          PROVE  Meanings(fields) = Meanings(pack.fields)
      BY <2>1, <3>3, FormsOfOneMeaning
    <3>4. ASSUME CanonicalJson(fields) = CanonicalJson(pack.fields)
          PROVE  Meanings(fields) = Meanings(pack.fields)
      <4>1. ToSet(fields) = ToSet(pack.fields)
        BY <2>1, <3>4, CanonicalJsonIsOfFields
      <4> QED BY <2>1, <4>1, FieldsAsSets
    <3> QED BY <3>2, <3>3, <3>4
  <2> QED BY <2>2, <2>3
<1> QED BY <1>1, PackInvariant, PTL

(***************************************************************************)
(* A pack of an issuer that has migrated verifies as rfc8785 in whatever   *)
(* order and spelling its values arrive, if canonicalize accepts each      *)
(* (verify_evidence_pack).                                                 *)
(***************************************************************************)
THEOREM RelayedPackStillVerifies == PackSpec => []RelayedPackVerifies
<1>1. PackInv => RelayedPackVerifies
  <2> SUFFICES ASSUME PackInv, pack.scheme = "rfc8785", hash # NoPackHash,
                      Meanings(fields) = Meanings(pack.fields),
                      \A i \in DOMAIN fields : ~Raises(fields[i].value)
               PROVE  Verify = "rfc8785"
    BY DEF RelayedPackVerifies
  <2>1. EcmaForm(fields) = EcmaForm(pack.fields)
    BY EcmaFormIsOfMeanings DEF PackInv
  <2>2. hash = PackHash(EcmaForm(pack.fields))
    BY DEF PackInv
  <2> QED BY <2>1, <2>2, VerifyCases
<1> QED BY <1>1, PackInvariant, PTL

(***************************************************************************)
(* mtcp-legacy is reported only of packs issued under it and spelled as    *)
(* issued, and such a pack verifies if canonicalize accepts its values     *)
(* (verify_evidence_pack).                                                 *)
(***************************************************************************)
THEOREM LegacyReportIsRight == PackSpec => []LegacyIsReportedOfLegacy
<1>1. PackInv => LegacyIsReportedOfLegacy
  <2> SUFFICES ASSUME PackInv PROVE LegacyIsReportedOfLegacy
    OBVIOUS
  <2>1. WellFormed(fields) /\ WellFormed(pack.fields)
        /\ pack.scheme \in {"rfc8785", "mtcp-legacy"}
    BY DEF PackInv
  <2>2. ASSUME Verify = "mtcp-legacy"
        PROVE  /\ pack.scheme = "mtcp-legacy" /\ hash # NoPackHash
               /\ ToSet(fields) = ToSet(pack.fields)
    <3>1. /\ hash = PackHash(CanonicalJson(fields))
          /\ hash # PackHash(EcmaForm(fields))
      BY <2>2, VerifyCases
    <3>2. pack.scheme # "rfc8785"
      <4>1. SUFFICES ASSUME pack.scheme = "rfc8785" PROVE FALSE
        OBVIOUS
      <4>2. CanonicalJson(fields) = EcmaForm(pack.fields)
        BY <3>1, <4>1, HashedForm
      <4>3. Meanings(fields) = Meanings(pack.fields)
        BY <2>1, <4>2, FormsOfOneMeaning
      <4>4. EcmaForm(fields) = EcmaForm(pack.fields)
        BY <2>1, <4>3, EcmaFormIsOfMeanings
      <4> QED BY <3>1, <4>2, <4>4
    <3>3. CanonicalJson(fields) = CanonicalJson(pack.fields) /\ hash # NoPackHash
      BY <3>1, <3>2, HashedForm
    <3> QED BY <2>1, <3>2, <3>3, CanonicalJsonIsOfFields
  <2>3. ASSUME pack.scheme = "mtcp-legacy", hash # NoPackHash,
               ToSet(fields) = ToSet(pack.fields)
        PROVE  Verify # ""
    <3>1. hash = PackHash(CanonicalJson(pack.fields))
      BY <2>3 DEF PackInv
    <3>2. CanonicalJson(fields) = CanonicalJson(pack.fields)
      BY <2>1, <2>3, CanonicalJsonIsOfFields
    <3> QED BY <3>1, <3>2, VerifyCases
  <2> QED BY <2>2, <2>3 DEF LegacyIsReportedOfLegacy
<1> QED BY <1>1, PackInvariant, PTL
=============================================================================
