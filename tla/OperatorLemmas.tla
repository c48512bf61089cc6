--------------------------- MODULE OperatorLemmas ---------------------------
(***************************************************************************)
(* What the operators of Receipts and Workflow return, for all arguments,  *)
(* with the facts about naturals and lists that the proof modules share.   *)
(* No state machine is mentioned here.                                     *)
(***************************************************************************)
EXTENDS Receipts, Workflow, SequenceTheorems, FiniteSetTheorems,
        WellFoundedInduction, TLAPS

(***************************************************************************)
(* A non-empty set of naturals has a least element: the form in which the  *)
(* proofs below use induction (a least position where a claim fails).      *)
(***************************************************************************)
LEMMA LeastElement ==
  ASSUME NEW S \in SUBSET Nat, S # {}
  PROVE  \E m \in S : \A k \in S : m <= k
<1> DEFINE R == OpToRel(<, Nat)
<1>1. \E m \in S : \A k \in S : <<k, m>> \notin R
  BY NatLessThanWellFounded, WFMin
<1>2. \A k, m \in Nat : k < m => <<k, m>> \in R
  BY DEF OpToRel
<1>3. \E m \in S : \A k \in S : ~ (k < m)
  <2> HIDE DEF R
  <2> QED BY <1>1, <1>2
<1>4. QED
  BY <1>3

(***************************************************************************)
(* Among finitely many positions in an order, where leq holds the pairs of *)
(* which the first is not above the second, one is the last of the highest. *)
(***************************************************************************)
Highest(S, leq, i) ==
  /\ i \in S
  /\ \A j \in S : <<j, i>> \in leq /\ (<<i, j>> \in leq => j <= i)

(* There is such a position in every non-empty set of them.                *)
LEMMA HighestExists ==
  ASSUME NEW n \in Nat, NEW S \in SUBSET (1..n), S # {}, NEW leq,
         \A i, j \in S : <<i, j>> \in leq \/ <<j, i>> \in leq,
         \A i, j, k \in S :
           <<i, j>> \in leq /\ <<j, k>> \in leq => <<i, k>> \in leq
  PROVE  \E i \in S : Highest(S, leq, i)
<1> DEFINE Upto(k) == {i \in S : i <= k}
           F == {k \in 0..n : /\ Upto(k) # {}
                              /\ ~ \E i \in Upto(k) : Highest(Upto(k), leq, i)}
<1>0. \A i \in S : i \in Nat /\ 1 <= i /\ i <= n
  OBVIOUS
<1>1. Upto(0) = {} /\ Upto(n) = S
  <2>1. \A i \in S : ~ (i <= 0)
    BY <1>0
  <2>2. \A i \in S : i <= n
    BY <1>0
  <2> QED BY <2>1, <2>2
<1>2. ASSUME F # {} PROVE FALSE
  <2>1. F \in SUBSET Nat
    OBVIOUS
  <2>2. PICK m \in F : \A k \in F : m <= k
    <3> HIDE DEF F
    <3> QED BY <1>2, <2>1, LeastElement
  <2>3. m \in 1..n /\ m - 1 \in 0..n /\ m - 1 \notin F
    <3>1. m \in 0..n /\ Upto(m) # {}
      BY <2>2
    <3>2. m # 0
      BY <1>1, <3>1
    <3>3. m \in 1..n /\ m - 1 \in 0..n /\ m - 1 < m
      BY <3>1, <3>2
    <3> HIDE DEF F
    <3>4. F \subseteq 0..n
      BY DEF F
    <3> QED BY <2>2, <3>3, <3>4
  <2>4. Upto(m) = IF m \in S THEN Upto(m - 1) \cup {m} ELSE Upto(m - 1)
    <3>1. \A i \in S : i <= m <=> i <= m - 1 \/ i = m
      BY <1>0, <2>3
    <3> QED BY <2>3, <3>1
  <2>5. CASE Upto(m - 1) = {}
    <3>1. Upto(m) = {m} /\ m \in S
      BY <2>2, <2>4, <2>5
    <3>2. Highest(Upto(m), leq, m)
      BY <3>1, <2>3 DEF Highest
    <3> QED BY <2>2, <3>1, <3>2
  <2>6. CASE Upto(m - 1) # {}
    <3>1. PICK i \in Upto(m - 1) : Highest(Upto(m - 1), leq, i)
      BY <2>3, <2>6
    <3>2. CASE m \notin S
      BY <2>2, <2>4, <3>1, <3>2
    <3>3. CASE m \in S
      <4>1. Upto(m) = Upto(m - 1) \cup {m}
        BY <2>4, <3>3
      <4>2. \A j \in Upto(m - 1) : j < m /\ j \in S
        BY <2>3
      <4>3. CASE <<i, m>> \in leq
        <5>1. Highest(Upto(m), leq, m)
          <6> HIDE DEF Upto
          <6>1. \A j \in Upto(m - 1) : <<j, i>> \in leq
            BY <3>1 DEF Highest
          <6>2. ASSUME NEW j \in Upto(m - 1)
                PROVE  <<j, m>> \in leq /\ j <= m
            <7>1. i \in S /\ j \in S /\ m \in S /\ <<j, i>> \in leq
              BY <3>1, <3>3, <4>2, <6>1
            <7>2. <<j, m>> \in leq
              BY <4>3, <7>1
            <7>3. j \in Nat /\ j < m /\ m \in Nat
              BY <1>0, <2>3, <4>2, <7>1
            <7> QED BY <7>2, <7>3
          <6>3. <<m, m>> \in leq /\ m <= m /\ m \in Upto(m)
            BY <2>3, <3>3, <4>1
          <6> QED BY <4>1, <6>2, <6>3 DEF Highest
        <5> QED BY <2>2, <4>1, <5>1
      <4>4. CASE <<i, m>> \notin leq
        <5>1. <<m, i>> \in leq
          BY <3>3, <4>2, <4>4
        <5>2. Highest(Upto(m), leq, i)
          <6> HIDE DEF Upto
          <6> QED BY <3>1, <4>1, <4>4, <5>1 DEF Highest
        <5> QED BY <2>2, <3>1, <4>1, <5>2
      <4> QED BY <4>3, <4>4
    <3> QED BY <3>2, <3>3
  <2> QED BY <2>5, <2>6
<1>3. \E i \in Upto(n) : Highest(Upto(n), leq, i)
  BY <1>1, <1>2
<1> QED BY <1>1, <1>3

-----------------------------------------------------------------------------
(***************************************************************************)
(* Lists: the sequences of the models, whatever their elements are.        *)
(***************************************************************************)
IsList(s) == Len(s) \in Nat /\ s = [i \in 1..Len(s) |-> s[i]]

ItemsWith(s, r) == {s[i] : i \in 1..Len(s)} \cup {r}

(* A list is a sequence over its elements.                                 *)
LEMMA ListIsSeq ==
  ASSUME NEW s, NEW r, IsList(s)
  PROVE  /\ s \in Seq(ItemsWith(s, r))
         /\ r \in ItemsWith(s, r)
<1> DEFINE S == ItemsWith(s, r)
<1>1. s \in [1..Len(s) -> S]
  BY DEF IsList, ItemsWith
<1>2. Len(s) \in Nat
  BY DEF IsList
<1>3. r \in S
  BY DEF ItemsWith
<1> HIDE DEF S
<1>4. s \in Seq(S)
  BY <1>1, <1>2, SeqDef
<1> QED BY <1>3, <1>4 DEF S

(* A sequence is a list.                                                   *)
LEMMA SeqIsList ==
  ASSUME NEW S, NEW s \in Seq(S)
  PROVE  IsList(s)
<1>1. Len(s) \in Nat /\ s \in [1..Len(s) -> S]
  BY LenProperties
<1> QED BY <1>1 DEF IsList

(* A function on 1..n is a list of length n. *)
LEMMA FunctionIsList ==
  ASSUME NEW n \in Nat, NEW f, f = [i \in 1..n |-> f[i]]
  PROVE  IsList(f) /\ Len(f) = n
<1> DEFINE S == {f[i] : i \in 1..n}
<1>1. f \in [1..n -> S]
  OBVIOUS
<1> HIDE DEF S
<1>2. f \in Seq(S)
  BY <1>1, SeqDef
<1>3. Len(f) = n
  BY <1>1, <1>2, LenProperties
<1> QED BY <1>2, <1>3, SeqIsList

(* The empty sequence is the list of length zero.                          *)
LEMMA EmptyList ==
  /\ IsList(<<>>) /\ Len(<<>>) = 0
  /\ \A s : IsList(s) => (s = <<>> <=> Len(s) = 0)
<1>1. <<>> \in Seq({}) /\ Len(<<>>) = 0
  BY EmptySeq
<1>2. ASSUME NEW s, IsList(s), Len(s) = 0 PROVE s = <<>>
  <2>1. s \in Seq(ItemsWith(s, 0))
    BY <1>2, ListIsSeq
  <2> QED BY <1>2, <2>1, EmptySeq
<1> QED BY <1>1, <1>2, SeqIsList

(* Append adds one element, at the end.                                    *)
LEMMA AppendToList ==
  ASSUME NEW s, NEW r, IsList(s)
  PROVE  /\ Len(Append(s, r)) = Len(s) + 1
         /\ IsList(Append(s, r))
         /\ \A i \in 1..Len(s) : Append(s, r)[i] = s[i]
         /\ Append(s, r)[Len(s) + 1] = r
<1> DEFINE t == Append(s, r)
<1>1. /\ t \in Seq(ItemsWith(s, r))
      /\ Len(t) = Len(s) + 1
      /\ \A i \in 1..Len(s) : t[i] = s[i]
      /\ t[Len(s) + 1] = r
  BY ListIsSeq, AppendProperties
<1> HIDE DEF t
<1>2. IsList(t)
  BY <1>1, SeqIsList
<1> QED BY <1>1, <1>2 DEF t

(* A list is what Append returns when it has the elements of that. *)
LEMMA AppendUnique ==
  ASSUME NEW s, NEW t, NEW r, IsList(s), IsList(t), Len(t) = Len(s) + 1,
         \A i \in 1..Len(s) : t[i] = s[i], t[Len(s) + 1] = r
  PROVE  t = Append(s, r)
<1> DEFINE u == Append(s, r)
<1>1. /\ Len(u) = Len(s) + 1 /\ IsList(u)
      /\ \A i \in 1..Len(s) : u[i] = s[i]
      /\ u[Len(s) + 1] = r
  BY AppendToList
<1> HIDE DEF u
<1>2. Len(s) \in Nat
  BY DEF IsList
<1>3. \A i \in 1..Len(t) : t[i] = u[i]
  BY <1>1, <1>2
<1>4. t = u
  BY <1>1, <1>3 DEF IsList
<1> QED BY <1>4 DEF u

(* An element replaced leaves the others and the length.                   *)
LEMMA ReplaceInList ==
  ASSUME NEW s, NEW r, IsList(s), NEW i \in 1..Len(s)
  PROVE  /\ Len([s EXCEPT ![i] = r]) = Len(s)
         /\ IsList([s EXCEPT ![i] = r])
         /\ \A j \in 1..Len(s) :
              [s EXCEPT ![i] = r][j] = IF j = i THEN r ELSE s[j]
<1> DEFINE S == ItemsWith(s, r)
           t == [s EXCEPT ![i] = r]
<1>1. s \in Seq(S) /\ r \in S
  BY ListIsSeq
<1>2. /\ t \in Seq(S) /\ Len(t) = Len(s)
      /\ \A j \in 1..Len(s) : t[j] = IF j = i THEN r ELSE s[j]
  BY <1>1, ExceptSeq
<1> HIDE DEF S, t
<1>3. IsList(t)
  BY <1>2, SeqIsList
<1> QED BY <1>2, <1>3 DEF t

-----------------------------------------------------------------------------
(***************************************************************************)
(* The hashed content determines every hashed field, although optional     *)
(* keys are left out: a key is missing for one value of its field only     *)
(* (_compute_hash).                                                        *)
(***************************************************************************)
LEMMA ContentBindsFields ==
  ASSUME NEW r, NEW s, Content(r) = Content(s), NEW f \in HashedFields
  PROVE  r[f] = s[f]
<1>1. HashedKeys(r) = HashedKeys(s)
  <2>1. /\ DOMAIN Content(r) = HashedKeys(r)
        /\ DOMAIN Content(s) = HashedKeys(s)
    BY DEF Content
  <2> QED BY <2>1
<1>2. CASE f \in HashedKeys(r)
  <2>1. Content(r)[f] = r[f] /\ Content(s)[f] = s[f]
    BY <1>1, <1>2 DEF Content
  <2> QED BY <2>1
<1>3. CASE f \notin HashedKeys(r)
  <2>1. f \in DOMAIN LeftOutAt /\ r[f] = LeftOutAt[f]
    BY <1>3 DEF HashedKeys
  <2>2. f \notin HashedKeys(s)
    BY <1>1, <1>3
  <2>3. s[f] = LeftOutAt[f]
    BY <2>2 DEF HashedKeys
  <2> QED BY <2>1, <2>3
<1> QED BY <1>2, <1>3

(***************************************************************************)
(* Equal digests come from equal contents, and no digest is the "no        *)
(* previous receipt" value.                                                *)
(***************************************************************************)
LEMMA Sha256Facts ==
  /\ \A c, d : Sha256(c) = Sha256(d) => c = d
  /\ \A c : Sha256(c) # NoHash
BY DEF Sha256, NoHash

(* Receipts of one hash agree on every hashed field.                       *)
LEMMA HashBindsFields ==
  ASSUME NEW r, NEW s, ComputeHash(r) = ComputeHash(s)
  PROVE  \A f \in HashedFields : r[f] = s[f]
<1>1. Content(r) = Content(s)
  BY Sha256Facts DEF ComputeHash
<1> QED BY <1>1, ContentBindsFields

(* A receipt that verifies is determined by its receipt_hash. *)
LEMMA VerifiedReceiptFixed ==
  ASSUME NEW r, NEW s, IsReceipt(r), IsReceipt(s), VerifyHash(r), VerifyHash(s),
         r["receipt_hash"] = s["receipt_hash"]
  PROVE  r = s
<1>1. \A f \in HashedFields : r[f] = s[f]
  BY HashBindsFields DEF VerifyHash
<1>2. \A f \in ReceiptFields : r[f] = s[f]
  BY <1>1 DEF ReceiptFields
<1>3. [f \in ReceiptFields |-> r[f]] = [f \in ReceiptFields |-> s[f]]
  BY <1>2
<1> QED BY <1>3 DEF IsReceipt

(* Receipts that agree on the hashed fields have the same hash. *)
LEMMA SameFieldsSameHash ==
  ASSUME NEW r, NEW s, \A f \in HashedFields : r[f] = s[f]
  PROVE  ComputeHash(r) = ComputeHash(s)
<1>1. HashedKeys(r) = HashedKeys(s)
  BY DEF HashedKeys
<1>2. \A f \in HashedKeys(r) : r[f] = s[f]
  BY DEF HashedKeys
<1>3. Content(r) = Content(s)
  BY <1>1, <1>2 DEF Content
<1> QED BY <1>3 DEF ComputeHash

(***************************************************************************)
(* A receipt is sealed when it is constructed: it has every field, it      *)
(* verifies, and its link is the hash it was given.                        *)
(***************************************************************************)
LEMMA NewReceiptSealed ==
  ASSUME NEW args, NEW previous
  PROVE  /\ IsReceipt(NewReceipt(args, previous))
         /\ VerifyHash(NewReceipt(args, previous))
         /\ NewReceipt(args, previous)["previous_hash"] = previous
<1> DEFINE unsealed == [f \in HashedFields |->
                          CASE f = "previous_hash" -> previous
                            [] f = "canonicalization" -> CurrentScheme
                            [] OTHER -> args[f]]
           r == NewReceipt(args, previous)
<1>0. r = [f \in ReceiptFields |->
             IF f = "receipt_hash" THEN ComputeHash(unsealed) ELSE unsealed[f]]
  BY DEF NewReceipt
<1>1. /\ "previous_hash" \in HashedFields
      /\ "receipt_hash" \notin HashedFields
      /\ HashedFields \subseteq ReceiptFields
      /\ "receipt_hash" \in ReceiptFields
  BY DEF HashedFields, RequiredFields, LeftOutAt, ReceiptFields
<1>2. unsealed["previous_hash"] = previous
  BY <1>1
<1> HIDE DEF unsealed, r
<1>3. \A f \in HashedFields : r[f] = unsealed[f]
  BY <1>0, <1>1
<1>4. r["receipt_hash"] = ComputeHash(unsealed)
  BY <1>0, <1>1
<1>5. ComputeHash(r) = ComputeHash(unsealed)
  BY <1>3, SameFieldsSameHash
<1>6. IsReceipt(r)
  BY <1>0 DEF IsReceipt
<1>7. r["previous_hash"] = previous
  BY <1>1, <1>2, <1>3
<1> QED BY <1>4, <1>5, <1>6, <1>7 DEF VerifyHash, r

(* A new receipt carries the arguments it was constructed from.            *)
LEMMA NewReceiptCarries ==
  ASSUME NEW args, NEW previous, NEW f \in ArgFields
  PROVE  NewReceipt(args, previous)[f] = args[f]
<1>1. f \in HashedFields /\ f # "previous_hash" /\ f # "canonicalization"
  BY DEF ArgFields
<1>2. f \in ReceiptFields /\ f # "receipt_hash"
  BY <1>1 DEF ReceiptFields, HashedFields, RequiredFields, LeftOutAt
<1> QED BY <1>1, <1>2 DEF NewReceipt

(* A receipt that is linked to the last one of a verified chain can be     *)
(* added to it.                                                            *)
LEMMA AppendVerifies ==
  ASSUME NEW c, NEW r, IsList(c), VerifyChain(c), VerifyHash(r),
         r["previous_hash"] = LastHash(c)
  PROVE  VerifyChain(Append(c, r))
<1> DEFINE d == Append(c, r)
<1>1. /\ Len(d) = Len(c) + 1 /\ Len(c) \in Nat
      /\ \A i \in 1..Len(c) : d[i] = c[i]
      /\ d[Len(c) + 1] = r
  BY AppendToList DEF IsList
<1> HIDE DEF d
<1>2. ASSUME NEW i \in 1..Len(c) PROVE VerifyHash(d[i]) /\ Linked(d, i)
  <2>1. d[i] = c[i] /\ (i # 1 => d[i - 1] = c[i - 1])
    BY <1>1
  <2> QED BY <2>1 DEF VerifyChain, Linked
<1>3. VerifyHash(d[Len(d)]) /\ Linked(d, Len(d))
  <2>1. d[Len(d)] = r /\ (Len(d) # 1 => d[Len(d) - 1] = c[Len(c)])
    BY <1>1
  <2>2. c = <<>> <=> Len(d) = 1
    BY <1>1, EmptyList
  <2> QED BY <2>1, <2>2 DEF Linked, LastHash
<1>4. VerifyChain(d)
  BY <1>1, <1>2, <1>3 DEF VerifyChain
<1> QED BY <1>4 DEF d

-----------------------------------------------------------------------------
(***************************************************************************)
(* Workflow trees.  A path is a finite set of positions with an ordinal at *)
(* each.                                                                   *)
(***************************************************************************)
IsPath(states) ==
  /\ IsFiniteSet(DOMAIN states) /\ DOMAIN states \subseteq Nat
  /\ \A i \in DOMAIN states : states[i].ordinal \in Int

IsTree(tree) == \A p \in DOMAIN tree : IsPath(tree[p])

IsDocument(elems) ==
  /\ Len(elems) \in Nat /\ DOMAIN elems = 1..Len(elems)
  /\ \A i \in DOMAIN elems : elems[i].ordinal \in Int \cup {Unparsable}

(* Whatever the document, what is parsed from it is a tree. *)
LEMMA ParsedIsTree ==
  ASSUME NEW elems, IsDocument(elems)
  PROVE  IsTree(ParseWorkflowCluster(elems))
<1> DEFINE tree == ParseWorkflowCluster(elems)
<1>1. SUFFICES ASSUME NEW c \in DOMAIN tree PROVE IsPath(tree[c])
  BY DEF IsTree
<1>2. tree[c] = StatesIn(elems, c)
  BY DEF ParseWorkflowCluster
<1> DEFINE read == {k \in DOMAIN elems :
                      Container(elems[k]) = c /\ HasState(elems[k])}
<1>3. DOMAIN StatesIn(elems, c) = read
  BY DEF StatesIn
<1>4. IsFiniteSet(read) /\ read \subseteq Nat
  <2>1. IsFiniteSet(1..Len(elems))
    <3>1. Len(elems) \in Int /\ 1 \in Int
      BY DEF IsDocument
    <3> QED BY <3>1, FS_Interval
  <2>2. read \in SUBSET (1..Len(elems))
    BY DEF IsDocument
  <2> HIDE DEF read
  <2>3. IsFiniteSet(read)
    BY <2>1, <2>2, FS_Subset
  <2> QED BY <2>2, <2>3
<1>5. ASSUME NEW i \in read PROVE StatesIn(elems, c)[i].ordinal \in Int
  <2>1. StatesIn(elems, c)[i].ordinal = elems[i].ordinal
    BY DEF StatesIn, ParseOrdinalState
  <2>2. elems[i].ordinal \in Int
    BY DEF IsDocument, HasState
  <2> QED BY <2>1, <2>2
<1> HIDE DEF read
<1> QED BY <1>2, <1>3, <1>4, <1>5 DEF IsPath

Smaller(states, i) == {states[k].ordinal : k \in {l \in DOMAIN states :
                                        states[l].ordinal < states[i].ordinal}}

(***************************************************************************)
(* Where every state has an ordinal of its own, the successor in sorted    *)
(* order is the state at the next position.                                *)
(***************************************************************************)
LEMMA FollowsIsNextPosition ==
  ASSUME NEW states, IsPath(states), NEW i \in DOMAIN states,
         NEW j \in DOMAIN states,
         \A k, l \in DOMAIN states :
           states[k].ordinal = states[l].ordinal => k = l
  PROVE  Follows(states, i, j)
           <=> Position(states, j) = Position(states, i) + 1
<1> DEFINE ordinal(k) == states[k].ordinal
           A == Smaller(states, i)
           B == Smaller(states, j)
<1>1. Position(states, i) = Cardinality(A) /\ Position(states, j) = Cardinality(B)
  BY DEF Position, Smaller
<1>2. \A k \in DOMAIN states : ordinal(k) \in Int
  BY DEF IsPath
<1>3. \A k, l \in DOMAIN states :
        SortedBefore(states, k, l) <=> ordinal(k) < ordinal(l)
  <2> SUFFICES ASSUME NEW k \in DOMAIN states, NEW l \in DOMAIN states
               PROVE  SortedBefore(states, k, l) <=> ordinal(k) < ordinal(l)
    OBVIOUS
  <2>1. k = l => ~ (k < l)
    BY DEF IsPath
  <2> QED BY <2>1 DEF SortedBefore
<1>4. IsFiniteSet(A) /\ IsFiniteSet(B)
  <2>1. ASSUME NEW m \in DOMAIN states PROVE IsFiniteSet(Smaller(states, m))
    <3> DEFINE L == {l \in DOMAIN states : ordinal(l) < ordinal(m)}
               f == [k \in L |-> ordinal(k)]
               T == Smaller(states, m)
    <3>1. L \in SUBSET DOMAIN states
      OBVIOUS
    <3>2. IsFiniteSet(L)
      BY <3>1, FS_Subset DEF IsPath
    <3>3. T = {ordinal(k) : k \in L}
      BY DEF Smaller
    <3> HIDE DEF L
    <3>4. f \in [L -> T] /\ \A t \in T : \E k \in L : f[k] = t
      BY <3>3
    <3>5. f \in Surjection(L, T)
      BY <3>4 DEF Surjection
    <3> HIDE DEF f, T
    <3>6. IsFiniteSet(T)
      BY <3>2, <3>5, FS_Surjection
    <3> QED BY <3>6 DEF T
  <2> QED BY <2>1
<1>5. /\ \A k \in DOMAIN states : ordinal(k) \in A <=> ordinal(k) < ordinal(i)
      /\ \A k \in DOMAIN states : ordinal(k) \in B <=> ordinal(k) < ordinal(j)
      /\ A \cup B \subseteq {ordinal(k) : k \in DOMAIN states}
  BY DEF Smaller
<1>6. Cardinality(A) \in Nat /\ Cardinality(B) \in Nat
  BY <1>4, FS_CardinalityType
<1>7. ordinal(i) \notin A
  BY <1>2, <1>5
<1>8. /\ IsFiniteSet(A \cup {ordinal(i)})
      /\ Cardinality(A \cup {ordinal(i)}) = Cardinality(A) + 1
  <2> HIDE DEF A, ordinal
  <2> QED BY <1>4, <1>7, FS_AddElement
<1>9. ASSUME Follows(states, i, j) PROVE Cardinality(B) = Cardinality(A) + 1
  <2>1. /\ ordinal(i) < ordinal(j)
        /\ \A k \in DOMAIN states :
             ~ (ordinal(i) < ordinal(k) /\ ordinal(k) < ordinal(j))
    BY <1>3, <1>9 DEF Follows
  <2>2. \A k \in DOMAIN states :
          ordinal(k) \in B <=> ordinal(k) \in A \cup {ordinal(i)}
    BY <1>2, <1>5, <2>1
  <2>3. B = A \cup {ordinal(i)}
    BY <1>5, <2>2
  <2> QED BY <1>8, <2>3
<1>10. ASSUME Cardinality(B) = Cardinality(A) + 1 PROVE Follows(states, i, j)
  <2>1. ordinal(i) < ordinal(j)
    <3>1. SUFFICES ASSUME ordinal(j) <= ordinal(i) PROVE FALSE
      BY <1>2
    <3>2. B \in SUBSET A
      BY <1>2, <1>5, <3>1
    <3> HIDE DEF A, B
    <3>3. Cardinality(B) <= Cardinality(A)
      BY <1>4, <3>2, FS_Subset
    <3> QED BY <1>6, <1>10, <3>3
  <2>2. A \cup {ordinal(i)} \in SUBSET B
    BY <1>2, <1>5, <2>1
  <2>3. B = A \cup {ordinal(i)}
    <3> DEFINE C == A \cup {ordinal(i)}
    <3> HIDE DEF A, B, C
    <3> QED BY <1>4, <1>8, <1>10, <2>2, FS_Subset DEF C
  <2>4. \A k \in DOMAIN states :
          ~ (ordinal(i) < ordinal(k) /\ ordinal(k) < ordinal(j))
    BY <1>2, <1>5, <2>3
  <2> QED BY <1>3, <2>1, <2>4 DEF Follows
<1> QED BY <1>1, <1>9, <1>10

(* next_states returns what follows the state it is asked about. *)
LEMMA NextStatesFollow ==
  ASSUME NEW states, NEW i \in DOMAIN states, DOMAIN states \subseteq Nat,
         \A k, l \in DOMAIN states :
           states[k].ordinal = states[l].ordinal => k = l
  PROVE  NextStates(states, states[i].ordinal)
           = {j \in DOMAIN states : Follows(states, i, j)}
<1>1. \A k \in DOMAIN states : states[k].ordinal = states[i].ordinal <=> k = i
  OBVIOUS
<1>2. i <= i
  OBVIOUS
<1> QED BY <1>1, <1>2 DEF NextStates

(***************************************************************************)
(* A state with the target's symbol is a successor of the current state,   *)
(* in the path p, exactly when p is a path in which the target is adjacent *)
(* to the current state.                                                   *)
(***************************************************************************)
LEMMA SuccessorsAreAdjacent ==
  ASSUME NEW tree, IsTree(tree), DistinctOrdinals(tree),
         NEW current, NEW target, NEW p
  PROVE  (\E x \in Successors(tree, current) :
            x[1] = p /\ tree[x[1]][x[2]].symbol = target)
           <=> p \in AdjacentIn(tree, current, target)
<1>1. ASSUME NEW q \in DOMAIN tree, NEW i \in DOMAIN tree[q],
             NEW j \in DOMAIN tree[q]
      PROVE  j \in NextStates(tree[q], tree[q][i].ordinal)
               <=> Position(tree[q], j) = Position(tree[q], i) + 1
  <2>1. /\ IsPath(tree[q]) /\ DOMAIN tree[q] \subseteq Nat
        /\ \A k, l \in DOMAIN tree[q] :
             tree[q][k].ordinal = tree[q][l].ordinal => k = l
    BY DEF IsTree, IsPath, DistinctOrdinals
  <2> QED BY <2>1, NextStatesFollow, FollowsIsNextPosition
<1>2. ASSUME NEW x \in Successors(tree, current), x[1] = p,
             tree[x[1]][x[2]].symbol = target
      PROVE  p \in AdjacentIn(tree, current, target)
  <2>1. PICK m \in FindCurrentState(tree, current) : x \in NextOf(tree, m)
    BY DEF Successors
  <2>2. /\ m[1] \in DOMAIN tree /\ m[2] \in DOMAIN tree[m[1]]
        /\ tree[m[1]][m[2]].symbol = current
    BY DEF FindCurrentState
  <2>3. x[1] = m[1] /\ x[2] \in NextStates(tree[m[1]], tree[m[1]][m[2]].ordinal)
    BY <2>1 DEF NextOf
  <2>4. x[2] \in DOMAIN tree[p]
    BY <1>2, <2>3 DEF NextStates
  <2>5. Position(tree[p], x[2]) = Position(tree[p], m[2]) + 1
    BY <1>1, <1>2, <2>2, <2>3, <2>4
  <2>6. IsAdjacent(tree[p], current, target)
    BY <1>2, <2>2, <2>3, <2>4, <2>5 DEF IsAdjacent
  <2> QED BY <1>2, <2>2, <2>3, <2>6 DEF AdjacentIn
<1>3. ASSUME p \in AdjacentIn(tree, current, target)
      PROVE  \E x \in Successors(tree, current) :
               x[1] = p /\ tree[x[1]][x[2]].symbol = target
  <2>1. p \in DOMAIN tree
    BY <1>3 DEF AdjacentIn
  <2>2. PICK i, j \in DOMAIN tree[p] :
          /\ tree[p][i].symbol = current /\ tree[p][j].symbol = target
          /\ Position(tree[p], j) = Position(tree[p], i) + 1
    BY <1>3 DEF AdjacentIn, IsAdjacent
  <2>3. j \in NextStates(tree[p], tree[p][i].ordinal)
    BY <1>1, <2>1, <2>2
  <2> DEFINE m == <<p, i>>
             x == <<p, j>>
  <2>4. m \in FindCurrentState(tree, current)
    BY <2>1, <2>2 DEF FindCurrentState
  <2>5. x \in NextOf(tree, m)
    BY <2>3 DEF NextOf
  <2>6. x \in Successors(tree, current)
    BY <2>4, <2>5 DEF Successors
  <2> QED BY <2>2, <2>6
<1> QED BY <1>2, <1>3

(* get_allowed_transitions lists every documented transition, and each     *)
(* with the paths that have it.                                            *)
LEMMA AllowedAreAdjacent ==
  ASSUME NEW tree, IsTree(tree), DistinctOrdinals(tree), NEW current
  PROVE  AllowedTransitions(tree, current)
           = {[target |-> t, paths |-> AdjacentIn(tree, current, t)] :
                t \in {u \in SymbolsIn(tree) :
                         AdjacentIn(tree, current, u) # {}}}
<1> DEFINE SymbolAt(x) == tree[x[1]][x[2]].symbol
           next == Successors(tree, current)
           Paths(t) == {x[1] : x \in {y \in next : SymbolAt(y) = t}}
           Targets == {SymbolAt(x) : x \in next}
           Documented == {u \in SymbolsIn(tree) :
                            AdjacentIn(tree, current, u) # {}}
<1>1. \A t : Paths(t) = AdjacentIn(tree, current, t)
  <2> SUFFICES ASSUME NEW t, NEW p
               PROVE  p \in Paths(t) <=> p \in AdjacentIn(tree, current, t)
    OBVIOUS
  <2> QED BY SuccessorsAreAdjacent
<1>2. Targets = Documented
  <2>1. ASSUME NEW x \in next PROVE SymbolAt(x) \in Documented
    <3>1. x[1] \in AdjacentIn(tree, current, SymbolAt(x))
      BY SuccessorsAreAdjacent
    <3>2. SymbolAt(x) \in SymbolsIn(tree)
      <4>1. PICK i, j \in DOMAIN tree[x[1]] : tree[x[1]][j].symbol = SymbolAt(x)
        BY <3>1 DEF AdjacentIn, IsAdjacent
      <4> QED BY <3>1, <4>1 DEF SymbolsIn, AdjacentIn
    <3> QED BY <3>1, <3>2
  <2>2. ASSUME NEW u \in Documented PROVE u \in Targets
    BY SuccessorsAreAdjacent
  <2> QED BY <2>1, <2>2
<1>3. AllowedTransitions(tree, current)
        = {[target |-> t, paths |-> Paths(t)] : t \in Targets}
  BY DEF AllowedTransitions
<1> HIDE DEF Paths, Targets, Documented
<1>4. {[target |-> t, paths |-> Paths(t)] : t \in Targets}
        = {[target |-> t, paths |-> AdjacentIn(tree, current, t)] :
             t \in Documented}
  BY <1>1, <1>2
<1> QED BY <1>3, <1>4 DEF Documented

(* The targets of is_valid_transition are those of the documentation. *)
LEMMA ValidIsAdjacent ==
  ASSUME NEW tree, IsTree(tree), DistinctOrdinals(tree),
         NEW current, NEW target
  PROVE  IsValidTransition(tree, current, target)
           <=> AdjacentIn(tree, current, target) # {}
<1> DEFINE Entry(t) == [target |-> t, paths |-> AdjacentIn(tree, current, t)]
           Documented == {u \in SymbolsIn(tree) :
                            AdjacentIn(tree, current, u) # {}}
<1>1. AllowedTransitions(tree, current) = {Entry(t) : t \in Documented}
  BY AllowedAreAdjacent
<1>2. \A t : Entry(t).target = t
  OBVIOUS
<1>3. AdjacentIn(tree, current, target) # {} => target \in SymbolsIn(tree)
  BY DEF AdjacentIn, IsAdjacent, SymbolsIn
<1>4. target \in Documented <=> AdjacentIn(tree, current, target) # {}
  BY <1>3
<1> HIDE DEF Entry, Documented
<1>5. target \in ValidTargets(tree, current) <=> target \in Documented
  BY <1>1, <1>2 DEF ValidTargets
<1> QED BY <1>4, <1>5 DEF IsValidTransition
(***************************************************************************)
(* Only the order of the positions matters: a document in which the states *)
(* have other positions, in the same order, allows the same transitions.   *)
(***************************************************************************)
Numbers(f, n, S) ==
  /\ n \in Nat /\ S \subseteq Nat /\ f \in [1..n -> S]
  /\ \A i \in S : \E j \in 1..n : f[j] = i
  /\ \A i, j \in 1..n : i < j <=> f[i] < f[j]

(* The path new has at j what path has at f[j]. *)
Renumbers(f, n, S, new, path) ==
  /\ DOMAIN path \subseteq S
  /\ DOMAIN new = {j \in 1..n : f[j] \in DOMAIN path}
  /\ \A j \in DOMAIN new : new[j] = path[f[j]]

(* The successor of a state stays its successor.                           *)
LEMMA RenumberedNext ==
  ASSUME NEW f, NEW n, NEW S, Numbers(f, n, S),
         NEW new, NEW path, IsPath(path), Renumbers(f, n, S, new, path),
         NEW ordinal, NEW j \in DOMAIN new
  PROVE  j \in NextStates(new, ordinal) <=> f[j] \in NextStates(path, ordinal)
<1>1. /\ \A i \in DOMAIN new : /\ i \in 1..n /\ f[i] \in DOMAIN path
                               /\ new[i] = path[f[i]]
      /\ \A i \in DOMAIN path : \E k \in DOMAIN new : f[k] = i
  <2>1. ASSUME NEW i \in DOMAIN path PROVE \E k \in DOMAIN new : f[k] = i
    <3>1. i \in S
      BY DEF Renumbers
    <3>2. PICK k \in 1..n : f[k] = i
      BY <3>1 DEF Numbers
    <3> QED BY <3>2 DEF Renumbers
  <2> QED BY <2>1 DEF Renumbers
<1>2. \A i, k \in DOMAIN new : i < k <=> f[i] < f[k]
  BY <1>1 DEF Numbers
<1>3. \A i \in DOMAIN new : i \in Int /\ f[i] \in Int
  BY <1>1 DEF Numbers, IsPath
<1>4. \A i, k \in DOMAIN new : i <= k <=> f[i] <= f[k]
  <2> TAKE i, k \in DOMAIN new
  <2>1. k < i <=> f[k] < f[i]
    BY <1>2
  <2>2. i \in Int /\ k \in Int /\ f[i] \in Int /\ f[k] \in Int
    BY <1>3
  <2> QED BY <2>1, <2>2
<1>5. \A i, k \in DOMAIN new :
        SortedBefore(new, i, k) <=> SortedBefore(path, f[i], f[k])
  BY <1>1, <1>2 DEF SortedBefore
<1>6. \A i, k \in DOMAIN new : Follows(new, i, k) <=> Follows(path, f[i], f[k])
  <2> TAKE i, k \in DOMAIN new
  <2> DEFINE Between(l) == SortedBefore(new, i, l) /\ SortedBefore(new, l, k)
             Among(l) == SortedBefore(path, f[i], l) /\ SortedBefore(path, l, f[k])
  <2>1. \A l \in DOMAIN new : Between(l) <=> Among(f[l])
    BY <1>5
  <2> HIDE DEF Between, Among
  <2>2. (\E l \in DOMAIN new : Between(l)) <=> (\E l \in DOMAIN path : Among(l))
    BY <1>1, <2>1
  <2>3. Follows(new, i, k) <=>
          SortedBefore(new, i, k) /\ ~ \E l \in DOMAIN new : Between(l)
    BY DEF Follows, Between
  <2>4. Follows(path, f[i], f[k]) <=>
          SortedBefore(path, f[i], f[k]) /\ ~ \E l \in DOMAIN path : Among(l)
    BY DEF Follows, Among
  <2> QED BY <1>5, <2>2, <2>3, <2>4
<1> DEFINE First(i) == /\ new[i].ordinal = ordinal
                       /\ \A k \in DOMAIN new : new[k].ordinal = ordinal => i <= k
           Foremost(i) == /\ path[i].ordinal = ordinal
                          /\ \A k \in DOMAIN path : path[k].ordinal = ordinal => i <= k
<1>7. \A i \in DOMAIN new : First(i) <=> Foremost(f[i])
  <2> TAKE i \in DOMAIN new
  <2>1. First(i) => Foremost(f[i])
    <3> SUFFICES ASSUME First(i), NEW k \in DOMAIN path, path[k].ordinal = ordinal
                 PROVE  f[i] <= k
      BY <1>1
    <3>1. PICK l \in DOMAIN new : f[l] = k
      BY <1>1
    <3> QED BY <1>1, <1>4, <3>1
  <2>2. Foremost(f[i]) => First(i)
    BY <1>1, <1>4
  <2> QED BY <2>1, <2>2
<1>8. j \in NextStates(new, ordinal) <=>
        \E i \in DOMAIN new : First(i) /\ Follows(new, i, j)
  BY DEF NextStates
<1>9. f[j] \in NextStates(path, ordinal) <=>
        \E i \in DOMAIN path : Foremost(i) /\ Follows(path, i, f[j])
  BY <1>1 DEF NextStates
<1> HIDE DEF First, Foremost
<1> QED BY <1>1, <1>6, <1>7, <1>8, <1>9

(* So do the transitions of the whole workflow.                            *)
LEMMA RenumberedTransitions ==
  ASSUME NEW f, NEW n, NEW S, Numbers(f, n, S),
         NEW new, NEW tree, IsTree(tree), DOMAIN new = DOMAIN tree,
         \A p \in DOMAIN tree : Renumbers(f, n, S, new[p], tree[p]),
         NEW symbol
  PROVE  AllowedTransitions(new, symbol) = AllowedTransitions(tree, symbol)
<1>1. ASSUME NEW p \in DOMAIN tree
      PROVE  /\ \A j \in DOMAIN new[p] : /\ f[j] \in DOMAIN tree[p]
                                         /\ new[p][j] = tree[p][f[j]]
             /\ \A i \in DOMAIN tree[p] : \E j \in DOMAIN new[p] : f[j] = i
  <2>1. Renumbers(f, n, S, new[p], tree[p])
    OBVIOUS
  <2>2. ASSUME NEW i \in DOMAIN tree[p] PROVE \E j \in DOMAIN new[p] : f[j] = i
    <3>1. i \in S
      BY <2>1 DEF Renumbers
    <3>2. PICK j \in 1..n : f[j] = i
      BY <3>1 DEF Numbers
    <3> QED BY <2>1, <3>2 DEF Renumbers
  <2> QED BY <2>1, <2>2 DEF Renumbers
<1> DEFINE Reached(t, p, j) ==
             /\ p \in DOMAIN t /\ j \in DOMAIN t[p]
             /\ \E i \in DOMAIN t[p] :
                  /\ t[p][i].symbol = symbol
                  /\ j \in NextStates(t[p], t[p][i].ordinal)
<1>2. ASSUME NEW t, NEW x
      PROVE  x \in Successors(t, symbol) <=>
               \E p \in DOMAIN t : \E j \in DOMAIN t[p] :
                 x = <<p, j>> /\ Reached(t, p, j)
  <2>1. FindCurrentState(t, symbol)
          = {m \in UNION {{p} \X DOMAIN t[p] : p \in DOMAIN t} :
               t[m[1]][m[2]].symbol = symbol}
    BY DEF FindCurrentState
  <2>2. ASSUME NEW m
        PROVE  m \in FindCurrentState(t, symbol) <=>
                 \E p \in DOMAIN t : \E i \in DOMAIN t[p] :
                   m = <<p, i>> /\ t[p][i].symbol = symbol
    BY <2>1
  <2>3. x \in Successors(t, symbol) <=>
          \E m \in FindCurrentState(t, symbol) : x \in NextOf(t, m)
    BY DEF Successors
  <2>4. ASSUME NEW p \in DOMAIN t, NEW i \in DOMAIN t[p]
        PROVE  x \in NextOf(t, <<p, i>>) <=>
                 \E j \in DOMAIN t[p] :
                   x = <<p, j>> /\ j \in NextStates(t[p], t[p][i].ordinal)
    <3>1. NextStates(t[p], t[p][i].ordinal) \subseteq DOMAIN t[p]
      BY DEF NextStates
    <3>2. NextOf(t, <<p, i>>) = {p} \X NextStates(t[p], t[p][i].ordinal)
      BY DEF NextOf
    <3> QED BY <3>1, <3>2
  <2>5. ASSUME x \in Successors(t, symbol)
        PROVE  \E p \in DOMAIN t : \E j \in DOMAIN t[p] :
                 x = <<p, j>> /\ Reached(t, p, j)
    <3>1. PICK m \in FindCurrentState(t, symbol) : x \in NextOf(t, m)
      BY <2>3, <2>5
    <3>2. PICK p \in DOMAIN t : \E i \in DOMAIN t[p] :
            m = <<p, i>> /\ t[p][i].symbol = symbol
      BY <2>2, <3>1
    <3>3. PICK i \in DOMAIN t[p] : m = <<p, i>> /\ t[p][i].symbol = symbol
      BY <3>2
    <3> QED BY <2>4, <3>1, <3>3
  <2>6. ASSUME NEW p \in DOMAIN t, NEW j \in DOMAIN t[p],
               x = <<p, j>>, Reached(t, p, j)
        PROVE  x \in Successors(t, symbol)
    <3>1. PICK i \in DOMAIN t[p] : /\ t[p][i].symbol = symbol
                                   /\ j \in NextStates(t[p], t[p][i].ordinal)
      BY <2>6
    <3>2. <<p, i>> \in FindCurrentState(t, symbol)
      BY <2>2, <3>1
    <3> QED BY <2>3, <2>4, <2>6, <3>1, <3>2
  <2> HIDE DEF Reached
  <2> QED BY <2>5, <2>6
<1>3. ASSUME NEW p \in DOMAIN tree, NEW j \in DOMAIN new[p]
      PROVE  Reached(new, p, j) <=> Reached(tree, p, f[j])
  <2>1. \A o : j \in NextStates(new[p], o) <=> f[j] \in NextStates(tree[p], o)
    <3> TAKE o
    <3>1. IsPath(tree[p]) /\ Renumbers(f, n, S, new[p], tree[p])
      BY DEF IsTree
    <3> QED BY <3>1, RenumberedNext
  <2>2. f[j] \in DOMAIN tree[p]
    BY <1>1
  <2> QED BY <1>1, <2>1, <2>2
<1> HIDE DEF Reached
<1> DEFINE At(t, s, p) == \E j \in DOMAIN t[p] : Reached(t, p, j) /\ t[p][j].symbol = s
<1>4. ASSUME NEW p \in DOMAIN tree, NEW s PROVE At(new, s, p) <=> At(tree, s, p)
  <2>1. ASSUME At(new, s, p) PROVE At(tree, s, p)
    BY <1>1, <1>3, <2>1
  <2>2. ASSUME At(tree, s, p) PROVE At(new, s, p)
    BY <1>1, <1>3, <2>2
  <2> HIDE DEF At
  <2> QED BY <2>1, <2>2
<1>5. ASSUME NEW t
      PROVE  AllowedTransitions(t, symbol)
               = {[target |-> s, paths |-> {p \in DOMAIN t : At(t, s, p)}] :
                    s \in {u \in SymbolsIn(t) : \E p \in DOMAIN t : At(t, u, p)}}
  <2> DEFINE SymbolAt(x) == t[x[1]][x[2]].symbol
             next == Successors(t, symbol)
  <2>1. ASSUME NEW s
        PROVE  {x[1] : x \in {y \in next : SymbolAt(y) = s}}
                 = {p \in DOMAIN t : At(t, s, p)}
    <3>1. ASSUME NEW x \in next, SymbolAt(x) = s
          PROVE  x[1] \in DOMAIN t /\ At(t, s, x[1])
      BY <1>2, <3>1
    <3>2. ASSUME NEW p \in DOMAIN t, At(t, s, p)
          PROVE  \E x \in next : SymbolAt(x) = s /\ x[1] = p
      <4>1. PICK j \in DOMAIN t[p] : Reached(t, p, j) /\ t[p][j].symbol = s
        BY <3>2
      <4>2. <<p, j>> \in next
        BY <1>2, <4>1
      <4> QED BY <4>1, <4>2
    <3> HIDE DEF At, SymbolAt, next
    <3> QED BY <3>1, <3>2
  <2>2. {SymbolAt(x) : x \in next}
          = {u \in SymbolsIn(t) : \E p \in DOMAIN t : At(t, u, p)}
    <3>1. ASSUME NEW x \in next
          PROVE  /\ SymbolAt(x) \in SymbolsIn(t)
                 /\ \E p \in DOMAIN t : At(t, SymbolAt(x), p)
      <4>1. PICK p \in DOMAIN t : \E j \in DOMAIN t[p] :
              x = <<p, j>> /\ Reached(t, p, j)
        BY <1>2
      <4>2. PICK j \in DOMAIN t[p] : x = <<p, j>> /\ Reached(t, p, j)
        BY <4>1
      <4>3. SymbolAt(x) = t[p][j].symbol
        BY <4>2
      <4> QED BY <4>2, <4>3 DEF SymbolsIn
    <3>2. ASSUME NEW u, NEW p \in DOMAIN t, At(t, u, p)
          PROVE  \E x \in next : SymbolAt(x) = u
      <4>1. PICK j \in DOMAIN t[p] : Reached(t, p, j) /\ t[p][j].symbol = u
        BY <3>2
      <4>2. <<p, j>> \in next
        BY <1>2, <4>1
      <4> QED BY <4>1, <4>2
    <3> HIDE DEF At, SymbolAt, next
    <3> QED BY <3>1, <3>2
  <2>3. AllowedTransitions(t, symbol)
          = {[target |-> s, paths |-> {x[1] : x \in {y \in next : SymbolAt(y) = s}}] :
               s \in {SymbolAt(x) : x \in next}}
    BY DEF AllowedTransitions
  <2> HIDE DEF At, SymbolAt, next
  <2> QED BY <2>1, <2>2, <2>3
<1>6. SymbolsIn(new) = SymbolsIn(tree)
  <2> DEFINE Of(t, p) == {t[p][i].symbol : i \in DOMAIN t[p]}
  <2>1. \A p \in DOMAIN tree : Of(new, p) = Of(tree, p)
    BY <1>1
  <2>2. SymbolsIn(new) = UNION {Of(new, p) : p \in DOMAIN new}
    BY DEF SymbolsIn
  <2>3. SymbolsIn(tree) = UNION {Of(tree, p) : p \in DOMAIN tree}
    BY DEF SymbolsIn
  <2> HIDE DEF Of
  <2>4. {Of(new, p) : p \in DOMAIN new} = {Of(tree, p) : p \in DOMAIN tree}
    BY <2>1
  <2> QED BY <2>2, <2>3, <2>4
<1> DEFINE Paths(t, s) == {p \in DOMAIN t : At(t, s, p)}
           Targets(t) == {u \in SymbolsIn(t) : \E p \in DOMAIN t : At(t, u, p)}
<1> HIDE DEF At
<1>7. \A s : Paths(new, s) = Paths(tree, s)
  BY <1>4
<1>8. Targets(new) = Targets(tree)
  BY <1>4, <1>6
<1>9. /\ AllowedTransitions(new, symbol)
           = {[target |-> s, paths |-> Paths(new, s)] : s \in Targets(new)}
      /\ AllowedTransitions(tree, symbol)
           = {[target |-> s, paths |-> Paths(tree, s)] : s \in Targets(tree)}
  BY <1>5
<1> HIDE DEF Paths, Targets
<1> QED BY <1>7, <1>8, <1>9
=============================================================================
