------------------------ MODULE InstanceContentProofs ------------------------
(***************************************************************************)
(* What the workflow parser with its transitions, the validators and the   *)
(* model inspector promise, for every set of elements, functions and       *)
(* requirements and for documents of any size.                             *)
(***************************************************************************)
EXTENDS InstanceContent, OperatorLemmas

(***************************************************************************)
(* What an author wrote: lists of elements, each with a slot in the model. *)
(***************************************************************************)
Authored ==
  /\ IsList(doc)
  /\ \A i \in DOMAIN doc : doc[i] \in Elements /\ SlotOf(doc[i]) \in slots
  /\ IsList(elems)
  /\ \A i \in DOMAIN elems :
       elems[i] \in StateElements /\ <<"workflow">> \in slots

(* A list whose items all have a property keeps it when one that has it is *)
(* appended.                                                               *)
LEMMA AppendKeeps ==
  ASSUME NEW s, NEW r, IsList(s), NEW S, r \in S,
         \A i \in DOMAIN s : s[i] \in S
  PROVE  /\ IsList(Append(s, r))
         /\ \A i \in DOMAIN Append(s, r) : Append(s, r)[i] \in S
<1> DEFINE t == Append(s, r)
<1>1. /\ Len(t) = Len(s) + 1 /\ IsList(t)
      /\ \A i \in 1..Len(s) : t[i] = s[i]
      /\ t[Len(s) + 1] = r
  BY AppendToList
<1> HIDE DEF t
<1>2. DOMAIN s = 1..Len(s) /\ DOMAIN t = 1..(Len(s) + 1) /\ Len(s) \in Nat
  BY <1>1 DEF IsList
<1>3. ASSUME NEW i \in DOMAIN t PROVE t[i] \in S
  <2>1. CASE i = Len(s) + 1
    BY <1>1, <2>1
  <2>2. CASE i \in 1..Len(s)
    BY <1>1, <1>2, <2>2
  <2> QED BY <1>2, <2>1, <2>2
<1> QED BY <1>1, <1>3 DEF t

(* Every step leaves documents with a slot for each element. *)
LEMMA WrittenAsAuthored == Spec => []Authored
<1>1. Init => Authored
  BY EmptyList DEF Init, Authored, IsList
<1>2. Authored /\ [Next]_vars => Authored'
  <2> SUFFICES ASSUME Authored, [Next]_vars PROVE Authored'
    OBVIOUS
  <2> USE DEF Authored
  <2>1. ASSUME NEW e \in Elements, AddElement(e) PROVE Authored'
    <3> DEFINE S == {x \in Elements : SlotOf(x) \in slots}
    <3>1. IsList(doc') /\ \A i \in DOMAIN doc' : doc'[i] \in S
      <4>1. e \in S /\ \A i \in DOMAIN doc : doc[i] \in S
        BY <2>1 DEF AddElement
      <4> HIDE DEF S
      <4> QED BY <2>1, <4>1, AppendKeeps DEF AddElement
    <3> QED BY <2>1, <3>1 DEF AddElement, SlotOf, IsList
  <2>2. ASSUME NEW e \in StateElements, AddState(e) PROVE Authored'
    <3>1. IsList(elems') /\ \A i \in DOMAIN elems' : elems'[i] \in StateElements
      BY <2>2, AppendKeeps DEF AddState
    <3> QED BY <2>2, <3>1 DEF AddState, SlotOf, IsList
  <2>3. ASSUME UNCHANGED <<slots, doc, elems>> PROVE Authored'
    BY <2>3 DEF SlotOf, IsList
  <2> QED BY <2>1, <2>2, <2>3 DEF Next, Require, Retain, vars
<1> QED BY <1>1, <1>2, PTL DEF Spec

(***************************************************************************)
(* For every workflow element whose paths give each state an ordinal of    *)
(* its own, get_allowed_transitions lists exactly the documented           *)
(* transitions, each with exactly the paths that have it.                  *)
(***************************************************************************)
THEOREM TransitionsAreDocumented == Spec => []AllowedIsAdjacent
<1>1. Authored => AllowedIsAdjacent
  <2> SUFFICES ASSUME Authored, DistinctOrdinals(tree),
                      NEW s \in SymbolsIn(tree)
               PROVE  AllowedTransitions(tree, s)
                        = {[target |-> t, paths |-> AdjacentIn(tree, s, t)] :
                             t \in {u \in SymbolsIn(tree) :
                                      AdjacentIn(tree, s, u) # {}}}
    BY DEF AllowedIsAdjacent
  <2>1. IsDocument(elems)
    BY OrdinalsAssumption DEF Authored, IsList, IsDocument, StateElements
  <2>2. IsTree(tree)
    BY <2>1, ParsedIsTree DEF tree
  <2> QED BY <2>2, AllowedAreAdjacent
<1> QED BY <1>1, WrittenAsAuthored, PTL

(***************************************************************************)
(* The places of a finite set of naturals, from the first to the last: the *)
(* n-th is the one with n - 1 of the others before it.                     *)
(***************************************************************************)
LEMMA PlacesInOrder ==
  ASSUME NEW S \in SUBSET Nat, IsFiniteSet(S),
         NEW f, f = [n \in 1..Cardinality(S) |-> PlaceIn(S, n)]
  PROVE  Numbers(f, Cardinality(S), S)
<1> DEFINE N == Cardinality(S)
           Before(i) == {k \in S : k < i}
           rank == [i \in S |-> Cardinality(Before(i))]
<1>1. N \in Nat
  BY FS_CardinalityType
<1>2. ASSUME NEW i \in S PROVE rank[i] \in 0..(N - 1)
  <2>1. Before(i) \in SUBSET S /\ Before(i) # S
    OBVIOUS
  <2> HIDE DEF Before
  <2>2. /\ IsFiniteSet(Before(i)) /\ Cardinality(Before(i)) <= N
        /\ N # Cardinality(Before(i))
    BY <2>1, FS_Subset
  <2>3. Cardinality(Before(i)) \in Nat
    BY <2>2, FS_CardinalityType
  <2> QED BY <1>1, <2>2, <2>3
<1>3. ASSUME NEW i \in S, NEW j \in S, i < j PROVE rank[i] < rank[j]
  <2>1. Before(i) \in SUBSET Before(j) /\ i \in Before(j) /\ i \notin Before(i)
    <3>1. \A k \in S : k \in Nat
      OBVIOUS
    <3>2. \A k \in S : k < i => k < j
      BY <1>3, <3>1
    <3>3. ~(i < i)
      BY <3>1
    <3> QED BY <1>3, <3>2, <3>3
  <2>2. Before(i) \in SUBSET S /\ Before(j) \in SUBSET S
    OBVIOUS
  <2> HIDE DEF Before
  <2>3. IsFiniteSet(Before(i)) /\ IsFiniteSet(Before(j))
    BY <2>2, FS_Subset
  <2>4. /\ Cardinality(Before(i)) <= Cardinality(Before(j))
        /\ Cardinality(Before(i)) # Cardinality(Before(j))
    BY <2>1, <2>3, FS_Subset
  <2>5. Cardinality(Before(i)) \in Nat /\ Cardinality(Before(j)) \in Nat
    BY <2>3, FS_CardinalityType
  <2> QED BY <2>4, <2>5
<1>4. \A i \in S : rank[i] = Cardinality({k \in S : k < i})
  OBVIOUS
<1>5. DOMAIN rank = S /\ rank = [i \in S |-> rank[i]]
  OBVIOUS
<1> HIDE DEF Before, rank
<1>6. \A i, j \in S : rank[i] = rank[j] => i = j
  <2> SUFFICES ASSUME NEW i \in S, NEW j \in S, rank[i] = rank[j] PROVE i = j
    OBVIOUS
  <2>1. i \in Nat /\ j \in Nat /\ rank[i] \in Int
    BY <1>2
  <2>2. ~(i < j)
    BY <1>3, <2>1
  <2>3. ~(j < i)
    BY <1>3, <2>1
  <2> QED BY <2>1, <2>2, <2>3
<1>7. \A n \in 0..(N - 1) : \E i \in S : rank[i] = n
  <2>1. rank \in [S -> 0..(N - 1)]
    BY <1>2, <1>5
  <2>2. rank \in Injection(S, 0..(N - 1))
    BY <1>6, <2>1 DEF Injection, IsInjective
  <2>3. IsFiniteSet(0..(N - 1)) /\ Cardinality(0..(N - 1)) = N
    <3>1. 0 \in Int /\ N - 1 \in Int
      BY <1>1
    <3>2. /\ IsFiniteSet(0..(N - 1))
          /\ Cardinality(0..(N - 1)) = IF 0 > N - 1 THEN 0 ELSE N - 1 - 0 + 1
      BY <3>1, FS_Interval
    <3> QED BY <1>1, <3>2
  <2>4. rank \in Surjection(S, 0..(N - 1))
    BY <2>2, <2>3, FS_Injection
  <2> QED BY <2>4 DEF Surjection
<1>8. ASSUME NEW n \in 1..N PROVE f[n] \in S /\ rank[f[n]] = n - 1
  <2>1. n - 1 \in 0..(N - 1)
    BY <1>1
  <2>2. PICK i \in S : rank[i] = n - 1
    BY <1>7, <2>1
  <2>3. Cardinality({k \in S : k < i}) = n - 1
    BY <1>4, <2>2
  <2>4. /\ PlaceIn(S, n) \in S
        /\ Cardinality({k \in S : k < PlaceIn(S, n)}) = n - 1
    BY <2>3 DEF PlaceIn
  <2> QED BY <1>4, <2>4
<1>9. ASSUME NEW i \in S PROVE \E n \in 1..N : f[n] = i
  <2>1. rank[i] + 1 \in 1..N /\ (rank[i] + 1) - 1 = rank[i]
    BY <1>1, <1>2
  <2>2. f[rank[i] + 1] \in S /\ rank[f[rank[i] + 1]] = rank[i]
    BY <1>8, <2>1
  <2> QED BY <1>6, <2>1, <2>2
<1>10. ASSUME NEW m \in 1..N, NEW n \in 1..N PROVE m < n <=> f[m] < f[n]
  <2>1. /\ f[m] \in S /\ rank[f[m]] = m - 1
        /\ f[n] \in S /\ rank[f[n]] = n - 1
    BY <1>8
  <2>2. f[m] \in Nat /\ f[n] \in Nat /\ m \in Nat /\ n \in Nat
    <3>1. \A k \in S : k \in Nat
      OBVIOUS
    <3>2. m \in Nat /\ n \in Nat
      BY <1>1
    <3> QED BY <2>1, <3>1, <3>2, Zenon
  <2>3. f[m] < f[n] => m < n
    <3> SUFFICES ASSUME f[m] < f[n] PROVE m < n
      OBVIOUS
    <3>1. rank[f[m]] < rank[f[n]]
      BY <1>3, <2>1
    <3> QED BY <2>1, <2>2, <3>1
  <2>4. f[n] < f[m] => n < m
    <3> SUFFICES ASSUME f[n] < f[m] PROVE n < m
      OBVIOUS
    <3>1. rank[f[n]] < rank[f[m]]
      BY <1>3, <2>1
    <3> QED BY <2>1, <2>2, <3>1
  <2>5. f[m] = f[n] => m = n
    BY <2>1, <2>2
  <2> QED BY <2>2, <2>3, <2>4, <2>5
<1>11. f \in [1..N -> S]
  BY <1>8
<1> HIDE DEF N
<1>12. Numbers(f, N, S)
  BY <1>1, <1>9, <1>10, <1>11 DEF Numbers
<1> QED BY <1>12 DEF N

(* Without its adapters a state is in the same sub-cluster.                *)
LEMMA SameContainer ==
  ASSUME NEW e \in StateElements
  PROVE  /\ Container(WithoutAdapters(e)) = Container(e)
         /\ WithoutAdapters(e).ordinal = e.ordinal
         /\ WithoutAdapters(e).symbol = e.symbol
<1> DEFINE a == e.ancestors
           S == Clusters(e)
           N == Cardinality(S)
           f == [n \in 1..N |-> PlaceIn(S, n)]
           w == WithoutAdapters(e)
<1>1. a \in Seq(STRING)
  BY AncestriesAssumption DEF StateElements
<1>2. S \in SUBSET Nat /\ IsFiniteSet(S)
  <2>1. Len(a) \in Nat /\ DOMAIN a = 1..Len(a)
    BY <1>1
  <2>2. S \in SUBSET (1..Len(a))
    BY <2>1 DEF Clusters
  <2>3. IsFiniteSet(1..Len(a))
    <3>1. 1 \in Int /\ Len(a) \in Int
      BY <2>1
    <3> QED BY <3>1, FS_Interval
  <2>4. 1..Len(a) \subseteq Nat
    BY <2>1
  <2> HIDE DEF S, a
  <2>5. IsFiniteSet(S)
    BY <2>2, <2>3, FS_Subset
  <2> QED BY <2>2, <2>4, <2>5
<1>3. Numbers(f, N, S)
  <2> HIDE DEF S
  <2> QED BY <1>2, PlacesInOrder
<1>4. /\ w.ancestors = [n \in 1..N |-> a[f[n]]]
      /\ w.ordinal = e.ordinal /\ w.symbol = e.symbol
  <2>1. /\ w.ancestors = Sublist(a, S)
        /\ w.ordinal = e.ordinal /\ w.symbol = e.symbol
    BY DEF WithoutAdapters, StateElements
  <2> HIDE DEF S, w, a
  <2>2. Sublist(a, S) = [n \in 1..N |-> a[f[n]]]
    BY DEF Sublist
  <2> QED BY <2>1, <2>2
<1>5. \A n \in 1..N : f[n] \in S /\ a[f[n]] \notin Transparent
  <2>1. \A i \in S : a[i] \notin Transparent
    BY DEF Clusters
  <2> HIDE DEF S, N, f, a
  <2> QED BY <1>3, <2>1 DEF Numbers
<1> HIDE DEF f, N, w
<1>6. Clusters(w) = 1..N
  BY <1>4, <1>5 DEF Clusters
<1>7. Container(w) = Container(e)
  <2>1. CASE S = {}
    <3>1. 1..N = {}
      BY <1>5, <2>1
    <3> QED BY <1>6, <2>1, <3>1 DEF Container
  <2>2. CASE S # {}
    <3> DEFINE Least(T, i) == \A j \in T : i <= j
    <3> HIDE DEF S
    <3>1. 1 \in 1..N /\ N \in Nat
      <4>1. N \in Nat /\ \E n \in 1..N : f[n] \in S
        BY <1>3, <2>2 DEF Numbers
      <4> QED BY <4>1
    <3>2. Least(1..N, 1) /\ \A i \in 1..N : Least(1..N, i) => i = 1
      BY <3>1
    <3>3. Least(S, f[1])
      <4> SUFFICES ASSUME NEW j \in S PROVE f[1] <= j
        OBVIOUS
      <4>1. PICK n \in 1..N : f[n] = j
        BY <1>3 DEF Numbers
      <4>2. n = 1 \/ 1 < n
        BY <3>1
      <4>3. 1 < n => f[1] < f[n]
        BY <1>3, <3>1 DEF Numbers
      <4>4. f[1] \in Nat /\ j \in Nat
        BY <1>2, <1>5, <3>1
      <4> QED BY <4>1, <4>2, <4>3, <4>4
    <3>4. \A i \in S : Least(S, i) => i = f[1]
      <4> SUFFICES ASSUME NEW i \in S, Least(S, i) PROVE i = f[1]
        OBVIOUS
      <4>1. f[1] \in S
        BY <1>5, <3>1
      <4>2. i <= f[1] /\ f[1] <= i
        BY <3>3, <4>1
      <4>3. i \in Nat /\ f[1] \in Nat
        BY <1>2, <4>1
      <4> QED BY <4>2, <4>3
    <3>5. f[1] \in S
      BY <1>5, <3>1
    <3> HIDE DEF Least
    <3>6. (CHOOSE i \in 1..N : Least(1..N, i)) = 1
      BY <3>1, <3>2
    <3>7. (CHOOSE i \in S : Least(S, i)) = f[1]
      BY <3>3, <3>4, <3>5
    <3>8. Container(w) = w.ancestors[CHOOSE i \in 1..N : Least(1..N, i)]
      BY <1>6, <3>1 DEF Container, Least
    <3>9. Container(e) = a[CHOOSE i \in S : Least(S, i)]
      BY <2>2 DEF Container, Least, S
    <3>10. w.ancestors[1] = a[f[1]]
      BY <1>4, <3>1
    <3> QED BY <3>6, <3>7, <3>8, <3>9, <3>10
  <2> QED BY <2>1, <2>2
<1> QED BY <1>4, <1>7 DEF w

(***************************************************************************)
(* However deep in adapters the states are, and however many elements are  *)
(* no states, the paths and the transitions are those of the document      *)
(* without them (_parse_workflow_cluster, _parse_ordinal_state).           *)
(***************************************************************************)
THEOREM OnlyStatesCount == Spec => []AdaptersAndBadStatesIgnored
<1>1. Authored => AdaptersAndBadStatesIgnored
  <2> SUFFICES ASSUME Authored PROVE AdaptersAndBadStatesIgnored
    OBVIOUS
  <2> DEFINE S == {i \in DOMAIN elems : HasState(elems[i])}
             N == Cardinality(S)
             f == [n \in 1..N |-> PlaceIn(S, n)]
             good == Sublist(elems, S)
             new == [i \in DOMAIN good |-> WithoutAdapters(good[i])]
             bare == ParseWorkflowCluster(new)
  <2>1. /\ Len(elems) \in Nat /\ DOMAIN elems = 1..Len(elems)
        /\ \A i \in DOMAIN elems : elems[i] \in StateElements
    BY DEF Authored, IsList
  <2>2. S \in SUBSET Nat /\ S \subseteq DOMAIN elems /\ IsFiniteSet(S)
    <3>1. S \in SUBSET (1..Len(elems))
      BY <2>1
    <3>2. IsFiniteSet(1..Len(elems))
      <4>1. 1 \in Int /\ Len(elems) \in Int
        BY <2>1
      <4> QED BY <4>1, FS_Interval
    <3>3. 1..Len(elems) \subseteq Nat
      BY <2>1
    <3> HIDE DEF S
    <3>4. IsFiniteSet(S)
      BY <3>1, <3>2, FS_Subset
    <3> QED BY <2>1, <3>1, <3>3, <3>4
  <2>3. Numbers(f, N, S)
    <3> HIDE DEF S
    <3> QED BY <2>2, PlacesInOrder
  <2>4. /\ DOMAIN new = 1..N
        /\ \A n \in 1..N : new[n] = WithoutAdapters(elems[f[n]])
    <3>1. DOMAIN good = 1..N /\ \A n \in 1..N : good[n] = elems[f[n]]
      BY DEF Sublist
    <3> HIDE DEF good, f, N
    <3> QED BY <3>1
  <2>5. \A i \in S : HasState(elems[i]) /\ elems[i] \in StateElements
    BY <2>1
  <2> HIDE DEF f, N, new
  <2>6. ASSUME NEW n \in 1..N
        PROVE  /\ f[n] \in S
               /\ Container(new[n]) = Container(elems[f[n]])
               /\ HasState(new[n])
               /\ ParseOrdinalState(new[n]) = ParseOrdinalState(elems[f[n]])
    <3>1. f[n] \in S
      BY <2>3 DEF Numbers
    <3> HIDE DEF S
    <3>2. HasState(elems[f[n]]) /\ elems[f[n]] \in StateElements
      BY <2>5, <3>1
    <3>3. /\ Container(new[n]) = Container(elems[f[n]])
          /\ new[n].ordinal = elems[f[n]].ordinal
          /\ new[n].symbol = elems[f[n]].symbol
      BY <2>4, <3>2, SameContainer
    <3> QED BY <3>1, <3>2, <3>3 DEF HasState, ParseOrdinalState
  <2>7. DOMAIN tree = {Container(elems[i]) : i \in S}
    BY DEF tree, ParseWorkflowCluster
  <2>8. DOMAIN bare = {Container(new[n]) : n \in 1..N}
    <3>1. {n \in DOMAIN new : HasState(new[n])} = 1..N
      BY <2>4, <2>6
    <3> QED BY <3>1 DEF ParseWorkflowCluster
  <2>9. DOMAIN bare = DOMAIN tree
    <3> HIDE DEF S, bare
    <3>1. \A i \in S : \E n \in 1..N : f[n] = i
      BY <2>3 DEF Numbers
    <3> QED BY <2>6, <2>7, <2>8, <3>1
  <2>10. ASSUME NEW c \in DOMAIN tree
         PROVE  /\ DOMAIN tree[c] = {i \in S : Container(elems[i]) = c}
                /\ \A i \in DOMAIN tree[c] :
                     tree[c][i] = ParseOrdinalState(elems[i])
    <3>1. tree[c] = StatesIn(elems, c)
      BY DEF tree, ParseWorkflowCluster
    <3>2. {k \in DOMAIN elems : Container(elems[k]) = c /\ HasState(elems[k])}
            = {i \in S : Container(elems[i]) = c}
      OBVIOUS
    <3> HIDE DEF S
    <3> QED BY <3>1, <3>2 DEF StatesIn
  <2>11. ASSUME NEW c \in DOMAIN tree
         PROVE  /\ DOMAIN bare[c] = {n \in 1..N : Container(new[n]) = c}
                /\ \A n \in DOMAIN bare[c] :
                     bare[c][n] = ParseOrdinalState(new[n])
    <3>1. bare[c] = StatesIn(new, c)
      BY <2>9 DEF ParseWorkflowCluster
    <3>2. {k \in DOMAIN new : Container(new[k]) = c /\ HasState(new[k])}
            = {n \in 1..N : Container(new[n]) = c}
      BY <2>4, <2>6
    <3> HIDE DEF bare
    <3> QED BY <3>1, <3>2 DEF StatesIn
  <2> HIDE DEF S, bare
  <2>12. ASSUME NEW c \in DOMAIN tree
         PROVE  Renumbers(f, N, S, bare[c], tree[c])
    <3>1. DOMAIN tree[c] \subseteq S
      BY <2>10
    <3>2. \A n \in 1..N : Container(new[n]) = c <=> f[n] \in DOMAIN tree[c]
      <4> TAKE n \in 1..N
      <4>1. f[n] \in S /\ Container(new[n]) = Container(elems[f[n]])
        BY <2>6
      <4> QED BY <2>10, <4>1
    <3>3. DOMAIN bare[c] = {n \in 1..N : f[n] \in DOMAIN tree[c]}
      BY <2>11, <3>2
    <3>4. \A n \in DOMAIN bare[c] : bare[c][n] = tree[c][f[n]]
      <4> TAKE n \in DOMAIN bare[c]
      <4>1. n \in 1..N /\ f[n] \in DOMAIN tree[c]
        BY <3>3
      <4>2. bare[c][n] = ParseOrdinalState(new[n])
        BY <2>11
      <4>3. tree[c][f[n]] = ParseOrdinalState(elems[f[n]])
        BY <2>10, <4>1
      <4> QED BY <2>6, <4>1, <4>2, <4>3
    <3> QED BY <3>1, <3>3, <3>4 DEF Renumbers
  <2>13. ASSUME NEW c \in DOMAIN tree PROVE Range(bare[c]) = Range(tree[c])
    <3>1. \A i \in DOMAIN tree[c] : \E n \in DOMAIN bare[c] : f[n] = i
      <4> TAKE i \in DOMAIN tree[c]
      <4>1. i \in S
        BY <2>10
      <4>2. PICK n \in 1..N : f[n] = i
        BY <2>3, <4>1 DEF Numbers
      <4> QED BY <2>12, <4>2 DEF Renumbers
    <3>2. \A n \in DOMAIN bare[c] : f[n] \in DOMAIN tree[c]
                                    /\ bare[c][n] = tree[c][f[n]]
      BY <2>12 DEF Renumbers
    <3> QED BY <3>1, <3>2 DEF Range
  <2>14. \A s : AllowedTransitions(bare, s) = AllowedTransitions(tree, s)
    <3>1. IsTree(tree)
      <4>1. IsDocument(elems)
        BY OrdinalsAssumption DEF Authored, IsList, IsDocument, StateElements
      <4> QED BY <4>1, ParsedIsTree DEF tree
    <3> QED BY <2>3, <2>9, <2>12, <3>1, RenumberedTransitions
  <2> QED BY <2>9, <2>13, <2>14
         DEF AdaptersAndBadStatesIgnored, S, bare, new
<1> QED BY <1>1, WrittenAsAuthored, PTL

(***************************************************************************)
(* Whatever the model and the content, an instance that carries any is     *)
(* never told that governance is not applicable.                           *)
(***************************************************************************)
THEOREM ContentGoverned == Spec => []ContentIsGoverned
<1>1. ASSUME Authored, doc # <<>> PROVE ValidateGovernance # "NOT_APPLICABLE"
  <2>1. doc[1] \in Elements /\ SlotOf(doc[1]) \in slots
    BY <1>1, EmptyList DEF Authored, IsList
  <2>2. doc[1].name \in
          {"subject", "provider", "Participation", "attestation", "Audit"}
    BY <2>1, ElementsAssumption
       DEF Parties, Participations, Attestations, AuditRecords
  <2>3. \/ SlotOf(doc[1]) \in Defining["audit"]
        \/ SlotOf(doc[1]) \in Defining["attestation"]
        \/ SlotOf(doc[1]) \in Defining["party_role"]
    BY <2>2 DEF SlotOf, Defining
  <2>4. ActiveDimensions \cap {"audit", "attestation", "party_role"} # {}
    BY <2>1, <2>3 DEF ActiveDimensions, Defining
  <2> QED BY <2>4 DEF ValidateGovernance, HasGovernance
<1>2. ASSUME Authored, elems # <<>> PROVE ValidateGovernance # "NOT_APPLICABLE"
  <2>1. <<"workflow">> \in slots
    BY <1>2, EmptyList DEF Authored, IsList
  <2>2. "workflow" \in ActiveDimensions
    BY <2>1 DEF ActiveDimensions, Defining
  <2> QED BY <2>2 DEF ValidateGovernance, HasGovernance
<1>3. Authored => ContentIsGoverned
  BY <1>1, <1>2 DEF ContentIsGoverned
<1> QED BY <1>3, WrittenAsAuthored, PTL

(***************************************************************************)
(* For every instance, who passes check_actor_role for a function is       *)
(* exactly whoever a participation with that function designates, and then *)
(* validate_party_role finds the function too.                             *)
(***************************************************************************)
THEOREM RolesNotBorrowed == Spec => []RolesAreNotBorrowed
<1>1. ASSUME Authored, NEW f \in Functions, NEW n
      PROVE  n \in Actors /\ ActorErrors(n, f) = {}
               <=> \E e \in ElementsOf("Participation") :
                     e.function = f /\ n \in Designations(e)
  <2> DEFINE all == ElementsOf("Participation")
             mine == {e \in all : /\ e.performer # Nobody
                                  /\ n \in {e.performer.name, e.performer.ref}}
  <2>1. \A e \in all : e \in Elements /\ e.name = "Participation"
    BY <1>1 DEF ElementsOf, FindAll, Authored
  <2>2. ActorErrors(n, f) = {} <=> \E e \in mine : e.function = f
    BY DEF ActorErrors
  <2>3. \A e \in all : n \in Designations(e) => n \in Actors /\ n # ""
    BY <2>1 DEF Designations, Actors
  <2>4. n \in Actors => n # ""
    BY DEF Actors, Designations
  <2>5. \A e \in all : n \in Designations(e) <=> e \in mine /\ n # ""
    BY DEF Designations
  <2> QED BY <2>2, <2>3, <2>4, <2>5
<1>2. ASSUME Authored, NEW f \in Functions,
             NEW e \in ElementsOf("Participation"), e.function = f
      PROVE  f \notin PartyErrors
  <2>1. f \notin {"subject", "provider"}
    BY FunctionsAssumption DEF Flags
  <2> QED BY <1>2, <2>1 DEF PartyErrors
<1>3. ASSUME Authored, NEW f \in Functions
      PROVE  LET passing == {n \in Actors : ActorErrors(n, f) = {}}
                 holders == {e \in ElementsOf("Participation") : e.function = f}
             IN  /\ passing = UNION {Designations(e) : e \in holders}
                 /\ passing # {} => f \notin PartyErrors
  <2> DEFINE passing == {n \in Actors : ActorErrors(n, f) = {}}
             holders == {e \in ElementsOf("Participation") : e.function = f}
  <2>1. \A n : n \in passing <=> \E e \in holders : n \in Designations(e)
    BY <1>1, <1>3
  <2>2. \A e \in holders : f \notin PartyErrors
    BY <1>2, <1>3
  <2> HIDE DEF passing, holders
  <2>3. passing = UNION {Designations(e) : e \in holders}
    BY <2>1
  <2>4. passing # {} => f \notin PartyErrors
    BY <2>1, <2>2
  <2> QED BY <2>3, <2>4 DEF passing, holders
<1>4. Authored => RolesAreNotBorrowed
  BY <1>3 DEF RolesAreNotBorrowed
<1> QED BY <1>4, WrittenAsAuthored, PTL

-----------------------------------------------------------------------------
(* What is found of a name in the document: places of it, finitely many.   *)
LEMMA PlacesFound ==
  ASSUME Authored, NEW name
  PROVE  /\ FindAll(name) \in SUBSET (1..Len(doc))
         /\ FindAll(name) \in SUBSET Nat
         /\ IsFiniteSet(FindAll(name))
         /\ Cardinality(FindAll(name)) \in Nat
         /\ FindAll(name) # {} => Cardinality(FindAll(name)) >= 1
<1>1. Len(doc) \in Nat /\ DOMAIN doc = 1..Len(doc)
  BY DEF Authored, IsList
<1>2. FindAll(name) \in SUBSET (1..Len(doc))
  BY <1>1 DEF FindAll
<1>3. IsFiniteSet(1..Len(doc))
  BY <1>1, FS_Interval
<1>4. IsFiniteSet(FindAll(name))
  BY <1>2, <1>3, FS_Subset
<1>5. /\ Cardinality(FindAll(name)) \in Nat
      /\ Cardinality(FindAll(name)) = 0 => FindAll(name) = {}
  BY <1>4, FS_CardinalityType, FS_EmptySet
<1> QED BY <1>1, <1>2, <1>4, <1>5

(***************************************************************************)
(* For every instance and all requirements: where none of the three        *)
(* validators accepts, none does when more is required.                    *)
(***************************************************************************)
THEOREM MoreRequired == Spec => MoreRequiredNeverAccepts
<1> DEFINE A == doc' = doc =>
              /\ AttestationErrors' = {} => AttestationErrors = {}
              /\ PartyErrors' = {} => PartyErrors = {}
              /\ ProvenanceErrors' = {} => ProvenanceErrors = {}
<1>1. Authored /\ [Next]_vars => A
  <2> SUFFICES ASSUME Authored, [Next]_vars, doc' = doc
               PROVE  /\ AttestationErrors' = {} => AttestationErrors = {}
                      /\ PartyErrors' = {} => PartyErrors = {}
                      /\ ProvenanceErrors' = {} => ProvenanceErrors = {}
    OBVIOUS
  <2>1. /\ required \subseteq required'
        /\ retention' = retention \/ retention = "most_recent"
    BY DEF Next, AddElement, AddState, Require, Retain, vars
  <2>2. ASSUME NEW name
        PROVE  /\ FindAll(name)' = FindAll(name)
               /\ ElementsOf(name)' = ElementsOf(name)
               /\ FindElement(name)' = FindElement(name)
    BY DEF FindAll, ElementsOf, FindElement
  <2>3. AttestationErrors' = {} => AttestationErrors = {}
    BY <2>1, <2>2 DEF AttestationErrors
  <2>4. PartyErrors' = {} => PartyErrors = {}
    BY <2>1, <2>2 DEF PartyErrors
  <2>5. ProvenanceErrors' = {} => ProvenanceErrors = {}
    <3> DEFINE records == FindAll("Audit")
               needed == AuditParts \ (IF "system-user" \in required THEN {}
                                       ELSE {"system-user"})
               faults == {x \in records \X needed :
                            x[2] \notin doc[x[1]].parts}
    <3>1. records' = records /\ faults \subseteq faults'
      BY <2>1, <2>2
    <3>2. records # {} /\ TooFew(Cardinality(records))
            => TooFew(Cardinality(records))'
      BY <2>1, <2>2, PlacesFound DEF TooFew
    <3> QED BY <2>1, <3>1, <3>2 DEF ProvenanceErrors
  <2> QED BY <2>3, <2>4, <2>5
<1>2. Authored /\ [Next]_vars => [A]_vars
  BY <1>1
<1> QED BY <1>2, WrittenAsAuthored, PTL DEF Spec, MoreRequiredNeverAccepts

(* The least of a set of places stays the least when a later one is added. *)
LEMMA LeastStays ==
  ASSUME NEW n \in Nat, NEW S \in SUBSET (1..n), S # {},
         NEW T, T = S \/ T = S \cup {n + 1}
  PROVE  LET First(X) == CHOOSE i \in X : \A j \in X : i <= j
         IN  First(T) = First(S) /\ First(S) \in S
<1>1. PICK m \in S : \A k \in S : m <= k
  <2>1. S \in SUBSET Nat
    OBVIOUS
  <2> QED BY <2>1, LeastElement
<1>2. m \in T /\ (\A k \in T : m <= k) /\ T \in SUBSET Nat
  <2>1. m \in 1..n /\ m <= n + 1 /\ n + 1 \in Nat
    BY <1>1
  <2>2. \A k \in S : m <= k /\ k \in Nat
    BY <1>1
  <2>3. \A k \in T : m <= k /\ k \in Nat
    <3> SUFFICES ASSUME NEW k \in T PROVE m <= k /\ k \in Nat
      OBVIOUS
    <3>1. k \in S \/ k = n + 1
      OBVIOUS
    <3> QED BY <2>1, <2>2, <3>1
  <2> QED BY <1>1, <2>3
<1>3. \A i \in S : (\A j \in S : i <= j) => i = m
  BY <1>1
<1>4. \A i \in T : (\A j \in T : i <= j) => i = m
  BY <1>2
<1> QED BY <1>1, <1>2, <1>3, <1>4

(* A finite set to which at most one element is added gets no smaller. *)
LEMMA GrownIsNoSmaller ==
  ASSUME NEW S, IsFiniteSet(S), NEW x, NEW T, T = S \/ T = S \cup {x}
  PROVE  /\ Cardinality(T) >= Cardinality(S)
         /\ Cardinality(S) \in Nat /\ Cardinality(T) \in Nat
<1>1. Cardinality(S) \in Nat
  BY FS_CardinalityType
<1>2. Cardinality(S \cup {x}) \in {Cardinality(S), Cardinality(S) + 1}
  BY FS_AddElement
<1> QED BY <1>1, <1>2

(* One more element in the style of those of its name is found beside      *)
(* them, and of the other names what was found before.                     *)
LEMMA AddedIsFound ==
  ASSUME Authored, NEW e \in Elements, AddElement(e),
         \A i \in DOMAIN doc : doc[i].name = e.name
                                 => doc[i].qualified = e.qualified,
         NEW name
  PROVE  /\ \A i \in DOMAIN doc : doc'[i] = doc[i]
         /\ doc'[Len(doc) + 1] = e
         /\ FindAll(name)' = FindAll(name)
                               \cup (IF e.name = name THEN {Len(doc) + 1} ELSE {})
<1>1. /\ Len(doc') = Len(doc) + 1 /\ IsList(doc')
      /\ \A i \in 1..Len(doc) : doc'[i] = doc[i]
      /\ doc'[Len(doc) + 1] = e
  BY AppendToList DEF Authored, AddElement
<1>2. /\ DOMAIN doc = 1..Len(doc) /\ Len(doc) \in Nat
      /\ DOMAIN doc' = 1..(Len(doc) + 1)
  BY <1>1 DEF Authored, IsList
<1>3. \A i : i \in DOMAIN doc' <=> i \in DOMAIN doc \/ i = Len(doc) + 1
  BY <1>2
<1>4. \A i \in DOMAIN doc : doc'[i] = doc[i]
  BY <1>1, <1>2
<1> DEFINE named == {i \in DOMAIN doc : doc[i].name = name}
           qualified == {i \in named : doc[i].qualified}
           more == IF e.name = name THEN {Len(doc) + 1} ELSE {}
<1>5. named' = named \cup more
  BY <1>1, <1>3, <1>4
<1>6. qualified' = qualified
                     \cup (IF e.name = name /\ e.qualified
                           THEN {Len(doc) + 1} ELSE {})
  BY <1>1, <1>3, <1>4
<1>7. CASE e.name # name
  BY <1>1, <1>4, <1>5, <1>6, <1>7 DEF FindAll
<1>8. CASE e.name = name /\ e.qualified
  <2>1. qualified = named
    BY <1>8
  <2> QED BY <1>1, <1>4, <1>5, <1>6, <1>8, <2>1 DEF FindAll
<1>9. CASE e.name = name /\ ~e.qualified
  <2>1. qualified = {}
    BY <1>9
  <2> QED BY <1>1, <1>4, <1>5, <1>6, <1>9, <2>1 DEF FindAll
<1> QED BY <1>7, <1>8, <1>9

(***************************************************************************)
(* For every instance and all requirements: whichever of the three         *)
(* validators accepts goes on to accept when a complete element in the     *)
(* style of those of its name is added.                                    *)
(***************************************************************************)
THEOREM MoreEvidence == Spec => MoreEvidenceNeverRefuses
<1> DEFINE A ==
      doc' # doc =>
        LET e == Last(doc')
        IN  /\ Complete(e)
            /\ \A i \in DOMAIN doc :
                 doc[i].name = e.name => doc[i].qualified = e.qualified
            => /\ AttestationErrors = {} => AttestationErrors' = {}
               /\ PartyErrors = {} => PartyErrors' = {}
               /\ ProvenanceErrors = {} => ProvenanceErrors' = {}
<1>1. ASSUME Authored, NEW e \in Elements, AddElement(e), Complete(e),
             \A i \in DOMAIN doc : doc[i].name = e.name
                                     => doc[i].qualified = e.qualified
      PROVE  /\ AttestationErrors = {} => AttestationErrors' = {}
             /\ PartyErrors = {} => PartyErrors' = {}
             /\ ProvenanceErrors = {} => ProvenanceErrors' = {}
  <2> DEFINE n == Len(doc)
             more(name) == IF e.name = name THEN {n + 1} ELSE {}
  <2>1. /\ required' = required /\ retention' = retention
        /\ n \in Nat /\ DOMAIN doc = 1..n
    BY <1>1 DEF AddElement, Authored, IsList
  <2>2. /\ \A i \in DOMAIN doc : doc'[i] = doc[i]
        /\ doc'[n + 1] = e
        /\ \A name : FindAll(name)' = FindAll(name) \cup more(name)
    BY <1>1, AddedIsFound
  <2>3. ASSUME NEW name
        PROVE  /\ FindAll(name) \subseteq FindAll(name)'
               /\ ElementsOf(name) \subseteq ElementsOf(name)'
    <3>1. FindAll(name) \in SUBSET DOMAIN doc
      BY <1>1, <2>1, PlacesFound
    <3> QED BY <2>2, <3>1 DEF ElementsOf
  <2>4. ASSUME NEW name, FindAll(name) # {}
        PROVE  FindElement(name)' = FindElement(name)
    <3>1. FindAll(name) \in SUBSET (1..n)
      BY <1>1, PlacesFound
    <3>2. FindAll(name)' = FindAll(name)
            \/ FindAll(name)' = FindAll(name) \cup {n + 1}
      BY <2>2
    <3> DEFINE First(X) == CHOOSE i \in X : \A j \in X : i <= j
    <3>3. /\ First(FindAll(name)') = First(FindAll(name))
          /\ First(FindAll(name)) \in DOMAIN doc
      BY <2>1, <2>4, <3>1, <3>2, LeastStays
    <3> QED BY <2>2, <3>3 DEF FindElement
  <2>5. AttestationErrors = {} => AttestationErrors' = {}
    <3>1. CASE FindAll("attestation") = {}
      BY <3>1 DEF AttestationErrors
    <3>2. CASE FindAll("attestation") # {}
      <4>1. /\ FindElement("attestation")' = FindElement("attestation")
            /\ FindAll("attestation")' # {}
        BY <2>3, <2>4, <3>2
      <4> QED BY <2>1, <3>2, <4>1 DEF AttestationErrors
    <3> QED BY <3>1, <3>2
  <2>6. PartyErrors = {} => PartyErrors' = {}
    BY <2>1, <2>3 DEF PartyErrors
  <2>7. ProvenanceErrors = {} => ProvenanceErrors' = {}
    <3> DEFINE records == FindAll("Audit")
               needed == AuditParts \ (IF "system-user" \in required THEN {}
                                       ELSE {"system-user"})
               faults == {x \in records \X needed :
                            x[2] \notin doc[x[1]].parts}
    <3>1. faults' \subseteq faults
      <4>1. \A i \in records' : \/ i \in records /\ doc'[i] = doc[i]
                                \/ needed \ doc'[i].parts = {}
        BY <1>1, <2>1, <2>2, PlacesFound DEF Complete
      <4>2. needed' = needed
        BY <2>1
      <4> QED BY <4>1, <4>2
    <3>2. TooFew(Cardinality(records))' => TooFew(Cardinality(records))
      <4>1. Cardinality(records') >= Cardinality(records)
            /\ Cardinality(records) \in Nat /\ Cardinality(records') \in Nat
        <5>1. IsFiniteSet(records)
          BY <1>1, PlacesFound
        <5>2. records' = records \/ records' = records \cup {n + 1}
          BY <2>2
        <5> QED BY <5>1, <5>2, GrownIsNoSmaller
      <4> QED BY <2>1, <4>1, ContentBounds DEF TooFew
    <3>3. records # {} => records' # {}
      BY <2>3
    <3> QED BY <2>1, <3>1, <3>2, <3>3 DEF ProvenanceErrors
  <2> QED BY <2>5, <2>6, <2>7
<1>2. ASSUME Authored, [Next]_vars, doc' # doc
      PROVE  \E e \in Elements : AddElement(e) /\ Last(doc') = e
  <2>1. PICK e \in Elements : AddElement(e)
    BY <1>2 DEF Next, AddState, Require, Retain, vars
  <2> QED BY <1>2, <2>1, AppendToList DEF AddElement, Last, Authored
<1>3. Authored /\ [Next]_vars => [A]_vars
  BY <1>1, <1>2
<1> QED BY <1>3, WrittenAsAuthored, PTL DEF Spec, MoreEvidenceNeverRefuses
=============================================================================
