-------------------------- MODULE ModelWorkflowProofs --------------------------
(***************************************************************************)
(* The walk over a data model, for every finite set of components and any  *)
(* references between them.                                                *)
(***************************************************************************)
EXTENDS ModelWorkflow, SequenceTheorems, FiniteSetTheorems, TLAPS

-----------------------------------------------------------------------------
InStack(n) == \E i \in 1..Len(pending) : pending[i] = n

(***************************************************************************)
(* Every way of writing a finite set down as a sequence has exactly its    *)
(* elements: nothing that is to be visited gets lost in the order.         *)
(***************************************************************************)
LEMMA SequencesOfSet ==
  ASSUME NEW S, IsFiniteSet(S), NEW s \in SetToSeqs(S)
  PROVE  /\ s \in Seq(S)
         /\ \A x : x \in S <=> \E i \in 1..Len(s) : s[i] = x
<1> DEFINE n == Cardinality(S)
<1>1. n \in Nat
  BY FS_CardinalityType
<1>2. s \in [1..n -> S] /\ \A i, j \in 1..n : i # j => s[i] # s[j]
  BY DEF SetToSeqs
<1>3. s \in Injection(1..n, S)
  BY <1>2 DEF Injection, IsInjective
<1>4. IsFiniteSet(1..n) /\ Cardinality(1..n) = n
  BY <1>1, FS_Interval
<1>5. s \in Surjection(1..n, S)
  BY <1>3, <1>4, FS_Injection
<1>6. \A x \in S : \E i \in 1..n : s[i] = x
  BY <1>5 DEF Surjection
<1>7. s \in Seq(S) /\ Len(s) = n
  <2> HIDE DEF n
  <2>1. s \in Seq(S)
    BY <1>1, <1>2, SeqDef
  <2> QED BY <1>1, <1>2, <2>1, LenProperties
<1> QED BY <1>2, <1>6, <1>7

(* The stack without its top. *)
LEMMA FrontOfStack ==
  ASSUME NEW s \in Seq(Names), s # <<>>
  PROVE  /\ Last(s) \in Names
         /\ Front(s) \in Seq(Names)
         /\ \A x : (\E i \in 1..Len(s) : s[i] = x)
                     <=> x = Last(s) \/ \E i \in 1..Len(Front(s)) : Front(s)[i] = x
<1>1. Len(s) \in Nat \ {0} /\ \A i \in 1..Len(s) : s[i] \in Names
  BY EmptySeq, LenProperties
<1>2. /\ Front(s) \in Seq(Names) /\ Len(Front(s)) = Len(s) - 1
      /\ \A i \in 1..(Len(s) - 1) : Front(s)[i] = s[i]
  <2> DEFINE m == Len(s) - 1
  <2>1. m \in Nat /\ \A i \in 1..m : s[i] \in Names
    BY <1>1
  <2> HIDE DEF m
  <2>2. /\ SubSeq(s, 1, m) \in Seq(Names)
        /\ Len(SubSeq(s, 1, m)) = (IF 1 <= m THEN m - 1 + 1 ELSE 0)
        /\ \A i \in 1..(m - 1 + 1) : SubSeq(s, 1, m)[i] = s[1 + i - 1]
    BY <2>1, SubSeqProperties
  <2>3. Len(SubSeq(s, 1, m)) = m /\ \A i \in 1..m : SubSeq(s, 1, m)[i] = s[i]
    BY <2>1, <2>2
  <2> QED BY <2>2, <2>3 DEF Front, m
<1>3. \A i : i \in 1..Len(s) <=> i = Len(s) \/ i \in 1..Len(Front(s))
  BY <1>1, <1>2
<1> QED BY <1>1, <1>2, <1>3 DEF Last

-----------------------------------------------------------------------------
Typed ==
  /\ kind \in [Components -> Kinds]
  /\ refs \in [Components -> SUBSET Names]
  /\ start \in Starts
  /\ pending \in Seq(Names)
  /\ seen \subseteq Components
  /\ paths \in (SUBSET Components) \cup {NotExtracted}

IsOrdinal(c) == kind[c].ordinal

(* A visit, with what becomes of the stack. *)
LEMMA VisitPushes ==
  ASSUME Typed, Visit
  PROVE  /\ Top \in Components /\ Top \notin seen /\ InStack(Top)
         /\ pending' \in Seq(Names)
         /\ \A n : InStack(n) => n = Top \/ InStack(n)'
         /\ \A n : InStack(n)' => InStack(n) \/ n \in refs[Top]
         /\ \A n \in refs[Top] : n \in seen' \/ InStack(n)'
<1>1. /\ pending # <<>> /\ Top \notin seen /\ Top # Undefined
      /\ seen' = seen \cup {Top}
  BY DEF Visit, Walked, Skipped
<1>2. PICK children \in SetToSeqs(refs[Top] \ seen') :
        pending' = Front(pending) \o children
  BY DEF Visit
<1>3. /\ Top \in Names /\ Front(pending) \in Seq(Names)
      /\ \A n : InStack(n) <=> n = Top \/ \E i \in 1..Len(Front(pending)) :
                                            Front(pending)[i] = n
  BY <1>1, FrontOfStack DEF Typed, Top, InStack
<1>4. Top \in Components
  BY <1>1, <1>3 DEF Names
<1>5. refs[Top] \ seen' \subseteq Names /\ IsFiniteSet(refs[Top] \ seen')
  <2>1. IsFiniteSet(Names)
    BY ComponentsAssumption, FS_AddElement DEF Names
  <2>2. refs[Top] \subseteq Names
    BY <1>4 DEF Typed
  <2> QED BY <2>1, <2>2, FS_Subset
<1>6. /\ children \in Seq(refs[Top] \ seen')
      /\ \A x : x \in refs[Top] \ seen' <=>
                  \E i \in 1..Len(children) : children[i] = x
  BY <1>5, SequencesOfSet
<1> DEFINE f == Front(pending)
           old(n) == \E i \in 1..Len(f) : f[i] = n
           new(n) == \E i \in 1..Len(children) : children[i] = n
<1>7. children \in Seq(Names)
  <2>1. \A i \in 1..Len(children) : children[i] \in Names
    BY <1>5, <1>6
  <2>2. Len(children) \in Nat /\ children \in [1..Len(children) -> refs[Top] \ seen']
    BY <1>6, LenProperties
  <2>3. children \in [1..Len(children) -> Names]
    BY <2>1, <2>2
  <2> QED BY <2>2, <2>3, SeqDef
<1>8. /\ pending' \in Seq(Names)
      /\ \A n : InStack(n)' <=> old(n) \/ new(n)
  <2> DEFINE t == f \o children
  <2>1. /\ Len(f) \in Nat /\ Len(children) \in Nat
        /\ t \in Seq(Names) /\ Len(t) = Len(f) + Len(children)
        /\ \A i \in 1..(Len(f) + Len(children)) :
             t[i] = IF i <= Len(f) THEN f[i] ELSE children[i - Len(f)]
    BY <1>3, <1>7, ConcatProperties, LenProperties
  <2>2. pending' = t
    BY <1>2
  <2> HIDE DEF f, t
  <2>3. \A i \in 1..Len(f) : i \in 1..Len(t) /\ t[i] = f[i]
    BY <2>1
  <2>4. \A i \in 1..Len(children) : Len(f) + i \in 1..Len(t)
                                    /\ t[Len(f) + i] = children[i]
    <3>1. ASSUME NEW i \in 1..Len(children)
          PROVE  /\ Len(f) + i \in 1..(Len(f) + Len(children))
                 /\ ~(Len(f) + i <= Len(f)) /\ Len(f) + i - Len(f) = i
      BY <2>1
    <3> QED BY <2>1, <3>1
  <2>5. \A i \in 1..Len(t) :
          \/ i \in 1..Len(f) /\ t[i] = f[i]
          \/ i - Len(f) \in 1..Len(children) /\ t[i] = children[i - Len(f)]
    BY <2>1
  <2>6. \A n : (\E i \in 1..Len(t) : t[i] = n) <=> old(n) \/ new(n)
    BY <2>3, <2>4, <2>5
  <2> QED BY <2>1, <2>2, <2>6 DEF InStack
<1> HIDE DEF old, new
<1>9. \A n : /\ InStack(n) <=> n = Top \/ old(n)
             /\ new(n) <=> n \in refs[Top] \ seen'
  BY <1>3, <1>6 DEF old, new
<1> QED BY <1>1, <1>4, <1>8, <1>9

(* A name is dropped that needs no visit. *)
LEMMA SkipDrops ==
  ASSUME Typed, Skip
  PROVE  /\ pending' \in Seq(Names)
         /\ \A n : InStack(n)' => InStack(n)
         /\ \A n : InStack(n) => InStack(n)' \/ n \in seen \cup {Undefined}
<1>1. pending # <<>> /\ pending' = Front(pending) /\ Top \in seen \cup {Undefined}
  BY DEF Skip, Walked, Skipped
<1>2. /\ Front(pending) \in Seq(Names)
      /\ \A n : InStack(n) <=> n = Top \/ \E i \in 1..Len(Front(pending)) :
                                            Front(pending)[i] = n
  BY <1>1, FrontOfStack DEF Typed, Top, InStack
<1> QED BY <1>1, <1>2 DEF InStack

(* The walk keeps names of the schema on its stack and components in what  *)
(* it found.                                                               *)
LEMMA TypeInvariant == Spec => []Typed
<1>1. Init => Typed
  <2> SUFFICES ASSUME Init PROVE Typed
    OBVIOUS
  <2>1. pending \in Seq(Names)
    <3>1. <<>> \in Seq(Names)
      BY EmptySeq
    <3>2. \A n \in Names : <<n>> \in Seq(Names)
      OBVIOUS
    <3>3. start # Generic => start \in Names
      BY StartsAssumption DEF Init
    <3> QED BY <3>1, <3>2, <3>3 DEF Init
  <2>2. refs \in [Components -> SUBSET Names]
    BY DEF Init
  <2>3. /\ kind \in [Components -> Kinds] /\ start \in Starts
        /\ seen = {} /\ paths = NotExtracted
    BY DEF Init
  <2> QED BY <2>1, <2>2, <2>3 DEF Typed
<1>2. Typed /\ [Next]_vars => Typed'
  <2> SUFFICES ASSUME Typed, [Next]_vars PROVE Typed'
    OBVIOUS
  <2>1. CASE Skip
    <3>1. pending' \in Seq(Names)
      BY <2>1, SkipDrops
    <3> QED BY <2>1, <3>1 DEF Skip, model, Typed
  <2>2. CASE Visit
    <3>1. pending' \in Seq(Names) /\ Top \in Components
      BY <2>2, VisitPushes
    <3> QED BY <2>2, <3>1 DEF Visit, model, Typed
  <2>3. CASE Extract
    BY <2>3 DEF Extract, model, Typed
  <2>4. CASE UNCHANGED vars
    BY <2>4 DEF vars, Typed
  <2> QED BY <2>1, <2>2, <2>3, <2>4 DEF Next
<1> QED BY <1>1, <1>2, PTL DEF Spec

-----------------------------------------------------------------------------
(* A name that every closed set with the type of the workflow element has. *)
Reached(n) ==
  start # Generic /\
    \A S \in SUBSET Names : start \in S /\ Closed(S) => n \in S

(* A name that was visited, that nothing defines, or that is still to be   *)
(* visited.                                                                *)
Covered(n) == n \in seen \/ n = Undefined \/ InStack(n)

(***************************************************************************)
(* Between the steps of the walk: what was found are the ordinals that     *)
(* were visited, everything visited or on the stack is reachable, and      *)
(* whatever a visited component refers to was visited too or will be.      *)
(***************************************************************************)
Walking ==
  /\ \A c : c \in found <=> c \in seen /\ IsOrdinal(c)
  /\ \A n : n \in seen \/ InStack(n) => Reached(n)
  /\ start # Generic => Covered(start)
  /\ \A c \in seen, n \in Names : n \in refs[c] => Covered(n)

(* The model is not changed by the walk.                                   *)
LEMMA ModelStays ==
  ASSUME UNCHANGED model
  PROVE  /\ \A c : IsOrdinal(c)' <=> IsOrdinal(c)
         /\ \A n : Reached(n)' <=> Reached(n)
         /\ Reachable' = Reachable
BY DEF model, IsOrdinal, Reached, Reachable, Closed

(* The walk finds what is reachable, as far as it has come.                *)
LEMMA WalkInvariant == Spec => []Walking
<1>1. Init => Walking
  <2> SUFFICES ASSUME Init PROVE Walking
    OBVIOUS
  <2>1. \A n : InStack(n) <=> start # Generic /\ n = start
    <3>1. start = Generic => Len(pending) = 0
      BY EmptySeq DEF Init
    <3>2. start # Generic => Len(pending) = 1 /\ pending[1] = start
      BY DEF Init
    <3> QED BY <3>1, <3>2 DEF InStack
  <2>2. start # Generic => Reached(start)
    BY DEF Reached
  <2> QED BY <2>1, <2>2 DEF Init, Walking, Covered
<1>2. Typed /\ Walking /\ [Next]_vars => Walking'
  <2> SUFFICES ASSUME Typed, Walking, [Next]_vars PROVE Walking'
    OBVIOUS
  <2>1. CASE Skip
    <3>1. /\ \A n : InStack(n)' => InStack(n)
          /\ \A n : InStack(n) => InStack(n)' \/ n \in seen \cup {Undefined}
      BY <2>1, SkipDrops
    <3>2. UNCHANGED <<kind, refs, start, seen, found>> /\ UNCHANGED model
      BY <2>1 DEF Skip, model
    <3>3. /\ \A c : IsOrdinal(c)' <=> IsOrdinal(c)
          /\ \A n : Reached(n)' <=> Reached(n)
      BY <3>2, ModelStays
    <3>4. \A n : Covered(n) => Covered(n)'
      BY <3>1, <3>2 DEF Covered
    <3> QED BY <3>1, <3>2, <3>3, <3>4 DEF Walking
  <2>2. CASE Visit
    <3>1. /\ Top \in Components /\ Top \notin seen /\ InStack(Top)
          /\ \A n : InStack(n) => n = Top \/ InStack(n)'
          /\ \A n : InStack(n)' => InStack(n) \/ n \in refs[Top]
          /\ \A n \in refs[Top] : n \in seen' \/ InStack(n)'
      BY <2>2, VisitPushes
    <3>2. /\ seen' = seen \cup {Top}
          /\ UNCHANGED <<kind, refs, start>> /\ UNCHANGED model
      BY <2>2 DEF Visit, model
    <3>3. /\ \A c : IsOrdinal(c)' <=> IsOrdinal(c)
          /\ \A n : Reached(n)' <=> Reached(n)
      BY <3>2, ModelStays
    <3>4. found' = IF IsOrdinal(Top) THEN found \cup {Top} ELSE found
      BY <2>2 DEF Visit, IsOrdinal
    <3>5. \A c : c \in found' <=> c \in seen' /\ IsOrdinal(c)'
      BY <3>1, <3>2, <3>3, <3>4 DEF Walking
    <3>6. Reached(Top)
      BY <3>1 DEF Walking
    <3>7. \A n \in refs[Top] : Reached(n)
      <4>1. ASSUME NEW n \in refs[Top], NEW S \in SUBSET Names,
                   start \in S, Closed(S)
            PROVE  n \in S
        <5>1. Top \in S
          BY <3>6, <4>1 DEF Reached
        <5> QED BY <3>1, <4>1, <5>1 DEF Closed
      <4>2. start # Generic
        BY <3>6 DEF Reached
      <4> QED BY <4>1, <4>2 DEF Reached
    <3>8. \A n : n \in seen' \/ InStack(n)' => Reached(n)'
      BY <3>1, <3>2, <3>3, <3>6, <3>7 DEF Walking
    <3>9. \A n : Covered(n) => Covered(n)'
      BY <3>1, <3>2 DEF Covered
    <3>10. \A c \in seen', n \in Names : n \in refs[c] => Covered(n)'
      <4>1. \A n \in refs[Top] : Covered(n)'
        BY <3>1 DEF Covered
      <4> QED BY <3>2, <3>9, <4>1 DEF Walking
    <3> QED BY <3>2, <3>5, <3>8, <3>9, <3>10 DEF Walking
  <2>3. CASE Extract \/ UNCHANGED vars
    <3>1. UNCHANGED <<kind, refs, start, pending, seen, found>>
          /\ UNCHANGED model
      BY <2>3 DEF Extract, model, vars
    <3>2. /\ \A c : IsOrdinal(c)' <=> IsOrdinal(c)
          /\ \A n : Reached(n)' <=> Reached(n)
      BY <3>1, ModelStays
    <3>3. \A n : (InStack(n)' <=> InStack(n)) /\ (Covered(n)' <=> Covered(n))
      BY <3>1 DEF InStack, Covered
    <3> QED BY <3>1, <3>2, <3>3 DEF Walking
  <2> QED BY <2>1, <2>2, <2>3 DEF Next
<1> QED BY <1>1, <1>2, TypeInvariant, PTL DEF Spec

(* When the stack is empty, what was visited is closed under reference.    *)
LEMMA WalkedVisitedAll ==
  ASSUME Typed, Walking, Walked
  PROVE  Reachable = seen
<1>1. \A n : ~InStack(n)
  BY EmptySeq DEF Walked, InStack
<1>2. \A c \in seen : c \in Reachable
  BY DEF Walking, Typed, Reachable, Reached
<1>3. ASSUME NEW c \in Reachable PROVE c \in seen
  <2> DEFINE S == seen \cup {Undefined}
  <2>1. S \in SUBSET Names
    BY DEF Typed, Names
  <2>2. start # Generic /\ start \in S
    BY <1>1 DEF Reachable, Walking, Covered
  <2>3. Closed(S)
    <3>1. ASSUME NEW d \in S \cap Components PROVE refs[d] \subseteq S
      <4>1. d \in seen /\ refs[d] \subseteq Names
        BY StartsAssumption DEF Typed
      <4> QED BY <1>1, <4>1 DEF Walking, Covered
    <3> QED BY <3>1 DEF Closed
  <2>4. c \in S /\ c \in Components
    BY <2>1, <2>2, <2>3 DEF Reachable
  <2> QED BY <2>4, StartsAssumption
<1> QED BY <1>2, <1>3

(***************************************************************************)
(* The walk finds the reachable ordinal components, all of them when it    *)
(* ends and no others at any time, whatever cycles and shared parts the    *)
(* model has (_ordinals_reachable_from).                                   *)
(***************************************************************************)
THEOREM WalkFindsTheReachable == Spec => []FindsTheReachable
<1>1. Typed /\ Walking => FindsTheReachable
  <2> SUFFICES ASSUME Typed, Walking PROVE FindsTheReachable
    OBVIOUS
  <2> DEFINE ordinals == {c \in Reachable : kind[c].ordinal}
  <2>1. \A c : c \in ordinals <=> c \in Reachable /\ IsOrdinal(c)
    BY DEF IsOrdinal
  <2>2. seen \subseteq Reachable
    BY DEF Typed, Walking, Reachable, Reached
  <2>3. Walked => Reachable = seen
    BY WalkedVisitedAll
  <2> HIDE DEF ordinals
  <2>4. found \subseteq ordinals /\ (Walked => found = ordinals)
    BY <2>1, <2>2, <2>3 DEF Walking
  <2> QED BY <2>4 DEF FindsTheReachable, ordinals
<1> QED BY <1>1, TypeInvariant, WalkInvariant, PTL

(* Everything stays of its kind: what was found is among the visited.      *)
THEOREM TypeCorrect == Spec => []TypeOK
<1>1. Typed /\ Walking => TypeOK
  BY DEF Typed, Walking, TypeOK
<1> QED BY <1>1, TypeInvariant, WalkInvariant, PTL

-----------------------------------------------------------------------------
(* What was extracted, was extracted from the whole walk.                  *)
Extracted ==
  paths # NotExtracted =>
    Walked /\ \A c \in paths : c \in Components /\ IsOrdinal(c) /\ Qualifies(c)

(* What is extracted was found and qualifies.                              *)
LEMMA ExtractedInvariant == Spec => []Extracted
<1>1. Init => Extracted
  BY DEF Init, Extracted
<1>2. Typed /\ Extracted /\ [Next]_vars => Extracted'
  <2> SUFFICES ASSUME Typed, Extracted, [Next]_vars PROVE Extracted'
    OBVIOUS
  <2>1. CASE Skip \/ Visit
    <3>1. ~Walked /\ paths' = paths
      BY <2>1 DEF Skip, Visit
    <3> QED BY <3>1 DEF Extracted
  <2>2. CASE Extract
    <3>1. /\ Walked /\ Walked' /\ UNCHANGED <<kind, found>>
          /\ paths' = {c \in Components :
                         kind[c].ordinal /\ Qualifies(c) /\ kind[c].states}
      BY <2>2 DEF Extract, Walked, model
    <3>2. \A c \in paths' : c \in Components /\ IsOrdinal(c) /\ Qualifies(c)
      BY <3>1 DEF IsOrdinal
    <3>3. \A c : (IsOrdinal(c)' <=> IsOrdinal(c)) /\ (Qualifies(c)' <=> Qualifies(c))
      BY <3>1 DEF IsOrdinal, Qualifies
    <3> QED BY <3>1, <3>2, <3>3 DEF Extracted
  <2>3. CASE UNCHANGED vars
    BY <2>3 DEF vars, Extracted, Walked, IsOrdinal, Qualifies
  <2> QED BY <2>1, <2>2, <2>3 DEF Next
<1> QED BY <1>1, <1>2, TypeInvariant, PTL DEF Spec

(***************************************************************************)
(* A component is a path because the workflow element reaches it, or,      *)
(* where it reaches no ordinal, because a vocabulary binds it.             *)
(***************************************************************************)
THEOREM PathsAreTheWorkflow == Spec => []OnlyTheWorkflow
<1>1. Typed /\ Walking /\ Extracted => OnlyTheWorkflow
  <2> SUFFICES ASSUME Typed, Walking, Extracted, paths # NotExtracted,
                      NEW c \in paths
               PROVE  \/ c \in Reachable
                      \/ kind[c].bound /\ ~\E d \in Reachable : kind[d].ordinal
    BY DEF OnlyTheWorkflow
  <2>1. Walked /\ c \in Components /\ Qualifies(c)
    BY DEF Extracted
  <2>2. Reachable = seen
    BY <2>1, WalkedVisitedAll
  <2>3. CASE found # {}
    <3>1. c \in found
      BY <2>1, <2>3 DEF Qualifies
    <3> QED BY <2>2, <3>1 DEF Walking
  <2>4. CASE found = {}
    <3>1. kind[c].bound
      BY <2>1, <2>4 DEF Qualifies
    <3>2. ~\E d \in Reachable : IsOrdinal(d)
      BY <2>2, <2>4 DEF Walking
    <3> QED BY <3>1, <3>2 DEF IsOrdinal
  <2> QED BY <2>3, <2>4
<1> QED BY <1>1, TypeInvariant, WalkInvariant, ExtractedInvariant, PTL
=============================================================================
