----------------------------- MODULE DataLemmas -----------------------------
(***************************************************************************)
(* Facts about numbers, finite sets and sequences that the proofs about    *)
(* the fixed-size containers and the shared memory rest on.                *)
(***************************************************************************)
EXTENDS SequencesExt, SequenceTheorems, FiniteSetTheorems, WellFoundedInduction, TLAPS

(* Every non-empty set of natural numbers has a least element: a proof     *)
(* by induction takes the least counterexample.                            *)
LEMMA LeastNat ==
    ASSUME NEW T \in SUBSET Nat, T # {}
    PROVE  \E n \in T : \A m \in T : n <= m
  <1>1. PICK n \in T : \A m \in T : <<m, n>> \notin OpToRel(<, Nat)
    BY NatLessThanWellFounded, WFMin
  <1>2. \A m \in T : ~(m < n)
    BY <1>1 DEF OpToRel
  <1> QED BY <1>2

LEMMA MinIsLeast ==
    ASSUME NEW T \in SUBSET Nat, T # {}
    PROVE  Min(T) \in T /\ \A m \in T : Min(T) <= m
  BY LeastNat DEF Min

-----------------------------------------------------------------------------
(* Orders of the members of a finite set.                                  *)

LEMMA OrderIsBijection ==
    ASSUME NEW I, IsFiniteSet(I), NEW o \in SetToSeqs(I)
    PROVE  /\ Cardinality(I) \in Nat
           /\ o \in [1 .. Cardinality(I) -> I]
           /\ \A i, j \in 1 .. Cardinality(I) : o[i] = o[j] => i = j
           /\ \A x \in I : \E i \in 1 .. Cardinality(I) : o[i] = x
  <1> DEFINE n == Cardinality(I)
  <1>1. n \in Nat
    BY FS_CardinalityType
  <1>2. o \in [1 .. n -> I] /\ \A i, j \in 1 .. n : o[i] = o[j] => i = j
    BY DEF SetToSeqs
  <1> HIDE DEF n
  <1>3. o \in Injection(1 .. n, I)
    BY <1>2 DEF Injection, IsInjective
  <1>4. Cardinality(1 .. n) = n
    BY <1>1, FS_Interval
  <1>5. o \in Surjection(1 .. n, I)
    BY <1>3, <1>4, FS_Injection DEF n
  <1> QED BY <1>1, <1>2, <1>5 DEF n, Surjection

(* In whatever order, the members of Q among them are as many.             *)
LEMMA OrderKeepsCount ==
    ASSUME NEW I, IsFiniteSet(I), NEW o \in SetToSeqs(I), NEW Q
    PROVE  Cardinality({i \in 1 .. Cardinality(I) : o[i] \in Q}) = Cardinality(I \cap Q)
  <1> DEFINE n == Cardinality(I)
             D == {i \in 1 .. n : o[i] \in Q}
             f == [i \in D |-> o[i]]
  <1>1. /\ n \in Nat /\ o \in [1 .. n -> I]
        /\ \A i, j \in 1 .. n : o[i] = o[j] => i = j
        /\ \A x \in I : \E i \in 1 .. n : o[i] = x
    BY OrderIsBijection
  <1> HIDE DEF n
  <1>2. IsFiniteSet(D)
    BY <1>1, FS_Interval, FS_Subset
  <1>3. f \in [D -> I \cap Q]
    BY <1>1
  <1>4. \A i, j \in D : f[i] = f[j] => i = j
    BY <1>1
  <1>5. \A x \in I \cap Q : \E i \in D : f[i] = x
    BY <1>1
  <1>6. f \in Bijection(D, I \cap Q)
    <2> HIDE DEF f, D
    <2> QED BY <1>3, <1>4, <1>5 DEF Bijection, Injection, Surjection, IsInjective
  <1> HIDE DEF f, D
  <1>7. Cardinality(I \cap Q) = Cardinality(D)
    BY <1>2, <1>6, FS_Bijection DEF ExistsBijection
  <1> QED BY <1>7 DEF D, n
=============================================================================
