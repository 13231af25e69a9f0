-------------------------- MODULE FJFixMap_proofs --------------------------
(***************************************************************************)
(* Proofs about FJFixMap: what binary search returns, and that the sorted  *)
(* array stays sorted and implements a map.                                *)
(***************************************************************************)
EXTENDS FJFixMap, DataLemmas

-----------------------------------------------------------------------------
(* Operators of the model for any array e with n entries in use.           *)

Arrays(K, V) == [Slots -> [key : K, value : V]]
Sorted(e, n) == \A i, j \in 0 .. n - 1 : i < j => e[i].key < e[j].key
KeysOf(e, n) == {e[i].key : i \in 0 .. n - 1}

SearchIn(e, n, key) ==
    LET search[range \in (0 .. n) \X (0 .. n)] ==
            LET left == range[1]
                right == range[2]
                mid == (left + right) \div 2
            IN  IF left >= right THEN -1
                ELSE IF e[mid].key = key THEN mid
                ELSE IF e[mid].key < key THEN search[<<mid + 1, right>>]
                ELSE search[<<left, mid>>]
    IN  search[<<0, n>>]

InsertPosIn(e, n, key) == Min({n} \cup {i \in 0 .. n - 1 : ~(e[i].key < key)})

(* Binary search in a sorted array finds the key where it is.              *)
LEMMA SearchSorted ==
    ASSUME NEW e, NEW n \in Nat, NEW key \in Nat,
           \A i \in 0 .. n - 1 : e[i].key \in Nat,
           Sorted(e, n)
    PROVE  /\ SearchIn(e, n, key) \in -1 .. n - 1
           /\ \A i \in 0 .. n - 1 : e[i].key = key <=> SearchIn(e, n, key) = i
           /\ key \in KeysOf(e, n) <=> SearchIn(e, n, key) # -1
  <1> DEFINE
        Body(f) == [range \in (0 .. n) \X (0 .. n) |->
            LET left == range[1]
                right == range[2]
                mid == (left + right) \div 2
            IN  IF left >= right THEN -1
                ELSE IF e[mid].key = key THEN mid
                ELSE IF e[mid].key < key THEN f[<<mid + 1, right>>]
                ELSE f[<<left, mid>>]]
        Place(l, r) == IF \E i \in l .. r - 1 : e[i].key = key
                       THEN CHOOSE i \in l .. r - 1 : e[i].key = key ELSE -1
        g == [range \in (0 .. n) \X (0 .. n) |-> Place(range[1], range[2])]
  <1>1. \A i, j \in 0 .. n - 1 : e[i].key = key /\ e[j].key = key => i = j
    BY DEF Sorted
  <1>2. ASSUME NEW l \in 0 .. n, NEW r \in 0 .. n, l < r
        PROVE  LET mid == (l + r) \div 2 IN
               /\ mid \in l .. r - 1
               /\ e[mid].key = key => Place(l, r) = mid
               /\ e[mid].key < key => Place(l, r) = Place(mid + 1, r)
               /\ e[mid].key # key /\ ~(e[mid].key < key) => Place(l, r) = Place(l, mid)
    <2> DEFINE mid == (l + r) \div 2
    <2>1. mid \in l .. r - 1
      BY <1>2
    <2> HIDE DEF mid
    <2>2. ASSUME e[mid].key = key PROVE Place(l, r) = mid
      BY <1>1, <2>1, <2>2
    <2>3. ASSUME e[mid].key < key PROVE Place(l, r) = Place(mid + 1, r)
      <3>1. \A i \in l .. mid : e[i].key # key
        BY <2>1, <2>3 DEF Sorted
      <3>2. \A i : i \in l .. r - 1 /\ e[i].key = key <=> i \in mid + 1 .. r - 1 /\ e[i].key = key
        BY <2>1, <3>1
      <3> QED BY <3>2, <1>1
    <2>4. ASSUME e[mid].key # key, ~(e[mid].key < key) PROVE Place(l, r) = Place(l, mid)
      <3>1. \A i \in mid .. r - 1 : e[i].key # key
        BY <2>1, <2>4 DEF Sorted
      <3>2. \A i : i \in l .. r - 1 /\ e[i].key = key <=> i \in l .. mid - 1 /\ e[i].key = key
        BY <2>1, <3>1
      <3> QED BY <3>2, <1>1
    <2> QED BY <2>1, <2>2, <2>3, <2>4 DEF mid
  <1>3. g = Body(g)
    <2>1. ASSUME NEW l \in 0 .. n, NEW r \in 0 .. n PROVE g[<<l, r>>] = Body(g)[<<l, r>>]
      <3>1. CASE l >= r
        <4>1. Place(l, r) = -1
          BY <3>1
        <4>2. g[<<l, r>>] = Place(l, r)
          <5> HIDE DEF Place
          <5> QED OBVIOUS
        <4>3. Body(g)[<<l, r>>] = -1
          <5> HIDE DEF g
          <5> QED BY <3>1
        <4> HIDE DEF g, Body, Place
        <4> QED BY <4>1, <4>2, <4>3
      <3>2. CASE l < r
        <4> DEFINE mid == (l + r) \div 2
        <4>1. mid \in l .. r - 1 /\ mid \in 0 .. n /\ mid + 1 \in 0 .. n
          BY <3>2
        <4>2. /\ g[<<l, r>>] = Place(l, r)
              /\ g[<<mid + 1, r>>] = Place(mid + 1, r)
              /\ g[<<l, mid>>] = Place(l, mid)
          <5> HIDE DEF Place, mid
          <5> QED BY <4>1
        <4>3. Body(g)[<<l, r>>] = IF e[mid].key = key THEN mid
                ELSE IF e[mid].key < key THEN g[<<mid + 1, r>>] ELSE g[<<l, mid>>]
          <5> HIDE DEF g
          <5> QED BY <3>2
        <4> HIDE DEF g, Place, mid
        <4>4. /\ e[mid].key = key => Place(l, r) = mid
              /\ e[mid].key < key => Place(l, r) = Place(mid + 1, r)
              /\ e[mid].key # key /\ ~(e[mid].key < key) => Place(l, r) = Place(l, mid)
          BY <1>2, <3>2 DEF mid
        <4> QED BY <4>2, <4>3, <4>4
      <3> HIDE DEF g, Body
      <3> QED BY <3>1, <3>2
    <2>2. \A x \in (0 .. n) \X (0 .. n) : g[x] = Body(g)[x]
      <3> DEFINE b == Body(g)
      <3>1. \A l, r \in 0 .. n : g[<<l, r>>] = b[<<l, r>>]
        BY <2>1
      <3> SUFFICES ASSUME NEW x \in (0 .. n) \X (0 .. n) PROVE g[x] = b[x]
        OBVIOUS
      <3>2. PICK l \in 0 .. n, r \in 0 .. n : x = <<l, r>>
        OBVIOUS
      <3> HIDE DEF b, g
      <3> QED BY <3>1, <3>2
    <2> QED BY <2>2
  <1> DEFINE f == CHOOSE h : h = Body(h)
  <1>4. f = Body(f)
    BY <1>3
  <1> HIDE DEF f, g
  <1> HIDE DEF Place
  <1> DEFINE Wrong == {m \in Nat : \E x \in (0 .. n) \X (0 .. n) :
                          m = x[2] - x[1] /\ f[x] # Place(x[1], x[2])}
  <1>5. ASSUME NEW l \in 0 .. n, NEW r \in 0 .. n, f[<<l, r>>] # Place(l, r)
        PROVE  r - l \in Wrong /\ \E m \in Wrong : m < r - l
    <2>1. l < r
      <3> SUFFICES ASSUME l >= r PROVE FALSE
        OBVIOUS
      <3>1. f[<<l, r>>] = -1
        BY <1>4
      <3>2. Place(l, r) = -1
        BY DEF Place
      <3> QED BY <1>5, <3>1, <3>2
    <2> DEFINE mid == (l + r) \div 2
    <2>2. mid \in l .. r - 1 /\ mid + 1 \in 0 .. n /\ mid \in 0 .. n
      BY <2>1
    <2>3. f[<<l, r>>] = IF e[mid].key = key THEN mid
                ELSE IF e[mid].key < key THEN f[<<mid + 1, r>>] ELSE f[<<l, mid>>]
      BY <1>4, <2>1
    <2>4. /\ e[mid].key = key => Place(l, r) = mid
          /\ e[mid].key < key => Place(l, r) = Place(mid + 1, r)
          /\ e[mid].key # key /\ ~(e[mid].key < key) => Place(l, r) = Place(l, mid)
      BY <1>2, <2>1
    <2> HIDE DEF mid
    <2>5. \/ f[<<mid + 1, r>>] # Place(mid + 1, r)
          \/ f[<<l, mid>>] # Place(l, mid)
      BY <1>5, <2>3, <2>4
    <2>6. \A ll, rr \in 0 .. n :
              ll <= rr /\ f[<<ll, rr>>] # Place(ll, rr) => rr - ll \in Wrong
      <3> SUFFICES ASSUME NEW ll \in 0 .. n, NEW rr \in 0 .. n,
                          ll <= rr, f[<<ll, rr>>] # Place(ll, rr)
                   PROVE  rr - ll \in Wrong
        OBVIOUS
      <3> DEFINE x == <<ll, rr>>
      <3>1. rr - ll \in Nat /\ x \in (0 .. n) \X (0 .. n)
        OBVIOUS
      <3>2. rr - ll = x[2] - x[1] /\ f[x] # Place(x[1], x[2])
        OBVIOUS
      <3> HIDE DEF x
      <3> QED BY <3>1, <3>2
    <2>7. \/ r - (mid + 1) \in Wrong
          \/ mid - l \in Wrong
      BY <2>2, <2>5, <2>6
    <2>8. r - l \in Wrong
      BY <1>5, <2>1, <2>6
    <2> HIDE DEF Wrong
    <2> QED BY <2>1, <2>2, <2>7, <2>8
  <1> HIDE DEF Wrong
  <1>6. \A l, r \in 0 .. n : f[<<l, r>>] = Place(l, r)
    <2> SUFFICES ASSUME NEW l \in 0 .. n, NEW r \in 0 .. n, f[<<l, r>>] # Place(l, r) PROVE FALSE
      OBVIOUS
    <2>1. Wrong # {} /\ Wrong \subseteq Nat
      BY <1>5 DEF Wrong
    <2>2. PICK m \in Wrong : \A k \in Wrong : m <= k
      BY <2>1, LeastNat
    <2>3. PICK x \in (0 .. n) \X (0 .. n) : m = x[2] - x[1] /\ f[x] # Place(x[1], x[2])
      BY <2>2 DEF Wrong
    <2>5. PICK ll \in 0 .. n, rr \in 0 .. n : x = <<ll, rr>>
      OBVIOUS
    <2>4. PICK k \in Wrong : k < m
      BY <1>5, <2>3, <2>5
    <2> QED BY <2>1, <2>2, <2>3, <2>4
  <1>7. SearchIn(e, n, key) = f[<<0, n>>]
    BY DEF SearchIn, f
  <1>8. SearchIn(e, n, key) = Place(0, n)
    BY <1>6, <1>7
  <1> QED BY <1>1, <1>8 DEF KeysOf, Place

-----------------------------------------------------------------------------
(* Moving entries.                                                         *)

InsertedIn(e, n, key) ==
    LET pos == InsertPosIn(e, n, key) IN
    [i \in Slots |-> IF i > pos /\ i <= n THEN e[i - 1]
                     ELSE IF i = pos THEN [e[i] EXCEPT !.key = key]
                     ELSE e[i]]
RemovedIn(e, n, idx) == [i \in Slots |-> IF i >= idx /\ i + 1 < n THEN e[i + 1] ELSE e[i]]

LEMMA InsertPosFacts ==
    ASSUME NEW e, NEW n \in Nat, NEW key \in Nat, \A i \in 0 .. n - 1 : e[i].key \in Nat
    PROVE  LET pos == InsertPosIn(e, n, key) IN
           /\ pos \in 0 .. n
           /\ \A i \in 0 .. pos - 1 : e[i].key < key
           /\ pos < n => ~(e[pos].key < key)
  <1> DEFINE T == {n} \cup {i \in 0 .. n - 1 : ~(e[i].key < key)}
  <1>1. T \in SUBSET Nat /\ T # {}
    OBVIOUS
  <1> DEFINE pos == Min(T)
  <1>2. pos \in T /\ \A m \in T : pos <= m
    <2> HIDE DEF T
    <2> QED BY <1>1, MinIsLeast
  <1>3. InsertPosIn(e, n, key) = pos
    BY DEF InsertPosIn
  <1> HIDE DEF pos
  <1> QED BY <1>2, <1>3

(* f is e, n entries of which are in use, with key inserted at pos.        *)
IsInsertion(e, n, key, pos, f) ==
    /\ pos \in 0 .. n
    /\ f[pos].key = key /\ f[pos].value = e[pos].value
    /\ \A i \in 0 .. pos - 1 : f[i] = e[i]
    /\ \A i \in pos .. n - 1 : f[i + 1] = e[i]
    /\ Sorted(f, n + 1)
    /\ KeysOf(f, n + 1) = KeysOf(e, n) \cup {key}

(* f is e, n entries of which are in use, with the entry at idx removed.   *)
IsRemoval(e, n, idx, f) ==
    /\ \A i \in 0 .. idx - 1 : f[i] = e[i]
    /\ \A i \in idx .. n - 2 : f[i] = e[i + 1]
    /\ Sorted(f, n - 1)
    /\ KeysOf(f, n - 1) = KeysOf(e, n) \ {e[idx].key}

(* An insertion keeps the array sorted, and every other entry.             *)
LEMMA InsertedKeeps ==
    ASSUME NEW K \in SUBSET Nat, NEW V, NEW e \in Arrays(K, V),
           NEW n \in 0 .. Capacity - 1,
           Sorted(e, n), NEW key \in K, key \notin KeysOf(e, n)
    PROVE  /\ InsertedIn(e, n, key) \in Arrays(K, V)
           /\ IsInsertion(e, n, key, InsertPosIn(e, n, key), InsertedIn(e, n, key))
  <1> DEFINE pos == InsertPosIn(e, n, key)
             f == InsertedIn(e, n, key)
  <1>a. Capacity \in Nat /\ n \in Nat /\ \A i \in 0 .. n - 1 : i \in Slots
    BY MapAssumption DEF Slots
  <1>0. Capacity \in Nat /\ n \in Nat /\ \A i \in 0 .. n - 1 : e[i].key \in Nat
    <2>1. \A i \in Slots : e[i].key \in K
      BY DEF Arrays
    <2>2. \A x \in K : x \in Nat
      OBVIOUS
    <2> QED BY <1>a, <2>1, <2>2
  <1>1. /\ pos \in 0 .. n
        /\ \A i \in 0 .. pos - 1 : e[i].key < key
        /\ pos < n => ~(e[pos].key < key)
    BY <1>0, InsertPosFacts
  <1>2. f = [i \in Slots |-> IF i > pos /\ i <= n THEN e[i - 1]
                     ELSE IF i = pos THEN [e[i] EXCEPT !.key = key]
                     ELSE e[i]]
    BY DEF InsertedIn
  <1> HIDE DEF pos, f
  <1>3. f \in Arrays(K, V)
    BY <1>0, <1>1, <1>2 DEF Slots, Arrays
  <1>4. f[pos].key = key /\ f[pos].value = e[pos].value
    BY <1>0, <1>1, <1>2 DEF Slots, Arrays
  <1>5. \A i \in 0 .. pos - 1 : f[i] = e[i]
    BY <1>0, <1>1, <1>2 DEF Slots
  <1>6. \A i \in pos .. n - 1 : f[i + 1] = e[i]
    BY <1>0, <1>1, <1>2 DEF Slots
  <1>7. \A i \in pos .. n - 1 : key < e[i].key
    <2>1. pos < n => key < e[pos].key
      BY <1>0, <1>1 DEF KeysOf
    <2> QED BY <1>0, <1>1, <2>1 DEF Sorted
  <1>8. \A i \in pos + 1 .. n : f[i] = e[i - 1]
    BY <1>0, <1>1, <1>6
  <1>9. Sorted(f, n + 1)
    <2> SUFFICES ASSUME NEW i \in 0 .. n, NEW j \in 0 .. n, i < j
                 PROVE  f[i].key < f[j].key
      BY DEF Sorted
    <2>1. i < pos => f[i] = e[i] /\ e[i].key < key /\ e[i].key \in Nat
      BY <1>0, <1>1, <1>5
    <2>2. j > pos => f[j] = e[j - 1] /\ key < e[j - 1].key /\ e[j - 1].key \in Nat
      BY <1>0, <1>1, <1>7, <1>8
    <2>3. CASE i > pos
      BY <1>0, <1>1, <1>8, <2>3 DEF Sorted
    <2>4. CASE j < pos
      BY <1>0, <1>1, <1>5, <2>4 DEF Sorted
    <2>5. CASE i <= pos /\ j >= pos
      BY <1>0, <1>1, <1>4, <2>1, <2>2, <2>5
    <2> QED BY <1>1, <2>3, <2>4, <2>5
  <1>10. KeysOf(f, n + 1) = KeysOf(e, n) \cup {key}
    <2>1. ASSUME NEW k \in KeysOf(f, n + 1) PROVE k \in KeysOf(e, n) \cup {key}
      BY <1>0, <1>1, <1>4, <1>5, <1>8 DEF KeysOf
    <2>2. ASSUME NEW k \in KeysOf(e, n) PROVE k \in KeysOf(f, n + 1)
      BY <1>0, <1>1, <1>5, <1>6 DEF KeysOf
    <2>3. key \in KeysOf(f, n + 1)
      BY <1>0, <1>1, <1>4 DEF KeysOf
    <2> QED BY <2>1, <2>2, <2>3
  <1> QED BY <1>1, <1>3, <1>4, <1>5, <1>6, <1>9, <1>10 DEF pos, f, IsInsertion

(* A removal keeps the array sorted, and every other entry.                *)
LEMMA RemovedKeeps ==
    ASSUME NEW K \in SUBSET Nat, NEW V, NEW e \in Arrays(K, V),
           NEW n \in 1 .. Capacity,
           Sorted(e, n), NEW idx \in 0 .. n - 1
    PROVE  /\ RemovedIn(e, n, idx) \in Arrays(K, V)
           /\ IsRemoval(e, n, idx, RemovedIn(e, n, idx))
  <1> DEFINE f == RemovedIn(e, n, idx)
  <1>a. Capacity \in Nat /\ n \in Nat /\ \A i \in 0 .. n - 1 : i \in Slots
    BY MapAssumption DEF Slots
  <1>0. Capacity \in Nat /\ n \in Nat /\ \A i \in 0 .. n - 1 : e[i].key \in Nat
    <2>1. \A i \in Slots : e[i].key \in K
      BY DEF Arrays
    <2>2. \A x \in K : x \in Nat
      OBVIOUS
    <2> QED BY <1>a, <2>1, <2>2
  <1>1. f = [i \in Slots |-> IF i >= idx /\ i + 1 < n THEN e[i + 1] ELSE e[i]]
    BY DEF RemovedIn
  <1> HIDE DEF f
  <1>2. f \in Arrays(K, V)
    BY <1>0, <1>1 DEF Slots, Arrays
  <1>3. \A i \in 0 .. idx - 1 : f[i] = e[i]
    BY <1>0, <1>1 DEF Slots
  <1>4. \A i \in idx .. n - 2 : f[i] = e[i + 1]
    BY <1>0, <1>1 DEF Slots
  <1>5. Sorted(f, n - 1)
    BY <1>0, <1>3, <1>4 DEF Sorted
  <1>6. KeysOf(f, n - 1) = KeysOf(e, n) \ {e[idx].key}
    <2>1. ASSUME NEW k \in KeysOf(f, n - 1) PROVE k \in KeysOf(e, n) \ {e[idx].key}
      <3>1. PICK i \in 0 .. n - 2 : k = f[i].key
        BY <1>0 DEF KeysOf
      <3>2. PICK j \in 0 .. n - 1 : k = e[j].key /\ j # idx
        BY <1>0, <1>3, <1>4, <3>1
      <3> QED BY <1>0, <3>2 DEF KeysOf, Sorted
    <2>2. ASSUME NEW k \in KeysOf(e, n) \ {e[idx].key} PROVE k \in KeysOf(f, n - 1)
      <3>1. PICK j \in 0 .. n - 1 : k = e[j].key /\ j # idx
        BY DEF KeysOf
      <3>2. CASE j < idx
        BY <1>0, <1>3, <3>1, <3>2 DEF KeysOf
      <3>3. CASE j > idx
        <4>1. f[j - 1] = e[j] /\ j - 1 \in 0 .. (n - 1) - 1
          BY <1>0, <1>4, <3>3
        <4> QED BY <3>1, <4>1 DEF KeysOf
      <3> QED BY <3>1, <3>2, <3>3
    <2> QED BY <2>1, <2>2
  <1> QED BY <1>2, <1>3, <1>4, <1>5, <1>6 DEF f, IsRemoval

-----------------------------------------------------------------------------
(* The map that an array stands for.                                       *)

MapIn(e, n) ==
    [key \in KeysOf(e, n) |-> (CHOOSE x \in {e[i] : i \in 0 .. n - 1} : x.key = key).value]

LEMMA KeysCounted ==
    ASSUME NEW K \in SUBSET Nat, NEW V, NEW e \in Arrays(K, V), NEW n \in 0 .. Capacity,
           Sorted(e, n)
    PROVE  Cardinality(KeysOf(e, n)) = n
  <1> DEFINE f == [i \in 1 .. n |-> e[i - 1].key]
  <1>1. n \in Nat /\ \A i \in 0 .. n - 1 : e[i].key \in Nat
    <2>1. n \in Nat /\ \A i \in 0 .. n - 1 : i \in Slots
      BY MapAssumption DEF Slots
    <2>2. \A i \in Slots : e[i].key \in K
      BY DEF Arrays
    <2>3. \A x \in K : x \in Nat
      OBVIOUS
    <2> QED BY <2>1, <2>2, <2>3
  <1>2. \A i, j \in 1 .. n : f[i] = f[j] => i = j
    BY <1>1 DEF Sorted
  <1>3. \A i \in 1 .. n : f[i] \in KeysOf(e, n)
    BY <1>1 DEF KeysOf
  <1>4. ASSUME NEW k \in KeysOf(e, n) PROVE \E i \in 1 .. n : f[i] = k
    <2>1. PICK i \in 0 .. n - 1 : k = e[i].key
      BY DEF KeysOf
    <2>2. i + 1 \in 1 .. n /\ f[i + 1] = k
      BY <1>1, <2>1
    <2> QED BY <2>2
  <1>5. f \in Bijection(1 .. n, KeysOf(e, n))
    <2>1. f \in [1 .. n -> KeysOf(e, n)]
      BY <1>3
    <2> HIDE DEF f
    <2> QED BY <1>2, <1>4, <2>1 DEF Bijection, Injection, Surjection, IsInjective
  <1> QED BY <1>1, <1>5, FS_CountingElements DEF ExistsBijection

LEMMA ValueAt ==
    ASSUME NEW K \in SUBSET Nat, NEW V, NEW e \in Arrays(K, V), NEW n \in 0 .. Capacity,
           Sorted(e, n)
    PROVE  \A i \in 0 .. n - 1 : /\ e[i].key \in KeysOf(e, n)
                                 /\ MapIn(e, n)[e[i].key] = e[i].value
  <1> SUFFICES ASSUME NEW i \in 0 .. n - 1
               PROVE  e[i].key \in KeysOf(e, n) /\ MapIn(e, n)[e[i].key] = e[i].value
    OBVIOUS
  <1>1. e[i].key \in KeysOf(e, n)
    BY DEF KeysOf
  <1>2. \A j \in 0 .. n - 1 : e[j].key = e[i].key => j = i
    <2>1. n \in Nat /\ \A j \in 0 .. n - 1 : j \in Slots
      BY MapAssumption DEF Slots
    <2>2. \A j \in Slots : e[j].key \in K
      BY DEF Arrays
    <2>3. \A x \in K : x \in Nat
      OBVIOUS
    <2>4. \A j \in 0 .. n - 1 : e[j].key \in Nat
      BY <2>1, <2>2, <2>3
    <2> QED BY <2>1, <2>4 DEF Sorted
  <1>3. \A x \in {e[j] : j \in 0 .. n - 1} : x.key = e[i].key => x = e[i]
    BY <1>2
  <1>4. (CHOOSE x \in {e[j] : j \in 0 .. n - 1} : x.key = e[i].key) = e[i]
    BY <1>3
  <1> QED BY <1>1, <1>4 DEF MapIn

Put(m, key, v) == [k \in DOMAIN m \cup {key} |-> IF k = key THEN v ELSE m[k]]
Without(m, key) == [k \in DOMAIN m \ {key} |-> m[k]]

LEMMA InsertionInMap ==
    ASSUME NEW K \in SUBSET Nat, NEW V, NEW e \in Arrays(K, V), NEW f \in Arrays(K, V),
           NEW n \in 0 .. Capacity - 1, Sorted(e, n), NEW key, key \notin KeysOf(e, n),
           NEW pos, IsInsertion(e, n, key, pos, f)
    PROVE  MapIn(f, n + 1) = Put(MapIn(e, n), key, e[pos].value)
  <1> DEFINE old == MapIn(e, n)
             new == MapIn(f, n + 1)
  <1>0. Capacity \in Nat /\ n \in 0 .. Capacity /\ n + 1 \in 0 .. Capacity
    BY MapAssumption
  <1>1. /\ pos \in 0 .. n /\ Sorted(f, n + 1)
        /\ KeysOf(f, n + 1) = KeysOf(e, n) \cup {key}
        /\ f[pos].key = key /\ f[pos].value = e[pos].value
        /\ \A i \in 0 .. pos - 1 : f[i] = e[i]
        /\ \A i \in pos .. n - 1 : f[i + 1] = e[i]
    BY DEF IsInsertion
  <1>2. \A i \in 0 .. (n + 1) - 1 : new[f[i].key] = f[i].value
    <2>1. n + 1 \in 0 .. Capacity /\ Sorted(f, n + 1)
      BY <1>0, <1>1
    <2>2. ASSUME NEW m \in 0 .. Capacity, Sorted(f, m)
          PROVE  \A i \in 0 .. m - 1 : MapIn(f, m)[f[i].key] = f[i].value
      BY <2>2, ValueAt, ZenonT(60)
    <2> QED BY <2>1, <2>2
  <1>3. \A i \in 0 .. n - 1 : old[e[i].key] = e[i].value
    BY <1>0, ValueAt, ZenonT(60)
  <1>4. new[key] = e[pos].value
    BY <1>0, <1>1, <1>2
  <1>5. ASSUME NEW k \in KeysOf(e, n) PROVE new[k] = old[k]
    <2>1. PICK i \in 0 .. n - 1 : k = e[i].key
      BY DEF KeysOf
    <2>2. PICK j \in 0 .. n : f[j] = e[i]
      BY <1>0, <1>1, <2>1
    <2> QED BY <1>0, <1>2, <1>3, <2>1, <2>2
  <1>6. /\ DOMAIN new = KeysOf(e, n) \cup {key} /\ DOMAIN old = KeysOf(e, n)
        /\ new = [k \in DOMAIN new |-> new[k]]
    BY <1>1 DEF MapIn
  <1> HIDE DEF new, old
  <1>7. new = Put(old, key, e[pos].value)
    BY <1>4, <1>5, <1>6 DEF Put
  <1> QED BY <1>7 DEF new, old

LEMMA RemovalInMap ==
    ASSUME NEW K \in SUBSET Nat, NEW V, NEW e \in Arrays(K, V), NEW f \in Arrays(K, V),
           NEW n \in 1 .. Capacity, Sorted(e, n), NEW idx \in 0 .. n - 1,
           IsRemoval(e, n, idx, f)
    PROVE  MapIn(f, n - 1) = Without(MapIn(e, n), e[idx].key)
  <1> DEFINE old == MapIn(e, n)
             new == MapIn(f, n - 1)
             key == e[idx].key
  <1>0. Capacity \in Nat /\ n \in 0 .. Capacity /\ n - 1 \in 0 .. Capacity
    BY MapAssumption
  <1>1. /\ Sorted(f, n - 1) /\ KeysOf(f, n - 1) = KeysOf(e, n) \ {key}
        /\ \A i \in 0 .. idx - 1 : f[i] = e[i]
        /\ \A i \in idx .. n - 2 : f[i] = e[i + 1]
    BY DEF IsRemoval
  <1>2. \A i \in 0 .. (n - 1) - 1 : new[f[i].key] = f[i].value
    BY <1>0, <1>1, ValueAt
  <1>3. \A i \in 0 .. n - 1 : old[e[i].key] = e[i].value
    BY <1>0, ValueAt, ZenonT(60)
  <1>4. ASSUME NEW k \in KeysOf(e, n) \ {key} PROVE new[k] = old[k]
    <2>1. PICK i \in 0 .. n - 1 : k = e[i].key /\ i # idx
      BY <1>0 DEF KeysOf
    <2>2. PICK j \in 0 .. n - 2 : f[j] = e[i]
      <3>1. CASE i < idx
        BY <1>0, <1>1, <3>1
      <3>2. CASE i > idx
        <4>1. i - 1 \in idx .. n - 2 /\ (i - 1) + 1 = i
          BY <1>0, <3>2
        <4>2. f[i - 1] = e[(i - 1) + 1]
          BY <1>1, <4>1
        <4> QED BY <1>0, <3>2, <4>1, <4>2
      <3> QED BY <1>0, <2>1, <3>1, <3>2
    <2> QED BY <1>0, <1>2, <1>3, <2>1, <2>2
  <1>5. /\ DOMAIN new = KeysOf(e, n) \ {key} /\ DOMAIN old = KeysOf(e, n)
        /\ new = [k \in DOMAIN new |-> new[k]]
    BY <1>1 DEF MapIn
  <1> HIDE DEF new, old
  <1>6. new = Without(old, key)
    BY <1>4, <1>5 DEF Without
  <1> QED BY <1>6 DEF new, old

StoredIn(e, i, v) == [e EXCEPT ![i].value = v]

(* f is e, n entries of which are in use, with v stored at i: the map      *)
(* changes at the key there, or not when i is beyond the entries in use.   *)
IsStore(e, n, i, v, f) ==
    /\ Sorted(f, n) /\ KeysOf(f, n) = KeysOf(e, n)
    /\ i < n => MapIn(f, n) = Put(MapIn(e, n), e[i].key, v)
    /\ i >= n => MapIn(f, n) = MapIn(e, n)

LEMMA StoredKeeps ==
    ASSUME NEW K \in SUBSET Nat, NEW V, NEW e \in Arrays(K, V), NEW n \in 0 .. Capacity,
           Sorted(e, n), NEW i \in Slots, NEW v \in V
    PROVE  StoredIn(e, i, v) \in Arrays(K, V) /\ IsStore(e, n, i, v, StoredIn(e, i, v))
  <1> DEFINE f == StoredIn(e, i, v)
             old == MapIn(e, n)
             new == MapIn(f, n)
             key == e[i].key
  <1>0. Capacity \in Nat /\ n \in Nat /\ i \in Nat /\ \A j \in 0 .. n - 1 : j \in Slots
    BY MapAssumption DEF Slots
  <1>1. /\ f \in Arrays(K, V)
        /\ \A j \in Slots : /\ f[j].key = e[j].key
                            /\ f[j].value = IF j = i THEN v ELSE e[j].value
    BY DEF Arrays, StoredIn
  <1> HIDE DEF f
  <1>2. Sorted(f, n) /\ KeysOf(f, n) = KeysOf(e, n)
    BY <1>0, <1>1 DEF Sorted, KeysOf
  <1>3. \A j \in 0 .. n - 1 : new[f[j].key] = f[j].value
    BY <1>1, <1>2, ValueAt
  <1>4. \A j \in 0 .. n - 1 : old[e[j].key] = e[j].value
    BY ValueAt
  <1>5. ASSUME NEW k \in KeysOf(e, n), i < n => k # key PROVE new[k] = old[k]
    <2>1. PICK j \in 0 .. n - 1 : k = e[j].key /\ j # i
      BY <1>0, <1>5 DEF KeysOf
    <2> QED BY <1>0, <1>1, <1>3, <1>4, <2>1
  <1>6. /\ DOMAIN new = KeysOf(e, n) /\ DOMAIN old = KeysOf(e, n)
        /\ new = [k \in DOMAIN new |-> new[k]] /\ old = [k \in DOMAIN old |-> old[k]]
    BY <1>2 DEF MapIn
  <1>7. ASSUME i < n PROVE new[key] = v /\ key \in KeysOf(e, n)
    <2>1. i \in 0 .. n - 1
      BY <1>0, <1>7
    <2> QED BY <1>0, <1>1, <1>3, <2>1 DEF KeysOf
  <1> HIDE DEF new, old, key
  <1>8. ASSUME i < n PROVE new = Put(old, key, v)
    <2>1. \A k \in KeysOf(e, n) : k # key => new[k] = old[k]
      BY <1>5, <1>8
    <2> QED BY <1>6, <1>7, <1>8, <2>1 DEF Put
  <1>9. ASSUME i >= n PROVE new = old
    <2>1. \A k \in KeysOf(e, n) : new[k] = old[k]
      BY <1>0, <1>5, <1>9
    <2> QED BY <1>6, <2>1
  <1> QED BY <1>1, <1>2, <1>8, <1>9 DEF f, new, old, key, IsStore

-----------------------------------------------------------------------------
(* The invariants.                                                         *)

LEMMA ModelOperators ==
    /\ KeysIn = KeysOf(entries, count)
    /\ KeysAscending <=> Sorted(entries, count)
    /\ \A key : /\ FindIndex(key) = SearchIn(entries, count, key)
                /\ InsertPos(key) = InsertPosIn(entries, count, key)
                /\ Inserted(key) = InsertedIn(entries, count, key)
    /\ \A idx : ShiftDown(idx) = RemovedIn(entries, count, idx)
  <1>1. \A key : FindIndex(key) = SearchIn(entries, count, key)
    BY DEF FindIndex, SearchIn
  <1>2. \A key : InsertPos(key) = InsertPosIn(entries, count, key)
    BY DEF InsertPos, InsertPosIn
  <1>3. \A key : Inserted(key) = InsertedIn(entries, count, key)
    BY <1>2 DEF Inserted, InsertedIn
  <1> QED BY <1>1, <1>2, <1>3 DEF KeysIn, KeysOf, KeysAscending, Sorted, ShiftDown, RemovedIn

(* Sorted keys are what the binary search needs to be right, and the       *)
(* binary search being right is what keeps the keys distinct; a caller's   *)
(* pointer is into the part of the memory that is in use.                  *)
IInv ==
    /\ TypeOK /\ KeysAscending
    /\ ptr # None => ptr \in 0 .. count - 1

LEMMA Found ==
    ASSUME IInv, NEW key \in Keys
    PROVE  /\ FindIndex(key) \in -1 .. count - 1
           /\ \A i \in 0 .. count - 1 : entries[i].key = key <=> FindIndex(key) = i
           /\ key \in KeysIn <=> FindIndex(key) # -1
  <1>1. count \in Nat /\ key \in Nat /\ Sorted(entries, count)
    BY MapAssumption, ModelOperators DEF IInv, TypeOK
  <1>2. \A i \in Slots : entries[i].key \in Keys
    BY DEF IInv, TypeOK
  <1>3. \A i \in 0 .. count - 1 : entries[i].key \in Nat
    <2>1. \A i \in 0 .. count - 1 : i \in Slots
      BY MapAssumption DEF IInv, TypeOK, Slots
    <2>2. \A x \in Keys : x \in Nat
      BY MapAssumption
    <2> QED BY <1>2, <2>1, <2>2
  <1> QED BY <1>1, <1>3, SearchSorted, ModelOperators

LEMMA InsertStep ==
    ASSUME IInv, NEW key \in Keys, Insert(key)
    PROVE  /\ key \notin KeysIn /\ count < Capacity /\ count' = count + 1
           /\ entries' \in Arrays(Keys, Values)
           /\ IsInsertion(entries, count, key, InsertPos(key), entries')
  <1>1. key \notin KeysIn /\ count < Capacity /\ count' = count + 1
    BY Found, MapAssumption DEF Insert, Full, IInv, TypeOK
  <1>2. /\ Keys \in SUBSET Nat /\ entries \in Arrays(Keys, Values) /\ count \in 0 .. Capacity - 1
        /\ Sorted(entries, count) /\ key \notin KeysOf(entries, count)
    BY <1>1, MapAssumption, ModelOperators DEF IInv, TypeOK, Arrays
  <1>3. /\ entries' = InsertedIn(entries, count, key)
        /\ InsertPos(key) = InsertPosIn(entries, count, key)
    BY ModelOperators DEF Insert
  <1> QED BY <1>1, <1>2, <1>3, InsertedKeeps

LEMMA UnsetStep ==
    ASSUME IInv, NEW key \in Keys, Unset(key)
    PROVE  LET idx == FindIndex(key) IN
           /\ idx \in 0 .. count - 1 /\ entries[idx].key = key /\ count' = count - 1
           /\ entries' \in Arrays(Keys, Values)
           /\ IsRemoval(entries, count, idx, entries')
  <1> DEFINE idx == FindIndex(key)
  <1>1. idx \in 0 .. count - 1 /\ entries[idx].key = key /\ count' = count - 1
    BY Found DEF Unset, IInv, TypeOK
  <1>2. /\ Keys \in SUBSET Nat /\ entries \in Arrays(Keys, Values)
        /\ count \in 1 .. Capacity /\ Sorted(entries, count)
    BY <1>1, MapAssumption, ModelOperators DEF IInv, TypeOK, Arrays
  <1>3. entries' = RemovedIn(entries, count, idx)
    BY ModelOperators DEF Unset
  <1> HIDE DEF idx
  <1> QED BY <1>1, <1>2, <1>3, RemovedKeeps DEF idx

LEMMA IInvInit == Init => IInv
  BY MapAssumption DEF Init, IInv, TypeOK, KeysAscending

LEMMA IInvNext == IInv /\ [Next]_vars => IInv'
  <1> SUFFICES ASSUME IInv, [Next]_vars PROVE IInv'
    OBVIOUS
  <1> USE DEF IInv
  <1>1. ASSUME NEW key \in Keys, Insert(key) PROVE IInv'
    <2>1. TypeOK'
      BY <1>1, InsertStep, MapAssumption DEF TypeOK, Slots, Insert, Arrays, IsInsertion
    <2>2. KeysAscending'
      BY <1>1, InsertStep DEF KeysAscending, Sorted, IsInsertion
    <2>3. ptr' \in 0 .. count' - 1
      BY <1>1, InsertStep DEF Insert, TypeOK, IsInsertion
    <2> QED BY <2>1, <2>2, <2>3
  <1>2. ASSUME NEW key \in Keys, InsertAborts(key) PROVE IInv'
    BY <1>2 DEF InsertAborts, TypeOK, KeysAscending
  <1>3. ASSUME NEW key \in Keys, Find(key) PROVE IInv'
    BY <1>3, Found, MapAssumption DEF Find, TypeOK, KeysAscending, Slots
  <1>4. ASSUME NEW key \in Keys, Unset(key) PROVE IInv'
    <2>1. TypeOK'
      BY <1>4, UnsetStep, MapAssumption DEF TypeOK, Unset, Arrays
    <2>2. KeysAscending'
      BY <1>4, UnsetStep DEF KeysAscending, Sorted, IsRemoval
    <2> QED BY <1>4, <2>1, <2>2 DEF Unset
  <1>5. ASSUME NEW v \in Values, Store(v) PROVE IInv'
    BY <1>5 DEF Store, TypeOK, KeysAscending, Slots
  <1>6. CASE Clear
    BY <1>6, MapAssumption DEF Clear, TypeOK, KeysAscending
  <1>7. CASE UNCHANGED vars
    BY <1>7 DEF vars, TypeOK, KeysAscending
  <1> QED BY <1>1, <1>2, <1>3, <1>4, <1>5, <1>6, <1>7 DEF Next

(* For every capacity the entries hold keys and values of the map, and the *)
(* count stays within the memory: insertion, the removal that shifts and   *)
(* the store through a pointer keep them so.                               *)
THEOREM TypeCorrect == Spec => []TypeOK
  <1>1. IInv => TypeOK
    BY DEF IInv
  <1> QED BY <1>1, IInvInit, IInvNext, PTL DEF Spec

(* The array is always in strictly ascending order of the keys, which the  *)
(* binary search relies on and insertion and removal must keep.            *)
THEOREM AlwaysAscending == Spec => []KeysAscending
  <1>1. IInv => KeysAscending
    BY DEF IInv
  <1> QED BY <1>1, IInvInit, IInvNext, PTL DEF Spec

(* On every reachable array find's binary search returns the key's place,  *)
(* or -1 when it is not there: the proof of the recursion takes a least    *)
(* counterexample by the length of the searched range.                     *)
THEOREM SearchRight == Spec => []SearchFinds
  <1>1. IInv => SearchFinds
    <2> SUFFICES ASSUME IInv, NEW key \in Keys
                 PROVE  IF key \in KeysIn
                        THEN \E i \in 0 .. count - 1 :
                                entries[i].key = key /\ FindIndex(key) = i
                        ELSE FindIndex(key) = -1
      BY DEF SearchFinds
    <2> QED BY Found DEF KeysIn
  <1> QED BY <1>1, IInvInit, IInvNext, PTL DEF Spec

-----------------------------------------------------------------------------
(* The refinement of FJMap.                                                *)

LEMMA InsertedMap ==
    ASSUME IInv, NEW key \in Keys, Insert(key)
    PROVE  MapIn(entries', count')
               = Put(MapIn(entries, count), key, entries[InsertPos(key)].value)
  <1>1. /\ Keys \in SUBSET Nat /\ entries \in Arrays(Keys, Values)
        /\ count \in 0 .. Capacity - 1 /\ Sorted(entries, count)
        /\ key \notin KeysOf(entries, count)
    BY InsertStep, MapAssumption, ModelOperators DEF IInv, TypeOK, Arrays
  <1> QED BY <1>1, InsertStep, InsertionInMap

LEMMA RemovedMap ==
    ASSUME IInv, NEW key \in Keys, Unset(key)
    PROVE  /\ key \in KeysOf(entries, count)
           /\ MapIn(entries', count') = Without(MapIn(entries, count), key)
  <1>1. /\ Keys \in SUBSET Nat /\ entries \in Arrays(Keys, Values)
        /\ count \in 1 .. Capacity /\ Sorted(entries, count)
    BY UnsetStep, MapAssumption, ModelOperators DEF IInv, TypeOK, Arrays
  <1> QED BY <1>1, UnsetStep, RemovalInMap DEF KeysOf

LEMMA StoredMap ==
    ASSUME IInv, NEW v \in Values, Store(v)
    PROVE  \E key \in KeysOf(entries, count) :
               /\ key \in Keys
               /\ MapIn(entries', count') = Put(MapIn(entries, count), key, v)
  <1>1. /\ Keys \in SUBSET Nat /\ entries \in Arrays(Keys, Values) /\ count' = count
        /\ count \in 0 .. Capacity /\ Sorted(entries, count)
        /\ ptr \in 0 .. count - 1 /\ ptr \in Slots
        /\ entries' = StoredIn(entries, ptr, v)
    BY MapAssumption, ModelOperators DEF IInv, TypeOK, Arrays, Store, Slots, StoredIn
  <1>2. MapIn(entries', count') = Put(MapIn(entries, count), entries[ptr].key, v)
    <2>1. count \in Nat /\ ptr < count
      BY <1>1, MapAssumption
    <2>2. MapIn(StoredIn(entries, ptr, v), count) = Put(MapIn(entries, count), entries[ptr].key, v)
      <3>1. IsStore(entries, count, ptr, v, StoredIn(entries, ptr, v))
        BY <1>1, StoredKeeps
      <3> QED BY <2>1, <3>1 DEF IsStore
    <2> QED BY <1>1, <2>2
  <1>3. entries[ptr].key \in KeysOf(entries, count) /\ entries[ptr].key \in Keys
    BY <1>1 DEF KeysOf, Arrays
  <1> QED BY <1>2, <1>3

(* The sorted array implements a map, for every set of keys and values and *)
(* every capacity.                                                         *)
THEOREM ArrayImplementsMap == Spec => ImplementsMap
  <1> DEFINE m == [key \in KeysIn |->
                      (CHOOSE e \in {entries[i] : i \in 0 .. count - 1} : e.key = key).value]
  <1>1. m = MapIn(entries, count) /\ DOMAIN m = KeysOf(entries, count)
    BY ModelOperators DEF MapIn
  <1>2. m' = MapIn(entries', count')
    BY DEF MapIn, KeysIn, KeysOf
  <1>3. Init => Abstract!Init
    BY MapAssumption DEF Init, Abstract!Init, KeysIn
  <1>4. ASSUME IInv, IInv', [Next]_vars PROVE [Abstract!Next]_(Abstract!vars)
    <2>0. Cardinality(DOMAIN m) = count
      BY <1>1, <1>4, KeysCounted, MapAssumption, ModelOperators DEF IInv, TypeOK, Arrays
    <2>00. \A S : Abstract!Cardinality(S) = Cardinality(S)
      BY DEF Abstract!Cardinality, Cardinality, Abstract!IsFiniteSet, IsFiniteSet
    <2> HIDE DEF m
    <2>1. ASSUME NEW key \in Keys, Insert(key) PROVE Abstract!Insert(key)
      <3>1. /\ ~aborted /\ aborted' = aborted /\ key \notin DOMAIN m
            /\ Cardinality(DOMAIN m) < Capacity
        BY <1>1, <1>4, <2>0, <2>1, InsertStep, ModelOperators DEF Insert
      <3>2. entries[InsertPos(key)].value \in Values
        <4>1. InsertPos(key) \in Slots
          BY <1>4, <2>1, InsertStep, MapAssumption DEF IsInsertion, Slots, IInv, TypeOK
        <4> QED BY <1>4, <4>1 DEF IInv, TypeOK
      <3>3. m' = [k \in DOMAIN m \cup {key} |->
                     IF k = key THEN entries[InsertPos(key)].value ELSE m[k]]
        BY <1>1, <1>2, <1>4, <2>1, InsertedMap DEF Put
      <3> QED BY <3>1, <3>2, <3>3, <2>00 DEF Abstract!Insert, m
    <2>2. ASSUME NEW key \in Keys, InsertAborts(key) PROVE Abstract!InsertFails
      <3>1. m' = m
        BY <2>2 DEF InsertAborts, m, KeysIn
      <3>2. /\ ~aborted /\ aborted' = TRUE /\ Cardinality(DOMAIN m) = Capacity
        BY <1>4, <2>0, <2>2, MapAssumption DEF InsertAborts, Full, IInv, TypeOK
      <3> QED BY <3>1, <3>2, <2>00 DEF Abstract!InsertFails, m
    <2>3. ASSUME NEW key \in Keys, Find(key) PROVE UNCHANGED Abstract!vars
      BY <2>3 DEF Find, Abstract!vars, KeysIn
    <2>4. ASSUME NEW key \in Keys, Unset(key) PROVE Abstract!Unset(key)
      <3>1. /\ ~aborted /\ aborted' = aborted /\ key \in DOMAIN m
            /\ m' = [k \in DOMAIN m \ {key} |-> m[k]]
        BY <1>1, <1>2, <1>4, <2>4, RemovedMap DEF Unset, Without
      <3> QED BY <3>1 DEF Abstract!Unset, m
    <2>5. ASSUME NEW v \in Values, Store(v) PROVE \E key \in Keys : Abstract!Store(key, v)
      <3>1. PICK key \in KeysOf(entries, count) :
                /\ key \in Keys
                /\ MapIn(entries', count') = Put(MapIn(entries, count), key, v)
        BY <1>4, <2>5, StoredMap
      <3>2. /\ ~aborted /\ aborted' = aborted /\ key \in DOMAIN m
            /\ m' = Put(m, key, v)
        BY <1>1, <1>2, <2>5, <3>1 DEF Store
      <3>3. m' = [m EXCEPT ![key] = v]
        <4>1. DOMAIN m \cup {key} = DOMAIN m /\ m = [k \in DOMAIN m |-> m[k]]
          BY <3>2 DEF m
        <4> QED BY <3>2, <4>1 DEF Put
      <3> QED BY <3>1, <3>2, <3>3 DEF Abstract!Store, m
    <2>6. ASSUME Clear PROVE Abstract!Clear
      <3>1. m' = << >>
        BY <2>6 DEF Clear, m, KeysIn
      <3>2. ~aborted /\ aborted' = aborted
        BY <2>6 DEF Clear
      <3> QED BY <3>1, <3>2 DEF Abstract!Clear, m
    <2>7. CASE UNCHANGED vars
      BY <2>7 DEF vars, Abstract!vars, KeysIn
    <2> QED BY <1>4, <2>1, <2>2, <2>3, <2>4, <2>5, <2>6, <2>7 DEF Next, Abstract!Next
  <1> QED BY <1>3, <1>4, IInvInit, IInvNext, PTL DEF Spec, ImplementsMap, Abstract!Spec
=============================================================================
