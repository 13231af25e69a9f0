------------------------- MODULE FJFixVector_proofs -------------------------
(***************************************************************************)
(* Proofs about FJFixVector: its type correctness, and that the shifting   *)
(* of memory implements a list.                                            *)
(***************************************************************************)
EXTENDS FJFixVector, DataLemmas

(* What the callers of splice keep to: start + count does not wrap.        *)
NoWrap == Capacity + MaxErased <= SizeMod

-----------------------------------------------------------------------------
(* Type correctness.                                                       *)

(* An item count never leaves the memory, also when splice is asked to     *)
(* erase more than there is.                                               *)
LEMMA SpliceArithmetic ==
    ASSUME NoWrap, TypeOK, NEW start \in 0 .. Capacity, NEW n \in 0 .. MaxErased, start < count
    PROVE  LET erased == Clamped(start, n) IN
           /\ erased \in 0 .. count - start
           /\ (start + erased) % SizeMod = start + erased
           /\ (count - erased) % SizeMod = count - erased
  <1>1. \A x \in 0 .. SizeMod - 1 : x % SizeMod = x
    BY VectorAssumption
  <1>2. start + n \in 0 .. SizeMod - 1 /\ count \in 0 .. SizeMod - 1
    BY VectorAssumption DEF NoWrap, TypeOK
  <1>3. Clamped(start, n) \in 0 .. count - start
    <2>1. (start + n) % SizeMod = start + n
      BY <1>1, <1>2
    <2>2. start + n \in Nat /\ count \in Nat /\ n \in Nat
      BY VectorAssumption DEF TypeOK
    <2> QED BY <2>1, <2>2 DEF Clamped
  <1>4. /\ start + Clamped(start, n) \in 0 .. SizeMod - 1
        /\ count - Clamped(start, n) \in 0 .. SizeMod - 1
    BY <1>2, <1>3, VectorAssumption DEF TypeOK
  <1> QED BY <1>1, <1>3, <1>4

LEMMA TypeInit == Init => TypeOK
  BY VectorAssumption DEF Init, Inherited, TypeOK, Slots

LEMMA TypeNext == NoWrap /\ TypeOK /\ [Next]_vars => TypeOK'
  <1> SUFFICES ASSUME NoWrap, TypeOK, [Next]_vars PROVE TypeOK'
    OBVIOUS
  <1>1. CASE Refuse
    BY <1>1 DEF Refuse, TypeOK
  <1>2. ASSUME NEW item \in Items, PushBack(item) PROVE TypeOK'
    BY <1>2, VectorAssumption DEF PushBack, Full, TypeOK, Slots
  <1>3. ASSUME NEW item \in Items, PushFront(item) PROVE TypeOK'
    BY <1>3, VectorAssumption DEF PushFront, Moved, Full, TypeOK, Slots
  <1>4. ASSUME NEW start \in 0 .. Capacity, NEW n \in 0 .. MaxErased, Splice(start, n)
        PROVE  TypeOK'
    <2> DEFINE erased == Clamped(start, n)
    <2>1. /\ start < count /\ count' = count - erased /\ result' = result
          /\ buffer' = Moved(start, start + erased, count - (start + erased))
          /\ erased \in 0 .. count - start
      BY <1>4, SpliceArithmetic DEF Splice
    <2> HIDE DEF erased
    <2>2. ASSUME NEW i \in Slots, i >= start, i < start + (count - (start + erased))
          PROVE  i - start + (start + erased) \in Slots
      BY <2>1, <2>2, VectorAssumption DEF TypeOK, Slots
    <2>3. buffer' \in [Slots -> Items]
      <3> SUFFICES ASSUME NEW i \in Slots
                   PROVE  Moved(start, start + erased, count - (start + erased))[i] \in Items
        BY <2>1 DEF Moved
      <3>1. \A j \in Slots : buffer[j] \in Items
        BY DEF TypeOK
      <3>2. CASE i >= start /\ i < start + (count - (start + erased))
        <4> DEFINE j == i - start + (start + erased)
        <4>1. j \in Slots
          BY <2>2, <3>2
        <4>2. Moved(start, start + erased, count - (start + erased))[i] = buffer[j]
          BY <3>2 DEF Moved
        <4> HIDE DEF j
        <4> QED BY <3>1, <4>1, <4>2
      <3>3. CASE ~(i >= start /\ i < start + (count - (start + erased)))
        BY <3>1, <3>3 DEF Moved
      <3> QED BY <3>2, <3>3
    <2> QED BY <2>1, <2>3, VectorAssumption DEF TypeOK
  <1>5. CASE Sort
    <2>1. PICK p \in SetToSeqs(0 .. count - 1) :
              buffer' = [i \in Slots |-> IF i < count THEN buffer[p[i + 1]] ELSE buffer[i]]
      BY <1>5 DEF Sort
    <2>2. IsFiniteSet(0 .. count - 1) /\ Cardinality(0 .. count - 1) = count
      BY FS_Interval DEF TypeOK
    <2>3. p \in [1 .. count -> 0 .. count - 1]
      BY <2>2, OrderIsBijection
    <2>4. buffer' \in [Slots -> Items]
      BY <2>1, <2>3, VectorAssumption DEF TypeOK, Slots
    <2> QED BY <1>5, <2>4 DEF Sort, TypeOK
  <1>6. CASE UNCHANGED vars
    BY <1>6 DEF vars, TypeOK
  <1> QED BY <1>1, <1>2, <1>3, <1>4, <1>5, <1>6 DEF Next

(* The item count stays within the memory and the items in it are items,   *)
(* whatever is pushed, erased and sorted.                                  *)
THEOREM TypeCorrect == ASSUME NoWrap PROVE Spec => []TypeOK
  <1>1. TypeOK /\ [Next]_vars => TypeOK'
    BY TypeNext
  <1> QED BY <1>1, TypeInit, PTL DEF Spec

-----------------------------------------------------------------------------
(* The refinement of FJList.                                               *)

ListIn(b, n) == [i \in 1 .. n |-> b[i - 1]]

LEMMA ListIsSeq ==
    ASSUME NEW b \in [Slots -> Items], NEW n \in 0 .. Capacity
    PROVE  /\ ListIn(b, n) \in Seq(Items) /\ Len(ListIn(b, n)) = n
           /\ DOMAIN ListIn(b, n) = 1 .. n
           /\ \A i \in 1 .. n : ListIn(b, n)[i] = b[i - 1]
  <1>1. n \in Nat /\ \A i \in 1 .. n : i - 1 \in Slots
    BY VectorAssumption DEF Slots
  <1>2. ListIn(b, n) \in [1 .. n -> Items]
    BY <1>1 DEF ListIn
  <1> QED BY <1>1, <1>2, LenProperties DEF ListIn

LEMMA ListPushedBack ==
    ASSUME TypeOK, TypeOK', NEW item \in Items, PushBack(item)
    PROVE  ListIn(buffer', count') = Append(ListIn(buffer, count), item)
  <1> DEFINE old == ListIn(buffer, count)
             new == ListIn(buffer', count')
             app == Append(old, item)
  <1>1. /\ old \in Seq(Items) /\ Len(old) = count /\ \A i \in 1 .. count : old[i] = buffer[i - 1]
        /\ new \in Seq(Items) /\ Len(new) = count'
        /\ \A i \in 1 .. count' : new[i] = buffer'[i - 1]
    BY ListIsSeq DEF TypeOK
  <1> HIDE DEF old, new
  <1>2. /\ app \in Seq(Items) /\ Len(app) = count + 1
        /\ \A i \in 1 .. count : app[i] = old[i]
        /\ app[count + 1] = item
    BY <1>1, AppendProperties
  <1> HIDE DEF app
  <1>3. /\ count \in Nat /\ count' = count + 1 /\ buffer'[count] = item
        /\ \A i \in 1 .. count : buffer'[i - 1] = buffer[i - 1]
    BY VectorAssumption DEF PushBack, Full, TypeOK, Slots
  <1>4. ASSUME NEW i \in 1 .. count + 1 PROVE new[i] = app[i]
    <2>1. CASE i \in 1 .. count
      BY <1>1, <1>2, <1>3, <2>1
    <2>2. CASE i = count + 1
      <3>1. new[count + 1] = buffer'[(count + 1) - 1] /\ (count + 1) - 1 = count
        BY <1>1, <1>3
      <3> QED BY <1>2, <1>3, <2>2, <3>1
    <2> QED BY <1>3, <2>1, <2>2
  <1>5. new = app
    BY <1>1, <1>2, <1>3, <1>4, SeqEqual
  <1> QED BY <1>5 DEF old, new, app

LEMMA ListPushedFront ==
    ASSUME TypeOK, TypeOK', NEW item \in Items, PushFront(item)
    PROVE  ListIn(buffer', count') = <<item>> \o ListIn(buffer, count)
  <1> DEFINE old == ListIn(buffer, count)
             new == ListIn(buffer', count')
             one == <<item>>
             con == one \o old
  <1>1. /\ old \in Seq(Items) /\ Len(old) = count /\ \A i \in 1 .. count : old[i] = buffer[i - 1]
        /\ new \in Seq(Items) /\ Len(new) = count'
        /\ \A i \in 1 .. count' : new[i] = buffer'[i - 1]
    BY ListIsSeq DEF TypeOK
  <1>2. one \in Seq(Items) /\ Len(one) = 1 /\ one[1] = item
    OBVIOUS
  <1> HIDE DEF old, new, one
  <1>3. /\ con \in Seq(Items) /\ Len(con) = 1 + count
        /\ \A i \in 1 .. 1 + count : con[i] = IF i <= 1 THEN one[i] ELSE old[i - 1]
    <2>1. /\ con \in Seq(Items) /\ Len(con) = Len(one) + Len(old)
          /\ \A i \in 1 .. Len(one) + Len(old) :
                 con[i] = IF i <= Len(one) THEN one[i] ELSE old[i - Len(one)]
      BY <1>1, <1>2, ConcatProperties
    <2> QED BY <1>1, <1>2, <2>1
  <1> HIDE DEF con
  <1>4. /\ count \in Nat /\ count' = count + 1 /\ buffer'[0] = item
        /\ \A i \in 1 .. count : buffer'[i] = buffer[i - 1]
    BY VectorAssumption DEF PushFront, Moved, Full, TypeOK, Slots
  <1>5. ASSUME NEW i \in 1 .. count + 1 PROVE new[i] = con[i]
    <2>1. CASE i = 1
      BY <1>1, <1>2, <1>3, <1>4, <2>1
    <2>2. CASE i - 1 \in 1 .. count
      BY <1>1, <1>3, <1>4, <2>2
    <2> QED BY <1>4, <2>1, <2>2
  <1>6. new = con
    BY <1>1, <1>3, <1>4, <1>5, SeqEqual
  <1> QED BY <1>6 DEF old, new, one, con

LEMMA ListSpliced ==
    ASSUME NoWrap, TypeOK, TypeOK', NEW start \in 0 .. Capacity, NEW n \in 0 .. MaxErased,
           Splice(start, n)
    PROVE  LET old == ListIn(buffer, count)
               erased == Clamped(start, n)
           IN  /\ erased \in 0 .. Capacity
               /\ ListIn(buffer', count')
                     = SubSeq(old, 1, start) \o SubSeq(old, start + erased + 1, Len(old))
  <1> DEFINE old == ListIn(buffer, count)
             new == ListIn(buffer', count')
             erased == Clamped(start, n)
             head == SubSeq(old, 1, start)
             tail == SubSeq(old, start + erased + 1, count)
             con == head \o tail
  <1>1. /\ old \in Seq(Items) /\ Len(old) = count /\ \A i \in 1 .. count : old[i] = buffer[i - 1]
        /\ new \in Seq(Items) /\ Len(new) = count'
        /\ \A i \in 1 .. count' : new[i] = buffer'[i - 1]
    BY ListIsSeq DEF TypeOK
  <1>2. /\ start < count /\ count' = count - erased
        /\ buffer' = Moved(start, start + erased, count - (start + erased))
        /\ erased \in 0 .. count - start /\ count \in 0 .. Capacity
    BY SpliceArithmetic DEF Splice, TypeOK
  <1> HIDE DEF old, new, erased
  <1>3. \A i \in 1 .. count : old[i] \in Items
    BY <1>1, ElementOfSeq
  <1>4. /\ head \in Seq(Items) /\ Len(head) = start
        /\ \A i \in 1 .. start : head[i] = old[i]
    <2>1. \A i \in 1 .. start : old[i] \in Items
      BY <1>2, <1>3
    <2>2. /\ SubSeq(old, 1, start) \in Seq(Items)
          /\ Len(SubSeq(old, 1, start)) = IF 1 <= start THEN start - 1 + 1 ELSE 0
          /\ \A i \in 1 .. start - 1 + 1 : SubSeq(old, 1, start)[i] = old[1 + i - 1]
      BY <2>1, SubSeqProperties
    <2> QED BY <2>2
  <1>5. /\ tail \in Seq(Items) /\ Len(tail) = count - erased - start
        /\ \A i \in 1 .. count - erased - start : tail[i] = old[start + erased + i]
    <2> DEFINE a == start + erased + 1
    <2>1. a \in Int /\ count \in Int /\ \A i \in a .. count : old[i] \in Items
      BY <1>2, <1>3
    <2> HIDE DEF a
    <2>2. /\ SubSeq(old, a, count) \in Seq(Items)
          /\ Len(SubSeq(old, a, count)) = IF a <= count THEN count - a + 1 ELSE 0
          /\ \A i \in 1 .. count - a + 1 : SubSeq(old, a, count)[i] = old[a + i - 1]
      BY <2>1, SubSeqProperties
    <2> QED BY <1>2, <2>2 DEF a
  <1> HIDE DEF head, tail
  <1>6. /\ con \in Seq(Items) /\ Len(con) = Len(head) + Len(tail)
        /\ \A i \in 1 .. Len(head) + Len(tail) :
               con[i] = IF i <= Len(head) THEN head[i] ELSE tail[i - Len(head)]
    BY <1>4, <1>5, ConcatProperties
  <1> HIDE DEF con
  <1>7. Len(con) = count'
    BY <1>2, <1>4, <1>5, <1>6
  <1>8. ASSUME NEW i \in 1 .. count' PROVE new[i] = con[i]
    <2>1. i - 1 \in Slots
      BY <1>2, VectorAssumption DEF Slots
    <2>2. CASE i <= start
      <3>1. buffer'[i - 1] = buffer[i - 1] /\ i \in 1 .. start /\ i \in 1 .. count
        BY <1>2, <2>1, <2>2 DEF Moved
      <3>2. con[i] = head[i]
        BY <1>2, <1>4, <1>5, <1>6, <2>2
      <3> QED BY <1>1, <1>4, <3>1, <3>2
    <2>3. CASE i > start
      <3>1. buffer'[i - 1] = buffer[(i - 1) - start + (start + erased)]
        BY <1>2, <2>1, <2>3 DEF Moved
      <3>2. con[i] = tail[i - start] /\ i - start \in 1 .. count - erased - start
        BY <1>2, <1>4, <1>5, <1>6, <2>3
      <3>3. tail[i - start] = old[start + erased + (i - start)]
        BY <1>5, <3>2
      <3>4. /\ start + erased + (i - start) = i + erased
            /\ (i - 1) - start + (start + erased) = (i + erased) - 1
            /\ i + erased \in 1 .. count
        BY <1>2
      <3>5. old[i + erased] = buffer[(i + erased) - 1]
        BY <1>1, <3>4
      <3> QED BY <1>1, <3>1, <3>2, <3>3, <3>4, <3>5
    <2> QED BY <1>2, <2>2, <2>3
  <1>9. new = con
    BY <1>1, <1>6, <1>7, <1>8, SeqEqual
  <1>10. erased \in 0 .. Capacity
    BY <1>2, VectorAssumption
  <1>11. new = SubSeq(old, 1, start) \o SubSeq(old, start + erased + 1, Len(old))
    BY <1>1, <1>9 DEF head, tail, con
  <1> QED BY <1>10, <1>11 DEF old, new, erased

LEMMA ListSorted ==
    ASSUME TypeOK, TypeOK', Sort
    PROVE  LET old == ListIn(buffer, count)
               new == ListIn(buffer', count')
           IN  /\ Len(new) = Len(old)
               /\ \A item \in Items :
                     Cardinality({i \in DOMAIN new : new[i] = item})
                         = Cardinality({i \in DOMAIN old : old[i] = item})
               /\ \A i, j \in DOMAIN old : i < j => new[i].msg <= new[j].msg
  <1> DEFINE old == ListIn(buffer, count)
             new == ListIn(buffer', count')
             I == 0 .. count - 1
  <1>1. PICK p \in SetToSeqs(I) :
            /\ \A i, j \in 1 .. count : i < j => buffer[p[i]].msg <= buffer[p[j]].msg
            /\ buffer' = [i \in Slots |-> IF i < count THEN buffer[p[i + 1]] ELSE buffer[i]]
    BY DEF Sort
  <1>2. /\ IsFiniteSet(I) /\ Cardinality(I) = count /\ count \in Nat /\ count' = count
        /\ \A i \in 1 .. count : i - 1 \in Slots
    <2>1. /\ count \in Nat /\ count' = count
          /\ \A i \in 1 .. count : i - 1 \in Slots
      BY VectorAssumption DEF TypeOK, Slots, Sort
    <2>2. IsFiniteSet(I) /\ Cardinality(I) = count
      BY <2>1, FS_Interval
    <2> QED BY <2>1, <2>2
  <1>3. /\ Len(old) = count /\ DOMAIN old = 1 .. count
        /\ \A i \in 1 .. count : old[i] = buffer[i - 1]
        /\ Len(new) = count /\ DOMAIN new = 1 .. count
        /\ \A i \in 1 .. count : new[i] = buffer'[i - 1]
    BY <1>2, ListIsSeq DEF TypeOK
  <1> HIDE DEF old, new
  <1>4. ASSUME NEW i \in 1 .. count PROVE new[i] = buffer[p[i]]
    <2>1. i - 1 \in Slots /\ i - 1 < count /\ (i - 1) + 1 = i
      BY <1>2
    <2>2. buffer'[i - 1] = buffer[p[(i - 1) + 1]]
      BY <1>1, <2>1
    <2> QED BY <1>3, <2>1, <2>2
  <1>5. \A i, j \in DOMAIN old : i < j => new[i].msg <= new[j].msg
    BY <1>1, <1>3, <1>4
  <1>6. ASSUME NEW item \in Items
        PROVE  Cardinality({i \in DOMAIN new : new[i] = item})
                   = Cardinality({i \in DOMAIN old : old[i] = item})
    <2> DEFINE Q == {x \in I : buffer[x] = item}
               A == {i \in 1 .. count : old[i] = item}
               f == [i \in A |-> i - 1]
    <2>1. p \in [1 .. count -> I]
      BY <1>2, OrderIsBijection
    <2>2. {i \in DOMAIN new : new[i] = item} = {i \in 1 .. count : p[i] \in Q}
      BY <1>3, <1>4, <2>1
    <2>3. Cardinality({i \in 1 .. count : p[i] \in Q}) = Cardinality(I \cap Q)
      <3> HIDE DEF Q, I
      <3> QED BY <1>2, OrderKeepsCount
    <2>4. f \in [A -> I \cap Q] /\ \A i, j \in A : f[i] = f[j] => i = j
      BY <1>2, <1>3
    <2>5. ASSUME NEW x \in I \cap Q PROVE \E i \in A : f[i] = x
      <3>1. x + 1 \in 1 .. count /\ (x + 1) - 1 = x
        BY <1>2
      <3> QED BY <1>3, <3>1
    <2>6. IsFiniteSet(A)
      <3>1. A \in SUBSET (1 .. count) /\ IsFiniteSet(1 .. count)
        BY <1>2, FS_Interval
      <3> QED BY <3>1, FS_Subset
    <2>7. f \in Bijection(A, I \cap Q)
      <3> HIDE DEF f, A, I, Q
      <3> QED BY <2>4, <2>5 DEF Bijection, Injection, Surjection, IsInjective
    <2> HIDE DEF f, A, I, Q
    <2>8. Cardinality(I \cap Q) = Cardinality(A)
      BY <2>6, <2>7, FS_Bijection DEF ExistsBijection
    <2> QED BY <1>3, <2>2, <2>3, <2>8 DEF A
  <1> QED BY <1>3, <1>5, <1>6 DEF old, new

(* The vector implements a list, for every capacity and every set of items *)
(* to put in it.                                                           *)
THEOREM VectorImplementsList == ASSUME NoWrap PROVE Spec => ImplementsList
  <1> DEFINE l == [i \in 1 .. count |-> buffer[i - 1]]
  <1>1. l = ListIn(buffer, count)
    BY DEF ListIn
  <1>2. l' = ListIn(buffer', count')
    BY DEF ListIn
  <1>3. Init => Abstract!Init
    <2> SUFFICES ASSUME Init PROVE Abstract!Init
      OBVIOUS
    <2>1. buffer \in [Slots -> Items] /\ count \in 0 .. Capacity /\ result = TRUE
      BY VectorAssumption DEF Init, Inherited
    <2>2. l \in [1 .. count -> Items]
      BY <2>1, VectorAssumption DEF Slots
    <2> QED BY <2>1, <2>2 DEF Abstract!Init
  <1>4. ASSUME TypeOK, TypeOK', [Next]_vars PROVE [Abstract!Next]_(Abstract!vars)
    <2>0. Len(l) = count /\ count \in 0 .. Capacity /\ Capacity \in Nat
      BY <1>1, <1>4, ListIsSeq, VectorAssumption DEF TypeOK
    <2>00. \A S : Abstract!Cardinality(S) = Cardinality(S)
      BY DEF Abstract!Cardinality, Cardinality, Abstract!IsFiniteSet, IsFiniteSet
    <2> HIDE DEF l
    <2>1. ASSUME Refuse PROVE Abstract!Refuse
      <3>1. l' = l
        BY <2>1 DEF Refuse, l
      <3>2. Len(l) = Capacity /\ result' = FALSE
        BY <2>0, <2>1 DEF Refuse, Full
      <3> QED BY <3>1, <3>2 DEF Abstract!Refuse, l
    <2>2. ASSUME NEW item \in Items, PushBack(item) PROVE Abstract!PushBack(item)
      <3>1. Len(l) < Capacity /\ result' = TRUE
        BY <2>0, <2>2 DEF PushBack, Full
      <3>2. l' = Append(l, item)
        BY <1>1, <1>2, <1>4, <2>2, ListPushedBack
      <3> QED BY <3>1, <3>2 DEF Abstract!PushBack, l
    <2>3. ASSUME NEW item \in Items, PushFront(item) PROVE Abstract!PushFront(item)
      <3>1. Len(l) < Capacity /\ result' = TRUE
        BY <2>0, <2>3 DEF PushFront, Full
      <3>2. l' = <<item>> \o l
        BY <1>1, <1>2, <1>4, <2>3, ListPushedFront
      <3> QED BY <3>1, <3>2 DEF Abstract!PushFront, l
    <2>4. ASSUME NEW start \in 0 .. Capacity, NEW n \in 0 .. MaxErased, Splice(start, n)
          PROVE  \E s, m \in 0 .. Capacity + 1 : Abstract!Splice(s, m)
      <3>1. PICK m \in 0 .. Capacity :
                l' = SubSeq(l, 1, start) \o SubSeq(l, start + m + 1, Len(l))
        BY <1>1, <1>2, <1>4, <2>4, ListSpliced
      <3>2. start < Len(l) /\ result' = result
        BY <2>0, <2>4 DEF Splice
      <3>3. Abstract!Splice(start, m)
        BY <3>1, <3>2 DEF Abstract!Splice, l
      <3>4. start \in 0 .. Capacity + 1 /\ m \in 0 .. Capacity + 1
        BY <2>0, <3>1
      <3> QED BY <3>3, <3>4
    <2>5. ASSUME Sort PROVE Abstract!Sort
      <3>1. /\ Len(l') = Len(l)
            /\ \A item \in Items :
                  Cardinality({i \in DOMAIN l' : l'[i] = item})
                      = Cardinality({i \in DOMAIN l : l[i] = item})
            /\ \A i, j \in DOMAIN l : i < j => l'[i].msg <= l'[j].msg
        BY <1>1, <1>2, <1>4, <2>5, ListSorted
      <3>2. result' = result
        BY <2>5 DEF Sort
      <3> QED BY <2>00, <3>1, <3>2 DEF Abstract!Sort, Abstract!Occurrences, l
    <2>6. CASE UNCHANGED vars
      BY <2>6 DEF vars, Abstract!vars
    <2> QED BY <1>4, <2>1, <2>2, <2>3, <2>4, <2>5, <2>6 DEF Next, Abstract!Next
  <1>5. TypeOK /\ [Next]_vars => TypeOK'
    BY TypeNext
  <1> QED BY <1>3, <1>4, <1>5, TypeInit, PTL DEF Spec, ImplementsList, Abstract!Spec
=============================================================================
