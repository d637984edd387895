------------------------- MODULE PriceStreamsProofs -------------------------
(***************************************************************************)
(* Proofs about PriceStreams, for any number of nodes, pairs and streams:  *)
(* what the loop of removeString does to any slice, what holds however the *)
(* handlers interleave, and what handlers that take turns (PriceTurns)     *)
(* make of the assignment.                                                 *)
(***************************************************************************)
EXTENDS MCPriceStreams, PriceTurns, FiniteSetTheorems, WellFoundedInduction, TLAPS

-----------------------------------------------------------------------------
(* Induction.                                                              *)

\* The least of a set of numbers.
LEMMA LeastOf ==
  ASSUME NEW T, T \subseteq Nat, T # {}
  PROVE  \E m \in T : \A k \in T : ~(k < m)
<1>1. IsWellFoundedOn(OpToRel(<, Nat), Nat)
  BY NatLessThanWellFounded
<1>2. PICK m \in T : \A k \in T : <<k, m>> \notin OpToRel(<, Nat)
  BY <1>1, WFMin
<1>3. \A k \in T : ~(k < m)
  BY <1>2 DEF OpToRel
<1>4. QED
  BY <1>3

\* Induction up to a number, as a fact about a set.
LEMMA AllUpTo ==
  ASSUME NEW n \in Nat, NEW T, 0 \in T, \A i \in 1..n : i - 1 \in T => i \in T
  PROVE  0..n \subseteq T
<1> SUFFICES ASSUME (0..n) \ T # {} PROVE FALSE
  OBVIOUS
<1> DEFINE rest == (0..n) \ T
<1>1. rest \subseteq Nat
  OBVIOUS
<1> HIDE DEF rest
<1>2. PICK m \in rest : \A k \in rest : ~(k < m)
  BY <1>1, LeastOf DEF rest
<1>3. m \in 1..n /\ m - 1 \in 0..n /\ m - 1 < m
  BY <1>2 DEF rest
<1>4. QED
  BY <1>2, <1>3 DEF rest

-----------------------------------------------------------------------------
(* Positions in their order.                                               *)

\* Every one of a set of positions has a place of its own in their order.
LEMMA PlacesAreFilled ==
  ASSUME NEW n \in Nat, NEW kept \in SUBSET (1..n)
  PROVE  LET place == [i \in kept |-> Cardinality({ k \in kept : k <= i })]
         IN  /\ Cardinality(kept) \in Nat
             /\ place \in Injection(kept, 1..Cardinality(kept))
             /\ place \in Surjection(kept, 1..Cardinality(kept))
<1> DEFINE upto(i) == { k \in kept : k <= i }
           place == [i \in kept |-> Cardinality(upto(i))]
<1>1. IsFiniteSet(kept) /\ Cardinality(kept) \in Nat
  <2>1. IsFiniteSet(1..n)
    BY FS_Interval
  <2>2. IsFiniteSet(kept)
    BY <2>1, FS_Subset
  <2>3. QED
    BY <2>2, FS_CardinalityType
<1>2. ASSUME NEW i \in kept
      PROVE  IsFiniteSet(upto(i)) /\ Cardinality(upto(i)) \in 1..Cardinality(kept)
  <2>1. upto(i) \subseteq kept /\ i \in upto(i)
    OBVIOUS
  <2>2. IsFiniteSet(upto(i)) /\ Cardinality(upto(i)) <= Cardinality(kept)
    BY <1>1, <2>1, FS_Subset
  <2>3. Cardinality(upto(i)) \in Nat /\ Cardinality(upto(i)) # 0
    <3> HIDE DEF upto
    <3>1. QED
      BY <2>1, <2>2, FS_CardinalityType, FS_EmptySet
  <2>4. QED
    BY <1>1, <2>2, <2>3
<1>3. ASSUME NEW i \in kept, NEW j \in kept, i < j
      PROVE  Cardinality(upto(i)) # Cardinality(upto(j))
  <2>1. upto(i) \subseteq upto(j) /\ j \in upto(j) /\ j \notin upto(i)
    <3>1. i \in Int /\ j \in Int /\ i < j /\ \A k \in kept : k \in Int
      BY <1>3
    <3>2. \A k \in kept : k <= i => k <= j
      BY <3>1
    <3>3. j <= j /\ ~(j <= i)
      BY <3>1
    <3>4. QED
      BY <3>2, <3>3, Zenon
  <2>2. IsFiniteSet(upto(j))
    BY <1>2
  <2>3. QED
    <3> HIDE DEF upto
    <3>1. QED
      BY <2>1, <2>2, FS_Subset
<1>4. place \in [kept -> 1..Cardinality(kept)]
  BY <1>2
<1>5. \A i, j \in kept : place[i] = place[j] => i = j
  <2> TAKE i, j \in kept
  <2>1. i < j \/ j < i \/ i = j
    OBVIOUS
  <2>2. QED
    BY <1>3, <2>1
<1> HIDE DEF place
<1>6. place \in Injection(kept, 1..Cardinality(kept))
  BY <1>4, <1>5 DEF Injection, IsInjective
<1>7. IsFiniteSet(1..Cardinality(kept)) /\ Cardinality(1..Cardinality(kept)) = Cardinality(kept)
  BY <1>1, FS_Interval
<1>8. place \in Surjection(kept, 1..Cardinality(kept))
  BY <1>6, <1>7, FS_Injection
<1>9. QED
  BY <1>1, <1>6, <1>8 DEF place

-----------------------------------------------------------------------------
(* The runs of equal elements.                                             *)

\* Position j starts the run of position i.
Starts(slice, j, i) ==
  /\ \A k \in j..i : slice[k] = slice[i]
  /\ j > 1 => slice[j - 1] # slice[i]

\* Every run has one start ...
LEMMA RunHasStart ==
  ASSUME NEW slice, NEW i \in Nat \ {0}
  PROVE  RunStart(slice, i) \in 1..i /\ Starts(slice, RunStart(slice, i), i)
<1> DEFINE equal == { j \in 1..i : \A k \in j..i : slice[k] = slice[i] }
<1>1. i \in equal /\ equal \subseteq Nat
  OBVIOUS
<1>2. PICK j \in equal : \A k \in equal : ~(k < j)
  BY <1>1, LeastOf
<1>3. ASSUME j > 1 PROVE slice[j - 1] # slice[i]
  <2>1. j - 1 \in 1..i /\ j - 1 < j
    BY <1>3
  <2>2. \A k \in (j - 1)..i : k = j - 1 \/ k \in j..i
    OBVIOUS
  <2>3. QED
    BY <1>2, <2>1, <2>2
<1>4. j \in 1..i /\ Starts(slice, j, i)
  BY <1>3 DEF Starts
<1>5. RunStart(slice, i) = CHOOSE k \in 1..i : Starts(slice, k, i)
  BY Zenon DEF RunStart, Starts
<1>6. QED
  BY <1>4, <1>5

\* ... and no other.
LEMMA StartIsUnique ==
  ASSUME NEW slice, NEW i \in Nat \ {0}, NEW j \in 1..i, Starts(slice, j, i)
  PROVE  RunStart(slice, i) = j
<1> DEFINE start == RunStart(slice, i)
<1>1. start \in 1..i /\ Starts(slice, start, i)
  BY RunHasStart
<1> HIDE DEF start
<1>2. ASSUME NEW a \in 1..i, NEW b \in 1..i, Starts(slice, a, i), Starts(slice, b, i), a < b
      PROVE  FALSE
  <2>1. b > 1 /\ b - 1 \in a..i
    BY <1>2
  <2>2. QED
    BY <1>2, <2>1 DEF Starts
<1>3. ~(start < j) /\ ~(j < start)
  BY <1>1, <1>2
<1>4. QED
  BY <1>1, <1>3 DEF start

LEMMA Parity == \A x \in Nat : ((x + 1) % 2 = 1) <=> (x % 2 # 1)
  OBVIOUS

\* removeString deletes the first copy of a run, and the copy after one that it kept.
LEMMA KeptNext ==
  ASSUME NEW Alphabet, NEW slice \in Seq(Alphabet), NEW item, NEW i \in 1..Len(slice)
  PROVE  LET kept == KeptPositions(slice, item)
         IN  /\ slice[i] # item => i \in kept
             /\ slice[i] = item =>
                  (i \in kept <=> i # 1 /\ slice[i - 1] = item /\ i - 1 \notin kept)
<1> DEFINE kept == KeptPositions(slice, item)
<1>1. slice[i] # item => i \in kept
  BY DEF KeptPositions
<1>2. ASSUME slice[i] = item, i = 1 \/ slice[i - 1] # item PROVE i \notin kept
  <2>1. Starts(slice, i, i)
    BY <1>2 DEF Starts
  <2>2. i - RunStart(slice, i) = 0
    BY <2>1, StartIsUnique
  <2>3. QED
    BY <1>2, <2>2 DEF KeptPositions
<1>3. ASSUME slice[i] = item, i # 1, slice[i - 1] = item PROVE i \in kept <=> i - 1 \notin kept
  <2> DEFINE start == RunStart(slice, i - 1)
  <2>1. i - 1 \in 1..Len(slice) /\ i - 1 \in Nat \ {0}
    BY <1>3
  <2>2. start \in 1..(i - 1) /\ Starts(slice, start, i - 1)
    BY <2>1, RunHasStart
  <2> HIDE DEF start
  <2>3. start \in 1..i /\ Starts(slice, start, i)
    <3>1. \A k \in start..i : k = i \/ k \in start..(i - 1)
      BY <2>2
    <3>2. QED
      BY <1>3, <2>2, <3>1 DEF Starts
  <2>4. RunStart(slice, i) = start
    BY <2>3, StartIsUnique
  <2>5. i - 1 - start \in Nat /\ i - start = (i - 1 - start) + 1
    BY <2>2
  <2>6. ((i - start) % 2 = 1) <=> ((i - 1 - start) % 2 # 1)
    BY <2>5, Parity
  <2>7. i \in kept <=> (i - start) % 2 = 1
    BY <1>3, <2>4 DEF KeptPositions
  <2>8. i - 1 \in kept <=> (i - 1 - start) % 2 = 1
    BY <1>3, <2>1 DEF KeptPositions, start
  <2>9. QED
    BY <2>6, <2>7, <2>8
<1>4. QED
  BY <1>1, <1>2, <1>3

-----------------------------------------------------------------------------
(* removeString, one position of its range after the other.                *)

Upto(kept, i) == { k \in kept : k <= i }

LEMMA UptoCounts ==
  ASSUME NEW n \in Nat, NEW kept \in SUBSET (1..n), NEW m \in 0..n
  PROVE  /\ IsFiniteSet(Upto(kept, m)) /\ Cardinality(Upto(kept, m)) \in Nat
         /\ Upto(kept, 0) = {} /\ Cardinality(Upto(kept, 0)) = 0 /\ Upto(kept, n) = kept
         /\ \A j \in 0..m : Cardinality(Upto(kept, j)) <= Cardinality(Upto(kept, m))
<1>0. \A k \in kept : k \in Int /\ 1 <= k /\ k <= n
  OBVIOUS
<1>1. ASSUME NEW j \in 0..n PROVE IsFiniteSet(Upto(kept, j)) /\ Cardinality(Upto(kept, j)) \in Nat
  <2>1. IsFiniteSet(1..n)
    BY FS_Interval
  <2>2. Upto(kept, j) \subseteq 1..n
    BY DEF Upto
  <2>3. QED
    BY <2>1, <2>2, FS_Subset, FS_CardinalityType
<1>2. Upto(kept, 0) = {} /\ Cardinality(Upto(kept, 0)) = 0
  <2>1. \A k \in kept : ~(k <= 0)
    BY <1>0
  <2>2. Upto(kept, 0) = {}
    BY <2>1, Zenon DEF Upto
  <2>3. QED
    BY <2>2, FS_EmptySet
<1>3. Upto(kept, n) = kept
  BY <1>0 DEF Upto
<1>4. ASSUME NEW j \in 0..m PROVE Cardinality(Upto(kept, j)) <= Cardinality(Upto(kept, m))
  <2>1. \A k \in kept : k <= j => k <= m
    BY <1>0
  <2>2. Upto(kept, j) \subseteq Upto(kept, m)
    BY <2>1, Zenon DEF Upto
  <2>3. IsFiniteSet(Upto(kept, m))
    BY <1>1
  <2>4. QED
    BY <2>2, <2>3, FS_Subset
<1>5. QED
  BY <1>1, <1>2, <1>3, <1>4

LEMMA UptoNext ==
  ASSUME NEW n \in Nat, NEW kept \in SUBSET (1..n), NEW m \in Nat, m < n
  PROVE  /\ m + 1 \in kept =>
              /\ Upto(kept, m + 1) = Upto(kept, m) \cup {m + 1}
              /\ Cardinality(Upto(kept, m + 1)) = Cardinality(Upto(kept, m)) + 1
         /\ m + 1 \notin kept => Upto(kept, m + 1) = Upto(kept, m)
<1>1. ~(m + 1 <= m) /\ \A k \in kept : k <= m + 1 <=> k <= m \/ k = m + 1
  <2>1. \A k \in kept : k \in Int
    OBVIOUS
  <2>2. QED
    BY <2>1
<1>2. ASSUME m + 1 \in kept
      PROVE  /\ Upto(kept, m + 1) = Upto(kept, m) \cup {m + 1}
             /\ Cardinality(Upto(kept, m + 1)) = Cardinality(Upto(kept, m)) + 1
  <2>1. Upto(kept, m + 1) = Upto(kept, m) \cup {m + 1} /\ m + 1 \notin Upto(kept, m)
    BY <1>1, <1>2, Zenon DEF Upto
  <2>2. IsFiniteSet(Upto(kept, m))
    <3>1. m \in 0..n
      OBVIOUS
    <3>2. QED
      BY <3>1, UptoCounts
  <2>3. QED
    BY <2>1, <2>2, FS_AddElement
<1>3. m + 1 \notin kept => Upto(kept, m + 1) = Upto(kept, m)
  BY <1>1, Zenon DEF Upto
<1>4. QED
  BY <1>2, <1>3

\* The kept ones among the first m elements have their places in the backing array.
Filled(slice, item, s, m) ==
  LET kept == KeptPositions(slice, item)
  IN  \A j \in Upto(kept, m) : s.backing[Cardinality(Upto(kept, j))] = slice[j]

\* After i positions of the range, the first m elements of the slice are dealt with, and
\* the others moved down by as many as were deleted, which leaves copies of the last one.
Halfway(slice, item, s, i, m) ==
  LET kept == KeptPositions(slice, item)
      n == Len(slice)
  IN  /\ ~s.panicked /\ m \in 0..n /\ m - i = n - s.len /\ i <= m
      /\ m # 0 => m \in kept
      /\ Cardinality(Upto(kept, m)) = i
      /\ Filled(slice, item, s, m)
      /\ \A k \in (i + 1)..n :
           s.backing[k] = IF k + (m - i) < n THEN slice[k + (m - i)] ELSE slice[n]
      /\ i = m <=> \A j \in 1..m : slice[j] # item

\* All elements are dealt with, and what is left of the range finds no copy ...
Over(slice, item, s, i) ==
  /\ ~s.panicked /\ ~RemovalPanics(slice, item)
  /\ s.len = Cardinality(KeptPositions(slice, item))
  /\ Filled(slice, item, s, Len(slice))
  /\ \A k \in (i + 1)..Len(slice) : s.backing[k] # item

\* ... or it finds one past the end.
Doomed(slice, item, s, i) ==
  /\ ~s.panicked /\ RemovalPanics(slice, item)
  /\ i < Len(slice) /\ s.len <= i
  /\ \A k \in (i + 1)..Len(slice) : s.backing[k] = item

Panicked(slice, item, s) == s.panicked /\ RemovalPanics(slice, item)

Loops(n, Alphabet) == [backing : [1..n -> Alphabet], len : Int, panicked : BOOLEAN]

LoopInv(slice, item, s, i) ==
  \/ \E m \in 0..(Len(slice) - 1) : Halfway(slice, item, s, i, m)
  \/ Over(slice, item, s, i)
  \/ Doomed(slice, item, s, i)
  \/ Panicked(slice, item, s)

\* With the last element dealt with the loop has nothing left to do or will panic.
LEMMA HalfwayToEnd ==
  ASSUME NEW Alphabet, NEW slice \in Seq(Alphabet), NEW item, NEW i \in 0..Len(slice),
         slice # << >>,
         NEW s \in Loops(Len(slice), Alphabet), Halfway(slice, item, s, i, Len(slice))
  PROVE  Over(slice, item, s, i) \/ Doomed(slice, item, s, i)
<1> DEFINE n == Len(slice)
           kept == KeptPositions(slice, item)
<1>1. n \in Nat \ {0} /\ n \in kept /\ kept \in SUBSET (1..n) /\ s.len = i /\ ~s.panicked
  BY DEF Halfway, KeptPositions, Loops
<1>2. \A k \in (i + 1)..n : s.backing[k] = slice[n]
  <2>1. \A k \in (i + 1)..n : ~(k + (n - i) < n)
    BY <1>1
  <2>2. QED
    BY <1>1, <2>1 DEF Halfway
<1>3. CASE slice[n] # item
  <2>1. ~RemovalPanics(slice, item)
    BY <1>3 DEF RemovalPanics
  <2>2. s.len = Cardinality(kept) /\ Filled(slice, item, s, n)
    BY <1>1, UptoCounts DEF Halfway
  <2>3. QED
    BY <1>1, <1>2, <1>3, <2>1, <2>2 DEF Over
<1>4. CASE slice[n] = item
  <2>1. n # 1 /\ slice[n - 1] = item
    BY <1>1, <1>4, KeptNext
  <2>2. n - 1 \in 1..n - 1
    <3> HIDE DEF n
    <3>1. QED
      BY <1>1, <2>1
  <2>3. RemovalPanics(slice, item)
    BY <1>4, <2>1, <2>2 DEF RemovalPanics
  <2>4. i < n
    BY <1>1, <1>4 DEF Halfway
  <2>5. QED
    BY <1>1, <1>2, <1>4, <2>3, <2>4 DEF Doomed
<1>5. QED
  BY <1>3, <1>4

\* The element that position i + 1 of the range finds is the one after the m dealt with.
LEMMA NextIsFound ==
  ASSUME NEW Alphabet, NEW slice \in Seq(Alphabet), NEW item, NEW i \in Nat, NEW m \in Nat,
         m < Len(slice), NEW s, Halfway(slice, item, s, i, m)
  PROVE  /\ i + 1 \in 1..Len(slice) /\ m + 1 \in 1..Len(slice)
         /\ s.backing[i + 1] = slice[m + 1]
<1> DEFINE n == Len(slice)
<1>1. n \in Nat /\ i <= m /\ m < n
  BY DEF Halfway
<1>2. \A k \in (i + 1)..n :
        s.backing[k] = IF k + (m - i) < n THEN slice[k + (m - i)] ELSE slice[n]
  BY DEF Halfway
<1> HIDE DEF n
<1>3. i + 1 \in (i + 1)..n /\ i + 1 + (m - i) = m + 1 /\ (m + 1 < n \/ m + 1 = n)
  BY <1>1
<1>4. s.backing[i + 1] = slice[m + 1]
  BY <1>2, <1>3
<1>5. i + 1 \in 1..n /\ m + 1 \in 1..n
  BY <1>1
<1>6. QED
  BY <1>4, <1>5 DEF n

\* It is another item, and stays.
LEMMA VisitOther ==
  ASSUME NEW Alphabet, NEW slice \in Seq(Alphabet), NEW item, NEW i \in Nat, NEW m \in Nat,
         m < Len(slice), NEW s \in Loops(Len(slice), Alphabet),
         Halfway(slice, item, s, i, m), slice[m + 1] # item
  PROVE  Visit(s, item, i + 1) = s /\ Halfway(slice, item, s, i + 1, m + 1)
<1> DEFINE n == Len(slice)
           kept == KeptPositions(slice, item)
<1>1. /\ i + 1 \in 1..n /\ m + 1 \in 1..n /\ s.backing[i + 1] = slice[m + 1]
      /\ n \in Nat /\ kept \in SUBSET (1..n)
  BY NextIsFound DEF KeptPositions
<1>2. Visit(s, item, i + 1) = s
  BY <1>1 DEF Visit
<1>3. m + 1 \in kept
  BY <1>1, KeptNext
<1>4. /\ ~s.panicked /\ m - i = n - s.len /\ i <= m
      /\ Cardinality(Upto(kept, m)) = i
      /\ Filled(slice, item, s, m)
      /\ \A k \in (i + 1)..n :
           s.backing[k] = IF k + (m - i) < n THEN slice[k + (m - i)] ELSE slice[n]
      /\ i = m <=> \A j \in 1..m : slice[j] # item
  BY DEF Halfway
<1> HIDE DEF n, kept
<1>5. /\ Upto(kept, m + 1) = Upto(kept, m) \cup {m + 1}
      /\ Cardinality(Upto(kept, m + 1)) = i + 1
  <2>1. n \in Nat /\ kept \in SUBSET (1..n) /\ m < n
    BY <1>1
  <2>2. /\ Upto(kept, m + 1) = Upto(kept, m) \cup {m + 1}
        /\ Cardinality(Upto(kept, m + 1)) = Cardinality(Upto(kept, m)) + 1
    BY <1>3, <2>1, UptoNext
  <2>3. Cardinality(Upto(kept, m)) = i
    BY <1>4
  <2>4. QED
    BY <2>2, <2>3
<1>6. Filled(slice, item, s, m + 1)
  BY <1>1, <1>4, <1>5 DEF Filled, kept
<1>7. \A k \in (i + 1 + 1)..n :
        s.backing[k] = IF k + (m + 1 - (i + 1)) < n THEN slice[k + (m + 1 - (i + 1))] ELSE slice[n]
  <2>1. m + 1 - (i + 1) = m - i /\ \A k \in (i + 1 + 1)..n : k \in (i + 1)..n
    BY <1>1
  <2>2. QED
    BY <1>4, <2>1
<1>8. i + 1 = m + 1 <=> \A j \in 1..m + 1 : slice[j] # item
  <2>1. \A j : j \in 1..m + 1 <=> j \in 1..m \/ j = m + 1
    OBVIOUS
  <2>2. i + 1 = m + 1 <=> i = m
    OBVIOUS
  <2>3. QED
    BY <1>4, <2>1, <2>2
<1>9. m + 1 - (i + 1) = n - s.len /\ i + 1 <= m + 1 /\ m + 1 # 0 /\ m + 1 \in 0..n
  <2>1. m + 1 - (i + 1) = m - i /\ i + 1 <= m + 1 /\ m + 1 # 0
    BY <1>4
  <2>2. m + 1 \in 0..n
    BY <1>1
  <2>3. QED
    BY <1>4, <2>1, <2>2
<1>10. Halfway(slice, item, s, i + 1, m + 1)
  BY <1>3, <1>4, <1>5, <1>6, <1>7, <1>8, <1>9 DEF Halfway, n, kept
<1>11. QED
  BY <1>2, <1>10

\* It is a copy, and goes: what is behind it moves down.
LEMMA VisitCopy ==
  ASSUME NEW Alphabet, NEW slice \in Seq(Alphabet), NEW item, NEW i \in Nat, NEW m \in Nat,
         m < Len(slice), NEW s \in Loops(Len(slice), Alphabet),
         Halfway(slice, item, s, i, m), slice[m + 1] = item
  PROVE  LET t == Visit(s, item, i + 1)
             kept == KeptPositions(slice, item)
         IN  /\ ~t.panicked /\ t.len = s.len - 1
             /\ m + 1 \notin kept
             /\ \A k \in 1..i : t.backing[k] = s.backing[k]
             /\ \A k \in (i + 1)..Len(slice) :
                  t.backing[k] = IF k + (m - i) + 1 < Len(slice) THEN slice[k + (m - i) + 1]
                                                                 ELSE slice[Len(slice)]
<1> DEFINE n == Len(slice)
           d == m - i
           kept == KeptPositions(slice, item)
           t == Visit(s, item, i + 1)
<1>1. /\ i + 1 \in 1..n /\ m + 1 \in 1..n /\ s.backing[i + 1] = slice[m + 1]
      /\ n \in Nat /\ kept \in SUBSET (1..n)
  BY NextIsFound DEF KeptPositions
<1>2. /\ ~s.panicked /\ d = n - s.len /\ i <= m /\ m < n /\ d \in Nat
      /\ m # 0 => m \in kept
      /\ \A k \in (i + 1)..n : s.backing[k] = IF k + d < n THEN slice[k + d] ELSE slice[n]
  BY DEF Halfway
<1>3. m + 1 \notin kept
  <2>1. m + 1 - 1 = m
    OBVIOUS
  <2>2. m + 1 # 1 => m # 0
    OBVIOUS
  <2>3. QED
    BY <1>1, <1>2, <2>1, <2>2, KeptNext
<1>4. s.len \in Int /\ s.len = n - d /\ DOMAIN s.backing = 1..n
  <2>1. s.len \in Int /\ DOMAIN s.backing = 1..n
    BY DEF Loops
  <2> HIDE DEF n, d
  <2>2. QED
    BY <1>1, <1>2, <2>1
<1> HIDE DEF n, d
<1>5. ~(i + 1 > s.len)
  <2>1. d = m - i
    BY DEF d
  <2>2. QED
    BY <1>1, <1>2, <1>4, <2>1
<1>6. t = [s EXCEPT !.len = @ - 1,
                    !.backing = [k \in DOMAIN @ |-> IF k >= i + 1 /\ k < s.len THEN @[k + 1] ELSE @[k]]]
  BY <1>1, <1>2, <1>5 DEF Visit, RemoveIndex
<1>7. /\ ~t.panicked /\ t.len = s.len - 1
      /\ t.backing = [k \in 1..n |-> IF k >= i + 1 /\ k < s.len THEN s.backing[k + 1] ELSE s.backing[k]]
  <2>1. s = [backing |-> s.backing, len |-> s.len, panicked |-> s.panicked]
    BY DEF Loops
  <2> HIDE DEF t
  <2>2. QED
    BY <1>2, <1>4, <1>6, <2>1
<1> HIDE DEF t, kept
<1>8. ASSUME NEW k \in 1..i PROVE t.backing[k] = s.backing[k]
  <2>1. k \in 1..n /\ ~(k >= i + 1)
    BY <1>1
  <2>2. QED
    BY <1>7, <2>1
<1>9. ASSUME NEW k \in (i + 1)..n
      PROVE  t.backing[k] = IF k + d + 1 < n THEN slice[k + d + 1] ELSE slice[n]
  <2>1. k \in 1..n /\ k >= i + 1 /\ k \in Int /\ d \in Int /\ n \in Int
    BY <1>1, <1>2
  <2>2. CASE k < s.len
    <3>1. k + 1 \in (i + 1)..n /\ k + 1 + d = k + d + 1
      BY <1>1, <1>2, <1>4, <2>2
    <3>2. t.backing[k] = s.backing[k + 1]
      BY <1>7, <2>1, <2>2
    <3>3. QED
      BY <1>2, <3>1, <3>2
  <2>3. CASE ~(k < s.len)
    <3>1. ~(k + d < n) /\ ~(k + d + 1 < n)
      BY <1>4, <2>1, <2>3
    <3>2. t.backing[k] = s.backing[k]
      BY <1>7, <2>1, <2>3
    <3>3. QED
      BY <1>2, <3>1, <3>2
  <2>4. QED
    BY <2>2, <2>3
<1>10. QED
  BY <1>3, <1>7, <1>8, <1>9 DEF n, d, t, kept

\* A kept element has its place among the kept ones.
LEMMA PlaceOf ==
  ASSUME NEW n \in Nat, NEW kept \in SUBSET (1..n), NEW m \in 0..n, NEW j \in Upto(kept, m)
  PROVE  Cardinality(Upto(kept, j)) \in 1..Cardinality(Upto(kept, m))
<1>1. j \in kept /\ j <= m
  BY Zenon DEF Upto
<1>2. j \in 0..m /\ j \in 0..n /\ j <= j
  BY <1>1
<1>3. Cardinality(Upto(kept, m)) \in Nat
  BY UptoCounts
<1>4. Cardinality(Upto(kept, j)) <= Cardinality(Upto(kept, m))
  BY <1>2, UptoCounts
<1>5. IsFiniteSet(Upto(kept, j)) /\ Cardinality(Upto(kept, j)) \in Nat
  BY <1>2, UptoCounts
<1>6. j \in Upto(kept, j)
  BY <1>1, <1>2, Zenon DEF Upto
<1>7. Cardinality(Upto(kept, j)) # 0
  BY <1>5, <1>6, FS_EmptySet
<1>8. QED
  BY <1>3, <1>4, <1>5, <1>7

\* A copy in the middle is gone, and the element that slid into its place is skipped.
LEMMA CopyInside ==
  ASSUME NEW Alphabet, NEW slice \in Seq(Alphabet), NEW item, NEW i \in Nat, NEW m \in Nat,
         m + 1 < Len(slice), NEW s \in Loops(Len(slice), Alphabet),
         Halfway(slice, item, s, i, m), slice[m + 1] = item
  PROVE  Halfway(slice, item, Visit(s, item, i + 1), i + 1, m + 2)
<1> DEFINE n == Len(slice)
           kept == KeptPositions(slice, item)
           t == Visit(s, item, i + 1)
<1>1. /\ i + 1 \in 1..n /\ n \in Nat /\ kept \in SUBSET (1..n) /\ m + 1 < n /\ m < n
      /\ s.len \in Int
  BY NextIsFound DEF KeptPositions, Loops
<1>2. /\ ~t.panicked /\ t.len = s.len - 1 /\ m + 1 \notin kept
      /\ \A k \in 1..i : t.backing[k] = s.backing[k]
      /\ \A k \in (i + 1)..n : t.backing[k] = IF k + (m - i) + 1 < n THEN slice[k + (m - i) + 1]
                                                                     ELSE slice[n]
  BY <1>1, VisitCopy
<1>3. /\ m - i = n - s.len /\ i <= m
      /\ Cardinality(Upto(kept, m)) = i
      /\ Filled(slice, item, s, m)
  BY DEF Halfway
<1>4. m + 2 \in kept
  <2>1. m + 2 \in 1..n /\ m + 2 - 1 = m + 1 /\ m + 2 # 1
    BY <1>1
  <2>2. QED
    BY <1>2, <2>1, KeptNext
<1> HIDE DEF n, kept, t
<1>5. /\ Upto(kept, m + 2) = Upto(kept, m) \cup {m + 2}
      /\ Cardinality(Upto(kept, m + 2)) = i + 1
  <2>1. n \in Nat /\ kept \in SUBSET (1..n) /\ m < n /\ m + 1 \notin kept
    BY <1>1, <1>2
  <2>2. Upto(kept, m + 1) = Upto(kept, m)
    BY <2>1, UptoNext
  <2>3. m + 1 \in Nat /\ m + 1 + 1 = m + 2 /\ m + 1 < n
    BY <1>1
  <2>4. m + 1 + 1 \in kept
    BY <1>4, <2>3
  <2>5. /\ Upto(kept, m + 1 + 1) = Upto(kept, m + 1) \cup {m + 1 + 1}
        /\ Cardinality(Upto(kept, m + 1 + 1)) = Cardinality(Upto(kept, m + 1)) + 1
    BY <2>1, <2>3, <2>4, UptoNext
  <2>6. QED
    BY <1>3, <2>2, <2>3, <2>5
<1>6. Filled(slice, item, t, m + 2)
  <2>1. ASSUME NEW j \in Upto(kept, m)
        PROVE  t.backing[Cardinality(Upto(kept, j))] = slice[j]
    <3>1. m \in 0..n
      BY <1>1
    <3>2. Cardinality(Upto(kept, j)) \in 1..Cardinality(Upto(kept, m))
      BY <1>1, <3>1, PlaceOf
    <3>3. Cardinality(Upto(kept, j)) \in 1..i
      BY <1>3, <3>2
    <3>4. QED
      BY <1>2, <1>3, <3>3 DEF Filled, kept
  <2>2. t.backing[i + 1] = slice[m + 2]
    <3>1. i + 1 \in (i + 1)..n /\ i + 1 + (m - i) + 1 = m + 2 /\ (m + 2 < n \/ m + 2 = n)
      BY <1>1
    <3>2. QED
      BY <1>2, <3>1
  <2>3. QED
    BY <1>5, <2>1, <2>2 DEF Filled, kept
<1>7. \A k \in (i + 1 + 1)..n :
        t.backing[k] = IF k + (m + 2 - (i + 1)) < n THEN slice[k + (m + 2 - (i + 1))] ELSE slice[n]
  <2>1. \A k \in (i + 1 + 1)..n : k \in (i + 1)..n /\ k + (m + 2 - (i + 1)) = k + (m - i) + 1
    BY <1>1
  <2>2. QED
    BY <1>2, <2>1
<1>8. i + 1 = m + 2 <=> \A j \in 1..m + 2 : slice[j] # item
  <2>1. m + 1 \in 1..m + 2 /\ i + 1 # m + 2
    BY <1>3
  <2>2. QED
    BY <2>1
<1>9. m + 2 - (i + 1) = n - t.len /\ i + 1 <= m + 2 /\ m + 2 # 0 /\ m + 2 \in 0..n
  BY <1>1, <1>2, <1>3
<1>10. Halfway(slice, item, t, i + 1, m + 2)
  BY <1>2, <1>4, <1>5, <1>6, <1>7, <1>8, <1>9 DEF Halfway, n, kept
<1>11. QED
  BY <1>10 DEF t

\* With a copy at the end gone, what is left of the range finds only copies of it.
LEMMA CopyAtEnd ==
  ASSUME NEW Alphabet, NEW slice \in Seq(Alphabet), NEW item, NEW i \in Nat, NEW m \in Nat,
         m + 1 = Len(slice), NEW s \in Loops(Len(slice), Alphabet),
         Halfway(slice, item, s, i, m), slice[m + 1] = item
  PROVE  LET t == Visit(s, item, i + 1)
         IN  Over(slice, item, t, i + 1) \/ Doomed(slice, item, t, i + 1)
<1> DEFINE n == Len(slice)
           kept == KeptPositions(slice, item)
           t == Visit(s, item, i + 1)
<1>1. /\ i + 1 \in 1..n /\ n \in Nat /\ kept \in SUBSET (1..n) /\ m + 1 = n /\ m < n
      /\ s.len \in Int
  BY NextIsFound DEF KeptPositions, Loops
<1>2. /\ ~t.panicked /\ t.len = s.len - 1 /\ m + 1 \notin kept
      /\ \A k \in 1..i : t.backing[k] = s.backing[k]
      /\ \A k \in (i + 1)..n : t.backing[k] = IF k + (m - i) + 1 < n THEN slice[k + (m - i) + 1]
                                                                     ELSE slice[n]
  BY <1>1, VisitCopy
<1>3. /\ m - i = n - s.len /\ i <= m
      /\ Cardinality(Upto(kept, m)) = i
      /\ Filled(slice, item, s, m)
      /\ i = m <=> \A j \in 1..m : slice[j] # item
  BY DEF Halfway
<1>4. RemovalPanics(slice, item) <=> \E j \in 1..m : slice[j] = item
  <2>1. slice # << >> /\ slice[n] = item /\ n - 1 = m
    BY <1>1
  <2>2. QED
    BY <2>1 DEF RemovalPanics
<1> HIDE DEF n, kept, t
<1>5. t.len = i
  BY <1>1, <1>2, <1>3
<1>6. \A k \in (i + 1 + 1)..n : t.backing[k] = slice[n]
  <2>1. \A k \in (i + 1 + 1)..n : k \in (i + 1)..n /\ ~(k + (m - i) + 1 < n)
    BY <1>1, <1>3
  <2>2. QED
    BY <1>2, <2>1
<1>7. CASE i = m
  <2>1. ~RemovalPanics(slice, item)
    BY <1>3, <1>4, <1>7
  <2>2. Upto(kept, n) = Upto(kept, m) /\ Upto(kept, n) = kept
    <3>1. \A k \in kept : k # m + 1
      BY <1>2, Zenon
    <3>2. \A k \in kept : k \in Int
      BY <1>1
    <3>3. \A k \in kept : k <= m + 1 <=> k <= m
      BY <3>1, <3>2
    <3>4. Upto(kept, m + 1) = Upto(kept, m)
      BY <3>3, Zenon DEF Upto
    <3>5. n \in 0..n
      BY <1>1
    <3>6. QED
      BY <1>1, <3>4, <3>5, UptoCounts
  <2>3. Filled(slice, item, t, n)
    <3>1. ASSUME NEW j \in Upto(kept, m)
          PROVE  t.backing[Cardinality(Upto(kept, j))] = slice[j]
      <4>1. m \in 0..n
        BY <1>1
      <4>2. Cardinality(Upto(kept, j)) \in 1..Cardinality(Upto(kept, m))
        BY <1>1, <4>1, PlaceOf
      <4>3. Cardinality(Upto(kept, j)) \in 1..i
        BY <1>3, <4>2
      <4>4. QED
        BY <1>2, <1>3, <4>3 DEF Filled, kept
    <3>2. QED
      BY <2>2, <3>1 DEF Filled, kept
  <2>4. \A k \in (i + 1 + 1)..n : FALSE
    BY <1>1, <1>7
  <2>5. QED
    BY <1>2, <1>3, <1>5, <2>1, <2>2, <2>3, <2>4 DEF Over, n, kept, t
<1>8. CASE i # m
  <2>1. RemovalPanics(slice, item) /\ slice[n] = item
    BY <1>1, <1>3, <1>4, <1>8
  <2>2. i + 1 < n /\ t.len <= i + 1
    BY <1>1, <1>3, <1>5, <1>8
  <2>3. QED
    BY <1>2, <1>6, <2>1, <2>2 DEF Doomed, n, t
<1>9. QED
  BY <1>7, <1>8 DEF t

LEMMA VisitTyped ==
  ASSUME NEW n \in Nat, NEW Alphabet, NEW s \in Loops(n, Alphabet), NEW item, NEW i \in 1..n
  PROVE  s.len <= n => Visit(s, item, i) \in Loops(n, Alphabet) /\ Visit(s, item, i).len <= n
<1> SUFFICES ASSUME s.len <= n
             PROVE  Visit(s, item, i) \in Loops(n, Alphabet) /\ Visit(s, item, i).len <= n
  OBVIOUS
<1>1. /\ s.backing \in [1..n -> Alphabet] /\ s.len \in Int /\ s.panicked \in BOOLEAN
      /\ s = [backing |-> s.backing, len |-> s.len, panicked |-> s.panicked]
  BY DEF Loops
<1> DEFINE down == [k \in 1..n |-> IF k >= i /\ k < s.len THEN s.backing[k + 1] ELSE s.backing[k]]
<1>2. down \in [1..n -> Alphabet]
  <2>1. \A k \in 1..n : k < s.len => k + 1 \in 1..n
    BY <1>1
  <2>2. \A k \in 1..n : down[k] \in Alphabet
    BY <1>1, <2>1
  <2>3. QED
    BY <2>2
<1>3. \/ Visit(s, item, i) = s
      \/ Visit(s, item, i) = [backing |-> s.backing, len |-> s.len, panicked |-> TRUE]
      \/ Visit(s, item, i) = [backing |-> down, len |-> s.len - 1, panicked |-> s.panicked]
  BY <1>1 DEF Visit, RemoveIndex
<1> HIDE DEF down
<1>4. ASSUME NEW backing \in [1..n -> Alphabet], NEW len \in Int, NEW panicked \in BOOLEAN, len <= n,
             Visit(s, item, i) = [backing |-> backing, len |-> len, panicked |-> panicked]
      PROVE  Visit(s, item, i) \in Loops(n, Alphabet) /\ Visit(s, item, i).len <= n
  BY <1>4 DEF Loops
<1>5. s.len - 1 \in Int /\ s.len - 1 <= n
  BY <1>1
<1>6. QED
  BY <1>1, <1>2, <1>3, <1>4, <1>5

\* The loop invariant survives every position of the range.
LEMMA LoopStep ==
  ASSUME NEW Alphabet, NEW slice \in Seq(Alphabet), NEW item, NEW i \in Nat, i < Len(slice),
         NEW s \in Loops(Len(slice), Alphabet), LoopInv(slice, item, s, i)
  PROVE  s.len <= Len(slice) => LoopInv(slice, item, Visit(s, item, i + 1), i + 1)
<1> SUFFICES ASSUME s.len <= Len(slice)
             PROVE  LoopInv(slice, item, Visit(s, item, i + 1), i + 1)
  OBVIOUS
<1> DEFINE n == Len(slice)
           t == Visit(s, item, i + 1)
<1>1. n \in Nat /\ i + 1 \in 1..n /\ i + 1 \in 0..n /\ slice # << >>
  OBVIOUS
<1>2. t \in Loops(n, Alphabet)
  BY <1>1, VisitTyped
<1>3. ASSUME NEW m \in 0..(n - 1), Halfway(slice, item, s, i, m)
      PROVE  LoopInv(slice, item, t, i + 1)
  <2>1. m \in Nat /\ m < n /\ (m + 1 < n \/ m + 1 = n) /\ (m + 2 < n \/ m + 2 = n \/ m + 1 >= n)
    BY <1>1
  <2>2. CASE slice[m + 1] # item
    <3>1. Halfway(slice, item, t, i + 1, m + 1)
      BY <1>3, <2>1, <2>2, VisitOther
    <3>2. CASE m + 1 < n
      <4>1. m + 1 \in 0..(n - 1)
        BY <1>1, <3>2
      <4>2. QED
        BY <3>1, <4>1 DEF LoopInv
    <3>3. CASE m + 1 = n
      BY <1>1, <1>2, <3>1, <3>3, HalfwayToEnd DEF LoopInv
    <3>4. QED
      BY <2>1, <3>2, <3>3
  <2>3. CASE slice[m + 1] = item /\ m + 1 < n
    <3>1. Halfway(slice, item, t, i + 1, m + 2)
      BY <1>3, <2>1, <2>3, CopyInside
    <3>2. CASE m + 2 < n
      <4>1. m + 2 \in 0..(n - 1)
        BY <1>1, <3>2
      <4>2. QED
        BY <3>1, <4>1 DEF LoopInv
    <3>3. CASE m + 2 = n
      BY <1>1, <1>2, <3>1, <3>3, HalfwayToEnd DEF LoopInv
    <3>4. QED
      BY <1>1, <2>1, <2>3, <3>2, <3>3
  <2>4. CASE slice[m + 1] = item /\ m + 1 = n
    <3>1. Over(slice, item, t, i + 1) \/ Doomed(slice, item, t, i + 1)
      BY <1>3, <2>1, <2>4, CopyAtEnd
    <3>2. QED
      BY <3>1 DEF LoopInv
  <2>5. QED
    BY <2>1, <2>2, <2>3, <2>4
<1>4. CASE Over(slice, item, s, i)
  <2>1. i + 1 \in (i + 1)..n /\ \A k \in (i + 1 + 1)..n : k \in (i + 1)..n
    BY <1>1
  <2>2. t = s
    BY <1>4, <2>1 DEF Over, Visit
  <2>3. Over(slice, item, s, i + 1)
    BY <1>4, <2>1 DEF Over
  <2>4. QED
    BY <2>2, <2>3 DEF LoopInv
<1>5. CASE Doomed(slice, item, s, i)
  <2>1. i + 1 \in (i + 1)..n /\ s.len \in Int /\ s.len <= i
    BY <1>1, <1>5 DEF Doomed, Loops
  <2>2. i + 1 > s.len /\ s.backing[i + 1] = item /\ ~s.panicked /\ RemovalPanics(slice, item)
    BY <1>5, <2>1 DEF Doomed
  <2>3. t = [s EXCEPT !.panicked = TRUE]
    BY <2>2 DEF Visit, RemoveIndex
  <2>4. t.panicked
    BY <2>3 DEF Loops
  <2>5. QED
    BY <2>2, <2>4 DEF LoopInv, Panicked
<1>6. CASE Panicked(slice, item, s)
  BY <1>6 DEF Panicked, LoopInv, Visit
<1>7. QED
  BY <1>3, <1>4, <1>5, <1>6 DEF LoopInv

LEMMA LoopInit ==
  ASSUME NEW Alphabet, NEW slice \in Seq(Alphabet), NEW item
  PROVE  LET s == [backing |-> slice, len |-> Len(slice), panicked |-> FALSE]
         IN  s \in Loops(Len(slice), Alphabet) /\ LoopInv(slice, item, s, 0)
<1> DEFINE s == [backing |-> slice, len |-> Len(slice), panicked |-> FALSE]
           n == Len(slice)
           kept == KeptPositions(slice, item)
<1>1. s \in Loops(n, Alphabet)
  BY DEF Loops
<1>2. n \in Nat /\ kept \in SUBSET (1..n) /\ 0 \in 0..n
  BY DEF KeptPositions
<1>3. Upto(kept, 0) = {} /\ Cardinality(Upto(kept, 0)) = 0 /\ Upto(kept, n) = kept
  BY <1>2, UptoCounts
<1>4. CASE n = 0
  <2>1. ~RemovalPanics(slice, item)
    BY <1>4 DEF RemovalPanics
  <2>2. Over(slice, item, s, 0)
    BY <1>3, <1>4, <2>1 DEF Over, Filled
  <2>3. QED
    BY <1>1, <2>2 DEF LoopInv
<1>5. CASE n # 0
  <2>1. 0 \in 0..(n - 1) /\ 0 - 0 = n - n /\ 0 <= 0
    BY <1>2, <1>5
  <2>2. \A k \in (0 + 1)..n :
          slice[k] = IF k + (0 - 0) < n THEN slice[k + (0 - 0)] ELSE slice[n]
    BY <1>2
  <2>3. Filled(slice, item, s, 0)
    BY <1>3 DEF Filled
  <2>4. 0 = 0 <=> \A j \in 1..0 : slice[j] # item
    OBVIOUS
  <2>5. Halfway(slice, item, s, 0, 0)
    BY <1>2, <1>3, <2>1, <2>2, <2>3, <2>4 DEF Halfway
  <2>6. QED
    BY <1>1, <2>1, <2>5 DEF LoopInv
<1>6. QED
  BY <1>4, <1>5

\* The recursive function that the loop is has a value for every position.
LEMMA RangedStep ==
  ASSUME NEW slice, NEW item, Len(slice) \in Nat
  PROVE  \A i \in 0..Len(slice) :
           Ranged(slice, item)[i] =
             IF i = 0 THEN [backing |-> slice, len |-> Len(slice), panicked |-> FALSE]
             ELSE Visit(Ranged(slice, item)[i - 1], item, i)
<1> DEFINE n == Len(slice)
           Start == [backing |-> slice, len |-> n, panicked |-> FALSE]
           Follows(f, m) ==
             f = [i \in 0..m |-> IF i = 0 THEN Start ELSE Visit(f[i - 1], item, i)]
           T == { m \in 0..n : \E f : Follows(f, m) }
<1>1. 0 \in T
  <2>1. Follows([i \in 0..0 |-> Start], 0)
    OBVIOUS
  <2>2. 0 \in 0..n
    OBVIOUS
  <2> HIDE DEF Follows
  <2>3. QED
    BY <2>1, <2>2
<1>2. ASSUME NEW m \in 1..n, m - 1 \in T PROVE m \in T
  <2>1. PICK f : Follows(f, m - 1)
    BY <1>2
  <2> DEFINE g == [i \in 0..m |-> IF i = m THEN Visit(f[m - 1], item, m) ELSE f[i]]
  <2>2. ASSUME NEW i \in 0..m
        PROVE  g[i] = IF i = 0 THEN Start ELSE Visit(g[i - 1], item, i)
    <3>1. CASE i = m
      <4>1. m # 0 /\ m - 1 \in 0..m /\ m - 1 # m
        OBVIOUS
      <4>2. QED
        BY <3>1, <4>1
    <3>2. CASE i # m
      <4>1. i \in 0..(m - 1) /\ (i # 0 => i - 1 \in 0..m /\ i - 1 # m)
        BY <3>2
      <4>2. f[i] = IF i = 0 THEN Start ELSE Visit(f[i - 1], item, i)
        BY <2>1, <4>1
      <4>3. QED
        BY <3>2, <4>1, <4>2
    <3>3. QED
      BY <3>1, <3>2
  <2> HIDE DEF Start
  <2>3. Follows(g, m)
    BY <2>2
  <2>4. m \in 0..n
    OBVIOUS
  <2> HIDE DEF Follows, g
  <2>5. QED
    BY <2>3, <2>4
<1> HIDE DEF T
<1>3. n \in T
  <2>1. 0..n \subseteq T
    BY <1>1, <1>2, AllUpTo
  <2>2. QED
    BY <2>1
<1>4. \E f : Follows(f, n)
  BY <1>3 DEF T
<1>5. Ranged(slice, item) = CHOOSE f : Follows(f, n)
  BY DEF Ranged
<1> HIDE DEF Follows
<1>6. Follows(Ranged(slice, item), n)
  BY <1>4, <1>5, Zenon
<1> USE DEF Follows
<1>7. QED
  BY <1>6

\* removeString returns the closed form, and panics where the closed form says so.
LEMMA LoopAlways ==
  ASSUME NEW Alphabet, NEW slice \in Seq(Alphabet), NEW item
  PROVE  LET s == RemoveString(slice, item)
         IN  /\ s \in Loops(Len(slice), Alphabet)
             /\ LoopInv(slice, item, s, Len(slice))
<1> DEFINE n == Len(slice)
           at == Ranged(slice, item)
           T == { i \in 0..n : /\ at[i] \in Loops(n, Alphabet) /\ at[i].len <= n
                               /\ LoopInv(slice, item, at[i], i) }
<1>1. n \in Nat
  OBVIOUS
<1>2. /\ at[0] = [backing |-> slice, len |-> n, panicked |-> FALSE]
      /\ \A i \in 1..n : at[i] = Visit(at[i - 1], item, i)
  <2>1. 0 \in 0..n /\ \A i \in 1..n : i \in 0..n /\ i # 0
    BY <1>1
  <2>2. QED
    BY <1>1, <2>1, RangedStep
<1>3. 0 \in T
  <2>1. at[0].len <= n /\ 0 \in 0..n
    BY <1>1, <1>2
  <2>2. QED
    BY <1>2, <2>1, LoopInit
<1> HIDE DEF at
<1>4. ASSUME NEW i \in 1..n, i - 1 \in T PROVE i \in T
  <2>1. i - 1 \in Nat /\ i - 1 < n /\ i - 1 + 1 = i /\ i \in 0..n
    BY <1>1
  <2>2. /\ at[i - 1] \in Loops(n, Alphabet) /\ at[i - 1].len <= n
        /\ LoopInv(slice, item, at[i - 1], i - 1)
    BY <1>4
  <2>3. at[i] = Visit(at[i - 1], item, i)
    BY <1>2
  <2>4. at[i] \in Loops(n, Alphabet) /\ at[i].len <= n
    BY <1>1, <2>2, <2>3, VisitTyped
  <2>5. LoopInv(slice, item, Visit(at[i - 1], item, i - 1 + 1), i - 1 + 1)
    BY <2>1, <2>2, LoopStep
  <2>6. LoopInv(slice, item, at[i], i)
    BY <2>1, <2>3, <2>5
  <2>7. QED
    BY <2>1, <2>4, <2>6
<1>5. n \in T
  <2> HIDE DEF T
  <2>1. 0..n \subseteq T
    BY <1>1, <1>3, <1>4, AllUpTo
  <2>2. QED
    BY <1>1, <2>1
<1>6. QED
  BY <1>5 DEF RemoveString, at

\* removeString, the loop, agrees with the closed form on every slice and every item: it
\* returns all other items in their order with the copies that the range skipped, and
\* panics exactly if the item is last in the slice and was listed before.
THEOREM LoopIsClosedForm ==
  ASSUME NEW Alphabet, NEW slice \in Seq(Alphabet), NEW item
  PROVE  Agrees(slice, item, Alphabet)
<1> DEFINE n == Len(slice)
           kept == KeptPositions(slice, item)
           s == RemoveString(slice, item)
           place == [i \in kept |-> Cardinality({ k \in kept : k <= i })]
<1>1. n \in Nat /\ kept \in SUBSET (1..n)
  BY DEF KeptPositions
<1>2. s \in Loops(n, Alphabet) /\ LoopInv(slice, item, s, n)
  BY LoopAlways
<1> HIDE DEF s
<1>3. Over(slice, item, s, n) \/ Panicked(slice, item, s)
  <2>1. ~\E m \in 0..(n - 1) : Halfway(slice, item, s, n, m)
    <3>1. \A m \in 0..(n - 1) : ~(n <= m)
      BY <1>1
    <3>2. QED
      BY <3>1 DEF Halfway
  <2>2. ~Doomed(slice, item, s, n)
    BY <1>1 DEF Doomed
  <2>3. QED
    BY <1>2, <2>1, <2>2 DEF LoopInv
<1>4. CASE Panicked(slice, item, s)
  BY <1>4 DEF Panicked, Agrees, s
<1>5. CASE Over(slice, item, s, n)
  <2> DEFINE left == SubSeq(s.backing, 1, s.len)
  <2>1. ~s.panicked /\ ~RemovalPanics(slice, item) /\ s.len = Cardinality(kept)
    BY <1>5 DEF Over
  <2>2. \A i \in kept : s.backing[place[i]] = slice[i]
    <3>1. \A j \in Upto(kept, n) : s.backing[Cardinality(Upto(kept, j))] = slice[j]
      BY <1>5 DEF Over, Filled
    <3>2. Upto(kept, n) = kept
      <4>1. n \in 0..n
        BY <1>1
      <4>2. QED
        BY <1>1, <4>1, UptoCounts
    <3>3. QED
      BY <3>1, <3>2 DEF Upto
  <2>3. /\ Cardinality(kept) \in Nat
        /\ place \in Injection(kept, 1..Cardinality(kept))
        /\ place \in Surjection(kept, 1..Cardinality(kept))
    BY <1>1, PlacesAreFilled
  <2>4. /\ \A i \in kept : place[i] \in 1..Cardinality(kept)
        /\ \A r \in 1..Cardinality(kept) : \E i \in kept : place[i] = r
    BY <2>3 DEF Surjection
  <2> HIDE DEF kept, n, place
  <2>5. Cardinality(kept) <= n
    <3>1. kept \subseteq 1..n /\ IsFiniteSet(1..n) /\ Cardinality(1..n) = n
      BY <1>1, FS_Interval
    <3>2. QED
      BY <3>1, FS_Subset
  <2>6. s.backing \in [1..n -> Alphabet]
    BY <1>2 DEF Loops, n
  <2>7. left = [r \in 1..Cardinality(kept) |-> s.backing[r]]
    BY <1>1, <2>1, <2>3, <2>5, <2>6
  <2>8. left \in [1..Cardinality(kept) -> Alphabet]
    <3>1. \A r \in 1..Cardinality(kept) : r \in 1..n
      BY <1>1, <2>3, <2>5
    <3>2. QED
      BY <2>6, <2>7, <3>1
  <2> HIDE DEF left
  <2>9. \A i \in kept : left[place[i]] = slice[i]
    BY <2>2, <2>4, <2>7
  <2>10. ASSUME NEW result \in [1..Cardinality(kept) -> Alphabet],
                \A i \in kept : result[place[i]] = slice[i]
         PROVE  result = left
    <3>1. \A r \in 1..Cardinality(kept) : result[r] = left[r]
      BY <2>4, <2>9, <2>10
    <3>2. /\ result = [r \in 1..Cardinality(kept) |-> result[r]]
          /\ left = [r \in 1..Cardinality(kept) |-> left[r]]
      BY <2>8, Zenon
    <3>3. QED
      BY <3>1, <3>2, Zenon
  <2>11. Removals(slice, item, Alphabet)
           = { result \in [1..Cardinality(kept) -> Alphabet] :
                 \A i \in kept : result[place[i]] = slice[i] }
    BY DEF Removals, kept, place
  <2>12. Removals(slice, item, Alphabet) = { left }
    BY <2>8, <2>9, <2>10, <2>11
  <2>13. QED
    BY <2>1, <2>12 DEF Agrees, left, s
<1>6. QED
  BY <1>3, <1>4, <1>5

-----------------------------------------------------------------------------
(* The handlers, however they interleave.                                  *)

USE ConfigAssumption DEF ConfigAssumption

\* Removals yields sequences over its alphabet.
LEMMA RemovalsType ==
  ASSUME NEW Alphabet, NEW slice \in Seq(Alphabet), NEW item,
         NEW result \in Removals(slice, item, Alphabet)
  PROVE  result \in Seq(Alphabet)
<1> DEFINE kept == KeptPositions(slice, item)
<1>1. IsFiniteSet(kept)
  <2>1. kept \subseteq 1..Len(slice)
    BY DEF KeptPositions
  <2>2. IsFiniteSet(1..Len(slice))
    BY FS_Interval
  <2>3. QED
    BY <2>1, <2>2, FS_Subset
<1>2. Cardinality(kept) \in Nat
  BY <1>1, FS_CardinalityType
<1>3. result \in [1..Cardinality(kept) -> Alphabet]
  BY DEF Removals
<1>4. QED
  BY <1>2, <1>3

\* Replacing a node's record and taking it out of lists keeps the types.
LEMMA RemoveFromType ==
  ASSUME TypeOK, NEW node \in Nodes, NEW gone \in SUBSET Pairs, RemoveFrom(node, gone)
  PROVE  /\ streaming' \in [Pairs -> Seq(Nodes)]
         /\ overtaken' \in SUBSET Streams
<1> DEFINE results(p) == IF p \in gone THEN Removals(streaming[p], node, Nodes)
                                       ELSE { streaming[p] }
<1>1. PICK lists \in [Pairs -> UNION { results(p) : p \in Pairs }] :
        /\ \A p \in Pairs : lists[p] \in results(p)
        /\ streaming' = lists
        /\ overtaken' = overtaken \cup Overtake({ p \in Pairs : lists[p] # streaming[p] })
  BY DEF RemoveFrom
<1>2. ASSUME NEW p \in Pairs
      PROVE  lists[p] \in Seq(Nodes)
  <2>1. streaming[p] \in Seq(Nodes)
    BY DEF TypeOK
  <2>2. lists[p] \in results(p)
    BY <1>1
  <2>3. CASE p \in gone
    BY <2>1, <2>2, <2>3, RemovalsType
  <2>4. CASE p \notin gone
    BY <2>1, <2>2, <2>4
  <2>5. QED
    BY <2>3, <2>4
<1>3. streaming' \in [Pairs -> Seq(Nodes)]
  BY <1>1, <1>2
<1>4. overtaken' \in SUBSET Streams
  BY <1>1 DEF Overtake, TypeOK
<1>5. QED
  BY <1>3, <1>4

\* A handler about to store a list stores a sequence of nodes that is not empty.
LEMMA AppendedType ==
  ASSUME TypeOK, HandlersConsistent, NEW s \in Streams, pc[s] = "write", NEW list \in Appended(s)
  PROVE  list \in Seq(Nodes) /\ list # << >>
<1>1. pair[s] \in Pairs /\ dest[s] \in Nodes
  BY DEF TypeOK, HandlersConsistent
<1>2. ASSUME NEW existing \in [1..base[s] -> saw[s]]
      PROVE  existing \in Seq(Nodes)
  <2>1. base[s] \in Nat /\ saw[s] \subseteq Nodes
    BY DEF TypeOK
  <2>2. existing \in [1..base[s] -> Nodes]
    BY <2>1
  <2>3. QED
    BY <2>1, <2>2
<1>3. streaming[pair[s]] \in Seq(Nodes)
  BY <1>1 DEF TypeOK
<1>4. PICK existing \in Seq(Nodes) : list = Append(existing, dest[s])
  BY <1>2, <1>3 DEF Appended
<1>5. Len(list) = Len(existing) + 1
  BY <1>1, <1>4
<1>6. QED
  BY <1>1, <1>4, <1>5

-----------------------------------------------------------------------------
LEMMA TypeInit == Init => TypeOK
<1> SUFFICES ASSUME Init
             PROVE  TypeOK
  OBVIOUS
<1> USE DEF Init, NoPlan
<1>1. /\ currencies \in [Nodes -> SUBSET Pairs]
      /\ streaming \in [Pairs -> Seq(Nodes)]
  OBVIOUS
<1>2. /\ channel \in [Nodes -> Streams \cup {None}]
      /\ sender \in SUBSET Streams /\ closed \in SUBSET Streams
      /\ said \in [Streams -> SUBSET Pairs]
      /\ told \in [Streams -> SUBSET Pairs]
  OBVIOUS
<1>3. pc \in [Streams -> Resting \cup Refreshing \cup {"known", "unstore", "forget"}]
  BY DEF Resting
<1>4. plan \in [Streams -> [Nodes -> SUBSET Pairs]]
  OBVIOUS
<1>5. QED
  BY <1>1, <1>2, <1>3, <1>4 DEF TypeOK

LEMMA TypeStep == TypeOK /\ HandlersConsistent /\ [Next]_vars => TypeOK'
<1> USE DEF vars, storeVars, connVars, planVars, sendVars, Refreshing, Resting, At, Goto,
            Resume, Crash
<1> SUFFICES ASSUME TypeOK, HandlersConsistent, [Next]_vars
             PROVE  TypeOK'
  OBVIOUS
<1>1. CASE Crash
  BY <1>1 DEF TypeOK
<1>2. ASSUME NEW s \in Streams, Connect(s)
      PROVE  TypeOK'
  BY <1>2 DEF Connect, TypeOK
<1>3. ASSUME NEW s \in Streams, Receive(s)
      PROVE  TypeOK'
  BY <1>3 DEF Receive, StoreChannels, TypeOK
<1>4. ASSUME NEW s \in Streams, ReceiveOther(s)
      PROVE  TypeOK'
  <2>1. CASE /\ StoreChannels(s)
             /\ UNCHANGED <<storeVars, sender, said, told, pc, planVars, sendVars, crashed>>
    BY <2>1 DEF StoreChannels, TypeOK
  <2>2. QED
    BY <1>1, <1>4, <2>1 DEF ReceiveOther
<1>5. ASSUME NEW s \in Streams, NEW known \in SUBSET Pairs, NEW gone \in SUBSET Pairs,
             Relist(s, known, gone, "snapshot")
      PROVE  TypeOK'
  <2>1. CASE RemoveFrom(NodeOf[s], gone)
    <3>1. NodeOf[s] \in Nodes
      OBVIOUS
    <3>2. /\ streaming' \in [Pairs -> Seq(Nodes)]
          /\ overtaken' \in SUBSET Streams
      BY <2>1, <3>1, RemoveFromType
    <3>3. QED
      BY <1>1, <1>5, <3>2 DEF Relist, TypeOK
  <2>2. QED
    BY <1>1, <1>5, <2>1 DEF Relist
<1>6. ASSUME NEW s \in Streams, SetNodeCurrencies(s)
      PROVE  TypeOK'
  <2>1. said[s] \in SUBSET Pairs
    BY DEF TypeOK
  <2>2. Relist(s, said[s], Pairs \ said[s], "snapshot")
    BY <1>6 DEF SetNodeCurrencies
  <2>3. QED
    BY <1>5, <2>1, <2>2
<1>7. ASSUME NEW s \in Streams, DeleteNode(s)
      PROVE  TypeOK'
  BY <1>5, <1>7 DEF DeleteNode
<1>8. ASSUME NEW s \in Streams, Snapshot(s)
      PROVE  TypeOK'
  <2>1. UNION { currencies[n] : n \in Nodes } \in SUBSET Pairs
    BY DEF TypeOK
  <2>2. PICK all \in SUBSET Pairs : UNCHANGED todo \/ todo' = [todo EXCEPT ![s] = all]
    BY <1>8, <2>1 DEF Snapshot
  <2> todo' \in [Streams -> SUBSET Pairs]
    BY <2>2 DEF TypeOK
  <2>3. pc' \in [Streams -> Resting \cup Refreshing \cup {"known", "unstore", "forget"}]
    BY <1>8 DEF Snapshot, TypeOK
  <2>4. QED
    BY <1>8, <2>3 DEF Snapshot, TypeOK
<1>9. ASSUME NEW s \in Streams, Count(s)
      PROVE  TypeOK'
  <2>1. PICK p \in todo[s] :
          \/ todo' = [todo EXCEPT ![s] = @ \ {p}] /\ UNCHANGED <<pc, pair, count>>
          \/ /\ pair' = [pair EXCEPT ![s] = p]
             /\ count' = [count EXCEPT ![s] = Len(streaming[p])]
             /\ pc' = [pc EXCEPT ![s] = "lottery"]
             /\ UNCHANGED todo
    BY <1>9 DEF Count, CountNodeStreamingCurrency
  <2>2. p \in Pairs
    BY DEF TypeOK
  <2>3. Len(streaming[p]) \in Nat
    BY <2>2 DEF TypeOK
  <2>4. UNCHANGED <<storeVars, connVars, plan, sendVars, crashed>>
    BY <1>9 DEF Count
  <2>5. CASE todo' = [todo EXCEPT ![s] = @ \ {p}] /\ UNCHANGED <<pc, pair, count>>
    BY <2>4, <2>5 DEF TypeOK
  <2>6. CASE /\ pair' = [pair EXCEPT ![s] = p]
             /\ count' = [count EXCEPT ![s] = Len(streaming[p])]
             /\ pc' = [pc EXCEPT ![s] = "lottery"]
             /\ UNCHANGED todo
    BY <2>2, <2>3, <2>4, <2>6 DEF TypeOK
  <2>7. QED
    BY <2>1, <2>5, <2>6
<1>10. ASSUME NEW s \in Streams, GetRandomNodesForCurrency(s)
       PROVE  TypeOK'
  <2>1. PICK chosen \in SUBSET Candidates(pair[s]) :
          plan' = [plan EXCEPT ![s] =
                     [n \in Nodes |-> IF n \in chosen THEN @[n] \cup {pair[s]} ELSE @[n]]]
    BY <1>10 DEF GetRandomNodesForCurrency
  <2>2. chosen # {} => pair[s] \in Pairs
    BY DEF Candidates, TypeOK
  <2>3. plan' \in [Streams -> [Nodes -> SUBSET Pairs]]
    BY <2>1, <2>2 DEF TypeOK
  <2>4. QED
    BY <1>10, <2>3 DEF GetRandomNodesForCurrency, TypeOK
<1>11. ASSUME NEW s \in Streams, Planned(s)
       PROVE  TypeOK'
  BY <1>11 DEF Planned, TypeOK
<1>12. ASSUME NEW s \in Streams, Assign(s)
       PROVE  TypeOK'
  <2>1. CASE Resume(s) /\ UNCHANGED <<dest, pend>>
    BY <1>12, <2>1 DEF Assign, TypeOK
  <2>2. ASSUME NEW n \in Nodes,
               dest' = [dest EXCEPT ![s] = n],
               pend' = [pend EXCEPT ![s] = plan[s][n]],
               Goto(s, "read")
        PROVE  TypeOK'
    BY <1>12, <2>2 DEF Assign, TypeOK
  <2>3. QED
    BY <1>12, <2>1, <2>2 DEF Assign
<1>13. ASSUME NEW s \in Streams, ReadStreaming(s)
       PROVE  TypeOK'
  BY <1>13 DEF ReadStreaming, Listed, TypeOK
<1>14. ASSUME NEW s \in Streams, WriteStreaming(s)
       PROVE  TypeOK'
  <2>1. pair[s] \in Pairs /\ dest[s] \in Nodes
    BY <1>14 DEF WriteStreaming, TypeOK, HandlersConsistent
  <2>2. PICK list \in Appended(s) : streaming' = [streaming EXCEPT ![pair[s]] = list]
    BY <1>14 DEF WriteStreaming
  <2>3. list \in Seq(Nodes)
    BY <1>14, <2>2, AppendedType DEF WriteStreaming
  <2>4. streaming' \in [Pairs -> Seq(Nodes)]
    BY <2>1, <2>2, <2>3 DEF TypeOK
  <2>5. saw' \in [Streams -> SUBSET Nodes] /\ overtaken' \in SUBSET Streams
    BY <1>14, <2>1 DEF WriteStreaming, Overtake, TypeOK
  <2>6. pc' \in [Streams -> Resting \cup Refreshing \cup {"known", "unstore", "forget"}]
    BY <1>14 DEF WriteStreaming, TypeOK
  <2>7. QED
    BY <1>14, <2>4, <2>5, <2>6 DEF WriteStreaming, TypeOK
<1>15. ASSUME NEW s \in Streams, LookupChannel(s)
       PROVE  TypeOK'
  <2>1. dest[s] \in Nodes
    BY <1>15 DEF LookupChannel, TypeOK, HandlersConsistent
  <2>2. CASE NextNode(s) /\ UNCHANGED target
    BY <1>15, <2>1, <2>2 DEF LookupChannel, NextNode, TypeOK
  <2>3. CASE /\ target' = [target EXCEPT ![s] = channel[dest[s]]]
             /\ Goto(s, "send")
             /\ UNCHANGED <<plan, dest>>
    BY <1>15, <2>1, <2>3 DEF LookupChannel, TypeOK
  <2>4. QED
    BY <1>15, <2>2, <2>3 DEF LookupChannel
<1>16. ASSUME NEW s \in Streams, Send(s)
       PROVE  TypeOK'
  <2>1. CASE target[s] \in closed /\ Crash
    BY <1>1, <2>1
  <2>2. CASE ~(target[s] \in closed /\ Crash)
    <3>1. dest[s] \in Nodes
      BY <1>16 DEF Send, TypeOK, HandlersConsistent
    <3>2. plan[s][dest[s]] \in SUBSET Pairs
      BY <3>1 DEF TypeOK
    <3>3. told' \in [Streams -> SUBSET Pairs]
      BY <1>16, <2>2, <3>2 DEF Send, TypeOK
    <3>4. plan' \in [Streams -> [Nodes -> SUBSET Pairs]]
      <4>1. plan' = [plan EXCEPT ![s] = [plan[s] EXCEPT ![dest[s]] = {}]]
        BY <1>16, <2>2 DEF Send, NextNode
      <4>2. [plan[s] EXCEPT ![dest[s]] = {}] \in [Nodes -> SUBSET Pairs]
        BY <3>1 DEF TypeOK
      <4>3. QED
        BY <4>1, <4>2 DEF TypeOK
    <3>5. QED
      BY <1>16, <2>2, <3>3, <3>4 DEF Send, NextNode, TypeOK
  <2>3. QED
    BY <2>1, <2>2
<1>17. ASSUME NEW s \in Streams, CancelSender(s)
       PROVE  TypeOK'
  BY <1>1, <1>17 DEF CancelSender, TypeOK
<1>18. ASSUME NEW s \in Streams, DeleteChannels(s)
       PROVE  TypeOK'
  BY <1>18 DEF DeleteChannels, TypeOK
<1>19. CASE UNCHANGED vars
  BY <1>19 DEF TypeOK
<1>20. QED
  BY <1>1, <1>2, <1>3, <1>4, <1>6, <1>7, <1>8, <1>9, <1>10, <1>11, <1>12, <1>13, <1>14, <1>15,
     <1>16, <1>17, <1>18, <1>19 DEF Next, MapFault, Step, Proceed, Remote, Stopped

LEMMA ConsistentInit == Init => HandlersConsistent
BY DEF Init, HandlersConsistent

LEMMA ConsistentStep == TypeOK /\ HandlersConsistent /\ [Next]_vars => HandlersConsistent'
<1> USE DEF vars, storeVars, connVars, planVars, sendVars, At, Goto, Resume, Crash
<1> SUFFICES ASSUME TypeOK, HandlersConsistent, [Next]_vars
             PROVE  HandlersConsistent'
  OBVIOUS
<1> USE DEF TypeOK, HandlersConsistent
<1>1. CASE UNCHANGED <<pc, planVars, dest, pend, target>>
  BY <1>1
<1>2. ASSUME NEW s \in Streams, Remote(s)
      PROVE  HandlersConsistent'
  BY <1>1, <1>2 DEF Remote, Connect, Receive, ReceiveOther, CancelSender, StoreChannels
<1>3. ASSUME NEW s \in Streams, SetNodeCurrencies(s) \/ DeleteNode(s) \/ DeleteChannels(s)
      PROVE  HandlersConsistent'
  BY <1>1, <1>3 DEF SetNodeCurrencies, DeleteNode, DeleteChannels, Relist
<1>4. ASSUME NEW s \in Streams, Snapshot(s) \/ Planned(s)
      PROVE  HandlersConsistent'
  BY <1>4 DEF Snapshot, Planned
<1>5. ASSUME NEW s \in Streams, Count(s)
      PROVE  HandlersConsistent'
  BY <1>5 DEF Count, CountNodeStreamingCurrency
<1>6. ASSUME NEW s \in Streams, GetRandomNodesForCurrency(s)
      PROVE  HandlersConsistent'
  BY <1>6 DEF GetRandomNodesForCurrency
<1>7. ASSUME NEW s \in Streams, Assign(s)
      PROVE  HandlersConsistent'
  BY <1>7 DEF Assign
<1>8. ASSUME NEW s \in Streams, ReadStreaming(s) \/ WriteStreaming(s)
      PROVE  HandlersConsistent'
  BY <1>8 DEF ReadStreaming, WriteStreaming
<1>9. ASSUME NEW s \in Streams, LookupChannel(s) \/ Send(s)
      PROVE  HandlersConsistent'
  BY <1>1, <1>9 DEF LookupChannel, Send, NextNode
<1>10. QED
  BY <1>1, <1>2, <1>3, <1>4, <1>5, <1>6, <1>7, <1>8, <1>9
     DEF Next, MapFault, Step, Proceed, Stopped

\* Every variable keeps its type (the slices stay slices of node uuids, however
\* removeString and the unlocked appends treat them), and a handler's locals fit
\* the place it has reached.
THEOREM TypeCorrect == Spec => [](TypeOK /\ HandlersConsistent)
<1>1. TypeOK /\ HandlersConsistent /\ [Next]_vars => (TypeOK /\ HandlersConsistent)'
  BY TypeStep, ConsistentStep
<1>2. QED
  BY <1>1, TypeInit, ConsistentInit, PTL DEF Spec

-----------------------------------------------------------------------------
(* NoPairForgotten, for one pair at a time.                                *)

Covered(p) == Knowers(p) # {} => streaming[p] # << >> \/ \E s \in Streams : InHand(s, p)

\* A lottery that draws nobody leaves a pair that nobody knows or whose list
\* is not empty: every node that knows it is in the list.
LEMMA LotteryDraws ==
  ASSUME TypeOK, NEW p \in Pairs, NEW chosen \in SUBSET Candidates(p), NEW wanted \in Nat,
         wanted > 0,
         Cardinality(chosen) =
           IF wanted < Cardinality(Candidates(p)) THEN wanted ELSE Cardinality(Candidates(p))
  PROVE  chosen # {} \/ Knowers(p) = {} \/ streaming[p] # << >>
<1> SUFFICES ASSUME chosen = {}, NEW n \in Knowers(p)
             PROVE  streaming[p] # << >>
  OBVIOUS
<1>1. IsFiniteSet(Candidates(p))
  BY FS_Subset DEF Candidates
<1>2. Cardinality(chosen) = 0
  BY FS_EmptySet
<1>3. Cardinality(Candidates(p)) = 0
  BY <1>1, <1>2, FS_CardinalityType
<1>4. Candidates(p) = {}
  BY <1>1, <1>3, FS_EmptySet
<1>5. ContainsString(streaming[p], n)
  BY <1>4 DEF Candidates, Knowers
<1>6. QED
  BY <1>5 DEF ContainsString

\* What a handler has in hand when nothing it keeps of it changes.
LEMMA StaysInHand ==
  ASSUME NEW s \in Streams, NEW p \in Pairs, InHand(s, p),
         pc[s] = "snapshot" => pc'[s] = "snapshot",
         todo'[s] = todo[s], pend'[s] = pend[s], plan'[s] = plan[s], dest'[s] = dest[s]
  PROVE  InHand(s, p)'
BY DEF InHand

LEMMA CoveredStep ==
  ASSUME TypeOK, HandlersConsistent, MaxPriceStreams > 0, NEW p \in Pairs, Covered(p),
         [Next]_vars
  PROVE  Covered(p)'
<1> USE DEF vars, storeVars, connVars, planVars, sendVars, At, Goto, Resume, Crash
<1>1. CASE UNCHANGED <<storeVars, todo, plan, dest, pend>> /\ \A s \in Streams :
             pc[s] = "snapshot" => pc'[s] = "snapshot"
  BY <1>1, StaysInHand DEF Covered, Knowers, TypeOK
<1>2. ASSUME NEW s \in Streams, Remote(s)
      PROVE  Covered(p)'
  BY <1>1, <1>2 DEF Remote, Connect, Receive, ReceiveOther, CancelSender, TypeOK
<1>3. ASSUME NEW s \in Streams, SetNodeCurrencies(s) \/ DeleteNode(s)
      PROVE  Covered(p)'
  <2>1. CASE Crash
    BY <1>1, <2>1
  <2>2. CASE Goto(s, "snapshot")
    BY <2>2 DEF Covered, InHand, TypeOK
  <2>3. QED
    BY <1>3, <2>1, <2>2 DEF SetNodeCurrencies, DeleteNode, Relist
<1>4. ASSUME NEW s \in Streams, DeleteChannels(s) \/ Planned(s)
      PROVE  Covered(p)'
  BY <1>1, <1>4 DEF DeleteChannels, Planned, TypeOK
<1>5. ASSUME NEW s \in Streams, Snapshot(s)
      PROVE  Covered(p)'
  <2>1. Knowers(p)' = Knowers(p)
    BY <1>5 DEF Snapshot, Knowers
  <2>2. Knowers(p) # {} => p \in todo'[s]
    BY <1>5 DEF Snapshot, Knowers, TypeOK
  <2>3. QED
    BY <2>1, <2>2 DEF Covered, InHand
<1>6. ASSUME NEW s \in Streams, UNCHANGED storeVars,
             \A t \in Streams \ {s} :
               /\ pc'[t] = pc[t] /\ todo'[t] = todo[t] /\ pend'[t] = pend[t]
               /\ plan'[t] = plan[t] /\ dest'[t] = dest[t],
             InHand(s, p) => InHand(s, p)' \/ Knowers(p) = {} \/ streaming[p] # << >>
      PROVE  Covered(p)'
  <2>1. ASSUME NEW t \in Streams \ {s}, InHand(t, p)
        PROVE  InHand(t, p)'
    BY <1>6, <2>1, StaysInHand
  <2>2. Knowers(p)' = Knowers(p) /\ streaming'[p] = streaming[p]
    BY <1>6 DEF Knowers
  <2>3. QED
    BY <1>6, <2>1, <2>2 DEF Covered
<1>7. ASSUME NEW s \in Streams, Count(s)
      PROVE  Covered(p)'
  <2>1. PICK r \in todo[s] :
          \/ /\ Len(streaming[r]) >= MaxPriceStreams
             /\ todo' = [todo EXCEPT ![s] = @ \ {r}]
          \/ UNCHANGED todo
    BY <1>7 DEF Count, CountNodeStreamingCurrency
  <2>2. r = p /\ Len(streaming[r]) >= MaxPriceStreams => streaming[p] # << >>
    OBVIOUS
  <2>3. InHand(s, p) => InHand(s, p)' \/ streaming[p] # << >>
    BY <1>7, <2>1, <2>2 DEF Count, InHand, TypeOK
  <2>4. UNCHANGED <<storeVars, plan, dest, pend>>
    BY <1>7 DEF Count
  <2>5. \A t \in Streams \ {s} : pc'[t] = pc[t] /\ todo'[t] = todo[t]
    BY <1>7 DEF Count, TypeOK
  <2>6. QED
    BY <1>6, <2>3, <2>4, <2>5
<1>8. ASSUME NEW s \in Streams, GetRandomNodesForCurrency(s)
      PROVE  Covered(p)'
  <2> DEFINE r == pair[s]
             wanted == MaxPriceStreams - count[s]
  <2>1. PICK chosen \in SUBSET Candidates(r) :
          /\ Cardinality(chosen) =
               IF wanted < Cardinality(Candidates(r)) THEN wanted ELSE Cardinality(Candidates(r))
          /\ plan' = [plan EXCEPT ![s] =
                        [n \in Nodes |-> IF n \in chosen THEN @[n] \cup {r} ELSE @[n]]]
    BY <1>8 DEF GetRandomNodesForCurrency
  <2>2. r \in Pairs /\ dest[s] = None /\ wanted \in Nat /\ wanted > 0
    <3>1. pc[s] = "lottery"
      BY <1>8 DEF GetRandomNodesForCurrency
    <3>2. r \in Pairs /\ count[s] < MaxPriceStreams /\ dest[s] = None
      BY <3>1 DEF HandlersConsistent
    <3>3. count[s] \in Nat
      BY DEF TypeOK
    <3>4. QED
      BY <3>2, <3>3
  <2>3. chosen # {} \/ Knowers(r) = {} \/ streaming[r] # << >>
    BY <2>1, <2>2, LotteryDraws
  <2>4. \A n \in Nodes : plan'[s][n] = IF n \in chosen THEN plan[s][n] \cup {r} ELSE plan[s][n]
    BY <2>1 DEF TypeOK
  <2>5. /\ UNCHANGED <<storeVars, dest, pend>>
        /\ todo'[s] = todo[s] \ {r}
        /\ \A t \in Streams \ {s} : pc'[t] = pc[t] /\ todo'[t] = todo[t] /\ plan'[t] = plan[t]
    BY <1>8, <2>1 DEF GetRandomNodesForCurrency, TypeOK
  <2>6. pc[s] # "snapshot"
    BY <1>8 DEF GetRandomNodesForCurrency
  <2>7. CASE r = p /\ chosen # {}
    <3>1. PICK n \in Nodes : p \in plan'[s][n]
      BY <2>4, <2>7 DEF Candidates
    <3>2. n # dest'[s]
      BY <2>2, <2>5
    <3>3. InHand(s, p)'
      BY <3>1, <3>2 DEF InHand
    <3>4. QED
      BY <1>6, <2>5, <3>3
  <2>8. CASE r = p /\ chosen = {}
    BY <1>6, <2>3, <2>5, <2>8
  <2>9. CASE r # p
    <3>1. InHand(s, p) => InHand(s, p)'
      BY <2>4, <2>5, <2>6, <2>9 DEF InHand
    <3>2. QED
      BY <1>6, <2>5, <3>1
  <2>10. QED
    BY <2>7, <2>8, <2>9
<1>9. ASSUME NEW s \in Streams, Assign(s)
      PROVE  Covered(p)'
  <2>1. dest[s] = None /\ pend[s] = {} /\ pc[s] # "snapshot"
    BY <1>9 DEF Assign, HandlersConsistent
  <2>2. InHand(s, p) => InHand(s, p)'
    BY <1>9, <2>1 DEF Assign, InHand, TypeOK
  <2>3. /\ UNCHANGED <<storeVars, todo, plan>>
        /\ \A t \in Streams \ {s} : pc'[t] = pc[t] /\ pend'[t] = pend[t] /\ dest'[t] = dest[t]
    BY <1>9 DEF Assign, TypeOK
  <2>4. QED
    BY <1>6, <2>2, <2>3
<1>10. ASSUME NEW s \in Streams, ReadStreaming(s)
       PROVE  Covered(p)'
  BY <1>1, <1>10 DEF ReadStreaming, TypeOK
<1>11. ASSUME NEW s \in Streams, WriteStreaming(s)
       PROVE  Covered(p)'
  <2>1. pair[s] \in Pairs
    BY <1>11 DEF WriteStreaming, HandlersConsistent, TypeOK
  <2>2. PICK list \in Appended(s) : streaming' = [streaming EXCEPT ![pair[s]] = list]
    BY <1>11 DEF WriteStreaming
  <2>3. CASE pair[s] = p
    <3>1. streaming'[p] # << >>
      BY <1>11, <2>2, <2>3, AppendedType DEF WriteStreaming, TypeOK
    <3>2. QED
      BY <3>1 DEF Covered
  <2>4. CASE pair[s] # p
    <3>1. streaming'[p] = streaming[p] /\ Knowers(p)' = Knowers(p)
      BY <1>11, <2>2, <2>4 DEF WriteStreaming, Knowers, TypeOK
    <3>2. \A t \in Streams : InHand(t, p) => InHand(t, p)'
      BY <1>11, <2>4 DEF WriteStreaming, InHand, TypeOK
    <3>3. QED
      BY <3>1, <3>2 DEF Covered
  <2>5. QED
    BY <2>3, <2>4
<1>12. ASSUME NEW s \in Streams, LookupChannel(s) \/ Send(s)
       PROVE  Covered(p)'
  <2>1. dest[s] \in Nodes /\ pc[s] # "snapshot"
    BY <1>12 DEF LookupChannel, Send, HandlersConsistent, TypeOK
  <2>2. CASE NextNode(s) /\ UNCHANGED <<storeVars, todo, pend>>
    <3>1. InHand(s, p) => InHand(s, p)'
      BY <2>1, <2>2 DEF NextNode, InHand, TypeOK
    <3>2. \A t \in Streams \ {s} : pc'[t] = pc[t] /\ plan'[t] = plan[t] /\ dest'[t] = dest[t]
      BY <2>2 DEF NextNode, TypeOK
    <3>3. QED
      BY <1>6, <2>2, <3>1, <3>2
  <2>3. CASE ~NextNode(s)
    BY <1>1, <1>12, <2>3 DEF LookupChannel, Send, TypeOK
  <2>4. QED
    BY <1>12, <2>2, <2>3 DEF LookupChannel, Send
<1>13. QED
  BY <1>1, <1>2, <1>3, <1>4, <1>5, <1>7, <1>8, <1>9, <1>10, <1>11, <1>12
     DEF Next, MapFault, Step, Proceed, Stopped

\* However handlers overlap, and whatever leaves the lists meanwhile, a pair some
\* node is on record for has a node in its list or a refresh that will see to it.
THEOREM NoPairIsForgotten == Spec => []NoPairForgotten
<1> DEFINE Inv == TypeOK /\ HandlersConsistent /\ NoPairForgotten
<1>1. Init => Inv
  <2>1. Init => NoPairForgotten
    BY DEF Init, NoPairForgotten, Knowers
  <2>2. QED
    BY <2>1, TypeInit, ConsistentInit
<1>2. Inv /\ [Next]_vars => Inv'
  <2> SUFFICES ASSUME Inv, [Next]_vars
               PROVE  Inv'
    OBVIOUS
  <2>1. NoPairForgotten'
    <3> SUFFICES ASSUME MaxPriceStreams > 0, NEW p \in Pairs
                 PROVE  Covered(p)'
      BY DEF NoPairForgotten, Covered
    <3>1. Covered(p)
      BY DEF NoPairForgotten, Covered
    <3>2. QED
      BY <3>1, CoveredStep
  <2>2. QED
    BY <2>1, TypeStep, ConsistentStep
<1>3. Inv => NoPairForgotten
  OBVIOUS
<1>4. QED
  BY <1>1, <1>2, <1>3, PTL DEF Spec

-----------------------------------------------------------------------------
(* OnlyAskedForKnown.                                                      *)

\* What a node has announced on any of its streams, which only grows.
Announced(n) == UNION { said[t] : t \in { t \in Streams : NodeOf[t] = n } }

\* Records, plans and requests are taken from what was announced, and a channel that
\* is stored or looked up for a node is that of a stream of the node.
AnnouncedInv ==
  /\ \A s \in Streams : pc[s] \in {"idle", "open"} => said[s] = {}
  /\ \A n \in Nodes : currencies[n] \subseteq Announced(n)
  /\ \A s \in Streams : \A n \in Nodes : plan[s][n] \subseteq Announced(n)
  /\ \A s \in Streams : told[s] \subseteq Announced(NodeOf[s])
  /\ \A n \in Nodes : channel[n] # None => NodeOf[channel[n]] = n
  /\ \A s \in Streams : target[s] # None => NodeOf[target[s]] = dest[s]

\* The announcements stay when nobody's change ...
LEMMA SameAnnounced == said' = said => \A n \in Nodes : Announced(n)' = Announced(n)
BY DEF Announced

\* ... and a stream's first one adds to those of its node.
LEMMA MoreAnnounced ==
  ASSUME TypeOK, NEW s \in Streams, said[s] = {}, NEW pairs \in SUBSET Pairs,
         said' = [said EXCEPT ![s] = pairs]
  PROVE  \A n \in Nodes : Announced(n) \subseteq Announced(n)'
<1>1. ASSUME NEW t \in Streams PROVE said[t] \subseteq said'[t]
  BY DEF TypeOK
<1>2. QED
  BY <1>1 DEF Announced

\* A step that keeps the announcements, records, plans and requests, and looks nothing
\* up.
LEMMA AnnouncedKept ==
  ASSUME TypeOK, AnnouncedInv, UNCHANGED <<said, currencies, plan, told, channel, target>>,
         \A s \in Streams : target[s] # None => dest'[s] = dest[s],
         \A s \in Streams : pc'[s] \in {"idle", "open"} => pc[s] \in {"idle", "open"}
  PROVE  AnnouncedInv'
BY SameAnnounced DEF AnnouncedInv, Announced

LEMMA AnnouncedStep ==
  TypeOK /\ HandlersConsistent /\ AnnouncedInv /\ [Next]_vars => AnnouncedInv'
<1> SUFFICES ASSUME TypeOK, HandlersConsistent, AnnouncedInv, [Next]_vars
             PROVE  AnnouncedInv'
  OBVIOUS
<1> USE DEF storeVars, connVars, planVars, sendVars, At, Goto, Resume
<1>1. CASE Crash
  BY <1>1, AnnouncedKept DEF Crash
<1>2. ASSUME NEW s \in Streams, Connect(s)
      PROVE  AnnouncedInv'
  BY <1>2, AnnouncedKept DEF Connect, TypeOK
<1>3. ASSUME NEW s \in Streams, Receive(s)
      PROVE  AnnouncedInv'
  <2>1. said[s] = {}
    BY <1>3 DEF Receive, AnnouncedInv
  <2>2. \A n \in Nodes : Announced(n) \subseteq Announced(n)'
    BY <1>3, <2>1, MoreAnnounced DEF Receive
  <2>3. \A t \in Streams : pc'[t] \in {"idle", "open"} => said'[t] = {}
    BY <1>3 DEF Receive, AnnouncedInv, TypeOK
  <2>4. \A n \in Nodes : channel'[n] # None => NodeOf[channel'[n]] = n
    BY <1>3 DEF Receive, StoreChannels, AnnouncedInv, TypeOK
  <2>5. UNCHANGED <<currencies, plan, told, target, dest>>
    BY <1>3 DEF Receive
  <2>6. QED
    BY <2>2, <2>3, <2>4, <2>5 DEF AnnouncedInv
<1>4. ASSUME NEW s \in Streams, ReceiveOther(s)
      PROVE  AnnouncedInv'
  <2>1. CASE StoreChannels(s) /\ UNCHANGED <<storeVars, sender, said, told, pc, planVars, sendVars>>
    <3>1. \A n \in Nodes : channel'[n] # None => NodeOf[channel'[n]] = n
      BY <2>1 DEF StoreChannels, AnnouncedInv, TypeOK
    <3>2. QED
      BY <2>1, <3>1, SameAnnounced DEF AnnouncedInv, TypeOK
  <2>2. QED
    BY <1>1, <1>4, <2>1 DEF ReceiveOther
\* What a node is on record for is what it has just said, or nothing.
<1>5. ASSUME NEW s \in Streams, SetNodeCurrencies(s) \/ DeleteNode(s)
      PROVE  AnnouncedInv'
  <2>1. CASE Crash
    BY <1>1, <2>1
  <2>2. ASSUME NEW known \in {said[s], {}}, currencies' = [currencies EXCEPT ![NodeOf[s]] = known],
               Goto(s, "snapshot"), UNCHANGED <<connVars, planVars, dest, target>>
        PROVE  AnnouncedInv'
    <3>1. known \subseteq Announced(NodeOf[s])
      BY <2>2 DEF Announced
    <3>2. \A n \in Nodes : currencies'[n] \subseteq Announced(n)
      BY <2>2, <3>1 DEF AnnouncedInv, TypeOK
    <3>3. \A t \in Streams : pc'[t] \in {"idle", "open"} => pc[t] \in {"idle", "open"}
      BY <2>2 DEF TypeOK
    <3>4. QED
      BY <2>2, <3>2, <3>3, SameAnnounced DEF AnnouncedInv
  <2>3. QED
    BY <1>5, <2>1, <2>2 DEF SetNodeCurrencies, DeleteNode, Relist
<1>6. ASSUME NEW s \in Streams,
             Snapshot(s) \/ Count(s) \/ Planned(s) \/ ReadStreaming(s) \/ WriteStreaming(s)
      PROVE  AnnouncedInv'
  BY <1>6, AnnouncedKept DEF Snapshot, Count, Planned, ReadStreaming, WriteStreaming, TypeOK
\* The lottery draws nodes that are on record for the pair.
<1>7. ASSUME NEW s \in Streams, GetRandomNodesForCurrency(s)
      PROVE  AnnouncedInv'
  <2>1. PICK chosen \in SUBSET Candidates(pair[s]) :
          plan' = [plan EXCEPT ![s] =
                     [n \in Nodes |-> IF n \in chosen THEN @[n] \cup {pair[s]} ELSE @[n]]]
    BY <1>7 DEF GetRandomNodesForCurrency
  <2>2. \A n \in chosen : pair[s] \in Announced(n)
    BY DEF Candidates, AnnouncedInv
  <2>3. \A t \in Streams : \A n \in Nodes : plan'[t][n] \subseteq Announced(n)
    BY <2>1, <2>2 DEF AnnouncedInv, TypeOK
  <2>4. \A t \in Streams : pc'[t] \in {"idle", "open"} => pc[t] \in {"idle", "open"}
    BY <1>7 DEF GetRandomNodesForCurrency, TypeOK
  <2>5. UNCHANGED <<said, currencies, told, channel, target, dest>>
    BY <1>7 DEF GetRandomNodesForCurrency
  <2>6. QED
    BY <2>3, <2>4, <2>5, SameAnnounced DEF AnnouncedInv
<1>8. ASSUME NEW s \in Streams, Assign(s)
      PROVE  AnnouncedInv'
  <2>1. target[s] = None
    BY <1>8 DEF Assign, HandlersConsistent
  <2>2. QED
    BY <1>8, <2>1, AnnouncedKept DEF Assign, TypeOK
<1>9. ASSUME NEW s \in Streams, LookupChannel(s)
      PROVE  AnnouncedInv'
  <2>1. dest[s] \in Nodes /\ target[s] = None
    BY <1>9 DEF LookupChannel, HandlersConsistent, TypeOK
  <2>2. CASE NextNode(s) /\ UNCHANGED target
    <3>1. \A t \in Streams : \A n \in Nodes : plan'[t][n] \subseteq plan[t][n]
      BY <2>1, <2>2 DEF NextNode, TypeOK
    <3>2. QED
      BY <1>9, <2>1, <2>2, <3>1, SameAnnounced DEF LookupChannel, NextNode, AnnouncedInv, TypeOK
  <2>3. CASE target' = [target EXCEPT ![s] = channel[dest[s]]] /\ Goto(s, "send")
             /\ UNCHANGED <<plan, dest>>
    <3>1. NodeOf[channel[dest[s]]] = dest[s] \/ channel[dest[s]] = None
      BY <2>1 DEF AnnouncedInv
    <3>2. QED
      BY <1>9, <2>1, <2>3, <3>1, SameAnnounced DEF LookupChannel, AnnouncedInv, TypeOK
  <2>4. QED
    BY <1>9, <2>2, <2>3 DEF LookupChannel
\* What is sent on the node's stream is the node's part of the plan.
<1>10. ASSUME NEW s \in Streams, Send(s)
       PROVE  AnnouncedInv'
  <2>1. CASE Crash
    BY <1>1, <2>1
  <2>2. CASE /\ told' = [told EXCEPT ![target[s]] = plan[s][dest[s]]]
             /\ target' = [target EXCEPT ![s] = None]
             /\ NextNode(s)
             /\ UNCHANGED <<storeVars, channel, said>>
    <3>1. dest[s] \in Nodes /\ target[s] \in Streams /\ NodeOf[target[s]] = dest[s]
      BY <1>10 DEF Send, HandlersConsistent, AnnouncedInv, TypeOK
    <3>2. \A t \in Streams : told'[t] \subseteq Announced(NodeOf[t])
      BY <2>2, <3>1 DEF AnnouncedInv, TypeOK
    <3>3. \A t \in Streams : \A n \in Nodes : plan'[t][n] \subseteq plan[t][n]
      BY <2>2, <3>1 DEF NextNode, TypeOK
    <3>4. \A t \in Streams : target'[t] # None => NodeOf[target'[t]] = dest'[t]
      BY <2>2 DEF NextNode, AnnouncedInv, TypeOK
    <3>5. \A t \in Streams : pc'[t] \in {"idle", "open"} => pc[t] \in {"idle", "open"}
      BY <2>2 DEF NextNode, TypeOK
    <3>6. QED
      BY <2>2, <3>2, <3>3, <3>4, <3>5, SameAnnounced DEF AnnouncedInv
  <2>3. QED
    BY <1>10, <2>1, <2>2 DEF Send
<1>11. ASSUME NEW s \in Streams, CancelSender(s)
       PROVE  AnnouncedInv'
  <2>1. CASE Crash
    BY <1>1, <2>1
  <2>2. CASE told' = [told EXCEPT ![s] = {}] /\ UNCHANGED <<storeVars, channel, said, planVars, sendVars>>
    <3>1. \A t \in Streams : told'[t] \subseteq told[t]
      BY <2>2 DEF TypeOK
    <3>2. \A t \in Streams : pc'[t] \in {"idle", "open"} => pc[t] \in {"idle", "open"}
      <4>1. pc[s] \in {"open", "ready"}
        BY <1>11 DEF CancelSender
      <4>2. pc' = pc \/ \E label \in {"done", "unstore"} : pc' = [pc EXCEPT ![s] = label]
        BY <1>11 DEF CancelSender, Crash
      <4>3. QED
        BY <4>1, <4>2 DEF TypeOK
    <3>3. QED
      BY <2>2, <3>1, <3>2, SameAnnounced DEF AnnouncedInv
  <2>3. QED
    BY <1>11, <2>1, <2>2 DEF CancelSender
<1>12. ASSUME NEW s \in Streams, DeleteChannels(s)
       PROVE  AnnouncedInv'
  <2>1. \A n \in Nodes : channel'[n] # None => channel'[n] = channel[n]
    BY <1>12 DEF DeleteChannels, TypeOK
  <2>2. \A t \in Streams : pc'[t] \in {"idle", "open"} => pc[t] \in {"idle", "open"}
    BY <1>12 DEF DeleteChannels, TypeOK
  <2>3. QED
    BY <1>12, <2>1, <2>2, SameAnnounced DEF DeleteChannels, AnnouncedInv
<1>13. CASE UNCHANGED vars
  BY <1>13, AnnouncedKept DEF vars
<1>14. QED
  BY <1>1, <1>2, <1>3, <1>4, <1>5, <1>6, <1>7, <1>8, <1>9, <1>10, <1>11, <1>12, <1>13
     DEF Next, MapFault, Step, Proceed, Remote, Stopped

\* However out of date the snapshot a refresh works from, a node is asked only for
\* pairs it has announced (GetRandomNodesForCurrency to sendToNodesFromController).
THEOREM AskedForWhatItKnows == Spec => []OnlyAskedForKnown
<1>1. Init => AnnouncedInv
  BY DEF Init, AnnouncedInv, NoPlan
<1>2. AnnouncedInv => OnlyAskedForKnown
  BY DEF AnnouncedInv, Announced, OnlyAskedForKnown
<1>3. QED
  BY <1>1, <1>2, TypeCorrect, AnnouncedStep, PTL DEF Spec

-----------------------------------------------------------------------------
(* Slices that hold nothing twice.                                         *)

Unrepeated(slice) == \A i, j \in DOMAIN slice : slice[i] = slice[j] => i = j
Elements(slice) == { slice[i] : i \in DOMAIN slice }

\* Such a slice has no neighbours that are equal, so every run is a single element ...
LEMMA RunsAreSingle ==
  ASSUME NEW Alphabet, NEW slice \in Seq(Alphabet), Unrepeated(slice), NEW i \in 1..Len(slice)
  PROVE  RunStart(slice, i) = i
<1>1. RunStart(slice, i) \in 1..i /\ Starts(slice, RunStart(slice, i), i)
  BY RunHasStart
<1>2. slice[RunStart(slice, i)] = slice[i]
  BY <1>1 DEF Starts
<1>3. QED
  BY <1>1, <1>2 DEF Unrepeated

\* ... and removeString leaves the positions of the other items.
LEMMA OthersAreKept ==
  ASSUME NEW Alphabet, NEW slice \in Seq(Alphabet), Unrepeated(slice), NEW item
  PROVE  KeptPositions(slice, item) = { i \in 1..Len(slice) : slice[i] # item }
<1>1. \A i \in 1..Len(slice) : RunStart(slice, i) = i
  BY RunsAreSingle
<1>2. \A i \in 1..Len(slice) : (i - i) % 2 # 1
  OBVIOUS
<1>3. \A i \in 1..Len(slice) : (i - RunStart(slice, i)) % 2 # 1
  BY <1>1, <1>2
<1>4. QED
  BY <1>3 DEF KeptPositions

\* What removeString returns of a slice that holds nothing twice.
LEMMA RemovalIsPlain ==
  ASSUME NEW Alphabet, NEW slice \in Seq(Alphabet), Unrepeated(slice), NEW item,
         NEW result \in Removals(slice, item, Alphabet)
  PROVE  Unrepeated(result) /\ Elements(result) = Elements(slice) \ {item}
<1> DEFINE kept == KeptPositions(slice, item)
           place == [i \in kept |-> Cardinality({ k \in kept : k <= i })]
<1>1. kept = { i \in 1..Len(slice) : slice[i] # item }
  BY OthersAreKept
<1>2. Len(slice) \in Nat /\ kept \in SUBSET (1..Len(slice))
  BY <1>1
<1> HIDE DEF kept
<1>3. /\ Cardinality(kept) \in Nat
      /\ place \in Injection(kept, 1..Cardinality(kept))
      /\ place \in Surjection(kept, 1..Cardinality(kept))
  BY <1>2, PlacesAreFilled
<1>4. DOMAIN result = 1..Cardinality(kept)
  BY DEF Removals, kept
<1>5. \A i \in kept : result[place[i]] = slice[i]
  BY DEF Removals, kept
<1> HIDE DEF place
<1>6. /\ \A i \in kept : place[i] \in DOMAIN result
      /\ \A q \in DOMAIN result : \E i \in kept : place[i] = q
  BY <1>3, <1>4 DEF Injection, Surjection
<1>7. Unrepeated(result)
  BY <1>1, <1>5, <1>6 DEF Unrepeated
<1>8. Elements(result) = { slice[i] : i \in kept }
  BY <1>5, <1>6 DEF Elements
<1>9. Elements(slice) = { slice[i] : i \in 1..Len(slice) }
  BY DEF Elements
<1>10. QED
  BY <1>1, <1>7, <1>8, <1>9

\* removeIndex stays inside such a slice.
LEMMA RemovalIsSafe ==
  ASSUME NEW Alphabet, NEW slice \in Seq(Alphabet), Unrepeated(slice), NEW item
  PROVE  ~RemovalPanics(slice, item)
BY DEF Unrepeated, RemovalPanics

\* Its length counts its elements.
LEMMA LengthCounts ==
  ASSUME NEW Alphabet, NEW slice \in Seq(Alphabet), Unrepeated(slice)
  PROVE  IsFiniteSet(Elements(slice)) /\ Cardinality(Elements(slice)) = Len(slice)
<1>1. Len(slice) \in Nat /\ DOMAIN slice = 1..Len(slice) /\ slice \in [1..Len(slice) -> Alphabet]
  OBVIOUS
<1>2. slice \in Bijection(1..Len(slice), Elements(slice))
  BY <1>1 DEF Unrepeated, Elements, Bijection, Injection, Surjection, IsInjective
<1>3. ExistsBijection(1..Len(slice), Elements(slice))
  BY <1>2 DEF ExistsBijection
<1>4. IsFiniteSet(1..Len(slice)) /\ Cardinality(1..Len(slice)) = Len(slice)
  BY <1>1, FS_Interval
<1>5. QED
  BY <1>3, <1>4, FS_Bijection

\* Appending an element that it does not hold.
LEMMA AppendIsPlain ==
  ASSUME NEW Alphabet, NEW slice \in Seq(Alphabet), Unrepeated(slice),
         NEW item \in Alphabet, item \notin Elements(slice)
  PROVE  /\ Unrepeated(Append(slice, item))
         /\ Elements(Append(slice, item)) = Elements(slice) \cup {item}
<1>1. /\ DOMAIN Append(slice, item) = 1..Len(slice) + 1
      /\ \A i \in 1..Len(slice) : Append(slice, item)[i] = slice[i]
      /\ Append(slice, item)[Len(slice) + 1] = item
  OBVIOUS
<1>2. Unrepeated(Append(slice, item))
  BY <1>1 DEF Unrepeated, Elements
<1>3. QED
  BY <1>1, <1>2 DEF Elements

-----------------------------------------------------------------------------
(* Handlers that take turns.                                               *)

InUse(s) == pc[s] \notin {"idle", "done"}

\* What the handlers have open between them: a node has at most one stream in use,
\* and the channel stored for it is that of this stream, from its first message
\* until DeleteUUID.
ControlInv ==
  /\ ~crashed /\ closed = {} /\ overtaken = {}
  /\ \A s, t \in Streams : InUse(s) /\ InUse(t) /\ NodeOf[s] = NodeOf[t] => s = t
  /\ \A s \in sender : pc[s] \notin {"idle", "done", "unstore", "forget"}
  /\ \A s \in Streams : pc[s] \in {"open", "known", "ready"} => s \in sender
  /\ \A s \in sender : pc[s] # "open" => channel[NodeOf[s]] = s
  /\ \A s \in Streams : target[s] # None => NodeOf[target[s]] = dest[s]
  /\ \A n \in Nodes : channel[n] # None => NodeOf[channel[n]] = n
  /\ \A n \in Nodes : channel[n] # None =>
       \/ pc[channel[n]] = "unstore"
       \/ channel[n] \in sender /\ pc[channel[n]] # "open"

\* A stream for which a node is on record.
Serving(s) ==
  \/ pc[s] \in {"unstore", "forget"}
  \/ s \in sender /\ pc[s] \notin {"open", "known"}

\* The lists hold nobody twice and nobody who does not know the pair, and a node is
\* on record only while it is served.
ListsInv ==
  /\ \A p \in Pairs : Unrepeated(streaming[p])
  /\ \A p \in Pairs : Listed(p) \subseteq Knowers(p)
  /\ \A n \in Nodes : currencies[n] # {} => \E s \in Streams : NodeOf[s] = n /\ Serving(s)

\* Handler s has drawn node n for pair p and not stored it yet.
Promised(s, p, n) == IF n = dest[s] THEN p \in pend[s] ELSE p \in plan[s][n]

\* What a refresh works from is up to date: it counts what is in the list, and draws
\* nodes that know the pair and are not in it.
PlanIsGood(s) ==
  /\ pc[s] \notin Refreshing \ {"snapshot"} => plan[s] = NoPlan
  /\ pc[s] \notin {"count", "lottery"} => todo[s] = {}
  /\ pc[s] = "lottery" => pair[s] \in todo[s] /\ count[s] = Len(streaming[pair[s]])
  /\ dest[s] # None => /\ plan[s][dest[s]] # {} /\ pend[s] \subseteq plan[s][dest[s]]
                       /\ \A p \in plan[s][dest[s]] \ pend[s] : dest[s] \in Listed(p)
  /\ \A p \in Pairs : \A n \in Nodes :
       Promised(s, p, n) => n \in Knowers(p) \ Listed(p) /\ p \notin todo[s]

PlansInv == \A s \in Streams : PlanIsGood(s)

-----------------------------------------------------------------------------
(* What the steps come to for a handler whose turn it is.                  *)

Alone(s) == \A t \in Streams \ {s} : pc[t] \in Resting

LEMMA ListedAreElements == \A p \in Pairs : Listed(p) = Elements(streaming[p])
BY DEF Listed, Elements

\* The channel of a stream's first message replaces none, so none is closed.
LEMMA FirstMessage ==
  ASSUME TypeOK, ControlInv, NEW s \in Streams, Receive(s)
  PROVE  closed' = closed /\ channel' = [channel EXCEPT ![NodeOf[s]] = s]
<1>1. NodeOf[s] \in Nodes /\ pc[s] = "open"
  BY DEF Receive, At
<1>2. channel[NodeOf[s]] = None
  <2> SUFFICES ASSUME channel[NodeOf[s]] # None
               PROVE  FALSE
    OBVIOUS
  <2> DEFINE t == channel[NodeOf[s]]
  <2>1. t \in Streams /\ NodeOf[t] = NodeOf[s]
    BY <1>1 DEF TypeOK, ControlInv
  <2>2. pc[t] = "unstore" \/ (t \in sender /\ pc[t] # "open")
    BY <1>1 DEF ControlInv
  <2>3. InUse(s) /\ InUse(t)
    BY <1>1, <2>2 DEF InUse, ControlInv
  <2>4. s = t
    BY <2>1, <2>3 DEF ControlInv
  <2>5. QED
    BY <1>1, <2>2, <2>4
<1>3. QED
  BY <1>2 DEF Receive, StoreChannels

\* Any later message stores the channel that is there.
LEMMA LaterMessage ==
  ASSUME TypeOK, ControlInv, NEW s \in Streams, ReceiveOther(s)
  PROVE  UNCHANGED vars
<1>1. channel[NodeOf[s]] = s
  BY DEF ReceiveOther, At, ControlInv
<1>2. closed = {} /\ s \in sender /\ NodeOf[s] \in Nodes
  BY DEF ReceiveOther, At, ControlInv
<1>3. StoreChannels(s) /\ UNCHANGED <<storeVars, sender, said, told, pc, planVars, sendVars, crashed>>
  BY <1>1, <1>2 DEF ReceiveOther
<1>4. channel' = channel /\ closed' = closed
  BY <1>1, <1>2, <1>3 DEF StoreChannels, TypeOK
<1>5. QED
  BY <1>3, <1>4 DEF vars, connVars

\* A node's record is replaced, and it leaves lists as if removeString were a plain
\* removal; nobody is between the read and the write of one.
LEMMA PlainRelist ==
  ASSUME TypeOK, ControlInv, ListsInv, NEW s \in Streams, Alone(s), pc[s] # "write",
         NEW known, NEW gone \in SUBSET Pairs, Relist(s, known, gone, "snapshot")
  PROVE  /\ currencies' = [currencies EXCEPT ![NodeOf[s]] = known]
         /\ \A p \in Pairs : Unrepeated(streaming'[p])
         /\ \A p \in Pairs : Listed(p)' = IF p \in gone THEN Listed(p) \ {NodeOf[s]} ELSE Listed(p)
         /\ overtaken' = {}
         /\ Goto(s, "snapshot")
         /\ UNCHANGED <<connVars, planVars, dest, pend, base, saw, target, crashed>>
<1> DEFINE node == NodeOf[s]
           results(p) == IF p \in gone THEN Removals(streaming[p], node, Nodes)
                                       ELSE { streaming[p] }
<1>1. \A p \in Pairs : streaming[p] \in Seq(Nodes) /\ Unrepeated(streaming[p])
  BY DEF TypeOK, ListsInv
<1>2. \A p \in gone : ~RemovalPanics(streaming[p], node)
  BY <1>1, RemovalIsSafe
<1>3. /\ currencies' = [currencies EXCEPT ![node] = known]
      /\ RemoveFrom(node, gone)
      /\ Goto(s, "snapshot")
      /\ UNCHANGED <<connVars, planVars, dest, pend, base, saw, target, crashed>>
  BY <1>2 DEF Relist
<1>4. PICK lists \in [Pairs -> UNION { results(p) : p \in Pairs }] :
        /\ \A p \in Pairs : lists[p] \in results(p)
        /\ streaming' = lists
        /\ overtaken' = overtaken \cup Overtake({ p \in Pairs : lists[p] # streaming[p] })
  BY <1>3 DEF RemoveFrom
<1>5. ASSUME NEW p \in Pairs
      PROVE  /\ Unrepeated(streaming'[p])
             /\ Listed(p)' = IF p \in gone THEN Listed(p) \ {node} ELSE Listed(p)
  <2>1. CASE p \in gone
    <3>1. streaming'[p] \in Removals(streaming[p], node, Nodes)
      BY <1>4, <2>1
    <3>2. /\ Unrepeated(streaming'[p])
          /\ Elements(streaming'[p]) = Elements(streaming[p]) \ {node}
      BY <1>1, <3>1, RemovalIsPlain
    <3>3. QED
      BY <2>1, <3>2 DEF Listed, Elements
  <2>2. CASE p \notin gone
    <3>1. streaming'[p] = streaming[p]
      BY <1>4, <2>2
    <3>2. QED
      BY <1>1, <2>2, <3>1 DEF Listed
  <2>3. QED
    BY <2>1, <2>2
<1>6. overtaken' = {}
  <2>1. \A t \in Streams : pc[t] # "write"
    BY DEF Alone, Resting
  <2>2. Overtake({ p \in Pairs : lists[p] # streaming[p] }) = {}
    BY <2>1 DEF Overtake
  <2>3. QED
    BY <1>4, <2>2 DEF ControlInv
<1>7. QED
  BY <1>3, <1>5, <1>6

\* A list that is stored is the list that was read with a node that was not in it.
LEMMA PlainWrite ==
  ASSUME TypeOK, HandlersConsistent, ControlInv, ListsInv, PlansInv,
         NEW s \in Streams, Alone(s), WriteStreaming(s)
  PROVE  /\ pair[s] \in Pairs /\ dest[s] \in Nodes /\ pair[s] \in pend[s]
         /\ dest[s] \in Knowers(pair[s]) \ Listed(pair[s])
         /\ \A p \in Pairs : Unrepeated(streaming'[p])
         /\ \A p \in Pairs : Listed(p)' = IF p = pair[s] THEN Listed(p) \cup {dest[s]} ELSE Listed(p)
         /\ overtaken' = {}
<1>1. PICK p \in Pairs, n \in Nodes : p = pair[s] /\ n = dest[s] /\ p \in pend[s] /\ pc[s] = "write"
  BY DEF WriteStreaming, At, HandlersConsistent, TypeOK
<1>2. n \in Knowers(p) \ Listed(p)
  BY <1>1 DEF PlansInv, PlanIsGood, Promised
<1>3. overtaken = {}
  BY DEF ControlInv
<1>4. streaming' = [streaming EXCEPT ![p] = Append(streaming[p], n)]
  BY <1>1, <1>3 DEF WriteStreaming, Appended
<1>5. streaming[p] \in Seq(Nodes) /\ Unrepeated(streaming[p]) /\ n \notin Elements(streaming[p])
  BY <1>1, <1>2 DEF TypeOK, ListsInv, Listed, Elements
<1>6. streaming'[p] = Append(streaming[p], n) /\ \A q \in Pairs \ {p} : streaming'[q] = streaming[q]
  BY <1>1, <1>4 DEF TypeOK
<1>7. Unrepeated(streaming'[p]) /\ Elements(streaming'[p]) = Elements(streaming[p]) \cup {n}
  BY <1>1, <1>5, <1>6, AppendIsPlain
<1>8. Listed(p)' = Listed(p) \cup {n} /\ \A q \in Pairs \ {p} : Listed(q)' = Listed(q)
  BY <1>6, <1>7 DEF Listed, Elements
<1>9. \A q \in Pairs : Unrepeated(streaming'[q])
  BY <1>6, <1>7 DEF ListsInv
<1>10. overtaken' = {}
  <2>1. \A t \in Streams \ {s} : pc[t] # "write"
    BY DEF Alone, Resting
  <2>2. QED
    BY <1>3, <2>1 DEF WriteStreaming, Overtake
<1>11. QED
  BY <1>1, <1>2, <1>6, <1>8, <1>9, <1>10

\* A node that was stored in a list has its channel stored.
LEMMA ChannelFound ==
  ASSUME TypeOK, HandlersConsistent, ControlInv, ListsInv, PlansInv,
         NEW s \in Streams, Alone(s), LookupChannel(s)
  PROVE  /\ dest[s] \in Nodes /\ channel[dest[s]] \in Streams /\ NodeOf[channel[dest[s]]] = dest[s]
         /\ target' = [target EXCEPT ![s] = channel[dest[s]]]
         /\ Goto(s, "send")
         /\ UNCHANGED <<plan, dest>>
<1>1. pc[s] = "lookup" /\ dest[s] # None /\ dest[s] \in Nodes /\ pend[s] = {}
  BY DEF LookupChannel, At, HandlersConsistent, TypeOK
<1>2. PICK p \in plan[s][dest[s]] : dest[s] \in Listed(p)
  BY <1>1 DEF PlansInv, PlanIsGood
<1>3. p \in Pairs
  BY <1>1 DEF TypeOK
<1>4. currencies[dest[s]] # {}
  BY <1>2, <1>3 DEF ListsInv, Knowers
<1>5. PICK t \in Streams : NodeOf[t] = dest[s] /\ Serving(t)
  BY <1>1, <1>4 DEF ListsInv
<1>6. pc[t] \notin {"unstore", "forget"}
  BY <1>1 DEF Alone, Resting
<1>7. channel[dest[s]] = t
  BY <1>5, <1>6 DEF Serving, ControlInv
<1>8. channel[dest[s]] # None
  BY <1>7
<1>9. /\ target' = [target EXCEPT ![s] = channel[dest[s]]]
      /\ Goto(s, "send")
      /\ UNCHANGED <<plan, dest>>
  BY <1>8 DEF LookupChannel
<1>10. QED
  BY <1>1, <1>5, <1>7, <1>9

\* A request goes out, with all that is planned for the node.
LEMMA RequestSent ==
  ASSUME TypeOK, HandlersConsistent, ControlInv, NEW s \in Streams, Send(s)
  PROVE  /\ target[s] \in sender /\ dest[s] \in Nodes /\ NodeOf[target[s]] = dest[s]
         /\ pend[s] = {} /\ target'[s] = None
         /\ told' = [told EXCEPT ![target[s]] = plan[s][dest[s]]]
         /\ target' = [target EXCEPT ![s] = None]
         /\ NextNode(s)
         /\ UNCHANGED <<storeVars, channel, sender, closed, said, todo, pair, count,
                        pend, base, saw, overtaken, crashed>>
<1>1. closed = {} /\ pc[s] = "send"
  BY DEF Send, At, ControlInv
<1>2. target[s] # None /\ dest[s] \in Nodes /\ pend[s] = {} /\ NodeOf[target[s]] = dest[s]
  <2>1. target[s] # None /\ dest[s] # None /\ pend[s] = {}
    BY <1>1 DEF HandlersConsistent
  <2>2. dest[s] \in Nodes
    BY <2>1 DEF TypeOK
  <2>3. QED
    BY <2>1, <2>2 DEF ControlInv
<1>3. /\ target[s] \in sender
      /\ told' = [told EXCEPT ![target[s]] = plan[s][dest[s]]]
      /\ target' = [target EXCEPT ![s] = None]
      /\ NextNode(s)
      /\ UNCHANGED <<storeVars, channel, sender, closed, said, todo, pair, count,
                     pend, base, saw, overtaken, crashed>>
  BY <1>1 DEF Send
<1>4. target'[s] = None
  BY <1>3 DEF TypeOK
<1>5. QED
  BY <1>2, <1>3, <1>4

\* A stream's end.
LEMMA StreamEnds ==
  ASSUME ControlInv, NEW s \in Streams, CancelSender(s)
  PROVE  /\ pc[s] \in {"open", "ready"}
         /\ sender' = sender \ {s}
         /\ told' = [told EXCEPT ![s] = {}]
         /\ Goto(s, IF pc[s] = "open" THEN "done" ELSE "unstore")
         /\ UNCHANGED <<storeVars, channel, closed, said, planVars, sendVars, crashed>>
BY DEF ControlInv, CancelSender

\* A handler changes no other's locals.
LEMMA OwnLocals ==
  ASSUME TypeOK, HandlersConsistent, NEW s \in Streams, Step(s), NEW t \in Streams \ {s}
  PROVE  /\ pc'[t] = pc[t] /\ todo'[t] = todo[t] /\ pair'[t] = pair[t] /\ count'[t] = count[t]
         /\ plan'[t] = plan[t] /\ dest'[t] = dest[t] /\ pend'[t] = pend[t]
         /\ target'[t] = target[t]
<1> USE DEF vars, storeVars, connVars, planVars, sendVars, At, Goto, Resume, TypeOK
<1>1. CASE Crash
  BY <1>1 DEF Crash
<1>2. CASE Connect(s) \/ Receive(s) \/ ReceiveOther(s) \/ CancelSender(s) \/ DeleteChannels(s)
  BY <1>1, <1>2 DEF Connect, Receive, ReceiveOther, CancelSender, DeleteChannels
<1>3. CASE SetNodeCurrencies(s) \/ DeleteNode(s)
  BY <1>1, <1>3 DEF SetNodeCurrencies, DeleteNode, Relist
<1>4. CASE Snapshot(s) \/ Planned(s) \/ Assign(s) \/ ReadStreaming(s)
  BY <1>4 DEF Snapshot, Planned, Assign, ReadStreaming
<1>5. CASE Count(s)
  BY <1>5 DEF Count
<1>6. CASE GetRandomNodesForCurrency(s)
  BY <1>6 DEF GetRandomNodesForCurrency
<1>7. CASE WriteStreaming(s)
  BY <1>7 DEF WriteStreaming
<1>8. CASE LookupChannel(s) \/ Send(s)
  BY <1>1, <1>8 DEF LookupChannel, Send, NextNode
<1>9. QED
  BY <1>2, <1>3, <1>4, <1>5, <1>6, <1>7, <1>8 DEF Step, Proceed, Remote

\* The steps between two messages that leave the connections as they are.
LEMMA ControlKept ==
  ASSUME TypeOK, ControlInv, NEW s \in Streams, UNCHANGED <<connVars, crashed>>, overtaken' = {},
         \A t \in Streams : target'[t] # None => NodeOf[target'[t]] = dest'[t],
         \A t \in Streams \ {s} : pc'[t] = pc[t],
         pc[s] \in Refreshing \cup {"known", "forget"},
         pc'[s] \in Refreshing \/ pc'[s] = IF s \in sender THEN "ready" ELSE "done"
  PROVE  ControlInv'
<1> USE DEF connVars
<1>1. pc[s] \notin {"idle", "done", "open", "unstore"}
  BY DEF Refreshing
<1>2. pc'[s] \notin {"idle", "open", "known", "unstore", "forget"} /\ (s \in sender => pc'[s] # "done")
  BY DEF Refreshing
<1>3. pc'[s] = "ready" => s \in sender
  BY DEF Refreshing
<1>4. \A r, t \in Streams : InUse(r)' /\ InUse(t)' /\ NodeOf[r] = NodeOf[t] => r = t
  BY <1>1 DEF ControlInv, InUse
<1>5. \A t \in sender : pc'[t] \notin {"idle", "done", "unstore", "forget"}
  BY <1>2 DEF ControlInv, TypeOK
<1>6. \A t \in Streams : pc'[t] \in {"open", "known", "ready"} => t \in sender
  BY <1>2, <1>3 DEF ControlInv
<1>7. \A t \in sender : pc'[t] # "open" => channel[NodeOf[t]] = t
  BY <1>1 DEF ControlInv, TypeOK
<1>8. \A n \in Nodes : channel[n] # None =>
        pc'[channel[n]] = "unstore" \/ (channel[n] \in sender /\ pc'[channel[n]] # "open")
  <2> TAKE n \in Nodes
  <2> HAVE channel[n] # None
  <2>1. CASE channel[n] = s
    BY <1>1, <1>2, <2>1 DEF ControlInv
  <2>2. CASE channel[n] # s
    BY <2>2 DEF ControlInv, TypeOK
  <2>3. QED
    BY <2>1, <2>2
<1>9. QED
  BY <1>4, <1>5, <1>6, <1>7, <1>8 DEF ControlInv

LEMMA ControlStep ==
  ASSUME TypeOK, HandlersConsistent, ControlInv, ListsInv, PlansInv,
         NEW s \in Streams, TakesTurn(s), Step(s)
  PROVE  ControlInv'
<1> USE DEF At, Goto, Resume
<1>1. Alone(s)
  BY DEF TakesTurn, Alone
<1>2. \A t \in Streams \ {s} : pc'[t] = pc[t] /\ target'[t] = target[t] /\ dest'[t] = dest[t]
  BY OwnLocals
<1>3. ASSUME target'[s] = None
      PROVE  \A t \in Streams : target'[t] # None => NodeOf[target'[t]] = dest'[t]
  BY <1>2, <1>3 DEF ControlInv
<1>4. target[s] # None => pc[s] = "send"
  BY DEF HandlersConsistent
<1>5. CASE Connect(s)
  <2>1. /\ pc[s] = "idle" /\ pc'[s] = "open" /\ sender' = sender \cup {s}
        /\ UNCHANGED <<channel, closed, sendVars, crashed>>
    BY <1>5 DEF Connect, TypeOK
  <2>2. \A t \in Streams \ {s} : NodeOf[t] = NodeOf[s] => ~InUse(t)
    BY <2>1 DEF TakesTurn, InUse
  <2>3. \A n \in Nodes : channel[n] # s
    BY <2>1 DEF ControlInv
  <2>4. \A r, t \in Streams : InUse(r)' /\ InUse(t)' /\ NodeOf[r] = NodeOf[t] => r = t
    BY <1>2, <2>2 DEF ControlInv, InUse
  <2>5. \A n \in Nodes : channel[n] # None =>
          pc'[channel[n]] = "unstore" \/ (channel[n] \in sender' /\ pc'[channel[n]] # "open")
    BY <1>2, <2>1, <2>3 DEF ControlInv, TypeOK
  <2>6. target'[s] = None
    BY <1>4, <2>1 DEF sendVars
  <2>7. /\ \A t \in sender' : pc'[t] \notin {"idle", "done", "unstore", "forget"}
        /\ \A t \in Streams : pc'[t] \in {"open", "known", "ready"} => t \in sender'
        /\ \A t \in sender' : pc'[t] # "open" => channel[NodeOf[t]] = t
    BY <1>2, <2>1 DEF ControlInv, TypeOK
  <2>8. QED
    BY <1>3, <2>1, <2>4, <2>5, <2>6, <2>7 DEF ControlInv, sendVars
<1>6. CASE Receive(s)
  <2>1. /\ pc[s] = "open" /\ pc'[s] = "known" /\ UNCHANGED <<sender, sendVars, crashed>>
        /\ closed' = closed /\ channel' = [channel EXCEPT ![NodeOf[s]] = s]
    BY <1>6, FirstMessage DEF Receive, TypeOK
  <2>2. s \in sender /\ NodeOf[s] \in Nodes
    BY <2>1 DEF ControlInv
  <2>3. \A n \in Nodes : channel'[n] = IF n = NodeOf[s] THEN s ELSE channel[n]
    BY <2>1, <2>2 DEF TypeOK
  <2>4. \A r, t \in Streams : InUse(r)' /\ InUse(t)' /\ NodeOf[r] = NodeOf[t] => r = t
    BY <1>2, <2>1 DEF ControlInv, InUse
  <2>5. \A t \in sender : pc'[t] # "open" => channel'[NodeOf[t]] = t
    <3> TAKE t \in sender
    <3> HAVE pc'[t] # "open"
    <3>1. CASE t = s
      BY <2>2, <2>3, <3>1
    <3>2. CASE t # s
      <4>1. t \in Streams /\ pc'[t] = pc[t]
        BY <1>2, <3>2 DEF TypeOK
      <4>2. InUse(t) /\ InUse(s)
        BY <2>1 DEF InUse, ControlInv
      <4>3. NodeOf[t] # NodeOf[s]
        BY <3>2, <4>1, <4>2 DEF ControlInv
      <4>4. QED
        BY <2>3, <4>1, <4>3 DEF ControlInv
    <3>3. QED
      BY <3>1, <3>2
  <2>6. \A n \in Nodes : channel'[n] # None => NodeOf[channel'[n]] = n
    BY <2>3 DEF ControlInv
  <2>7. \A n \in Nodes : channel'[n] # None =>
          pc'[channel'[n]] = "unstore" \/ (channel'[n] \in sender /\ pc'[channel'[n]] # "open")
    <3> TAKE n \in Nodes
    <3> HAVE channel'[n] # None
    <3>1. CASE channel'[n] = s
      BY <2>1, <2>2, <3>1
    <3>2. CASE channel'[n] # s
      BY <1>2, <2>3, <3>2 DEF ControlInv, TypeOK
    <3>3. QED
      BY <3>1, <3>2
  <2>8. target'[s] = None
    BY <1>4, <2>1 DEF sendVars
  <2>9. /\ \A t \in sender : pc'[t] \notin {"idle", "done", "unstore", "forget"}
        /\ \A t \in Streams : pc'[t] \in {"open", "known", "ready"} => t \in sender
    BY <1>2, <2>1, <2>2 DEF ControlInv, TypeOK
  <2>10. QED
    BY <1>3, <2>1, <2>4, <2>5, <2>6, <2>7, <2>8, <2>9 DEF ControlInv, sendVars
<1>7. CASE ReceiveOther(s)
  BY <1>7, LaterMessage DEF vars, connVars, sendVars, ControlInv, InUse
<1>8. CASE CancelSender(s)
  <2>1. /\ pc[s] \in {"open", "ready"}
        /\ pc'[s] = IF pc[s] = "open" THEN "done" ELSE "unstore"
        /\ sender' = sender \ {s} /\ UNCHANGED <<channel, closed, sendVars, crashed>>
    BY <1>8, StreamEnds DEF TypeOK
  <2>2. \A r, t \in Streams : InUse(r)' /\ InUse(t)' /\ NodeOf[r] = NodeOf[t] => r = t
    BY <1>2, <2>1 DEF ControlInv, InUse
  <2>3. \A n \in Nodes : channel[n] # None =>
          pc'[channel[n]] = "unstore" \/ (channel[n] \in sender' /\ pc'[channel[n]] # "open")
    <3> TAKE n \in Nodes
    <3> HAVE channel[n] # None
    <3>1. CASE channel[n] = s
      BY <2>1, <3>1 DEF ControlInv
    <3>2. CASE channel[n] # s
      BY <1>2, <2>1, <3>2 DEF ControlInv, TypeOK
    <3>3. QED
      BY <3>1, <3>2
  <2>4. target'[s] = None
    BY <1>4, <2>1 DEF sendVars
  <2>5. /\ \A t \in sender' : pc'[t] \notin {"idle", "done", "unstore", "forget"}
        /\ \A t \in Streams : pc'[t] \in {"open", "known", "ready"} => t \in sender'
        /\ \A t \in sender' : pc'[t] # "open" => channel[NodeOf[t]] = t
    BY <1>2, <2>1 DEF ControlInv, TypeOK
  <2>6. QED
    BY <1>3, <2>1, <2>2, <2>3, <2>4, <2>5 DEF ControlInv, sendVars
<1>9. CASE DeleteChannels(s)
  <2>1. /\ pc[s] = "unstore" /\ pc'[s] = "forget" /\ channel' = [channel EXCEPT ![NodeOf[s]] = None]
        /\ UNCHANGED <<sender, closed, sendVars, crashed>>
    BY <1>9 DEF DeleteChannels, TypeOK
  <2>2. \A n \in Nodes : channel'[n] = IF n = NodeOf[s] THEN None ELSE channel[n]
    BY <2>1 DEF TypeOK
  <2>3. \A r, t \in Streams : InUse(r)' /\ InUse(t)' /\ NodeOf[r] = NodeOf[t] => r = t
    BY <1>2, <2>1 DEF ControlInv, InUse
  <2>4. s \notin sender
    BY <2>1 DEF ControlInv
  <2>5. \A t \in sender : pc'[t] # "open" => channel'[NodeOf[t]] = t
    <3> TAKE t \in sender
    <3> HAVE pc'[t] # "open"
    <3>1. t \in Streams /\ t # s /\ pc'[t] = pc[t]
      BY <1>2, <2>4 DEF TypeOK
    <3>2. InUse(t) /\ InUse(s)
      BY <2>1 DEF InUse, ControlInv
    <3>3. NodeOf[t] # NodeOf[s]
      BY <3>1, <3>2 DEF ControlInv
    <3>4. QED
      BY <2>2, <3>1, <3>3 DEF ControlInv
  <2>6. \A n \in Nodes : channel'[n] # None =>
          /\ NodeOf[channel'[n]] = n
          /\ pc'[channel'[n]] = "unstore" \/ (channel'[n] \in sender /\ pc'[channel'[n]] # "open")
    <3> TAKE n \in Nodes
    <3> HAVE channel'[n] # None
    <3>1. n # NodeOf[s] /\ channel'[n] = channel[n]
      BY <2>2
    <3>2. NodeOf[channel[n]] = n
      BY <3>1 DEF ControlInv
    <3>3. channel[n] \in Streams \ {s}
      BY <3>1, <3>2 DEF TypeOK
    <3>4. QED
      BY <1>2, <3>1, <3>2, <3>3 DEF ControlInv
  <2>7. target'[s] = None
    BY <1>4, <2>1 DEF sendVars
  <2>8. /\ \A t \in sender : pc'[t] \notin {"idle", "done", "unstore", "forget"}
        /\ \A t \in Streams : pc'[t] \in {"open", "known", "ready"} => t \in sender
    BY <1>2, <2>1, <2>4 DEF ControlInv, TypeOK
  <2>9. QED
    BY <1>3, <2>1, <2>3, <2>5, <2>6, <2>7, <2>8 DEF ControlInv, sendVars
<1>10. CASE SetNodeCurrencies(s) \/ DeleteNode(s)
  <2>1. PICK known, gone \in SUBSET Pairs : Relist(s, known, gone, "snapshot")
    <3>1. said[s] \in SUBSET Pairs /\ Pairs \ said[s] \in SUBSET Pairs
          /\ {} \in SUBSET Pairs /\ Pairs \in SUBSET Pairs
      BY DEF TypeOK
    <3>2. Relist(s, said[s], Pairs \ said[s], "snapshot") \/ Relist(s, {}, Pairs, "snapshot")
      BY <1>10 DEF SetNodeCurrencies, DeleteNode
    <3>3. QED
      BY <3>1, <3>2, Zenon
  <2>2. pc[s] \in {"known", "forget"}
    BY <1>10 DEF SetNodeCurrencies, DeleteNode
  <2>3. overtaken' = {} /\ pc'[s] = "snapshot" /\ UNCHANGED <<connVars, crashed, target, dest>>
    <3>1. /\ overtaken' = {} /\ pc' = [pc EXCEPT ![s] = "snapshot"]
          /\ UNCHANGED <<connVars, planVars, dest, pend, base, saw, target, crashed>>
      BY <1>1, <2>1, <2>2, PlainRelist
    <3>2. QED
      BY <3>1 DEF TypeOK
  <2>4. target'[s] = None
    BY <1>4, <2>2, <2>3
  <2>5. QED
    BY <1>2, <1>3, <2>2, <2>3, <2>4, ControlKept DEF Refreshing
<1>11. CASE Snapshot(s) \/ Count(s) \/ GetRandomNodesForCurrency(s) \/ Planned(s) \/ Assign(s)
            \/ ReadStreaming(s)
  <2>1. UNCHANGED <<connVars, crashed, target, overtaken>>
    BY <1>11 DEF Snapshot, Count, GetRandomNodesForCurrency, Planned, Assign, ReadStreaming, sendVars
  <2>2. pc[s] \in Refreshing \ {"send"}
    BY <1>11 DEF Snapshot, Count, GetRandomNodesForCurrency, Planned, Assign, ReadStreaming, Refreshing
  <2>3. pc'[s] \in Refreshing \/ pc'[s] = IF s \in sender THEN "ready" ELSE "done"
    BY <1>11 DEF Snapshot, Count, GetRandomNodesForCurrency, Planned, Assign, ReadStreaming, Refreshing, TypeOK
  <2>4. target'[s] = None
    BY <1>4, <2>1, <2>2
  <2>5. overtaken' = {}
    BY <2>1 DEF ControlInv
  <2>6. QED
    BY <1>2, <1>3, <2>1, <2>2, <2>3, <2>4, <2>5, ControlKept
<1>12. CASE WriteStreaming(s)
  <2>1. overtaken' = {}
    BY <1>1, <1>12, PlainWrite
  <2>2. pc[s] = "write" /\ pc'[s] \in {"read", "lookup"} /\ UNCHANGED <<connVars, crashed, target>>
    BY <1>12 DEF WriteStreaming, TypeOK
  <2>3. target'[s] = None
    BY <1>4, <2>2
  <2>4. QED
    BY <1>2, <1>3, <2>1, <2>2, <2>3, ControlKept DEF Refreshing
<1>13. CASE LookupChannel(s)
  <2>1. /\ dest[s] \in Nodes /\ NodeOf[channel[dest[s]]] = dest[s]
        /\ target'[s] = channel[dest[s]] /\ dest' = dest /\ pc'[s] = "send"
    <3>1. /\ dest[s] \in Nodes /\ NodeOf[channel[dest[s]]] = dest[s]
          /\ target' = [target EXCEPT ![s] = channel[dest[s]]]
          /\ Goto(s, "send") /\ UNCHANGED dest
      BY <1>1, <1>13, ChannelFound
    <3>2. QED
      BY <3>1 DEF Goto, TypeOK
  <2>2. pc[s] = "lookup" /\ UNCHANGED <<connVars, crashed, overtaken>>
    BY <1>13 DEF LookupChannel
  <2>3. \A t \in Streams : target'[t] # None => NodeOf[target'[t]] = dest'[t]
    BY <1>2, <2>1 DEF ControlInv
  <2>4. overtaken' = {}
    BY <2>2 DEF ControlInv
  <2>5. QED
    BY <1>2, <2>1, <2>2, <2>3, <2>4, ControlKept DEF Refreshing
<1>14. CASE Send(s)
  <2>1. pc[s] = "send" /\ pc'[s] = "assign" /\ target'[s] = None
        /\ UNCHANGED <<channel, sender, closed, overtaken, crashed>>
    BY <1>14, RequestSent DEF Send, NextNode, TypeOK
  <2>2. \A t \in Streams : target'[t] # None => NodeOf[target'[t]] = dest'[t]
    BY <1>3, <2>1
  <2>3. \A r, t \in Streams : InUse(r)' /\ InUse(t)' /\ NodeOf[r] = NodeOf[t] => r = t
    BY <1>2, <2>1 DEF ControlInv, InUse
  <2>4. /\ \A t \in sender : pc'[t] \notin {"idle", "done", "unstore", "forget"}
        /\ \A t \in Streams : pc'[t] \in {"open", "known", "ready"} => t \in sender
        /\ \A t \in sender : pc'[t] # "open" => channel[NodeOf[t]] = t
    BY <1>2, <2>1 DEF ControlInv, TypeOK
  <2>5. \A n \in Nodes : channel[n] # None =>
          pc'[channel[n]] = "unstore" \/ (channel[n] \in sender /\ pc'[channel[n]] # "open")
    BY <1>2, <2>1 DEF ControlInv, TypeOK
  <2>6. QED
    BY <2>1, <2>2, <2>3, <2>4, <2>5 DEF ControlInv
<1>15. QED
  BY <1>5, <1>6, <1>7, <1>8, <1>9, <1>10, <1>11, <1>12, <1>13, <1>14 DEF Step, Proceed, Remote

\* A step that leaves the store alone and ends no service.
LEMMA ListsKept ==
  ASSUME ListsInv, UNCHANGED storeVars, \A t \in Streams : Serving(t) => Serving(t)'
  PROVE  ListsInv'
BY DEF ListsInv, storeVars, Listed, Knowers

\* Nobody else's service is ended by a handler, and no other step than the end of a
\* stream's clean up ends one's own.
LEMMA StillServing ==
  ASSUME TypeOK, HandlersConsistent, ControlInv, NEW s \in Streams, Step(s)
  PROVE  /\ \A t \in Streams \ {s} : Serving(t) => Serving(t)'
         /\ Serving(s) => Serving(s)' \/ DeleteNode(s)
<1> USE DEF At, Goto, Resume, connVars
<1>1. \A t \in Streams \ {s} : pc'[t] = pc[t]
  BY OwnLocals
<1>2. CASE Connect(s)
  BY <1>1, <1>2 DEF Connect, Serving, ControlInv, TypeOK
<1>3. CASE Receive(s)
  BY <1>1, <1>3 DEF Receive, Serving, TypeOK
<1>4. CASE ReceiveOther(s)
  BY <1>4, LaterMessage DEF vars, Serving
<1>5. CASE CancelSender(s)
  BY <1>1, <1>5, StreamEnds DEF Serving, TypeOK
<1>6. CASE DeleteChannels(s)
  BY <1>1, <1>6 DEF DeleteChannels, Serving, TypeOK
<1>7. CASE SetNodeCurrencies(s) \/ DeleteNode(s)
  <2>1. sender' = sender /\ pc[s] \in {"known", "forget"}
    BY <1>7 DEF SetNodeCurrencies, DeleteNode, Relist, Crash
  <2>2. pc[s] = "known" \/ DeleteNode(s)
    BY <1>7 DEF SetNodeCurrencies
  <2>3. QED
    BY <1>1, <2>1, <2>2 DEF Serving
<1>8. CASE Snapshot(s) \/ Count(s) \/ GetRandomNodesForCurrency(s) \/ Planned(s) \/ Assign(s)
           \/ ReadStreaming(s) \/ WriteStreaming(s) \/ LookupChannel(s) \/ Send(s)
  <2>1. sender' = sender
    BY <1>8 DEF Snapshot, Count, GetRandomNodesForCurrency, Planned, Assign, ReadStreaming,
                WriteStreaming, LookupChannel, Send, Crash
  <2>2. pc[s] \notin {"unstore", "forget"}
    BY <1>8 DEF Snapshot, Count, GetRandomNodesForCurrency, Planned, Assign, ReadStreaming,
                WriteStreaming, LookupChannel, Send
  <2>3. pc'[s] \in Refreshing \/ pc'[s] = IF s \in sender THEN "ready" ELSE "done"
    <3>1. CASE Snapshot(s) \/ Count(s) \/ GetRandomNodesForCurrency(s) \/ Planned(s)
      BY <3>1 DEF Snapshot, Count, GetRandomNodesForCurrency, Planned, Refreshing, TypeOK
    <3>2. CASE Assign(s) \/ ReadStreaming(s) \/ WriteStreaming(s)
      BY <3>2 DEF Assign, ReadStreaming, WriteStreaming, Refreshing, TypeOK
    <3>3. CASE LookupChannel(s) \/ Send(s)
      BY <3>3 DEF LookupChannel, Send, NextNode, Crash, Refreshing, TypeOK
    <3>4. QED
      BY <1>8, <3>1, <3>2, <3>3
  <2>4. QED
    BY <1>1, <2>1, <2>2, <2>3 DEF Serving, Refreshing
<1>9. QED
  BY <1>2, <1>3, <1>4, <1>5, <1>6, <1>7, <1>8 DEF Step, Proceed, Remote

LEMMA ListsStep ==
  ASSUME TypeOK, HandlersConsistent, ControlInv, ListsInv, PlansInv,
         NEW s \in Streams, TakesTurn(s), Step(s)
  PROVE  ListsInv'
<1>1. Alone(s)
  BY DEF TakesTurn, Alone
<1>2. /\ \A t \in Streams \ {s} : Serving(t) => Serving(t)'
      /\ Serving(s) => Serving(s)' \/ DeleteNode(s)
  BY StillServing
<1>3. CASE UNCHANGED storeVars /\ ~DeleteNode(s)
  BY <1>2, <1>3, ListsKept
<1>4. CASE SetNodeCurrencies(s)
  <2>1. pc[s] = "known" /\ s \in sender /\ said[s] \in SUBSET Pairs /\ Pairs \ said[s] \in SUBSET Pairs
    BY <1>4 DEF SetNodeCurrencies, At, ControlInv, TypeOK
  <2>2. Relist(s, said[s], Pairs \ said[s], "snapshot")
    BY <1>4 DEF SetNodeCurrencies
  <2>3. /\ currencies' = [currencies EXCEPT ![NodeOf[s]] = said[s]]
        /\ \A p \in Pairs : Unrepeated(streaming'[p])
        /\ \A p \in Pairs : Listed(p)' = IF p \in Pairs \ said[s] THEN Listed(p) \ {NodeOf[s]} ELSE Listed(p)
        /\ pc' = [pc EXCEPT ![s] = "snapshot"]
        /\ UNCHANGED connVars
    BY <1>1, <2>1, <2>2, PlainRelist DEF Goto
  <2>4. \A n \in Nodes : currencies'[n] = IF n = NodeOf[s] THEN said[s] ELSE currencies[n]
    BY <2>3 DEF TypeOK
  <2>5. ASSUME NEW p \in Pairs
        PROVE  Listed(p)' \subseteq Knowers(p)'
    <3>1. Listed(p) \subseteq Knowers(p)
      BY DEF ListsInv
    <3>2. Knowers(p)' = { n \in Nodes : p \in IF n = NodeOf[s] THEN said[s] ELSE currencies[n] }
      BY <2>4 DEF Knowers
    <3>3. QED
      BY <2>3, <3>1, <3>2 DEF Knowers
  <2>6. Serving(s)'
    BY <2>1, <2>3 DEF Serving, connVars, TypeOK
  <2>7. \A n \in Nodes : currencies'[n] # {} => \E t \in Streams : NodeOf[t] = n /\ Serving(t)'
    BY <1>2, <2>4, <2>6 DEF ListsInv
  <2>8. QED
    BY <2>3, <2>5, <2>7 DEF ListsInv
<1>5. CASE DeleteNode(s)
  <2>1. pc[s] = "forget" /\ Relist(s, {}, Pairs, "snapshot")
    BY <1>5 DEF DeleteNode, At
  <2>2. /\ currencies' = [currencies EXCEPT ![NodeOf[s]] = {}]
        /\ \A p \in Pairs : Unrepeated(streaming'[p])
        /\ \A p \in Pairs : Listed(p)' = Listed(p) \ {NodeOf[s]}
    BY <1>1, <2>1, PlainRelist
  <2>3. \A n \in Nodes : currencies'[n] = IF n = NodeOf[s] THEN {} ELSE currencies[n]
    BY <2>2 DEF TypeOK
  <2>4. ASSUME NEW p \in Pairs
        PROVE  Listed(p)' \subseteq Knowers(p)'
    <3>1. Listed(p) \subseteq Knowers(p)
      BY DEF ListsInv
    <3>2. Knowers(p)' = { n \in Nodes : p \in IF n = NodeOf[s] THEN {} ELSE currencies[n] }
      BY <2>3 DEF Knowers
    <3>3. QED
      BY <2>2, <3>1, <3>2 DEF Knowers
  <2>5. \A n \in Nodes : currencies'[n] # {} => \E t \in Streams : NodeOf[t] = n /\ Serving(t)'
    <3> TAKE n \in Nodes
    <3> HAVE currencies'[n] # {}
    <3>1. n # NodeOf[s] /\ currencies[n] # {}
      BY <2>3
    <3>2. PICK t \in Streams : NodeOf[t] = n /\ Serving(t)
      BY <3>1 DEF ListsInv
    <3>3. QED
      BY <1>2, <3>1, <3>2
  <2>6. QED
    BY <2>2, <2>4, <2>5 DEF ListsInv
<1>6. CASE WriteStreaming(s)
  <2>1. /\ dest[s] \in Knowers(pair[s])
        /\ \A p \in Pairs : Unrepeated(streaming'[p])
        /\ \A p \in Pairs : Listed(p)' = IF p = pair[s] THEN Listed(p) \cup {dest[s]} ELSE Listed(p)
    BY <1>1, <1>6, PlainWrite
  <2>2. currencies' = currencies
    BY <1>6 DEF WriteStreaming
  <2>3. \A p \in Pairs : Listed(p)' \subseteq Knowers(p)'
    BY <2>1, <2>2 DEF ListsInv, Knowers
  <2>4. ~DeleteNode(s)
    BY <1>6 DEF WriteStreaming, DeleteNode, At
  <2>5. \A n \in Nodes : currencies'[n] # {} => \E t \in Streams : NodeOf[t] = n /\ Serving(t)'
    BY <1>2, <2>2, <2>4 DEF ListsInv
  <2>6. QED
    BY <2>1, <2>3, <2>5 DEF ListsInv
<1>7. CASE Remote(s) \/ DeleteChannels(s) \/ Snapshot(s) \/ Count(s) \/ GetRandomNodesForCurrency(s)
           \/ Planned(s) \/ Assign(s) \/ ReadStreaming(s) \/ LookupChannel(s) \/ Send(s)
  <2>1. UNCHANGED storeVars
    BY <1>7 DEF Remote, Connect, Receive, ReceiveOther, CancelSender, DeleteChannels, Snapshot, Count,
                GetRandomNodesForCurrency, Planned, Assign, ReadStreaming, LookupChannel, Send, Crash
  <2>2. pc[s] # "forget"
    BY <1>7 DEF Remote, Connect, Receive, ReceiveOther, CancelSender, DeleteChannels, Snapshot, Count,
                GetRandomNodesForCurrency, Planned, Assign, ReadStreaming, LookupChannel, Send, At
  <2>3. QED
    BY <1>3, <2>1, <2>2 DEF DeleteNode, At
<1>8. QED
  BY <1>4, <1>5, <1>6, <1>7 DEF Step, Proceed

\* A handler that has drawn nobody has nothing to be out of date.
LEMMA EmptyPlan ==
  ASSUME TypeOK', HandlersConsistent', NEW t \in Streams, plan'[t] = NoPlan,
         pc'[t] \notin {"lottery", "read", "write", "lookup", "send"},
         pc'[t] # "count" => todo'[t] = {}
  PROVE  PlanIsGood(t)'
<1>1. dest'[t] = None
  BY DEF HandlersConsistent
<1>2. \A p \in Pairs : \A n \in Nodes : ~Promised(t, p, n)'
  BY <1>1 DEF Promised, NoPlan
<1>3. QED
  BY <1>1, <1>2 DEF PlanIsGood

\* The lottery draws nodes that know the pair and are not in its list.
LEMMA PlanAfterLottery ==
  ASSUME TypeOK, HandlersConsistent, PlansInv, NEW s \in Streams, GetRandomNodesForCurrency(s)
  PROVE  /\ pair[s] \in todo[s] /\ pair[s] \in Pairs /\ count[s] = Len(streaming[pair[s]])
         /\ dest[s] = None /\ dest'[s] = None /\ pc'[s] = "count"
         /\ UNCHANGED storeVars
         /\ todo'[s] = todo[s] \ {pair[s]}
         /\ \E chosen \in SUBSET (Knowers(pair[s]) \ Listed(pair[s])) :
              /\ Cardinality(chosen) =
                   LET wanted == MaxPriceStreams - Len(streaming[pair[s]])
                       number == Cardinality(Knowers(pair[s]) \ Listed(pair[s]))
                   IN  IF wanted < number THEN wanted ELSE number
              /\ \A n \in Nodes : plan'[s][n] = IF n \in chosen THEN plan[s][n] \cup {pair[s]} ELSE plan[s][n]
<1> USE DEF At, Goto
<1>1. pc[s] = "lottery" /\ pair[s] \in todo[s] /\ count[s] = Len(streaming[pair[s]]) /\ dest[s] = None
      /\ pair[s] \in Pairs
  BY DEF GetRandomNodesForCurrency, PlansInv, PlanIsGood, HandlersConsistent
<1>2. Candidates(pair[s]) = Knowers(pair[s]) \ Listed(pair[s])
  <2>1. streaming[pair[s]] \in Seq(Nodes)
    BY <1>1 DEF TypeOK
  <2>2. DOMAIN streaming[pair[s]] = 1..Len(streaming[pair[s]])
    BY <2>1
  <2>3. QED
    BY <2>2 DEF Candidates, Knowers, Listed, ContainsString
<1>3. dest' = dest /\ pc'[s] = "count" /\ UNCHANGED storeVars /\ todo'[s] = todo[s] \ {pair[s]}
  BY DEF GetRandomNodesForCurrency, sendVars, TypeOK
<1>4. \E chosen \in SUBSET Candidates(pair[s]) :
        /\ Cardinality(chosen) =
             IF MaxPriceStreams - count[s] < Cardinality(Candidates(pair[s]))
               THEN MaxPriceStreams - count[s] ELSE Cardinality(Candidates(pair[s]))
        /\ plan' = [plan EXCEPT ![s] =
                      [n \in Nodes |-> IF n \in chosen THEN @[n] \cup {pair[s]} ELSE @[n]]]
  BY DEF GetRandomNodesForCurrency
<1>5. PICK chosen \in SUBSET (Knowers(pair[s]) \ Listed(pair[s])) :
        /\ Cardinality(chosen) =
             IF MaxPriceStreams - Len(streaming[pair[s]]) < Cardinality(Knowers(pair[s]) \ Listed(pair[s]))
               THEN MaxPriceStreams - Len(streaming[pair[s]])
               ELSE Cardinality(Knowers(pair[s]) \ Listed(pair[s]))
        /\ plan' = [plan EXCEPT ![s] =
                      [n \in Nodes |-> IF n \in chosen THEN @[n] \cup {pair[s]} ELSE @[n]]]
  BY <1>1, <1>2, <1>4
<1>6. \A n \in Nodes : plan'[s][n] = IF n \in chosen THEN plan[s][n] \cup {pair[s]} ELSE plan[s][n]
  BY <1>5 DEF TypeOK
<1>7. QED
  BY <1>1, <1>3, <1>5, <1>6

\* What a handler goes on to a node's part of the plan with.
LEMMA PlanAfterNode ==
  ASSUME TypeOK, NEW s \in Streams, dest[s] \in Nodes, NextNode(s)
  PROVE  /\ dest'[s] = None /\ pc'[s] = "assign"
         /\ \A n \in Nodes : plan'[s][n] = IF n = dest[s] THEN {} ELSE plan[s][n]
<1>1. plan' = [plan EXCEPT ![s] = [plan[s] EXCEPT ![dest[s]] = {}]]
  BY DEF NextNode
<1>2. plan'[s] = [plan[s] EXCEPT ![dest[s]] = {}]
  BY <1>1 DEF TypeOK
<1>3. QED
  BY <1>2 DEF NextNode, Goto, TypeOK

LEMMA PlansStep ==
  ASSUME TypeOK, HandlersConsistent, TypeOK', HandlersConsistent',
         ControlInv, ListsInv, PlansInv, NEW s \in Streams, TakesTurn(s), Step(s)
  PROVE  PlansInv'
<1> USE DEF At, Goto, Resume
<1>1. Alone(s)
  BY DEF TakesTurn, Alone
<1>2. PlanIsGood(s)
  BY DEF PlansInv
<1>3. ASSUME NEW t \in Streams \ {s}
      PROVE  PlanIsGood(t)'
  <2>1. pc[t] \in Resting /\ plan[t] = NoPlan /\ todo[t] = {}
    BY <1>1 DEF Alone, PlansInv, PlanIsGood, Resting, Refreshing
  <2>2. pc'[t] = pc[t] /\ plan'[t] = plan[t] /\ todo'[t] = todo[t]
    BY OwnLocals
  <2>3. QED
    BY <2>1, <2>2, EmptyPlan DEF Resting
<1> SUFFICES PlanIsGood(s)'
  BY <1>3 DEF PlansInv
<1>4. CASE Remote(s) \/ DeleteChannels(s)
  <2>1. plan[s] = NoPlan /\ todo[s] = {}
    BY <1>2, <1>4 DEF Remote, Connect, Receive, ReceiveOther, CancelSender, DeleteChannels, PlanIsGood,
                      Refreshing
  <2>2. UNCHANGED planVars
    BY <1>4 DEF Remote, Connect, Receive, ReceiveOther, CancelSender, DeleteChannels, Crash
  <2>3. pc'[s] \in {"open", "known", "ready", "done", "unstore", "forget"}
    <3>1. CASE ReceiveOther(s)
      BY <3>1, LaterMessage DEF ReceiveOther, vars
    <3>2. CASE CancelSender(s)
      BY <3>2, StreamEnds DEF TypeOK
    <3>3. QED
      BY <1>4, <3>1, <3>2 DEF Remote, Connect, Receive, DeleteChannels, TypeOK
  <2>4. QED
    BY <2>1, <2>2, <2>3, EmptyPlan DEF planVars
<1>5. CASE SetNodeCurrencies(s) \/ DeleteNode(s)
  <2>1. plan[s] = NoPlan /\ todo[s] = {} /\ pc[s] \in {"known", "forget"}
    BY <1>2, <1>5 DEF SetNodeCurrencies, DeleteNode, PlanIsGood, Refreshing
  <2>2. UNCHANGED planVars /\ pc'[s] \in {"known", "forget", "snapshot"}
    BY <1>5, <2>1 DEF SetNodeCurrencies, DeleteNode, Relist, Crash, TypeOK
  <2>3. QED
    BY <2>1, <2>2, EmptyPlan DEF planVars
<1>6. CASE Snapshot(s)
  <2>1. plan[s] = NoPlan /\ todo[s] = {} /\ plan' = plan
    BY <1>2, <1>6 DEF Snapshot, PlanIsGood
  <2>2. \/ todo' = todo /\ pc'[s] \in {"ready", "done"}
        \/ pc'[s] = "count"
    BY <1>6 DEF Snapshot, TypeOK
  <2>3. QED
    BY <2>1, <2>2, EmptyPlan
<1>7. CASE Count(s)
  <2>1. pc[s] = "count" /\ UNCHANGED <<storeVars, plan, sendVars>>
    BY <1>7 DEF Count
  <2>2. PICK p \in todo[s] :
          \/ todo'[s] = todo[s] \ {p} /\ pc'[s] = "count"
          \/ todo'[s] = todo[s] /\ pair'[s] = p /\ count'[s] = Len(streaming[p]) /\ pc'[s] = "lottery"
    BY <1>7 DEF Count, CountNodeStreamingCurrency, TypeOK
  <2>3. dest[s] = None
    BY <2>1 DEF HandlersConsistent
  <2>4. todo'[s] \subseteq todo[s] /\ pc'[s] \in {"count", "lottery"}
    BY <2>2
  <2>5. \A q \in Pairs : \A n \in Nodes : Promised(s, q, n)' => n \in Knowers(q)' \ Listed(q)' /\ q \notin todo'[s]
    BY <1>2, <2>1, <2>4 DEF PlanIsGood, Promised, Knowers, Listed, storeVars, sendVars
  <2>6. QED
    BY <2>1, <2>2, <2>3, <2>5 DEF PlanIsGood, storeVars, sendVars, Refreshing
<1>8. CASE GetRandomNodesForCurrency(s)
  <2>1. /\ pair[s] \in Pairs /\ dest[s] = None /\ dest'[s] = None /\ pc'[s] = "count"
        /\ UNCHANGED storeVars /\ todo'[s] = todo[s] \ {pair[s]}
    BY <1>8, PlanAfterLottery
  <2>2. PICK chosen \in SUBSET (Knowers(pair[s]) \ Listed(pair[s])) :
          \A n \in Nodes : plan'[s][n] = IF n \in chosen THEN plan[s][n] \cup {pair[s]} ELSE plan[s][n]
    BY <1>8, PlanAfterLottery
  <2>3. ASSUME NEW q \in Pairs, NEW n \in Nodes, Promised(s, q, n)'
        PROVE  n \in Knowers(q)' \ Listed(q)' /\ q \notin todo'[s]
    <3>1. q \in plan'[s][n]
      BY <2>1, <2>3 DEF Promised
    <3>2. CASE q \in plan[s][n]
      <4>1. Promised(s, q, n)
        BY <2>1, <3>2 DEF Promised
      <4>2. QED
        BY <1>2, <2>1, <4>1 DEF PlanIsGood, Knowers, Listed, storeVars
    <3>3. CASE q = pair[s] /\ n \in chosen
      BY <2>1, <2>2, <3>3 DEF Knowers, Listed, storeVars
    <3>4. QED
      BY <2>2, <3>1, <3>2, <3>3
  <2>4. QED
    BY <2>1, <2>3 DEF PlanIsGood, Refreshing
<1>9. CASE Planned(s)
  <2>1. pc[s] = "count" /\ pc'[s] = "assign" /\ todo[s] = {} /\ UNCHANGED <<storeVars, planVars, sendVars>>
    BY <1>9 DEF Planned, TypeOK
  <2>2. dest[s] = None
    BY <2>1 DEF HandlersConsistent
  <2>3. QED
    BY <1>2, <2>1, <2>2 DEF PlanIsGood, Promised, Knowers, Listed, storeVars, planVars, sendVars, Refreshing
<1>10. CASE Assign(s)
  <2>1. pc[s] = "assign" /\ todo[s] = {} /\ dest[s] = None /\ UNCHANGED <<storeVars, planVars>>
    BY <1>2, <1>10 DEF Assign, PlanIsGood, HandlersConsistent
  <2>2. CASE plan[s] = NoPlan /\ Resume(s)
    <3>1. pc'[s] \in {"ready", "done"}
      BY <2>2 DEF TypeOK
    <3>2. QED
      BY <2>1, <2>2, <3>1, EmptyPlan DEF planVars
  <2>3. ASSUME NEW n \in Nodes, plan[s][n] # {}, dest' = [dest EXCEPT ![s] = n],
               pend' = [pend EXCEPT ![s] = plan[s][n]], Goto(s, "read")
        PROVE  PlanIsGood(s)'
    <3>1. dest'[s] = n /\ pend'[s] = plan[s][n] /\ pc'[s] = "read"
      BY <2>3 DEF TypeOK
    <3>2. \A q \in Pairs : \A m \in Nodes : Promised(s, q, m)' => Promised(s, q, m)
      BY <2>1, <3>1 DEF Promised, planVars
    <3>3. \A q \in Pairs : \A m \in Nodes : Promised(s, q, m)' => m \in Knowers(q)' \ Listed(q)'
      BY <1>2, <2>1, <3>2 DEF PlanIsGood, Knowers, Listed, storeVars
    <3>4. QED
      BY <2>1, <2>3, <3>1, <3>3 DEF PlanIsGood, planVars, Refreshing
  <2>4. QED
    BY <1>10, <2>2, <2>3 DEF Assign
<1>11. CASE ReadStreaming(s)
  <2>1. pc[s] = "read" /\ pc'[s] = "write" /\ UNCHANGED <<storeVars, todo, plan, dest, pend>>
    BY <1>11 DEF ReadStreaming, TypeOK
  <2>2. \A q \in Pairs : \A m \in Nodes : Promised(s, q, m)' => m \in Knowers(q)' \ Listed(q)' /\ q \notin todo'[s]
    BY <1>2, <2>1 DEF PlanIsGood, Promised, Knowers, Listed, storeVars
  <2>3. QED
    BY <1>2, <2>1, <2>2 DEF PlanIsGood, Listed, storeVars, Refreshing
<1>12. CASE WriteStreaming(s)
  <2>1. /\ pair[s] \in Pairs /\ dest[s] \in Nodes /\ pair[s] \in pend[s]
        /\ \A p \in Pairs : Listed(p)' = IF p = pair[s] THEN Listed(p) \cup {dest[s]} ELSE Listed(p)
    BY <1>1, <1>12, PlainWrite
  <2>2. /\ pc[s] = "write" /\ pc'[s] \in {"read", "lookup"}
        /\ pend'[s] = pend[s] \ {pair[s]} /\ UNCHANGED <<currencies, todo, plan, dest>>
    BY <1>12 DEF WriteStreaming, TypeOK
  <2>3. todo[s] = {}
    BY <1>2, <2>2 DEF PlanIsGood
  <2>4. ASSUME NEW q \in Pairs, NEW m \in Nodes, Promised(s, q, m)'
        PROVE  m \in Knowers(q)' \ Listed(q)'
    <3>1. Promised(s, q, m) /\ (m = dest[s] => q # pair[s])
      BY <2>1, <2>2, <2>4 DEF Promised
    <3>2. m \in Knowers(q) \ Listed(q)
      BY <1>2, <3>1 DEF PlanIsGood
    <3>3. Listed(q)' \subseteq Listed(q) \cup {dest[s]} /\ (q # pair[s] => Listed(q)' = Listed(q))
      BY <2>1
    <3>4. QED
      BY <2>2, <3>1, <3>2, <3>3 DEF Knowers
  <2>5. ASSUME NEW p \in plan[s][dest[s]] \ pend'[s]
        PROVE  dest[s] \in Listed(p)'
    <3>1. p \in Pairs
      BY <2>1 DEF TypeOK
    <3>2. p = pair[s] \/ dest[s] \in Listed(p)
      BY <1>2, <2>1, <2>2 DEF PlanIsGood
    <3>3. QED
      BY <2>1, <3>1, <3>2
  <2>6. QED
    BY <1>2, <2>1, <2>2, <2>3, <2>4, <2>5 DEF PlanIsGood, Refreshing
<1>13. CASE LookupChannel(s)
  <2>1. pc'[s] = "send" /\ UNCHANGED <<plan, dest>>
    <3>1. Goto(s, "send") /\ UNCHANGED <<plan, dest>>
      BY <1>1, <1>13, ChannelFound
    <3>2. QED
      BY <3>1 DEF Goto, TypeOK
  <2>2. pc[s] = "lookup" /\ UNCHANGED <<storeVars, todo, pend>>
    BY <1>13 DEF LookupChannel
  <2>3. \A q \in Pairs : \A m \in Nodes : Promised(s, q, m)' => m \in Knowers(q)' \ Listed(q)' /\ q \notin todo'[s]
    BY <1>2, <2>1, <2>2 DEF PlanIsGood, Promised, Knowers, Listed, storeVars
  <2>4. QED
    BY <1>2, <2>1, <2>2, <2>3 DEF PlanIsGood, Listed, storeVars, Refreshing
<1>14. CASE Send(s)
  <2>1. dest[s] \in Nodes /\ NextNode(s) /\ UNCHANGED <<storeVars, todo>> /\ pc[s] = "send"
    BY <1>14, RequestSent DEF Send
  <2>2. /\ dest'[s] = None /\ pc'[s] = "assign"
        /\ \A n \in Nodes : plan'[s][n] = IF n = dest[s] THEN {} ELSE plan[s][n]
    BY <2>1, PlanAfterNode
  <2>3. todo[s] = {}
    BY <1>2, <2>1 DEF PlanIsGood
  <2>4. \A q \in Pairs : \A m \in Nodes : Promised(s, q, m)' => Promised(s, q, m)
    BY <2>2 DEF Promised
  <2>5. \A q \in Pairs : \A m \in Nodes : Promised(s, q, m)' => m \in Knowers(q)' \ Listed(q)'
    BY <1>2, <2>1, <2>4 DEF PlanIsGood, Knowers, Listed, storeVars
  <2>6. QED
    BY <2>1, <2>2, <2>3, <2>5 DEF PlanIsGood, Refreshing
<1>15. QED
  BY <1>4, <1>5, <1>6, <1>7, <1>8, <1>9, <1>10, <1>11, <1>12, <1>13, <1>14 DEF Step, Proceed

-----------------------------------------------------------------------------
(* How many nodes a pair gets.                                             *)

\* The nodes of a pair, those included that a refresh has yet to store.
Assigned(p) == Listed(p) \cup { n \in Nodes : \E s \in Streams : Promised(s, p, n) }

\* A refresh has yet to look at the pair.
Waiting(p) == \E s \in Streams : pc[s] = "snapshot" \/ p \in todo[s]

Limited(number) == IF number < MaxPriceStreams THEN number ELSE MaxPriceStreams

\* A pair has no more nodes than the limit, and as many as it can have unless a refresh
\* has yet to look at it.
CoverInv ==
  \A p \in Pairs :
    /\ Cardinality(Assigned(p)) <= MaxPriceStreams
    /\ Waiting(p) \/ Cardinality(Assigned(p)) = Limited(Cardinality(Knowers(p)))

\* Only the handler whose turn it is can have drawn somebody or have to look at a pair.
LEMMA OneAtWork ==
  TypeOK /\ HandlersConsistent /\ PlansInv =>
    \A s \in Streams : Alone(s) =>
      \A p \in Pairs :
        /\ Assigned(p) = Listed(p) \cup { n \in Nodes : Promised(s, p, n) }
        /\ Waiting(p) <=> pc[s] = "snapshot" \/ p \in todo[s]
<1> SUFFICES ASSUME TypeOK, HandlersConsistent, PlansInv, NEW s \in Streams, Alone(s), NEW p \in Pairs
             PROVE  /\ Assigned(p) = Listed(p) \cup { n \in Nodes : Promised(s, p, n) }
                    /\ Waiting(p) <=> pc[s] = "snapshot" \/ p \in todo[s]
  OBVIOUS
<1>1. ASSUME NEW t \in Streams \ {s}
      PROVE  pc[t] # "snapshot" /\ todo[t] = {} /\ \A n \in Nodes : ~Promised(t, p, n)
  <2>1. pc[t] \in Resting
    BY DEF Alone
  <2>2. plan[t] = NoPlan /\ todo[t] = {} /\ dest[t] = None
    BY <2>1 DEF PlansInv, PlanIsGood, HandlersConsistent, Resting, Refreshing
  <2>3. QED
    BY <2>1, <2>2 DEF Resting, Promised, NoPlan
<1>2. QED
  BY <1>1 DEF Assigned, Waiting

LEMMA OneAtWorkNext ==
  (TypeOK /\ HandlersConsistent /\ PlansInv)' =>
    (\A s \in Streams : Alone(s) =>
      \A p \in Pairs :
        /\ Assigned(p) = Listed(p) \cup { n \in Nodes : Promised(s, p, n) }
        /\ Waiting(p) <=> pc[s] = "snapshot" \/ p \in todo[s])'
BY OneAtWork, PTL

\* Everyone who has a pair, or is to have it, knows it.
LEMMA AssignedKnow ==
  ASSUME TypeOK, ListsInv, PlansInv, NEW p \in Pairs
  PROVE  /\ Assigned(p) \subseteq Knowers(p) /\ Listed(p) \subseteq Assigned(p)
         /\ IsFiniteSet(Knowers(p)) /\ IsFiniteSet(Assigned(p)) /\ IsFiniteSet(Listed(p))
         /\ Cardinality(Listed(p)) = Len(streaming[p])
         /\ Cardinality(Listed(p)) \in Nat /\ Cardinality(Assigned(p)) \in Nat
         /\ Cardinality(Knowers(p)) \in Nat
         /\ Cardinality(Listed(p)) <= Cardinality(Assigned(p))
         /\ Cardinality(Assigned(p)) <= Cardinality(Knowers(p))
<1>1. Assigned(p) \subseteq Knowers(p)
  BY DEF ListsInv, PlansInv, PlanIsGood, Assigned
<1>2. Listed(p) \subseteq Assigned(p)
  BY DEF Assigned
<1>3. Knowers(p) \subseteq Nodes
  BY DEF Knowers
<1>4. IsFiniteSet(Knowers(p))
  BY <1>3, FS_Subset
<1>5. IsFiniteSet(Assigned(p)) /\ Cardinality(Assigned(p)) <= Cardinality(Knowers(p))
  BY <1>1, <1>4, FS_Subset
<1>6. IsFiniteSet(Listed(p)) /\ Cardinality(Listed(p)) <= Cardinality(Assigned(p))
  BY <1>2, <1>5, FS_Subset
<1>7. Cardinality(Listed(p)) = Len(streaming[p])
  <2>1. streaming[p] \in Seq(Nodes) /\ Unrepeated(streaming[p])
    BY DEF TypeOK, ListsInv
  <2>2. QED
    BY <2>1, LengthCounts, ListedAreElements
<1>8. QED
  BY <1>1, <1>2, <1>4, <1>5, <1>6, <1>7, FS_CardinalityType

\* A pair to which a refresh gives nobody and whose turn does not pass.
LEMMA CoverKept ==
  ASSUME CoverInv, UNCHANGED currencies,
         NEW p \in Pairs, Assigned(p)' = Assigned(p), Waiting(p) => Waiting(p)'
  PROVE  /\ Cardinality(Assigned(p)') <= MaxPriceStreams
         /\ Waiting(p)' \/ Cardinality(Assigned(p)') = Limited(Cardinality(Knowers(p)'))
<1>1. Knowers(p)' = Knowers(p)
  BY DEF Knowers
<1>2. QED
  BY <1>1 DEF CoverInv

LEMMA CoverStep ==
  ASSUME TypeOK, HandlersConsistent, TypeOK', HandlersConsistent',
         ControlInv, ListsInv, ListsInv', PlansInv, PlansInv', CoverInv,
         NEW s \in Streams, TakesTurn(s), Step(s)
  PROVE  CoverInv'
<1> USE DEF At, Goto, Resume
<1>1. Alone(s) /\ Alone(s)'
  <2>1. Alone(s)
    BY DEF TakesTurn, Alone
  <2>2. \A t \in Streams \ {s} : pc'[t] = pc[t]
    BY OwnLocals
  <2>3. QED
    BY <2>1, <2>2 DEF Alone
<1>2. PlanIsGood(s)
  BY DEF PlansInv
<1>3. \A p \in Pairs :
        /\ Assigned(p) = Listed(p) \cup { n \in Nodes : Promised(s, p, n) }
        /\ Waiting(p) <=> pc[s] = "snapshot" \/ p \in todo[s]
  BY <1>1, OneAtWork
<1>4. \A p \in Pairs :
        /\ Assigned(p)' = Listed(p)' \cup { n \in Nodes : Promised(s, p, n)' }
        /\ Waiting(p)' <=> pc'[s] = "snapshot" \/ p \in todo'[s]
  BY <1>1, OneAtWorkNext
<1> SUFFICES ASSUME NEW p \in Pairs
             PROVE  /\ Cardinality(Assigned(p)') <= MaxPriceStreams
                    /\ Waiting(p)' \/ Cardinality(Assigned(p)') = Limited(Cardinality(Knowers(p)'))
  BY DEF CoverInv
<1>5. /\ Assigned(p) \subseteq Knowers(p) /\ Listed(p) \subseteq Assigned(p)
      /\ IsFiniteSet(Knowers(p)) /\ IsFiniteSet(Assigned(p)) /\ IsFiniteSet(Listed(p))
      /\ Cardinality(Listed(p)) = Len(streaming[p])
      /\ Cardinality(Listed(p)) \in Nat /\ Cardinality(Assigned(p)) \in Nat
      /\ Cardinality(Knowers(p)) \in Nat
      /\ Cardinality(Listed(p)) <= Cardinality(Assigned(p))
      /\ Cardinality(Assigned(p)) <= Cardinality(Knowers(p))
  BY AssignedKnow
<1>6. Cardinality(Assigned(p)) <= MaxPriceStreams
  BY DEF CoverInv
<1>7. CASE /\ UNCHANGED <<storeVars, todo>>
           /\ \A n \in Nodes : Promised(s, p, n)' <=> Promised(s, p, n)
           /\ pc[s] # "snapshot"
  <2>1. Listed(p)' = Listed(p)
    BY <1>7 DEF Listed, storeVars
  <2>2. Assigned(p)' = Assigned(p) /\ (Waiting(p) => Waiting(p)')
    BY <1>3, <1>4, <1>7, <2>1
  <2>3. QED
    BY <1>7, <2>2, CoverKept DEF storeVars
<1>8. CASE UNCHANGED <<storeVars, todo, plan, dest, pend>> /\ pc[s] # "snapshot"
  <2>1. \A n \in Nodes : Promised(s, p, n)' <=> Promised(s, p, n)
    BY <1>8 DEF Promised
  <2>2. QED
    BY <1>7, <1>8, <2>1
<1>9. CASE Remote(s) \/ DeleteChannels(s)
  BY <1>8, <1>9 DEF Remote, Connect, Receive, ReceiveOther, CancelSender, DeleteChannels, Crash,
                    planVars, sendVars
<1>10. CASE SetNodeCurrencies(s) \/ DeleteNode(s)
  <2>1. pc[s] \in {"known", "forget"} /\ plan[s] = NoPlan
    BY <1>2, <1>10 DEF SetNodeCurrencies, DeleteNode, PlanIsGood, Refreshing
  <2>2. said[s] \in SUBSET Pairs /\ Pairs \ said[s] \in SUBSET Pairs
    BY DEF TypeOK
  <2>3. PICK known, gone \in SUBSET Pairs : Relist(s, known, gone, "snapshot")
    BY <1>10, <2>2 DEF SetNodeCurrencies, DeleteNode
  <2>4. /\ Listed(p)' = IF p \in gone THEN Listed(p) \ {NodeOf[s]} ELSE Listed(p)
        /\ pc' = [pc EXCEPT ![s] = "snapshot"]
        /\ UNCHANGED <<planVars, dest, pend>>
    BY <1>1, <2>1, <2>3, PlainRelist
  <2>5. pc'[s] = "snapshot"
    BY <2>4 DEF TypeOK
  <2>6. Waiting(p)'
    BY <1>4, <2>5
  <2>7. dest'[s] = None
    BY <2>5 DEF HandlersConsistent
  <2>8. \A n \in Nodes : ~Promised(s, p, n)'
    BY <2>1, <2>4, <2>7 DEF Promised, NoPlan, planVars
  <2>9. Assigned(p)' \subseteq Assigned(p)
    BY <1>4, <1>5, <2>4, <2>8
  <2>10. IsFiniteSet(Assigned(p)') /\ Cardinality(Assigned(p)') <= Cardinality(Assigned(p))
    BY <1>5, <2>9, FS_Subset
  <2>11. Cardinality(Assigned(p)') \in Nat
    BY <2>10, FS_CardinalityType
  <2>12. QED
    BY <1>5, <1>6, <2>6, <2>10, <2>11
<1>11. CASE Snapshot(s)
  <2>1. pc[s] = "snapshot" /\ UNCHANGED <<storeVars, plan, dest, pend>>
    BY <1>11 DEF Snapshot, sendVars
  <2>2. Assigned(p)' = Assigned(p) /\ Knowers(p)' = Knowers(p)
    <3>1. \A n \in Nodes : Promised(s, p, n)' <=> Promised(s, p, n)
      BY <2>1 DEF Promised
    <3>2. Listed(p)' = Listed(p) /\ Knowers(p)' = Knowers(p)
      BY <2>1 DEF Listed, Knowers, storeVars
    <3>3. QED
      BY <1>3, <1>4, <3>1, <3>2
  <2>3. CASE MaxPriceStreams = 0
    BY <1>5, <1>6, <2>2, <2>3 DEF Limited
  <2>4. CASE MaxPriceStreams > 0
    <3>1. todo'[s] = UNION { currencies[n] : n \in Nodes }
      BY <1>11, <2>4 DEF Snapshot, TypeOK
    <3>2. CASE Knowers(p) = {}
      <4>1. Cardinality(Knowers(p)) = 0
        BY <3>2, FS_EmptySet
      <4>2. Cardinality(Assigned(p)) = 0
        BY <1>5, <4>1
      <4>3. QED
        BY <2>2, <2>4, <4>1, <4>2 DEF Limited
    <3>3. CASE Knowers(p) # {}
      <4>1. p \in todo'[s]
        BY <3>1, <3>3 DEF Knowers
      <4>2. QED
        BY <1>4, <1>6, <2>2, <4>1
    <3>4. QED
      BY <3>2, <3>3
  <2>5. QED
    BY <2>3, <2>4
<1>12. CASE Count(s)
  <2>1. pc[s] = "count" /\ UNCHANGED <<storeVars, plan, dest, pend>>
    BY <1>12 DEF Count, sendVars
  <2>2. PICK q \in todo[s] :
          \/ todo'[s] = todo[s] \ {q} /\ Len(streaming[q]) >= MaxPriceStreams
          \/ todo' = todo
    BY <1>12 DEF Count, CountNodeStreamingCurrency, TypeOK
  <2>3. Assigned(p)' = Assigned(p) /\ Knowers(p)' = Knowers(p)
    <3>1. \A n \in Nodes : Promised(s, p, n)' <=> Promised(s, p, n)
      BY <2>1 DEF Promised
    <3>2. Listed(p)' = Listed(p) /\ Knowers(p)' = Knowers(p)
      BY <2>1 DEF Listed, Knowers, storeVars
    <3>3. QED
      BY <1>3, <1>4, <3>1, <3>2
  <2>4. CASE todo' = todo \/ q # p
    <3>1. Waiting(p) => Waiting(p)'
      BY <1>3, <1>4, <2>1, <2>2, <2>4
    <3>2. QED
      BY <2>1, <2>3, <3>1, CoverKept DEF storeVars
  <2>5. CASE q = p /\ Len(streaming[q]) >= MaxPriceStreams
    BY <1>5, <1>6, <2>3, <2>5 DEF Limited
  <2>6. QED
    BY <2>2, <2>4, <2>5
<1>13. CASE GetRandomNodesForCurrency(s)
  <2>1. /\ pair[s] \in todo[s] /\ dest[s] = None /\ dest'[s] = None
        /\ UNCHANGED storeVars /\ todo'[s] = todo[s] \ {pair[s]}
    BY <1>13, PlanAfterLottery
  <2>2. PICK chosen \in SUBSET (Knowers(pair[s]) \ Listed(pair[s])) :
          /\ Cardinality(chosen) =
               LET wanted == MaxPriceStreams - Len(streaming[pair[s]])
                   number == Cardinality(Knowers(pair[s]) \ Listed(pair[s]))
               IN  IF wanted < number THEN wanted ELSE number
          /\ \A n \in Nodes : plan'[s][n] = IF n \in chosen THEN plan[s][n] \cup {pair[s]} ELSE plan[s][n]
    BY <1>13, PlanAfterLottery
  <2>3. Listed(p)' = Listed(p) /\ Knowers(p)' = Knowers(p)
    BY <2>1 DEF Listed, Knowers, storeVars
  <2>4. CASE p # pair[s]
    <3>1. \A n \in Nodes : Promised(s, p, n)' <=> Promised(s, p, n)
      BY <2>1, <2>2, <2>4 DEF Promised
    <3>2. Assigned(p)' = Assigned(p)
      BY <1>3, <1>4, <2>3, <3>1
    <3>3. Waiting(p) => Waiting(p)'
      BY <1>3, <1>4, <1>13, <2>1, <2>4 DEF GetRandomNodesForCurrency
    <3>4. QED
      BY <2>1, <3>2, <3>3, CoverKept DEF storeVars
  <2>5. CASE p = pair[s]
    <3>1. \A n \in Nodes : ~Promised(s, p, n)
      BY <1>2, <2>1, <2>5 DEF PlanIsGood
    <3>2. \A n \in Nodes : Promised(s, p, n)' <=> n \in chosen
      BY <2>1, <2>2, <2>5, <3>1 DEF Promised
    <3>3. chosen \subseteq Nodes
      BY DEF Knowers
    <3>4. Assigned(p) = Listed(p) /\ Assigned(p)' = Listed(p) \cup chosen
      BY <1>3, <1>4, <2>3, <3>1, <3>2, <3>3
    <3>5. chosen \subseteq Knowers(p) \ Listed(p)
      BY <2>5
    <3>6. /\ Cardinality(Knowers(p) \ Listed(p)) = Cardinality(Knowers(p)) - Cardinality(Listed(p))
          /\ IsFiniteSet(Knowers(p) \ Listed(p))
      <4>1. Knowers(p) \cap Listed(p) = Listed(p)
        BY <1>5
      <4>2. QED
        BY <1>5, <4>1, FS_Difference
    <3>7. IsFiniteSet(chosen) /\ Cardinality(chosen) \in Nat
      BY <3>5, <3>6, FS_Subset, FS_CardinalityType
    <3>8. Cardinality(Assigned(p)') = Cardinality(Listed(p)) + Cardinality(chosen)
      <4>1. Listed(p) \cap chosen = {}
        BY <3>5
      <4>2. Cardinality(Listed(p) \cap chosen) = 0
        BY <4>1, FS_EmptySet
      <4>3. Cardinality(Listed(p) \cup chosen) =
              Cardinality(Listed(p)) + Cardinality(chosen) - Cardinality(Listed(p) \cap chosen)
        BY <1>5, <3>7, FS_Union
      <4>4. QED
        BY <1>5, <3>4, <3>7, <4>2, <4>3
    <3>9. Cardinality(chosen) =
            IF MaxPriceStreams - Cardinality(Listed(p)) < Cardinality(Knowers(p)) - Cardinality(Listed(p))
              THEN MaxPriceStreams - Cardinality(Listed(p))
              ELSE Cardinality(Knowers(p)) - Cardinality(Listed(p))
      BY <1>5, <2>2, <2>5, <3>6
    <3>10. QED
      BY <1>5, <2>3, <3>8, <3>9 DEF Limited
  <2>6. QED
    BY <2>4, <2>5
<1>14. CASE Planned(s) \/ ReadStreaming(s)
  BY <1>8, <1>14 DEF Planned, ReadStreaming, planVars, sendVars
<1>15. CASE Assign(s)
  <2>1. pc[s] = "assign" /\ UNCHANGED <<storeVars, todo, plan>>
    BY <1>15 DEF Assign, planVars
  <2>2. dest[s] = None
    BY <2>1 DEF HandlersConsistent
  <2>3. \A n \in Nodes : Promised(s, p, n)' <=> Promised(s, p, n)
    <3>1. CASE UNCHANGED <<dest, pend>>
      BY <2>1, <3>1 DEF Promised
    <3>2. ASSUME NEW n \in Nodes, dest' = [dest EXCEPT ![s] = n], pend' = [pend EXCEPT ![s] = plan[s][n]]
          PROVE  \A m \in Nodes : Promised(s, p, m)' <=> Promised(s, p, m)
      <4>1. dest'[s] = n /\ pend'[s] = plan[s][n]
        BY <3>2 DEF TypeOK
      <4>2. QED
        BY <2>1, <2>2, <4>1 DEF Promised
    <3>3. QED
      BY <1>15, <3>1, <3>2 DEF Assign
  <2>4. QED
    BY <1>7, <2>1, <2>3
<1>16. CASE WriteStreaming(s)
  <2>1. /\ pair[s] \in Pairs /\ dest[s] \in Nodes /\ pair[s] \in pend[s]
        /\ Listed(p)' = IF p = pair[s] THEN Listed(p) \cup {dest[s]} ELSE Listed(p)
    BY <1>1, <1>16, PlainWrite
  <2>2. /\ pend'[s] = pend[s] \ {pair[s]} /\ UNCHANGED <<currencies, todo, plan, dest>>
        /\ pc[s] = "write"
    BY <1>16 DEF WriteStreaming, TypeOK
  <2>3. ASSUME NEW n \in Nodes
        PROVE  n \in Listed(p)' \/ Promised(s, p, n)' <=> n \in Listed(p) \/ Promised(s, p, n)
    <3>1. Promised(s, p, n)' <=> Promised(s, p, n) /\ ~(n = dest[s] /\ p = pair[s])
      BY <2>2 DEF Promised
    <3>2. Promised(s, pair[s], dest[s])
      BY <2>1 DEF Promised
    <3>3. QED
      BY <2>1, <3>1, <3>2
  <2>4. Listed(p) \subseteq Nodes /\ Listed(p)' \subseteq Nodes
    BY <1>5, <2>1 DEF Knowers
  <2>5. Assigned(p)' = Assigned(p)
    BY <1>3, <1>4, <2>3, <2>4
  <2>6. Waiting(p) => Waiting(p)'
    BY <1>3, <1>4, <2>2
  <2>7. QED
    BY <2>2, <2>5, <2>6, CoverKept
<1>17. CASE LookupChannel(s)
  <2>1. UNCHANGED <<plan, dest>>
    BY <1>1, <1>17, ChannelFound
  <2>2. QED
    BY <1>8, <1>17, <2>1 DEF LookupChannel
<1>18. CASE Send(s)
  <2>1. dest[s] \in Nodes /\ NextNode(s) /\ UNCHANGED <<storeVars, todo, pend>> /\ pend[s] = {} /\ pc[s] = "send"
    BY <1>18, RequestSent DEF Send
  <2>2. /\ dest'[s] = None
        /\ \A n \in Nodes : plan'[s][n] = IF n = dest[s] THEN {} ELSE plan[s][n]
    BY <2>1, PlanAfterNode
  <2>3. \A n \in Nodes : Promised(s, p, n)' <=> Promised(s, p, n)
    BY <2>1, <2>2 DEF Promised
  <2>4. QED
    BY <1>7, <2>1, <2>3
<1>19. QED
  BY <1>9, <1>10, <1>11, <1>12, <1>13, <1>14, <1>15, <1>16, <1>17, <1>18 DEF Step, Proceed

-----------------------------------------------------------------------------
(* What a node has been told.                                              *)

\* A handler has stored the node at the end of stream t for pair p, and has yet to tell it.
Stored(t, p) == \E s \in Streams : dest[s] = NodeOf[t] /\ p \in plan[s][NodeOf[t]] \ pend[s]

\* A stream's node is listed for what it was told, and its first request tells it all
\* it is listed for.
ToldRight(t) ==
  /\ requests[t] = 0 => told[t] = {}
  /\ pc[t] = "idle" => requests[t] = 0
  /\ t \in sender =>
       /\ \A p \in told[t] : NodeOf[t] \in Listed(p)
       /\ requests[t] < 2 =>
            \A p \in Pairs : NodeOf[t] \in Listed(p) => p \in told[t] \/ Stored(t, p)

ToldInv == requests \in [Streams -> 0..2] /\ \A t \in Streams : ToldRight(t)

\* Only the handler whose turn it is can be storing nodes.
LEMMA OneStores ==
  HandlersConsistent =>
    \A s \in Streams : Alone(s) =>
      \A t \in Streams : \A p \in Pairs :
        Stored(t, p) <=> dest[s] = NodeOf[t] /\ p \in plan[s][NodeOf[t]] \ pend[s]
<1> SUFFICES ASSUME HandlersConsistent, NEW s \in Streams, Alone(s), NEW t \in Streams, NEW p \in Pairs
             PROVE  Stored(t, p) <=> dest[s] = NodeOf[t] /\ p \in plan[s][NodeOf[t]] \ pend[s]
  OBVIOUS
<1>1. \A r \in Streams \ {s} : dest[r] = None
  BY DEF Alone, HandlersConsistent, Resting
<1>2. NodeOf[t] # None
  OBVIOUS
<1>3. QED
  BY <1>1, <1>2 DEF Stored

LEMMA OneStoresNext ==
  HandlersConsistent' =>
    (\A s \in Streams : Alone(s) =>
      \A t \in Streams : \A p \in Pairs :
        Stored(t, p) <=> dest[s] = NodeOf[t] /\ p \in plan[s][NodeOf[t]] \ pend[s])'
BY OneStores, PTL

\* A node that has opened a stream and is not on record yet is in no list.
LEMMA NotListedYet ==
  ASSUME TypeOK, ControlInv, ListsInv, NEW s \in Streams, TakesTurn(s),
         pc[s] \in {"idle", "known"}, NEW p \in Pairs
  PROVE  NodeOf[s] \notin Listed(p)
<1> SUFFICES ASSUME NodeOf[s] \in Listed(p)
             PROVE  FALSE
  OBVIOUS
<1>1. currencies[NodeOf[s]] # {}
  BY DEF ListsInv, Knowers
<1>2. PICK t \in Streams : NodeOf[t] = NodeOf[s] /\ Serving(t)
  BY <1>1 DEF ListsInv
<1>3. InUse(t) /\ pc[t] # "known" /\ pc[t] # "idle"
  BY <1>2 DEF Serving, ControlInv, InUse
<1>4. CASE pc[s] = "idle"
  BY <1>2, <1>3, <1>4 DEF TakesTurn, InUse
<1>5. CASE pc[s] = "known"
  BY <1>2, <1>3, <1>5 DEF ControlInv, InUse
<1>6. QED
  BY <1>4, <1>5

\* A stream that is not sent anything, and whose node leaves no list.
LEMMA ToldKept ==
  ASSUME NEW t \in Streams, ToldRight(t), requests'[t] = requests[t], told'[t] = told[t],
         told[t] \subseteq Pairs,
         t \in sender' => t \in sender, pc'[t] = "idle" => pc[t] = "idle",
         t \in sender => \A p \in Pairs : NodeOf[t] \in Listed(p) => NodeOf[t] \in Listed(p)',
         t \in sender => \A p \in Pairs : NodeOf[t] \in Listed(p)' => NodeOf[t] \in Listed(p) \/ Stored(t, p)',
         \A p \in Pairs : Stored(t, p) => Stored(t, p)'
  PROVE  ToldRight(t)'
BY DEF ToldRight

LEMMA ToldStep ==
  ASSUME TypeOK, HandlersConsistent, TypeOK', HandlersConsistent',
         ControlInv, ListsInv, PlansInv, ToldInv,
         NEW s \in Streams, TakesTurn(s), Step(s), Counted(s)
  PROVE  ToldInv'
<1> USE DEF At, Goto, Resume
<1>1. Alone(s) /\ Alone(s)' /\ \A t \in Streams \ {s} : pc'[t] = pc[t]
  <2>1. Alone(s)
    BY DEF TakesTurn, Alone
  <2>2. \A t \in Streams \ {s} : pc'[t] = pc[t]
    BY OwnLocals
  <2>3. QED
    BY <2>1, <2>2 DEF Alone
<1>2. \A t \in Streams : \A p \in Pairs :
        Stored(t, p) <=> dest[s] = NodeOf[t] /\ p \in plan[s][NodeOf[t]] \ pend[s]
  BY <1>1, OneStores
<1>3. \A t \in Streams : \A p \in Pairs :
        Stored(t, p)' <=> dest'[s] = NodeOf[t] /\ p \in plan'[s][NodeOf[t]] \ pend'[s]
  BY <1>1, OneStoresNext
<1>4. PlanIsGood(s)
  BY DEF PlansInv
<1>5. pc[s] # "send" => requests' = requests
  BY DEF Counted, Sends
<1>6. \A t \in Streams : ToldRight(t) /\ told[t] \subseteq Pairs /\ NodeOf[t] # None
  BY DEF ToldInv, TypeOK
\* Steps that neither write a list nor send a request.
<1>7. ASSUME UNCHANGED <<streaming, told>>, \A t \in Streams : t \in sender' => t \in sender,
             pc[s] # "send", pc'[s] # "idle",
             \A t \in Streams : \A p \in Pairs : Stored(t, p) => Stored(t, p)'
      PROVE  ToldInv'
  <2>1. requests' = requests
    BY <1>5, <1>7
  <2>2. \A p \in Pairs : Listed(p)' = Listed(p)
    BY <1>7 DEF Listed
  <2>3. ASSUME NEW t \in Streams
        PROVE  ToldRight(t)'
    <3>1. pc'[t] = "idle" => pc[t] = "idle"
      BY <1>1, <1>7
    <3>2. QED
      BY <1>6, <1>7, <2>1, <2>2, <3>1, ToldKept
  <2>4. QED
    BY <2>1, <2>3 DEF ToldInv
<1>8. ASSUME dest[s] = None
      PROVE  \A t \in Streams : \A p \in Pairs : Stored(t, p) => Stored(t, p)'
  BY <1>2, <1>6, <1>8
<1>9. CASE Connect(s)
  <2>1. pc[s] = "idle" /\ pc'[s] = "open" /\ sender' = sender \cup {s}
        /\ UNCHANGED <<streaming, told, plan, dest, pend>>
    BY <1>9 DEF Connect, storeVars, planVars, sendVars, TypeOK
  <2>2. requests' = requests /\ \A p \in Pairs : Listed(p)' = Listed(p)
    BY <1>5, <2>1 DEF Listed
  <2>3. \A t \in Streams : \A p \in Pairs : Stored(t, p) => Stored(t, p)'
    BY <1>2, <1>3, <2>1
  <2>4. ASSUME NEW t \in Streams \ {s}
        PROVE  ToldRight(t)'
    <3>1. (t \in sender' => t \in sender) /\ pc'[t] = pc[t]
      BY <1>1, <2>1
    <3>2. QED
      BY <1>6, <2>1, <2>2, <2>3, <3>1, ToldKept
  <2>5. ToldRight(s)'
    <3>1. requests[s] = 0 /\ told[s] = {}
      BY <1>6, <2>1 DEF ToldRight
    <3>2. \A p \in Pairs : NodeOf[s] \notin Listed(p)
      BY <2>1, NotListedYet
    <3>3. QED
      BY <2>1, <2>2, <3>1, <3>2 DEF ToldRight
  <2>6. QED
    BY <2>2, <2>4, <2>5 DEF ToldInv
<1>10. CASE Receive(s) \/ DeleteChannels(s)
  <2>1. UNCHANGED <<streaming, told, sender, plan, dest, pend>> /\ pc[s] # "send" /\ pc'[s] # "idle"
    BY <1>10 DEF Receive, DeleteChannels, storeVars, planVars, sendVars, TypeOK
  <2>2. QED
    BY <1>2, <1>3, <1>7, <2>1
<1>11. CASE ReceiveOther(s)
  <2>1. UNCHANGED <<streaming, told, sender, plan, dest, pend, pc>> /\ pc[s] = "ready"
    BY <1>11, LaterMessage DEF ReceiveOther, vars, storeVars, connVars, planVars, sendVars
  <2>2. QED
    BY <1>2, <1>3, <1>7, <2>1
<1>12. CASE CancelSender(s)
  <2>1. /\ pc[s] \in {"open", "ready"} /\ pc'[s] \in {"done", "unstore"}
        /\ sender' = sender \ {s} /\ told' = [told EXCEPT ![s] = {}]
        /\ UNCHANGED <<streaming, plan, dest, pend>>
    BY <1>12, StreamEnds DEF storeVars, planVars, sendVars, TypeOK
  <2>2. requests' = requests /\ \A p \in Pairs : Listed(p)' = Listed(p)
    BY <1>5, <2>1 DEF Listed
  <2>3. \A t \in Streams : \A p \in Pairs : Stored(t, p) => Stored(t, p)'
    BY <1>2, <1>3, <2>1
  <2>4. ASSUME NEW t \in Streams \ {s}
        PROVE  ToldRight(t)'
    <3>1. (t \in sender' => t \in sender) /\ pc'[t] = pc[t] /\ told'[t] = told[t]
      BY <1>1, <2>1 DEF TypeOK
    <3>2. QED
      BY <1>6, <2>2, <2>3, <3>1, ToldKept
  <2>5. ToldRight(s)'
    BY <2>1, <2>2 DEF ToldRight, TypeOK
  <2>6. QED
    BY <2>2, <2>4, <2>5 DEF ToldInv
\* The node is in no list before it is put on record ...
<1>13. CASE SetNodeCurrencies(s)
  <2>1. pc[s] = "known" /\ Pairs \ said[s] \in SUBSET Pairs /\ Relist(s, said[s], Pairs \ said[s], "snapshot")
    BY <1>13 DEF SetNodeCurrencies
  <2>2. /\ \A p \in Pairs : Listed(p)' = IF p \in Pairs \ said[s] THEN Listed(p) \ {NodeOf[s]} ELSE Listed(p)
        /\ pc' = [pc EXCEPT ![s] = "snapshot"]
        /\ UNCHANGED <<connVars, planVars, dest, pend>>
    BY <1>1, <2>1, PlainRelist
  <2>3. \A p \in Pairs : Listed(p)' = Listed(p)
    BY <2>1, <2>2, NotListedYet
  <2>4. requests' = requests /\ UNCHANGED <<told, sender>> /\ pc'[s] = "snapshot"
    BY <1>5, <2>1, <2>2 DEF connVars, TypeOK
  <2>5. \A t \in Streams : \A p \in Pairs : Stored(t, p) => Stored(t, p)'
    BY <1>2, <1>3, <2>2 DEF planVars
  <2>6. ASSUME NEW t \in Streams
        PROVE  ToldRight(t)'
    <3>1. pc'[t] = "idle" => pc[t] = "idle"
      BY <1>1, <2>4
    <3>2. QED
      BY <1>6, <2>3, <2>4, <2>5, <3>1, ToldKept
  <2>7. QED
    BY <2>4, <2>6 DEF ToldInv
\* ... and has no stream to be sent anything on when it is forgotten.
<1>14. CASE DeleteNode(s)
  <2>1. pc[s] = "forget" /\ Relist(s, {}, Pairs, "snapshot")
    BY <1>14 DEF DeleteNode
  <2>2. /\ \A p \in Pairs : Listed(p)' = Listed(p) \ {NodeOf[s]}
        /\ pc' = [pc EXCEPT ![s] = "snapshot"]
        /\ UNCHANGED <<connVars, planVars, dest, pend>>
    BY <1>1, <2>1, PlainRelist
  <2>3. ASSUME NEW t \in sender
        PROVE  NodeOf[t] # NodeOf[s]
    <3>1. t \in Streams /\ InUse(t) /\ InUse(s) /\ t # s
      BY <2>1 DEF ControlInv, InUse, TypeOK
    <3>2. QED
      BY <3>1 DEF ControlInv
  <2>4. requests' = requests /\ UNCHANGED <<told, sender>> /\ pc'[s] = "snapshot"
    BY <1>5, <2>1, <2>2 DEF connVars, TypeOK
  <2>5. \A t \in Streams : \A p \in Pairs : Stored(t, p) => Stored(t, p)'
    BY <1>2, <1>3, <2>2 DEF planVars
  <2>6. ASSUME NEW t \in Streams
        PROVE  ToldRight(t)'
    <3>1. pc'[t] = "idle" => pc[t] = "idle"
      BY <1>1, <2>4
    <3>2. t \in sender => \A p \in Pairs : NodeOf[t] \in Listed(p)' <=> NodeOf[t] \in Listed(p)
      BY <2>2, <2>3
    <3>3. QED
      BY <1>6, <2>4, <2>5, <3>1, <3>2, ToldKept
  <2>7. QED
    BY <2>4, <2>6 DEF ToldInv
<1>15. CASE Snapshot(s) \/ Count(s) \/ GetRandomNodesForCurrency(s) \/ Planned(s) \/ Assign(s)
  <2>1. UNCHANGED <<streaming, told, sender>> /\ pc[s] \in {"snapshot", "count", "lottery", "assign"}
    BY <1>15 DEF Snapshot, Count, GetRandomNodesForCurrency, Planned, Assign, storeVars, connVars
  <2>2. pc'[s] # "idle"
    BY <1>15 DEF Snapshot, Count, GetRandomNodesForCurrency, Planned, Assign, TypeOK
  <2>3. dest[s] = None
    BY <2>1 DEF HandlersConsistent
  <2>4. QED
    BY <1>7, <1>8, <2>1, <2>2, <2>3
<1>16. CASE ReadStreaming(s)
  <2>1. UNCHANGED <<streaming, told, sender, plan, dest, pend>> /\ pc[s] = "read" /\ pc'[s] = "write"
    BY <1>16 DEF ReadStreaming, storeVars, connVars, TypeOK
  <2>2. QED
    BY <1>2, <1>3, <1>7, <2>1
<1>17. CASE LookupChannel(s)
  <2>1. UNCHANGED <<plan, dest>> /\ pc'[s] = "send"
    <3>1. UNCHANGED <<plan, dest>> /\ pc' = [pc EXCEPT ![s] = "send"]
      BY <1>1, <1>17, ChannelFound
    <3>2. QED
      BY <3>1 DEF TypeOK
  <2>2. UNCHANGED <<streaming, told, sender, pend>> /\ pc[s] = "lookup"
    BY <1>17 DEF LookupChannel, storeVars, connVars
  <2>3. QED
    BY <1>2, <1>3, <1>7, <2>1, <2>2
<1>18. CASE WriteStreaming(s)
  <2>1. /\ pair[s] \in Pairs /\ dest[s] \in Nodes /\ pair[s] \in pend[s]
        /\ \A p \in Pairs : Listed(p)' = IF p = pair[s] THEN Listed(p) \cup {dest[s]} ELSE Listed(p)
    BY <1>1, <1>18, PlainWrite
  <2>2. /\ pc[s] = "write" /\ pc'[s] \in {"read", "lookup"}
        /\ pend'[s] = pend[s] \ {pair[s]} /\ UNCHANGED <<told, sender, plan, dest>>
    BY <1>18 DEF WriteStreaming, connVars, TypeOK
  <2>3. pend[s] \subseteq plan[s][dest[s]]
    BY <1>4, <2>1 DEF PlanIsGood
  <2>4. \A t \in Streams : \A p \in Pairs : Stored(t, p) => Stored(t, p)'
    BY <1>2, <1>3, <2>2
  <2>5. ASSUME NEW t \in Streams
        PROVE  ToldRight(t)'
    <3>1. pc'[t] = "idle" => pc[t] = "idle"
      BY <1>1, <2>2
    <3>2. \A p \in Pairs : NodeOf[t] \in Listed(p) => NodeOf[t] \in Listed(p)'
      BY <2>1
    <3>3. ASSUME NEW p \in Pairs, NodeOf[t] \in Listed(p)', NodeOf[t] \notin Listed(p)
          PROVE  Stored(t, p)'
      <4>1. p = pair[s] /\ NodeOf[t] = dest[s]
        BY <2>1, <3>3
      <4>2. QED
        BY <1>3, <2>1, <2>2, <2>3, <4>1
    <3>4. requests'[t] = requests[t]
      BY <1>5, <2>2
    <3>5. QED
      BY <1>6, <2>2, <2>4, <3>1, <3>2, <3>3, <3>4, ToldKept
  <2>6. QED
    BY <1>5, <2>2, <2>5 DEF ToldInv
\* A node's first request lists all it was stored for.
<1>19. CASE Send(s)
  <2>1. PICK t \in sender, n \in Nodes :
          /\ t = target[s] /\ n = dest[s] /\ NodeOf[t] = n
          /\ pend[s] = {} /\ target'[s] = None /\ pc[s] = "send"
          /\ told' = [told EXCEPT ![t] = plan[s][n]]
          /\ NextNode(s)
          /\ UNCHANGED <<streaming, sender>>
    BY <1>19, RequestSent DEF Send, storeVars
  <2>2. t \in Streams /\ pc[t] # "idle" /\ pc'[s] = "assign" /\ dest'[s] = None
    BY <2>1, PlanAfterNode DEF ControlInv, TypeOK
  <2>3. \A p \in Pairs : Listed(p)' = Listed(p)
    BY <2>1 DEF Listed
  <2>4. requests' = IF requests[t] < 2 THEN [requests EXCEPT ![t] = @ + 1] ELSE requests
    BY <2>1 DEF Counted, Sends
  <2>5. requests \in [Streams -> 0..2] /\ requests' \in [Streams -> 0..2]
        /\ requests'[t] = (IF requests[t] < 2 THEN requests[t] + 1 ELSE requests[t])
        /\ \A r \in Streams \ {t} : requests'[r] = requests[r] /\ told'[r] = told[r]
    <3>1. requests \in [Streams -> 0..2]
      BY DEF ToldInv
    <3>2. requests[t] \in 0..2 /\ (requests[t] < 2 => requests[t] + 1 \in 0..2)
      BY <2>2, <3>1
    <3>3. requests' \in [Streams -> 0..2]
          /\ requests'[t] = (IF requests[t] < 2 THEN requests[t] + 1 ELSE requests[t])
          /\ \A r \in Streams \ {t} : requests'[r] = requests[r]
      BY <2>2, <2>4, <3>1, <3>2
    <3>4. \A r \in Streams \ {t} : told'[r] = told[r]
      BY <2>1, <2>2 DEF TypeOK
    <3>5. QED
      BY <3>1, <3>3, <3>4
  <2>6. plan[s][n] \subseteq Pairs /\ told'[t] = plan[s][n]
    BY <2>1, <2>2 DEF TypeOK
  <2>7. \A p \in plan[s][n] : n \in Listed(p)
    BY <1>4, <2>1 DEF PlanIsGood
  <2>8. ToldRight(t)'
    <3>1. requests'[t] # 0 /\ pc'[t] # "idle"
      BY <1>1, <2>2, <2>5
    <3>2. \A p \in told'[t] : NodeOf[t] \in Listed(p)'
      BY <2>1, <2>3, <2>6, <2>7
    <3>3. ASSUME requests'[t] < 2, NEW p \in Pairs, NodeOf[t] \in Listed(p)'
          PROVE  p \in told'[t]
      <4>1. requests[t] = 0
        BY <2>2, <2>5, <3>3
      <4>2. told[t] = {} /\ NodeOf[t] \in Listed(p)
        BY <1>6, <2>2, <2>3, <3>3, <4>1 DEF ToldRight
      <4>3. Stored(t, p)
        BY <1>6, <2>2, <4>1, <4>2 DEF ToldRight
      <4>4. QED
        BY <1>2, <2>1, <2>2, <2>6, <4>3
    <3>4. QED
      BY <3>1, <3>2, <3>3 DEF ToldRight
  <2>9. ASSUME NEW r \in Streams \ {t}
        PROVE  ToldRight(r)'
    <3>1. CASE r \notin sender
      BY <1>1, <1>6, <2>1, <2>2, <2>5, <3>1 DEF ToldRight
    <3>2. CASE r \in sender
      <4>1. NodeOf[r] # n
        BY <2>1, <2>2, <3>2 DEF ControlInv, InUse
      <4>2. \A p \in Pairs : ~Stored(r, p)
        BY <1>2, <2>1, <4>1
      <4>3. pc'[r] = "idle" => pc[r] = "idle"
        BY <1>1, <2>2
      <4>4. QED
        BY <1>6, <2>1, <2>3, <2>5, <4>2, <4>3, ToldKept
    <3>3. QED
      BY <3>1, <3>2
  <2>10. QED
    BY <2>5, <2>8, <2>9 DEF ToldInv
<1>20. QED
  BY <1>9, <1>10, <1>11, <1>12, <1>13, <1>14, <1>15, <1>16, <1>17, <1>18, <1>19
     DEF Step, Proceed, Remote

-----------------------------------------------------------------------------
(* The invariant of handlers that take turns.                              *)

TurnInv == ControlInv /\ ListsInv /\ PlansInv /\ CoverInv /\ ToldInv

NotedInv == TypeOK /\ HandlersConsistent /\ (discipline = "turns" => TurnInv)

LEMMA NotedInit == DisciplineInit => NotedInv
<1> SUFFICES ASSUME Init, requests = [s \in Streams |-> 0]
             PROVE  TypeOK /\ HandlersConsistent /\ TurnInv
  BY DEF DisciplineInit, NotedInv
<1>1. TypeOK /\ HandlersConsistent
  BY TypeInit, ConsistentInit
<1>2. ControlInv
  BY DEF Init, ControlInv, InUse
<1>3. ListsInv
  BY DEF Init, ListsInv, Listed, Unrepeated
<1>4. \A s \in Streams : \A p \in Pairs : \A n \in Nodes : ~Promised(s, p, n)
  BY DEF Init, Promised, NoPlan
<1>5. PlansInv
  BY <1>4 DEF Init, PlansInv, PlanIsGood
<1>6. ASSUME NEW p \in Pairs
      PROVE  Assigned(p) = {} /\ Knowers(p) = {}
  BY <1>4 DEF Init, Assigned, Listed, Knowers
<1>7. CoverInv
  <2>1. Cardinality({}) = 0
    BY FS_EmptySet
  <2>2. QED
    BY <1>6, <2>1 DEF CoverInv, Limited
<1>8. ToldInv
  BY DEF Init, ToldInv, ToldRight
<1>9. QED
  BY <1>1, <1>2, <1>3, <1>5, <1>7, <1>8 DEF TurnInv

\* Either discipline allows steps of the handlers only.
LEMMA DisciplineIsNext ==
  ASSUME [DisciplineNext]_<<vars, discipline, requests>>
  PROVE  [Next]_vars /\ discipline' = discipline
<1>1. \A s \in Streams : StayStep(s) => Step(s)
  BY DEF StayStep, Step, Remote
<1>2. QED
  BY <1>1, DisciplineAssumption DEF DisciplineNext, Next, DisciplineAssumption

LEMMA NotedStep == NotedInv /\ [DisciplineNext]_<<vars, discipline, requests>> => NotedInv'
<1> SUFFICES ASSUME NotedInv, [DisciplineNext]_<<vars, discipline, requests>>
             PROVE  NotedInv'
  OBVIOUS
<1>1. [Next]_vars /\ discipline' = discipline /\ TypeOK /\ HandlersConsistent
  BY DisciplineIsNext DEF NotedInv
<1>2. TypeOK' /\ HandlersConsistent'
  BY <1>1, TypeStep, ConsistentStep
<1>3. ASSUME discipline = "turns"
      PROVE  TurnInv'
  <2>1. ControlInv /\ ListsInv /\ PlansInv /\ CoverInv /\ ToldInv
    BY <1>3 DEF NotedInv, TurnInv
  <2>2. CASE UNCHANGED <<vars, discipline, requests>>
    <3>1. UNCHANGED <<vars, requests>>
      BY <2>2
    <3> USE DEF vars, storeVars, connVars, planVars, sendVars
    <3>2. ControlInv'
      BY <2>1, <3>1 DEF ControlInv, InUse
    <3>3. ListsInv'
      BY <2>1, <3>1 DEF ListsInv, Serving, Listed, Knowers
    <3>4. PlansInv'
      BY <2>1, <3>1 DEF PlansInv, PlanIsGood, Promised, Listed, Knowers
    <3>5. CoverInv'
      BY <2>1, <3>1 DEF CoverInv, Assigned, Waiting, Promised, Listed, Knowers
    <3>6. ToldInv'
      BY <2>1, <3>1 DEF ToldInv, ToldRight, Stored, Listed
    <3>7. QED
      BY <3>2, <3>3, <3>4, <3>5, <3>6 DEF TurnInv
  <2>3. ASSUME NEW s \in TurnStreams, TakesTurn(s), Step(s), Counted(s)
        PROVE  TurnInv'
    <3>1. s \in Streams
      BY DisciplineAssumption DEF DisciplineAssumption
    <3>2. ControlInv'
      BY <1>1, <2>1, <2>3, <3>1, ControlStep
    <3>3. ListsInv'
      BY <1>1, <2>1, <2>3, <3>1, ListsStep
    <3>4. PlansInv'
      BY <1>1, <1>2, <2>1, <2>3, <3>1, PlansStep
    <3>5. CoverInv'
      BY <1>1, <1>2, <2>1, <2>3, <3>1, <3>3, <3>4, CoverStep
    <3>6. ToldInv'
      BY <1>1, <1>2, <2>1, <2>3, <3>1, ToldStep
    <3>7. QED
      BY <3>2, <3>3, <3>4, <3>5, <3>6 DEF TurnInv
  <2>4. QED
    BY <1>3, <2>2, <2>3 DEF DisciplineNext
<1>4. QED
  BY <1>1, <1>2, <1>3 DEF NotedInv

LEMMA NotedAlways == DisciplineSpec => []NotedInv
BY NotedInit, NotedStep, PTL DEF DisciplineSpec

\* Between handlers nobody has been drawn, nothing is being stored and no pair waits.
LEMMA NothingPending ==
  ASSUME NotedInv, discipline = "turns", Quiet
  PROVE  /\ \A p \in Pairs : Assigned(p) = Listed(p) /\ ~Waiting(p)
         /\ \A t \in Streams : \A p \in Pairs : ~Stored(t, p)
<1>1. ASSUME NEW s \in Streams
      PROVE  /\ pc[s] # "snapshot" /\ todo[s] = {} /\ dest[s] = None
             /\ \A p \in Pairs : \A n \in Nodes : ~Promised(s, p, n)
  <2>1. pc[s] \in Resting /\ PlanIsGood(s)
    BY DEF Quiet, NotedInv, TurnInv, PlansInv
  <2>2. plan[s] = NoPlan /\ todo[s] = {} /\ dest[s] = None
    BY <2>1 DEF PlanIsGood, NotedInv, HandlersConsistent, Resting, Refreshing
  <2>3. QED
    BY <2>1, <2>2 DEF Resting, Promised, NoPlan
<1>2. \A t \in Streams : NodeOf[t] # None
  OBVIOUS
<1>3. QED
  BY <1>1, <1>2 DEF Assigned, Waiting, Stored

\* While handlers take turns, none of them panics: removeString never slices past the
\* end of a list, and no channel is sent on or closed after SetWithUUID closed it.
THEOREM TurnsBringNothingDown == DisciplineSpec => []TurnsDoNotPanic
<1>1. NotedInv => TurnsDoNotPanic
  BY DEF NotedInv, TurnInv, ControlInv, TurnsDoNotPanic
<1>2. QED
  BY <1>1, NotedAlways, PTL

\* Between handlers that take turns refreshNodePriceStreams has left every pair with
\* exactly as many nodes as allowed and available, each listed once and each one that
\* knows the pair.
THEOREM TurnsCoverEveryPair == DisciplineSpec => []TurnsCover
<1>1. ASSUME NotedInv
      PROVE  TurnsCover
  <2> SUFFICES ASSUME discipline = "turns", Quiet, NEW p \in Pairs
               PROVE  LET known == Cardinality(Knowers(p))
                      IN  /\ Listed(p) \subseteq Knowers(p)
                          /\ Cardinality(Listed(p)) = Len(streaming[p])
                          /\ Len(streaming[p]) = IF known < MaxPriceStreams THEN known ELSE MaxPriceStreams
    BY DEF TurnsCover, ExactCover
  <2>1. TypeOK /\ ListsInv /\ PlansInv /\ CoverInv
    BY <1>1 DEF NotedInv, TurnInv
  <2>2. Assigned(p) = Listed(p) /\ ~Waiting(p)
    BY <1>1, NothingPending
  <2>3. Cardinality(Assigned(p)) = Limited(Cardinality(Knowers(p)))
    BY <2>1, <2>2 DEF CoverInv
  <2>4. Listed(p) \subseteq Knowers(p) /\ Cardinality(Listed(p)) = Len(streaming[p])
    BY <2>1, <2>2, AssignedKnow
  <2>5. QED
    BY <2>2, <2>3, <2>4 DEF Limited
<1>2. QED
  BY <1>1, NotedAlways, PTL

\* Handlers that take turns keep the limit at every moment, in the middle of a refresh
\* too: MaxPriceStreams is checked against a list that nobody else is adding to.
THEOREM TurnsKeepTheLimit == DisciplineSpec => [](discipline = "turns" => AtMostMax)
<1>1. ASSUME NotedInv, discipline = "turns"
      PROVE  AtMostMax
  <2>1. TypeOK /\ ListsInv /\ PlansInv /\ CoverInv
    BY <1>1 DEF NotedInv, TurnInv
  <2>2. ASSUME NEW p \in Pairs
        PROVE  Len(streaming[p]) <= MaxPriceStreams
    <3>1. /\ Cardinality(Listed(p)) = Len(streaming[p])
          /\ Cardinality(Listed(p)) \in Nat /\ Cardinality(Assigned(p)) \in Nat
          /\ Cardinality(Listed(p)) <= Cardinality(Assigned(p))
      BY <2>1, AssignedKnow
    <3>2. Cardinality(Assigned(p)) <= MaxPriceStreams
      BY <2>1 DEF CoverInv
    <3>3. QED
      BY <3>1, <3>2
  <2>3. QED
    BY <2>2 DEF AtMostMax
<1>2. NotedInv => (discipline = "turns" => AtMostMax)
  BY <1>1
<1>3. QED
  BY <1>2, NotedAlways, PTL

\* Between handlers that take turns a node streams only what it is listed for, and all
\* of it until a second request replaces the first (sendToNodesFromController).
THEOREM ToldWhatTheyAreListedFor == DisciplineSpec => []ListedAsTold
<1>1. ASSUME NotedInv
      PROVE  ListedAsTold
  <2> SUFFICES ASSUME discipline = "turns", Quiet, NEW s \in sender
               PROVE  LET listed == { p \in Pairs : ContainsString(streaming[p], NodeOf[s]) }
                      IN  told[s] \subseteq listed /\ (requests[s] < 2 => told[s] = listed)
    BY DEF ListedAsTold
  <2>1. TypeOK /\ ToldInv
    BY <1>1 DEF NotedInv, TurnInv
  <2>2. s \in Streams /\ told[s] \subseteq Pairs
    BY <2>1 DEF TypeOK
  <2>3. \A p \in Pairs : ~Stored(s, p)
    BY <1>1, <2>2, NothingPending
  <2>4. ASSUME NEW p \in Pairs
        PROVE  ContainsString(streaming[p], NodeOf[s]) <=> NodeOf[s] \in Listed(p)
    <3>1. streaming[p] \in Seq(Nodes)
      BY <2>1 DEF TypeOK
    <3>2. DOMAIN streaming[p] = 1..Len(streaming[p])
      BY <3>1
    <3>3. QED
      BY <3>2 DEF ContainsString, Listed
  <2>5. ToldRight(s)
    BY <2>1, <2>2 DEF ToldInv
  <2>6. QED
    BY <2>2, <2>3, <2>4, <2>5 DEF ToldRight
<1>2. QED
  BY <1>1, NotedAlways, PTL

-----------------------------------------------------------------------------
(* The assignment that StreamAssignment promises.                          *)

\* A step under the other discipline, or one that leaves the store alone, is none of
\* the assignment.
LEMMA NoAssignmentStep ==
  ASSUME discipline' = discipline, discipline # "turns" \/ UNCHANGED storeVars
  PROVE  UNCHANGED Assignment!vars
<1>1. CASE discipline # "turns"
  BY <1>1 DEF Assignment!vars, KnownInTurns, AssignedInTurns
<1>2. CASE UNCHANGED storeVars
  BY <1>2 DEF Assignment!vars, KnownInTurns, AssignedInTurns, storeVars, Listed
<1>3. QED
  BY <1>1, <1>2

\* A record that is replaced is a node that comes, changes its mind or leaves.
LEMMA RelistIsSetKnown ==
  ASSUME NotedInv, discipline = "turns", discipline' = discipline, NEW s \in Streams, Alone(s),
         pc[s] # "write", NEW pairs \in SUBSET Pairs, Relist(s, pairs, Pairs \ pairs, "snapshot")
  PROVE  Assignment!Next
<1>1. TypeOK /\ ControlInv /\ ListsInv
  BY DEF NotedInv, TurnInv
<1>2. /\ currencies' = [currencies EXCEPT ![NodeOf[s]] = pairs]
      /\ \A p \in Pairs : Listed(p)' = IF p \in Pairs \ pairs THEN Listed(p) \ {NodeOf[s]} ELSE Listed(p)
  BY <1>1, PlainRelist
<1>3. NodeOf[s] \in Nodes /\ currencies \in [Nodes -> SUBSET Pairs]
  BY <1>1 DEF TypeOK
<1>4. Assignment!SetKnown(NodeOf[s], pairs)
  <2>1. KnownInTurns' = [KnownInTurns EXCEPT ![NodeOf[s]] = pairs]
    BY <1>2, <1>3 DEF KnownInTurns
  <2>2. AssignedInTurns' = [p \in Pairs |-> IF p \in pairs THEN AssignedInTurns[p]
                                                         ELSE AssignedInTurns[p] \ {NodeOf[s]}]
    BY <1>2 DEF AssignedInTurns
  <2>3. QED
    BY <2>1, <2>2 DEF Assignment!SetKnown
<1>5. QED
  BY <1>3, <1>4 DEF Assignment!Next

\* A list that is stored is a node assigned.
LEMMA WriteIsAssign ==
  ASSUME NotedInv, discipline = "turns", discipline' = discipline, NEW s \in Streams, Alone(s),
         WriteStreaming(s)
  PROVE  Assignment!Next
<1>1. TypeOK /\ HandlersConsistent /\ ControlInv /\ ListsInv /\ PlansInv /\ CoverInv
  BY DEF NotedInv, TurnInv
<1>2. PICK p \in Pairs, n \in Nodes :
        /\ p = pair[s] /\ n = dest[s] /\ p \in pend[s] /\ n \in Knowers(p) \ Listed(p)
        /\ \A q \in Pairs : Listed(q)' = IF q = p THEN Listed(q) \cup {n} ELSE Listed(q)
  BY <1>1, PlainWrite
<1>3. currencies' = currencies
  BY DEF WriteStreaming
<1>4. Cardinality(Listed(p)) < MaxPriceStreams
  <2>1. n \in Assigned(p)
    BY <1>2 DEF Assigned, Promised
  <2>2. /\ Listed(p) \subseteq Assigned(p) /\ IsFiniteSet(Assigned(p))
        /\ Cardinality(Listed(p)) \in Nat /\ Cardinality(Assigned(p)) \in Nat
        /\ Cardinality(Listed(p)) <= Cardinality(Assigned(p))
    BY <1>1, AssignedKnow
  <2>3. Cardinality(Listed(p)) # Cardinality(Assigned(p))
    BY <1>2, <2>1, <2>2, FS_Subset
  <2>4. Cardinality(Assigned(p)) <= MaxPriceStreams
    BY <1>1 DEF CoverInv
  <2>5. QED
    BY <2>2, <2>3, <2>4
<1>5. Assignment!Assign(n, p)
  <2>1. AssignedInTurns' = [AssignedInTurns EXCEPT ![p] = @ \cup {n}]
    BY <1>2 DEF AssignedInTurns
  <2>2. KnownInTurns' = KnownInTurns
    BY <1>3 DEF KnownInTurns
  <2>3. p \in KnownInTurns[n] /\ AssignedInTurns[p] = Listed(p) /\ n \notin Listed(p)
    BY <1>2 DEF KnownInTurns, AssignedInTurns, Knowers
  <2>4. n \notin AssignedInTurns[p] /\ Assignment!Cardinality(AssignedInTurns[p]) < MaxPriceStreams
    <3>1. Assignment!Cardinality(Listed(p)) = Cardinality(Listed(p))
      BY DEF Assignment!Cardinality, Cardinality
    <3>2. QED
      BY <1>4, <2>3, <3>1, Zenon
  <2>5. QED
    BY <2>1, <2>2, <2>3, <2>4, Zenon DEF Assignment!Assign
<1>6. QED
  BY <1>5 DEF Assignment!Next

LEMMA AssignmentStep ==
  NotedInv /\ [DisciplineNext]_<<vars, discipline, requests>> => [Assignment!Next]_(Assignment!vars)
<1> SUFFICES ASSUME NotedInv, [DisciplineNext]_<<vars, discipline, requests>>
             PROVE  [Assignment!Next]_(Assignment!vars)
  OBVIOUS
<1>1. discipline' = discipline
  BY DisciplineIsNext
<1>2. CASE discipline # "turns"
  BY <1>1, <1>2, NoAssignmentStep
<1>3. CASE UNCHANGED <<vars, discipline, requests>>
  BY <1>1, <1>3, NoAssignmentStep DEF vars, storeVars
<1>4. ASSUME discipline = "turns", NEW s \in TurnStreams, TakesTurn(s), Step(s)
      PROVE  [Assignment!Next]_(Assignment!vars)
  <2>1. s \in Streams /\ Alone(s)
    BY <1>4, DisciplineAssumption DEF DisciplineAssumption, TakesTurn, Alone
  <2>2. CASE SetNodeCurrencies(s)
    <3>1. pc[s] # "write" /\ Relist(s, said[s], Pairs \ said[s], "snapshot") /\ said[s] \in SUBSET Pairs
      BY <2>1, <2>2 DEF SetNodeCurrencies, At, NotedInv, TypeOK
    <3>2. QED
      BY <1>1, <1>4, <2>1, <3>1, RelistIsSetKnown
  <2>3. CASE DeleteNode(s)
    <3>1. pc[s] # "write" /\ Relist(s, {}, Pairs, "snapshot") /\ Pairs = Pairs \ {}
      BY <2>3 DEF DeleteNode, At
    <3>2. Relist(s, {}, Pairs \ {}, "snapshot")
      BY <3>1
    <3>3. QED
      BY <1>1, <1>4, <2>1, <3>1, <3>2, RelistIsSetKnown
  <2>4. CASE WriteStreaming(s)
    BY <1>1, <1>4, <2>1, <2>4, WriteIsAssign
  <2>5. CASE Remote(s) \/ DeleteChannels(s) \/ Snapshot(s) \/ Count(s) \/ GetRandomNodesForCurrency(s)
             \/ Planned(s) \/ Assign(s) \/ ReadStreaming(s) \/ LookupChannel(s) \/ Send(s)
    <3>1. UNCHANGED storeVars
      BY <2>5 DEF Remote, Connect, Receive, ReceiveOther, CancelSender, DeleteChannels, Snapshot, Count,
                  GetRandomNodesForCurrency, Planned, Assign, ReadStreaming, LookupChannel, Send, Crash
    <3>2. QED
      BY <1>1, <3>1, NoAssignmentStep
  <2>6. QED
    BY <1>4, <2>2, <2>3, <2>4, <2>5 DEF Step, Proceed
<1>5. QED
  BY <1>2, <1>3, <1>4 DEF DisciplineNext

\* Handlers that take turns assign nodes to pairs as v2/README.md promises, as far as
\* what may happen goes: a node gets a pair only while it knows it and the pair is below
\* the limit, and loses it only by leaving or by no longer knowing it.
THEOREM TurnsImplementAssignment == DisciplineSpec => Assignment!Safe
<1>1. DisciplineInit => Assignment!Init
  BY DEF DisciplineInit, Init, Assignment!Init, KnownInTurns, AssignedInTurns, Listed
<1>2. QED
  BY <1>1, NotedAlways, AssignmentStep, PTL DEF DisciplineSpec, Assignment!Safe

\* However the handlers interleave, the loop of removeString does to any node of any list
\* what the closed form in the controller's model says (removeString, removeIndex).
THEOREM LoopAlwaysAgrees == Spec => []LoopAgrees
<1>1. TypeOK => LoopAgrees
  BY LoopIsClosedForm DEF TypeOK, LoopAgrees
<1>2. QED
  BY <1>1, TypeCorrect, PTL

=============================================================================
