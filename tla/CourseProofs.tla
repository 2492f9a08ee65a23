---------------------------- MODULE CourseProofs ----------------------------
(* Theorems about the two small programs that stand alone: the grader of lab  *)
(* 3, for any number of questions, statements and result sets, and the slide  *)
(* deck, for any number of slides and any addresses.                          *)
EXTENDS Grader, Deck, FiniteSetTheorems, TLAPS
-----------------------------------------------------------------------------
(* The grader.                                                                *)

(* Where a value stands in a list.                                            *)
At(s, x) == {i \in DOMAIN s : s[i] = x}

(* A list is as long as it has places.                                        *)
LEMMA Places ==
  ASSUME NEW S, NEW s \in Seq(S)
  PROVE  /\ Len(s) \in Nat /\ DOMAIN s = 1 .. Len(s)
         /\ IsFiniteSet(DOMAIN s) /\ Cardinality(DOMAIN s) = Len(s)
<1>1. Len(s) \in Nat /\ DOMAIN s = 1 .. Len(s)
  OBVIOUS
<1>2. /\ IsFiniteSet(1 .. Len(s))
      /\ Cardinality(1 .. Len(s)) = IF 1 > Len(s) THEN 0 ELSE Len(s) - 1 + 1
  BY <1>1, FS_Interval
<1> QED
  BY <1>1, <1>2

(* The elements of one list can be found in another, each at a place of its own. *)
Found(a, b) ==
  \E f \in [DOMAIN a -> DOMAIN b] : IsInjective(f) /\ \A i \in DOMAIN a : a[i] = b[f[i]]

(* Equal bags of two lists send the places of each value in one to its places *)
(* in the other, without sending two to the same.                             *)
LEMMA BagsMap ==
  ASSUME NEW S, NEW a \in Seq(S), NEW b \in Seq(S), ToBag(a) = ToBag(b)
  PROVE  Len(a) <= Len(b) /\ Found(a, b)
<1> DEFINE g(x) == CHOOSE h \in Bijection(At(a, x), At(b, x)) : TRUE
           f    == [i \in DOMAIN a |-> g(a[i])[i]]
<1>1. /\ Len(a) \in Nat /\ DOMAIN a = 1 .. Len(a) /\ Len(b) \in Nat /\ DOMAIN b = 1 .. Len(b)
      /\ IsFiniteSet(DOMAIN a) /\ IsFiniteSet(DOMAIN b)
      /\ Cardinality(DOMAIN a) = Len(a) /\ Cardinality(DOMAIN b) = Len(b)
  BY Places
<1>2. ASSUME NEW x PROVE IsFiniteSet(At(a, x)) /\ IsFiniteSet(At(b, x))
  BY <1>1, FS_Subset DEF At
<1>3. ASSUME NEW x \in Range(a) PROVE Cardinality(At(a, x)) = Cardinality(At(b, x))
  <2>1. /\ DOMAIN ToBag(a) = Range(a) /\ ToBag(a)[x] = Cardinality(At(a, x))
        /\ x \in Range(b) => ToBag(b)[x] = Cardinality(At(b, x))
        /\ DOMAIN ToBag(b) = Range(b)
    BY <1>3 DEF ToBag, At
  <2> QED
    BY <1>3, <2>1
<1>4. ASSUME NEW x \in Range(a) PROVE g(x) \in Bijection(At(a, x), At(b, x))
  BY <1>2, <1>3, FS_SameCardinalityBij DEF ExistsBijection
<1> HIDE DEF g
<1>5. ASSUME NEW i \in DOMAIN a
      PROVE  /\ a[i] \in Range(a) /\ i \in At(a, a[i])
             /\ f[i] = g(a[i])[i] /\ f[i] \in DOMAIN b /\ b[f[i]] = a[i]
  <2>1. a[i] \in Range(a) /\ i \in At(a, a[i])
    BY DEF Range, At
  <2>2. f[i] \in At(b, a[i]) /\ f[i] = g(a[i])[i]
    BY <1>4, <2>1 DEF Bijection, Injection
  <2> QED
    BY <2>1, <2>2 DEF At
<1>6. f \in [DOMAIN a -> DOMAIN b]
  BY <1>5
<1>7. ASSUME NEW i \in DOMAIN a, NEW j \in DOMAIN a, f[i] = f[j] PROVE i = j
  <2>1. a[i] = a[j]
    BY <1>5, <1>7
  <2>2. /\ i \in At(a, a[i]) /\ j \in At(a, a[i]) /\ g(a[i])[i] = g(a[i])[j]
        /\ g(a[i]) \in Bijection(At(a, a[i]), At(b, a[i]))
    BY <1>4, <1>5, <1>7, <2>1
  <2> QED
    BY <2>2 DEF Bijection, Injection, IsInjective
<1> HIDE DEF f
<1>8. f \in Injection(DOMAIN a, DOMAIN b)
  BY <1>6, <1>7 DEF Injection, IsInjective
<1>9. Len(a) <= Len(b)
  BY <1>1, <1>8, FS_Injection
<1> QED
  BY <1>5, <1>6, <1>8, <1>9 DEF Found, Injection

(* Equal as bags means that the elements can be paired off.                   *)
LEMMA BagsPair ==
  ASSUME NEW S, NEW a \in Seq(S), NEW b \in Seq(S)
  PROVE  ToBag(a) = ToBag(b) <=> Len(a) = Len(b) /\ Found(a, b)
<1>1. ASSUME ToBag(a) = ToBag(b) PROVE Len(a) = Len(b) /\ Found(a, b)
  <2>1. Len(a) <= Len(b) /\ Len(b) <= Len(a)
    BY <1>1, BagsMap
  <2> QED
    BY <1>1, <2>1, BagsMap
<1>2. ASSUME Len(a) = Len(b), NEW f \in [DOMAIN a -> DOMAIN a],
             IsInjective(f), \A i \in DOMAIN a : a[i] = b[f[i]]
      PROVE  ToBag(a) = ToBag(b)
  <2>1. DOMAIN a = DOMAIN b /\ IsFiniteSet(DOMAIN a)
    BY <1>2, Places
  <2>2. f \in Injection(DOMAIN a, DOMAIN a)
    BY <1>2 DEF Injection
  <2>3. \A j \in DOMAIN a : \E i \in DOMAIN a : f[i] = j
    BY <2>1, <2>2, FS_Injection DEF Surjection
  <2>4. ASSUME NEW x PROVE Cardinality(At(a, x)) = Cardinality(At(b, x))
    <3> DEFINE h == [i \in At(a, x) |-> f[i]]
    <3>1. IsFiniteSet(At(a, x))
      BY <2>1, FS_Subset DEF At
    <3>2. h \in [At(a, x) -> At(b, x)] /\ \A i \in At(a, x) : h[i] = f[i] /\ i \in DOMAIN a
      BY <1>2, <2>1 DEF At
    <3>3. \A t \in At(b, x) : \E s \in At(a, x) : h[s] = t
      BY <1>2, <2>1, <2>3 DEF At
    <3> HIDE DEF h
    <3>4. \A i, j \in At(a, x) : h[i] = h[j] => i = j
      BY <1>2, <3>2 DEF IsInjective
    <3>5. h \in Bijection(At(a, x), At(b, x))
      BY <3>2, <3>3, <3>4 DEF Bijection, Injection, Surjection, IsInjective
    <3> QED
      BY <3>1, <3>5, FS_Bijection DEF ExistsBijection
  <2>5. Range(a) = Range(b)
    BY <1>2, <2>1, <2>3 DEF Range
  <2> QED
    BY <2>4, <2>5 DEF ToBag, At
<1>3. ASSUME Len(a) = Len(b), Found(a, b) PROVE ToBag(a) = ToBag(b)
  <2>1. DOMAIN a = DOMAIN b
    BY <1>3, Places
  <2> QED
    BY <1>2, <1>3, <2>1 DEF Found
<1> QED
  BY <1>1, <1>3

-----------------------------------------------------------------------------
(* Sorting a list of numbers, by the counts of its elements.                  *)

(* The places that a value has in the sorted list.                            *)
Slots(s, x) == Cardinality(Lower(s, x)) + 1 .. Cardinality(Upto(s, x))

(* As many as it has in the list; those of a larger value come after them.    *)
LEMMA SlotsOfValue ==
  ASSUME NEW s \in Seq(Int), NEW x \in Int
  PROVE  /\ Slots(s, x) \subseteq DOMAIN s
         /\ IsFiniteSet(Slots(s, x)) /\ Cardinality(Slots(s, x)) = Cardinality(At(s, x))
         /\ IsFiniteSet(At(s, x))
         /\ Cardinality(Lower(s, x)) \in Nat /\ Cardinality(Upto(s, x)) \in Nat
<1>1. /\ Len(s) \in Nat /\ DOMAIN s = 1 .. Len(s) /\ \A i \in DOMAIN s : s[i] \in Int
      /\ IsFiniteSet(DOMAIN s) /\ Cardinality(DOMAIN s) = Len(s)
  BY Places
<1>2. /\ Lower(s, x) \subseteq DOMAIN s /\ At(s, x) \subseteq DOMAIN s
      /\ Upto(s, x) \subseteq DOMAIN s
      /\ Upto(s, x) = Lower(s, x) \cup At(s, x) /\ Lower(s, x) \cap At(s, x) = {}
  BY <1>1 DEF Lower, Upto, At
<1>3. IsFiniteSet(Lower(s, x)) /\ IsFiniteSet(At(s, x)) /\ IsFiniteSet(Upto(s, x))
  BY <1>1, <1>2, FS_Subset
<1>4. /\ Cardinality(Lower(s, x)) \in Nat /\ Cardinality(At(s, x)) \in Nat
      /\ Cardinality(Upto(s, x)) \in Nat
  BY <1>3, FS_CardinalityType
<1>5. Cardinality(Upto(s, x)) = Cardinality(Lower(s, x)) + Cardinality(At(s, x))
  <2>1. Cardinality(Lower(s, x) \cap At(s, x)) = 0
    BY <1>2, FS_EmptySet
  <2>2. Cardinality(Lower(s, x) \cup At(s, x))
          = Cardinality(Lower(s, x)) + Cardinality(At(s, x)) - Cardinality(Lower(s, x) \cap At(s, x))
    BY <1>3, FS_Union
  <2> QED
    BY <1>2, <1>4, <2>1, <2>2
<1>6. Cardinality(Upto(s, x)) <= Len(s)
  BY <1>1, <1>2, FS_Subset
<1>7. IsFiniteSet(Slots(s, x)) /\ Cardinality(Slots(s, x)) = Cardinality(At(s, x))
  <2> DEFINE m == Cardinality(Lower(s, x)) + 1
             n == Cardinality(Upto(s, x))
  <2>1. m \in Int /\ n \in Int /\ Slots(s, x) = m .. n
    BY <1>4 DEF Slots
  <2>2. (IF m > n THEN 0 ELSE n - m + 1) = Cardinality(At(s, x))
    BY <1>4, <1>5
  <2> HIDE DEF m, n
  <2>3. IsFiniteSet(m .. n) /\ Cardinality(m .. n) = IF m > n THEN 0 ELSE n - m + 1
    BY <2>1, FS_Interval
  <2> QED
    BY <2>1, <2>2, <2>3
<1> QED
  BY <1>1, <1>3, <1>4, <1>6, <1>7 DEF Slots

(* No place is two values'.                                                   *)
LEMMA SlotsApart ==
  ASSUME NEW s \in Seq(Int), NEW x \in Int, NEW y \in Int,
         NEW k \in Slots(s, x), k \in Slots(s, y)
  PROVE  x = y
<1>1. /\ IsFiniteSet(DOMAIN s) /\ \A i \in DOMAIN s : s[i] \in Int
  BY Places
<1>2. ASSUME NEW v \in Int, NEW w \in Int, v < w
      PROVE  Cardinality(Upto(s, v)) <= Cardinality(Lower(s, w))
  <2>1. Upto(s, v) \subseteq Lower(s, w) /\ Lower(s, w) \subseteq DOMAIN s
    BY <1>1, <1>2 DEF Upto, Lower
  <2>2. IsFiniteSet(Lower(s, w))
    BY <1>1, <2>1, FS_Subset
  <2> QED
    BY <2>1, <2>2, FS_Subset
<1>3. ASSUME NEW v \in Int, NEW w \in Int, v < w
      PROVE  ~(k \in Slots(s, v) /\ k \in Slots(s, w))
  <2>1. Cardinality(Upto(s, v)) \in Nat /\ Cardinality(Lower(s, w)) \in Nat
    BY SlotsOfValue
  <2>2. k \in Slots(s, v) => k \in Int /\ k <= Cardinality(Upto(s, v))
    BY DEF Slots
  <2>3. k \in Slots(s, w) => k >= Cardinality(Lower(s, w)) + 1
    BY DEF Slots
  <2> QED
    BY <1>2, <1>3, <2>1, <2>2, <2>3
<1> QED
  BY <1>3

(* What stands at a place of its own is what sorting puts there.              *)
LEMMA SortedAtSlot ==
  ASSUME NEW s \in Seq(Int), NEW x \in Range(s), NEW k \in Slots(s, x)
  PROVE  k \in DOMAIN s /\ Sorted(s)[k] = x
<1>1. /\ \A i \in DOMAIN s : s[i] \in Int
      /\ \A y \in Range(s) : y \in Int
  BY Places DEF Range
<1>2. k \in DOMAIN s /\ k \in Int
  <2>1. x \in Int /\ DOMAIN s = 1 .. Len(s)
    BY <1>1, Places
  <2>2. k \in DOMAIN s
    BY <2>1, SlotsOfValue
  <2> QED
    BY <2>1, <2>2
<1> DEFINE InPlace(y) == Cardinality(Lower(s, y)) < k /\ k <= Cardinality(Upto(s, y))
<1>3. ASSUME NEW y \in Range(s) PROVE InPlace(y) <=> k \in Slots(s, y)
  <2>1. /\ Cardinality(Lower(s, y)) \in Nat /\ Cardinality(Upto(s, y)) \in Nat
    BY <1>1, SlotsOfValue
  <2> QED
    BY <1>2, <2>1 DEF Slots
<1>4. Sorted(s)[k] = CHOOSE y \in Range(s) : InPlace(y)
  BY <1>2 DEF Sorted, Kth
<1> HIDE DEF InPlace
<1>5. \A y \in Range(s) : InPlace(y) => y = x
  BY <1>1, <1>3, SlotsApart
<1>6. InPlace(x)
  BY <1>3
<1> QED
  BY <1>2, <1>4, <1>5, <1>6

(* So a sorted list holds what the list does.                                 *)
LEMMA SortedIsBag ==
  ASSUME NEW s \in Seq(Int)
  PROVE  ToBag(Sorted(s)) = ToBag(s)
<1> DEFINE g(x) == CHOOSE h \in Bijection(At(s, x), Slots(s, x)) : TRUE
           f    == [i \in DOMAIN s |-> g(s[i])[i]]
           t    == Sorted(s)
<1>1. /\ Len(s) \in Nat /\ DOMAIN s = 1 .. Len(s) /\ IsFiniteSet(DOMAIN s)
      /\ \A i \in DOMAIN s : s[i] \in Int /\ s[i] \in Range(s) /\ i \in At(s, s[i])
  BY Places DEF Range, At
<1>2. ASSUME NEW x \in Int PROVE g(x) \in Bijection(At(s, x), Slots(s, x))
  BY SlotsOfValue, FS_SameCardinalityBij DEF ExistsBijection
<1> HIDE DEF g
<1>3. ASSUME NEW i \in DOMAIN s
      PROVE  /\ f[i] = g(s[i])[i] /\ f[i] \in Slots(s, s[i]) /\ f[i] \in DOMAIN s
             /\ t[f[i]] = s[i]
  <2>1. f[i] = g(s[i])[i] /\ f[i] \in Slots(s, s[i])
    BY <1>1, <1>2 DEF Bijection, Injection
  <2> QED
    BY <1>1, <2>1, SortedAtSlot
<1>4. f \in [DOMAIN s -> DOMAIN s]
  BY <1>3
<1>8. DOMAIN t = 1 .. Len(s) /\ t = [k \in 1 .. Len(s) |-> t[k]]
  BY <1>1 DEF Sorted
<1> HIDE DEF f, t
<1>5. ASSUME NEW i \in DOMAIN s, NEW j \in DOMAIN s, f[i] = f[j] PROVE i = j
  <2>1. s[i] = s[j]
    BY <1>3, <1>5
  <2>2. /\ i \in At(s, s[i]) /\ j \in At(s, s[i]) /\ g(s[i])[i] = g(s[i])[j]
        /\ g(s[i]) \in Bijection(At(s, s[i]), Slots(s, s[i]))
    BY <1>1, <1>2, <1>3, <1>5, <2>1
  <2> QED
    BY <2>2 DEF Bijection, Injection, IsInjective
<1>6. f \in Injection(DOMAIN s, DOMAIN s)
  BY <1>4, <1>5 DEF Injection, IsInjective
<1>7. \A k \in DOMAIN s : \E i \in DOMAIN s : f[i] = k
  <2>1. IsFiniteSet(DOMAIN s)
    BY <1>1
  <2>2. f \in Surjection(DOMAIN s, DOMAIN s)
    BY <1>6, <2>1, FS_Injection
  <2> QED
    BY <2>2 DEF Surjection
<1>9. t \in Seq(Int) /\ Len(t) = Len(s) /\ DOMAIN t = DOMAIN s
  <2>1. ASSUME NEW k \in DOMAIN s PROVE t[k] \in Int
    <3>1. PICK i \in DOMAIN s : f[i] = k
      BY <1>7
    <3>2. t[f[i]] = s[i] /\ s[i] \in Int
      BY <1>1, <1>3
    <3> QED
      BY <3>1, <3>2
  <2> QED
    BY <1>1, <1>8, <2>1
<1>10. Found(s, t)
  BY <1>3, <1>6, <1>9 DEF Found, Injection
<1>11. ToBag(s) = ToBag(t)
  BY <1>9, <1>10, BagsPair
<1> QED
  BY <1>11 DEF t

(* Lists that hold the same are sorted alike.                                 *)
LEMMA BagsSortAlike ==
  ASSUME NEW a \in Seq(Int), NEW b \in Seq(Int), ToBag(a) = ToBag(b)
  PROVE  Sorted(a) = Sorted(b)
<1>0. Len(a) = Len(b) /\ Found(a, b)
  BY BagsPair
<1>1. PICK f \in [DOMAIN a -> DOMAIN b] : IsInjective(f) /\ \A i \in DOMAIN a : a[i] = b[f[i]]
  BY <1>0 DEF Found
<1>2. DOMAIN a = DOMAIN b /\ IsFiniteSet(DOMAIN a)
  BY <1>0, Places
<1>3. f \in Injection(DOMAIN a, DOMAIN a) /\ f \in [DOMAIN a -> DOMAIN a]
  BY <1>1, <1>2 DEF Injection
<1>4. \A j \in DOMAIN a : \E i \in DOMAIN a : f[i] = j
  BY <1>2, <1>3, FS_Injection DEF Surjection
<1>5. Range(a) = Range(b)
  BY <1>1, <1>2, <1>4 DEF Range
<1>6. ASSUME NEW x
      PROVE  /\ Cardinality(Lower(a, x)) = Cardinality(Lower(b, x))
             /\ Cardinality(Upto(a, x)) = Cardinality(Upto(b, x))
  <2>1. ASSUME NEW S, NEW T, S \subseteq DOMAIN a, T \subseteq DOMAIN a,
               \A i \in DOMAIN a : i \in S <=> f[i] \in T
        PROVE  Cardinality(S) = Cardinality(T)
    <3> DEFINE h == [i \in S |-> f[i]]
    <3>1. IsFiniteSet(S)
      BY <1>2, <2>1, FS_Subset
    <3>2. h \in [S -> T] /\ \A i \in S : h[i] = f[i] /\ i \in DOMAIN a
      BY <2>1
    <3>3. \A k \in T : \E i \in S : h[i] = k
      BY <1>4, <2>1
    <3> HIDE DEF h
    <3>4. \A i, j \in S : h[i] = h[j] => i = j
      BY <1>3, <3>2 DEF Injection, IsInjective
    <3>5. h \in Bijection(S, T)
      BY <3>2, <3>3, <3>4 DEF Bijection, Injection, Surjection, IsInjective
    <3> QED
      BY <3>1, <3>5, FS_Bijection DEF ExistsBijection
  <2>2. /\ Lower(a, x) \subseteq DOMAIN a /\ Lower(b, x) \subseteq DOMAIN a
        /\ \A i \in DOMAIN a : i \in Lower(a, x) <=> f[i] \in Lower(b, x)
    BY <1>1, <1>2, <1>3 DEF Lower
  <2>3. /\ Upto(a, x) \subseteq DOMAIN a /\ Upto(b, x) \subseteq DOMAIN a
        /\ \A i \in DOMAIN a : i \in Upto(a, x) <=> f[i] \in Upto(b, x)
    BY <1>1, <1>2, <1>3 DEF Upto
  <2> QED
    BY <2>1, <2>2, <2>3
<1>7. ASSUME NEW k PROVE Kth(a, k) = Kth(b, k)
  BY <1>5, <1>6 DEF Kth
<1> QED
  BY <1>2, <1>7 DEF Sorted

-----------------------------------------------------------------------------
(* The rows of a result set as they are compared.                             *)
Rows == Seq(Seq(Cell))

LEMMA NormedRows ==
  ASSUME NEW a \in Rows
  PROVE  /\ Len(Normed(a)) = Len(a) /\ DOMAIN Normed(a) = DOMAIN a
         /\ DOMAIN a = 1 .. Len(a) /\ Len(a) \in Nat
         /\ \A i \in DOMAIN a : Normed(a)[i] = NormRow(a[i])
<1>1. Len(a) \in Nat /\ DOMAIN a = 1 .. Len(a)
  BY DEF Rows
<1>2. Normed(a) = [i \in 1 .. Len(a) |-> NormRow(a[i])]
  BY <1>1 DEF Normed
<1>3. Len(Normed(a)) = Len(a)
  BY <1>1, <1>2
<1> QED
  BY <1>1, <1>2, <1>3

(* Their reprs are as many, and equal where the rows are the same.            *)
LEMMA ReprsOfRows ==
  ASSUME NEW a \in Rows, \A i \in DOMAIN a : NormRow(a[i]) \in ReprRows
  PROVE  /\ Reprs(Normed(a)) \in Seq(Int)
         /\ Len(Reprs(Normed(a))) = Len(a) /\ DOMAIN Reprs(Normed(a)) = DOMAIN a
         /\ \A i \in DOMAIN a : Reprs(Normed(a))[i] = Repr[NormRow(a[i])]
<1> DEFINE r == Reprs(Normed(a))
<1>1. /\ DOMAIN a = 1 .. Len(a) /\ Len(a) \in Nat /\ DOMAIN Normed(a) = 1 .. Len(a)
      /\ \A i \in DOMAIN a : Normed(a)[i] = NormRow(a[i])
  BY NormedRows
<1>2. r = [i \in 1 .. Len(a) |-> r[i]] /\ \A i \in 1 .. Len(a) : r[i] = Repr[NormRow(a[i])]
  BY <1>1 DEF Reprs
<1>3. \A i \in 1 .. Len(a) : r[i] \in Int
  BY <1>1, <1>2, ReprAssumption
<1> HIDE DEF r
<1>4. r \in Seq(Int) /\ Len(r) = Len(a)
  BY <1>1, <1>2, <1>3
<1> QED
  BY <1>1, <1>2, <1>4 DEF r

EqualRows(r, s) == RowEqual(NormRow(r), NormRow(s))
SameRows(r, s)  == NormRow(r) = NormRow(s)

(* rows_equal finds two tables equal exactly when their rows can be paired    *)
(* off, as PassIffRowsPair has it.                                            *)
LEMMA InOrderPairs ==
  ASSUME NEW a \in Rows, NEW b \in Rows
  PROVE  RowsEqual(a, b, TRUE) <=> Paired(a, b, TRUE, EqualRows)
<1> DEFINE id == [i \in DOMAIN a |-> i]
<1>1. RowsEqual(a, b, TRUE)
        <=> Len(a) = Len(b) /\ \A i \in DOMAIN a : EqualRows(a[i], b[i])
  BY NormedRows DEF RowsEqual, InOrder, EqualRows
<1>2. id \in [DOMAIN a -> DOMAIN a] /\ IsInjective(id) /\ \A i \in DOMAIN a : id[i] = i
  BY DEF IsInjective
<1> HIDE DEF id
<1>3. Paired(a, b, TRUE, EqualRows)
        <=> Len(a) = Len(b) /\ \A i \in DOMAIN a : EqualRows(a[i], b[i])
  BY <1>2 DEF Paired
<1> QED
  BY <1>1, <1>3

LEMMA AnyOrderPairs ==
  ASSUME NEW a \in Rows, NEW b \in Rows,
         \A i \in DOMAIN a : NormRow(a[i]) \in ReprRows,
         \A i \in DOMAIN b : NormRow(b[i]) \in ReprRows
  PROVE  RowsEqual(a, b, FALSE) <=> Paired(a, b, FALSE, SameRows)
<1> DEFINE x == Reprs(Normed(a))
           y == Reprs(Normed(b))
<1>1. /\ x \in Seq(Int) /\ Len(x) = Len(a) /\ DOMAIN x = DOMAIN a
      /\ \A i \in DOMAIN a : x[i] = Repr[NormRow(a[i])]
  BY ReprsOfRows
<1>2. /\ y \in Seq(Int) /\ Len(y) = Len(b) /\ DOMAIN y = DOMAIN b
      /\ \A i \in DOMAIN b : y[i] = Repr[NormRow(b[i])]
  BY ReprsOfRows
<1>3. RowsEqual(a, b, FALSE) <=> Sorted(x) = Sorted(y)
  BY DEF RowsEqual, AnyOrder
<1> HIDE DEF x, y
<1>4. Sorted(x) = Sorted(y) <=> ToBag(x) = ToBag(y)
  BY <1>1, <1>2, SortedIsBag, BagsSortAlike
<1>5. ToBag(x) = ToBag(y) <=> Len(x) = Len(y) /\ Found(x, y)
  BY <1>1, <1>2, BagsPair
<1>6. Len(a) = Len(b) => DOMAIN a = DOMAIN b
  BY NormedRows
<1>7. ASSUME NEW i \in DOMAIN a, NEW j \in DOMAIN b
      PROVE  x[i] = y[j] <=> SameRows(a[i], b[j])
  BY <1>1, <1>2, <1>7, ReprAssumption DEF SameRows
<1>8. Len(x) = Len(y) /\ Found(x, y) <=> Paired(a, b, FALSE, SameRows)
  <2>1. ASSUME Len(a) = Len(b)
        PROVE  Found(x, y) <=> \E f \in [DOMAIN a -> DOMAIN a] :
                 IsInjective(f) /\ \A i \in DOMAIN a : SameRows(a[i], b[f[i]])
    <3>1. DOMAIN x = DOMAIN a /\ DOMAIN y = DOMAIN a /\ DOMAIN b = DOMAIN a
      BY <1>1, <1>2, <1>6, <2>1
    <3>2. ASSUME NEW f \in [DOMAIN a -> DOMAIN a]
          PROVE  (\A i \in DOMAIN a : x[i] = y[f[i]])
                   <=> \A i \in DOMAIN a : SameRows(a[i], b[f[i]])
      BY <1>7, <3>1
    <3> QED
      BY <3>1, <3>2 DEF Found
  <2> QED
    BY <1>1, <1>2, <2>1 DEF Paired
<1> QED
  BY <1>3, <1>4, <1>5, <1>8

-----------------------------------------------------------------------------
(* A verdict on the snapshot is what grade_one makes of the student's and the *)
(* gold query's rows, and stays so while later questions are graded.          *)
VerdictInv ==
  /\ TypeOK
  /\ pinned => \A q \in 1 .. Questions :
       verdict[q] \in {"PASS", "WRONG_RESULT"} => verdict[q] = Compare(q, given[q], measured[q])

(* compare gives one of its two classes.                                      *)
LEMMA CompareClasses ==
  ASSUME NEW q, NEW answer, NEW truth
  PROVE  Compare(q, answer, truth) \in Classes
  BY DEF Compare, Classes

(* A class that is not for an executed answer leaves the invariant alone.     *)
LEMMA OtherClass ==
  ASSUME VerdictInv, NEW q \in 1 .. Questions,
         NEW class \in Classes \ {"PASS", "WRONG_RESULT"}, Grade(q, class),
         UNCHANGED <<pinned, gold, given, measured>>, SessionOK', raised' \in {"none", "answer", "gold"}
  PROVE  VerdictInv'
<1>1. TypeOK'
  BY DEF VerdictInv, TypeOK, Grade
<1>2. ASSUME NEW p \in 1 .. Questions, pinned', verdict'[p] \in {"PASS", "WRONG_RESULT"}
      PROVE  verdict'[p] = Compare(p, given[p], measured[p])'
  <2>1. p # q /\ verdict'[p] = verdict[p]
    BY <1>2 DEF VerdictInv, TypeOK, Grade
  <2> QED
    BY <1>2, <2>1 DEF VerdictInv, Compare
<1> QED
  BY <1>1, <1>2 DEF VerdictInv

(* What a statement leaves on the connection has its type.                    *)
LEMMA LeavesType ==
  ASSUME TypeOK, NEW effect, Leaves(effect),
         txn' \in {TxnAfter(effect), "aborted"}
  PROVE  SessionOK'
<1>1. db' \in Contents /\ views' \in BOOLEAN
  BY DEF TypeOK, SessionOK, Contents, Leaves
<1>2. altered' \in BOOLEAN
  BY DEF TypeOK, SessionOK, Leaves
<1>3. before' \in [db : Contents, views : BOOLEAN]
  BY DEF TypeOK, SessionOK, Leaves
<1>4. txn' \in {"none", "open", "aborted"}
  BY DEF TypeOK, SessionOK, TxnAfter
<1> QED
  BY <1>1, <1>2, <1>3, <1>4 DEF SessionOK

(* VerdictInv holds at the start,                                             *)
LEMMA VerdictInit == Init => VerdictInv
<1> SUFFICES ASSUME Init PROVE VerdictInv
  OBVIOUS
<1>1. SessionOK
  BY DEF Init, SessionOK, Contents
<1>2. TypeOK
  BY <1>1 DEF Init, TypeOK
<1> QED
  BY <1>2 DEF Init, VerdictInv

(* An executed answer gets its verdict, and what it compares is recorded.     *)
LEMMA VerdictAnswered ==
  ASSUME VerdictInv, NEW q \in 1 .. Questions, NEW stmt \in Statements, Answered(q, stmt)
  PROVE  VerdictInv'
<1>1. PICK truth \in (IF Moved THEN Results ELSE {gold[q].result}) :
        /\ Grade(q, Compare(q, stmt.result, truth))
        /\ IF pinned THEN /\ given' = [given EXCEPT ![q] = stmt.result]
                          /\ measured' = [measured EXCEPT ![q] = truth]
           ELSE UNCHANGED <<given, measured>>
  BY DEF Answered
<1>2. /\ UNCHANGED <<pinned, gold, raised>> /\ Leaves(stmt.effect)
      /\ txn' = TxnAfter(stmt.effect)
  BY DEF Answered, Runs
<1>3. truth \in Results /\ stmt.result \in Results
  BY DEF VerdictInv, TypeOK, Statements
<1>4. TypeOK'
  <2>1. SessionOK'
    BY <1>2, LeavesType DEF VerdictInv
  <2>2. verdict' \in [1 .. Questions -> Classes \union {"none"}]
    BY <1>1, CompareClasses DEF Grade, VerdictInv, TypeOK
  <2>3. /\ given' \in [1 .. Questions -> Results \union {NoResult}]
        /\ measured' \in [1 .. Questions -> Results \union {NoResult}]
    BY <1>1, <1>3 DEF VerdictInv, TypeOK
  <2> QED
    BY <1>2, <2>1, <2>2, <2>3 DEF VerdictInv, TypeOK
<1>5. ASSUME NEW p \in 1 .. Questions, pinned', verdict'[p] \in {"PASS", "WRONG_RESULT"}
      PROVE  verdict'[p] = Compare(p, given[p], measured[p])'
  <2>1. pinned /\ given' = [given EXCEPT ![q] = stmt.result]
               /\ measured' = [measured EXCEPT ![q] = truth]
    BY <1>1, <1>2, <1>5
  <2>2. CASE p = q
    <3>1. /\ verdict'[p] = Compare(p, stmt.result, truth)
          /\ given'[p] = stmt.result /\ measured'[p] = truth
      BY <1>1, <2>1, <2>2 DEF VerdictInv, TypeOK, Grade
    <3> QED
      BY <1>2, <3>1 DEF Compare
  <2>3. CASE p # q
    <3>1. /\ verdict'[p] = verdict[p] /\ given'[p] = given[p] /\ measured'[p] = measured[p]
      BY <1>1, <2>1, <2>3 DEF VerdictInv, TypeOK, Grade
    <3> QED
      BY <1>2, <1>5, <2>1, <3>1 DEF VerdictInv, Compare
  <2> QED
    BY <2>2, <2>3
<1> QED
  BY <1>4, <1>5 DEF VerdictInv

(* and every step keeps it.                                                   *)
LEMMA VerdictNext == VerdictInv /\ [Next]_vars => VerdictInv'
<1> SUFFICES ASSUME VerdictInv, [Next]_vars PROVE VerdictInv'
  OBVIOUS
<1>0. TypeOK
  BY DEF VerdictInv
<1>1. ASSUME NEW q \in 1 .. Questions, Missing(q) PROVE VerdictInv'
  BY <1>0, <1>1, OtherClass DEF Missing, session, Classes, TypeOK, SessionOK
<1>2. ASSUME NEW q \in 1 .. Questions, Stale(q) PROVE VerdictInv'
  BY <1>0, <1>2, OtherClass DEF Stale, session, Classes, TypeOK, SessionOK
<1>3. ASSUME NEW q \in 1 .. Questions, NEW stmt \in Statements, Fails(q, stmt)
      PROVE  VerdictInv'
  <2>1. SessionOK'
    BY <1>0, <1>3, LeavesType DEF Fails
  <2>2. PICK class \in {"EXEC_ERROR", "BINDER_ERROR"} : Grade(q, class)
    BY <1>3 DEF Fails
  <2>3. UNCHANGED <<pinned, gold, given, measured>> /\ raised' \in {"none", "answer", "gold"}
    BY <1>0, <1>3 DEF Fails, TypeOK
  <2> QED
    BY <2>1, <2>2, <2>3, OtherClass DEF Classes
<1>4. ASSUME NEW q \in 1 .. Questions, NEW stmt \in Statements, Answered(q, stmt)
      PROVE  VerdictInv'
  BY <1>4, VerdictAnswered
<1>5. ASSUME NEW q \in 1 .. Questions, NEW stmt \in Statements, GoldFails(q, stmt)
      PROVE  VerdictInv'
  <2>1. SessionOK'
    BY <1>0, <1>5, LeavesType DEF GoldFails, Runs
  <2>2. UNCHANGED <<pinned, gold, verdict, given, measured>> /\ raised' = "gold"
    BY <1>5 DEF GoldFails
  <2>3. TypeOK'
    BY <1>0, <2>1, <2>2 DEF TypeOK
  <2> QED
    BY <2>2, <2>3 DEF VerdictInv, Compare
<1>6. CASE UNCHANGED vars
  BY <1>6 DEF vars, session, VerdictInv, TypeOK, SessionOK, Compare
<1>7. ASSUME NEW q \in 1 .. Questions, NoStatement(q) PROVE VerdictInv'
  BY <1>0, <1>7 DEF NoStatement, session, VerdictInv, TypeOK, SessionOK, Compare
<1> QED
  BY <1>1, <1>2, <1>3, <1>4, <1>5, <1>6, <1>7 DEF Next

(* A verdict on two tables says whether their rows can be paired off.         *)
LEMMA TableVerdict ==
  ASSUME VerdictInv, NEW q \in 1 .. Questions, Table(q)
  PROVE  verdict[q] = "PASS" <=>
           IF gold[q].shape.ordered
           THEN Paired(given[q].rows, measured[q].rows, TRUE, EqualRows)
           ELSE Paired(given[q].rows, measured[q].rows, FALSE, SameRows)
<1> DEFINE a == given[q].rows
           b == measured[q].rows
<1>1. ASSUME NEW table \in Results \union {NoResult}
      PROVE  table.rows \in Rows /\ \A i \in DOMAIN table.rows : NormRow(table.rows[i]) \in ReprRows
  <2>1. CASE table \in Results
    <3>1. ASSUME NEW i \in DOMAIN table.rows
          PROVE  NormRow(table.rows[i]) \in ReprRows
      <4>1. table.rows[i] \in UNION {Range(tab.rows) : tab \in Results}
        BY <2>1 DEF Range
      <4> QED
        BY <4>1 DEF ReprRows
    <3> QED
      BY <2>1, <3>1, ResultsAssumption DEF Rows
  <2>2. CASE table = NoResult
    <3>1. \A S : <<>> \in Seq(S)
      OBVIOUS
    <3>2. table.rows = <<>> /\ DOMAIN table.rows = {}
      BY <2>2 DEF NoResult
    <3> QED
      BY <3>1, <3>2 DEF Rows
  <2> QED
    BY <1>1, <2>1, <2>2
<1>2. /\ a \in Rows /\ \A i \in DOMAIN a : NormRow(a[i]) \in ReprRows
      /\ b \in Rows /\ \A i \in DOMAIN b : NormRow(b[i]) \in ReprRows
  BY <1>1 DEF VerdictInv, TypeOK
<1>3. verdict[q] = Compare(q, given[q], measured[q]) /\ pinned /\ ~gold[q].shape.scalar
  BY DEF VerdictInv, Table
<1>4. verdict[q] = "PASS" <=> RowsEqual(a, b, gold[q].shape.ordered)
  BY <1>3 DEF Compare
<1>5. gold[q].shape.ordered \in BOOLEAN
  BY ShapesAssumption DEF VerdictInv, TypeOK
<1> HIDE DEF a, b
<1>6. RowsEqual(a, b, TRUE) <=> Paired(a, b, TRUE, EqualRows)
  BY <1>2, InOrderPairs
<1>7. RowsEqual(a, b, FALSE) <=> Paired(a, b, FALSE, SameRows)
  BY <1>2, AnyOrderPairs
<1>8. CASE gold[q].shape.ordered = TRUE
  BY <1>4, <1>6, <1>8 DEF a, b
<1>9. CASE gold[q].shape.ordered = FALSE
  BY <1>4, <1>7, <1>9 DEF a, b
<1> QED
  BY <1>5, <1>8, <1>9

(* The class recorded for a table is the one PassIffRowsPair asks for.        *)
LEMMA VerdictRight == VerdictInv => PassIffRowsPair
BY TableVerdict DEF PassIffRowsPair, Paired, EqualRows, SameRows

(* Every verdict is one of the documented classes, and a table passes exactly *)
(* when its rows can be paired off with those of the gold query, duplicates   *)
(* and order included.                                                        *)
THEOREM VerdictsAlwaysSound == Spec => []VerdictsSound
<1>1. VerdictInv => VerdictsSound
  BY VerdictRight DEF VerdictInv, VerdictsSound
<1> QED
  BY <1>1, VerdictInit, VerdictNext, PTL DEF Spec

(* Gold on the snapshot.  A read-only session cannot be written, by whatever  *)
(* transaction, so a rollback goes back to the snapshot as well.              *)
Untouched ==
  pinned => db = "snapshot" /\ before.db = "snapshot" /\ (raised = "gold" => altered)
GoldInv == TypeOK /\ Untouched /\ GoldOnSnapshot

(* What a session can do on the snapshot leaves the snapshot.                 *)
LEMMA SnapshotStays ==
  ASSUME TypeOK, Untouched, pinned, NEW effect, effect = "none" \/ Possible(effect), Leaves(effect)
  PROVE  /\ db' = "snapshot" /\ before'.db = "snapshot"
         /\ altered => altered'
<1>1. effect \notin {"write", "drop"}
  BY DEF Possible, ReadOnly
<1>2. db' = "snapshot"
  BY <1>1 DEF Leaves, Untouched
<1>3. before'.db = "snapshot"
  BY DEF Leaves, Untouched
<1>4. altered => altered'
  BY DEF Leaves
<1> QED
  BY <1>2, <1>3, <1>4

(* On the pinned snapshot, for any questions and statements, gold answers and *)
(* answers the snapshot's rows as long as no answer has set an option, created*)
(* a macro or attached a database.                                            *)
THEOREM GoldStaysOnSnapshot == Spec => []GoldOnSnapshot
<1>1. Init => GoldInv
  BY VerdictInit DEF Init, VerdictInv, GoldInv, Untouched, GoldOnSnapshot
<1>2. GoldInv /\ VerdictInv /\ [Next]_vars => GoldInv'
  <2> SUFFICES ASSUME GoldInv, VerdictInv, [Next]_vars PROVE GoldInv'
    OBVIOUS
  <2>0. TypeOK /\ TypeOK' /\ Untouched /\ GoldOnSnapshot
    BY VerdictNext DEF GoldInv, VerdictInv
  <2> SUFFICES ASSUME pinned' PROVE Untouched' /\ GoldOnSnapshot'
    BY <2>0 DEF GoldInv, Untouched, GoldOnSnapshot
  <2>1. ASSUME NEW q \in 1 .. Questions, Missing(q) \/ Stale(q) \/ NoStatement(q)
        PROVE  Untouched' /\ GoldOnSnapshot'
    BY <2>0, <2>1 DEF Missing, Stale, NoStatement, session, Untouched, GoldOnSnapshot
  <2>2. ASSUME NEW q \in 1 .. Questions, NEW stmt \in Statements, Fails(q, stmt)
        PROVE  Untouched' /\ GoldOnSnapshot'
    <3>1. PICK part \in {"none", stmt.effect} : (part = "none" \/ Possible(part)) /\ Leaves(part)
      BY <2>2 DEF Fails
    <3>2. UNCHANGED <<pinned, gold, given, measured, raised>>
      BY <2>2 DEF Fails
    <3>3. db' = "snapshot" /\ before'.db = "snapshot" /\ (altered => altered')
      BY <2>0, <3>1, <3>2, SnapshotStays
    <3> QED
      BY <2>0, <3>2, <3>3 DEF Untouched, GoldOnSnapshot
  <2>3. ASSUME NEW q \in 1 .. Questions, NEW stmt \in Statements, Runs(q, stmt), UNCHANGED pinned
        PROVE  db' = "snapshot" /\ before'.db = "snapshot" /\ (altered => altered')
    BY <2>0, <2>3, SnapshotStays DEF Runs
  <2>4. ASSUME NEW q \in 1 .. Questions, NEW stmt \in Statements, Answered(q, stmt)
        PROVE  Untouched' /\ GoldOnSnapshot'
    <3>1. UNCHANGED <<pinned, gold, raised>>
      BY <2>4 DEF Answered
    <3>2. db' = "snapshot" /\ before'.db = "snapshot" /\ (altered => altered')
      BY <2>3, <2>4, <3>1 DEF Answered
    <3>3. Untouched'
      BY <2>0, <3>1, <3>2 DEF Untouched
    <3>4. ASSUME ~altered'
          PROVE  measured' = [measured EXCEPT ![q] = gold[q].result]
      BY <2>4, <3>1, <3>2, <3>4 DEF Answered, Moved
    <3>5. GoldOnSnapshot'
      BY <2>0, <3>1, <3>2, <3>4 DEF GoldOnSnapshot, TypeOK, Untouched
    <3> QED
      BY <3>3, <3>5
  <2>5. ASSUME NEW q \in 1 .. Questions, NEW stmt \in Statements, GoldFails(q, stmt)
        PROVE  Untouched' /\ GoldOnSnapshot'
    <3>1. UNCHANGED <<pinned, gold, measured>>
      BY <2>5 DEF GoldFails
    <3>2. db' = "snapshot" /\ before'.db = "snapshot"
      BY <2>3, <2>5, <3>1 DEF GoldFails
    <3>3. altered'
      BY <2>5, <3>2 DEF GoldFails, Moved
    <3> QED
      BY <3>2, <3>3 DEF Untouched, GoldOnSnapshot
  <2>6. CASE UNCHANGED vars
    BY <2>0, <2>6 DEF vars, session, Untouched, GoldOnSnapshot
  <2> QED
    BY <2>1, <2>2, <2>4, <2>5, <2>6 DEF Next
<1>3. GoldInv => GoldOnSnapshot
  BY DEF GoldInv
<1> QED
  BY <1>1, <1>2, <1>3, VerdictInit, VerdictNext, PTL DEF Spec
-----------------------------------------------------------------------------
(* The deck.                                                                  *)

(* Math.min and Math.max keep every number in range.                          *)
LEMMA ClampInRange ==
  ASSUME NEW n \in Int
  PROVE  Clamped(n) \in 0 .. SLIDES - 1
BY DeckAssumption DEF Clamped

(* show() leaves slide, class and address in agreement.                       *)
LEMMA ShowAgrees ==
  ASSUME NEW n \in Int, Show(n)
  PROVE  /\ slide' \in 0 .. SLIDES - 1
         /\ shown' = slide'
         /\ hash' = slide' + 1
         /\ hash' \in 1 .. SLIDES
         /\ UNCHANGED edits
BY ClampInRange, DeckAssumption DEF Show

(* The state is well typed whatever the reader presses, clicks or types: the  *)
(* current slide always exists.                                               *)
LEMMA DeckTypeCorrect == DeckSpec => []DeckTypeOK
<1>1. DeckInit => DeckTypeOK
  BY ClampInRange, DeckAssumption DEF DeckInit, DeckTypeOK, FromHash
<1>2. DeckTypeOK /\ [DeckNext]_deckvars => DeckTypeOK'
  <2> SUFFICES ASSUME DeckTypeOK, [DeckNext]_deckvars PROVE DeckTypeOK'
    OBVIOUS
  <2> USE DeckAssumption
  <2>1. \A n \in Int : Show(n) /\ UNCHANGED pending => DeckTypeOK'
    BY ShowAgrees DEF DeckTypeOK
  <2>2. CASE Forward
    BY <2>1, <2>2 DEF Forward, DeckTypeOK
  <2>3. CASE Backward
    BY <2>1, <2>3 DEF Backward, DeckTypeOK
  <2>4. CASE Home
    BY <2>1, <2>4 DEF Home
  <2>5. CASE End
    BY <2>1, <2>5 DEF End
  <2>6. ASSUME NEW h \in Hashes, EditHash(h) PROVE DeckTypeOK'
    BY <2>6 DEF EditHash, DeckTypeOK
  <2>7. CASE HashChange
    <3>1. FromHash(hash) \in Int
      BY DEF FromHash, DeckTypeOK
    <3>2. Show(FromHash(hash)) /\ pending' = pending - 1 /\ pending > 0
      BY <2>7 DEF HashChange
    <3> QED BY <3>1, <3>2, ShowAgrees DEF DeckTypeOK
  <2>8. CASE UNCHANGED deckvars
    BY <2>8 DEF deckvars, DeckTypeOK
  <2> QED BY <2>2, <2>3, <2>4, <2>5, <2>6, <2>7, <2>8 DEF DeckNext
<1> QED BY <1>1, <1>2, PTL DEF DeckSpec

(* With no event queued the address names the slide that is shown.            *)
LEMMA AddressAgrees == DeckSpec => []QuietAgrees
<1>1. DeckInit => QuietAgrees
  BY DEF DeckInit, QuietAgrees
<1>2. DeckTypeOK /\ QuietAgrees /\ [DeckNext]_deckvars => QuietAgrees'
  <2> SUFFICES ASSUME DeckTypeOK, QuietAgrees, [DeckNext]_deckvars PROVE QuietAgrees'
    OBVIOUS
  <2> USE DeckAssumption
  <2>1. \A n \in Int : Show(n) => QuietAgrees'
    BY ShowAgrees DEF QuietAgrees
  <2>2. CASE Forward \/ Backward \/ Home \/ End
    BY <2>1, <2>2 DEF Forward, Backward, Home, End, DeckTypeOK
  <2>3. ASSUME NEW h \in Hashes, EditHash(h) PROVE QuietAgrees'
    BY <2>3 DEF EditHash, QuietAgrees, DeckTypeOK
  <2>4. CASE HashChange
    <3>1. FromHash(hash) \in Int
      BY DEF FromHash, DeckTypeOK
    <3> QED BY <2>1, <2>4, <3>1 DEF HashChange
  <2>5. CASE UNCHANGED deckvars
    BY <2>5 DEF deckvars, QuietAgrees
  <2> QED BY <2>2, <2>3, <2>4, <2>5 DEF DeckNext
<1> QED BY <1>1, <1>2, DeckTypeCorrect, PTL DEF DeckSpec

(* Both at once: in every reachable state there is a slide to show, and a     *)
(* quiet address names it.                                                    *)
THEOREM DeckAlwaysSound == DeckSpec => []DeckSound
<1>1. DeckTypeOK /\ QuietAgrees => DeckSound
  BY DEF DeckSound
<1> QED BY <1>1, DeckTypeCorrect, AddressAgrees, PTL
=============================================================================
