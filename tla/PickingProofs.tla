--------------------------- MODULE PickingProofs ----------------------------
(***************************************************************************)
(* Lemmas about counting the members of a set of indices, and about the    *)
(* elements of a sequence that are picked by it.                           *)
(***************************************************************************)
EXTENDS Picking, FiniteSetTheorems, SequenceTheorems, WellFoundedInduction, TLAPS

\* A set of naturals that is not empty has a least element ...
LEMMA LeastNatural ==
    ASSUME NEW T, T \subseteq Nat, T # {}
    PROVE  \E x \in T : \A y \in T : x <= y
<1>1. \E x \in T : \A y \in T : <<y, x>> \notin OpToRel(<, Nat)
  BY NatLessThanWellFounded, WFMin
<1>2. PICK x \in T : \A y \in T : <<y, x>> \notin OpToRel(<, Nat)
  BY <1>1
<1>3. ASSUME NEW y \in T PROVE x <= y
  <2>1. ~ (y < x)
    BY <1>2, <1>3 DEF OpToRel
  <2> QED BY <2>1
<1> QED BY <1>3

\* ... and the greatest, if it is bounded.
LEMMA Greatest ==
    ASSUME NEW l \in Nat, NEW T, T \subseteq 1 .. l, T # {}
    PROVE  \E k \in T : \A i \in T : i <= k
<1> PICK U : U = {l - i : i \in T}
  OBVIOUS
<1>0. \A i \in T : i \in 1 .. l /\ l - i \in Nat
  OBVIOUS
<1>1. U \subseteq Nat /\ U # {}
  BY <1>0
<1>2. PICK u \in U : \A w \in U : u <= w
  BY <1>1, LeastNatural
<1>3. PICK k \in T : u = l - k
  OBVIOUS
<1>4. ASSUME NEW i \in T PROVE i <= k
  <2>1. l - i \in U
    OBVIOUS
  <2>2. l - k <= l - i
    BY <1>2, <1>3, <2>1
  <2> QED BY <2>2
<1> QED BY <1>4

\* A set of indices of a sequence.
IndexSet(at) == \E l \in Nat : at \subseteq 1 .. l

LEMMA IndexSetFinite ==
    ASSUME NEW at, IndexSet(at)
    PROVE  IsFiniteSet(at) /\ Cardinality(at) \in Nat /\ (Cardinality(at) = 0 <=> at = {})
<1> PICK l \in Nat : at \subseteq 1 .. l
  BY DEF IndexSet
<1>1. IsFiniteSet(1 .. l)
  BY FS_Interval
<1> QED BY <1>1, FS_Subset, FS_CardinalityType, FS_EmptySet

\* The members of a set of indices are counted without a gap.
LEMMA Counted ==
    ASSUME NEW S, IndexSet(S)
    PROVE  /\ \A i \in S : Rank(S, i) \in 1 .. Cardinality(S)
           /\ \A i, k \in S : Rank(S, i) = Rank(S, k) => i = k
           /\ \A n \in 1 .. Cardinality(S) : \E i \in S : Rank(S, i) = n
<1> PICK l \in Nat : S \subseteq 1 .. l
  BY DEF IndexSet
<1> DEFINE Upto(i) == {j \in S : j <= i}
<1>0. \A i \in S : i \in 1 .. l /\ i \in Nat
  OBVIOUS
<1>1. IsFiniteSet(S) /\ Cardinality(S) \in Nat
  BY IndexSetFinite
<1>2. ASSUME NEW i
      PROVE  IsFiniteSet(Upto(i)) /\ Cardinality(Upto(i)) \in Nat /\ Cardinality(Upto(i)) <= Cardinality(S)
  BY <1>1, FS_Subset, FS_CardinalityType
<1>3. ASSUME NEW i \in S, NEW k \in S, i < k PROVE Cardinality(Upto(i)) < Cardinality(Upto(k))
  <2>0. i \in Nat /\ k \in Nat /\ k <= k /\ ~(k <= i) /\ \A j \in S : j <= i => j <= k
    BY <1>0, <1>3
  <2>1. Upto(i) \subseteq Upto(k) /\ k \in Upto(k) /\ k \notin Upto(i)
    BY <2>0
  <2> HIDE DEF Upto
  <2>2. Upto(i) # Upto(k)
    BY <2>1
  <2> QED BY <1>2, <2>1, <2>2, FS_Subset
<1>4. ASSUME NEW i \in S PROVE Cardinality(Upto(i)) >= 1
  <2>1. i \in Upto(i)
    OBVIOUS
  <2> HIDE DEF Upto
  <2>2. Cardinality(Upto(i)) # 0
    BY <1>2, <2>1, FS_EmptySet
  <2> QED BY <1>2, <2>2
<1>5. ASSUME NEW n \in 1 .. Cardinality(S) PROVE \E i \in S : Cardinality(Upto(i)) = n
  <2> PICK T : T = {i \in S : Cardinality(Upto(i)) >= n}
    OBVIOUS
  <2>1. T # {}
    <3>1. S # {}
      BY <1>1, <1>5, FS_EmptySet
    <3>2. PICK k \in S : \A i \in S : i <= k
      BY <3>1, Greatest
    <3>3. Upto(k) = S
      BY <3>2
    <3> HIDE DEF Upto
    <3> QED BY <1>1, <3>2, <3>3
  <2>2. PICK i \in T : \A k \in T : i <= k
    <3>1. T \subseteq Nat
      BY <1>0
    <3> QED BY <2>1, <3>1, LeastNatural
  <2>3. ASSUME Cardinality(Upto(i)) # n PROVE FALSE
    <3> PICK D : D = Upto(i) \ {i}
      OBVIOUS
    <3>1. i \in S /\ i \in Upto(i) /\ Upto(i) \subseteq S
      BY <2>2
    <3>2. IsFiniteSet(D) /\ Cardinality(D) = Cardinality(Upto(i)) - 1
      <4> HIDE DEF Upto
      <4> QED BY <1>2, <3>1, FS_RemoveElement
    <3>3. Cardinality(D) >= n
      <4> HIDE DEF Upto
      <4> QED BY <1>2, <2>2, <2>3, <3>1, <3>2
    <3>4. D # {}
      <4>1. D = {} => Cardinality(D) = 0
        BY FS_EmptySet
      <4> QED BY <3>3, <4>1
    <3>5. PICK k \in D : \A j \in D : j <= k
      <4>1. D \subseteq 1 .. l
        BY <1>0
      <4> QED BY <3>4, <4>1, Greatest
    <3>6. Upto(k) = D /\ k \in S /\ k < i
      <4>1. k \in S /\ k < i /\ k \in Nat /\ i \in Nat
        BY <1>0, <3>1, <3>5
      <4>2. \A j \in S : j <= k => j \in D
        BY <1>0, <4>1
      <4>3. \A j \in D : j \in S /\ j <= k
        BY <3>1, <3>5
      <4> QED BY <4>1, <4>2, <4>3
    <3>7. k \in T
      <4> HIDE DEF Upto
      <4> QED BY <3>3, <3>6
    <3> QED BY <2>2, <3>1, <3>6, <3>7
  <2> QED BY <2>2, <2>3
<1>6. ASSUME NEW i \in S, NEW k \in S, Cardinality(Upto(i)) = Cardinality(Upto(k)) PROVE i = k
  <2>1. ~(i < k) /\ ~(k < i)
    <3> HIDE DEF Upto
    <3> QED BY <1>2, <1>3, <1>6
  <2> QED BY <2>1
<1>7. \A i \in S : Cardinality(Upto(i)) \in 1 .. Cardinality(S)
  <2> HIDE DEF Upto
  <2> QED BY <1>1, <1>2, <1>4
<1>8. \A i : Rank(S, i) = Cardinality(Upto(i))
  BY DEF Rank
<1> HIDE DEF Upto
<1> QED BY <1>5, <1>6, <1>7, <1>8

\* What is picked, with the rank of each index as its new place.
LEMMA PickedIs ==
    ASSUME NEW at, IndexSet(at)
    PROVE  /\ Cardinality(at) \in Nat
           /\ \A s : /\ DOMAIN Picked(s, at) = 1 .. Cardinality(at)
                     /\ \A i \in at : /\ Rank(at, i) \in 1 .. Cardinality(at)
                                      /\ Picked(s, at)[Rank(at, i)] = s[i]
                     /\ \A n \in 1 .. Cardinality(at) :
                            \E i \in at : Rank(at, i) = n /\ Picked(s, at)[n] = s[i]
<1> PICK k : k = Cardinality(at)
  OBVIOUS
<1> DEFINE Nth(n) == CHOOSE i \in at : Rank(at, i) = n
<1>0. k \in Nat
  BY IndexSetFinite
<1>1. \A s : Picked(s, at) = [n \in 1 .. k |-> s[Nth(n)]]
  BY DEF Picked
<1>2. ASSUME NEW n \in 1 .. k PROVE Nth(n) \in at /\ Rank(at, Nth(n)) = n
  <2>1. \E i \in at : Rank(at, i) = n
    BY Counted
  <2> QED BY <2>1
<1>3. ASSUME NEW i \in at PROVE Rank(at, i) \in 1 .. k /\ Nth(Rank(at, i)) = i
  <2> PICK n : n = Rank(at, i)
    OBVIOUS
  <2>1. n \in 1 .. k
    BY Counted
  <2>2. Nth(n) \in at /\ Rank(at, Nth(n)) = n
    BY <1>2, <2>1
  <2> HIDE DEF Nth
  <2>3. Nth(n) = i
    BY <2>2, Counted
  <2> QED BY <2>1, <2>3
<1> HIDE DEF Nth
<1>4. ASSUME NEW s
      PROVE  /\ DOMAIN Picked(s, at) = 1 .. k
             /\ \A i \in at : Picked(s, at)[Rank(at, i)] = s[i]
             /\ \A n \in 1 .. k : \E i \in at : Rank(at, i) = n /\ Picked(s, at)[n] = s[i]
  <2>1. \A n \in 1 .. k : Picked(s, at)[n] = s[Nth(n)]
    BY <1>1
  <2>2. ASSUME NEW i \in at PROVE Picked(s, at)[Rank(at, i)] = s[i]
    <3>1. Picked(s, at)[Rank(at, i)] = s[Nth(Rank(at, i))]
      BY <1>3, <2>1
    <3> QED BY <1>3, <3>1
  <2>3. ASSUME NEW n \in 1 .. k PROVE \E i \in at : Rank(at, i) = n /\ Picked(s, at)[n] = s[i]
    BY <1>2, <2>1
  <2>4. DOMAIN Picked(s, at) = 1 .. k
    BY <1>1
  <2> QED BY <2>2, <2>3, <2>4
<1> QED BY <1>0, <1>3, <1>4

LEMMA PickedSeq ==
    ASSUME NEW s, NEW S, NEW at, IndexSet(at), \A i \in at : s[i] \in S
    PROVE  Picked(s, at) \in Seq(S) /\ Len(Picked(s, at)) = Cardinality(at)
<1> PICK k : k = Cardinality(at)
  OBVIOUS
<1> PICK p : p = Picked(s, at)
  OBVIOUS
<1>1. k \in Nat /\ DOMAIN p = 1 .. k
  BY PickedIs
<1>2. \A n \in 1 .. k : \E i \in at : p[n] = s[i]
  <2>1. \A n \in 1 .. Cardinality(at) :
            \E i \in at : Rank(at, i) = n /\ Picked(s, at)[n] = s[i]
    BY PickedIs
  <2> QED BY <2>1
<1>3. p = [n \in 1 .. k |-> p[n]]
  BY <1>1 DEF Picked
<1>4. p \in [1 .. k -> S]
  BY <1>2, <1>3
<1>5. p \in Seq(S) /\ Len(p) = k
  BY <1>1, <1>4
<1> QED BY <1>5

\* The indices above a, as far as b.
Within(at, a, b) == {i \in at : a < i /\ i <= b}

LEMMA RankAdds ==
    ASSUME NEW at, IndexSet(at), NEW a \in Nat, NEW b \in Nat, a <= b
    PROVE  /\ Rank(at, a) \in Nat /\ Rank(at, b) \in Nat
           /\ Rank(at, a) <= Rank(at, b) /\ Rank(at, b) <= Cardinality(at)
           /\ Cardinality(Within(at, a, b)) = Rank(at, b) - Rank(at, a)
<1> PICK l \in Nat : at \subseteq 1 .. l
  BY DEF IndexSet
<1> PICK A : A = {i \in at : i <= a}
  OBVIOUS
<1> PICK B : B = {i \in at : i <= b}
  OBVIOUS
<1> PICK D : D = Within(at, a, b)
  OBVIOUS
<1>1. \A i \in at : i \in Nat
  OBVIOUS
<1>2. A \subseteq B /\ B \subseteq at /\ D = B \ A /\ B \cap A = A
  <2>1. \A i : i \in A <=> i \in at /\ i <= a
    OBVIOUS
  <2>2. \A i : i \in B <=> i \in at /\ i <= b
    OBVIOUS
  <2>3. \A i : i \in D <=> i \in at /\ a < i /\ i <= b
    BY DEF Within
  <2>4. \A i \in at : (i <= a => i <= b) /\ (a < i <=> ~(i <= a))
    BY <1>1
  <2> QED BY <2>1, <2>2, <2>3, <2>4
<1>3. IsFiniteSet(at)
  BY IndexSetFinite
<1>4. /\ IsFiniteSet(A) /\ IsFiniteSet(B)
      /\ Cardinality(A) <= Cardinality(B) /\ Cardinality(B) <= Cardinality(at)
  BY <1>2, <1>3, FS_Subset
<1>5. Cardinality(A) \in Nat /\ Cardinality(B) \in Nat
  BY <1>4, FS_CardinalityType
<1>6. Cardinality(D) = Cardinality(B) - Cardinality(A)
  BY <1>2, <1>4, FS_Difference
<1>7. Rank(at, a) = Cardinality(A) /\ Rank(at, b) = Cardinality(B)
  BY DEF Rank
<1> QED BY <1>4, <1>5, <1>6, <1>7

\* What is picked between two indices is a part of what is picked.
LEMMA PickedPart ==
    ASSUME NEW s, NEW at, NEW a \in Nat, NEW b \in Nat, a <= b, IndexSet(at)
    PROVE  Picked(s, Within(at, a, b)) = SubSeq(Picked(s, at), Rank(at, a) + 1, Rank(at, b))
<1> PICK part : part = Within(at, a, b)
  OBVIOUS
<1> PICK S : S = {s[i] : i \in at}
  OBVIOUS
<1>0. \A i \in at : s[i] \in S
  OBVIOUS
<1> PICK A : A = Rank(at, a)
  OBVIOUS
<1> PICK B : B = Rank(at, b)
  OBVIOUS
<1> PICK p : p = Picked(s, part)
  OBVIOUS
<1> PICK w : w = Picked(s, at)
  OBVIOUS
<1> PICK u : u = SubSeq(w, A + 1, B)
  OBVIOUS
<1>1. A \in Nat /\ B \in Nat /\ A <= B /\ B <= Cardinality(at) /\ Cardinality(part) = B - A
  BY RankAdds
<1>2. /\ IndexSet(part) /\ at \subseteq Nat /\ part \subseteq at
      /\ \A i : i \in part <=> i \in at /\ a < i /\ i <= b
  <2>1. \A i : i \in part <=> i \in at /\ a < i /\ i <= b
    BY DEF Within
  <2>2. PICK l \in Nat : at \subseteq 1 .. l
    BY DEF IndexSet
  <2>3. at \subseteq Nat
    BY <2>2
  <2>4. part \subseteq 1 .. l /\ part \subseteq at
    BY <2>1, <2>2
  <2>5. IndexSet(part)
    BY <2>4 DEF IndexSet
  <2> QED BY <2>1, <2>3, <2>4, <2>5
<1>3. p \in Seq(S) /\ Len(p) = B - A
  BY <1>0, <1>1, <1>2, PickedSeq
<1>5. w \in Seq(S) /\ Len(w) = Cardinality(at) /\ Cardinality(at) \in Nat
  BY <1>0, PickedIs, PickedSeq
<1>6. \A i \in A + 1 .. B : w[i] \in S
  <2>1. \A i \in A + 1 .. B : i \in 1 .. Len(w)
    BY <1>1, <1>5
  <2> QED BY <1>5, <2>1
<1>7. /\ u \in Seq(S) /\ Len(u) = B - A
      /\ \A m \in 1 .. B - A : u[m] = w[A + m]
  <2>1. A + 1 \in Int /\ B \in Int
    BY <1>1
  <2>2. /\ u \in Seq(S) /\ Len(u) = IF A + 1 <= B THEN B - (A + 1) + 1 ELSE 0
        /\ \A m \in 1 .. B - (A + 1) + 1 : u[m] = w[A + 1 + m - 1]
    BY <1>6, <2>1, SubSeqProperties
  <2>3. B - (A + 1) + 1 = B - A /\ (~(A + 1 <= B) => 0 = B - A)
    BY <1>1
  <2>4. \A m \in 1 .. B - A : A + 1 + m - 1 = A + m
    BY <1>1
  <2>5. Len(u) = B - A
    BY <2>2, <2>3
  <2> QED BY <2>2, <2>3, <2>4, <2>5
<1>8. ASSUME NEW m \in 1 .. B - A PROVE p[m] = u[m]
  <2>1. PICK i \in part : Rank(part, i) = m /\ p[m] = s[i]
    <3>1. \A n \in 1 .. Cardinality(part) :
              \E i \in part : Rank(part, i) = n /\ Picked(s, part)[n] = s[i]
      <4>1. IndexSet(part)
        BY <1>2
      <4> QED BY <4>1, PickedIs
    <3>2. m \in 1 .. Cardinality(part)
      BY <1>1
    <3> QED BY <3>1, <3>2
  <2>2. i \in Nat /\ a <= i /\ i <= b /\ i \in at
    BY <1>2
  <2>3. Rank(part, i) = Cardinality(Within(at, a, i))
    <3> PICK P : P = {j \in part : j <= i}
      OBVIOUS
    <3> PICK W : W = Within(at, a, i)
      OBVIOUS
    <3>1. \A j \in at : j \in Nat
      BY <1>2
    <3>2. \A j \in at : j <= i => j <= b
      BY <2>2, <3>1
    <3>3. \A j : j \in W <=> j \in at /\ a < j /\ j <= i
      BY DEF Within
    <3>4. \A j : j \in P <=> j \in part /\ j <= i
      OBVIOUS
    <3>5. P = W
      BY <1>2, <3>2, <3>3, <3>4
    <3> QED BY <3>5 DEF Rank
  <2>4. Cardinality(Within(at, a, i)) = Rank(at, i) - A /\ Rank(at, i) \in Nat
    BY <2>2, RankAdds
  <2>5. m = Rank(at, i) - A
    BY <2>1, <2>3, <2>4
  <2>6. Rank(at, i) = A + m
    BY <1>1, <2>4, <2>5
  <2>7. w[Rank(at, i)] = s[i]
    <3>1. Picked(s, at)[Rank(at, i)] = s[i]
      BY <2>2, PickedIs
    <3> QED BY <3>1
  <2> QED BY <1>7, <2>1, <2>6, <2>7
<1>9. p = u
  BY <1>3, <1>7, <1>8, SeqEqual
<1> QED BY <1>9
=============================================================================
