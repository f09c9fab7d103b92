---------------------------- MODULE SequenceLemmas ----------------------------
(***************************************************************************)
(* Lemmas about numbers and sequences that the proofs of the components     *)
(* need: the least element of a set of numbers, induction over a set of     *)
(* them, a sequence without one of its elements, folds, and Kept.           *)
(***************************************************************************)
EXTENDS Subsequences, SequencesExt, FiniteSetTheorems, SequenceTheorems,
        WellFoundedInduction, TLAPS

(* A set of numbers that is not empty has a least element.                  *)
LEMMA LeastNumber ==
  ASSUME NEW T \in SUBSET Nat, T # {}
  PROVE  \E n \in T : \A m \in T : n <= m
<1> DEFINE R == {s \in Nat \X Nat : s[1] < s[2]}
<1>1. IsWellFoundedOn(OpToRel(<, Nat), Nat)
  BY NatLessThanWellFounded, Zenon
<1>2. OpToRel(<, Nat) = R
  BY Zenon DEF OpToRel
<1>3. IsWellFoundedOn(R, Nat)
  BY <1>1, <1>2, Zenon
<1> HIDE DEF R
<1>4. PICK n \in T : \A m \in T : ~(<<m, n>> \in R)
  BY <1>3, WFMin, Zenon
<1>5. ASSUME NEW m \in T PROVE n <= m
  <2>1. <<m, n>> \in Nat \X Nat /\ ~(<<m, n>> \in R)
    BY <1>4
  <2> QED
    BY <2>1 DEF R
<1> QED
  BY <1>4, <1>5

(* So has, up to a bound, a greatest one.                                   *)
LEMMA GreatestNumber ==
  ASSUME NEW n \in Nat, NEW T \in SUBSET (1..n), T # {}
  PROVE  \E i \in T : \A j \in T : j <= i
<1> DEFINE D == {n - i : i \in T}
<1>1. D \in SUBSET Nat /\ D # {}
  <2>1. \A i \in T : n - i \in Nat
    OBVIOUS
  <2> QED
    BY <2>1
<1>2. PICK d \in D : \A m \in D : d <= m
  BY <1>1, LeastNumber
<1>3. PICK i \in T : d = n - i
  BY <1>2
<1>4. \A j \in T : n - i <= n - j
  BY <1>2, <1>3
<1> QED
  BY <1>4

(* Induction, over a set: the one that says a property of every number.     *)
LEMMA Induction ==
  ASSUME NEW T \in SUBSET Nat, 0 \in T, \A n \in T : n + 1 \in T
  PROVE  T = Nat
<1> SUFFICES ASSUME Nat \ T # {} PROVE FALSE
  OBVIOUS
<1>1. PICK n \in Nat \ T : \A m \in Nat \ T : n <= m
  BY LeastNumber
<1>2. n # 0 /\ n - 1 \in Nat /\ n - 1 \notin T
  BY <1>1
<1> QED
  BY <1>1, <1>2

(* The sequence without its i-th element.                                   *)
LEMMA RemoveAtProperties ==
  ASSUME NEW S, NEW s \in Seq(S), NEW i \in 1..Len(s)
  PROVE  /\ Len(RemoveAt(s, i)) = Len(s) - 1
         /\ \A j \in 1..(Len(s) - 1) :
              RemoveAt(s, i)[j] = IF j < i THEN s[j] ELSE s[j + 1]
<1> DEFINE left == SubSeq(s, 1, i - 1)
           right == SubSeq(s, i + 1, Len(s))
<1>1. /\ left \in Seq(S) /\ Len(left) = i - 1
      /\ \A j \in 1..(i - 1) : left[j] = s[j]
  BY SubSeqProperties
<1>2. /\ right \in Seq(S) /\ Len(right) = Len(s) - i
      /\ \A j \in 1..(Len(s) - i) : right[j] = s[j + i]
  BY SubSeqProperties
<1> HIDE DEF left, right
<1>3. /\ Len(left \o right) = Len(left) + Len(right)
      /\ \A j \in 1..(Len(left) + Len(right)) :
           (left \o right)[j] = IF j <= Len(left) THEN left[j]
                               ELSE right[j - Len(left)]
  BY <1>1, <1>2, ConcatProperties
<1>4. RemoveAt(s, i) = left \o right
  BY DEF RemoveAt, left, right
<1>5. Len(s) \in Nat /\ i \in Nat
  OBVIOUS
<1>6. Len(left) + Len(right) = Len(s) - 1
  BY <1>1, <1>2, <1>5
<1>7. ASSUME NEW j \in 1..(Len(s) - 1)
      PROVE  (left \o right)[j] = IF j < i THEN s[j] ELSE s[j + 1]
  <2>1. CASE j < i
    <3>1. j \in 1..(i - 1) /\ j <= Len(left)
      BY <1>1, <1>5, <2>1
    <3> QED
      BY <1>1, <1>3, <1>6, <2>1, <3>1
  <2>2. CASE ~(j < i)
    <3>1. /\ j - Len(left) \in 1..(Len(s) - i) /\ ~(j <= Len(left))
          /\ (j - Len(left)) + i = j + 1
      BY <1>1, <1>5, <2>2
    <3> QED
      BY <1>2, <1>3, <1>6, <2>2, <3>1
  <2> QED
    BY <2>1, <2>2
<1> QED
  BY <1>3, <1>4, <1>6, <1>7

(* The element taken out leaves the type alone; Tail takes out the first.   *)
LEMMA RemoveAtType ==
  ASSUME NEW S, NEW s \in Seq(S), NEW i \in 1..Len(s)
  PROVE  RemoveAt(s, i) \in Seq(S)
BY DEF RemoveAt

LEMMA TailIsRemoveAt ==
  ASSUME NEW S, NEW s \in Seq(S), s # <<>>
  PROVE  1 \in 1..Len(s) /\ Tail(s) = RemoveAt(s, 1)
<1>1. 1 \in 1..Len(s) /\ Len(s) \in Nat
  OBVIOUS
<1>2. /\ RemoveAt(s, 1) \in Seq(S)
      /\ Len(RemoveAt(s, 1)) = Len(s) - 1
      /\ \A j \in 1..(Len(s) - 1) : RemoveAt(s, 1)[j] = IF j < 1 THEN s[j] ELSE s[j + 1]
  BY <1>1, RemoveAtType, RemoveAtProperties
<1>3. /\ Tail(s) \in Seq(S)
      /\ Len(Tail(s)) = Len(s) - 1
      /\ \A j \in 1..(Len(s) - 1) : Tail(s)[j] = s[j + 1]
  OBVIOUS
<1>4. \A j \in 1..(Len(s) - 1) : RemoveAt(s, 1)[j] = Tail(s)[j]
  BY <1>1, <1>2, <1>3
<1> QED
  BY <1>1, <1>2, <1>3, <1>4, SeqEqual

-----------------------------------------------------------------------------
(* Folds over the positions of a sequence, last position first.             *)

LEMMA MaxProperties ==
  ASSUME NEW n \in Nat
  PROVE  /\ \A S \in SUBSET (1..n) : S # {} => Max(S) \in S
         /\ \A S \in SUBSET (1..n) : n \in S => Max(S) = n
         /\ \A i \in 1..n : /\ 1..i \in SUBSET (1..n) /\ 1..i # {}
                            /\ Max(1..i) = i /\ (1..i) \ {i} = 1..(i - 1)
<1>1. ASSUME NEW S \in SUBSET (1..n), S # {}
      PROVE  Max(S) \in S /\ \A j \in S : Max(S) >= j
  <2>1. PICK i \in S : \A j \in S : j <= i
    BY <1>1, GreatestNumber
  <2>2. \A j \in S : i >= j
    BY <2>1
  <2> QED
    BY <2>2 DEF Max
<1>2. ASSUME NEW S \in SUBSET (1..n), n \in S PROVE Max(S) = n
  <2>1. Max(S) \in S /\ Max(S) >= n
    BY <1>1, <1>2
  <2>2. Max(S) \in 1..n
    BY <2>1
  <2> DEFINE m == Max(S)
  <2>3. m \in 1..n /\ m >= n
    BY <2>1, <2>2
  <2> HIDE DEF m
  <2>4. m = n
    BY <2>3
  <2> QED
    BY <2>4 DEF m
<1>3. ASSUME NEW i \in 1..n
      PROVE  /\ 1..i \in SUBSET (1..n) /\ i \in 1..i
             /\ (1..i) \ {i} = 1..(i - 1)
  OBVIOUS
<1>4. ASSUME NEW i \in 1..n PROVE Max(1..i) = i
  <2>1. 1..i \in SUBSET (1..n) /\ i \in 1..i
    BY <1>3
  <2>2. Max(1..i) \in 1..i /\ Max(1..i) >= i
    BY <1>1, <2>1
  <2> QED
    BY <2>2
<1> QED
  BY <1>1, <1>2, <1>3, <1>4

(* What folds every set of positions, with a step for each position.        *)
FoldsSets(iter, n, base, g) ==
  \A S \in SUBSET (1..n) :
    iter[S] = IF S = {} THEN base ELSE g[Max(S)][iter[S \ {Max(S)}]]

(* There is such a function.                                                *)
LEMMA FoldExists ==
  ASSUME NEW n \in Nat, NEW X, NEW base \in X, NEW g \in [1..n -> [X -> X]]
  PROVE  \E iter \in [SUBSET (1..n) -> X] : FoldsSets(iter, n, base, g)
<1> DEFINE Folds(iter, k) ==
             \A S \in SUBSET (1..k) :
               iter[S] = IF S = {} THEN base
                         ELSE g[Max(S)][iter[S \ {Max(S)}]]
           Good(k) == \E iter \in [SUBSET (1..n) -> X] : Folds(iter, k)
           T == {k \in Nat : k <= n => Good(k)}
<1>1. Good(0)
  <2> DEFINE iter == [S \in SUBSET (1..n) |-> base]
  <2>1. iter \in [SUBSET (1..n) -> X]
    OBVIOUS
  <2>2. \A S \in SUBSET (1..0) : S = {} /\ S \in SUBSET (1..n)
    OBVIOUS
  <2>3. Folds(iter, 0)
    BY <2>2
  <2> QED
    BY <2>1, <2>3
<1>2. ASSUME NEW k \in Nat, k + 1 <= n, Good(k) PROVE Good(k + 1)
  <2>1. PICK old \in [SUBSET (1..n) -> X] : Folds(old, k)
    BY <1>2
  <2> DEFINE iter == [S \in SUBSET (1..n) |->
                        IF k + 1 \in S THEN g[k + 1][old[S \ {k + 1}]]
                        ELSE old[S]]
  <2>2. k \in Nat /\ k + 1 \in 1..n
    BY <1>2
  <2>3. iter \in [SUBSET (1..n) -> X]
    <3>1. \A S \in SUBSET (1..n) : old[S] \in X /\ S \ {k + 1} \in SUBSET (1..n)
      OBVIOUS
    <3>2. \A x \in X : g[k + 1][x] \in X
      BY <2>2
    <3> QED
      BY <3>1, <3>2
  <2>4. ASSUME NEW S \in SUBSET (1..(k + 1))
        PROVE  iter[S] = IF S = {} THEN base
                         ELSE g[Max(S)][iter[S \ {Max(S)}]]
    <3>1. S \in SUBSET (1..n) /\ 1..k \in SUBSET (1..n)
      BY <2>2
    <3>2. CASE k + 1 \in S
      <4>1. Max(S) = k + 1 /\ S # {}
        BY <2>2, <3>2, MaxProperties
      <4>2. S \ {k + 1} \in SUBSET (1..n) /\ k + 1 \notin S \ {k + 1}
        BY <3>1
      <4>3. iter[S \ {k + 1}] = old[S \ {k + 1}]
        BY <4>2
      <4>4. iter[S] = g[k + 1][old[S \ {k + 1}]]
        BY <3>1, <3>2
      <4> HIDE DEF iter
      <4> QED
        BY <4>1, <4>3, <4>4
    <3>3. CASE k + 1 \notin S
      <4>1. S \in SUBSET (1..k)
        BY <2>2, <3>3
      <4>2. iter[S] = old[S]
        BY <3>1, <3>3
      <4>3. CASE S = {}
        BY <2>1, <4>1, <4>2, <4>3
      <4>4. CASE S # {}
        <5>1. Max(S) \in S
          BY <2>2, <4>1, <4>4, MaxProperties
        <5>2. iter[S \ {Max(S)}] = old[S \ {Max(S)}]
          <6>1. S \ {Max(S)} \in SUBSET (1..n) /\ k + 1 \notin S \ {Max(S)}
            BY <3>1, <3>3
          <6> QED
            BY <6>1
        <5> HIDE DEF iter
        <5> QED
          BY <2>1, <4>1, <4>2, <4>4, <5>2
      <4> QED
        BY <4>3, <4>4
    <3> QED
      BY <3>2, <3>3
  <2> HIDE DEF iter
  <2> QED
    BY <2>3, <2>4
<1> HIDE DEF Good
<1>3. 0 \in T
  BY <1>1
<1>4. ASSUME NEW k \in T PROVE k + 1 \in T
  <2>1. k \in Nat /\ (k + 1 <= n => k <= n)
    OBVIOUS
  <2> QED
    BY <1>2, <2>1
<1>5. T \in SUBSET Nat
  OBVIOUS
<1>6. T = Nat
  <2> HIDE DEF T
  <2> QED
    BY <1>3, <1>4, <1>5, Induction
<1>7. n \in T
  BY <1>6
<1>8. Good(n)
  BY <1>7
<1> QED
  BY <1>8 DEF Good, FoldsSets

(* What climbs step by step gets to the top.                                *)
Climbs(T, n) == 0 \in T /\ \A i \in 1..n : i - 1 \in T => i \in T

LEMMA ClimbsToTheTop ==
  ASSUME NEW n \in Nat, NEW T, Climbs(T, n)
  PROVE  \A i \in 0..n : i \in T
<1> DEFINE K == {k \in Nat : k <= n => k \in T}
<1>1. 0 \in K
  BY DEF Climbs
<1>2. ASSUME NEW k \in K PROVE k + 1 \in K
  <2> SUFFICES ASSUME k + 1 <= n PROVE k + 1 \in T
    OBVIOUS
  <2>1. k + 1 \in 1..n /\ (k + 1) - 1 = k /\ k \in T
    OBVIOUS
  <2> QED
    BY <2>1 DEF Climbs
<1>3. K \in SUBSET Nat
  OBVIOUS
<1> HIDE DEF K
<1>4. K = Nat
  BY <1>1, <1>2, <1>3, Induction
<1> QED
  BY <1>4 DEF K

(* Two that begin with the same and take the same steps are the same.       *)
StepsAlike(V, W, n) ==
  \A i \in 1..n : V[i - 1] = W[i - 1] => V[i] = W[i]

LEMMA SameSteps ==
  ASSUME NEW n \in Nat, NEW V, NEW W, V[0] = W[0], StepsAlike(V, W, n)
  PROVE  \A i \in 0..n : V[i] = W[i]
<1> DEFINE T == {i \in 0..n : V[i] = W[i]}
<1>1. Climbs(T, n)
  BY DEF Climbs, StepsAlike
<1> HIDE DEF T
<1>2. \A i \in 0..n : i \in T
  BY <1>1, ClimbsToTheTop
<1> QED
  BY <1>2 DEF T

-----------------------------------------------------------------------------
(* Kept.                                                                    *)

(* The positions of S up to i are finitely many, and one more if i is one.  *)
LEMMA UptoProperties ==
  ASSUME NEW n \in Nat, NEW S \in SUBSET (1..n)
  PROVE  /\ IsFiniteSet(S) /\ Cardinality(S) \in 0..n
         /\ \A i \in Nat : IsFiniteSet(Upto(S, i)) /\ Cardinality(Upto(S, i)) \in Nat
         /\ \A i \in S : Cardinality(Upto(S, i)) = Cardinality(Upto(S, i - 1)) + 1
         /\ \A i, j \in S : i < j => Cardinality(Upto(S, i)) < Cardinality(Upto(S, j))
<1>0. \A i \in S : i \in Nat /\ i - 1 \in Nat /\ 1 <= i /\ i <= n
  OBVIOUS
<1>1. IsFiniteSet(1..n) /\ Cardinality(1..n) = n
  BY FS_Interval
<1>2. IsFiniteSet(S) /\ Cardinality(S) <= n
  BY <1>1, FS_Subset
<1>3. Cardinality(S) \in Nat
  BY <1>2, FS_CardinalityType
<1>4. \A i \in Nat : IsFiniteSet(Upto(S, i)) /\ Cardinality(Upto(S, i)) \in Nat
  BY <1>2, FS_Subset, FS_CardinalityType DEF Upto
<1>5. ASSUME NEW i \in S
      PROVE  Cardinality(Upto(S, i)) = Cardinality(Upto(S, i - 1)) + 1
  <2>1. Upto(S, i) = Upto(S, i - 1) \cup {i} /\ i \notin Upto(S, i - 1) /\ i - 1 \in Nat
    <3>1. \A j \in S : j <= i <=> j <= i - 1 \/ j = i
      BY <1>0
    <3>2. ~(i <= i - 1) /\ i - 1 \in Nat
      BY <1>0
    <3>3. \A j : j \in Upto(S, i) <=> j \in Upto(S, i - 1) \cup {i}
      BY <3>1 DEF Upto
    <3> QED
      BY <3>2, <3>3 DEF Upto
  <2> QED
    BY <1>4, <2>1, FS_AddElement
<1>6. ASSUME NEW i \in S, NEW j \in S, i < j
      PROVE  Cardinality(Upto(S, i)) < Cardinality(Upto(S, j))
  <2>1. Upto(S, i) \subseteq Upto(S, j - 1) /\ i \in Nat /\ j - 1 \in Nat
    <3>1. \A m \in S : m <= i => m <= j - 1
      BY <1>0, <1>6
    <3> QED
      BY <1>0, <3>1 DEF Upto
  <2>2. Cardinality(Upto(S, i)) <= Cardinality(Upto(S, j - 1))
    BY <1>4, <2>1, FS_Subset
  <2> QED
    BY <1>4, <1>5, <2>1, <2>2
<1> QED
  BY <1>2, <1>3, <1>4, <1>5, <1>6

(* There is a k-th position of S for every k up to their number, and they   *)
(* are in order.                                                            *)
LEMMA NthProperties ==
  ASSUME NEW n \in Nat, NEW S \in SUBSET (1..n)
  PROVE  /\ \A k \in 1..Cardinality(S) :
              Nth(S, k) \in S /\ Cardinality(Upto(S, Nth(S, k))) = k
         /\ \A k, m \in 1..Cardinality(S) : k < m => Nth(S, k) < Nth(S, m)
         /\ \A i \in S : \E k \in 1..Cardinality(S) : i = Nth(S, k)
<1>0. \A i \in S : i \in Nat /\ i - 1 \in Nat /\ 1 <= i /\ i <= n
  OBVIOUS
<1>1. ASSUME NEW k \in 1..Cardinality(S)
      PROVE  \E j \in S : Cardinality(Upto(S, j)) = k
  <2> DEFINE T == {j \in Nat : k <= Cardinality(Upto(S, j))}
  <2>1. Upto(S, n) = S
    BY <1>0 DEF Upto
  <2>2. n \in T
    BY <2>1, UptoProperties
  <2>3. PICK i \in T : \A j \in T : i <= j
    BY <2>2, LeastNumber
  <2>4. Upto(S, 0) = {}
    <3>1. \A j \in S : ~(j <= 0)
      BY <1>0
    <3> QED
      BY <3>1 DEF Upto
  <2>5. i # 0
    BY <2>4, FS_EmptySet
  <2>6. i - 1 \in Nat /\ i - 1 \notin T
    BY <2>3, <2>5
  <2>7. /\ Cardinality(Upto(S, i - 1)) \in Nat /\ Cardinality(Upto(S, i)) \in Nat
        /\ k \in Nat /\ Cardinality(Upto(S, i - 1)) < k /\ k <= Cardinality(Upto(S, i))
    <3>1. i \in Nat /\ k \in Nat /\ k <= Cardinality(Upto(S, i))
      BY <2>3
    <3>2. /\ Cardinality(Upto(S, i - 1)) \in Nat
          /\ Cardinality(Upto(S, i)) \in Nat
      BY <2>6, <3>1, UptoProperties
    <3> QED
      BY <2>6, <3>1, <3>2
  <2>8. i \in S
    <3> SUFFICES ASSUME i \notin S PROVE FALSE
      OBVIOUS
    <3>1. \A j \in S : j <= i <=> j <= i - 1
      <4>1. i \in Nat
        BY <2>3
      <4> QED
        BY <1>0, <4>1
    <3>2. Upto(S, i) = Upto(S, i - 1)
      BY <3>1 DEF Upto
    <3> QED
      BY <2>7, <3>2
  <2>9. Cardinality(Upto(S, i)) = Cardinality(Upto(S, i - 1)) + 1
    BY <2>8, UptoProperties
  <2> QED
    BY <2>7, <2>8, <2>9
<1>2. \A k \in 1..Cardinality(S) : Nth(S, k) \in S /\ Cardinality(Upto(S, Nth(S, k))) = k
  BY <1>1 DEF Nth
<1>3. ASSUME NEW k \in 1..Cardinality(S), NEW m \in 1..Cardinality(S), k < m
      PROVE  Nth(S, k) < Nth(S, m)
  <2>1. Nth(S, k) \in Nat /\ Nth(S, m) \in Nat /\ Nth(S, k) # Nth(S, m)
    <3>1. k # m
      BY <1>3
    <3> QED
      BY <1>0, <1>2, <3>1
  <2>2. ~(Nth(S, m) < Nth(S, k))
    <3> SUFFICES ASSUME Nth(S, m) < Nth(S, k) PROVE FALSE
      OBVIOUS
    <3>1. Cardinality(Upto(S, Nth(S, m))) < Cardinality(Upto(S, Nth(S, k)))
      BY <1>2, UptoProperties
    <3> QED
      BY <1>2, <1>3, <3>1
  <2> QED
    BY <2>1, <2>2
<1>4. ASSUME NEW i \in S PROVE \E k \in 1..Cardinality(S) : i = Nth(S, k)
  <2>1. i \in Nat /\ i - 1 \in Nat /\ Upto(S, i) \in SUBSET S
    BY <1>0 DEF Upto
  <2>2. Cardinality(Upto(S, i)) <= Cardinality(S)
    BY <2>1, UptoProperties, FS_Subset
  <2>3. /\ Cardinality(Upto(S, i)) = Cardinality(Upto(S, i - 1)) + 1
        /\ Cardinality(Upto(S, i - 1)) \in Nat /\ Cardinality(S) \in Nat
    <3>1. Cardinality(S) \in 0..n
      BY UptoProperties
    <3>2. Cardinality(Upto(S, i - 1)) \in Nat
      BY <2>1, UptoProperties
    <3> QED
      BY <3>1, <3>2, UptoProperties
  <2>4. Cardinality(Upto(S, i)) \in 1..Cardinality(S)
    BY <2>2, <2>3
  <2> DEFINE j == Nth(S, Cardinality(Upto(S, i)))
  <2>5. j \in S /\ Cardinality(Upto(S, j)) = Cardinality(Upto(S, i))
    BY <1>2, <2>4
  <2> HIDE DEF j
  <2>6. ~(i < j) /\ ~(j < i)
    <3>1. i < j => Cardinality(Upto(S, i)) < Cardinality(Upto(S, j))
      BY <2>5, UptoProperties
    <3>2. j < i => Cardinality(Upto(S, j)) < Cardinality(Upto(S, i))
      BY <2>5, UptoProperties
    <3> QED
      BY <2>4, <2>5, <3>1, <3>2
  <2>7. j = i
    BY <1>0, <2>5, <2>6
  <2> QED
    BY <2>4, <2>7 DEF j
<1> QED
  BY <1>2, <1>3, <1>4

(* What is kept of a sequence is a sequence of its elements: those at the   *)
(* positions kept, in their order.                                          *)
LEMMA KeptProperties ==
  ASSUME NEW E, NEW s \in Seq(E), NEW S \in SUBSET (1..Len(s))
  PROVE  /\ Kept(s, S) \in Seq(E)
         /\ Len(Kept(s, S)) = Cardinality(S) /\ Cardinality(S) \in 0..Len(s)
         /\ \A k \in 1..Cardinality(S) :
              Nth(S, k) \in S /\ Kept(s, S)[k] = s[Nth(S, k)]
         /\ \A k, m \in 1..Cardinality(S) : k < m => Nth(S, k) < Nth(S, m)
         /\ \A i \in S : \E k \in 1..Cardinality(S) : i = Nth(S, k)
<1>1. Len(s) \in Nat /\ Cardinality(S) \in 0..Len(s)
  BY UptoProperties
<1>2. \A k \in 1..Cardinality(S) : Nth(S, k) \in S
  BY <1>1, NthProperties
<1>3. \A k \in 1..Cardinality(S) : s[Nth(S, k)] \in E
  <2>1. \A i \in S : s[i] \in E
    OBVIOUS
  <2> QED
    BY <1>2, <2>1
<1>4. Kept(s, S) \in Seq(E) /\ Len(Kept(s, S)) = Cardinality(S)
  BY <1>1, <1>3 DEF Kept
<1>5. \A k \in 1..Cardinality(S) : Kept(s, S)[k] = s[Nth(S, k)]
  BY DEF Kept
<1> QED
  BY <1>1, <1>2, <1>4, <1>5, NthProperties

(* All of a sequence.                                                       *)
LEMMA KeptAll ==
  ASSUME NEW E, NEW s \in Seq(E)
  PROVE  Kept(s, 1..Len(s)) = s
<1> DEFINE n == Len(s)
<1>1. n \in Nat /\ Cardinality(1..n) = n
  <2>1. n \in Nat
    OBVIOUS
  <2> QED
    BY <2>1, FS_Interval
<1>2. ASSUME NEW i \in 1..n PROVE Cardinality(Upto(1..n, i)) = i
  <2>1. Upto(1..n, i) = 1..i
    BY <1>1 DEF Upto
  <2>2. i \in Nat
    OBVIOUS
  <2> QED
    BY <2>1, <2>2, FS_Interval
<1>3. \A k \in 1..n : Nth(1..n, k) \in 1..n /\ Cardinality(Upto(1..n, Nth(1..n, k))) = k
  BY <1>1, NthProperties
<1>4. \A k \in 1..n : Nth(1..n, k) = k
  BY <1>2, <1>3
<1>5. Kept(s, 1..n) = [k \in 1..n |-> s[k]]
  BY <1>1, <1>4 DEF Kept
<1> QED
  BY <1>5
=============================================================================
