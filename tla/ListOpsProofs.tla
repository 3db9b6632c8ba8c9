---------------------------- MODULE ListOpsProofs ----------------------------
(***************************************************************************)
(* What the list operators do to the members of a list, for lists of every *)
(* length: stated once here and cited by the proofs about the queues.      *)
(***************************************************************************)
EXTENDS ListOps, SequenceTheorems, FiniteSetTheorems, FunctionTheorems,
        WellFoundedInduction, TLAPS

(* A list without duplicates, and the same said with positions.            *)
NoDup(q) == \A i, j \in 1..Len(q) : q[i] = q[j] => i = j

LEMMA NoDupIsInjective ==
  ASSUME NEW T, NEW q \in Seq(T)
  PROVE  NoDup(q) <=> IsInjective(q)
<1>1. DOMAIN q = 1..Len(q)
  BY LenProperties
<1> QED
  BY <1>1 DEF NoDup, IsInjective

(* enqueue adds one process at the end.                                    *)
LEMMA AppendRange ==
  ASSUME NEW T, NEW q \in Seq(T), NEW e \in T
  PROVE  /\ Append(q, e) \in Seq(T)
         /\ Range(Append(q, e)) = Range(q) \cup {e}
         /\ IsInjective(q) /\ e \notin Range(q) => IsInjective(Append(q, e))
<1>1. /\ Append(q, e) \in Seq(T)
      /\ Len(Append(q, e)) = Len(q) + 1
      /\ \A i \in 1..Len(q) : Append(q, e)[i] = q[i]
      /\ Append(q, e)[Len(q) + 1] = e
  BY AppendProperties
<1>2. Len(q) \in Nat /\ DOMAIN q = 1..Len(q)
  BY LenProperties
<1>3. DOMAIN Append(q, e) = 1..(Len(q) + 1)
  BY <1>1, LenProperties
<1>4. Range(Append(q, e)) = Range(q) \cup {e}
  BY <1>1, <1>2, <1>3 DEF Range
<1>5. ASSUME IsInjective(q), e \notin Range(q)
      PROVE  IsInjective(Append(q, e))
  BY <1>1, <1>2, <1>3, <1>5 DEF IsInjective, Range
<1> QED
  BY <1>1, <1>4, <1>5

(* dequeue takes exactly one process away.                                 *)
LEMMA TailRange ==
  ASSUME NEW T, NEW q \in Seq(T), q # <<>>
  PROVE  /\ Head(q) \in T /\ Head(q) \in Range(q)
         /\ Tail(q) \in Seq(T)
         /\ IsInjective(q) => /\ Range(Tail(q)) = Range(q) \ {Head(q)}
                              /\ IsInjective(Tail(q))
<1>1. /\ Head(q) \in T
      /\ Tail(q) \in Seq(T)
      /\ Len(Tail(q)) = Len(q) - 1
      /\ \A i \in 1..Len(Tail(q)) : Tail(q)[i] = q[i + 1]
  BY HeadTailProperties
<1>2. Len(q) \in Nat \ {0} /\ DOMAIN q = 1..Len(q)
  BY LenProperties, EmptySeq
<1>3. DOMAIN Tail(q) = 1..(Len(q) - 1)
  BY <1>1, LenProperties
<1>4. Head(q) = q[1]
  BY <1>2
<1>5. Head(q) \in Range(q)
  BY <1>2, <1>4 DEF Range
<1>6. ASSUME IsInjective(q)
      PROVE  Range(Tail(q)) = Range(q) \ {Head(q)} /\ IsInjective(Tail(q))
  <2>1. \A i \in 1..(Len(q) - 1) : i + 1 \in 1..Len(q) /\ Tail(q)[i] = q[i + 1]
    BY <1>1, <1>2
  <2>2. IsInjective(Tail(q))
    BY <1>2, <1>3, <1>6, <2>1 DEF IsInjective
  <2>3. \A i \in 1..Len(q) : i # 1 => i - 1 \in 1..(Len(q) - 1) /\ Tail(q)[i - 1] = q[i]
    BY <1>1, <1>2
  <2>4. \A i \in 1..Len(q) : i # 1 => q[i] # q[1]
    BY <1>2, <1>6 DEF IsInjective
  <2>5. Range(Tail(q)) \subseteq Range(q) \ {Head(q)}
    BY <1>2, <1>3, <1>4, <2>1, <2>4 DEF Range
  <2>6. Range(q) \ {Head(q)} \subseteq Range(Tail(q))
    <3>1. ASSUME NEW x \in Range(q), x # Head(q)
          PROVE  x \in Range(Tail(q))
      <4>1. PICK i \in 1..Len(q) : q[i] = x
        BY <1>2 DEF Range
      <4>2. i - 1 \in DOMAIN Tail(q) /\ Tail(q)[i - 1] = x
        BY <1>3, <1>4, <2>3, <3>1, <4>1
      <4> QED
        BY <4>2 DEF Range
    <3> QED
      BY <3>1
  <2> QED
    BY <2>2, <2>5, <2>6
<1> QED
  BY <1>1, <1>5, <1>6

LEMMA ConcatRange ==
  ASSUME NEW T, NEW q \in Seq(T), NEW r \in Seq(T)
  PROVE  /\ q \o r \in Seq(T)
         /\ Range(q \o r) = Range(q) \cup Range(r)
         /\ IsInjective(q) /\ IsInjective(r) /\ Range(q) \cap Range(r) = {}
              => IsInjective(q \o r)
<1>1. /\ q \o r \in Seq(T)
      /\ Len(q \o r) = Len(q) + Len(r)
      /\ \A i \in 1..(Len(q) + Len(r)) :
           (q \o r)[i] = IF i <= Len(q) THEN q[i] ELSE r[i - Len(q)]
  BY ConcatProperties
<1>2. /\ Len(q) \in Nat /\ DOMAIN q = 1..Len(q)
      /\ Len(r) \in Nat /\ DOMAIN r = 1..Len(r)
      /\ DOMAIN (q \o r) = 1..(Len(q) + Len(r))
  BY <1>1, LenProperties
<1>3. Range(q \o r) = Range(q) \cup Range(r)
  BY RangeConcatenation
<1>4. ASSUME IsInjective(q), IsInjective(r), Range(q) \cap Range(r) = {}
      PROVE  IsInjective(q \o r)
  <2> SUFFICES ASSUME NEW i \in 1..(Len(q) + Len(r)),
                      NEW j \in 1..(Len(q) + Len(r)),
                      (q \o r)[i] = (q \o r)[j]
               PROVE  i = j
    BY <1>2 DEF IsInjective
  <2>1. CASE i <= Len(q) /\ j <= Len(q)
    BY <1>1, <1>2, <1>4, <2>1 DEF IsInjective
  <2>2. CASE i > Len(q) /\ j > Len(q)
    <3>1. i - Len(q) \in DOMAIN r /\ j - Len(q) \in DOMAIN r
      BY <1>2, <2>2
    <3>2. r[i - Len(q)] = r[j - Len(q)]
      BY <1>1, <1>2, <2>2
    <3>3. i - Len(q) = j - Len(q)
      BY <1>4, <3>1, <3>2 DEF IsInjective
    <3> QED
      BY <1>2, <3>3
  <2>3. CASE i <= Len(q) /\ j > Len(q)
    <3>1. q[i] = r[j - Len(q)] /\ i \in DOMAIN q /\ j - Len(q) \in DOMAIN r
      BY <1>1, <1>2, <2>3
    <3> QED
      BY <1>4, <3>1 DEF Range
  <2>4. CASE i > Len(q) /\ j <= Len(q)
    <3>1. q[j] = r[i - Len(q)] /\ j \in DOMAIN q /\ i - Len(q) \in DOMAIN r
      BY <1>1, <1>2, <2>4
    <3> QED
      BY <1>4, <3>1 DEF Range
  <2> QED
    BY <1>2, <2>1, <2>2, <2>3, <2>4
<1> QED
  BY <1>1, <1>3, <1>4

(* Walking a list the other way round meets the same processes.            *)
LEMMA ForEachRange ==
  ASSUME NEW T, NEW q \in Seq(T)
  PROVE  /\ ForEachOrder(q) \in Seq(T)
         /\ Range(ForEachOrder(q)) = Range(q)
         /\ IsInjective(q) => IsInjective(ForEachOrder(q))
<1> DEFINE r == ForEachOrder(q)
<1>1. Len(q) \in Nat /\ DOMAIN q = 1..Len(q) /\ q \in [1..Len(q) -> T]
  BY LenProperties
<1>2. \A i \in 1..Len(q) : Len(q) - i + 1 \in 1..Len(q)
  BY <1>1
<1>3. r \in [1..Len(q) -> T] /\ DOMAIN r = 1..Len(q)
  BY <1>1, <1>2 DEF ForEachOrder
<1>4. r \in Seq(T)
  BY <1>1, <1>3, SeqDef
<1>5. \A i \in 1..Len(q) : r[i] = q[Len(q) - i + 1]
  BY DEF ForEachOrder
<1>6. \A i \in 1..Len(q) : q[i] = r[Len(q) - i + 1]
  BY <1>1, <1>2, <1>5
<1>7. Range(r) = Range(q)
  <2>1. Range(r) \subseteq Range(q)
    BY <1>1, <1>2, <1>3, <1>5 DEF Range
  <2>2. Range(q) \subseteq Range(r)
    BY <1>1, <1>2, <1>3, <1>6 DEF Range
  <2> QED
    BY <2>1, <2>2
<1>8. ASSUME IsInjective(q)
      PROVE  IsInjective(r)
  <2> SUFFICES ASSUME NEW i \in 1..Len(q), NEW j \in 1..Len(q), r[i] = r[j]
               PROVE  i = j
    BY <1>3 DEF IsInjective
  <2>1. q[Len(q) - i + 1] = q[Len(q) - j + 1]
    BY <1>5
  <2>2. Len(q) - i + 1 = Len(q) - j + 1
    BY <1>1, <1>2, <1>8, <2>1 DEF IsInjective
  <2> QED
    BY <1>1, <2>2
<1> QED
  BY <1>4, <1>7, <1>8

(* The rank of a position among finitely many: a strictly increasing map   *)
(* onto 1..|I|.                                                            *)
LEMMA RankOrder ==
  ASSUME NEW n \in Nat, NEW I \in SUBSET (1..n)
  PROVE  /\ Cardinality(I) \in Nat
         /\ \A i \in I : RankIn(I, i) \in 1..Cardinality(I)
         /\ \A i, j \in I : i < j => RankIn(I, i) < RankIn(I, j)
<1>1. IsFiniteSet(1..n)
  BY FS_Interval
<1>2. IsFiniteSet(I)
  BY <1>1, FS_Subset
<1>3. Cardinality(I) \in Nat
  BY <1>2, FS_CardinalityType
<1> DEFINE upTo(i) == {j \in I : j <= i}
<1>4. ASSUME NEW i \in I
      PROVE  /\ IsFiniteSet(upTo(i)) /\ RankIn(I, i) \in Nat
             /\ RankIn(I, i) <= Cardinality(I)
  <2>1. upTo(i) \in SUBSET I
    OBVIOUS
  <2>2. IsFiniteSet(upTo(i)) /\ Cardinality(upTo(i)) <= Cardinality(I)
    BY <1>2, <2>1, FS_Subset
  <2> QED
    BY <2>2, FS_CardinalityType DEF RankIn
<1>5. ASSUME NEW i \in I
      PROVE  RankIn(I, i) # 0
  <2>1. i \in upTo(i)
    OBVIOUS
  <2> QED
    BY <1>4, <2>1, FS_EmptySet DEF RankIn
<1>6. ASSUME NEW i \in I, NEW j \in I, i < j
      PROVE  RankIn(I, i) < RankIn(I, j)
  <2>1. upTo(i) \in SUBSET upTo(j)
    <3> SUFFICES ASSUME NEW k \in I, k <= i
                 PROVE  k <= j
      OBVIOUS
    <3>1. k \in Nat /\ i \in Nat /\ j \in Nat
      OBVIOUS
    <3> QED
      BY <1>6, <3>1
  <2>2. j \in upTo(j) /\ j \notin upTo(i)
    BY <1>6
  <2>3. /\ Cardinality(upTo(i)) <= Cardinality(upTo(j))
        /\ Cardinality(upTo(j)) # Cardinality(upTo(i))
    <3>1. IsFiniteSet(upTo(j))
      BY <1>4
    <3> HIDE DEF upTo
    <3> QED
      BY <2>1, <2>2, <3>1, FS_Subset
  <2> QED
    BY <1>4, <2>3 DEF RankIn
<1>7. ASSUME NEW i \in I
      PROVE  RankIn(I, i) \in 1..Cardinality(I)
  <2>1. /\ RankIn(I, i) \in Nat /\ RankIn(I, i) # 0
        /\ RankIn(I, i) <= Cardinality(I)
    BY <1>4, <1>5
  <2> QED
    BY <1>3, <2>1
<1> QED
  BY <1>3, <1>6, <1>7

(* Every rank is taken: the CHOOSE in Keep has something to choose.        *)
LEMMA RankOnto ==
  ASSUME NEW n \in Nat, NEW I \in SUBSET (1..n)
  PROVE  \A k \in 1..Cardinality(I) : \E i \in I : RankIn(I, i) = k
<1> DEFINE c == Cardinality(I)
           f == [i \in I |-> RankIn(I, i)]
<1>1. c \in Nat /\ IsFiniteSet(1..c) /\ Cardinality(1..c) = c
  <2>1. c \in Nat
    BY RankOrder
  <2> HIDE DEF c
  <2>2. IsFiniteSet(1..c) /\ Cardinality(1..c) = IF 1 > c THEN 0 ELSE c - 1 + 1
    BY <2>1, FS_Interval
  <2> QED
    BY <2>1, <2>2
<1>2. f \in [I -> 1..c]
  BY RankOrder
<1>3. ASSUME NEW i \in I, NEW j \in I, f[i] = f[j]
      PROVE  i = j
  <2>1. RankIn(I, i) = RankIn(I, j) /\ RankIn(I, i) \in 1..c
    BY <1>3, RankOrder
  <2>2. i \in Nat /\ j \in Nat /\ RankIn(I, i) \in Int
    BY <2>1
  <2>3. ~(i < j) /\ ~(j < i)
    BY <2>1, <2>2, RankOrder
  <2> QED
    BY <2>2, <2>3
<1>4. f \in Injection(I, 1..c)
  <2> HIDE DEF f
  <2> QED
    BY <1>2, <1>3, Fun_IsInj
<1>5. f \in Surjection(I, 1..c)
  <2> HIDE DEF f
  <2> QED
    BY <1>1, <1>4, FS_Injection
<1>6. \A k \in 1..c : \E i \in I : f[i] = k
  <2> HIDE DEF f
  <2> QED
    BY <1>5, Fun_SurjectionProperties
<1> QED
  BY <1>6

(* Filtering a queue keeps exactly the members of S, each once, in the     *)
(* order they had.                                                         *)
LEMMA KeepProperties ==
  ASSUME NEW T, NEW q \in Seq(T), NEW S
  PROVE  /\ Keep(q, S) \in Seq(T)
         /\ Range(Keep(q, S)) = Range(q) \cap S
         /\ \A a, b \in DOMAIN Keep(q, S) : a < b =>
              \E i, j \in DOMAIN q :
                i < j /\ Keep(q, S)[a] = q[i] /\ Keep(q, S)[b] = q[j]
         /\ IsInjective(q) => IsInjective(Keep(q, S))
<1> DEFINE I == PositionsOf(q, S)
           c == Cardinality(I)
           at(k) == CHOOSE i \in I : RankIn(I, i) = k
           r == Keep(q, S)
<1>1. Len(q) \in Nat /\ DOMAIN q = 1..Len(q) /\ q \in [1..Len(q) -> T]
  BY LenProperties
<1>2. I \in SUBSET (1..Len(q))
  BY <1>1 DEF PositionsOf
<1>3. c \in Nat
  <2> HIDE DEF I
  <2> QED
    BY <1>1, <1>2, RankOrder
<1>4. r = [k \in 1..c |-> q[at(k)]]
  BY DEF Keep
<1>5. ASSUME NEW k \in 1..c
      PROVE  at(k) \in I /\ RankIn(I, at(k)) = k
  <2>1. \E i \in I : RankIn(I, i) = k
    <3> HIDE DEF I
    <3> QED
      BY <1>1, <1>2, RankOnto
  <2> HIDE DEF I
  <2> QED
    BY <2>1
<1>6. \A i \in I : RankIn(I, i) \in 1..c
  <2> HIDE DEF I
  <2> QED
    BY <1>1, <1>2, RankOrder
<1>7. ASSUME NEW i \in I, NEW j \in I, RankIn(I, i) <= RankIn(I, j)
      PROVE  i <= j
  <2> HIDE DEF I
  <2>0. RankIn(I, i) \in Int /\ RankIn(I, j) \in Int
    BY <1>6
  <2>1. j < i => RankIn(I, j) < RankIn(I, i)
    <3>1. \A x, y \in I : x < y => RankIn(I, x) < RankIn(I, y)
      BY <1>1, <1>2, RankOrder
    <3> QED
      BY <3>1
  <2> QED
    BY <1>2, <1>7, <2>0, <2>1
<1>8. \A i \in I : at(RankIn(I, i)) = i
  <2> SUFFICES ASSUME NEW i \in I
               PROVE  at(RankIn(I, i)) = i
    OBVIOUS
  <2> DEFINE j == at(RankIn(I, i))
  <2>1. j \in I /\ RankIn(I, j) = RankIn(I, i)
    BY <1>5, <1>6
  <2> HIDE DEF j, I
  <2>2. RankIn(I, i) \in Int
    BY <1>6
  <2>3. i <= j /\ j <= i
    BY <1>7, <2>1, <2>2
  <2>4. i \in Int /\ j \in Int
    BY <1>2, <2>1
  <2>5. j = i
    BY <2>3, <2>4
  <2> QED
    BY <2>5 DEF j
<1>9. /\ DOMAIN r = 1..c
      /\ \A k \in 1..c : /\ at(k) \in 1..Len(q) /\ r[k] = q[at(k)]
                        /\ r[k] \in S
  <2>1. \A k \in 1..c : at(k) \in 1..Len(q) /\ q[at(k)] \in S
    BY <1>1, <1>5 DEF PositionsOf
  <2> HIDE DEF r, at
  <2> QED
    BY <1>4, <2>1
<1>10. r \in Seq(T)
  <2>1. r \in [1..c -> T]
    <3> HIDE DEF I, c, at, r
    <3> QED
      BY <1>1, <1>4, <1>9
  <2> HIDE DEF r, c
  <2> QED
    BY <1>3, <2>1, SeqDef
<1>11. Range(r) = Range(q) \cap S
  <2>1. Range(r) \subseteq Range(q) \cap S
    <3> HIDE DEF I, c, at, r
    <3> QED
      BY <1>1, <1>9 DEF Range
  <2>2. ASSUME NEW i \in 1..Len(q), q[i] \in S
        PROVE  q[i] \in Range(r)
    <3>1. i \in I
      BY <1>1, <2>2 DEF PositionsOf
    <3>2. RankIn(I, i) \in 1..c /\ at(RankIn(I, i)) = i
      BY <1>6, <1>8, <3>1
    <3> HIDE DEF I, c, at, r
    <3> QED
      BY <1>9, <3>2 DEF Range
  <2> HIDE DEF r
  <2> QED
    BY <1>1, <2>1, <2>2 DEF Range
<1>12. ASSUME NEW a \in 1..c, NEW b \in 1..c, a < b
       PROVE  at(a) < at(b)
  <2>1. /\ at(a) \in I /\ RankIn(I, at(a)) = a
        /\ at(b) \in I /\ RankIn(I, at(b)) = b
    BY <1>5
  <2> HIDE DEF at, I
  <2>2. at(a) <= at(b)
    BY <1>3, <1>7, <1>12, <2>1
  <2>3. at(a) # at(b)
    BY <1>12, <2>1
  <2>4. at(a) \in Int /\ at(b) \in Int
    BY <1>9
  <2> QED
    BY <2>2, <2>3, <2>4
<1>13. ASSUME IsInjective(q)
       PROVE  IsInjective(r)
  <2> HIDE DEF at, c, r, I
  <2> SUFFICES ASSUME NEW a \in 1..c, NEW b \in 1..c, r[a] = r[b]
               PROVE  a = b
    BY <1>9 DEF IsInjective
  <2>1. at(a) = at(b)
    BY <1>1, <1>9, <1>13 DEF IsInjective
  <2>2. at(a) \in Int /\ at(b) \in Int
    BY <1>9
  <2>3. ~(a < b) /\ ~(b < a)
    BY <1>12, <2>1, <2>2
  <2> QED
    BY <1>3, <2>3
<1>14. \A a, b \in 1..c : a < b =>
         \E i, j \in DOMAIN q : i < j /\ r[a] = q[i] /\ r[b] = q[j]
  <2> HIDE DEF at, c, r, I
  <2> QED
    BY <1>1, <1>9, <1>12
<1> QED
  <2> HIDE DEF at, I
  <2> QED
    BY <1>9, <1>10, <1>11, <1>13, <1>14

(* LIST_REMOVE takes away one process and no other.                        *)
LEMMA WithoutRange ==
  ASSUME NEW T, NEW q \in Seq(T), NEW e
  PROVE  /\ Without(q, e) \in Seq(T)
         /\ Range(Without(q, e)) = Range(q) \ {e}
         /\ IsInjective(q) => IsInjective(Without(q, e))
BY KeepProperties DEF Without

(* A set of numbers has a least one: the intervals 0..n are ordered by     *)
(* inclusion as the numbers are.                                           *)
LEMMA LeastNumber ==
  ASSUME NEW S, S \subseteq Nat, S # {}
  PROVE  \E x \in S : \A y \in S : x <= y
<1> DEFINE T == {0..n : n \in S}
<1>1. T \subseteq FiniteSubsetsOf(Nat) /\ T # {}
  <2>1. \A n \in S : IsFiniteSet(0..n) /\ 0..n \subseteq Nat
    BY FS_Interval
  <2> QED
    BY <2>1 DEF FiniteSubsetsOf
<1>2. PICK X \in T : \A Y \in T : ~(<<Y, X>> \in StrictSubsetOrdering(Nat))
  BY <1>1, FS_StrictSubsetOrderingWellFounded, WFMin
<1>3. PICK x \in S : X = 0..x
  OBVIOUS
<1>4. ASSUME NEW y \in S, y < x
      PROVE  FALSE
  <2>1. 0..y \in T
    OBVIOUS
  <2>2. x \in Nat /\ y \in Nat
    OBVIOUS
  <2>3. 0..y \subseteq 0..x /\ x \in 0..x /\ x \notin 0..y
    BY <1>4, <2>2
  <2>4. <<0..y, X>> \in StrictSubsetOrdering(Nat)
    BY <1>3, <2>2, <2>3 DEF StrictSubsetOrdering
  <2> QED
    BY <1>2, <2>1, <2>4
<1>5. \A y \in S : x <= y
  BY <1>4
<1> QED
  BY <1>5

(* LIST_REMOVE, position by position.                                      *)
LEMMA CutIs ==
  ASSUME NEW T, NEW q \in Seq(T), NEW i \in DOMAIN q
  PROVE  LET r == SubSeq(q, 1, i - 1) \o SubSeq(q, i + 1, Len(q))
         IN  /\ r \in Seq(T) /\ Len(r) = Len(q) - 1
             /\ \A k \in 1..(Len(q) - 1) : r[k] = IF k < i THEN q[k] ELSE q[k + 1]
<1>1. Len(q) \in Nat /\ i \in 1..Len(q)
  BY LenProperties
<1> DEFINE a == SubSeq(q, 1, i - 1)
           b == SubSeq(q, i + 1, Len(q))
<1>2. /\ a \in Seq(T) /\ Len(a) = i - 1
      /\ \A k \in 1..(i - 1) : a[k] = q[k]
  BY <1>1
<1>3. /\ b \in Seq(T) /\ Len(b) = Len(q) - i
      /\ \A k \in 1..(Len(q) - i) : b[k] = q[k + i]
  BY <1>1
<1> HIDE DEF a, b
<1>4. /\ a \o b \in Seq(T) /\ Len(a \o b) = Len(q) - 1
      /\ \A k \in 1..(Len(q) - 1) :
           (a \o b)[k] = IF k <= i - 1 THEN a[k] ELSE b[k - (i - 1)]
  BY <1>1, <1>2, <1>3
<1>5. ASSUME NEW k \in 1..(Len(q) - 1)
      PROVE  (a \o b)[k] = IF k < i THEN q[k] ELSE q[k + 1]
  <2>1. CASE k < i
    BY <1>1, <1>2, <1>4, <2>1
  <2>2. CASE ~(k < i)
    <3> DEFINE l == k - (i - 1)
    <3>1. /\ l \in 1..(Len(q) - i) /\ l + i = k + 1
          /\ ~(k <= i - 1)
      BY <1>1, <2>2
    <3>2. (a \o b)[k] = b[l]
      BY <1>4, <3>1
    <3> HIDE DEF l
    <3>3. b[l] = q[l + i]
      BY <1>3, <3>1
    <3> QED
      BY <2>2, <3>1, <3>2, <3>3
  <2> QED
    BY <2>1, <2>2
<1> QED
  BY <1>4, <1>5 DEF a, b

(* LIST_INSERT_AFTER, position by position.                                *)
Inserted(T, q, i, e, r) ==
  /\ r \in Seq(T) /\ Len(r) = Len(q) + 1
  /\ \A k \in 1..(Len(q) + 1) :
       r[k] = IF k <= i THEN q[k] ELSE IF k = i + 1 THEN e ELSE q[k - 1]

(* That is what putting the two parts around the new member does.          *)
LEMMA SpliceIs ==
  ASSUME NEW T, NEW q \in Seq(T), NEW i \in DOMAIN q, NEW e \in T
  PROVE  Inserted(T, q, i, e, SubSeq(q, 1, i) \o <<e>> \o SubSeq(q, i + 1, Len(q)))
<1>1. Len(q) \in Nat /\ i \in 1..Len(q)
  BY LenProperties
<1> DEFINE a == SubSeq(q, 1, i)
           b == SubSeq(q, i + 1, Len(q))
           c == a \o <<e>>
<1>2. /\ a \in Seq(T) /\ Len(a) = i
      /\ \A k \in 1..i : a[k] = q[k]
  BY <1>1
<1>3. /\ b \in Seq(T) /\ Len(b) = Len(q) - i
      /\ \A k \in 1..(Len(q) - i) : b[k] = q[k + i]
  BY <1>1
<1> HIDE DEF a, b
<1>5. /\ c \in Seq(T) /\ Len(c) = i + 1
      /\ \A k \in 1..i : c[k] = q[k]
      /\ c[i + 1] = e
  <2>1. <<e>> \in Seq(T) /\ Len(<<e>>) = 1 /\ <<e>>[1] = e
    OBVIOUS
  <2> DEFINE s == <<e>>
  <2> HIDE DEF s
  <2>2. /\ a \o s \in Seq(T) /\ Len(a \o s) = Len(a) + Len(s)
        /\ \A k \in 1..(Len(a) + Len(s)) :
             (a \o s)[k] = IF k <= Len(a) THEN a[k] ELSE s[k - Len(a)]
    BY <1>2, <2>1, ConcatProperties DEF s
  <2>3. /\ a \o s \in Seq(T) /\ Len(a \o s) = i + 1
        /\ \A k \in 1..i : (a \o s)[k] = q[k]
    BY <1>1, <1>2, <2>1, <2>2 DEF s
  <2>4. (a \o s)[i + 1] = s[(i + 1) - i]
    BY <1>1, <1>2, <2>1, <2>2 DEF s
  <2>5. (i + 1) - i = 1
    BY <1>1
  <2> QED
    BY <2>1, <2>3, <2>4, <2>5 DEF s
<1> HIDE DEF c
<1>6. /\ c \o b \in Seq(T) /\ Len(c \o b) = Len(q) + 1
      /\ \A k \in 1..(Len(q) + 1) :
           (c \o b)[k] = IF k <= i + 1 THEN c[k] ELSE b[k - (i + 1)]
  <2>1. /\ c \o b \in Seq(T) /\ Len(c \o b) = Len(c) + Len(b)
        /\ \A k \in 1..(Len(c) + Len(b)) :
             (c \o b)[k] = IF k <= Len(c) THEN c[k] ELSE b[k - Len(c)]
    BY <1>3, <1>5, ConcatProperties
  <2>2. Len(c) = i + 1 /\ Len(c) + Len(b) = Len(q) + 1
    BY <1>1, <1>3, <1>5
  <2> QED
    BY <2>1, <2>2
<1>7. ASSUME NEW k \in 1..(Len(q) + 1)
      PROVE  (c \o b)[k] = IF k <= i THEN q[k]
                           ELSE IF k = i + 1 THEN e ELSE q[k - 1]
  <2>1. CASE k <= i + 1
    <3>1. k \in Nat /\ (k <= i \/ k = i + 1)
      BY <1>1, <2>1
    <3>2. (c \o b)[k] = c[k]
      BY <1>6, <2>1
    <3> QED
      BY <1>1, <1>5, <3>1, <3>2
  <2>2. CASE ~(k <= i + 1)
    <3> DEFINE l == k - (i + 1)
    <3>1. l \in 1..(Len(q) - i) /\ l + i = k - 1 /\ ~(k <= i) /\ k # i + 1
      BY <1>1, <2>2
    <3>2. (c \o b)[k] = b[l]
      BY <1>6, <2>2
    <3> HIDE DEF l
    <3>3. b[l] = q[l + i]
      BY <1>3, <3>1
    <3> QED
      BY <3>1, <3>2, <3>3
  <2> QED
    BY <2>1, <2>2
<1> QED
  BY <1>6, <1>7 DEF a, b, c, Inserted
==============================================================================
