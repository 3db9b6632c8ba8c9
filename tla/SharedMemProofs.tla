--------------------------- MODULE SharedMemProofs ---------------------------
(***************************************************************************)
(* For every number of processes, frames, pages and names: the user heaps  *)
(* account for what clients hold, the reference counts for what page       *)
(* tables map, objects are seen by who holds them and by nobody else, and  *)
(* no step takes a client's page from under it.                            *)
(*                                                                         *)
(* First what the operators of UserHeap do to a list of regions, then what *)
(* those of PhysMem do to the frames; then the invariant, and one lemma    *)
(* for each kind of step.                                                  *)
(***************************************************************************)
EXTENDS SharedMem, ListOpsProofs

-----------------------------------------------------------------------------
(* The regions of one heap: a list R whose last region ends at top.        *)

EndOf(r) == r.va + r.size
InUse(a, n) == [va |-> a, size |-> n, isFree |-> FALSE]
UsedIn(R) == {r \in Range(R) : ~r.isFree}

(* What Tiled keeps while free has not yet merged what it freed.           *)
Line(R, top) ==
  /\ Len(R) = 0 => top = HeapStart
  /\ Len(R) > 0 => R[1].va = HeapStart /\ EndOf(R[Len(R)]) = top
  /\ \A i \in 1..(Len(R) - 1) : EndOf(R[i]) = R[i + 1].va

(* No two free regions in a row, but for those at the places B.            *)
Loose(R, B) ==
  \A i \in 1..(Len(R) - 1) : i \notin B => ~(R[i].isFree /\ R[i + 1].isFree)

LastUsed(R) == Len(R) > 0 => ~R[Len(R)].isFree

(* Tiled in those terms.                                                   *)
LEMMA TiledIs ==
  ASSUME NEW h \in HeapState
  PROVE  Tiled(h) <=> /\ Line(h.regions, h.break) /\ Loose(h.regions, {})
                      /\ LastUsed(h.regions) /\ h.blocks + Len(h.regions) = Blocks
<1>1. Len(h.regions) \in Nat
  BY DEF HeapState
<1> QED
  BY <1>1 DEF Tiled, Line, Loose, LastUsed, EndOf

(* The numbers of a region.                                                *)
LEMMA RegionFacts ==
  ASSUME NEW r \in Region
  PROVE  /\ r.va \in HeapStart..(HeapMax - 1) /\ r.va \in Nat /\ r.va # 0
         /\ r.size \in 1..(HeapMax - HeapStart) /\ r.size \in Nat \ {0}
         /\ r.isFree \in BOOLEAN
         /\ EndOf(r) \in Nat /\ EndOf(r) = r.va + r.size /\ r.va < EndOf(r)
         /\ r = [va |-> r.va, size |-> r.size, isFree |-> r.isFree]
         /\ HeapStart \in Nat \ {0} /\ HeapMax \in Nat /\ HeapStart < HeapMax
         /\ Blocks \in Nat
<1>1. HeapStart \in Nat \ {0} /\ HeapMax \in Nat /\ HeapStart < HeapMax /\ Blocks \in Nat
  BY UserHeapConstants
<1> QED
  BY <1>1 DEF Region, EndOf

(* The types of a list of regions.                                         *)
LEMMA RegionsFacts ==
  ASSUME NEW R \in Seq(Region)
  PROVE  /\ Len(R) \in Nat /\ DOMAIN R = 1..Len(R)
         /\ \A i \in 1..Len(R) : R[i] \in Region
         /\ \A i \in 1..(Len(R) - 1) : i \in 1..Len(R) /\ i + 1 \in 1..Len(R)
         /\ Len(R) > 0 => 1 \in 1..Len(R) /\ Len(R) \in 1..Len(R)
         /\ \A r : r \in UsedIn(R) <=> \E k \in 1..Len(R) : r = R[k] /\ ~R[k].isFree
<1>1. Len(R) \in Nat /\ DOMAIN R = 1..Len(R)
  BY LenProperties
<1>2. \A i \in 1..Len(R) : R[i] \in Region
  BY <1>1, ElementOfSeq
<1> QED
  BY <1>1, <1>2 DEF UsedIn, Range

(* Regions come in the order of their addresses and do not overlap.        *)
LEMMA LineOrder ==
  ASSUME NEW R \in Seq(Region), NEW top, Line(R, top),
         NEW i \in 1..Len(R), NEW j \in 1..Len(R), i < j
  PROVE  EndOf(R[i]) <= R[j].va
<1> DEFINE n == Len(R)
           bad == {k \in 1..n : i < k /\ ~(EndOf(R[i]) <= R[k].va)}
<1>1. /\ n \in Nat /\ i \in 1..n /\ j \in 1..n
      /\ \A k \in 1..n : /\ R[k].va \in Nat /\ EndOf(R[k]) \in Nat
                         /\ R[k].va < EndOf(R[k])
  BY RegionsFacts, RegionFacts
<1>2. \A k \in 1..(n - 1) : EndOf(R[k]) = R[k + 1].va
  BY DEF Line
<1> HIDE DEF n
<1>3. SUFFICES ASSUME bad # {}
               PROVE  FALSE
  BY <1>1
<1>4. bad \subseteq Nat
  BY <1>1
<1>5. PICK k \in bad : \A l \in bad : k <= l
  BY <1>3, <1>4, LeastNumber
<1>6. k \in 1..n /\ i < k /\ ~(EndOf(R[i]) <= R[k].va)
  BY <1>5
<1>7. k - 1 \in 1..(n - 1) /\ (k - 1) + 1 = k /\ i <= k - 1
  BY <1>1, <1>6
<1>8. EndOf(R[k - 1]) = R[k].va
  BY <1>2, <1>7
<1>9. k - 1 # i
  BY <1>6, <1>8, <1>1
<1>10. k - 1 \notin bad
  BY <1>5, <1>7
<1>11. k - 1 \in 1..n /\ i < k - 1
  BY <1>1, <1>7, <1>9
<1>12. EndOf(R[i]) <= R[k - 1].va
  BY <1>10, <1>11
<1> QED
  BY <1>1, <1>6, <1>8, <1>11, <1>12

(* No region reaches beyond the top, and no two start at one address.      *)
LEMMA LineBounds ==
  ASSUME NEW R \in Seq(Region), NEW top, Line(R, top)
  PROVE  /\ \A i \in 1..Len(R) : EndOf(R[i]) <= top
         /\ \A i, j \in 1..Len(R) : R[i].va = R[j].va => i = j
<1> DEFINE n == Len(R)
<1>1. /\ n \in Nat
      /\ \A k \in 1..n : /\ R[k].va \in Nat /\ EndOf(R[k]) \in Nat
                         /\ R[k].va < EndOf(R[k])
  BY RegionsFacts, RegionFacts
<1>2. n > 0 => EndOf(R[n]) = top
  BY DEF Line
<1>3. \A i, j \in 1..n : i < j => EndOf(R[i]) <= R[j].va
  BY LineOrder
<1> HIDE DEF n
<1>4. ASSUME NEW i \in 1..n
      PROVE  EndOf(R[i]) <= top
  <2>1. CASE i = n
    BY <1>1, <1>2, <2>1
  <2>2. CASE i # n
    <3>1. n \in 1..n /\ i < n /\ n > 0
      BY <1>1, <2>2
    <3>2. EndOf(R[i]) <= R[n].va
      BY <1>3, <3>1
    <3> QED
      BY <1>1, <1>2, <3>1, <3>2
  <2> QED
    BY <2>1, <2>2
<1>5. ASSUME NEW i \in 1..n, NEW j \in 1..n, R[i].va = R[j].va
      PROVE  i = j
  <2>1. ~(i < j)
    BY <1>1, <1>3, <1>5
  <2>2. ~(j < i)
    BY <1>1, <1>3, <1>5
  <2> QED
    BY <1>1, <2>1, <2>2
<1> QED
  BY <1>4, <1>5 DEF n

(* Regions in use that overlap are one region.                             *)
LEMMA UsedApart ==
  ASSUME NEW R \in Seq(Region), NEW top, Line(R, top),
         NEW r \in UsedIn(R), NEW s \in UsedIn(R), NEW a,
         a \in Span(r.va, r.size), a \in Span(s.va, s.size)
  PROVE  r = s
<1>1. PICK i \in 1..Len(R) : r = R[i]
  BY RegionsFacts
<1>2. PICK j \in 1..Len(R) : s = R[j]
  BY RegionsFacts
<1>3. /\ r.va \in Nat /\ r.size \in Nat /\ EndOf(r) = r.va + r.size
      /\ s.va \in Nat /\ s.size \in Nat /\ EndOf(s) = s.va + s.size
  BY <1>1, <1>2, RegionsFacts, RegionFacts
<1>4. a \in Nat /\ r.va <= a /\ a < EndOf(r) /\ s.va <= a /\ a < EndOf(s)
  BY <1>3 DEF Span
<1>5. /\ i < j => EndOf(r) <= s.va
      /\ j < i => EndOf(s) <= r.va
  BY <1>1, <1>2, LineOrder
<1>6. i = j
  <2>1. EndOf(r) \in Nat /\ EndOf(s) \in Nat /\ Len(R) \in Nat
    BY <1>3, RegionsFacts
  <2> QED
    BY <1>3, <1>4, <1>5, <2>1
<1> QED
  BY <1>1, <1>2, <1>6

(* A change that leaves every extent as it was keeps the line.             *)
LEMMA SameLine ==
  ASSUME NEW R \in Seq(Region), NEW S \in Seq(Region), NEW top, Len(S) = Len(R),
         \A k \in 1..Len(R) : S[k].va = R[k].va /\ S[k].size = R[k].size,
         Line(R, top)
  PROVE  Line(S, top)
<1>1. \A k \in 1..Len(R) : S[k].va = R[k].va /\ EndOf(S[k]) = EndOf(R[k])
  BY DEF EndOf
<1> QED
  BY <1>1, RegionsFacts DEF Line

(* Replacing one region by another of the same extent.                     *)
LEMMA Mark ==
  ASSUME NEW R \in Seq(Region), NEW i \in 1..Len(R), NEW b \in BOOLEAN
  PROVE  LET S == [R EXCEPT ![i].isFree = b]
         IN  /\ S \in Seq(Region) /\ Len(S) = Len(R)
             /\ S[i] = [va |-> R[i].va, size |-> R[i].size, isFree |-> b]
             /\ \A k \in 1..Len(R) : k # i => S[k] = R[k]
             /\ \A k \in 1..Len(R) : S[k].va = R[k].va /\ S[k].size = R[k].size
<1> DEFINE e == [va |-> R[i].va, size |-> R[i].size, isFree |-> b]
<1>1. R[i] \in Region /\ DOMAIN R = 1..Len(R)
  BY RegionsFacts
<1>2. e \in Region /\ [R[i] EXCEPT !.isFree = b] = e
  BY <1>1 DEF Region
<1>3. [R EXCEPT ![i].isFree = b] = [R EXCEPT ![i] = e]
  BY <1>2
<1>4. e.va = R[i].va /\ e.size = R[i].size
  OBVIOUS
<1> HIDE DEF e
<1> DEFINE S == [R EXCEPT ![i] = e]
<1>5. /\ S \in Seq(Region) /\ Len(S) = Len(R)
      /\ \A k \in 1..Len(R) : S[k] = IF k = i THEN e ELSE R[k]
  BY <1>2, ExceptSeq
<1> HIDE DEF S
<1>6. /\ S \in Seq(Region) /\ Len(S) = Len(R) /\ S[i] = e
      /\ \A k \in 1..Len(R) : k # i => S[k] = R[k]
      /\ \A k \in 1..Len(R) : S[k].va = R[k].va /\ S[k].size = R[k].size
  BY <1>4, <1>5
<1> QED
  BY <1>3, <1>6 DEF e, S

(* Taking a place for a region: what all three ways of ChooseRegion give   *)
(* to their caller.                                                        *)
Takes(R, S, a, n) ==
  /\ S \in Seq(Region) /\ Loose(S, {}) /\ LastUsed(S)
  /\ a \in HeapStart..(HeapMax - 1)
  /\ UsedIn(S) = UsedIn(R) \cup {InUse(a, n)}
  /\ \A r \in UsedIn(R) : r.va # a

(* A region that fits exactly.                                             *)
LEMMA ExactFitIs ==
  ASSUME NEW R \in Seq(Region), NEW top, Line(R, top), Loose(R, {}), LastUsed(R),
         NEW i \in 1..Len(R), R[i].isFree
  PROVE  LET S == [R EXCEPT ![i].isFree = FALSE]
         IN  /\ Takes(R, S, R[i].va, R[i].size)
             /\ Line(S, top) /\ Len(S) = Len(R)
<1> DEFINE S == [R EXCEPT ![i].isFree = FALSE]
           e == InUse(R[i].va, R[i].size)
<1>1. /\ S \in Seq(Region) /\ Len(S) = Len(R) /\ S[i] = e
      /\ \A k \in 1..Len(R) : k # i => S[k] = R[k]
      /\ \A k \in 1..Len(R) : S[k].va = R[k].va /\ S[k].size = R[k].size
  BY Mark DEF InUse
<1>2. ~e.isFree
  BY DEF InUse
<1> HIDE DEF S, e
<1>3. Line(S, top)
  BY <1>1, SameLine
<1>4. Loose(S, {}) /\ LastUsed(S)
  BY <1>1, <1>2, RegionsFacts DEF Loose, LastUsed
<1>5. UsedIn(S) = UsedIn(R) \cup {e}
  <2>1. \A r : r \in UsedIn(R) <=> \E k \in 1..Len(R) : r = R[k] /\ ~R[k].isFree
    BY RegionsFacts
  <2>2. \A r : r \in UsedIn(S) <=> \E k \in 1..Len(R) : r = S[k] /\ ~S[k].isFree
    BY <1>1, RegionsFacts
  <2> QED
    BY <1>1, <1>2, <2>1, <2>2
<1>6. \A r \in UsedIn(R) : r.va # R[i].va
  BY RegionsFacts, LineBounds
<1>7. R[i].va \in HeapStart..(HeapMax - 1)
  BY RegionsFacts, RegionFacts
<1> QED
  BY <1>1, <1>3, <1>4, <1>5, <1>6, <1>7 DEF Takes, S, e

(* InsertAt puts the new member there and shifts the rest.                 *)
LEMMA InsertIs ==
  ASSUME NEW T, NEW q \in Seq(T), NEW i \in DOMAIN q, NEW e \in T
  PROVE  Inserted(T, q, i, e, InsertAt(q, i + 1, e))
<1>1. i \in Nat /\ (i + 1) - 1 = i
  BY LenProperties
<1>2. InsertAt(q, i + 1, e) = SubSeq(q, 1, i) \o <<e>> \o SubSeq(q, i + 1, Len(q))
  BY <1>1 DEF InsertAt
<1> QED
  BY <1>2, SpliceIs

(* The largest free region is cut in two.                                  *)
LEMMA WorstFitIs ==
  ASSUME NEW R \in Seq(Region), NEW top \in Nat, top <= HeapMax,
         Line(R, top), Loose(R, {}), LastUsed(R),
         NEW i \in 1..Len(R), R[i].isFree, NEW n \in Nat \ {0}, n < R[i].size
  PROVE  LET T == [R EXCEPT ![i] = InUse(R[i].va, n)]
             S == InsertAt(T, i + 1, [va |-> R[i].va + n, size |-> R[i].size - n,
                                      isFree |-> TRUE])
         IN  /\ Takes(R, S, R[i].va, n)
             /\ Line(S, top) /\ Len(S) = Len(R) + 1
<1> DEFINE e == InUse(R[i].va, n)
           f == [va |-> R[i].va + n, size |-> R[i].size - n, isFree |-> TRUE]
           T == [R EXCEPT ![i] = e]
           S == InsertAt(T, i + 1, f)
           N == Len(R)
<1>1. /\ N \in Nat /\ i \in 1..N /\ R[i] \in Region /\ R[i].va \in Nat
      /\ R[i].size \in Nat /\ R[i].va \in HeapStart..(HeapMax - 1)
      /\ R[i].size \in 1..(HeapMax - HeapStart)
      /\ HeapStart \in Nat \ {0} /\ HeapMax \in Nat /\ HeapStart < HeapMax
      /\ R[i].va + R[i].size = EndOf(R[i])
  BY RegionsFacts, RegionFacts
<1>2. R[i].va + R[i].size <= HeapMax
  <2>1. EndOf(R[i]) <= top /\ EndOf(R[i]) \in Nat
    BY <1>1, LineBounds, RegionFacts
  <2> QED
    BY <1>1, <2>1
<1>3. e \in Region /\ f \in Region
  <2>1. n \in 1..(HeapMax - HeapStart)
    BY <1>1
  <2>2. R[i].va + n \in HeapStart..(HeapMax - 1)
    BY <1>1, <1>2
  <2>3. R[i].size - n \in 1..(HeapMax - HeapStart)
    BY <1>1
  <2> QED
    BY <1>1, <2>1, <2>2, <2>3 DEF Region, InUse
<1>4. /\ e.va = R[i].va /\ EndOf(e) = f.va /\ EndOf(f) = EndOf(R[i])
      /\ ~e.isFree /\ f.isFree
  BY <1>1 DEF InUse, EndOf
<1> HIDE DEF e, f
<1>5. /\ T \in Seq(Region) /\ Len(T) = N /\ DOMAIN T = 1..N
      /\ \A k \in 1..N : T[k] = IF k = i THEN e ELSE R[k]
  BY <1>1, <1>3, ExceptSeq, LenProperties
<1> HIDE DEF T
<1>6. /\ S \in Seq(Region) /\ Len(S) = N + 1
      /\ \A k \in 1..(N + 1) : S[k] = IF k <= i THEN T[k]
                                      ELSE IF k = i + 1 THEN f ELSE T[k - 1]
  <2>1. i \in DOMAIN T /\ T \in Seq(Region) /\ f \in Region
    BY <1>1, <1>3, <1>5
  <2>2. Inserted(Region, T, i, f, InsertAt(T, i + 1, f))
    BY <2>1, InsertIs
  <2> HIDE DEF S, N
  <2> QED
    BY <1>5, <2>2 DEF S, Inserted
<1> HIDE DEF S, N
<1>7. /\ \A k \in 1..(N + 1) : k < i => S[k] = R[k]
      /\ S[i] = e /\ S[i + 1] = f
      /\ \A k \in 1..(N + 1) : k > i + 1 => k - 1 \in 1..N /\ S[k] = R[k - 1]
  <2>1. ASSUME NEW k \in 1..(N + 1), k < i
        PROVE  S[k] = R[k]
    <3>1. k \in 1..N /\ k <= i /\ k # i
      BY <1>1, <2>1
    <3> QED
      BY <1>5, <1>6, <3>1
  <2>2. S[i] = e /\ S[i + 1] = f
    <3>1. i \in 1..(N + 1) /\ i + 1 \in 1..(N + 1) /\ i <= i /\ ~(i + 1 <= i)
      BY <1>1
    <3> QED
      BY <1>1, <1>5, <1>6, <3>1
  <2>3. ASSUME NEW k \in 1..(N + 1), k > i + 1
        PROVE  k - 1 \in 1..N /\ S[k] = R[k - 1]
    <3>1. k - 1 \in 1..N /\ ~(k <= i) /\ k # i + 1 /\ k - 1 # i
      BY <1>1, <2>3
    <3> QED
      BY <1>5, <1>6, <3>1
  <2> QED
    BY <2>1, <2>2, <2>3
<1>8. /\ \A k \in 1..(N - 1) : EndOf(R[k]) = R[k + 1].va
      /\ N > 0 /\ R[1].va = HeapStart /\ EndOf(R[N]) = top
      /\ \A k \in 1..(N - 1) : ~(R[k].isFree /\ R[k + 1].isFree)
      /\ ~R[N].isFree /\ i # N
  BY <1>1 DEF Line, Loose, LastUsed, N
<1>9. ASSUME NEW k \in 1..N
      PROVE  /\ EndOf(S[k]) = S[k + 1].va
             /\ ~(S[k].isFree /\ S[k + 1].isFree)
  <2>0. k \in 1..(N + 1) /\ k + 1 \in 1..(N + 1) /\ (k + 1) - 1 = k
    BY <1>1
  <2>1. CASE k + 1 < i
    <3>1. k < i /\ k \in 1..(N - 1) /\ k \in 1..(N + 1)
      BY <1>1, <2>1
    <3> QED
      BY <1>7, <1>8, <2>0, <2>1, <3>1
  <2>2. CASE k + 1 = i
    <3>1. k < i /\ k \in 1..(N - 1)
      BY <1>1, <2>2
    <3> QED
      BY <1>4, <1>7, <1>8, <2>0, <2>2, <3>1
  <2>3. CASE k = i
    BY <1>4, <1>7, <2>3
  <2>4. CASE k = i + 1
    <3>1. /\ k + 1 > i + 1 /\ i \in 1..(N - 1)
      BY <1>1, <2>4
    <3>2. S[k + 1] = R[i + 1]
      BY <1>7, <2>0, <2>4, <3>1
    <3>3. R[i + 1].va = EndOf(R[i]) /\ ~R[i + 1].isFree
      BY <1>8, <3>1
    <3> QED
      BY <1>4, <1>7, <2>4, <3>2, <3>3
  <2>5. CASE k > i + 1
    <3> DEFINE l == k - 1
    <3>1. l \in 1..(N - 1) /\ l + 1 = k /\ k + 1 > i + 1
      BY <1>1, <2>5
    <3>2. S[k] = R[l] /\ S[k + 1] = R[k]
      BY <1>7, <2>0, <2>5, <3>1
    <3> HIDE DEF l
    <3> QED
      BY <1>8, <3>1, <3>2
  <2> QED
    BY <1>1, <2>1, <2>2, <2>3, <2>4, <2>5
<1>10. Line(S, top)
  <2>1. Len(S) = N + 1 /\ Len(S) > 0 /\ Len(S) - 1 = N /\ N + 1 > i + 1
        /\ N + 1 \in 1..(N + 1) /\ (N + 1) - 1 = N /\ 1 \in 1..(N + 1)
    BY <1>1, <1>6, <1>8
  <2>2. S[N + 1] = R[N]
    BY <1>7, <2>1
  <2>3. S[1].va = R[1].va
    <3>1. CASE i = 1
      BY <1>4, <1>7, <3>1
    <3>2. CASE i # 1
      BY <1>1, <1>7, <2>1, <3>2
    <3> QED
      BY <3>1, <3>2
  <2> QED
    BY <1>8, <1>9, <2>1, <2>2, <2>3 DEF Line
<1>11. Loose(S, {}) /\ LastUsed(S)
  <2>1. Len(S) = N + 1 /\ Len(S) - 1 = N /\ N + 1 > i + 1
        /\ N + 1 \in 1..(N + 1) /\ (N + 1) - 1 = N
    BY <1>1, <1>6, <1>8
  <2>2. S[N + 1] = R[N]
    BY <1>7, <2>1
  <2> QED
    BY <1>8, <1>9, <2>1, <2>2 DEF Loose, LastUsed
<1>12. UsedIn(S) = UsedIn(R) \cup {e}
  <2>1. \A r : r \in UsedIn(R) <=> \E k \in 1..N : r = R[k] /\ ~R[k].isFree
    BY RegionsFacts DEF N
  <2>2. \A r : r \in UsedIn(S) <=> \E k \in 1..(N + 1) : r = S[k] /\ ~S[k].isFree
    BY <1>6, RegionsFacts
  <2>3. ASSUME NEW r \in UsedIn(S), r # e
        PROVE  r \in UsedIn(R)
    <3>1. PICK k \in 1..(N + 1) : r = S[k] /\ ~S[k].isFree
      BY <2>2
    <3>2. k < i \/ k > i + 1
      BY <1>1, <1>4, <1>7, <2>3, <3>1
    <3>3. CASE k < i
      <4>1. k \in 1..N /\ S[k] = R[k]
        BY <1>1, <1>7, <3>3
      <4> QED
        BY <2>1, <3>1, <4>1
    <3>4. CASE k > i + 1
      BY <1>7, <2>1, <3>1, <3>4
    <3> QED
      BY <3>2, <3>3, <3>4
  <2>4. ASSUME NEW r \in UsedIn(R)
        PROVE  r \in UsedIn(S)
    <3>1. PICK k \in 1..N : r = R[k] /\ ~R[k].isFree
      BY <2>1
    <3>2. CASE k < i
      <4>1. k \in 1..(N + 1) /\ S[k] = R[k]
        BY <1>1, <1>7, <3>2
      <4> QED
        BY <2>2, <3>1, <4>1
    <3>3. CASE k > i
      <4> DEFINE l == k + 1
      <4>1. l \in 1..(N + 1) /\ l - 1 = k /\ l > i + 1
        BY <1>1, <3>3
      <4> HIDE DEF l
      <4>2. S[l] = R[k]
        BY <1>7, <4>1
      <4> QED
        BY <2>2, <3>1, <4>1, <4>2
    <3>4. k # i
      BY <3>1
    <3> QED
      BY <1>1, <3>2, <3>3, <3>4
  <2>5. e \in UsedIn(S)
    <3>1. i \in 1..(N + 1)
      BY <1>1
    <3> QED
      BY <1>4, <1>7, <2>2, <3>1
  <2> QED
    BY <2>3, <2>4, <2>5
<1>13. \A r \in UsedIn(R) : r.va # R[i].va
  BY RegionsFacts, LineBounds
<1> QED
  BY <1>1, <1>6, <1>10, <1>11, <1>12, <1>13 DEF Takes, S, T, e, f, N

(* A new region at the break.                                              *)
LEMMA ExtendIs ==
  ASSUME NEW R \in Seq(Region), NEW top \in Nat, HeapStart <= top,
         Line(R, top), Loose(R, {}), LastUsed(R),
         NEW n \in Nat \ {0}, top + n <= HeapMax
  PROVE  LET S == Append(R, InUse(top, n))
         IN  /\ Takes(R, S, top, n)
             /\ Line(S, top + n) /\ Len(S) = Len(R) + 1
<1> DEFINE e == InUse(top, n)
           S == Append(R, e)
           N == Len(R)
<1>1. /\ N \in Nat /\ HeapStart \in Nat \ {0} /\ HeapMax \in Nat
      /\ top \in HeapStart..(HeapMax - 1) /\ n \in 1..(HeapMax - HeapStart)
  BY RegionsFacts, UserHeapConstants
<1>2. e \in Region /\ e.va = top /\ EndOf(e) = top + n /\ ~e.isFree
  BY <1>1 DEF InUse, Region, EndOf
<1> HIDE DEF e
<1>3. /\ S \in Seq(Region) /\ Len(S) = N + 1
      /\ \A k \in 1..N : S[k] = R[k]
      /\ S[N + 1] = e
  BY <1>1, <1>2, AppendProperties
<1> HIDE DEF S, N
<1>4. /\ N = 0 => top = HeapStart
      /\ N > 0 => R[1].va = HeapStart /\ EndOf(R[N]) = top /\ ~R[N].isFree
      /\ \A k \in 1..(N - 1) : EndOf(R[k]) = R[k + 1].va
      /\ \A k \in 1..(N - 1) : ~(R[k].isFree /\ R[k + 1].isFree)
  BY DEF Line, Loose, LastUsed, N
<1>5. ASSUME NEW k \in 1..N
      PROVE  /\ EndOf(S[k]) = S[k + 1].va
             /\ ~(S[k].isFree /\ S[k + 1].isFree)
  <2>1. CASE k = N
    BY <1>1, <1>2, <1>3, <1>4, <2>1
  <2>2. CASE k # N
    <3>1. k \in 1..(N - 1) /\ k + 1 \in 1..N
      BY <1>1, <2>2
    <3> QED
      BY <1>3, <1>4, <3>1
  <2> QED
    BY <2>1, <2>2
<1>6. Len(S) > 0 /\ Len(S) - 1 = N /\ Len(S) = N + 1
  BY <1>1, <1>3
<1>7. Line(S, top + n)
  <2>1. S[1].va = HeapStart
    <3>1. CASE N = 0
      BY <1>2, <1>3, <1>4, <3>1
    <3>2. CASE N # 0
      BY <1>1, <1>3, <1>4, <3>2
    <3> QED
      BY <3>1, <3>2
  <2> QED
    BY <1>2, <1>3, <1>5, <1>6, <2>1 DEF Line
<1>8. Loose(S, {}) /\ LastUsed(S)
  BY <1>2, <1>3, <1>5, <1>6 DEF Loose, LastUsed
<1>9. \A r : r \in UsedIn(R) <=> \E k \in 1..N : r = R[k] /\ ~R[k].isFree
  BY RegionsFacts DEF N
<1>10. UsedIn(S) = UsedIn(R) \cup {e}
  <2>1. \A r : r \in UsedIn(S) <=> \E k \in 1..(N + 1) : r = S[k] /\ ~S[k].isFree
    BY <1>3, RegionsFacts
  <2>2. \A k \in 1..(N + 1) : k \in 1..N \/ k = N + 1
    BY <1>1
  <2>3. N + 1 \in 1..(N + 1) /\ \A k \in 1..N : k \in 1..(N + 1)
    BY <1>1
  <2> QED
    BY <1>2, <1>3, <1>9, <2>1, <2>2, <2>3
<1>11. ASSUME NEW r \in UsedIn(R)
       PROVE  r.va # top
  <2>1. PICK k \in 1..N : r = R[k]
    BY <1>9
  <2>2. EndOf(r) <= top /\ r.va < EndOf(r) /\ r.va \in Nat /\ EndOf(r) \in Nat
    BY <2>1, LineBounds, RegionsFacts, RegionFacts DEF N
  <2> QED
    BY <2>2
<1> QED
  BY <1>1, <1>3, <1>7, <1>8, <1>10, <1>11 DEF Takes, S, N, e

(* What w_ff writes into the region it cuts.                               *)
LEMMA TakenWhole ==
  ASSUME NEW r \in Region, NEW n \in 1..(HeapMax - HeapStart)
  PROVE  [[r EXCEPT !.isFree = FALSE] EXCEPT !.size = n] = InUse(r.va, n)
<1> DEFINE s == [r EXCEPT !.isFree = FALSE]
           t == [s EXCEPT !.size = n]
<1>1. s \in Region /\ s.va = r.va /\ s.isFree = FALSE
  BY DEF Region
<1> HIDE DEF s
<1>2. t \in Region /\ t.va = s.va /\ t.isFree = s.isFree /\ t.size = n
  BY <1>1 DEF Region
<1> HIDE DEF t
<1>3. t = [va |-> t.va, size |-> t.size, isFree |-> t.isFree]
  BY <1>2 DEF Region
<1> QED
  BY <1>1, <1>2, <1>3 DEF s, t, InUse

(* Every answer of ChooseRegion.                                           *)
LEMMA ChooseIs ==
  ASSUME NEW h \in HeapState, Tiled(h), NEW n \in Nat \ {0}
  PROVE  LET r == ChooseRegion(h, n)
             g == r.heap
         IN  /\ r.answer \in {"granted", "room", "block", "top block"}
             /\ r.answer # "granted" => g = h /\ r.va = 0
             /\ r.answer = "granted" =>
                  /\ g \in HeapState /\ Tiled(g)
                  /\ Takes(h.regions, g.regions, r.va, n)
                  /\ g.break = h.break \/ g.break = r.va + n
<1> DEFINE R == h.regions
           fits  == {i \in DOMAIN R : R[i].isFree /\ R[i].size >= n}
           exact == {i \in fits : R[i].size = n}
           worst == {i \in fits : \A j \in fits : R[j].size <= R[i].size}
<1>1. /\ R \in Seq(Region) /\ Len(R) \in Nat /\ DOMAIN R = 1..Len(R)
      /\ h.break \in HeapStart..HeapMax /\ h.blocks \in 0..Blocks
      /\ HeapStart \in Nat \ {0} /\ HeapMax \in Nat /\ Blocks \in Nat
      /\ h.break \in Nat /\ h.break <= HeapMax /\ HeapStart <= h.break
  BY RegionsFacts, UserHeapConstants DEF HeapState
<1>2. /\ Line(R, h.break) /\ Loose(R, {}) /\ LastUsed(R)
      /\ h.blocks + Len(R) = Blocks
  BY TiledIs
<1>3. h = [regions |-> R, break |-> h.break, blocks |-> h.blocks]
  BY DEF HeapState
<1>4. ASSUME NEW S, NEW a, NEW break \in HeapStart..HeapMax, NEW blocks \in 0..Blocks,
             Takes(R, S, a, n), Line(S, break), blocks + Len(S) = Blocks
      PROVE  LET g == [regions |-> S, break |-> break, blocks |-> blocks]
             IN  g \in HeapState /\ Tiled(g) /\ Takes(R, g.regions, a, n)
  <2> DEFINE g == [regions |-> S, break |-> break, blocks |-> blocks]
  <2>1. g \in HeapState /\ g.regions = S /\ g.break = break /\ g.blocks = blocks
    BY <1>4 DEF HeapState, Takes
  <2> HIDE DEF g
  <2>2. Loose(S, {}) /\ LastUsed(S)
    BY <1>4 DEF Takes
  <2>3. Tiled(g)
    BY <1>4, <2>1, <2>2, TiledIs
  <2>4. g \in HeapState /\ Tiled(g) /\ Takes(R, g.regions, a, n)
    BY <1>4, <2>1, <2>3
  <2> QED
    BY <2>4 DEF g
<1>5. ASSUME exact # {}
      PROVE  LET r == ExactFit(h, Min(exact))
             IN  /\ r.answer = "granted" /\ r.heap \in HeapState /\ Tiled(r.heap)
                 /\ Takes(R, r.heap.regions, r.va, n) /\ r.heap.break = h.break
  <2> DEFINE i == Min(exact)
             S == [R EXCEPT ![i].isFree = FALSE]
             r == ExactFit(h, i)
             g == [regions |-> S, break |-> h.break, blocks |-> h.blocks]
  <2>1. i \in exact
    <3>1. exact \subseteq Nat
      BY <1>1
    <3> HIDE DEF exact
    <3> QED
      BY <1>5, <3>1, LeastNumber DEF Min
  <2>2. i \in 1..Len(R) /\ R[i].isFree /\ R[i].size = n
    BY <1>1, <2>1
  <2> HIDE DEF i, exact
  <2>3. r.answer = "granted" /\ r.va = R[i].va /\ r.heap = [h EXCEPT !.regions[i].isFree = FALSE]
    BY DEF ExactFit, Granted
  <2>4. r.heap = g
    BY <1>3, <2>3
  <2> HIDE DEF r
  <2>5. Takes(R, S, R[i].va, n) /\ Line(S, h.break) /\ Len(S) = Len(R)
    BY <1>1, <1>2, <2>2, ExactFitIs
  <2> HIDE DEF S
  <2>6. g \in HeapState /\ Tiled(g) /\ Takes(R, g.regions, R[i].va, n)
    BY <1>1, <1>2, <1>4, <2>5
  <2>7. g.break = h.break
    OBVIOUS
  <2> HIDE DEF g
  <2>8. /\ r.answer = "granted" /\ r.heap \in HeapState /\ Tiled(r.heap)
        /\ Takes(R, r.heap.regions, r.va, n) /\ r.heap.break = h.break
    BY <2>3, <2>4, <2>6, <2>7
  <2> QED
    BY <2>8 DEF r, i
<1>6. ASSUME exact = {}, worst # {}
      PROVE  LET r == WorstFit(h, Min(worst), n)
             IN  /\ r.answer \in {"granted", "block"}
                 /\ r.answer # "granted" => r.heap = h /\ r.va = 0
                 /\ r.answer = "granted" =>
                      /\ r.heap \in HeapState /\ Tiled(r.heap)
                      /\ Takes(R, r.heap.regions, r.va, n) /\ r.heap.break = h.break
  <2> DEFINE i == Min(worst)
             T == [R EXCEPT ![i] = InUse(R[i].va, n)]
             S == InsertAt(T, i + 1, [va |-> R[i].va + n, size |-> R[i].size - n,
                                      isFree |-> TRUE])
             r == WorstFit(h, i, n)
             g == [regions |-> S, break |-> h.break, blocks |-> h.blocks - 1]
  <2>1. i \in worst
    <3>1. worst \subseteq Nat
      BY <1>1
    <3> HIDE DEF worst
    <3> QED
      BY <1>6, <3>1, LeastNumber DEF Min
  <2>2. i \in 1..Len(R) /\ R[i].isFree /\ n < R[i].size /\ R[i] \in Region
    <3>1. i \in fits
      BY <2>1
    <3>2. i \notin exact
      BY <1>6
    <3>3. i \in 1..Len(R) /\ R[i].isFree /\ R[i].size >= n /\ R[i].size # n
      BY <1>1, <3>1, <3>2
    <3>4. R[i] \in Region /\ R[i].size \in Nat
      BY <1>1, <3>3, RegionsFacts, RegionFacts
    <3> QED
      BY <3>3, <3>4
  <2> HIDE DEF i, exact, worst
  <2>3. CASE h.blocks = 0
    <3>1. r = Refused(h, "block")
      BY <2>3 DEF WorstFit
    <3> QED
      BY <3>1 DEF Refused, i
  <2>4. CASE h.blocks # 0
    <3>1. [[R[i] EXCEPT !.isFree = FALSE] EXCEPT !.size = n] = InUse(R[i].va, n)
      <4>1. n \in 1..(HeapMax - HeapStart)
        BY <2>2, RegionFacts
      <4> QED
        BY <2>2, <4>1, TakenWhole
    <3>2. [[R EXCEPT ![i].isFree = FALSE] EXCEPT ![i].size = n] = T
      BY <1>1, <2>2, <3>1
    <3> DEFINE cut == [h EXCEPT !.regions[i].isFree = FALSE, !.regions[i].size = n,
                                !.blocks = h.blocks - 1]
    <3>3. cut = [regions |-> T, break |-> h.break, blocks |-> h.blocks - 1]
      <4>1. cut = [[h EXCEPT !.regions = [[R EXCEPT ![i].isFree = FALSE] EXCEPT ![i].size = n]]
                     EXCEPT !.blocks = h.blocks - 1]
        BY <1>3
      <4> HIDE DEF cut, T, R
      <4> QED
        BY <3>2, <4>1 DEF HeapState
    <3>4. r = Granted([cut EXCEPT !.regions = InsertAt(cut.regions, i + 1,
                         [va |-> R[i].va + n, size |-> R[i].size - n,
                          isFree |-> TRUE])], R[i].va)
      BY <2>4 DEF WorstFit
    <3> HIDE DEF r, cut, T
    <3>5. cut.regions = T
      BY <3>3
    <3>10. r.answer = "granted" /\ r.va = R[i].va /\ r.heap = g
      BY <3>3, <3>4, <3>5 DEF Granted
    <3> USE DEF T
    <3>11. Takes(R, S, R[i].va, n) /\ Line(S, h.break) /\ Len(S) = Len(R) + 1
      BY <1>1, <1>2, <2>2, WorstFitIs
    <3> HIDE DEF S
    <3>6. h.blocks - 1 \in 0..Blocks /\ (h.blocks - 1) + (Len(R) + 1) = Blocks
      BY <1>1, <1>2, <2>4
    <3>7. g \in HeapState /\ Tiled(g) /\ Takes(R, g.regions, R[i].va, n)
      BY <1>1, <1>4, <3>11, <3>6
    <3>8. g.break = h.break
      OBVIOUS
    <3> HIDE DEF g
    <3>9. /\ r.answer = "granted" /\ r.heap \in HeapState /\ Tiled(r.heap)
          /\ Takes(R, r.heap.regions, r.va, n) /\ r.heap.break = h.break
      BY <3>10, <3>7, <3>8
    <3> QED
      BY <3>9 DEF r, i
  <2> QED
    BY <2>3, <2>4
<1>7. LET r == ExtendBreak(h, n)
      IN  /\ r.answer \in {"granted", "room", "top block"}
          /\ r.answer # "granted" => r.heap = h /\ r.va = 0
          /\ r.answer = "granted" =>
               /\ r.heap \in HeapState /\ Tiled(r.heap)
               /\ Takes(R, r.heap.regions, r.va, n) /\ r.heap.break = r.va + n
  <2> DEFINE r == ExtendBreak(h, n)
             S == Append(R, InUse(h.break, n))
             g == [regions |-> S, break |-> h.break + n, blocks |-> h.blocks - 1]
  <2>1. CASE h.break + n > HeapMax
    BY <2>1 DEF ExtendBreak, Refused
  <2>2. CASE ~(h.break + n > HeapMax) /\ h.blocks = 0
    BY <2>2 DEF ExtendBreak, Refused
  <2>3. CASE ~(h.break + n > HeapMax) /\ h.blocks # 0
    <3>1. r.answer = "granted" /\ r.va = h.break /\ r.heap = g
      BY <2>3 DEF ExtendBreak, Granted, InUse
    <3> HIDE DEF r
    <3>2. h.break + n <= HeapMax
      BY <1>1, <2>3
    <3>3. Takes(R, S, h.break, n) /\ Line(S, h.break + n) /\ Len(S) = Len(R) + 1
      BY <1>1, <1>2, <3>2, ExtendIs
    <3> HIDE DEF S
    <3>4. /\ h.blocks - 1 \in 0..Blocks /\ (h.blocks - 1) + (Len(R) + 1) = Blocks
          /\ h.break + n \in HeapStart..HeapMax
      BY <1>1, <1>2, <2>3, <3>2
    <3>5. g \in HeapState /\ Tiled(g) /\ Takes(R, g.regions, h.break, n)
      BY <1>1, <1>4, <3>3, <3>4
    <3>6. g.break = h.break + n
      OBVIOUS
    <3> HIDE DEF g
    <3>7. /\ r.answer = "granted" /\ r.heap \in HeapState /\ Tiled(r.heap)
          /\ Takes(R, r.heap.regions, r.va, n) /\ r.heap.break = r.va + n
      BY <3>1, <3>5, <3>6
    <3> QED
      BY <3>7 DEF r
  <2> QED
    BY <2>1, <2>2, <2>3
<1>8. ChooseRegion(h, n) = IF exact # {} THEN ExactFit(h, Min(exact))
                           ELSE IF worst # {} THEN WorstFit(h, Min(worst), n)
                           ELSE ExtendBreak(h, n)
  BY DEF ChooseRegion
<1> HIDE DEF exact, worst, fits
<1>9. CASE exact # {}
  <2>1. ChooseRegion(h, n) = ExactFit(h, Min(exact))
    BY <1>8, <1>9
  <2> QED
    BY <1>5, <1>9, <2>1
<1>10. CASE exact = {} /\ worst # {}
  <2>1. ChooseRegion(h, n) = WorstFit(h, Min(worst), n)
    BY <1>8, <1>10
  <2> QED
    BY <1>6, <1>10, <2>1
<1>11. CASE exact = {} /\ worst = {}
  <2>1. ChooseRegion(h, n) = ExtendBreak(h, n)
    BY <1>8, <1>11
  <2> QED
    BY <1>7, <2>1
<1> QED
  BY <1>9, <1>10, <1>11

(* LIST_REMOVE, position by position.                                      *)
Removed(T, q, i, r) ==
  /\ r \in Seq(T) /\ Len(r) = Len(q) - 1
  /\ \A k \in 1..(Len(q) - 1) : r[k] = IF k < i THEN q[k] ELSE q[k + 1]

(* RemoveAt takes it out and shifts the rest.                              *)
LEMMA RemoveIs ==
  ASSUME NEW T, NEW q \in Seq(T), NEW i \in DOMAIN q
  PROVE  Removed(T, q, i, RemoveAt(q, i))
BY CutIs DEF RemoveAt, Removed

(* A heap whose regions are in line, which free regions may not be.        *)
Lined(h) ==
  /\ h \in HeapState /\ Line(h.regions, h.break)
  /\ h.blocks + Len(h.regions) = Blocks

(* What is written into the record of a heap.                              *)
LEMMA HeapWith ==
  ASSUME NEW h \in HeapState, NEW S, NEW b
  PROVE  /\ [h EXCEPT !.regions = S]
              = [regions |-> S, break |-> h.break, blocks |-> h.blocks]
         /\ [h EXCEPT !.regions = S, !.blocks = b]
              = [regions |-> S, break |-> h.break, blocks |-> b]
<1> DEFINE g == [h EXCEPT !.regions = S]
<1>1. g = [regions |-> S, break |-> h.break, blocks |-> h.blocks]
  BY DEF HeapState
<1> HIDE DEF g
<1>2. [g EXCEPT !.blocks = b] = [regions |-> S, break |-> h.break, blocks |-> b]
  BY <1>1
<1>3. [h EXCEPT !.regions = S, !.blocks = b] = [g EXCEPT !.blocks = b]
  BY DEF g
<1> QED
  BY <1>1, <1>2, <1>3 DEF g

(* Two free neighbours become one.                                         *)
LEMMA JoinIs ==
  ASSUME NEW R \in Seq(Region), NEW top \in Nat, top <= HeapMax, Line(R, top),
         NEW B, Loose(R, B), NEW i \in 1..Len(R), i + 1 \in 1..Len(R),
         B \subseteq {i - 1, i}, R[i].isFree, R[i + 1].isFree
  PROVE  LET S == [RemoveAt(R, i + 1) EXCEPT ![i].size = @ + R[i + 1].size]
         IN  /\ S \in Seq(Region) /\ Len(S) = Len(R) - 1 /\ Line(S, top)
             /\ Loose(S, B \ {i}) /\ UsedIn(S) = UsedIn(R)
<1> DEFINE N == Len(R)
           T == RemoveAt(R, i + 1)
           e == [va |-> R[i].va, size |-> R[i].size + R[i + 1].size, isFree |-> TRUE]
           S == [T EXCEPT ![i] = e]
<1>1. /\ N \in Nat /\ i \in 1..N /\ i + 1 \in 1..N /\ i \in 1..(N - 1)
      /\ R[i] \in Region /\ R[i + 1] \in Region
  BY RegionsFacts
<1>2. /\ \A k \in 1..(N - 1) : EndOf(R[k]) = R[k + 1].va
      /\ N > 0 /\ R[1].va = HeapStart /\ EndOf(R[N]) = top
      /\ \A k \in 1..(N - 1) : k \notin B => ~(R[k].isFree /\ R[k + 1].isFree)
  BY <1>1 DEF Line, Loose
<1>3. /\ e \in Region /\ e.va = R[i].va /\ EndOf(e) = EndOf(R[i + 1]) /\ e.isFree
  <2>1. /\ R[i].va \in HeapStart..(HeapMax - 1) /\ R[i].size \in Nat \ {0}
        /\ R[i + 1].va \in Nat /\ R[i + 1].size \in Nat \ {0}
        /\ HeapStart \in Nat /\ HeapMax \in Nat
        /\ R[i].va + R[i].size = EndOf(R[i])
        /\ R[i + 1].va + R[i + 1].size = EndOf(R[i + 1])
    BY <1>1, RegionFacts
  <2>2. EndOf(R[i]) = R[i + 1].va /\ EndOf(R[i + 1]) <= top
    BY <1>1, <1>2, LineBounds
  <2>3. R[i].size + R[i + 1].size \in 1..(HeapMax - HeapStart)
    <3> DEFINE v == R[i].va
               m == R[i].size
               w == R[i + 1].va
               n == R[i + 1].size
    <3>1. /\ v \in Nat /\ HeapStart <= v /\ m \in Nat \ {0} /\ n \in Nat \ {0}
          /\ v + m = w /\ w + n <= HeapMax /\ HeapStart \in Nat /\ HeapMax \in Nat
      BY <2>1, <2>2
    <3> HIDE DEF v, m, w, n
    <3>2. m + n \in 1..(HeapMax - HeapStart)
      BY <3>1
    <3> QED
      BY <3>2 DEF m, n
  <2>4. e.va + e.size = EndOf(R[i + 1])
    BY <2>1, <2>2
  <2> QED
    BY <2>1, <2>3, <2>4 DEF Region, EndOf
<1>4. /\ T \in Seq(Region) /\ Len(T) = N - 1
      /\ \A k \in 1..(N - 1) : T[k] = IF k < i + 1 THEN R[k] ELSE R[k + 1]
  <2>1. i + 1 \in DOMAIN R
    BY RegionsFacts
  <2>2. Removed(Region, R, i + 1, T)
    BY <2>1, RemoveIs
  <2> QED
    BY <2>2 DEF Removed
<1>5. T[i] = R[i]
  BY <1>1, <1>4
<1>6. [T EXCEPT ![i].size = @ + R[i + 1].size] = S
  <2>1. [R[i] EXCEPT !.size = R[i].size + R[i + 1].size] = e
    <3> DEFINE s == R[i].size + R[i + 1].size
               t == [R[i] EXCEPT !.size = s]
    <3>1. s \in 1..(HeapMax - HeapStart)
      BY <1>3 DEF Region
    <3> HIDE DEF s
    <3>2. t \in Region /\ t.va = R[i].va /\ t.size = s /\ t.isFree = R[i].isFree
      BY <1>1, <3>1 DEF Region
    <3> HIDE DEF t
    <3>3. t = [va |-> t.va, size |-> t.size, isFree |-> t.isFree]
      BY <3>2 DEF Region
    <3>4. t.isFree = TRUE
      BY <1>1, <3>2 DEF Region
    <3> QED
      BY <3>2, <3>3, <3>4 DEF s, t
  <2> HIDE DEF T, e
  <2> QED
    BY <1>5, <2>1
<1> HIDE DEF e, T
<1>7. /\ S \in Seq(Region) /\ Len(S) = N - 1
      /\ \A k \in 1..(N - 1) : S[k] = IF k = i THEN e ELSE T[k]
  <2>1. i \in 1..Len(T)
    BY <1>1, <1>4
  <2> QED
    BY <1>3, <1>4, <2>1, ExceptSeq
<1> HIDE DEF S, N
<1>8. /\ \A k \in 1..(N - 1) : k < i => S[k] = R[k]
      /\ S[i] = e
      /\ \A k \in 1..(N - 1) : k > i => k + 1 \in 1..N /\ S[k] = R[k + 1]
  <2>1. ASSUME NEW k \in 1..(N - 1), k < i
        PROVE  S[k] = R[k]
    BY <1>1, <1>4, <1>7, <2>1
  <2>2. S[i] = e
    BY <1>1, <1>7
  <2>3. ASSUME NEW k \in 1..(N - 1), k > i
        PROVE  k + 1 \in 1..N /\ S[k] = R[k + 1]
    BY <1>1, <1>4, <1>7, <2>3
  <2> QED
    BY <2>1, <2>2, <2>3
<1>9. ASSUME NEW k \in 1..(N - 2)
      PROVE  /\ EndOf(S[k]) = S[k + 1].va
             /\ k \notin B \ {i} => ~(S[k].isFree /\ S[k + 1].isFree)
  <2>0. /\ k \in 1..(N - 1) /\ k + 1 \in 1..(N - 1)
    BY <1>1
  <2>1. CASE k + 1 < i
    <3>1. S[k] = R[k] /\ S[k + 1] = R[k + 1]
      BY <1>1, <1>8, <2>0, <2>1
    <3> QED
      BY <1>1, <1>2, <2>0, <2>1, <3>1
  <2>2. CASE k + 1 = i
    <3>1. S[k] = R[k] /\ S[k + 1] = e /\ k # i
      BY <1>1, <1>8, <2>0, <2>2
    <3> QED
      BY <1>1, <1>2, <1>3, <2>0, <2>2, <3>1
  <2>3. CASE k = i
    <3> DEFINE l == k + 1
    <3>1. S[k] = e /\ S[l] = R[l + 1] /\ l \in 1..(N - 1) /\ l = i + 1
      BY <1>1, <1>8, <2>0, <2>3
    <3> HIDE DEF l
    <3>2. EndOf(R[l]) = R[l + 1].va /\ ~R[l + 1].isFree /\ EndOf(e) = EndOf(R[l])
      BY <1>2, <1>3, <3>1
    <3> QED
      BY <3>1, <3>2 DEF l
  <2>4. CASE k > i
    <3> DEFINE l == k + 1
    <3>1. S[k] = R[l] /\ S[l] = R[l + 1] /\ l \in 1..(N - 1)
      BY <1>1, <1>8, <2>0, <2>4
    <3>2. EndOf(R[l]) = R[l + 1].va
      BY <1>2, <3>1
    <3>3. l \notin B
      BY <1>1, <2>4
    <3> QED
      BY <1>2, <3>1, <3>2, <3>3
  <2> QED
    BY <1>1, <2>0, <2>1, <2>2, <2>3, <2>4
<1>10. Len(S) > 0 /\ Len(S) - 1 = N - 2
  BY <1>1, <1>7
<1>11. Line(S, top)
  <2>1. S[1].va = HeapStart
    <3>1. CASE i = 1
      BY <1>2, <1>3, <1>8, <3>1
    <3>2. CASE i # 1
      BY <1>1, <1>2, <1>8, <3>2
    <3> QED
      BY <3>1, <3>2
  <2>2. EndOf(S[N - 1]) = top
    <3>1. CASE i = N - 1
      BY <1>1, <1>2, <1>3, <1>8, <3>1
    <3>2. CASE i # N - 1
      <4>1. N - 1 \in 1..(N - 1) /\ N - 1 > i /\ (N - 1) + 1 = N
        BY <1>1, <3>2
      <4> QED
        BY <1>2, <1>8, <4>1
    <3> QED
      BY <3>1, <3>2
  <2> QED
    BY <1>7, <1>9, <1>10, <2>1, <2>2 DEF Line
<1>12. Loose(S, B \ {i})
  BY <1>9, <1>10 DEF Loose
<1>13. UsedIn(S) = UsedIn(R)
  <2>1. \A r : r \in UsedIn(R) <=> \E k \in 1..N : r = R[k] /\ ~R[k].isFree
    BY RegionsFacts DEF N
  <2>2. \A r : r \in UsedIn(S) <=> \E k \in 1..(N - 1) : r = S[k] /\ ~S[k].isFree
    BY <1>7, RegionsFacts
  <2>3. ASSUME NEW r \in UsedIn(S)
        PROVE  r \in UsedIn(R)
    <3>1. PICK k \in 1..(N - 1) : r = S[k] /\ ~S[k].isFree
      BY <2>2
    <3>2. k < i \/ k > i
      BY <1>1, <1>3, <1>8, <3>1
    <3>3. CASE k < i
      BY <1>1, <1>8, <2>1, <3>1, <3>3
    <3>4. CASE k > i
      BY <1>8, <2>1, <3>1, <3>4
    <3> QED
      BY <3>2, <3>3, <3>4
  <2>4. ASSUME NEW r \in UsedIn(R)
        PROVE  r \in UsedIn(S)
    <3>1. PICK k \in 1..N : r = R[k] /\ ~R[k].isFree
      BY <2>1
    <3>2. CASE k < i
      <4>1. k \in 1..(N - 1) /\ S[k] = R[k]
        BY <1>1, <1>8, <3>2
      <4> QED
        BY <2>2, <3>1, <4>1
    <3>3. CASE k > i + 1
      <4> DEFINE l == k - 1
      <4>1. l \in 1..(N - 1) /\ l + 1 = k /\ l > i
        BY <1>1, <3>3
      <4> HIDE DEF l
      <4>2. S[l] = R[k]
        BY <1>8, <4>1
      <4> QED
        BY <2>2, <3>1, <4>1, <4>2
    <3>4. k # i /\ k # i + 1
      BY <3>1
    <3> QED
      BY <1>1, <3>2, <3>3, <3>4
  <2> QED
    BY <2>3, <2>4
<1>14. S \in Seq(Region) /\ Len(S) = N - 1 /\ Line(S, top) /\ Loose(S, B \ {i})
       /\ UsedIn(S) = UsedIn(R)
  BY <1>7, <1>11, <1>12, <1>13
<1> QED
  BY <1>6, <1>14 DEF S, N, T

(* Merge, whether there is something to merge or not.                      *)
LEMMA MergeIs ==
  ASSUME NEW h, Lined(h), NEW i \in Nat, NEW B, B \subseteq {i - 1, i},
         Loose(h.regions, B)
  PROVE  LET g == Merge(h, i)
         IN  /\ Lined(g) /\ g.break = h.break
             /\ Loose(g.regions, B \ {i}) /\ UsedIn(g.regions) = UsedIn(h.regions)
<1> DEFINE R == h.regions
<1>1. /\ R \in Seq(Region) /\ Len(R) \in Nat /\ DOMAIN R = 1..Len(R)
      /\ h.break \in HeapStart..HeapMax /\ h.blocks \in 0..Blocks
      /\ HeapStart \in Nat \ {0} /\ HeapMax \in Nat /\ Blocks \in Nat
      /\ h.break \in Nat /\ h.break <= HeapMax
      /\ Line(R, h.break) /\ h.blocks + Len(R) = Blocks
  BY RegionsFacts, UserHeapConstants DEF HeapState, Lined
<1>2. CASE /\ i \in DOMAIN R /\ i + 1 \in DOMAIN R
           /\ R[i].isFree /\ R[i + 1].isFree
           /\ R[i].va + R[i].size = R[i + 1].va
  <2> DEFINE S == [RemoveAt(R, i + 1) EXCEPT ![i].size = @ + R[i + 1].size]
             g == [regions |-> S, break |-> h.break, blocks |-> h.blocks + 1]
  <2>1. Merge(h, i) = [DropRegion(h, i + 1) EXCEPT !.regions[i].size = @ + R[i + 1].size]
    BY <1>2 DEF Merge
  <2>2. DropRegion(h, i + 1) = [regions |-> RemoveAt(R, i + 1), break |-> h.break,
                                blocks |-> h.blocks + 1]
    BY HeapWith DEF DropRegion, Lined
  <2>3. Merge(h, i) = g
    BY <2>1, <2>2
  <2>4. /\ S \in Seq(Region) /\ Len(S) = Len(R) - 1 /\ Line(S, h.break)
        /\ Loose(S, B \ {i}) /\ UsedIn(S) = UsedIn(R)
    BY <1>1, <1>2, JoinIs
  <2> HIDE DEF S
  <2>5. h.blocks + 1 \in 0..Blocks /\ (h.blocks + 1) + (Len(R) - 1) = Blocks
    BY <1>1, <1>2
  <2>6. Lined(g)
    BY <1>1, <2>4, <2>5 DEF Lined, HeapState
  <2>7. g.regions = S /\ g.break = h.break
    OBVIOUS
  <2> HIDE DEF g
  <2> QED
    BY <2>3, <2>4, <2>6, <2>7
<1>3. CASE ~(/\ i \in DOMAIN R /\ i + 1 \in DOMAIN R
             /\ R[i].isFree /\ R[i + 1].isFree
             /\ R[i].va + R[i].size = R[i + 1].va)
  <2>1. Merge(h, i) = h
    BY <1>3 DEF Merge
  <2>2. Loose(R, B \ {i})
    <3>1. SUFFICES ASSUME i \in 1..(Len(R) - 1)
                   PROVE  ~(R[i].isFree /\ R[i + 1].isFree)
      BY DEF Loose
    <3>2. R[i].va + R[i].size = R[i + 1].va
      BY <1>1, <3>1 DEF Line, EndOf
    <3> QED
      BY <1>1, <1>3, <3>1, <3>2
  <2> QED
    BY <2>1, <2>2
<1> QED
  BY <1>2, <1>3

(* A free region at the top lowers the break.                              *)
LEMMA LowerIs ==
  ASSUME NEW h, Lined(h), Loose(h.regions, {})
  PROVE  LET g == LowerBreak(h)
         IN  /\ g \in HeapState /\ Tiled(g) /\ g.break <= h.break
             /\ UsedIn(g.regions) = UsedIn(h.regions)
<1> DEFINE R == h.regions
           N == Len(R)
<1>1. /\ R \in Seq(Region) /\ N \in Nat /\ DOMAIN R = 1..N
      /\ h.break \in HeapStart..HeapMax /\ h.blocks \in 0..Blocks
      /\ HeapStart \in Nat \ {0} /\ HeapMax \in Nat /\ Blocks \in Nat
      /\ Line(R, h.break) /\ h.blocks + N = Blocks
      /\ h = [regions |-> R, break |-> h.break, blocks |-> h.blocks]
  BY RegionsFacts, UserHeapConstants DEF HeapState, Lined
<1>2. CASE N > 0 /\ R[N].isFree
  <2> DEFINE S == RemoveAt(R, N)
             g == [regions |-> S, break |-> R[N].va, blocks |-> h.blocks + 1]
  <2>1. LowerBreak(h) = g
    <3>1. LowerBreak(h) = [DropRegion(h, N) EXCEPT !.break = R[N].va]
      BY <1>2 DEF LowerBreak
    <3>2. DropRegion(h, N) = [regions |-> S, break |-> h.break, blocks |-> h.blocks + 1]
      BY HeapWith DEF DropRegion, Lined
    <3> QED
      BY <3>1, <3>2
  <2>2. /\ S \in Seq(Region) /\ Len(S) = N - 1
        /\ \A k \in 1..(N - 1) : S[k] = R[k]
    <3> HIDE DEF N
    <3>1. N \in DOMAIN R /\ R \in Seq(Region)
      BY <1>1, <1>2
    <3>2. Removed(Region, R, N, S)
      BY <3>1, RemoveIs
    <3> HIDE DEF S
    <3>3. Len(R) = N
      BY DEF N
    <3> QED
      BY <1>1, <3>2, <3>3 DEF Removed
  <2> HIDE DEF S, N
  <2>3. /\ R[N] \in Region /\ R[N].va \in HeapStart..HeapMax
        /\ R[N].va < EndOf(R[N]) /\ EndOf(R[N]) = h.break
        /\ R[N].va \in Nat /\ h.break \in Nat
    <3>1. N \in 1..N
      BY <1>1, <1>2
    <3>2. R[N] \in Region
      <4>1. \A k \in 1..Len(R) : R[k] \in Region
        BY <1>1, RegionsFacts
      <4>2. Len(R) = N
        BY DEF N
      <4> HIDE DEF R
      <4> QED
        BY <3>1, <4>1, <4>2
    <3>3. EndOf(R[N]) = h.break
      BY <1>1, <1>2 DEF Line, N
    <3> QED
      BY <1>1, <3>2, <3>3, RegionFacts
  <2>4. Line(S, R[N].va)
    <3>1. \A k \in 1..(N - 1) : EndOf(R[k]) = R[k + 1].va
      BY <1>1 DEF Line, N
    <3>2. R[1].va = HeapStart
      BY <1>1, <1>2 DEF Line, N
    <3>3. CASE N = 1
      BY <2>2, <3>2, <3>3 DEF Line
    <3>4. CASE N # 1
      <4>1. /\ N - 1 \in 1..(N - 1) /\ 1 \in 1..(N - 1) /\ (N - 1) + 1 = N
            /\ \A k \in 1..((N - 1) - 1) : k \in 1..(N - 1) /\ k + 1 \in 1..(N - 1)
        BY <1>1, <1>2, <3>4
      <4> QED
        BY <2>2, <3>1, <3>2, <4>1 DEF Line
    <3> QED
      BY <3>3, <3>4
  <2>5. Loose(S, {}) /\ LastUsed(S)
    <3>1. \A k \in 1..(N - 1) : ~(R[k].isFree /\ R[k + 1].isFree)
      BY DEF Loose, N
    <3>2. \A k \in 1..((N - 1) - 1) : k \in 1..(N - 1) /\ k + 1 \in 1..(N - 1)
      BY <1>1
    <3>3. CASE N = 1
      BY <2>2, <3>3 DEF Loose, LastUsed
    <3>4. CASE N # 1
      <4>1. N - 1 \in 1..(N - 1) /\ (N - 1) + 1 = N
        BY <1>1, <1>2, <3>4
      <4>2. ~R[N - 1].isFree
        BY <1>2, <3>1, <4>1
      <4> QED
        BY <2>2, <3>1, <3>2, <4>1, <4>2 DEF Loose, LastUsed
    <3> QED
      BY <3>3, <3>4
  <2>6. UsedIn(S) = UsedIn(R)
    <3>1. \A r : r \in UsedIn(R) <=> \E k \in 1..N : r = R[k] /\ ~R[k].isFree
      BY <1>1, RegionsFacts DEF N
    <3>2. \A r : r \in UsedIn(S) <=> \E k \in 1..(N - 1) : r = S[k] /\ ~S[k].isFree
      BY <2>2, RegionsFacts
    <3>3. \A k \in 1..N : k \in 1..(N - 1) \/ k = N
      BY <1>1
    <3>4. \A k \in 1..(N - 1) : k \in 1..N
      BY <1>1
    <3>5. ~(~R[N].isFree)
      BY <1>2
    <3> HIDE DEF R
    <3>6. \A k \in 1..(N - 1) : S[k] = R[k]
      BY <2>2
    <3>7. ASSUME NEW r \in UsedIn(R)
          PROVE  r \in UsedIn(S)
      <4>1. PICK k \in 1..N : r = R[k] /\ ~R[k].isFree
        BY <3>1
      <4>2. k # N
        BY <3>5, <4>1
      <4> QED
        BY <3>2, <3>3, <3>6, <4>1, <4>2
    <3>8. ASSUME NEW r \in UsedIn(S)
          PROVE  r \in UsedIn(R)
      <4>1. PICK k \in 1..(N - 1) : r = S[k] /\ ~S[k].isFree
        BY <3>2
      <4> QED
        BY <3>1, <3>4, <3>6, <4>1
    <3> QED
      BY <3>7, <3>8
  <2>7. h.blocks + 1 \in 0..Blocks /\ (h.blocks + 1) + (N - 1) = Blocks
    BY <1>1, <1>2
  <2>8. g \in HeapState /\ g.regions = S /\ g.break = R[N].va /\ g.blocks = h.blocks + 1
    BY <2>2, <2>3, <2>7 DEF HeapState
  <2> HIDE DEF g
  <2>9. Tiled(g)
    BY <2>2, <2>4, <2>5, <2>7, <2>8, TiledIs
  <2> QED
    BY <2>1, <2>3, <2>6, <2>8, <2>9
<1>3. CASE ~(N > 0 /\ R[N].isFree)
  <2>1. LowerBreak(h) = h
    BY <1>3 DEF LowerBreak
  <2>2. LastUsed(R)
    BY <1>3 DEF LastUsed
  <2>3. Tiled(h)
    BY <2>2, TiledIs DEF Lined
  <2>4. h.break <= h.break
    BY <1>1
  <2> QED
    BY <2>1, <2>3, <2>4 DEF Lined
<1> QED
  BY <1>2, <1>3

(* free of a region in use takes it away and nothing else.                 *)
LEMMA FreeIs ==
  ASSUME NEW h \in HeapState, Tiled(h), NEW u \in UsedIn(h.regions)
  PROVE  LET g == FreeRegion(h, u.va)
         IN  /\ g \in HeapState /\ Tiled(g) /\ g.break <= h.break
             /\ UsedIn(g.regions) = UsedIn(h.regions) \ {u}
<1> DEFINE R == h.regions
           i == Min(UsedAt(h, u.va))
<1>1. /\ R \in Seq(Region) /\ Len(R) \in Nat /\ DOMAIN R = 1..Len(R)
      /\ Line(R, h.break) /\ Loose(R, {}) /\ LastUsed(R)
      /\ h.blocks + Len(R) = Blocks
      /\ h.break \in Nat /\ HeapMax \in Nat /\ HeapStart \in Nat
      /\ h = [regions |-> R, break |-> h.break, blocks |-> h.blocks]
  BY RegionsFacts, TiledIs, UserHeapConstants DEF HeapState
<1>2. i \in 1..Len(R) /\ R[i] = u /\ ~R[i].isFree
  <2>1. PICK k \in 1..Len(R) : u = R[k] /\ ~R[k].isFree
    BY RegionsFacts, <1>1
  <2>2. k \in UsedAt(h, u.va)
    BY <1>1, <2>1 DEF UsedAt
  <2>3. UsedAt(h, u.va) \subseteq Nat
    BY <1>1 DEF UsedAt
  <2>4. i \in UsedAt(h, u.va)
    <3> DEFINE U == UsedAt(h, u.va)
    <3>1. U # {} /\ U \subseteq Nat
      BY <2>2, <2>3
    <3> HIDE DEF U
    <3>2. Min(U) \in U
      BY <3>1, LeastNumber DEF Min
    <3> QED
      BY <3>2 DEF U
  <2>5. i \in 1..Len(R) /\ R[i].va = u.va /\ ~R[i].isFree
    BY <1>1, <2>4 DEF UsedAt
  <2>6. R[i].va = R[k].va
    BY <2>1, <2>5
  <2>7. i = k
    <3> HIDE DEF i
    <3> QED
      BY <1>1, <2>1, <2>5, <2>6, LineBounds
  <2> QED
    BY <2>1, <2>5, <2>7
<1> DEFINE S == [R EXCEPT ![i].isFree = TRUE]
           f == [h EXCEPT !.regions[i].isFree = TRUE]
           next == Merge(f, i)
           last == Merge(next, i - 1)
<1>3. FreeRegion(h, u.va) = LowerBreak(last)
  BY DEF FreeRegion
<1> HIDE DEF i
<1>4. /\ S \in Seq(Region) /\ Len(S) = Len(R) /\ S[i].isFree
      /\ \A k \in 1..Len(R) : k # i => S[k] = R[k]
      /\ \A k \in 1..Len(R) : S[k].va = R[k].va /\ S[k].size = R[k].size
  <2>1. /\ S \in Seq(Region) /\ Len(S) = Len(R)
        /\ S[i] = [va |-> R[i].va, size |-> R[i].size, isFree |-> TRUE]
        /\ \A k \in 1..Len(R) : k # i => S[k] = R[k]
        /\ \A k \in 1..Len(R) : S[k].va = R[k].va /\ S[k].size = R[k].size
    BY <1>1, <1>2, Mark
  <2>2. S[i].isFree
    <3> HIDE DEF S
    <3> QED
      BY <2>1
  <2> QED
    BY <2>1, <2>2
<1>5. f = [regions |-> S, break |-> h.break, blocks |-> h.blocks]
  <2>1. f = [h EXCEPT !.regions = S]
    OBVIOUS
  <2> QED
    BY <2>1, HeapWith
<1> HIDE DEF S
<1>6. Lined(f) /\ f.regions = S /\ f.break = h.break
  <2>1. Line(S, h.break)
    BY <1>1, <1>4, SameLine
  <2>2. f \in HeapState /\ f.regions = S /\ f.break = h.break /\ f.blocks = h.blocks
    BY <1>4, <1>5 DEF HeapState
  <2> HIDE DEF f
  <2> QED
    BY <1>1, <1>4, <2>1, <2>2 DEF Lined
<1> HIDE DEF f
<1>7. Loose(S, {i - 1, i})
  <2>1. SUFFICES ASSUME NEW k \in 1..(Len(S) - 1), k \notin {i - 1, i}
                 PROVE  ~(S[k].isFree /\ S[k + 1].isFree)
    BY DEF Loose
  <2>2. k \in 1..(Len(R) - 1) /\ k \in 1..Len(R) /\ k + 1 \in 1..Len(R)
        /\ k # i /\ k + 1 # i
    BY <1>1, <1>2, <1>4, <2>1
  <2>3. S[k] = R[k] /\ S[k + 1] = R[k + 1]
    BY <1>4, <2>2
  <2> QED
    BY <1>1, <2>2, <2>3 DEF Loose
<1>8. UsedIn(S) = UsedIn(R) \ {u}
  <2>1. \A r : r \in UsedIn(R) <=> \E k \in 1..Len(R) : r = R[k] /\ ~R[k].isFree
    BY <1>1, RegionsFacts
  <2>2. \A r : r \in UsedIn(S) <=> \E k \in 1..Len(R) : r = S[k] /\ ~S[k].isFree
    BY <1>4, RegionsFacts
  <2>3. \A k \in 1..Len(R) : k # i => R[k] # u
    BY <1>1, <1>2, LineBounds
  <2> QED
    BY <1>2, <1>4, <2>1, <2>2, <2>3
<1>9. /\ Lined(next) /\ next.break = h.break
      /\ Loose(next.regions, {i - 1}) /\ UsedIn(next.regions) = UsedIn(R) \ {u}
  <2>1. i \in Nat /\ {i - 1, i} \ {i} = {i - 1}
    BY <1>1, <1>2
  <2>2. /\ Lined(next) /\ next.break = f.break
        /\ Loose(next.regions, {i - 1, i} \ {i})
        /\ UsedIn(next.regions) = UsedIn(f.regions)
    BY <1>6, <1>7, <2>1, MergeIs
  <2> QED
    BY <1>6, <1>8, <2>1, <2>2
<1> HIDE DEF next
<1>10. /\ Lined(last) /\ last.break = h.break
       /\ Loose(last.regions, {}) /\ UsedIn(last.regions) = UsedIn(R) \ {u}
  <2> DEFINE j == i - 1
  <2>1. j \in Nat /\ {i - 1} \subseteq {j - 1, j} /\ {i - 1} \ {j} = {}
    BY <1>1, <1>2
  <2>2. last = Merge(next, j)
    OBVIOUS
  <2> HIDE DEF j, last
  <2>3. /\ Lined(last) /\ last.break = next.break
        /\ Loose(last.regions, {i - 1} \ {j})
        /\ UsedIn(last.regions) = UsedIn(next.regions)
    BY <1>9, <2>1, <2>2, MergeIs
  <2> QED
    BY <1>9, <2>1, <2>3
<1> HIDE DEF last
<1> QED
  BY <1>3, <1>10, LowerIs

(* No region, no descriptor used.                                          *)
LEMMA EmptyHeapIs ==
  /\ EmptyHeap \in HeapState /\ Tiled(EmptyHeap)
  /\ UsedIn(EmptyHeap.regions) = {} /\ EmptyHeap.break < HeapMax
<1>1. EmptyHeap \in HeapState
  BY UserHeapConstants DEF EmptyHeap, HeapState
<1>2. EmptyHeap.regions = <<>> /\ Len(<<>>) = 0 /\ DOMAIN <<>> = {}
  BY DEF EmptyHeap
<1>3. Tiled(EmptyHeap)
  BY <1>2, UserHeapConstants DEF Tiled, EmptyHeap
<1>4. UsedIn(EmptyHeap.regions) = {}
  BY <1>2 DEF UsedIn, Range
<1> QED
  BY <1>1, <1>3, <1>4, UserHeapConstants DEF EmptyHeap

-----------------------------------------------------------------------------
(* Frames and page tables: a state s of the records PhysMem works on.      *)

PhysState == [free : Seq(FrameNums), refs : [FrameNums -> Nat],
              pte : [Procs -> [Pages -> Entry]]]

MapsOf(s, f) == {x \in Procs \X Pages : s.pte[x[1]][x[2]].frame = f}

(* What FramesCounted says of phys, where the frames of low may have lost  *)
(* mappings.                                                               *)
Counted(s, low) ==
  /\ s \in PhysState /\ NoDup(s.free)
  /\ \A f \in FrameNums : f \in Range(s.free) <=> s.refs[f] = 0
  /\ \A f \in Reserved(KernelEnd) :
       s.refs[f] = 1 /\ (f # NoFrame => MapsOf(s, f) = {})
  /\ \A f \in FrameNums \ Reserved(KernelEnd) :
       s.refs[f] >= Cardinality(MapsOf(s, f))
  /\ \A f \in FrameNums \ (Reserved(KernelEnd) \cup low) :
       s.refs[f] = Cardinality(MapsOf(s, f))

(* Only pages a .. a+n-1 of p have other entries in t than in s.           *)
Elsewhere(s, t, p, a, n) ==
  \A q \in Procs, b \in Pages :
    ~(q = p /\ b \in Span(a, n)) => t.pte[q][b] = s.pte[q][b]

(* The constants of the memory.                                            *)
LEMMA PhysConstants ==
  /\ NFrames \in Nat /\ IoStart \in Nat /\ Extended \in Nat /\ KernelEnd \in Nat
  /\ 3 <= IoStart /\ IoStart <= Extended /\ Extended <= KernelEnd
  /\ KernelEnd <= NFrames
  /\ HeapStart \in Nat \ {0} /\ HeapMax \in Nat /\ HeapStart < HeapMax
  /\ 0 \in FrameNums /\ 0 \in Pages /\ FrameNums \subseteq Nat /\ Pages \subseteq Nat
  /\ Reserved(KernelEnd) \subseteq FrameNums /\ NoFrame \in Reserved(KernelEnd)
  /\ NoFrame = 0
<1>1. /\ NFrames \in Nat /\ IoStart \in Nat /\ Extended \in Nat /\ KernelEnd \in Nat
      /\ 3 <= IoStart /\ IoStart <= Extended /\ Extended <= KernelEnd
      /\ KernelEnd <= NFrames
      /\ HeapStart \in Nat \ {0} /\ HeapMax \in Nat /\ HeapStart < HeapMax
  <2>1. {NFrames, IoStart, Extended} \subseteq Nat /\ 3 <= IoStart
        /\ IoStart <= Extended /\ Extended <= NFrames
    BY PhysMemConstants
  <2>2. KernelEnd \in Extended..NFrames
    BY SharedMemConstants
  <2>3. HeapStart \in Nat \ {0} /\ HeapMax \in Nat /\ HeapStart < HeapMax
    BY UserHeapConstants
  <2> QED
    BY <2>1, <2>2, <2>3
<1>2. 0 \in FrameNums /\ 0 \in Pages /\ FrameNums \subseteq Nat /\ Pages \subseteq Nat
  BY <1>1 DEF FrameNums, Pages
<1>3. Reserved(KernelEnd) \subseteq FrameNums /\ NoFrame \in Reserved(KernelEnd)
  BY <1>1 DEF Reserved, FrameNums, NoFrame
<1> QED
  BY <1>1, <1>2, <1>3 DEF NoFrame

(* The types of the fields.                                                *)
LEMMA PhysFacts ==
  ASSUME NEW s \in PhysState
  PROVE  /\ s.free \in Seq(FrameNums) /\ s.refs \in [FrameNums -> Nat]
         /\ s.pte \in [Procs -> [Pages -> Entry]]
         /\ \A q \in Procs : s.pte[q] \in [Pages -> Entry]
         /\ \A q \in Procs, b \in Pages :
              /\ s.pte[q][b] \in Entry /\ s.pte[q][b].frame \in FrameNums
              /\ s.pte[q][b].writable \in BOOLEAN /\ s.pte[q][b].heap \in BOOLEAN
         /\ s = [free |-> s.free, refs |-> s.refs, pte |-> s.pte]
<1>1. /\ s.free \in Seq(FrameNums) /\ s.refs \in [FrameNums -> Nat]
      /\ s.pte \in [Procs -> [Pages -> Entry]]
      /\ s = [free |-> s.free, refs |-> s.refs, pte |-> s.pte]
  BY DEF PhysState
<1>2. \A e \in Entry : /\ e.frame \in FrameNums /\ e.writable \in BOOLEAN
                       /\ e.heap \in BOOLEAN
  BY DEF Entry
<1> QED
  BY <1>1, <1>2

(* Finitely many entries map a frame.                                      *)
LEMMA MapsFinite ==
  ASSUME NEW s, NEW f
  PROVE  IsFiniteSet(MapsOf(s, f)) /\ Cardinality(MapsOf(s, f)) \in Nat
<1>1. IsFiniteSet(Pages)
  <2>1. HeapMax - 1 \in Int
    BY PhysConstants
  <2> QED
    BY <2>1, FS_Interval DEF Pages
<1>2. IsFiniteSet(Procs \X Pages)
  BY <1>1, SharedMemConstants, FS_Product
<1>3. MapsOf(s, f) \subseteq Procs \X Pages
  BY DEF MapsOf
<1> QED
  BY <1>2, <1>3, FS_Subset, FS_CardinalityType

(* A frame that a page table maps is not free, and not the kernel's.       *)
LEMMA MappedFrame ==
  ASSUME NEW low, NEW s, Counted(s, low), NEW q \in Procs, NEW b \in Pages,
         s.pte[q][b].frame # NoFrame
  PROVE  LET f == s.pte[q][b].frame
         IN  /\ f \in FrameNums \ Reserved(KernelEnd)
             /\ s.refs[f] \in Nat \ {0} /\ <<q, b>> \in MapsOf(s, f)
<1> DEFINE f == s.pte[q][b].frame
<1>1. f \in FrameNums /\ s.refs \in [FrameNums -> Nat]
  BY PhysFacts DEF Counted
<1>2. <<q, b>> \in MapsOf(s, f)
  BY DEF MapsOf
<1>3. f \notin Reserved(KernelEnd)
  BY <1>2 DEF Counted
<1>4. Cardinality(MapsOf(s, f)) # 0 /\ Cardinality(MapsOf(s, f)) \in Nat
  BY <1>2, MapsFinite, FS_EmptySet
<1>5. s.refs[f] >= Cardinality(MapsOf(s, f)) /\ s.refs[f] \in Nat
  BY <1>1, <1>3 DEF Counted
<1> QED
  BY <1>1, <1>2, <1>3, <1>4, <1>5

(* One entry is written.                                                   *)
Writes(s, t, p, a, e) == t.pte = [s.pte EXCEPT ![p][a] = e]

(* The mappings of two frames, of which page a of p mapped the old and     *)
(* maps the new.                                                           *)
Moves(s, t, p, a, old, new) ==
  /\ \A f \in FrameNums : f # old /\ f # new => MapsOf(t, f) = MapsOf(s, f)
  /\ old = new => MapsOf(t, old) = MapsOf(s, old)
  /\ old # new =>
       /\ MapsOf(t, old) = MapsOf(s, old) \ {<<p, a>>}
       /\ Cardinality(MapsOf(t, old)) = Cardinality(MapsOf(s, old)) - 1
       /\ MapsOf(t, new) = MapsOf(s, new) \cup {<<p, a>>}
       /\ Cardinality(MapsOf(t, new)) = Cardinality(MapsOf(s, new)) + 1

(* How a written entry moves between the sets of mappings of two frames.   *)
LEMMA EntryChange ==
  ASSUME NEW s \in PhysState, NEW t, NEW p \in Procs, NEW a \in Pages, NEW e \in Entry,
         Writes(s, t, p, a, e)
  PROVE  /\ t.pte \in [Procs -> [Pages -> Entry]]
         /\ t.pte[p][a] = e /\ Elsewhere(s, t, p, a, 1)
         /\ Moves(s, t, p, a, s.pte[p][a].frame, e.frame)
<1> USE DEF Writes
<1> DEFINE old == s.pte[p][a].frame
           new == e.frame
<1>1. s.pte \in [Procs -> [Pages -> Entry]]
  BY PhysFacts
<1>2. /\ t.pte \in [Procs -> [Pages -> Entry]]
      /\ \A q \in Procs, b \in Pages :
           t.pte[q][b] = IF q = p /\ b = a THEN e ELSE s.pte[q][b]
  BY <1>1
<1>3. a \in Nat /\ \A b \in Pages : b \in Span(a, 1) <=> b = a
  BY PhysConstants DEF Span
<1>4. t.pte[p][a] = e /\ Elsewhere(s, t, p, a, 1)
  BY <1>2, <1>3 DEF Elsewhere
<1>5. \A x \in Procs \X Pages :
        /\ x # <<p, a>> => t.pte[x[1]][x[2]] = s.pte[x[1]][x[2]]
        /\ x = <<p, a>> => t.pte[x[1]][x[2]] = e /\ s.pte[x[1]][x[2]] = s.pte[p][a]
  BY <1>2
<1>6. <<p, a>> \in Procs \X Pages
  OBVIOUS
<1>7. ASSUME NEW f \in FrameNums
      PROVE  /\ s.pte[p][a].frame # f /\ e.frame # f => MapsOf(t, f) = MapsOf(s, f)
             /\ s.pte[p][a].frame = f /\ e.frame = f => MapsOf(t, f) = MapsOf(s, f)
             /\ s.pte[p][a].frame = f /\ e.frame # f =>
                  MapsOf(t, f) = MapsOf(s, f) \ {<<p, a>>} /\ <<p, a>> \in MapsOf(s, f)
             /\ s.pte[p][a].frame # f /\ e.frame = f =>
                  MapsOf(t, f) = MapsOf(s, f) \cup {<<p, a>>} /\ <<p, a>> \notin MapsOf(s, f)
  <2> DEFINE was(x) == s.pte[x[1]][x[2]]
             is(x) == t.pte[x[1]][x[2]]
  <2>1. MapsOf(s, f) = {x \in Procs \X Pages : was(x).frame = f}
    BY DEF MapsOf
  <2>2. MapsOf(t, f) = {x \in Procs \X Pages : is(x).frame = f}
    BY DEF MapsOf
  <2>3. \A x \in Procs \X Pages : /\ x # <<p, a>> => is(x) = was(x)
                                  /\ x = <<p, a>> => is(x) = e /\ was(x) = s.pte[p][a]
    BY <1>5
  <2> HIDE DEF was, is
  <2> QED
    BY <1>6, <2>1, <2>2, <2>3
<1>8. \A f : IsFiniteSet(MapsOf(s, f))
  BY MapsFinite
<1>9. ASSUME NEW f \in FrameNums, s.pte[p][a].frame = f, e.frame # f
      PROVE  Cardinality(MapsOf(t, f)) = Cardinality(MapsOf(s, f)) - 1
  BY <1>7, <1>8, <1>9, FS_RemoveElement
<1>10. ASSUME NEW f \in FrameNums, s.pte[p][a].frame # f, e.frame = f
       PROVE  Cardinality(MapsOf(t, f)) = Cardinality(MapsOf(s, f)) + 1
  BY <1>7, <1>8, <1>10, FS_AddElement
<1>11. old \in FrameNums /\ new \in FrameNums
  BY PhysFacts DEF Entry
<1>12. Moves(s, t, p, a, old, new)
  <2>1. /\ old # new => /\ MapsOf(t, old) = MapsOf(s, old) \ {<<p, a>>}
                        /\ Cardinality(MapsOf(t, old)) = Cardinality(MapsOf(s, old)) - 1
        /\ old # new => /\ MapsOf(t, new) = MapsOf(s, new) \cup {<<p, a>>}
                        /\ Cardinality(MapsOf(t, new)) = Cardinality(MapsOf(s, new)) + 1
    BY <1>7, <1>9, <1>10, <1>11
  <2>2. \A f \in FrameNums : f # old /\ f # new => MapsOf(t, f) = MapsOf(s, f)
    BY <1>7
  <2>3. old = new => MapsOf(t, old) = MapsOf(s, old)
    BY <1>7, <1>11
  <2> QED
    BY <2>1, <2>2, <2>3 DEF Moves
<1> QED
  BY <1>2, <1>4, <1>12

(* What is written into the record of the memory.                          *)
Mem(free, refs, pte) == [free |-> free, refs |-> refs, pte |-> pte]

(* The fields of such a record.                                            *)
LEMMA MemFields ==
  ASSUME NEW free, NEW refs, NEW pte
  PROVE  /\ Mem(free, refs, pte).free = free
         /\ Mem(free, refs, pte).refs = refs
         /\ Mem(free, refs, pte).pte = pte
BY DEF Mem

(* What is written into two of its fields at once.                         *)
LEMMA MemWithTwo ==
  ASSUME NEW s, s = Mem(s.free, s.refs, s.pte), NEW x, NEW y
  PROVE  /\ [s EXCEPT !.free = x, !.refs = y] = Mem(x, y, s.pte)
         /\ [s EXCEPT !.refs = x, !.pte = y] = Mem(s.free, x, y)
<1>1. [s EXCEPT !.free = x, !.refs = y] = Mem(x, y, s.pte)
  <2> DEFINE t == [s EXCEPT !.free = x]
  <2>1. t = Mem(x, s.refs, s.pte)
    BY DEF Mem
  <2>2. [s EXCEPT !.free = x, !.refs = y] = [t EXCEPT !.refs = y]
    OBVIOUS
  <2> HIDE DEF t
  <2>3. [t EXCEPT !.refs = y] = Mem(x, y, s.pte)
    BY <2>1 DEF Mem
  <2> QED
    BY <2>2, <2>3
<1>2. [s EXCEPT !.refs = x, !.pte = y] = Mem(s.free, x, y)
  <2> DEFINE t == [s EXCEPT !.refs = x]
  <2>1. t = Mem(s.free, x, s.pte)
    BY DEF Mem
  <2>2. [s EXCEPT !.refs = x, !.pte = y] = [t EXCEPT !.pte = y]
    OBVIOUS
  <2> HIDE DEF t
  <2>3. [t EXCEPT !.pte = y] = Mem(s.free, x, y)
    BY <2>1 DEF Mem
  <2> QED
    BY <2>2, <2>3
<1> QED
  BY <1>1, <1>2

(* An entry in the tables of a process gets a frame.                       *)
NewEntry(old, f, w) == [frame |-> f, writable |-> w, heap |-> old.heap]

(* It is an entry, with that frame and that right.                         *)
LEMMA EntryWith ==
  ASSUME NEW old \in Entry, NEW f \in FrameNums, NEW w \in BOOLEAN
  PROVE  /\ NewEntry(old, f, w) \in Entry
         /\ NewEntry(old, f, w).frame = f /\ NewEntry(old, f, w).writable = w
<1>1. old.heap \in BOOLEAN
  BY DEF Entry
<1> QED
  BY <1>1 DEF Entry, NewEntry

(* A frame at the head of the list.                                        *)
LEMMA PushIs ==
  ASSUME NEW T, NEW q \in Seq(T), NoDup(q), NEW e \in T, e \notin Range(q)
  PROVE  LET r == <<e>> \o q
         IN  r \in Seq(T) /\ NoDup(r) /\ Range(r) = {e} \cup Range(q)
<1> DEFINE r == <<e>> \o q
           N == Len(q)
<1>1. <<e>> \in Seq(T) /\ Len(<<e>>) = 1 /\ <<e>>[1] = e
  OBVIOUS
<1>2. N \in Nat /\ DOMAIN q = 1..N
  BY LenProperties
<1>3. /\ r \in Seq(T) /\ Len(r) = 1 + N
      /\ \A k \in 1..(1 + N) : r[k] = IF k <= 1 THEN <<e>>[k] ELSE q[k - 1]
  <2> DEFINE d == <<e>>
  <2>1. d \in Seq(T) /\ Len(d) = 1
    BY <1>1
  <2> HIDE DEF d
  <2>2. /\ d \o q \in Seq(T) /\ Len(d \o q) = Len(d) + Len(q)
        /\ \A k \in 1..(Len(d) + Len(q)) :
             (d \o q)[k] = IF k <= Len(d) THEN d[k] ELSE q[k - Len(d)]
    BY <2>1, ConcatProperties
  <2> QED
    BY <2>1, <2>2 DEF d
<1> HIDE DEF r, N
<1>4. r[1] = e /\ \A k \in 1..N : r[k + 1] = q[k] /\ k + 1 \in 1..(1 + N)
  <2>1. r[1] = e
    BY <1>1, <1>2, <1>3
  <2>2. ASSUME NEW k \in 1..N
        PROVE  r[k + 1] = q[k] /\ k + 1 \in 1..(1 + N)
    <3> DEFINE l == k + 1
    <3>1. l \in 1..(1 + N) /\ ~(l <= 1) /\ l - 1 = k
      BY <1>2
    <3> HIDE DEF l
    <3>2. r[l] = q[k]
      BY <1>3, <3>1
    <3> QED
      BY <3>1, <3>2 DEF l
  <2> QED
    BY <2>1, <2>2
<1>5. DOMAIN r = 1..(1 + N)
  BY <1>3, LenProperties
<1>6. \A k \in 1..(1 + N) : k = 1 \/ (k - 1 \in 1..N /\ (k - 1) + 1 = k)
  BY <1>2
<1>7. \A k \in 1..(1 + N) : k = 1 \/ (k - 1 \in 1..N /\ r[k] = q[k - 1])
  BY <1>4, <1>6
<1>8. Range(r) = {e} \cup Range(q)
  <2>1. 1 \in 1..(1 + N)
    BY <1>2
  <2>2. ASSUME NEW x \in Range(r)
        PROVE  x \in {e} \cup Range(q)
    <3>1. PICK k \in 1..(1 + N) : x = r[k]
      BY <1>5 DEF Range
    <3>2. CASE k = 1
      BY <1>4, <3>1, <3>2
    <3>3. CASE k - 1 \in 1..N /\ r[k] = q[k - 1]
      BY <1>2, <3>1, <3>3 DEF Range
    <3> QED
      BY <1>7, <3>2, <3>3
  <2>3. ASSUME NEW x \in Range(q)
        PROVE  x \in Range(r)
    <3>1. PICK k \in 1..N : x = q[k]
      BY <1>2 DEF Range
    <3> QED
      BY <1>4, <1>5, <3>1 DEF Range
  <2>4. e \in Range(r)
    BY <1>4, <1>5, <2>1 DEF Range
  <2> QED
    BY <2>2, <2>3, <2>4
<1>9. NoDup(r)
  <2>1. SUFFICES ASSUME NEW i \in 1..(1 + N), NEW j \in 1..(1 + N), r[i] = r[j]
                 PROVE  i = j
    BY <1>3 DEF NoDup
  <2>2. \A k \in 1..N : q[k] # e
    BY <1>2 DEF Range
  <2>3. \A k, l \in 1..N : q[k] = q[l] => k = l
    BY DEF NoDup, N
  <2>4. CASE i = 1 \/ j = 1
    BY <1>4, <1>7, <2>1, <2>2, <2>4
  <2>5. CASE i # 1 /\ j # 1
    <3>1. i - 1 \in 1..N /\ j - 1 \in 1..N /\ q[i - 1] = q[j - 1]
      BY <1>7, <2>1, <2>5
    <3>2. i - 1 = j - 1
      BY <2>3, <3>1
    <3> QED
      BY <1>2, <3>2
  <2> QED
    BY <2>4, <2>5
<1> QED
  BY <1>3, <1>8, <1>9 DEF r

(* A page that is freed loses its frame, the frame one reference.          *)
LEMMA FreePageIs ==
  ASSUME NEW low, NEW s, Counted(s, low), NEW p \in Procs, NEW a \in Pages
  PROVE  LET t == FreeUserPage(s, p, a)
         IN  /\ Counted(t, low) /\ t.pte[p][a] = Empty /\ Elsewhere(s, t, p, a, 1)
             /\ \A f \in FrameNums : f # s.pte[p][a].frame => t.refs[f] = s.refs[f]
<1> DEFINE f == s.pte[p][a].frame
           pte == [s.pte EXCEPT ![p][a] = Empty]
           t == FreeUserPage(s, p, a)
<1>1. /\ s \in PhysState /\ s.pte \in [Procs -> [Pages -> Entry]]
      /\ s.free \in Seq(FrameNums) /\ s.refs \in [FrameNums -> Nat]
      /\ s = Mem(s.free, s.refs, s.pte) /\ f \in FrameNums
      /\ pte \in [Procs -> [Pages -> Entry]] /\ Empty \in Entry
  <2>1. Empty \in Entry
    BY PhysConstants DEF Empty, Entry
  <2>2. s \in PhysState
    BY DEF Counted
  <2> QED
    BY <2>1, <2>2, PhysFacts DEF Mem
<1>2. CASE f = NoFrame
  <2>1. t = [s EXCEPT !.pte = pte]
    BY <1>2 DEF FreeUserPage, UnmapFrame, GetFrameInfo
  <2>2. t = Mem(s.free, s.refs, pte)
    <3> HIDE DEF pte, t
    <3>1. s = Mem(s.free, s.refs, s.pte)
      BY <1>1
    <3> QED
      BY <2>1, <3>1 DEF Mem
  <2> HIDE DEF t, pte
  <2>3. /\ t.free = s.free /\ t.refs = s.refs /\ t.pte = pte /\ t \in PhysState
    BY <1>1, <2>2, MemFields DEF Mem, PhysState
  <2>4. /\ t.pte[p][a] = Empty /\ Elsewhere(s, t, p, a, 1)
        /\ \A g \in FrameNums : MapsOf(t, g) = MapsOf(s, g)
    <3>1. Empty.frame = NoFrame /\ Writes(s, t, p, a, Empty)
      BY <2>3 DEF Empty, pte, Writes
    <3>2. /\ t.pte[p][a] = Empty /\ Elsewhere(s, t, p, a, 1)
          /\ Moves(s, t, p, a, f, NoFrame)
      BY <1>1, <3>1, EntryChange
    <3> QED
      BY <1>1, <1>2, <3>2 DEF Moves
  <2>5. Counted(t, low)
    BY <2>3, <2>4, PhysConstants DEF Counted
  <2> QED
    BY <2>3, <2>4, <2>5 DEF t
<1>3. CASE f # NoFrame
  <2> HIDE DEF t
  <2>1. f \in FrameNums \ Reserved(KernelEnd) /\ s.refs[f] \in Nat \ {0}
    BY <1>3, MappedFrame
  <2> DEFINE d == DecrementReferences(s, f)
             free == IF s.refs[f] = 1 THEN <<f>> \o s.free ELSE s.free
             refs == [s.refs EXCEPT ![f] = s.refs[f] - 1]
  <2>2. d = Mem(free, refs, s.pte)
    <3>1. CASE s.refs[f] = 1
      <4>1. d = [s EXCEPT !.free = free, !.refs = [s.refs EXCEPT ![f] = 0]]
        BY <3>1 DEF DecrementReferences, FreeFrame
      <4>2. s.refs[f] - 1 = 0
        BY <3>1
      <4>3. d = Mem(free, [s.refs EXCEPT ![f] = 0], s.pte)
        <5> DEFINE zero == [s.refs EXCEPT ![f] = 0]
        <5>1. d = [s EXCEPT !.free = free, !.refs = zero]
          BY <4>1
        <5> HIDE DEF free, d, zero
        <5>2. s = Mem(s.free, s.refs, s.pte)
          BY <1>1
        <5>3. d = Mem(free, zero, s.pte)
          BY <5>1, <5>2, MemWithTwo
        <5> QED
          BY <5>3 DEF zero
      <4> QED
        BY <4>2, <4>3
    <3>2. CASE s.refs[f] # 1
      <4>1. d = [s EXCEPT !.refs = refs] /\ free = s.free
        BY <3>2 DEF DecrementReferences
      <4> HIDE DEF free, d, refs
      <4>2. s = Mem(s.free, s.refs, s.pte)
        BY <1>1
      <4> QED
        BY <4>1, <4>2 DEF Mem
    <3> QED
      BY <3>1, <3>2
  <2> HIDE DEF d, free, refs
  <2> DEFINE mid == [s.pte EXCEPT ![p][a] = [Empty EXCEPT !.heap = s.pte[p][a].heap]]
             u == UnmapFrame(s, p, a)
  <2>3. u = Mem(free, refs, mid)
    <3>1. u = [d EXCEPT !.pte = [d.pte EXCEPT ![p][a] = [Empty EXCEPT !.heap = s.pte[p][a].heap]]]
      BY <1>3 DEF UnmapFrame, GetFrameInfo, d
    <3>2. d.pte = s.pte
      BY <2>2, MemFields
    <3>3. u = [d EXCEPT !.pte = mid]
      BY <3>1, <3>2
    <3> HIDE DEF u, mid
    <3> QED
      BY <2>2, <3>3 DEF Mem
  <2>4. t = Mem(free, refs, pte)
    <3>1. t = [u EXCEPT !.pte = [u.pte EXCEPT ![p][a] = Empty]]
      BY DEF FreeUserPage, t
    <3> HIDE DEF u
    <3>2. u.pte = mid
      BY <2>3, MemFields
    <3>3. [mid EXCEPT ![p][a] = Empty] = pte
      BY <1>1
    <3>4. t = [u EXCEPT !.pte = pte]
      BY <3>1, <3>2, <3>3
    <3> HIDE DEF t, mid, pte
    <3> QED
      BY <2>3, <3>4 DEF Mem
  <2> HIDE DEF t, pte, mid, u
  <2>5. /\ t.free = free /\ t.refs = refs /\ t.pte = pte
    BY <2>4, MemFields
  <2>6. /\ refs \in [FrameNums -> Nat] /\ refs[f] = s.refs[f] - 1
        /\ \A g \in FrameNums : g # f => refs[g] = s.refs[g]
    BY <1>1, <2>1 DEF refs
  <2>7. /\ free \in Seq(FrameNums) /\ NoDup(free)
        /\ \A g \in FrameNums : g \in Range(free) <=> refs[g] = 0
    <3>1. /\ NoDup(s.free) /\ \A g \in FrameNums : g \in Range(s.free) <=> s.refs[g] = 0
      BY DEF Counted
    <3>2. CASE s.refs[f] = 1
      <4>1. free = <<f>> \o s.free /\ refs[f] = 0 /\ f \notin Range(s.free)
        BY <2>6, <3>1, <3>2, <1>1 DEF free
      <4>2. free \in Seq(FrameNums) /\ NoDup(free) /\ Range(free) = {f} \cup Range(s.free)
        BY <1>1, <3>1, <4>1, PushIs
      <4> QED
        BY <2>6, <3>1, <4>1, <4>2
    <3>3. CASE s.refs[f] # 1
      <4>1. free = s.free /\ refs[f] # 0 /\ s.refs[f] # 0
        BY <2>1, <2>6, <3>3 DEF free
      <4> QED
        BY <1>1, <2>6, <3>1, <4>1
    <3> QED
      BY <3>2, <3>3
  <2>8. /\ t.pte[p][a] = Empty /\ Elsewhere(s, t, p, a, 1)
        /\ \A g \in FrameNums : g # f /\ g # NoFrame => MapsOf(t, g) = MapsOf(s, g)
        /\ Cardinality(MapsOf(t, f)) = Cardinality(MapsOf(s, f)) - 1
    <3>1. Empty.frame = NoFrame /\ Writes(s, t, p, a, Empty)
      BY <2>5 DEF Empty, pte, Writes
    <3>2. /\ t.pte[p][a] = Empty /\ Elsewhere(s, t, p, a, 1)
          /\ Moves(s, t, p, a, f, NoFrame)
      BY <1>1, <3>1, EntryChange
    <3> QED
      BY <1>1, <1>3, <3>2 DEF Moves
  <2>9. t \in PhysState
    BY <1>1, <2>4, <2>6, <2>7 DEF Mem, PhysState
  <2>10. Counted(t, low)
    <3>1. \A g \in Reserved(KernelEnd) :
            t.refs[g] = 1 /\ (g # NoFrame => MapsOf(t, g) = {})
      BY <2>1, <2>5, <2>6, <2>8, PhysConstants DEF Counted
    <3>2. /\ s.refs[f] >= Cardinality(MapsOf(s, f))
          /\ f \notin low => s.refs[f] = Cardinality(MapsOf(s, f))
          /\ s.refs[f] \in Nat /\ Cardinality(MapsOf(s, f)) \in Nat
      BY <2>1, MapsFinite DEF Counted
    <3>3. \A g \in FrameNums \ Reserved(KernelEnd) :
            /\ t.refs[g] >= Cardinality(MapsOf(t, g))
            /\ g \notin low => t.refs[g] = Cardinality(MapsOf(t, g))
      <4>1. TAKE g \in FrameNums \ Reserved(KernelEnd)
      <4>2. CASE g = f
        BY <2>5, <2>6, <2>8, <3>2, <4>2
      <4>3. CASE g # f
        <5>1. g # NoFrame
          BY PhysConstants
        <5>2. t.refs[g] = s.refs[g] /\ MapsOf(t, g) = MapsOf(s, g)
          BY <2>5, <2>6, <2>8, <4>3, <5>1
        <5> QED
          BY <5>2 DEF Counted
      <4> QED
        BY <4>2, <4>3
    <3> QED
      BY <2>5, <2>7, <2>9, <3>1, <3>3 DEF Counted
  <2> QED
    BY <2>5, <2>6, <2>8, <2>10 DEF t
<1> QED
  BY <1>2, <1>3

(* MapFrame at a page that maps nothing.                                   *)
LEMMA MapIs ==
  ASSUME NEW s \in PhysState, NEW p \in Procs, NEW a \in Pages,
         s.pte[p][a].frame = NoFrame,
         NEW f \in FrameNums, f # NoFrame, NEW w \in BOOLEAN
  PROVE  LET t == MapFrame(s, p, f, a, w)
         IN  /\ t \in PhysState /\ t.free = s.free
             /\ t.refs = [s.refs EXCEPT ![f] = s.refs[f] + 1]
             /\ t.pte[p][a] = NewEntry(s.pte[p][a], f, w) /\ Elsewhere(s, t, p, a, 1)
             /\ Moves(s, t, p, a, NoFrame, f)
<1> DEFINE t == MapFrame(s, p, f, a, w)
           old == s.pte[p][a]
           e == NewEntry(old, f, w)
           x == [old EXCEPT !.frame = f]
           y == [x EXCEPT !.writable = w]
           refs == [s.refs EXCEPT ![f] = s.refs[f] + 1]
           mid == [s.pte EXCEPT ![p][a] = x]
           pte == [s.pte EXCEPT ![p][a] = e]
           t1 == [s EXCEPT !.refs = refs]
           t2 == [t1 EXCEPT !.pte[p][a].frame = f]
           t3 == [t2 EXCEPT !.pte[p][a].writable = w]
<1>1. /\ s.pte \in [Procs -> [Pages -> Entry]] /\ old \in Entry
      /\ s.free \in Seq(FrameNums) /\ s.refs \in [FrameNums -> Nat]
      /\ s = Mem(s.free, s.refs, s.pte)
  BY PhysFacts DEF Mem
<1>2. e \in Entry /\ e.frame = f /\ y = e
  <2> HIDE DEF old
  <2>1. e \in Entry /\ e.frame = f
    BY <1>1, EntryWith
  <2>2. x \in Entry /\ x.frame = f /\ x.heap = old.heap
    BY <1>1 DEF Entry
  <2> HIDE DEF x
  <2>3. y \in Entry /\ y.frame = f /\ y.writable = w /\ y.heap = old.heap
    BY <2>2 DEF Entry
  <2> HIDE DEF y
  <2>4. y = [frame |-> y.frame, writable |-> y.writable, heap |-> y.heap]
    BY <2>3 DEF Entry
  <2>5. y = e
    BY <2>3, <2>4 DEF NewEntry
  <2> QED
    BY <2>1, <2>5
<1>3. t = t3
  BY DEF MapFrame, UnmapFrame, GetFrameInfo
<1>4. /\ refs \in [FrameNums -> Nat]
      /\ pte \in [Procs -> [Pages -> Entry]]
      /\ mid[p][a] = x /\ [mid EXCEPT ![p][a] = y] = [s.pte EXCEPT ![p][a] = y]
  <2>1. refs \in [FrameNums -> Nat]
    BY <1>1
  <2> HIDE DEF e, x, y, old
  <2>2. pte \in [Procs -> [Pages -> Entry]]
    BY <1>1, <1>2
  <2>3. mid[p][a] = x
    BY <1>1
  <2>4. [mid EXCEPT ![p][a] = y] = [s.pte EXCEPT ![p][a] = y]
    BY <1>1
  <2> QED
    BY <2>1, <2>2, <2>3, <2>4
<1>5. t1 = Mem(s.free, refs, s.pte)
  <2> HIDE DEF refs
  <2> QED
    BY <1>1 DEF Mem
<1>6. t2 = Mem(s.free, refs, mid)
  <2>1. t1.pte = s.pte
    <3> HIDE DEF t1, refs
    <3> QED
      BY <1>5, MemFields
  <2>2. t2 = [t1 EXCEPT !.pte = [t1.pte EXCEPT ![p][a] = [t1.pte[p][a] EXCEPT !.frame = f]]]
    OBVIOUS
  <2> HIDE DEF t1, refs
  <2>3. t2 = [t1 EXCEPT !.pte = mid]
    BY <2>1, <2>2
  <2> HIDE DEF mid, t2
  <2> QED
    BY <1>5, <2>3 DEF Mem
<1>7. t3 = Mem(s.free, refs, pte)
  <2>1. t2.pte = mid
    <3> HIDE DEF t2, refs, mid
    <3> QED
      BY <1>6, MemFields
  <2>2. t3 = [t2 EXCEPT !.pte = [t2.pte EXCEPT ![p][a] = [t2.pte[p][a] EXCEPT !.writable = w]]]
    OBVIOUS
  <2> HIDE DEF t2, refs, x
  <2>3. t3 = [t2 EXCEPT !.pte = [mid EXCEPT ![p][a] = y]]
    <3> HIDE DEF mid
    <3> QED
      BY <1>4, <2>1, <2>2
  <2>4. t3 = [t2 EXCEPT !.pte = pte]
    <3> HIDE DEF mid, t3, y, e
    <3> QED
      BY <1>2, <1>4, <2>3
  <2> HIDE DEF mid, t3, pte
  <2> QED
    BY <1>6, <2>4 DEF Mem
<1> HIDE DEF t, t1, t2, t3, refs, pte, mid, e, x, y
<1>8. t = Mem(s.free, refs, pte)
  BY <1>3, <1>7
<1>9. t.free = s.free /\ t.refs = refs /\ t.pte = pte
  BY <1>8, MemFields
<1>10. t \in PhysState
  BY <1>1, <1>4, <1>8 DEF Mem, PhysState
<1>11. Writes(s, t, p, a, e)
  BY <1>9 DEF Writes, pte
<1>12. /\ t.pte[p][a] = e /\ Elsewhere(s, t, p, a, 1)
       /\ Moves(s, t, p, a, NoFrame, f)
  BY <1>2, <1>11, EntryChange
<1> QED
  BY <1>9, <1>10, <1>12 DEF t, e, refs

(* The rest of a list without duplicates.                                  *)
LEMMA PopIs ==
  ASSUME NEW T, NEW q \in Seq(T), NoDup(q), q # <<>>
  PROVE  /\ Tail(q) \in Seq(T) /\ NoDup(Tail(q)) /\ Head(q) \in T
         /\ Head(q) \in Range(q) /\ Range(Tail(q)) = Range(q) \ {Head(q)}
<1>1. /\ Len(q) \in Nat /\ Len(q) > 0 /\ DOMAIN q = 1..Len(q)
      /\ Tail(q) \in Seq(T) /\ Len(Tail(q)) = Len(q) - 1
      /\ \A i \in 1..(Len(q) - 1) : Tail(q)[i] = q[i + 1]
      /\ Head(q) = q[1] /\ 1 \in 1..Len(q)
  BY EmptySeq, LenProperties, HeadTailProperties
<1>2. DOMAIN Tail(q) = 1..(Len(q) - 1)
  BY <1>1, LenProperties
<1>3. Head(q) \in T /\ Head(q) \in Range(q)
  BY <1>1, ElementOfSeq DEF Range
<1>4. \A i, j \in 1..Len(q) : q[i] = q[j] => i = j
  BY DEF NoDup
<1>5. ASSUME NEW i \in 1..(Len(q) - 1), NEW j \in 1..(Len(q) - 1),
             Tail(q)[i] = Tail(q)[j]
      PROVE  i = j
  <2>1. i + 1 \in 1..Len(q) /\ j + 1 \in 1..Len(q) /\ q[i + 1] = q[j + 1]
    BY <1>1, <1>5
  <2>2. i + 1 = j + 1
    BY <1>4, <2>1
  <2> QED
    BY <1>1, <2>2
<1>6. Range(Tail(q)) = Range(q) \ {Head(q)}
  <2>1. ASSUME NEW x \in Range(Tail(q))
        PROVE  x \in Range(q) /\ x # Head(q)
    <3>1. PICK i \in 1..(Len(q) - 1) : x = Tail(q)[i]
      BY <1>2 DEF Range
    <3> DEFINE k == i + 1
    <3>2. k \in 1..Len(q) /\ x = q[k] /\ k # 1
      BY <1>1, <3>1
    <3> HIDE DEF k
    <3> QED
      BY <1>1, <1>4, <3>2 DEF Range
  <2>2. ASSUME NEW x \in Range(q), x # Head(q)
        PROVE  x \in Range(Tail(q))
    <3>1. PICK k \in 1..Len(q) : x = q[k]
      BY <1>1 DEF Range
    <3> DEFINE i == k - 1
    <3>2. i \in 1..(Len(q) - 1) /\ i + 1 = k
      BY <1>1, <2>2, <3>1
    <3> HIDE DEF i
    <3>3. Tail(q)[i] = q[k]
      BY <1>1, <3>2
    <3> QED
      BY <1>2, <3>1, <3>2, <3>3 DEF Range
  <2> QED
    BY <2>1, <2>2
<1>7. NoDup(Tail(q))
  BY <1>1, <1>5 DEF NoDup
<1> QED
  BY <1>1, <1>3, <1>6, <1>7

(* A free frame is mapped at a page that maps nothing.                     *)
LEMMA NewFrameIs ==
  ASSUME NEW low, NEW s, Counted(s, low), NEW p \in Procs, NEW a \in Pages,
         s.pte[p][a].frame = NoFrame, ~OutOfMemory(s), NEW w \in BOOLEAN
  PROVE  LET t == MapNewFrame(s, p, a, w)
             f == FirstFree(s)
         IN  /\ Counted(t, low) /\ Elsewhere(s, t, p, a, 1)
             /\ f \in FrameNums \ Reserved(KernelEnd) /\ s.refs[f] = 0 /\ t.refs[f] = 1
             /\ t.pte[p][a].frame = f /\ t.pte[p][a].writable = w
             /\ \A g \in FrameNums : g # f => t.refs[g] = s.refs[g]
<1> DEFINE f == FirstFree(s)
           m == AllocateFrame(s)
           t == MapNewFrame(s, p, a, w)
           refs == [s.refs EXCEPT ![f] = 0]
<1>1. /\ s \in PhysState /\ s.pte \in [Procs -> [Pages -> Entry]]
      /\ s.free \in Seq(FrameNums) /\ s.refs \in [FrameNums -> Nat]
      /\ s = Mem(s.free, s.refs, s.pte) /\ NoDup(s.free) /\ s.free # <<>>
  <2>1. s \in PhysState /\ NoDup(s.free) /\ s.free # <<>>
    BY DEF Counted, OutOfMemory
  <2> QED
    BY <2>1, PhysFacts DEF Mem
<1>2. /\ Tail(s.free) \in Seq(FrameNums) /\ NoDup(Tail(s.free)) /\ f \in FrameNums
      /\ f \in Range(s.free) /\ Range(Tail(s.free)) = Range(s.free) \ {f}
  BY <1>1, PopIs DEF FirstFree
<1>3. /\ s.refs[f] = 0 /\ f \notin Reserved(KernelEnd) /\ f # NoFrame
  <2>1. \A g \in FrameNums : g \in Range(s.free) <=> s.refs[g] = 0
    BY DEF Counted
  <2>2. \A g \in Reserved(KernelEnd) : s.refs[g] = 1
    BY DEF Counted
  <2> HIDE DEF f
  <2> QED
    BY <1>2, <2>1, <2>2, PhysConstants
<1>4. /\ m \in PhysState /\ m.free = Tail(s.free) /\ m.refs = refs /\ m.pte = s.pte
  <2>1. m = [s EXCEPT !.free = Tail(s.free), !.refs = refs]
    BY DEF AllocateFrame, FirstFree
  <2>2. refs \in [FrameNums -> Nat]
    BY <1>1
  <2> HIDE DEF m, refs
  <2>3. m = Mem(Tail(s.free), refs, s.pte)
    BY <1>1, <2>1, MemWithTwo
  <2>4. m \in PhysState
    BY <1>1, <1>2, <2>2, <2>3 DEF Mem, PhysState
  <2> QED
    BY <2>3, <2>4, MemFields
<1>5. refs[f] = 0 /\ \A g \in FrameNums : g # f => refs[g] = s.refs[g]
  BY <1>1, <1>2
<1> HIDE DEF m, refs, f
<1>6. t = MapFrame(m, p, f, a, w)
  BY DEF MapNewFrame, m, f
<1> HIDE DEF t
<1> DEFINE e == NewEntry(m.pte[p][a], f, w)
<1>7. /\ t \in PhysState /\ t.free = m.free
      /\ t.refs = [m.refs EXCEPT ![f] = m.refs[f] + 1]
      /\ t.pte[p][a] = e /\ Elsewhere(m, t, p, a, 1)
      /\ Moves(m, t, p, a, NoFrame, f)
  <2>1. m.pte[p][a].frame = NoFrame
    BY <1>4
  <2> QED
    <3> HIDE DEF e
    <3>1. m \in PhysState /\ f \in FrameNums /\ f # NoFrame
      BY <1>2, <1>3, <1>4
    <3>2. /\ MapFrame(m, p, f, a, w) \in PhysState
          /\ MapFrame(m, p, f, a, w).free = m.free
          /\ MapFrame(m, p, f, a, w).refs = [m.refs EXCEPT ![f] = m.refs[f] + 1]
          /\ MapFrame(m, p, f, a, w).pte[p][a] = NewEntry(m.pte[p][a], f, w)
          /\ Elsewhere(m, MapFrame(m, p, f, a, w), p, a, 1)
          /\ Moves(m, MapFrame(m, p, f, a, w), p, a, NoFrame, f)
      BY <2>1, <3>1, MapIs
    <3> QED
      BY <1>6, <3>2 DEF e
<1>8. e.frame = f /\ e.writable = w
  BY DEF NewEntry
<1> HIDE DEF e
<1>9. /\ \A g : MapsOf(m, g) = MapsOf(s, g)
      /\ Elsewhere(s, t, p, a, 1)
  BY <1>4, <1>7 DEF MapsOf, Elsewhere
<1>10. /\ \A g \in FrameNums : g # f /\ g # NoFrame => MapsOf(t, g) = MapsOf(s, g)
       /\ Cardinality(MapsOf(t, f)) = Cardinality(MapsOf(s, f)) + 1
  BY <1>3, <1>7, <1>9 DEF Moves
<1>11. /\ t.refs \in [FrameNums -> Nat] /\ t.refs[f] = 1
       /\ \A g \in FrameNums : g # f => t.refs[g] = s.refs[g]
  <2>1. t.refs \in [FrameNums -> Nat]
    BY <1>7, PhysFacts
  <2>2. m.refs \in [FrameNums -> Nat]
    BY <1>4, PhysFacts
  <2> QED
    BY <1>2, <1>4, <1>5, <1>7, <2>1, <2>2
<1>12. Cardinality(MapsOf(s, f)) = 0
  <2>1. 0 >= Cardinality(MapsOf(s, f)) /\ Cardinality(MapsOf(s, f)) \in Nat
    BY <1>2, <1>3, MapsFinite DEF Counted
  <2> QED
    BY <2>1
<1>13. Counted(t, low)
  <2>1. \A g \in FrameNums : g \in Range(t.free) <=> t.refs[g] = 0
    <3>1. \A g \in FrameNums : g \in Range(s.free) <=> s.refs[g] = 0
      BY DEF Counted
    <3> QED
      BY <1>2, <1>4, <1>7, <1>11, <3>1
  <2>2. \A g \in Reserved(KernelEnd) :
          t.refs[g] = 1 /\ (g # NoFrame => MapsOf(t, g) = {})
    BY <1>3, <1>10, <1>11, PhysConstants DEF Counted
  <2>3. \A g \in FrameNums \ Reserved(KernelEnd) :
          /\ t.refs[g] >= Cardinality(MapsOf(t, g))
          /\ g \notin low => t.refs[g] = Cardinality(MapsOf(t, g))
    <3>1. TAKE g \in FrameNums \ Reserved(KernelEnd)
    <3>2. CASE g = f
      BY <1>10, <1>11, <1>12, <3>2
    <3>3. CASE g # f
      <4>1. g # NoFrame
        BY PhysConstants
      <4>2. t.refs[g] = s.refs[g] /\ MapsOf(t, g) = MapsOf(s, g)
        BY <1>10, <1>11, <3>3, <4>1
      <4> QED
        BY <4>2 DEF Counted
    <3> QED
      BY <3>2, <3>3
  <2>4. NoDup(t.free)
    BY <1>2, <1>4, <1>7
  <2> QED
    BY <1>7, <2>1, <2>2, <2>3, <2>4 DEF Counted
<1> QED
  BY <1>2, <1>3, <1>7, <1>8, <1>9, <1>11, <1>13 DEF t, f

(* A frame in use is mapped at one page more.                              *)
LEMMA MapAgainIs ==
  ASSUME NEW low, NEW s, Counted(s, low), NEW p \in Procs, NEW a \in Pages,
         s.pte[p][a].frame = NoFrame, NEW w \in BOOLEAN,
         NEW f \in FrameNums \ Reserved(KernelEnd), s.refs[f] # 0
  PROVE  LET t == MapFrame(s, p, f, a, w)
         IN  /\ Counted(t, low) /\ Elsewhere(s, t, p, a, 1)
             /\ t.pte[p][a].frame = f /\ t.pte[p][a].writable = w
             /\ \A g \in FrameNums : s.refs[g] # 0 => t.refs[g] # 0
<1> DEFINE t == MapFrame(s, p, f, a, w)
           e == NewEntry(s.pte[p][a], f, w)
<1>1. /\ s \in PhysState /\ s.refs \in [FrameNums -> Nat] /\ f # NoFrame
      /\ f \in FrameNums
  <2>1. s \in PhysState
    BY DEF Counted
  <2> QED
    BY <2>1, PhysFacts, PhysConstants
<1>2. /\ t \in PhysState /\ t.free = s.free
      /\ t.refs = [s.refs EXCEPT ![f] = s.refs[f] + 1]
      /\ t.pte[p][a] = e /\ Elsewhere(s, t, p, a, 1)
      /\ Moves(s, t, p, a, NoFrame, f)
  BY <1>1, MapIs
<1>3. e.frame = f /\ e.writable = w
  BY DEF NewEntry
<1> HIDE DEF e, t
<1>4. /\ \A g \in FrameNums : g # f /\ g # NoFrame => MapsOf(t, g) = MapsOf(s, g)
      /\ Cardinality(MapsOf(t, f)) = Cardinality(MapsOf(s, f)) + 1
  BY <1>1, <1>2 DEF Moves
<1>5. /\ t.refs[f] = s.refs[f] + 1
      /\ \A g \in FrameNums : g # f => t.refs[g] = s.refs[g]
      /\ \A g \in FrameNums : s.refs[g] \in Nat
  BY <1>1, <1>2
<1>6. \A g \in FrameNums : t.refs[g] = 0 <=> s.refs[g] = 0
  BY <1>1, <1>5
<1>7. Counted(t, low)
  <2>1. \A g \in FrameNums : g \in Range(t.free) <=> t.refs[g] = 0
    BY <1>2, <1>6 DEF Counted
  <2>2. \A g \in Reserved(KernelEnd) :
          t.refs[g] = 1 /\ (g # NoFrame => MapsOf(t, g) = {})
    BY <1>4, <1>5, PhysConstants DEF Counted
  <2>3. \A g \in FrameNums \ Reserved(KernelEnd) :
          /\ t.refs[g] >= Cardinality(MapsOf(t, g))
          /\ g \notin low => t.refs[g] = Cardinality(MapsOf(t, g))
    <3>1. TAKE g \in FrameNums \ Reserved(KernelEnd)
    <3>2. CASE g = f
      <4>1. /\ s.refs[f] >= Cardinality(MapsOf(s, f))
            /\ f \notin low => s.refs[f] = Cardinality(MapsOf(s, f))
            /\ Cardinality(MapsOf(s, f)) \in Nat
        BY MapsFinite DEF Counted
      <4> QED
        BY <1>1, <1>4, <1>5, <3>2, <4>1
    <3>3. CASE g # f
      <4>1. g # NoFrame
        BY PhysConstants
      <4>2. t.refs[g] = s.refs[g] /\ MapsOf(t, g) = MapsOf(s, g)
        BY <1>4, <1>5, <3>3, <4>1
      <4> QED
        BY <4>2 DEF Counted
    <3> QED
      BY <3>2, <3>3
  <2> QED
    BY <1>2, <2>1, <2>2, <2>3 DEF Counted
<1> QED
  BY <1>2, <1>3, <1>6, <1>7 DEF t

-----------------------------------------------------------------------------
(* Loops: a function of the rounds, each computed from the one before.     *)

(* What every round preserves holds after each.                            *)
LEMMA EveryRound ==
  ASSUME NEW n \in Nat, NEW g, NEW St, g[0] \in St[0],
         \A i \in 1..n : g[i - 1] \in St[i - 1] => g[i] \in St[i]
  PROVE  \A i \in 0..n : g[i] \in St[i]
<1> DEFINE bad == {i \in 0..n : g[i] \notin St[i]}
<1>1. SUFFICES ASSUME bad # {}
               PROVE  FALSE
  OBVIOUS
<1>2. PICK i \in bad : \A j \in bad : i <= j
  <2>1. bad \subseteq Nat
    OBVIOUS
  <2> HIDE DEF bad
  <2> QED
    BY <1>1, <2>1, LeastNumber
<1>3. i \in 1..n
  BY <1>2
<1>4. i - 1 \in 0..n /\ i - 1 \notin bad
  BY <1>2, <1>3
<1>5. g[i - 1] \in St[i - 1]
  BY <1>4
<1> QED
  BY <1>2, <1>3, <1>5

(* There is such a function.                                               *)
Rounds(g, n, x, F) == g = [i \in 0..n |-> IF i = 0 THEN x ELSE F[i][g[i - 1]]]

(* There is a function of that many rounds.                                *)
LEMMA RoundsExist ==
  ASSUME NEW n \in Nat, NEW x, NEW F
  PROVE  \E g : Rounds(g, n, x, F)
<1> DEFINE is(g, m) == Rounds(g, m, x, F)
           bad == {m \in 0..n : \A g : ~is(g, m)}
<1>1. SUFFICES ASSUME bad # {}
               PROVE  FALSE
  <2>1. n \in 0..n
    OBVIOUS
  <2> QED
    BY <2>1
<1>2. PICK m \in bad : \A j \in bad : m <= j
  <2>1. bad \subseteq Nat
    OBVIOUS
  <2> HIDE DEF bad
  <2> QED
    BY <1>1, <2>1, LeastNumber
<1>3. m \in 0..n /\ \A g : ~is(g, m)
  BY <1>2
<1>4. m # 0
  <2> DEFINE g == [i \in 0..0 |-> x]
  <2>1. g = [i \in 0..0 |-> IF i = 0 THEN x ELSE F[i][g[i - 1]]]
    <3>1. \A i \in 0..0 : i = 0
      OBVIOUS
    <3> QED
      BY <3>1
  <2> QED
    BY <1>3, <2>1 DEF Rounds
<1>5. m - 1 \in 0..n /\ m - 1 \notin bad /\ m \in Nat \ {0}
  <2>1. m - 1 \in 0..n /\ m \in Nat \ {0} /\ ~(m <= m - 1)
    BY <1>3, <1>4
  <2> HIDE DEF bad
  <2> QED
    BY <1>2, <2>1
<1>6. PICK g : is(g, m - 1)
  BY <1>5
<1> DEFINE h == [i \in 0..m |-> IF i = m THEN F[m][g[m - 1]] ELSE g[i]]
<1>7. \A i \in 0..(m - 1) : g[i] = IF i = 0 THEN x ELSE F[i][g[i - 1]]
  <2> DEFINE k == m - 1
  <2>1. g = [i \in 0..k |-> IF i = 0 THEN x ELSE F[i][g[i - 1]]]
    BY <1>6 DEF Rounds
  <2> HIDE DEF k
  <2>2. \A i \in 0..k : g[i] = IF i = 0 THEN x ELSE F[i][g[i - 1]]
    BY <2>1
  <2> QED
    BY <2>2 DEF k
<1>8. ASSUME NEW i \in 0..m
      PROVE  h[i] = IF i = 0 THEN x ELSE F[i][h[i - 1]]
  <2>1. CASE i = m
    <3>1. m - 1 \in 0..m /\ m - 1 # m
      BY <1>5
    <3>2. h[m - 1] = g[m - 1] /\ h[m] = F[m][g[m - 1]]
      BY <1>5, <3>1
    <3> QED
      BY <1>4, <2>1, <3>2
  <2>2. CASE i # m /\ i # 0
    <3>1. i \in 0..(m - 1) /\ i - 1 \in 0..m /\ i - 1 # m
      BY <1>5, <2>2
    <3>2. h[i] = g[i] /\ h[i - 1] = g[i - 1]
      BY <2>2, <3>1
    <3> HIDE DEF h
    <3> QED
      BY <1>7, <2>2, <3>1, <3>2
  <2>3. CASE i = 0
    <3>1. i \in 0..(m - 1) /\ h[i] = g[i]
      BY <1>5, <2>3
    <3> HIDE DEF h
    <3> QED
      BY <1>7, <2>3, <3>1
  <2> QED
    BY <2>1, <2>2, <2>3
<1>9. h = [i \in 0..m |-> IF i = 0 THEN x ELSE F[i][h[i - 1]]]
  <2>1. h = [i \in 0..m |-> h[i]]
    OBVIOUS
  <2> HIDE DEF h
  <2> QED
    BY <1>8, <2>1
<1> HIDE DEF h
<1> QED
  BY <1>3, <1>9 DEF Rounds

(* free_user_mem: the pages are cleared, their frames have lost one        *)
(* reference each, and nothing else has changed.                           *)
LEMMA FreeUserMemIs ==
  ASSUME NEW low, NEW s, Counted(s, low), NEW p \in Procs, NEW a \in Nat,
         NEW n \in Nat, Span(a, n) \subseteq Pages
  PROVE  LET t == FreeUserMem(s, p, a, n)
         IN  /\ Counted(t, low) /\ Elsewhere(s, t, p, a, n)
             /\ \A b \in Span(a, n) : t.pte[p][b] = Empty
             /\ \A f \in FrameNums :
                  (\A b \in Span(a, n) : s.pte[p][b].frame # f) => t.refs[f] = s.refs[f]
<1> DEFINE Good(t, i) ==
             /\ Counted(t, low) /\ Elsewhere(s, t, p, a, i)
             /\ \A b \in Span(a, i) : t.pte[p][b] = Empty
             /\ \A f \in FrameNums :
                  (\A b \in Span(a, i) : s.pte[p][b].frame # f) => t.refs[f] = s.refs[f]
           St == [i \in 0..n |-> {t \in PhysState : Good(t, i)}]
           F == [i \in 1..n |-> [t \in PhysState |-> FreeUserPage(t, p, a + i - 1)]]
           Runs(g) == g = [i \in 0..n |-> IF i = 0 THEN s
                                         ELSE FreeUserPage(g[i - 1], p, a + i - 1)]
<1>1. \A i \in 0..n : \A t : t \in St[i] <=> Good(t, i)
  BY DEF Counted
<1>2. Good(s, 0)
  <2>1. Span(a, 0) = {}
    BY DEF Span
  <2> QED
    BY <2>1 DEF Elsewhere
<1>3. ASSUME NEW i \in 1..n, NEW t, Good(t, i - 1)
      PROVE  Good(FreeUserPage(t, p, a + i - 1), i)
  <2> DEFINE c == a + i - 1
             u == FreeUserPage(t, p, c)
  <2>1. c \in Span(a, n) /\ c \in Pages
    BY DEF Span
  <2>2. /\ Counted(u, low) /\ u.pte[p][c] = Empty /\ Elsewhere(t, u, p, c, 1)
        /\ \A f \in FrameNums : f # t.pte[p][c].frame => u.refs[f] = t.refs[f]
    BY <1>3, <2>1, FreePageIs
  <2>3. /\ \A b : b \in Span(a, i) <=> b \in Span(a, i - 1) \/ b = c
        /\ c \notin Span(a, i - 1)
        /\ \A b : b \in Span(c, 1) <=> b = c
    BY <2>1, PhysConstants DEF Span
  <2> HIDE DEF u, c
  <2>4. Elsewhere(s, u, p, a, i)
    BY <1>3, <2>2, <2>3 DEF Elsewhere
  <2>5. ASSUME NEW b \in Span(a, i)
        PROVE  u.pte[p][b] = Empty
    <3>1. CASE b = c
      BY <2>2, <3>1
    <3>2. CASE b # c
      <4>1. b \in Span(a, i - 1) /\ b \in Pages
        BY <2>3, <3>2 DEF Span
      <4> QED
        BY <1>3, <2>2, <2>3, <3>2, <4>1 DEF Elsewhere
    <3> QED
      BY <3>1, <3>2
  <2>6. ASSUME NEW f \in FrameNums, \A b \in Span(a, i) : s.pte[p][b].frame # f
        PROVE  u.refs[f] = s.refs[f]
    <3>1. t.pte[p][c] = s.pte[p][c]
      BY <1>3, <2>1, <2>3 DEF Elsewhere
    <3>2. t.refs[f] = s.refs[f]
      BY <1>3, <2>3, <2>6
    <3> QED
      BY <2>2, <2>3, <2>6, <3>1, <3>2
  <2> QED
    BY <2>2, <2>4, <2>5, <2>6 DEF u, c
<1> HIDE DEF Good
<1>4. \E g : Runs(g)
  <2>0. PICK g : Rounds(g, n, s, F)
    <3> HIDE DEF F
    <3> QED
      BY RoundsExist
  <2>1. g = [i \in 0..n |-> IF i = 0 THEN s ELSE F[i][g[i - 1]]]
    <3> HIDE DEF F
    <3> QED
      BY <2>0 DEF Rounds
  <2>2. g[0] = s /\ \A i \in 1..n : g[i] = F[i][g[i - 1]]
    <3> HIDE DEF F
    <3>1. \A i \in 0..n : g[i] = IF i = 0 THEN s ELSE F[i][g[i - 1]]
      BY <2>1
    <3>2. \A i \in 1..n : i \in 0..n /\ i # 0
      OBVIOUS
    <3> QED
      BY <3>1, <3>2
  <2>3. \A i \in 1..n : \A t \in PhysState : F[i][t] = FreeUserPage(t, p, a + i - 1)
    OBVIOUS
  <2>4. \A i \in 0..n : \A t \in St[i] : t \in PhysState
    OBVIOUS
  <2>5. \A i \in 1..n : i \in 0..n /\ i - 1 \in 0..n
    OBVIOUS
  <2> HIDE DEF F, St
  <2>6. \A i \in 1..n : g[i - 1] \in St[i - 1] => g[i] \in St[i]
    BY <1>1, <1>3, <2>2, <2>3, <2>4, <2>5
  <2>7. g[0] \in St[0]
    BY <1>1, <1>2, <2>2
  <2>8. \A i \in 0..n : g[i] \in St[i]
    BY <2>6, <2>7, EveryRound
  <2>9. \A i \in 1..n : g[i] = FreeUserPage(g[i - 1], p, a + i - 1)
    BY <2>2, <2>3, <2>4, <2>5, <2>8
  <2>10. g = [i \in 0..n |-> g[i]]
    BY <2>1
  <2>11. \A i \in 0..n : g[i] = IF i = 0 THEN s ELSE FreeUserPage(g[i - 1], p, a + i - 1)
    <3>1. \A i \in 0..n : i = 0 \/ i \in 1..n
      OBVIOUS
    <3> QED
      BY <2>2, <2>9, <3>1
  <2>12. Runs(g)
    BY <2>10, <2>11
  <2> QED
    BY <2>12
<1> DEFINE after == CHOOSE g : Runs(g)
<1>5. FreeUserMem(s, p, a, n) = after[n]
  BY DEF FreeUserMem
<1>6. Runs(after)
  <2> HIDE DEF Runs
  <2> QED
    BY <1>4
<1> HIDE DEF after
<1>7. /\ after[0] = s
      /\ \A i \in 1..n : after[i] = FreeUserPage(after[i - 1], p, a + i - 1)
  <2>1. \A i \in 0..n : after[i] = IF i = 0 THEN s
                                  ELSE FreeUserPage(after[i - 1], p, a + i - 1)
    BY <1>6
  <2>2. \A i \in 1..n : i \in 0..n /\ i # 0
    OBVIOUS
  <2> QED
    BY <2>1, <2>2
<1> HIDE DEF St, F, Runs
<1>8. \A i \in 1..n : after[i - 1] \in St[i - 1] => after[i] \in St[i]
  <2>1. \A i \in 1..n : i \in 0..n /\ i - 1 \in 0..n
    OBVIOUS
  <2> QED
    BY <1>1, <1>3, <1>7, <2>1
<1>9. after[n] \in St[n]
  <2>1. after[0] \in St[0]
    BY <1>1, <1>2, <1>7
  <2>2. \A i \in 0..n : after[i] \in St[i]
    BY <1>8, <2>1, EveryRound
  <2> QED
    BY <2>2
<1>10. Good(after[n], n)
  BY <1>1, <1>9
<1> QED
  BY <1>5, <1>10 DEF Good

(* get_shared_object maps the frames of an object, in order, at pages that *)
(* map nothing.                                                            *)
LEMMA MapFramesIs ==
  ASSUME NEW low, NEW s, Counted(s, low), NEW p \in Procs, NEW a \in Nat,
         NEW frames \in Seq(FrameNums), NEW w \in BOOLEAN,
         Span(a, Len(frames)) \subseteq Pages,
         \A b \in Span(a, Len(frames)) : s.pte[p][b].frame = NoFrame,
         \A f \in Range(frames) : f \notin Reserved(KernelEnd) /\ s.refs[f] # 0
  PROVE  LET t == MapFrames(s, p, frames, a, w)
         IN  /\ Counted(t, low) /\ Elsewhere(s, t, p, a, Len(frames))
             /\ \A j \in 1..Len(frames) : /\ t.pte[p][a + j - 1].frame = frames[j]
                                         /\ t.pte[p][a + j - 1].writable = w
             /\ \A f \in FrameNums : s.refs[f] # 0 => t.refs[f] # 0
<1> DEFINE n == Len(frames)
           Good(t, i) ==
             /\ Counted(t, low) /\ Elsewhere(s, t, p, a, i)
             /\ \A j \in 1..i : /\ t.pte[p][a + j - 1].frame = frames[j]
                                /\ t.pte[p][a + j - 1].writable = w
             /\ \A f \in FrameNums : s.refs[f] # 0 => t.refs[f] # 0
           St == [i \in 0..n |-> {t \in PhysState : Good(t, i)}]
           F == [i \in 1..n |-> [t \in PhysState |-> MapFrame(t, p, frames[i], a + i - 1, w)]]
           Runs(g) == g = [i \in 0..n |->
                             IF i = 0 THEN s
                             ELSE MapFrame(g[i - 1], p, frames[i], a + i - 1, w)]
<1>0. /\ n \in Nat
      /\ \A i \in 1..n : frames[i] \in FrameNums \ Reserved(KernelEnd) /\ s.refs[frames[i]] # 0
  <2>1. n \in Nat /\ DOMAIN frames = 1..n /\ \A i \in 1..n : frames[i] \in FrameNums
    BY LenProperties, ElementOfSeq
  <2>2. \A i \in 1..n : frames[i] \in Range(frames)
    BY <2>1 DEF Range
  <2> QED
    BY <2>1, <2>2
<1>1. \A i \in 0..n : \A t : t \in St[i] <=> Good(t, i)
  BY DEF Counted
<1>2. Good(s, 0)
  BY DEF Elsewhere
<1>3. ASSUME NEW i \in 1..n, NEW t, Good(t, i - 1)
      PROVE  Good(MapFrame(t, p, frames[i], a + i - 1, w), i)
  <2> DEFINE c == a + i - 1
             u == MapFrame(t, p, frames[i], c, w)
             f == frames[i]
  <2>1. c \in Span(a, n) /\ c \in Pages
    <3>1. c \in Span(a, n)
      BY <1>0 DEF Span
    <3> QED
      BY <3>1
  <2>2. f \in FrameNums \ Reserved(KernelEnd) /\ t.refs[f] # 0
    BY <1>0, <1>3
  <2>3. /\ \A b : b \in Span(a, i) <=> b \in Span(a, i - 1) \/ b = c
        /\ c \notin Span(a, i - 1)
        /\ \A b : b \in Span(c, 1) <=> b = c
    <3>1. i \in Nat /\ i >= 1
      BY <1>0
    <3> QED
      BY <3>1 DEF Span
  <2>4. t.pte[p][c].frame = NoFrame
    <3>1. t.pte[p][c] = s.pte[p][c]
      <4> HIDE DEF c
      <4> QED
        BY <1>3, <2>1, <2>3 DEF Elsewhere
    <3> QED
      BY <2>1, <3>1
  <2> HIDE DEF c, f
  <2>5. /\ Counted(u, low) /\ Elsewhere(t, u, p, c, 1)
        /\ u.pte[p][c].frame = f /\ u.pte[p][c].writable = w
        /\ \A g \in FrameNums : t.refs[g] # 0 => u.refs[g] # 0
    <3>1. Counted(t, low) /\ u = MapFrame(t, p, f, c, w)
      BY <1>3 DEF f
    <3> HIDE DEF u
    <3> QED
      BY <2>1, <2>2, <2>4, <3>1, MapAgainIs
  <2> HIDE DEF u
  <2>6. Elsewhere(s, u, p, a, i)
    BY <1>3, <2>3, <2>5 DEF Elsewhere
  <2>7. ASSUME NEW j \in 1..i
        PROVE  /\ u.pte[p][a + j - 1].frame = frames[j]
               /\ u.pte[p][a + j - 1].writable = w
    <3>1. CASE j = i
      BY <2>5, <3>1 DEF c, f
    <3>2. CASE j # i
      <4> DEFINE b == a + j - 1
      <4>1. j \in 1..(i - 1) /\ b \in Span(a, n) /\ b # c /\ b \in Pages
        <5>1. j \in 1..(i - 1) /\ b \in Span(a, n) /\ b # c
          BY <1>0, <3>2 DEF c, Span
        <5> QED
          BY <5>1
      <4>2. t.pte[p][b].frame = frames[j] /\ t.pte[p][b].writable = w
        BY <1>3, <4>1
      <4> HIDE DEF b
      <4>3. u.pte[p][b] = t.pte[p][b]
        BY <2>3, <2>5, <4>1 DEF Elsewhere
      <4>4. u.pte[p][b].frame = frames[j] /\ u.pte[p][b].writable = w
        BY <4>2, <4>3
      <4> QED
        BY <4>4 DEF b
    <3> QED
      BY <3>1, <3>2
  <2>8. \A g \in FrameNums : s.refs[g] # 0 => u.refs[g] # 0
    BY <1>3, <2>5
  <2> QED
    BY <2>5, <2>6, <2>7, <2>8 DEF u, c, f
<1> HIDE DEF Good, n
<1>4. \E g : Runs(g)
  <2>0. PICK g : Rounds(g, n, s, F)
    <3> HIDE DEF F
    <3> QED
      BY <1>0, RoundsExist
  <2>1. g = [i \in 0..n |-> IF i = 0 THEN s ELSE F[i][g[i - 1]]]
    <3> HIDE DEF F
    <3> QED
      BY <2>0 DEF Rounds
  <2>2. g[0] = s /\ \A i \in 1..n : g[i] = F[i][g[i - 1]]
    <3> HIDE DEF F
    <3>1. \A i \in 0..n : g[i] = IF i = 0 THEN s ELSE F[i][g[i - 1]]
      BY <2>1
    <3>2. \A i \in 1..n : i \in 0..n /\ i # 0
      OBVIOUS
    <3> QED
      BY <1>0, <3>1, <3>2
  <2>3. \A i \in 1..n : \A t \in PhysState :
          F[i][t] = MapFrame(t, p, frames[i], a + i - 1, w)
    OBVIOUS
  <2>4. \A i \in 0..n : \A t \in St[i] : t \in PhysState
    OBVIOUS
  <2>5. \A i \in 1..n : i \in 0..n /\ i - 1 \in 0..n
    BY <1>0
  <2> HIDE DEF F, St
  <2>6. \A i \in 1..n : g[i - 1] \in St[i - 1] => g[i] \in St[i]
    BY <1>1, <1>3, <2>2, <2>3, <2>4, <2>5
  <2>7. g[0] \in St[0]
    BY <1>0, <1>1, <1>2, <2>2
  <2>8. \A i \in 0..n : g[i] \in St[i]
    BY <1>0, <2>6, <2>7, EveryRound
  <2>9. \A i \in 1..n : g[i] = MapFrame(g[i - 1], p, frames[i], a + i - 1, w)
    BY <2>2, <2>3, <2>4, <2>5, <2>8
  <2>10. g = [i \in 0..n |-> g[i]]
    BY <2>1
  <2>11. \A i \in 0..n :
           g[i] = IF i = 0 THEN s ELSE MapFrame(g[i - 1], p, frames[i], a + i - 1, w)
    <3>1. \A i \in 0..n : i = 0 \/ i \in 1..n
      BY <1>0
    <3> QED
      BY <2>2, <2>9, <3>1
  <2>12. Runs(g)
    BY <2>10, <2>11
  <2> QED
    BY <2>12
<1> DEFINE after == CHOOSE g : Runs(g)
<1>5. MapFrames(s, p, frames, a, w) = after[n]
  BY DEF MapFrames, n
<1>6. Runs(after)
  <2> HIDE DEF Runs
  <2> QED
    BY <1>4
<1> HIDE DEF after
<1>7. /\ after[0] = s
      /\ \A i \in 1..n : after[i] = MapFrame(after[i - 1], p, frames[i], a + i - 1, w)
  <2>1. \A i \in 0..n : after[i] = IF i = 0 THEN s
                          ELSE MapFrame(after[i - 1], p, frames[i], a + i - 1, w)
    BY <1>6
  <2>2. \A i \in 1..n : i \in 0..n /\ i # 0
    OBVIOUS
  <2> QED
    BY <1>0, <2>1, <2>2
<1> HIDE DEF St, F, Runs
<1>8. \A i \in 1..n : after[i - 1] \in St[i - 1] => after[i] \in St[i]
  <2>1. \A i \in 1..n : i \in 0..n /\ i - 1 \in 0..n
    BY <1>0
  <2> QED
    BY <1>1, <1>3, <1>7, <2>1
<1>9. after[n] \in St[n]
  <2>1. after[0] \in St[0]
    BY <1>0, <1>1, <1>2, <1>7
  <2>2. \A i \in 0..n : after[i] \in St[i]
    BY <1>0, <1>8, <2>1, EveryRound
  <2> QED
    BY <1>0, <2>2
<1>10. Good(after[n], n)
  BY <1>0, <1>1, <1>9
<1> QED
  BY <1>5, <1>10 DEF Good, n

(* allocate_user_mem writes entries over and counts nothing.               *)
Marked == [Empty EXCEPT !.writable = TRUE, !.heap = TRUE]

(* It maps nothing in the pages it marks and leaves the others alone.      *)
LEMMA AllocateUserMemIs ==
  ASSUME NEW s \in PhysState, NEW p \in Procs, NEW a \in Nat, NEW n \in Nat
  PROVE  LET t == AllocateUserMem(s, p, a, n)
         IN  /\ t \in PhysState /\ t.free = s.free /\ t.refs = s.refs
             /\ Elsewhere(s, t, p, a, n)
             /\ \A b \in Span(a, n) \cap Pages : t.pte[p][b].frame = NoFrame
<1> DEFINE t == AllocateUserMem(s, p, a, n)
           row == [b \in DOMAIN s.pte[p] |->
                     IF b \in Span(a, n) THEN Marked ELSE s.pte[p][b]]
           pte == [s.pte EXCEPT ![p] = row]
<1>1. /\ s.pte \in [Procs -> [Pages -> Entry]] /\ s.pte[p] \in [Pages -> Entry]
      /\ s.free \in Seq(FrameNums) /\ s.refs \in [FrameNums -> Nat]
      /\ s = Mem(s.free, s.refs, s.pte)
  BY PhysFacts DEF Mem
<1>2. Marked \in Entry /\ Marked.frame = NoFrame
  BY PhysConstants DEF Marked, Empty, Entry
<1>3. row \in [Pages -> Entry]
      /\ \A b \in Pages : row[b] = IF b \in Span(a, n) THEN Marked ELSE s.pte[p][b]
  BY <1>1, <1>2
<1>4. t = [s EXCEPT !.pte = [s.pte EXCEPT ![p] = row]]
  BY DEF AllocateUserMem, Marked
<1> HIDE DEF row, t
<1>5. pte \in [Procs -> [Pages -> Entry]] /\ pte[p] = row
      /\ \A q \in Procs : q # p => pte[q] = s.pte[q]
  BY <1>1, <1>3
<1> HIDE DEF pte
<1>6. t = Mem(s.free, s.refs, pte)
  BY <1>1, <1>4 DEF Mem, pte
<1>7. t \in PhysState /\ t.free = s.free /\ t.refs = s.refs /\ t.pte = pte
  BY <1>1, <1>5, <1>6 DEF Mem, PhysState
<1>8. Elsewhere(s, t, p, a, n)
  BY <1>3, <1>5, <1>7 DEF Elsewhere
<1>9. \A b \in Span(a, n) \cap Pages : t.pte[p][b].frame = NoFrame
  BY <1>2, <1>3, <1>5, <1>7
<1> QED
  BY <1>7, <1>8, <1>9 DEF t

(* Mappings may be forgotten of frames that low then lists.                *)
LEMMA ForgetIs ==
  ASSUME NEW low, NEW more, low \subseteq more, NEW s, Counted(s, low),
         NEW t \in PhysState, t.free = s.free, t.refs = s.refs,
         \A q \in Procs, b \in Pages :
           \/ t.pte[q][b].frame = s.pte[q][b].frame
           \/ t.pte[q][b].frame = NoFrame /\ s.pte[q][b].frame \in more
  PROVE  Counted(t, more)
<1>0. NoFrame \in Reserved(KernelEnd)
  BY PhysConstants
<1>1. ASSUME NEW f, f # NoFrame
      PROVE  MapsOf(t, f) \subseteq MapsOf(s, f)
  <2>1. ASSUME NEW x \in MapsOf(t, f)
        PROVE  x \in MapsOf(s, f)
    <3>1. x \in Procs \X Pages /\ t.pte[x[1]][x[2]].frame = f
      BY DEF MapsOf
    <3>2. x[1] \in Procs /\ x[2] \in Pages
      BY <3>1
    <3>3. s.pte[x[1]][x[2]].frame = f
      BY <1>1, <3>1, <3>2
    <3> QED
      BY <3>1, <3>3 DEF MapsOf
  <2> QED
    BY <2>1
<1>2. ASSUME NEW f, f # NoFrame, f \notin more
      PROVE  MapsOf(t, f) = MapsOf(s, f)
  <2>1. ASSUME NEW x \in MapsOf(s, f)
        PROVE  x \in MapsOf(t, f)
    <3>1. x \in Procs \X Pages /\ s.pte[x[1]][x[2]].frame = f
      BY DEF MapsOf
    <3>2. x[1] \in Procs /\ x[2] \in Pages
      BY <3>1
    <3>3. t.pte[x[1]][x[2]].frame = f
      BY <1>2, <3>1, <3>2
    <3> QED
      BY <3>1, <3>3 DEF MapsOf
  <2> QED
    BY <1>1, <1>2, <2>1
<1>3. \A f \in Reserved(KernelEnd) :
        t.refs[f] = 1 /\ (f # NoFrame => MapsOf(t, f) = {})
  BY <1>1 DEF Counted
<1>4. ASSUME NEW f \in FrameNums \ Reserved(KernelEnd)
      PROVE  t.refs[f] >= Cardinality(MapsOf(t, f))
  <2>1. MapsOf(t, f) \subseteq MapsOf(s, f)
    BY <1>0, <1>1
  <2>2. Cardinality(MapsOf(t, f)) <= Cardinality(MapsOf(s, f))
    BY <2>1, MapsFinite, FS_Subset
  <2>3. s.refs[f] >= Cardinality(MapsOf(s, f)) /\ s.refs[f] \in Nat
    <3>1. s.refs \in [FrameNums -> Nat]
      BY PhysFacts DEF Counted
    <3> QED
      BY <3>1 DEF Counted
  <2>4. Cardinality(MapsOf(t, f)) \in Nat /\ Cardinality(MapsOf(s, f)) \in Nat
    BY MapsFinite
  <2> QED
    BY <2>2, <2>3, <2>4
<1>5. \A f \in FrameNums \ (Reserved(KernelEnd) \cup more) :
        t.refs[f] = Cardinality(MapsOf(t, f))
  BY <1>0, <1>2 DEF Counted
<1> QED
  BY <1>3, <1>4, <1>5 DEF Counted
-----------------------------------------------------------------------------
(* The invariant.                                                          *)

Extent(x) == InUse(x.va, x.size)
Used(p) == UsedIn(heap[p].regions)
Creating(p) == call[p].step \in {"page", "insert"}
FrameAt(p, a) == phys.pte[p][a].frame

(* What a process remembers while its calls of the system are under way.   *)
(* The object it is making is not in the list yet; the one it is getting   *)
(* is, with the size it was told.                                          *)
CallOK(p) ==
  LET c == call[p]
  IN  /\ ~InCall(p) => c.va = 0
      /\ InCall(p) => c.size >= 1 /\ c.name \in Names
      /\ c.step \in {"lookup", "page", "insert"} => c.owner = p
      /\ ~Creating(p) => c.frames = <<>>
      /\ c.step = "page" => Len(c.frames) < c.size
      /\ c.step = "insert" => Len(c.frames) = c.size
      /\ Creating(p) => FindShare(p, c.name) = {}
      /\ c.step = "get" =>
           /\ c.va # 0
           /\ \E i \in FindShare(c.owner, c.name) : shares[i].size = c.size

(* The cause of each region in use, for a process that lives.              *)
Causes(p) == {h.va : h \in held[p]} \cup leaked[p]
             \cup (IF InCall(p) THEN {call[p].va} \ {0} ELSE {})

HeapOK(p) ==
  /\ \A h \in held[p] : Span(h.va, h.size) \subseteq Pages
  /\ Live(p) =>
       /\ Tiled(heap[p]) /\ heap[p].break < HeapMax
       /\ {r.va : r \in Used(p)} = Causes(p)
       /\ \A h \in held[p] :
            /\ Extent(h) \in Used(p)
            /\ h.va \notin leaked[p] /\ h.va # call[p].va
            /\ \A k \in held[p] : h.va = k.va => h = k
       /\ InCall(p) /\ call[p].va # 0 =>
            Extent(call[p]) \in Used(p) /\ call[p].va \notin leaked[p]

(* A page of the heap has a frame only when a client holds it or an object *)
(* is being made there; a page below the heap only through a call of       *)
(* smalloc at address 0.  The frames of an object are mapped as it is made.*)
PagesOK(p) ==
  /\ Live(p) => \A a \in HeapStart..(HeapMax - 1) : FrameAt(p, a) # NoFrame =>
       \/ \E h \in held[p] : a \in Span(h.va, h.size)
       \/ call[p].va # 0 /\ a \in Span(call[p].va, Len(call[p].frames))
  /\ \A a \in 0..(HeapStart - 1) : FrameAt(p, a) # NoFrame => FrameAt(p, a) \in LowFrames
  /\ call[p].va # 0 => \A j \in 1..Len(call[p].frames) :
       LET e == phys.pte[p][call[p].va + j - 1]
       IN  e.frame = call[p].frames[j] /\ e.writable

(* The object a client holds is in the list and mapped where it holds it.  *)
Sees(p, h) ==
  \E i \in FindShare(h.owner, h.name) :
    /\ shares[i].size = h.size
    /\ \A j \in 1..h.size :
         LET e == phys.pte[p][h.va + j - 1]
         IN  /\ e.frame = shares[i].frames[j]
             /\ e.writable = (h.use = "creator" \/ shares[i].writable)

SeesOK(p) == \A h \in held[p] : h.use # "private" => Sees(p, h)

(* The frames of objects, made or in the making: in use and apart.         *)
Claimed(f) ==
  \/ \E i \in DOMAIN shares : f \in Range(shares[i].frames)
  \/ \E p \in Procs : f \in Range(call[p].frames)

ClaimsOK ==
  /\ \A f : Claimed(f) => f \in FrameNums \ Reserved(KernelEnd) /\ phys.refs[f] # 0
  /\ \A i, j \in DOMAIN shares :
       i # j => Range(shares[i].frames) \cap Range(shares[j].frames) = {}
  /\ \A p, q \in Procs :
       p # q => Range(call[p].frames) \cap Range(call[q].frames) = {}
  /\ \A p \in Procs, i \in DOMAIN shares :
       Range(call[p].frames) \cap Range(shares[i].frames) = {}

Getters(owner, name) ==
  {x \in UNION {{p} \X held[p] : p \in Procs} :
     x[2].use = "getter" /\ x[2].owner = owner /\ x[2].name = name}

(* The list: one object of each owner and name, its count of references.   *)
ListOK ==
  /\ \A i, j \in DOMAIN shares :
       shares[i].owner = shares[j].owner /\ shares[i].name = shares[j].name => i = j
  /\ \A i \in DOMAIN shares :
       LET G == Getters(shares[i].owner, shares[i].name)
       IN  /\ Len(shares[i].frames) = shares[i].size
           /\ IsFiniteSet(G) /\ shares[i].references = 1 + Cardinality(G)

(* The frame of a private page is mapped there only and is no object's.    *)
PrivateOK ==
  \A p \in Procs : \A h \in held[p] : h.use = "private" =>
    \A a \in Span(h.va, h.size) : FrameAt(p, a) # NoFrame =>
      /\ ~Claimed(FrameAt(p, a))
      /\ \A q \in Procs, b \in Pages :
           FrameAt(q, b) = FrameAt(p, a) => q = p /\ b = a

Local(p) == CallOK(p) /\ HeapOK(p) /\ PagesOK(p) /\ SeesOK(p)

IInv ==
  /\ TypeOK /\ Counted(phys, LowFrames)
  /\ \A p \in Procs : Local(p)
  /\ ClaimsOK /\ ListOK /\ PrivateOK

-----------------------------------------------------------------------------
(* What every step has in common.                                          *)

(* The frames of objects at address 0, in a list sh and calls ca.          *)
LowOf(sh, ca) ==
  UNION ({Range(sh[i].frames) : i \in {j \in DOMAIN sh : sh[j].va = 0}}
         \cup {Range(ca[p].frames) : p \in {q \in Procs : ca[q].va = 0}})

(* Membership of LowFrames.                                                *)
LEMMA LowIs ==
  ASSUME NEW sh, NEW ca, NEW f
  PROVE  f \in LowOf(sh, ca) <=>
           \/ \E i \in DOMAIN sh : sh[i].va = 0 /\ f \in Range(sh[i].frames)
           \/ \E p \in Procs : ca[p].va = 0 /\ f \in Range(ca[p].frames)
BY DEF LowOf

(* The fields of a call.                                                   *)
CallState == [step : Steps, va : Pages, size : 0..MaxPages, writable : BOOLEAN,
              owner : Procs, name : Names \cup {NoName}, frames : Seq(FrameNums)]

(* The types of what belongs to one process, and of the list.              *)
LEMMA TypeFacts ==
  ASSUME TypeOK
  PROVE  /\ phys \in PhysState
         /\ heap \in [Procs -> HeapState] /\ call \in [Procs -> CallState]
         /\ held \in [Procs -> SUBSET Holding] /\ leaked \in [Procs -> SUBSET Pages]
         /\ \A p \in Procs :
              /\ heap[p] \in HeapState /\ call[p] \in CallState
              /\ held[p] \subseteq Holding /\ leaked[p] \subseteq Pages
              /\ call[p].va \in Nat /\ call[p].size \in 0..MaxPages
              /\ call[p].frames \in Seq(FrameNums) /\ Len(call[p].frames) \in Nat
              /\ DOMAIN call[p].frames = 1..Len(call[p].frames)
              /\ call[p].owner \in Procs /\ call[p].name \in Names \cup {NoName}
              /\ call[p].writable \in BOOLEAN /\ call[p].va \in Pages
         /\ shares \in Seq(Share) /\ Len(shares) \in Nat
         /\ DOMAIN shares = 1..Len(shares) /\ DOMAIN shares \subseteq Nat
         /\ \A i \in DOMAIN shares :
              /\ shares[i] \in Share
              /\ shares[i].frames \in Seq(FrameNums) /\ shares[i].size \in 1..MaxPages
              /\ shares[i].writable \in BOOLEAN /\ shares[i].owner \in Procs
              /\ shares[i].name \in Names /\ shares[i].va \in Pages
         /\ MaxPages \in Nat \ {0} /\ MaxPages <= HeapStart
<1>1. /\ phys \in PhysState
      /\ heap \in [Procs -> HeapState] /\ call \in [Procs -> CallState]
      /\ held \in [Procs -> SUBSET Holding] /\ leaked \in [Procs -> SUBSET Pages]
      /\ shares \in Seq(Share)
  BY DEF TypeOK, PhysState, CallState
<1>2. MaxPages \in Nat \ {0} /\ MaxPages <= HeapStart
  BY SharedMemConstants
<1>3. ASSUME NEW p \in Procs
      PROVE  /\ heap[p] \in HeapState /\ call[p] \in CallState
             /\ held[p] \subseteq Holding /\ leaked[p] \subseteq Pages
             /\ call[p].va \in Nat /\ call[p].size \in 0..MaxPages
             /\ call[p].frames \in Seq(FrameNums) /\ Len(call[p].frames) \in Nat
             /\ DOMAIN call[p].frames = 1..Len(call[p].frames)
             /\ call[p].owner \in Procs /\ call[p].name \in Names \cup {NoName}
             /\ call[p].writable \in BOOLEAN /\ call[p].va \in Pages
  <2>1. call[p] \in CallState
    BY <1>1
  <2>2. /\ call[p].va \in Pages /\ call[p].size \in 0..MaxPages
        /\ call[p].frames \in Seq(FrameNums)
        /\ call[p].owner \in Procs /\ call[p].name \in Names \cup {NoName}
        /\ call[p].writable \in BOOLEAN
    BY <2>1 DEF CallState
  <2>3. Len(call[p].frames) \in Nat /\ DOMAIN call[p].frames = 1..Len(call[p].frames)
    BY <2>2, LenProperties
  <2> QED
    BY <1>1, <2>1, <2>2, <2>3, PhysConstants
<1>4. /\ Len(shares) \in Nat
      /\ DOMAIN shares = 1..Len(shares) /\ DOMAIN shares \subseteq Nat
  BY <1>1, LenProperties
<1>5. ASSUME NEW i \in DOMAIN shares
      PROVE  /\ shares[i] \in Share
             /\ shares[i].frames \in Seq(FrameNums) /\ shares[i].size \in 1..MaxPages
             /\ shares[i].writable \in BOOLEAN /\ shares[i].owner \in Procs
             /\ shares[i].name \in Names /\ shares[i].va \in Pages
  <2>1. shares[i] \in Share
    BY <1>1, <1>4, ElementOfSeq
  <2> QED
    BY <2>1 DEF Share
<1> QED
  BY <1>1, <1>2, <1>3, <1>4, <1>5

(* The page table of another process is the same as a whole.               *)
LEMMA RowSame ==
  ASSUME NEW s \in PhysState, NEW t \in PhysState, NEW p, NEW a, NEW n,
         Elsewhere(s, t, p, a, n), NEW q \in Procs, q # p
  PROVE  t.pte[q] = s.pte[q]
<1>1. s.pte[q] \in [Pages -> Entry] /\ t.pte[q] \in [Pages -> Entry]
  BY PhysFacts
<1>2. \A b \in Pages : t.pte[q][b] = s.pte[q][b]
  BY DEF Elsewhere
<1> QED
  BY <1>1, <1>2

(* Regions in use lie inside the heap, below its last page, and apart.     *)
LEMMA RegionPages ==
  ASSUME NEW h \in HeapState, Tiled(h), h.break < HeapMax,
         NEW a, NEW n, InUse(a, n) \in UsedIn(h.regions)
  PROVE  /\ a \in HeapStart..(HeapMax - 1) /\ n \in Nat \ {0} /\ a + n < HeapMax
         /\ a # 0 /\ a \in Nat
         /\ Span(a, n) \subseteq HeapStart..(HeapMax - 1) /\ Span(a, n) \subseteq Pages
         /\ a \in Span(a, n)
         /\ \A c, m, b : InUse(c, m) \in UsedIn(h.regions)
                         /\ b \in Span(a, n) /\ b \in Span(c, m) => c = a /\ m = n
         /\ \A r \in UsedIn(h.regions) : r.va = a => r = InUse(a, n)
<1> DEFINE R == h.regions
           u == InUse(a, n)
<1>1. R \in Seq(Region) /\ h.break \in Nat
  BY UserHeapConstants DEF HeapState
<1>2. Line(R, h.break)
  BY TiledIs
<1>3. u.va = a /\ u.size = n
  BY DEF InUse
<1>4. PICK k \in 1..Len(R) : u = R[k]
  BY <1>1, RegionsFacts
<1>5. u \in Region
  BY <1>1, <1>4, RegionsFacts
<1>6. /\ a \in HeapStart..(HeapMax - 1) /\ a \in Nat /\ n \in Nat \ {0} /\ a # 0
      /\ EndOf(u) = a + n /\ HeapStart \in Nat \ {0} /\ HeapMax \in Nat
  BY <1>3, <1>5, RegionFacts
<1>7. EndOf(u) <= h.break
  BY <1>1, <1>2, <1>4, LineBounds
<1>8. a + n < HeapMax
  BY <1>1, <1>6, <1>7
<1>9. /\ Span(a, n) \subseteq HeapStart..(HeapMax - 1) /\ Span(a, n) \subseteq Pages
      /\ a \in Span(a, n)
  BY <1>6, <1>8 DEF Span, Pages
<1>10. ASSUME NEW r \in UsedIn(R), NEW b, b \in Span(a, n), b \in Span(r.va, r.size)
       PROVE  r = u
  <2> HIDE DEF u
  <2>1. u \in UsedIn(R) /\ b \in Span(u.va, u.size)
    BY <1>3, <1>10 DEF u
  <2> QED
    BY <1>1, <1>2, <1>10, <2>1, UsedApart
<1>11. ASSUME NEW c, NEW m, NEW b, InUse(c, m) \in UsedIn(R), b \in Span(a, n),
              b \in Span(c, m)
       PROVE  c = a /\ m = n
  <2>1. InUse(c, m).va = c /\ InUse(c, m).size = m
    BY DEF InUse
  <2>2. InUse(c, m) = u
    BY <1>10, <1>11, <2>1
  <2> QED
    BY <1>3, <2>1, <2>2
<1>12. ASSUME NEW r \in UsedIn(R), r.va = a
       PROVE  r = u
  <2>1. r \in Region
    BY <1>1, RegionsFacts
  <2>2. a \in Span(r.va, r.size)
    BY <1>12, <2>1, RegionFacts DEF Span
  <2> QED
    BY <1>9, <1>10, <2>2
<1>13. \A c, m, b : InUse(c, m) \in UsedIn(R)
                    /\ b \in Span(a, n) /\ b \in Span(c, m) => c = a /\ m = n
  <2> SUFFICES ASSUME NEW c, NEW m, NEW b, InUse(c, m) \in UsedIn(R),
                      b \in Span(a, n), b \in Span(c, m)
               PROVE  c = a /\ m = n
    OBVIOUS
  <2> QED
    BY <1>11
<1>14. \A r \in UsedIn(R) : r.va = a => r = u
  <2> HIDE DEF R, u
  <2> QED
    BY <1>12
<1> QED
  BY <1>6, <1>8, <1>9, <1>13, <1>14

(* What a step of p leaves as it is for the other processes, and what it   *)
(* may do to the list: objects are added by their owner and never change   *)
(* but for their count of references.                                      *)
Apart(p) ==
  \A q \in Procs \ {p} :
    /\ heap'[q] = heap[q] /\ call'[q] = call[q]
    /\ held'[q] = held[q] /\ leaked'[q] = leaked[q]
    /\ phys'.pte[q] = phys.pte[q]

SameObject(x, y) ==
  /\ x.owner = y.owner /\ x.name = y.name /\ x.size = y.size /\ x.va = y.va
  /\ x.writable = y.writable /\ x.frames = y.frames

ListGrows(p) ==
  /\ \A i \in DOMAIN shares : i \in DOMAIN shares' /\ SameObject(shares[i], shares'[i])
  /\ \A i \in DOMAIN shares' : i \notin DOMAIN shares => shares'[i].owner = p

(* So the other processes keep what the invariant says of them.            *)
LEMMA OthersKeep ==
  ASSUME TypeOK, NEW p \in Procs, Apart(p), ListGrows(p),
         LowFrames \subseteq LowFrames', NEW q \in Procs, q # p, Local(q)
  PROVE  Local(q)'
<1>1. /\ heap'[q] = heap[q] /\ call'[q] = call[q]
      /\ held'[q] = held[q] /\ leaked'[q] = leaked[q]
      /\ phys'.pte[q] = phys.pte[q]
  BY DEF Apart
<1>2. \A o, n : FindShare(o, n) \subseteq FindShare(o, n)'
  BY DEF ListGrows, SameObject, FindShare
<1>3. \A n : FindShare(q, n)' \subseteq FindShare(q, n)
  BY DEF ListGrows, SameObject, FindShare
<1>4. CallOK(q)'
  <2>1. CallOK(q)
    BY DEF Local
  <2>2. (InCall(q) <=> InCall(q)') /\ (Creating(q) <=> Creating(q)')
    BY <1>1 DEF InCall, Creating
  <2>3. Creating(q) /\ FindShare(q, call[q].name) = {} => FindShare(q, call[q].name)' = {}
    BY <1>1, <1>3 DEF FindShare
  <2>4. ASSUME NEW i \in FindShare(call[q].owner, call[q].name)
        PROVE  /\ i \in FindShare(call[q].owner, call[q].name)'
               /\ shares'[i].size = shares[i].size
    BY <1>2, <1>1 DEF ListGrows, SameObject, FindShare
  <2> QED
    BY <2>1, <2>2, <2>3, <2>4, <1>1 DEF CallOK
<1>5. HeapOK(q)'
  BY <1>1 DEF Local, HeapOK, Live, Used, Causes, InCall
<1>6. PagesOK(q)'
  <2>1. PagesOK(q)
    BY DEF Local
  <2>2. \A a : FrameAt(q, a)' = FrameAt(q, a)
    BY <1>1 DEF FrameAt
  <2>3. Live(q)' <=> Live(q)
    BY <1>1 DEF Live
  <2> QED
    BY <1>1, <2>1, <2>2, <2>3 DEF PagesOK
<1>7. SeesOK(q)'
  <2>1. ASSUME NEW h \in held[q], Sees(q, h)
        PROVE  Sees(q, h)'
    <3>1. PICK i \in FindShare(h.owner, h.name) :
            /\ shares[i].size = h.size
            /\ \A j \in 1..h.size :
                 LET e == phys.pte[q][h.va + j - 1]
                 IN  /\ e.frame = shares[i].frames[j]
                     /\ e.writable = (h.use = "creator" \/ shares[i].writable)
      BY <2>1 DEF Sees
    <3>2. i \in FindShare(h.owner, h.name)' /\ SameObject(shares[i], shares'[i])
      BY <1>2 DEF ListGrows, FindShare
    <3> QED
      BY <1>1, <3>1, <3>2 DEF SameObject, Sees
  <2> QED
    BY <1>1, <2>1 DEF Local, SeesOK
<1> QED
  BY <1>4, <1>5, <1>6, <1>7 DEF Local

(* No step but the making of an object changes what objects claim.         *)
ClaimsKept ==
  /\ DOMAIN shares' = DOMAIN shares
  /\ \A i \in DOMAIN shares : SameObject(shares[i], shares'[i])
  /\ \A q \in Procs : /\ call'[q].frames = call[q].frames
                      /\ call[q].frames # <<>> => call'[q].va = call[q].va

(* Then the same frames are claimed, and the same ones at address 0.       *)
LEMMA ClaimsKeptIs ==
  ASSUME ClaimsKept
  PROVE  LowFrames' = LowFrames /\ \A f : Claimed(f)' <=> Claimed(f)
<1>1. \A f : Claimed(f)' <=> Claimed(f)
  BY DEF ClaimsKept, Claimed, SameObject
<1>2. Range(<<>>) = {}
  BY DEF Range
<1>3. ASSUME NEW f PROVE f \in LowOf(shares', call') <=> f \in LowOf(shares, call)
  <2>1. \A q \in Procs : call'[q].va = 0 /\ f \in Range(call'[q].frames)
                         <=> call[q].va = 0 /\ f \in Range(call[q].frames)
    BY <1>2 DEF ClaimsKept
  <2>2. \A i \in DOMAIN shares : shares'[i].va = shares[i].va
                                 /\ shares'[i].frames = shares[i].frames
    BY DEF ClaimsKept, SameObject
  <2> QED
    BY <2>1, <2>2, LowIs DEF ClaimsKept
<1>4. LowOf(shares', call') = LowOf(shares, call)
  BY <1>3
<1> QED
  BY <1>1, <1>4 DEF LowFrames, LowOf

(* Then they stay in use and apart, when their frames do.                  *)
LEMMA ClaimsOKKept ==
  ASSUME ClaimsKept, ClaimsOK, \A f : Claimed(f) => phys'.refs[f] # 0
  PROVE  ClaimsOK'
<1>1. \A f : Claimed(f)' => f \in FrameNums \ Reserved(KernelEnd) /\ phys'.refs[f] # 0
  BY ClaimsKeptIs DEF ClaimsOK
<1>2. /\ DOMAIN shares' = DOMAIN shares
      /\ \A i \in DOMAIN shares : shares'[i].frames = shares[i].frames
      /\ \A q \in Procs : call'[q].frames = call[q].frames
  BY DEF ClaimsKept, SameObject
<1> QED
  BY <1>1, <1>2 DEF ClaimsOK

-----------------------------------------------------------------------------
(* The steps, one lemma for what each does to the invariant.               *)

(* A process that makes no call.                                           *)
LEMMA IdleIs ==
  ASSUME NEW p \in Procs, NEW how \in Steps
  PROVE  LET c == [Idle(p) EXCEPT !.step = how]
         IN  /\ c \in CallState /\ c.step = how /\ c.va = 0 /\ c.frames = <<>>
             /\ Idle(p) \in CallState /\ Idle(p).step = "idle" /\ Idle(p).va = 0
             /\ Idle(p).frames = <<>>
<1>1. 0 \in Pages /\ 0 \in 0..MaxPages /\ <<>> \in Seq(FrameNums)
  BY PhysConstants, SharedMemConstants
<1>2. /\ Idle(p) \in CallState /\ Idle(p).step = "idle" /\ Idle(p).va = 0
      /\ Idle(p).frames = <<>>
  BY <1>1 DEF Idle, CallState, Steps
<1> DEFINE c == [Idle(p) EXCEPT !.step = how]
<1>3. c \in CallState
  BY <1>2 DEF CallState
<1>4. c.step = how /\ c.va = Idle(p).va /\ c.frames = Idle(p).frames
  BY <1>2 DEF CallState
<1> QED
  BY <1>2, <1>3, <1>4

(* A region of n pages at a, granted to p: g is its heap, s the memory     *)
(* with the pages marked.                                                  *)
Grants(p, n, a, g, s) ==
  /\ g \in HeapState /\ Tiled(g) /\ g.break < HeapMax
  /\ UsedIn(g.regions) = Used(p) \cup {InUse(a, n)}
  /\ a \in HeapStart..(HeapMax - 1) /\ a # 0 /\ a \in Pages
  /\ Span(a, n) \subseteq Pages
  /\ \A x \in Used(p) : x.va # a
  /\ \A h \in held[p] : Span(h.va, h.size) \cap Span(a, n) = {}
  /\ Counted(s, LowFrames) /\ s.refs = phys.refs
  /\ \A q \in Procs \ {p} : s.pte[q] = phys.pte[q]
  /\ \A q \in Procs, b \in Pages : s.pte[q][b].frame = phys.pte[q][b].frame
  /\ \A b \in Pages : b \notin Span(a, n) => s.pte[p][b] = phys.pte[p][b]
  /\ \A b \in Span(a, n) : s.pte[p][b].frame = NoFrame

(* That is what a heap that answers "granted" gives, below USER_HEAP_MAX.  *)
LEMMA GrantIs ==
  ASSUME TypeOK, Counted(phys, LowFrames), NEW p \in Procs, Local(p),
         Ready(p, "idle"), NEW n \in 1..MaxPages,
         ChooseRegion(heap[p], n).answer = "granted",
         ~BeyondUserHeap(ChooseRegion(heap[p], n).va, n)
  PROVE  LET r == ChooseRegion(heap[p], n)
         IN  Grants(p, n, r.va, r.heap, AllocateUserMem(phys, p, r.va, n))
<1> DEFINE h == heap[p]
           r == ChooseRegion(h, n)
           a == r.va
           g == r.heap
           s == AllocateUserMem(phys, p, a, n)
<1>1. /\ h \in HeapState /\ phys \in PhysState /\ n \in Nat \ {0}
      /\ HeapStart \in Nat \ {0} /\ HeapMax \in Nat
  BY TypeFacts, PhysConstants
<1>2. /\ Live(p) /\ ~InCall(p) /\ call[p].va = 0 /\ ~panic
  <2>1. call[p].step = "idle" /\ ~panic
    BY DEF Ready
  <2>2. Live(p) /\ ~InCall(p)
    BY <2>1 DEF Live, InCall
  <2> QED
    BY <2>1, <2>2 DEF Local, CallOK
<1>3. /\ Tiled(h) /\ h.break < HeapMax
      /\ \A k \in held[p] : Extent(k) \in Used(p)
  BY <1>2 DEF Local, HeapOK
<1>4. /\ g \in HeapState /\ Tiled(g) /\ Takes(h.regions, g.regions, a, n)
      /\ g.break = h.break \/ g.break = a + n
  <2>1. r = ChooseRegion(h, n) /\ r.answer = "granted"
    OBVIOUS
  <2> HIDE DEF h, r
  <2> QED
    BY <1>1, <1>3, <2>1, ChooseIs
<1>5. a + n < HeapMax
  <2>1. a \in Nat
    BY <1>4, <1>1 DEF Takes
  <2>2. ~(a + n >= HeapMax)
    BY DEF BeyondUserHeap
  <2> QED
    BY <1>1, <2>1, <2>2
<1> HIDE DEF r, h
<1>6. g.break < HeapMax
  BY <1>3, <1>4, <1>5
<1>7. /\ UsedIn(g.regions) = Used(p) \cup {InUse(a, n)}
      /\ \A x \in Used(p) : x.va # a
  BY <1>4 DEF Takes, Used, h
<1> HIDE DEF a, g
<1>8. /\ a \in HeapStart..(HeapMax - 1) /\ a # 0 /\ a \in Nat
      /\ Span(a, n) \subseteq Pages /\ Span(a, n) \subseteq HeapStart..(HeapMax - 1)
      /\ a \in Span(a, n)
      /\ \A c, m, b : InUse(c, m) \in UsedIn(g.regions)
                      /\ b \in Span(a, n) /\ b \in Span(c, m) => c = a /\ m = n
  <2>1. InUse(a, n) \in UsedIn(g.regions)
    BY <1>7
  <2> QED
    BY <1>4, <1>6, <2>1, RegionPages
<1>9. ASSUME NEW k \in held[p]
      PROVE  Span(k.va, k.size) \cap Span(a, n) = {}
  <2>1. Extent(k) \in Used(p) /\ Extent(k) = InUse(k.va, k.size)
        /\ Extent(k).va = k.va
    BY <1>3 DEF Extent, InUse
  <2>2. k.va # a
    BY <1>7, <2>1
  <2>3. InUse(k.va, k.size) \in UsedIn(g.regions)
    BY <1>7, <2>1
  <2> QED
    BY <1>8, <2>2, <2>3
<1>10. \A b \in Span(a, n) : phys.pte[p][b].frame = NoFrame
  <2>1. PagesOK(p)
    BY DEF Local
  <2> QED
    BY <1>2, <1>8, <1>9, <2>1 DEF PagesOK, FrameAt
<1>11. /\ s \in PhysState /\ s.free = phys.free /\ s.refs = phys.refs
       /\ Elsewhere(phys, s, p, a, n)
       /\ \A b \in Span(a, n) : s.pte[p][b].frame = NoFrame
  <2>1. s = AllocateUserMem(phys, p, a, n)
    OBVIOUS
  <2> HIDE DEF s
  <2>2. n \in Nat /\ phys \in PhysState /\ a \in Nat
    BY <1>1, <1>8
  <2>3. /\ s \in PhysState /\ s.free = phys.free /\ s.refs = phys.refs
        /\ Elsewhere(phys, s, p, a, n)
        /\ \A b \in Span(a, n) \cap Pages : s.pte[p][b].frame = NoFrame
    BY <2>1, <2>2, AllocateUserMemIs
  <2> QED
    BY <1>8, <2>3
<1> HIDE DEF s
<1>12. \A q \in Procs \ {p} : s.pte[q] = phys.pte[q]
  BY <1>1, <1>11, RowSame
<1>13. \A b \in Pages : b \notin Span(a, n) => s.pte[p][b] = phys.pte[p][b]
  BY <1>11 DEF Elsewhere
<1>14. \A q \in Procs, b \in Pages : s.pte[q][b].frame = phys.pte[q][b].frame
  BY <1>10, <1>11, <1>12, <1>13
<1>15. Counted(s, LowFrames)
  BY <1>11, <1>14, ForgetIs
<1> HIDE DEF Counted
<1>16. a \in Pages
  BY <1>8
<1>17. Grants(p, n, a, g, s)
  BY <1>4, <1>6, <1>7, <1>8, <1>9, <1>11, <1>12, <1>13, <1>14, <1>15, <1>16 DEF Grants
<1> QED
  BY <1>17 DEF a, g, s, r, h

(* Getters, for the regions ho that clients hold.                          *)
GettersOf(ho, owner, name) ==
  {x \in UNION {{p} \X ho[p] : p \in Procs} :
     x[2].use = "getter" /\ x[2].owner = owner /\ x[2].name = name}

(* Its members.                                                            *)
LEMMA GettersIs ==
  ASSUME NEW ho, NEW o, NEW n, NEW x
  PROVE  x \in GettersOf(ho, o, n) <=>
           \E q \in Procs : \E h \in ho[q] :
             x = <<q, h>> /\ h.use = "getter" /\ h.owner = o /\ h.name = n
<1>1. ASSUME x \in GettersOf(ho, o, n)
      PROVE  \E q \in Procs : \E h \in ho[q] :
               x = <<q, h>> /\ h.use = "getter" /\ h.owner = o /\ h.name = n
  <2>1. PICK q \in Procs : x \in {q} \X ho[q]
    BY <1>1 DEF GettersOf
  <2>2. PICK h \in ho[q] : x = <<q, h>>
    BY <2>1
  <2>3. x[2].use = "getter" /\ x[2].owner = o /\ x[2].name = n
    BY <1>1 DEF GettersOf
  <2> QED
    BY <2>2, <2>3
<1>2. ASSUME NEW q \in Procs, NEW h \in ho[q],
             x = <<q, h>>, h.use = "getter", h.owner = o, h.name = n
      PROVE  x \in GettersOf(ho, o, n)
  <2>1. x \in {q} \X ho[q] /\ x[2] = h
    BY <1>2
  <2> QED
    BY <1>2, <2>1 DEF GettersOf
<1> QED
  BY <1>1, <1>2

(* No step but sget adds getters.                                          *)
LEMMA GettersKept ==
  ASSUME NEW p \in Procs,
         \A q \in Procs \ {p} : held'[q] = held[q],
         \A h : h.use = "getter" => (h \in held'[p] <=> h \in held[p]),
         NEW o, NEW n
  PROVE  Getters(o, n)' = Getters(o, n)
<1>1. \A q \in Procs : \A h : h.use = "getter" => (h \in held'[q] <=> h \in held[q])
  OBVIOUS
<1>2. ASSUME NEW x
      PROVE  x \in GettersOf(held', o, n) <=> x \in GettersOf(held, o, n)
  BY <1>1, GettersIs
<1>3. GettersOf(held', o, n) = GettersOf(held, o, n)
  <2>1. \A x : x \in GettersOf(held', o, n) <=> x \in GettersOf(held, o, n)
    BY <1>2
  <2> QED
    BY <2>1 DEF GettersOf
<1> QED
  BY <1>3 DEF Getters, GettersOf

(* The list stays right when neither it nor the getters change.            *)
LEMMA ListKept ==
  ASSUME NEW p \in Procs, ListOK, shares' = shares,
         \A q \in Procs \ {p} : held'[q] = held[q],
         \A h : h.use = "getter" => (h \in held'[p] <=> h \in held[p])
  PROVE  ListOK'
<1>1. \A o, n : Getters(o, n)' = Getters(o, n)
  BY GettersKept
<1> QED
  BY <1>1 DEF ListOK

(* What no client wrote, no client sees: a step that changes the frame of  *)
(* no page and the claims of no object keeps both apart.                   *)
LEMMA ApartKept ==
  ASSUME NEW p \in Procs, ClaimsOK, PrivateOK, Apart(p), ClaimsKept,
         phys'.refs = phys.refs,
         \A q \in Procs : \A h \in held[q] : Span(h.va, h.size) \subseteq Pages,
         \A h \in held'[p] : Span(h.va, h.size) \subseteq Pages,
         \A q \in Procs, b \in Pages : FrameAt(q, b)' = FrameAt(q, b),
         \A h \in held'[p] : h.use = "private" =>
           h \in held[p] \/ \A a \in Span(h.va, h.size) : FrameAt(p, a) = NoFrame
  PROVE  ClaimsOK' /\ PrivateOK'
<1>1. ClaimsOK'
  BY ClaimsOKKept DEF ClaimsOK
<1>2. ASSUME NEW q \in Procs, NEW h \in held'[q], h.use = "private",
             NEW a \in Span(h.va, h.size), FrameAt(q, a)' # NoFrame
      PROVE  /\ ~Claimed(FrameAt(q, a))'
             /\ \A o \in Procs, b \in Pages : FrameAt(o, b)' = FrameAt(q, a)' => o = q /\ b = a
  <2>1. a \in Pages /\ FrameAt(q, a)' = FrameAt(q, a)
    BY <1>2 DEF Apart
  <2>2. h \in held[q]
    BY <1>2, <2>1 DEF Apart
  <2>3. /\ ~Claimed(FrameAt(q, a))
        /\ \A o \in Procs, b \in Pages : FrameAt(o, b) = FrameAt(q, a) => o = q /\ b = a
    BY <1>2, <2>1, <2>2 DEF PrivateOK
  <2> QED
    BY <2>1, <2>3, ClaimsKeptIs
<1>3. PrivateOK'
  BY <1>2 DEF PrivateOK
<1> QED
  BY <1>1, <1>3

(* A process between two calls.                                            *)
LEMMA IdleNow ==
  ASSUME NEW p \in Procs, Local(p), Ready(p, "idle")
  PROVE  /\ call[p].step = "idle" /\ call[p].va = 0 /\ call[p].frames = <<>>
         /\ Live(p) /\ ~InCall(p) /\ ~Creating(p) /\ ~panic
<1>1. call[p].step = "idle" /\ ~panic
  BY DEF Ready
<1>2. Live(p) /\ ~InCall(p) /\ ~Creating(p)
  BY <1>1 DEF Live, InCall, Creating
<1> QED
  BY <1>1, <1>2 DEF Local, CallOK

(* A step of p that keeps what concerns p and what concerns all keeps the  *)
(* invariant.                                                              *)
LEMMA Together ==
  ASSUME IInv, NEW p \in Procs, Apart(p), ListGrows(p), LowFrames \subseteq LowFrames',
         TypeOK', Counted(phys', LowFrames'), Local(p)', ClaimsOK', ListOK', PrivateOK'
  PROVE  IInv'
<1>1. ASSUME NEW q \in Procs PROVE Local(q)'
  <2>1. CASE q = p
    BY <2>1
  <2>2. CASE q # p
    <3>1. TypeOK /\ Local(q)
      BY DEF IInv
    <3> QED
      BY <2>2, <3>1, OthersKeep
  <2> QED
    BY <2>1, <2>2
<1> QED
  BY <1>1 DEF IInv

(* The list is not touched.                                                *)
LEMMA SameList ==
  ASSUME NEW p \in Procs, shares' = shares
  PROVE  /\ ListGrows(p)
         /\ (\A q \in Procs : /\ call'[q].frames = call[q].frames
                              /\ call[q].frames # <<>> => call'[q].va = call[q].va)
              => ClaimsKept
         /\ \A o, n : FindShare(o, n)' = FindShare(o, n)
BY DEF ListGrows, ClaimsKept, SameObject, FindShare

(* What a client sees of its pages does not change as long as it holds     *)
(* them.                                                                   *)
Steady(p) ==
  \A h \in held[p] \cap held'[p] : \A a \in Span(h.va, h.size) :
    phys.pte[p][a].frame # NoFrame => phys'.pte[p][a] = phys.pte[p][a]

(* An object is seen as long as its pages stay.                            *)
LEMMA SeesStays ==
  ASSUME TypeOK, NEW p \in Procs, ListGrows(p), NEW h \in held[p], Sees(p, h),
         \A b \in Span(h.va, h.size) : phys'.pte[p][b] = phys.pte[p][b]
  PROVE  Sees(p, h)'
<1>1. h \in Holding
  BY TypeFacts
<1>2. \A j \in 1..h.size : h.va + j - 1 \in Span(h.va, h.size)
  BY <1>1, PhysConstants, SharedMemConstants DEF Holding, Span, Pages
<1>3. PICK i \in FindShare(h.owner, h.name) :
        /\ shares[i].size = h.size
        /\ \A j \in 1..h.size :
             LET e == phys.pte[p][h.va + j - 1]
             IN  /\ e.frame = shares[i].frames[j]
                 /\ e.writable = (h.use = "creator" \/ shares[i].writable)
  BY DEF Sees
<1>4. i \in FindShare(h.owner, h.name)' /\ SameObject(shares[i], shares'[i])
  BY <1>3 DEF ListGrows, FindShare, SameObject
<1>5. \A j \in 1..h.size : phys'.pte[p][h.va + j - 1] = phys.pte[p][h.va + j - 1]
  BY <1>2
<1>6. /\ shares'[i].size = shares[i].size /\ shares'[i].frames = shares[i].frames
      /\ shares'[i].writable = shares[i].writable
  BY <1>4 DEF SameObject
<1>7. /\ shares'[i].size = h.size
      /\ \A j \in 1..h.size :
           LET e == phys'.pte[p][h.va + j - 1]
           IN  /\ e.frame = shares'[i].frames[j]
               /\ e.writable = (h.use = "creator" \/ shares'[i].writable)
  BY <1>3, <1>5, <1>6
<1> QED
  BY <1>4, <1>7 DEF Sees

(* A process sees the objects it held before.                              *)
LEMMA SeesKept ==
  ASSUME TypeOK, NEW p \in Procs, SeesOK(p), ListGrows(p),
         \A h \in held'[p] : h.use # "private" =>
           /\ h \in held[p]
           /\ \A b \in Span(h.va, h.size) : phys'.pte[p][b] = phys.pte[p][b]
  PROVE  SeesOK(p)'
<1>1. ASSUME NEW h \in held'[p], h.use # "private"
      PROVE  Sees(p, h)'
  <2>1. h \in held[p] /\ Sees(p, h)
    BY <1>1 DEF SeesOK
  <2> QED
    BY <1>1, <2>1, SeesStays
<1> QED
  BY <1>1 DEF SeesOK

(* The end of a process that asked for too much, or followed address 0.    *)
LEMMA EndsStep ==
  ASSUME IInv, NEW p \in Procs, Ready(p, "idle"), NEW how \in {"ended", "corrupt"},
         End(p, how), NEW g \in HeapState, heap' = [heap EXCEPT ![p] = g],
         UNCHANGED <<phys, shares, kblocks, held, leaked, panic>>
  PROVE  IInv' /\ Apart(p) /\ Steady(p)
<1> DEFINE c == [Idle(p) EXCEPT !.step = how]
<1>1. /\ TypeOK /\ Counted(phys, LowFrames) /\ Local(p) /\ ClaimsOK /\ ListOK /\ PrivateOK
      /\ \A q \in Procs : Local(q)
  BY DEF IInv
<1>2. /\ phys' = phys /\ shares' = shares /\ kblocks' = kblocks
      /\ held' = held /\ leaked' = leaked /\ panic' = panic
      /\ call' = [call EXCEPT ![p] = c]
  BY DEF End
<1>3. c \in CallState /\ c.step = how /\ c.va = 0 /\ c.frames = <<>>
  <2>1. how \in Steps
    BY DEF Steps
  <2> QED
    BY <2>1, IdleIs
<1> HIDE DEF c
<1>4. /\ heap' \in [Procs -> HeapState] /\ call' \in [Procs -> CallState]
      /\ call'[p] = c /\ \A q \in Procs \ {p} : call'[q] = call[q] /\ heap'[q] = heap[q]
  BY <1>1, <1>2, <1>3, TypeFacts
<1>5. call[p].frames = <<>> /\ call[p].va = 0
  BY <1>1, IdleNow
<1>6. Apart(p) /\ ListGrows(p) /\ ClaimsKept
  <2>1. \A q \in Procs : /\ call'[q].frames = call[q].frames
                         /\ call[q].frames # <<>> => call'[q].va = call[q].va
    BY <1>3, <1>4, <1>5
  <2> QED
    BY <1>2, <1>4, <2>1, SameList DEF Apart
<1>7. LowFrames' = LowFrames
  BY <1>6, ClaimsKeptIs
<1>8. TypeOK'
  BY <1>1, <1>2, <1>4 DEF TypeOK, CallState
<1>9. Counted(phys', LowFrames')
  BY <1>1, <1>2, <1>7
<1>10. Local(p)'
  <2>1. CallOK(p)'
    BY <1>3, <1>4 DEF CallOK, InCall, Creating
  <2>2. ~Live(p)'
    BY <1>3, <1>4 DEF Live
  <2>3. HeapOK(p)'
    BY <1>1, <1>2, <2>2 DEF Local, HeapOK
  <2>4. PagesOK(p)'
    BY <1>1, <1>2, <1>3, <1>4, <1>7, <2>2 DEF Local, PagesOK, FrameAt
  <2>5. SeesOK(p)'
    BY <1>1, <1>2 DEF Local, SeesOK, Sees, FindShare
  <2> QED
    BY <2>1, <2>3, <2>4, <2>5 DEF Local
<1>11. ClaimsOK' /\ PrivateOK'
  <2>1. \A q \in Procs : \A h \in held[q] : Span(h.va, h.size) \subseteq Pages
    BY <1>1 DEF Local, HeapOK
  <2> QED
    BY <1>1, <1>2, <1>6, <2>1, ApartKept DEF FrameAt
<1>12. ListOK'
  BY <1>1, <1>2, ListKept
<1> QED
  BY <1>2, <1>6, <1>7, <1>8, <1>9, <1>10, <1>11, <1>12, Together DEF Steady

(* The regions that Grants describes: what HeapOK says of them.            *)
LEMMA GrantedHeap ==
  ASSUME TypeOK, NEW p \in Procs, HeapOK(p), Live(p), ~InCall(p),
         NEW n \in 1..MaxPages, NEW a, NEW g, NEW s, Grants(p, n, a, g, s)
  PROVE  /\ {r.va : r \in UsedIn(g.regions)} = Causes(p) \cup {a}
         /\ \A h \in held[p] : Extent(h) \in UsedIn(g.regions) /\ h.va # a
         /\ InUse(a, n) \in UsedIn(g.regions)
         /\ a \notin leaked[p]
<1>1. /\ UsedIn(g.regions) = Used(p) \cup {InUse(a, n)}
      /\ \A x \in Used(p) : x.va # a
  BY DEF Grants
<1>2. {r.va : r \in Used(p)} = Causes(p) /\ \A h \in held[p] : Extent(h) \in Used(p)
  BY DEF HeapOK
<1>3. InUse(a, n).va = a /\ \A h : Extent(h).va = h.va
  BY DEF InUse, Extent
<1>4. {r.va : r \in UsedIn(g.regions)} = Causes(p) \cup {a}
  BY <1>1, <1>2, <1>3
<1>5. a \notin Causes(p)
  BY <1>1, <1>2
<1> QED
  BY <1>1, <1>2, <1>3, <1>4, <1>5 DEF Causes

(* malloc gives a region to its client.                                    *)
LEMMA TakeStep ==
  ASSUME IInv, NEW p \in Procs, Ready(p, "idle"), NEW n \in 1..MaxPages,
         NEW a, NEW g, Grants(p, n, a, g, phys'),
         heap' = [heap EXCEPT ![p] = g],
         held' = [held EXCEPT ![p] = @ \cup
                    {[va |-> a, size |-> n, use |-> "private",
                      owner |-> p, name |-> NoName]}],
         UNCHANGED <<call, shares, kblocks, leaked, panic>>
  PROVE  IInv' /\ Apart(p) /\ Steady(p)
<1> DEFINE k == [va |-> a, size |-> n, use |-> "private", owner |-> p, name |-> NoName]
<1>1. /\ TypeOK /\ Counted(phys, LowFrames) /\ Local(p) /\ ClaimsOK /\ ListOK /\ PrivateOK
      /\ \A q \in Procs : Local(q)
  BY DEF IInv
<1>2. /\ call' = call /\ shares' = shares /\ kblocks' = kblocks
      /\ leaked' = leaked /\ panic' = panic
  OBVIOUS
<1>3. /\ k.va = a /\ k.size = n /\ k.use = "private" /\ Extent(k) = InUse(a, n)
  BY DEF Extent
<1>4. k \in Holding
  BY DEF Grants, Holding
<1> HIDE DEF k
<1>5. /\ heap' \in [Procs -> HeapState] /\ held' \in [Procs -> SUBSET Holding]
      /\ heap'[p] = g /\ held'[p] = held[p] \cup {k}
      /\ \A q \in Procs \ {p} : held'[q] = held[q] /\ heap'[q] = heap[q]
  <2>1. g \in HeapState /\ held' = [held EXCEPT ![p] = held[p] \cup {k}]
    BY DEF Grants, k
  <2>2. held[p] \cup {k} \in SUBSET Holding
    BY <1>1, <1>4, TypeFacts
  <2> QED
    BY <1>1, <2>1, <2>2, TypeFacts
<1>6. /\ call[p].frames = <<>> /\ call[p].va = 0 /\ Live(p) /\ ~InCall(p)
  BY <1>1, IdleNow
<1>7. /\ Apart(p) /\ ListGrows(p) /\ ClaimsKept
      /\ \A o, m : FindShare(o, m)' = FindShare(o, m)
  BY <1>2, <1>5, SameList DEF Apart, Grants
<1>8. LowFrames' = LowFrames
  BY <1>7, ClaimsKeptIs
<1>9. Counted(phys', LowFrames') /\ phys' \in PhysState
  BY <1>8 DEF Grants, Counted
<1>10. TypeOK'
  BY <1>1, <1>2, <1>5, <1>9 DEF TypeOK, PhysState
<1>11. \A h \in held[p] : /\ Span(h.va, h.size) \subseteq Pages
                          /\ \A b \in Span(h.va, h.size) : phys'.pte[p][b] = phys.pte[p][b]
  <2>1. \A h \in held[p] : Span(h.va, h.size) \subseteq Pages
    BY <1>1 DEF Local, HeapOK
  <2> QED
    BY <2>1 DEF Grants
<1>12. Steady(p)
  BY <1>11 DEF Steady
<1>13. Local(p)'
  <2>1. CallOK(p)'
    BY <1>1, <1>2, <1>6, <1>7 DEF Local, CallOK, InCall, Creating, Live
  <2>2. HeapOK(p)'
    <3>1. /\ {r.va : r \in UsedIn(g.regions)} = Causes(p) \cup {a}
          /\ \A h \in held[p] : Extent(h) \in UsedIn(g.regions) /\ h.va # a
          /\ InUse(a, n) \in UsedIn(g.regions)
          /\ a \notin leaked[p] /\ HeapOK(p)
      BY <1>1, <1>6, GrantedHeap DEF Local
    <3>2. Used(p)' = UsedIn(g.regions)
      BY <1>5 DEF Used
    <3>3. Causes(p)' = Causes(p) \cup {a}
      <4>1. {h.va : h \in held'[p]} = {h.va : h \in held[p]} \cup {a}
        BY <1>3, <1>5
      <4>2. ~InCall(p)'
        BY <1>2, <1>6 DEF InCall
      <4> QED
        BY <1>2, <1>6, <4>1, <4>2 DEF Causes
    <3>4. Tiled(heap'[p]) /\ heap'[p].break < HeapMax /\ a # 0 /\ Span(a, n) \subseteq Pages
      BY <1>5 DEF Grants
    <3>5. ASSUME NEW h \in held'[p]
          PROVE  /\ Span(h.va, h.size) \subseteq Pages
                 /\ Extent(h) \in Used(p)'
                 /\ h.va \notin leaked'[p] /\ h.va # call'[p].va
                 /\ \A m \in held'[p] : h.va = m.va => h = m
      <4>1. CASE h = k
        BY <1>2, <1>3, <1>5, <1>6, <3>1, <3>2, <3>4, <4>1
      <4>2. CASE h \in held[p]
        BY <1>2, <1>3, <1>5, <1>6, <1>11, <3>1, <3>2, <3>4, <4>2 DEF HeapOK
      <4> QED
        BY <1>5, <4>1, <4>2
    <3>6. ~InCall(p)'
      BY <1>2, <1>6 DEF InCall
    <3> QED
      BY <3>1, <3>2, <3>3, <3>4, <3>5, <3>6 DEF HeapOK
  <2>3. PagesOK(p)'
    <3>1. \A b \in Pages : FrameAt(p, b)' = FrameAt(p, b)
      BY DEF Grants, FrameAt
    <3>2. HeapStart..(HeapMax - 1) \subseteq Pages /\ 0..(HeapStart - 1) \subseteq Pages
      BY PhysConstants DEF Pages
    <3>3. \A b \in HeapStart..(HeapMax - 1) : FrameAt(p, b)' # NoFrame =>
            \E h \in held'[p] : b \in Span(h.va, h.size)
      BY <1>1, <1>5, <1>6, <3>1, <3>2 DEF Local, PagesOK
    <3>4. \A b \in 0..(HeapStart - 1) : FrameAt(p, b)' # NoFrame => FrameAt(p, b)' \in LowFrames
      BY <1>1, <3>1, <3>2 DEF Local, PagesOK
    <3> QED
      BY <1>2, <1>6, <1>8, <3>3, <3>4 DEF PagesOK
  <2>4. SeesOK(p)'
    BY <1>1, <1>3, <1>5, <1>7, <1>11, SeesKept DEF Local
  <2> QED
    BY <2>1, <2>2, <2>3, <2>4 DEF Local
<1>14. ClaimsOK' /\ PrivateOK'
  <2>1. \A q \in Procs : \A h \in held[q] : Span(h.va, h.size) \subseteq Pages
    BY <1>1 DEF Local, HeapOK
  <2>2. \A h \in held'[p] : Span(h.va, h.size) \subseteq Pages
    BY <1>13 DEF Local, HeapOK
  <2>3. \A q \in Procs, b \in Pages : FrameAt(q, b)' = FrameAt(q, b)
    BY DEF Grants, FrameAt
  <2>4. \A b \in Span(a, n) : FrameAt(p, b) = NoFrame
    BY DEF Grants, FrameAt
  <2>5. phys'.refs = phys.refs
    BY DEF Grants
  <2> QED
    BY <1>1, <1>3, <1>5, <1>7, <2>1, <2>2, <2>3, <2>4, <2>5, ApartKept
<1>15. ListOK'
  BY <1>1, <1>2, <1>3, <1>5, ListKept
<1> QED
  BY <1>7, <1>8, <1>9, <1>10, <1>12, <1>13, <1>14, <1>15, Together

(* smalloc and sget go on in the kernel with a region of their own.        *)
LEMMA CallStep ==
  ASSUME IInv, NEW p \in Procs, Ready(p, "idle"), NEW n \in 1..MaxPages,
         NEW a, NEW g, Grants(p, n, a, g, phys'),
         heap' = [heap EXCEPT ![p] = g],
         NEW c \in CallState, call' = [call EXCEPT ![p] = c],
         c.step \in {"lookup", "get"}, c.va = a, c.size = n, c.name \in Names,
         c.frames = <<>>, c.step = "lookup" => c.owner = p,
         c.step = "get" => \E i \in FindShare(c.owner, c.name) : shares[i].size = n,
         UNCHANGED <<shares, kblocks, held, leaked, panic>>
  PROVE  IInv' /\ Apart(p) /\ Steady(p)
<1>1. /\ TypeOK /\ Counted(phys, LowFrames) /\ Local(p) /\ ClaimsOK /\ ListOK /\ PrivateOK
      /\ \A q \in Procs : Local(q)
  BY DEF IInv
<1>2. /\ held' = held /\ shares' = shares /\ kblocks' = kblocks
      /\ leaked' = leaked /\ panic' = panic
  OBVIOUS
<1>3. /\ heap' \in [Procs -> HeapState] /\ call' \in [Procs -> CallState]
      /\ heap'[p] = g /\ call'[p] = c
      /\ \A q \in Procs \ {p} : call'[q] = call[q] /\ heap'[q] = heap[q]
  <2>1. g \in HeapState
    BY DEF Grants
  <2> QED
    BY <1>1, <2>1, TypeFacts
<1>4. /\ call[p].frames = <<>> /\ call[p].va = 0 /\ Live(p) /\ ~InCall(p)
  BY <1>1, IdleNow
<1>5. Live(p)' /\ InCall(p)' /\ ~Creating(p)'
  BY <1>3 DEF Live, InCall, Creating
<1>6. Apart(p)
  BY <1>2, <1>3 DEF Apart, Grants
<1>7. /\ ListGrows(p) /\ ClaimsKept
      /\ \A o, m : FindShare(o, m)' = FindShare(o, m)
  <2>1. \A q \in Procs : /\ call'[q].frames = call[q].frames
                         /\ call[q].frames # <<>> => call'[q].va = call[q].va
    BY <1>3, <1>4
  <2> QED
    BY <1>2, <2>1, SameList
<1>8. LowFrames' = LowFrames
  BY <1>7, ClaimsKeptIs
<1>9. Counted(phys', LowFrames') /\ phys' \in PhysState
  BY <1>8 DEF Grants, Counted
<1>10. TypeOK'
  BY <1>1, <1>2, <1>3, <1>9 DEF TypeOK, PhysState, CallState
<1>11. \A h \in held[p] : /\ Span(h.va, h.size) \subseteq Pages
                          /\ \A b \in Span(h.va, h.size) : phys'.pte[p][b] = phys.pte[p][b]
  <2>1. \A h \in held[p] : Span(h.va, h.size) \subseteq Pages
    BY <1>1 DEF Local, HeapOK
  <2> QED
    BY <2>1 DEF Grants
<1>12. Steady(p)
  BY <1>11 DEF Steady
<1>13. Local(p)'
  <2>1. CallOK(p)'
    <3>1. a # 0 /\ c.size >= 1
      BY SharedMemConstants DEF Grants
    <3>2. c.step = "get" =>
            \E i \in FindShare(c.owner, c.name)' : shares'[i].size = c.size
      BY <1>2, <1>7
    <3> QED
      BY <1>3, <1>5, <3>1, <3>2 DEF CallOK
  <2>2. HeapOK(p)'
    <3>1. /\ {r.va : r \in UsedIn(g.regions)} = Causes(p) \cup {a}
          /\ \A h \in held[p] : Extent(h) \in UsedIn(g.regions) /\ h.va # a
          /\ InUse(a, n) \in UsedIn(g.regions)
          /\ a \notin leaked[p] /\ HeapOK(p)
      BY <1>1, <1>4, GrantedHeap DEF Local
    <3>2. Used(p)' = UsedIn(g.regions)
      BY <1>3 DEF Used
    <3>3. Tiled(heap'[p]) /\ heap'[p].break < HeapMax /\ a # 0
      BY <1>3 DEF Grants
    <3>4. Causes(p)' = Causes(p) \cup {a}
      BY <1>2, <1>3, <1>4, <1>5, <3>3 DEF Causes
    <3>5. Extent(call[p])' = InUse(a, n)
      BY <1>3 DEF Extent
    <3> QED
      BY <1>2, <1>3, <1>4, <3>1, <3>2, <3>3, <3>4, <3>5 DEF HeapOK
  <2>3. PagesOK(p)'
    <3>1. \A b \in Pages : FrameAt(p, b)' = FrameAt(p, b)
      BY DEF Grants, FrameAt
    <3>2. HeapStart..(HeapMax - 1) \subseteq Pages /\ 0..(HeapStart - 1) \subseteq Pages
      BY PhysConstants DEF Pages
    <3>3. \A b \in HeapStart..(HeapMax - 1) : FrameAt(p, b)' # NoFrame =>
            \E h \in held'[p] : b \in Span(h.va, h.size)
      BY <1>1, <1>2, <1>4, <3>1, <3>2 DEF Local, PagesOK
    <3>4. \A b \in 0..(HeapStart - 1) : FrameAt(p, b)' # NoFrame => FrameAt(p, b)' \in LowFrames
      BY <1>1, <3>1, <3>2 DEF Local, PagesOK
    <3>5. Len(call'[p].frames) = 0
      BY <1>3
    <3> QED
      BY <1>8, <3>3, <3>4, <3>5 DEF PagesOK
  <2>4. SeesOK(p)'
    BY <1>1, <1>2, <1>7, <1>11, SeesKept DEF Local
  <2> QED
    BY <2>1, <2>2, <2>3, <2>4 DEF Local
<1>14. ClaimsOK' /\ PrivateOK'
  <2>1. \A q \in Procs : \A h \in held[q] : Span(h.va, h.size) \subseteq Pages
    BY <1>1 DEF Local, HeapOK
  <2>2. \A q \in Procs, b \in Pages : FrameAt(q, b)' = FrameAt(q, b)
    BY DEF Grants, FrameAt
  <2>3. phys'.refs = phys.refs
    BY DEF Grants
  <2> QED
    BY <1>1, <1>2, <1>6, <1>7, <2>1, <2>2, <2>3, ApartKept
<1>15. ListOK'
  BY <1>1, <1>2, ListKept
<1> QED
  BY <1>6, <1>7, <1>8, <1>9, <1>10, <1>12, <1>13, <1>14, <1>15, Together

(* smalloc goes on with the address 0.                                     *)
LEMMA NoBlockStep ==
  ASSUME IInv, NEW p \in Procs, Ready(p, "idle"),
         NEW c \in CallState, call' = [call EXCEPT ![p] = c],
         c.step = "lookup", c.va = 0, c.size >= 1, c.name \in Names,
         c.frames = <<>>, c.owner = p,
         UNCHANGED <<phys, heap, shares, kblocks, held, leaked, panic>>
  PROVE  IInv' /\ Apart(p) /\ Steady(p)
<1>1. /\ TypeOK /\ Counted(phys, LowFrames) /\ Local(p) /\ ClaimsOK /\ ListOK /\ PrivateOK
      /\ \A q \in Procs : Local(q)
  BY DEF IInv
<1>2. /\ held' = held /\ shares' = shares /\ kblocks' = kblocks
      /\ leaked' = leaked /\ panic' = panic /\ phys' = phys /\ heap' = heap
  OBVIOUS
<1>3. /\ call' \in [Procs -> CallState] /\ call'[p] = c
      /\ \A q \in Procs \ {p} : call'[q] = call[q]
  BY <1>1, TypeFacts
<1>4. /\ call[p].frames = <<>> /\ call[p].va = 0 /\ Live(p) /\ ~InCall(p)
  BY <1>1, IdleNow
<1>5. Live(p)' /\ InCall(p)' /\ ~Creating(p)'
  BY <1>3 DEF Live, InCall, Creating
<1>6. Apart(p)
  BY <1>2, <1>3 DEF Apart
<1>7. /\ ListGrows(p) /\ ClaimsKept
      /\ \A o, m : FindShare(o, m)' = FindShare(o, m)
  <2>1. \A q \in Procs : /\ call'[q].frames = call[q].frames
                         /\ call[q].frames # <<>> => call'[q].va = call[q].va
    BY <1>3, <1>4
  <2> QED
    BY <1>2, <2>1, SameList
<1>8. LowFrames' = LowFrames
  BY <1>7, ClaimsKeptIs
<1>9. Counted(phys', LowFrames')
  BY <1>1, <1>2, <1>8
<1>10. TypeOK'
  BY <1>1, <1>2, <1>3 DEF TypeOK, CallState
<1>11. Local(p)'
  <2>1. CallOK(p)'
    BY <1>3, <1>5 DEF CallOK
  <2>2. HeapOK(p)'
    <3>1. Causes(p)' = Causes(p)
      BY <1>2, <1>3, <1>4, <1>5 DEF Causes
    <3> QED
      BY <1>1, <1>2, <1>3, <1>4, <3>1 DEF Local, HeapOK, Used
  <2>3. PagesOK(p)'
    BY <1>1, <1>2, <1>3, <1>4, <1>8 DEF Local, PagesOK, FrameAt
  <2>4. SeesOK(p)'
    BY <1>1, <1>2, <1>7, SeesKept DEF Local
  <2> QED
    BY <2>1, <2>2, <2>3, <2>4 DEF Local
<1>12. ClaimsOK' /\ PrivateOK'
  <2>1. \A q \in Procs : \A h \in held[q] : Span(h.va, h.size) \subseteq Pages
    BY <1>1 DEF Local, HeapOK
  <2> QED
    BY <1>1, <1>2, <1>6, <1>7, <2>1, ApartKept DEF FrameAt
<1>13. ListOK'
  BY <1>1, <1>2, ListKept
<1> QED
  BY <1>2, <1>6, <1>7, <1>8, <1>9, <1>10, <1>11, <1>12, <1>13, Together DEF Steady

(* Two regions that a client holds do not overlap.                         *)
LEMMA HeldApart ==
  ASSUME TypeOK, NEW p \in Procs, HeapOK(p), Live(p),
         NEW h \in held[p], NEW k \in held[p], NEW b,
         b \in Span(h.va, h.size), b \in Span(k.va, k.size)
  PROVE  h = k
<1>1. /\ InUse(h.va, h.size) \in UsedIn(heap[p].regions)
      /\ InUse(k.va, k.size) \in UsedIn(heap[p].regions)
      /\ Tiled(heap[p]) /\ heap[p].break < HeapMax
      /\ h.va = k.va => h = k
  BY DEF HeapOK, Used, Extent
<1>2. heap[p] \in HeapState
  BY TypeFacts
<1>3. h.va = k.va
  BY <1>1, <1>2, RegionPages
<1> QED
  BY <1>1, <1>3

(* free.                                                                   *)
LEMMA FreeStep ==
  ASSUME IInv, NEW p \in Procs, NEW h \in held[p], Free(p, h)
  PROVE  IInv' /\ Apart(p) /\ Steady(p)
<1> DEFINE u == Extent(h)
           g == FreeRegion(heap[p], h.va)
<1>1. /\ TypeOK /\ Counted(phys, LowFrames) /\ Local(p) /\ ClaimsOK /\ ListOK /\ PrivateOK
      /\ \A q \in Procs : Local(q)
  BY DEF IInv
<1>2. /\ Ready(p, "idle") /\ h.use = "private"
      /\ phys' = FreeUserMem(phys, p, h.va, h.size)
      /\ heap' = [heap EXCEPT ![p] = g]
      /\ held' = [held EXCEPT ![p] = held[p] \ {h}]
      /\ shares' = shares /\ kblocks' = kblocks /\ call' = call
      /\ leaked' = leaked /\ panic' = panic
  BY DEF Free
<1>3. /\ call[p].frames = <<>> /\ call[p].va = 0 /\ Live(p) /\ ~InCall(p)
  BY <1>1, <1>2, IdleNow
<1>4. /\ HeapOK(p) /\ Tiled(heap[p]) /\ heap[p].break < HeapMax
      /\ heap[p] \in HeapState /\ u \in UsedIn(heap[p].regions)
      /\ u = InUse(h.va, h.size) /\ u.va = h.va
      /\ {r.va : r \in Used(p)} = Causes(p)
  BY <1>1, <1>3, TypeFacts DEF Local, HeapOK, Extent, InUse, Used
<1> HIDE DEF u
<1>5. /\ h.va \in Nat /\ h.size \in Nat /\ Span(h.va, h.size) \subseteq Pages
      /\ \A r \in UsedIn(heap[p].regions) : r.va = h.va => r = u
  BY <1>4, RegionPages
<1>6. /\ g \in HeapState /\ Tiled(g) /\ g.break <= heap[p].break
      /\ UsedIn(g.regions) = UsedIn(heap[p].regions) \ {u}
  BY <1>4, FreeIs
<1> HIDE DEF g
<1>7. g.break < HeapMax
  BY <1>4, <1>6, UserHeapConstants DEF HeapState
<1>8. /\ Counted(phys', LowFrames) /\ Elsewhere(phys, phys', p, h.va, h.size)
      /\ \A b \in Span(h.va, h.size) : phys'.pte[p][b] = Empty
      /\ \A f \in FrameNums : (\A b \in Span(h.va, h.size) : phys.pte[p][b].frame # f)
                                => phys'.refs[f] = phys.refs[f]
  BY <1>1, <1>2, <1>5, FreeUserMemIs
<1>9. phys \in PhysState /\ phys' \in PhysState
  BY <1>1, <1>8 DEF Counted
<1>10. /\ \A q \in Procs \ {p} : phys'.pte[q] = phys.pte[q]
       /\ \A b \in Pages : b \notin Span(h.va, h.size) => phys'.pte[p][b] = phys.pte[p][b]
       /\ \A b \in Span(h.va, h.size) : phys'.pte[p][b].frame = NoFrame
  <2>1. \A q \in Procs \ {p} : phys'.pte[q] = phys.pte[q]
    BY <1>8, <1>9, RowSame
  <2>2. \A b \in Pages : b \notin Span(h.va, h.size) => phys'.pte[p][b] = phys.pte[p][b]
    BY <1>8 DEF Elsewhere
  <2>3. Empty.frame = NoFrame
    BY DEF Empty
  <2> QED
    BY <1>8, <2>1, <2>2, <2>3
<1>11. /\ heap' \in [Procs -> HeapState] /\ held' \in [Procs -> SUBSET Holding]
       /\ heap'[p] = g /\ held'[p] = held[p] \ {h}
       /\ \A q \in Procs \ {p} : held'[q] = held[q] /\ heap'[q] = heap[q]
  <2>1. held[p] \ {h} \in SUBSET Holding
    BY <1>1, TypeFacts
  <2> QED
    BY <1>1, <1>2, <1>6, <2>1, TypeFacts
<1>12. /\ Apart(p) /\ ListGrows(p) /\ ClaimsKept
       /\ \A o, m : FindShare(o, m)' = FindShare(o, m)
  BY <1>2, <1>10, <1>11, SameList DEF Apart
<1>13. LowFrames' = LowFrames
  BY <1>12, ClaimsKeptIs
<1>14. TypeOK'
  BY <1>1, <1>2, <1>9, <1>11 DEF TypeOK, PhysState
<1>15. \A k \in held'[p] : /\ Span(k.va, k.size) \subseteq Pages
                           /\ \A b \in Span(k.va, k.size) : phys'.pte[p][b] = phys.pte[p][b]
  <2>1. ASSUME NEW k \in held'[p], NEW b \in Span(k.va, k.size)
        PROVE  b \in Pages /\ phys'.pte[p][b] = phys.pte[p][b]
    <3>1. k \in held[p] /\ k # h
      BY <1>11
    <3>2. b \in Pages
      BY <1>4, <3>1 DEF HeapOK
    <3>3. b \notin Span(h.va, h.size)
      BY <1>1, <1>3, <1>4, <3>1, HeldApart
    <3> QED
      BY <1>10, <3>2, <3>3
  <2> QED
    BY <2>1
<1>16. Steady(p)
  BY <1>15 DEF Steady
<1>17. Local(p)'
  <2>1. CallOK(p)'
    BY <1>1, <1>2, <1>3, <1>12 DEF Local, CallOK, InCall, Creating, Live
  <2>2. HeapOK(p)'
    <3>1. Used(p)' = Used(p) \ {u}
      BY <1>6, <1>11 DEF Used
    <3>2. {r.va : r \in Used(p)'} = Causes(p) \ {h.va}
      <4>1. \A r \in Used(p) : r.va = h.va <=> r = u
        BY <1>4, <1>5 DEF Used
      <4> QED
        BY <1>4, <3>1, <4>1
    <3>3. \A k \in held[p] : /\ Extent(k) \in Used(p) /\ k.va \notin leaked[p]
                             /\ \A m \in held[p] : k.va = m.va => k = m
                             /\ k.va # call[p].va
      BY <1>3, <1>4 DEF HeapOK
    <3>4. Causes(p)' = Causes(p) \ {h.va}
      <4>1. {k.va : k \in held'[p]} = {k.va : k \in held[p]} \ {h.va}
        BY <1>11, <3>3
      <4>2. ~InCall(p)'
        BY <1>2, <1>3 DEF InCall
      <4> QED
        BY <1>2, <1>3, <3>3, <4>1, <4>2 DEF Causes
    <3>5. \A k \in held'[p] : Extent(k) \in Used(p)'
      <4>1. \A k \in held'[p] : Extent(k).va # u.va
        <5>1. \A k : Extent(k).va = k.va
          BY DEF Extent, InUse
        <5> QED
          BY <1>4, <1>11, <3>3, <5>1
      <4> QED
        BY <1>11, <3>1, <3>3, <4>1
    <3>6. ~InCall(p)'
      BY <1>2, <1>3 DEF InCall
    <3> QED
      BY <1>2, <1>6, <1>7, <1>11, <1>15, <3>2, <3>3, <3>4, <3>5, <3>6 DEF HeapOK
  <2>3. PagesOK(p)'
    <3>1. \A b \in Pages : FrameAt(p, b)' # NoFrame =>
            FrameAt(p, b)' = FrameAt(p, b) /\ b \notin Span(h.va, h.size)
      BY <1>10 DEF FrameAt
    <3>2. HeapStart..(HeapMax - 1) \subseteq Pages /\ 0..(HeapStart - 1) \subseteq Pages
      BY PhysConstants DEF Pages
    <3>3. \A b \in HeapStart..(HeapMax - 1) : FrameAt(p, b)' # NoFrame =>
            \E k \in held'[p] : b \in Span(k.va, k.size)
      BY <1>1, <1>3, <1>11, <3>1, <3>2 DEF Local, PagesOK
    <3>4. \A b \in 0..(HeapStart - 1) : FrameAt(p, b)' # NoFrame => FrameAt(p, b)' \in LowFrames
      BY <1>1, <3>1, <3>2 DEF Local, PagesOK
    <3> QED
      BY <1>2, <1>3, <1>13, <3>3, <3>4 DEF PagesOK
  <2>4. SeesOK(p)'
    BY <1>1, <1>11, <1>12, <1>15, SeesKept DEF Local
  <2> QED
    BY <2>1, <2>2, <2>3, <2>4 DEF Local
<1>18. ClaimsOK'
  <2>1. ASSUME NEW f, Claimed(f)
        PROVE  phys'.refs[f] # 0
    <3>1. f \in FrameNums /\ f # NoFrame /\ phys.refs[f] # 0
      BY <1>1, <2>1, PhysConstants DEF ClaimsOK
    <3>2. \A b \in Span(h.va, h.size) : phys.pte[p][b].frame # f
      BY <1>1, <1>2, <2>1, <3>1 DEF PrivateOK, FrameAt
    <3> QED
      BY <1>8, <3>1, <3>2
  <2> QED
    BY <1>1, <1>12, <2>1, ClaimsOKKept
<1>19. PrivateOK'
  <2>1. \A q \in Procs, b \in Pages : FrameAt(q, b)' # NoFrame =>
          FrameAt(q, b)' = FrameAt(q, b)
    BY <1>10 DEF FrameAt
  <2>2. ASSUME NEW q \in Procs, NEW k \in held'[q], k.use = "private",
               NEW a \in Span(k.va, k.size), FrameAt(q, a)' # NoFrame
        PROVE  /\ ~Claimed(FrameAt(q, a))'
               /\ \A o \in Procs, b \in Pages : FrameAt(o, b)' = FrameAt(q, a)' => o = q /\ b = a
    <3>1. k \in held[q]
      BY <1>11, <2>2
    <3>2. a \in Pages
      BY <1>1, <3>1, <2>2 DEF Local, HeapOK
    <3>3. FrameAt(q, a)' = FrameAt(q, a)
      BY <2>1, <2>2, <3>2
    <3>4. /\ ~Claimed(FrameAt(q, a))
          /\ \A o \in Procs, b \in Pages : FrameAt(o, b) = FrameAt(q, a) => o = q /\ b = a
      BY <1>1, <2>2, <3>1, <3>3 DEF PrivateOK
    <3> QED
      BY <1>12, <2>1, <2>2, <3>3, <3>4, ClaimsKeptIs
  <2> QED
    BY <2>2 DEF PrivateOK
<1>20. ListOK'
  BY <1>1, <1>2, <1>11, ListKept
<1> QED
  BY <1>8, <1>12, <1>13, <1>14, <1>16, <1>17, <1>18, <1>19, <1>20, Together

(* What a client holds of an object is mapped.                             *)
LEMMA ObjectPages ==
  ASSUME TypeOK, ClaimsOK, ListOK, NEW p \in Procs, SeesOK(p),
         NEW h \in held[p], h.use # "private", NEW a \in Span(h.va, h.size)
  PROVE  FrameAt(p, a) # NoFrame
<1>1. PICK i \in FindShare(h.owner, h.name) :
        /\ shares[i].size = h.size
        /\ \A j \in 1..h.size : phys.pte[p][h.va + j - 1].frame = shares[i].frames[j]
  BY DEF SeesOK, Sees
<1>2. i \in DOMAIN shares
  BY <1>1 DEF FindShare
<1>3. /\ shares[i].frames \in Seq(FrameNums) /\ Len(shares[i].frames) = h.size
      /\ h.size \in Nat /\ h.va \in Nat
  <2>1. h \in Holding
    BY TypeFacts
  <2>2. h.size \in Nat /\ h.va \in Nat
    <3>1. h.size \in 1..MaxPages /\ h.va \in Pages
      BY <2>1 DEF Holding
    <3>2. h.size \in Nat
      BY <3>1, SharedMemConstants
    <3>3. h.va \in Nat
      BY <3>1, PhysConstants
    <3> QED
      BY <3>2, <3>3
  <2>3. Len(shares[i].frames) = shares[i].size
    BY <1>2 DEF ListOK
  <2>4. shares[i].frames \in Seq(FrameNums)
    BY <1>2, TypeFacts
  <2> QED
    BY <1>1, <2>2, <2>3, <2>4
<1> DEFINE j == a - h.va + 1
<1>4. j \in 1..h.size /\ h.va + j - 1 = a
  BY <1>3 DEF Span
<1> HIDE DEF j
<1>5. FrameAt(p, a) = shares[i].frames[j]
  BY <1>1, <1>4 DEF FrameAt
<1>6. shares[i].frames[j] \in Range(shares[i].frames)
  BY <1>3, <1>4, LenProperties DEF Range
<1>7. Claimed(shares[i].frames[j])
  BY <1>2, <1>6 DEF Claimed
<1> QED
  BY <1>5, <1>7, PhysConstants DEF ClaimsOK

(* No page maps a free frame, no object claims it.                         *)
LEMMA FreshFrame ==
  ASSUME NEW low, Counted(phys, low), ClaimsOK,
         NEW f \in FrameNums \ Reserved(KernelEnd), phys.refs[f] = 0
  PROVE  ~Claimed(f) /\ \A q \in Procs, b \in Pages : FrameAt(q, b) # f
<1>1. f # NoFrame
  BY PhysConstants
<1>2. ASSUME NEW q \in Procs, NEW b \in Pages, FrameAt(q, b) = f
      PROVE  FALSE
  BY <1>1, <1>2, MappedFrame DEF FrameAt
<1> QED
  BY <1>2 DEF ClaimsOK

(* A free frame that one page gets is nobody else's.                       *)
LEMMA PrivateFresh ==
  ASSUME PrivateOK, NEW p \in Procs, NEW a \in Pages, NEW f, f # NoFrame,
         \A q \in Procs, b \in Pages : FrameAt(q, b) # f,
         \A q \in Procs, b \in Pages :
           ~(q = p /\ b = a) => FrameAt(q, b)' = FrameAt(q, b),
         FrameAt(p, a)' = f, held' = held,
         \A q \in Procs : \A h \in held[q] : Span(h.va, h.size) \subseteq Pages,
         ~Claimed(f),
         \A g : Claimed(g)' => \/ Claimed(g)
                               \/ g = f /\ \A h \in held[p] : a \notin Span(h.va, h.size)
  PROVE  PrivateOK'
<1>1. ASSUME NEW q \in Procs, NEW k \in held'[q], k.use = "private",
             NEW b \in Span(k.va, k.size), FrameAt(q, b)' # NoFrame
      PROVE  /\ ~Claimed(FrameAt(q, b))'
             /\ \A o \in Procs, c \in Pages : FrameAt(o, c)' = FrameAt(q, b)' => o = q /\ c = b
  <2>1. k \in held[q] /\ b \in Pages
    BY <1>1
  <2>2. CASE q = p /\ b = a
    <3>1. FrameAt(q, b)' = f
      BY <2>2
    <3>2. ~Claimed(FrameAt(q, b))'
      <4>1. ASSUME Claimed(FrameAt(q, b))' PROVE FALSE
        <5>1. \E g : g = FrameAt(q, b)' /\ Claimed(g)'
          BY <4>1 DEF Claimed
        <5> QED
          BY <2>1, <2>2, <3>1, <5>1
      <4> QED
        BY <4>1
    <3> QED
      BY <2>2, <3>1, <3>2
  <2>3. CASE ~(q = p /\ b = a)
    <3>1. FrameAt(q, b)' = FrameAt(q, b) /\ FrameAt(q, b) # f
      BY <2>1, <2>3
    <3>2. /\ ~Claimed(FrameAt(q, b))
          /\ \A o \in Procs, c \in Pages : FrameAt(o, c) = FrameAt(q, b) => o = q /\ c = b
      BY <1>1, <2>1, <3>1 DEF PrivateOK
    <3>3. ~Claimed(FrameAt(q, b))'
      <4>1. ASSUME Claimed(FrameAt(q, b))' PROVE FALSE
        <5>1. \E g : g = FrameAt(q, b)' /\ Claimed(g)'
          BY <4>1 DEF Claimed
        <5> QED
          BY <3>1, <3>2, <5>1
      <4> QED
        BY <4>1
    <3>4. \A o \in Procs, c \in Pages : FrameAt(o, c)' = FrameAt(q, b)' => o = q /\ c = b
      BY <3>1, <3>2
    <3> QED
      BY <3>3, <3>4
  <2> QED
    BY <2>2, <2>3
<1> QED
  BY <1>1 DEF PrivateOK

(* allocate_frame finds no frame: the kernel panics.                       *)
LEMMA PanicStep ==
  ASSUME IInv, NEW p \in Procs, panic' \in BOOLEAN,
         UNCHANGED <<phys, heap, shares, kblocks, call, held, leaked>>
  PROVE  IInv' /\ Apart(p) /\ Steady(p)
<1>1. /\ held' = held /\ shares' = shares /\ kblocks' = kblocks /\ call' = call
      /\ leaked' = leaked /\ phys' = phys /\ heap' = heap
  OBVIOUS
<1>2. TypeOK' /\ LowFrames' = LowFrames
  BY <1>1 DEF IInv, TypeOK, LowFrames
<1>3. Counted(phys', LowFrames')
  BY <1>1, <1>2 DEF IInv
<1>4. ASSUME NEW q \in Procs PROVE Local(q)'
  <2>1. Local(q)
    BY DEF IInv
  <2>2. CallOK(q)'
    BY <1>1, <2>1 DEF Local, CallOK, InCall, Creating, FindShare
  <2>3. HeapOK(q)'
    BY <1>1, <2>1 DEF Local, HeapOK, Live, Used, Causes, InCall
  <2>4. PagesOK(q)'
    BY <1>1, <1>2, <2>1 DEF Local, PagesOK, Live, FrameAt
  <2>5. SeesOK(q)'
    BY <1>1, <2>1 DEF Local, SeesOK, Sees, FindShare
  <2> QED
    BY <2>2, <2>3, <2>4, <2>5 DEF Local
<1>5. ClaimsOK'
  BY <1>1 DEF IInv, ClaimsOK, Claimed
<1>6. ListOK'
  BY <1>1 DEF IInv, ListOK, Getters
<1>7. PrivateOK'
  BY <1>1 DEF IInv, PrivateOK, FrameAt, Claimed
<1>8. Apart(p) /\ Steady(p)
  BY <1>1 DEF Apart, Steady
<1> QED
  BY <1>2, <1>3, <1>4, <1>5, <1>6, <1>7, <1>8 DEF IInv

(* The first use of a page of malloc.                                      *)
LEMMA TouchStep ==
  ASSUME IInv, NEW p \in Procs, NEW h \in held[p], NEW a \in Span(h.va, h.size),
         Touch(p, h, a)
  PROVE  IInv' /\ Apart(p) /\ Steady(p)
<1> DEFINE f == FirstFree(phys)
<1>1. /\ TypeOK /\ Counted(phys, LowFrames) /\ Local(p) /\ ClaimsOK /\ ListOK /\ PrivateOK
      /\ \A q \in Procs : Local(q)
  BY DEF IInv
<1>2. /\ Ready(p, "idle") /\ phys.pte[p][a].frame = NoFrame
      /\ panic' = OutOfMemory(phys)
      /\ panic' => phys' = phys
      /\ ~panic' => phys' = MapNewFrame(phys, p, a, TRUE)
      /\ heap' = heap /\ shares' = shares /\ kblocks' = kblocks /\ call' = call
      /\ held' = held /\ leaked' = leaked
  BY DEF Touch
<1>3. panic' \in BOOLEAN
  BY <1>2 DEF OutOfMemory
<1>4. CASE panic'
  BY <1>2, <1>3, <1>4, PanicStep
<1>5. CASE ~panic'
  <2>1. \A q \in Procs : \A k \in held[q] : Span(k.va, k.size) \subseteq Pages
    BY <1>1 DEF Local, HeapOK
  <2>2. a \in Pages
    BY <2>1
  <2>3. /\ Counted(phys', LowFrames) /\ Elsewhere(phys, phys', p, a, 1)
        /\ f \in FrameNums \ Reserved(KernelEnd) /\ phys.refs[f] = 0
        /\ phys'.pte[p][a].frame = f
        /\ \A g \in FrameNums : g # f => phys'.refs[g] = phys.refs[g]
    <3>1. ~OutOfMemory(phys)
      BY <1>2, <1>5
    <3> DEFINE w == TRUE
    <3>2. /\ phys' = MapNewFrame(phys, p, a, w) /\ phys.pte[p][a].frame = NoFrame
          /\ w \in BOOLEAN
      BY <1>2, <1>5
    <3> HIDE DEF w
    <3> QED
      BY <1>1, <2>2, <3>1, <3>2, NewFrameIs
  <2> HIDE DEF f
  <2>4. phys \in PhysState /\ phys' \in PhysState
    BY <1>1, <2>3 DEF Counted
  <2>5. \A b \in Pages : b \in Span(a, 1) <=> b = a
    BY <2>2, PhysConstants DEF Span
  <2>6. /\ \A q \in Procs \ {p} : phys'.pte[q] = phys.pte[q]
        /\ \A b \in Pages : b # a => phys'.pte[p][b] = phys.pte[p][b]
    <3>1. \A q \in Procs \ {p} : phys'.pte[q] = phys.pte[q]
      BY <2>3, <2>4, RowSame
    <3>2. \A b \in Pages : b # a => phys'.pte[p][b] = phys.pte[p][b]
      BY <2>3, <2>5 DEF Elsewhere
    <3> QED
      BY <3>1, <3>2
  <2>7. ~Claimed(f) /\ \A q \in Procs, b \in Pages : FrameAt(q, b) # f
    BY <1>1, <2>3, FreshFrame
  <2>8. /\ Apart(p) /\ ListGrows(p) /\ ClaimsKept
        /\ \A o, m : FindShare(o, m)' = FindShare(o, m)
    BY <1>2, <2>6, SameList DEF Apart
  <2>9. LowFrames' = LowFrames /\ \A g : Claimed(g)' <=> Claimed(g)
    BY <2>8, ClaimsKeptIs
  <2>10. TypeOK'
    BY <1>1, <1>2, <1>3, <2>4 DEF TypeOK, PhysState
  <2>11. Steady(p)
    BY <1>2, <2>1, <2>6 DEF Steady
  <2>12. \A k \in held[p] : k.use # "private" =>
           \A b \in Span(k.va, k.size) : phys'.pte[p][b] = phys.pte[p][b]
    <3>1. SeesOK(p)
      BY <1>1 DEF Local
    <3>2. \A k \in held[p] : k.use # "private" => a \notin Span(k.va, k.size)
      BY <1>1, <1>2, <3>1, ObjectPages DEF FrameAt
    <3> QED
      BY <2>1, <2>6, <3>2
  <2>13. Local(p)'
    <3>1. CallOK(p)'
      BY <1>1, <1>2, <2>8 DEF Local, CallOK, InCall, Creating
    <3>2. HeapOK(p)'
      BY <1>1, <1>2 DEF Local, HeapOK, Live, Used, Causes, InCall
    <3>3. PagesOK(p)'
      <4>1. HeapStart..(HeapMax - 1) \subseteq Pages /\ 0..(HeapStart - 1) \subseteq Pages
        BY PhysConstants DEF Pages
      <4>2. a \notin 0..(HeapStart - 1) /\ call[p].va = 0 /\ Live(p)
        <5>1. Live(p) /\ call[p].va = 0
          BY <1>1, <1>2, IdleNow
        <5>2. InUse(h.va, h.size) \in UsedIn(heap[p].regions) /\ Tiled(heap[p])
              /\ heap[p].break < HeapMax /\ heap[p] \in HeapState
          BY <1>1, <5>1, TypeFacts DEF Local, HeapOK, Extent, Used
        <5>3. a \in HeapStart..(HeapMax - 1)
          BY <5>2, RegionPages
        <5> QED
          BY <5>1, <5>3, PhysConstants
      <4>3. \A b \in HeapStart..(HeapMax - 1) : FrameAt(p, b)' # NoFrame =>
              \E k \in held'[p] : b \in Span(k.va, k.size)
        <5>1. ASSUME NEW b \in HeapStart..(HeapMax - 1), FrameAt(p, b)' # NoFrame
              PROVE  \E k \in held'[p] : b \in Span(k.va, k.size)
          <6>1. CASE b = a
            BY <1>2, <6>1
          <6>2. CASE b # a
            BY <1>1, <1>2, <2>6, <4>1, <4>2, <5>1, <6>2 DEF Local, PagesOK, FrameAt
          <6> QED
            BY <6>1, <6>2
        <5> QED
          BY <5>1
      <4>4. \A b \in 0..(HeapStart - 1) : FrameAt(p, b)' # NoFrame => FrameAt(p, b)' \in LowFrames
        BY <1>1, <2>6, <4>1, <4>2 DEF Local, PagesOK, FrameAt
      <4> QED
        BY <1>2, <2>9, <4>2, <4>3, <4>4 DEF PagesOK
    <3>4. SeesOK(p)'
      BY <1>1, <1>2, <2>8, <2>12, SeesKept DEF Local
    <3> QED
      BY <3>1, <3>2, <3>3, <3>4 DEF Local
  <2>14. ClaimsOK'
    <3>1. \A g : Claimed(g) => phys'.refs[g] # 0
      BY <1>1, <2>3, <2>7 DEF ClaimsOK
    <3> QED
      BY <1>1, <2>8, <3>1, ClaimsOKKept
  <2>15. PrivateOK'
    <3>1. f # NoFrame
      BY <2>3, PhysConstants
    <3>2. \A q \in Procs, b \in Pages :
            ~(q = p /\ b = a) => FrameAt(q, b)' = FrameAt(q, b)
      BY <2>6 DEF FrameAt
    <3>3. FrameAt(p, a)' = f
      BY <2>3 DEF FrameAt
    <3> QED
      BY <1>1, <1>2, <2>1, <2>2, <2>7, <2>9, <3>1, <3>2, <3>3, PrivateFresh
  <2>16. ListOK'
    BY <1>1, <1>2, ListKept
  <2> QED
    BY <2>3, <2>8, <2>9, <2>10, <2>11, <2>13, <2>14, <2>15, <2>16, Together
<1> QED
  BY <1>4, <1>5

(* The look for an object of that name: smalloc gives up, or goes on.      *)
LEMMA CreateShareStep ==
  ASSUME IInv, NEW p \in Procs, CreateShare(p)
  PROVE  IInv' /\ Apart(p) /\ Steady(p)
<1> DEFINE on == [call[p] EXCEPT !.step = "page"]
           refused == FindShare(p, call[p].name) # {} \/ AllocShareFails
<1>1. /\ TypeOK /\ Counted(phys, LowFrames) /\ Local(p) /\ ClaimsOK /\ ListOK /\ PrivateOK
      /\ \A q \in Procs : Local(q)
  BY DEF IInv
<1>2. /\ call[p].step = "lookup"
      /\ phys' = phys /\ heap' = heap /\ shares' = shares /\ held' = held /\ panic' = panic
      /\ \/ /\ call' = [call EXCEPT ![p] = Idle(p)] /\ kblocks' = kblocks
            /\ leaked' = [leaked EXCEPT ![p] = leaked[p] \cup ({call[p].va} \ {0})]
         \/ /\ FindShare(p, call[p].name) = {} /\ ~AllocShareFails
            /\ kblocks' = kblocks - 2 /\ leaked' = leaked
            /\ call' = [call EXCEPT ![p] = on]
  <2>1. call[p].step = "lookup"
    BY DEF CreateShare, Ready
  <2>2. CASE refused
    BY <2>1, <2>2 DEF CreateShare, Return
  <2>3. CASE ~refused
    BY <2>1, <2>3 DEF CreateShare
  <2> QED
    BY <2>2, <2>3
<1>3. /\ Live(p) /\ InCall(p) /\ ~Creating(p) /\ call[p].frames = <<>>
      /\ call[p].size >= 1 /\ call[p].name \in Names /\ call[p].owner = p
  BY <1>1, <1>2 DEF Live, InCall, Creating, Local, CallOK
<1>4. /\ Idle(p) \in CallState /\ Idle(p).step = "idle" /\ Idle(p).va = 0
      /\ Idle(p).frames = <<>>
  <2>1. "idle" \in Steps
    BY DEF Steps
  <2> QED
    BY <2>1, IdleIs
<1>5. /\ on \in CallState /\ on.step = "page" /\ on.va = call[p].va /\ on.size = call[p].size
      /\ on.owner = call[p].owner /\ on.name = call[p].name
      /\ on.frames = call[p].frames
  <2>1. call[p] \in CallState
    BY <1>1, TypeFacts
  <2> QED
    BY <2>1 DEF CallState, Steps
<1> HIDE DEF on
<1>6. call' \in [Procs -> CallState] /\ (call'[p] = Idle(p) \/ call'[p] = on)
      /\ (\A q \in Procs \ {p} : call'[q] = call[q])
  <2>1. ASSUME NEW c \in {Idle(p), on}, call' = [call EXCEPT ![p] = c]
        PROVE  /\ call' \in [Procs -> CallState] /\ call'[p] = c
               /\ \A q \in Procs \ {p} : call'[q] = call[q]
    <3>1. c \in CallState /\ call \in [Procs -> CallState]
      BY <1>1, <1>4, <1>5, TypeFacts
    <3> QED
      BY <2>1, <3>1
  <2> QED
    BY <1>2, <2>1
<1>7. /\ leaked' \in [Procs -> SUBSET Pages]
      /\ \A q \in Procs \ {p} : leaked'[q] = leaked[q]
  <2>1. leaked[p] \cup ({call[p].va} \ {0}) \in SUBSET Pages
    BY <1>1, TypeFacts
  <2>2. leaked \in [Procs -> SUBSET Pages]
    BY <1>1, TypeFacts
  <2> QED
    BY <1>2, <2>1, <2>2
<1>8. kblocks' \in 0..KernelBlocks
  BY <1>1, <1>2, SharedMemConstants DEF AllocShareFails, TypeOK
<1>9. /\ Apart(p) /\ ListGrows(p) /\ ClaimsKept /\ Steady(p)
      /\ \A o, m : FindShare(o, m)' = FindShare(o, m)
  <2>1. \A q \in Procs : /\ call'[q].frames = call[q].frames
                         /\ call[q].frames # <<>> => call'[q].va = call[q].va
    BY <1>3, <1>4, <1>5, <1>6
  <2> QED
    BY <1>2, <1>6, <1>7, <2>1, SameList DEF Apart, Steady
<1>10. LowFrames' = LowFrames
  BY <1>9, ClaimsKeptIs
<1>11. Counted(phys', LowFrames')
  BY <1>1, <1>2, <1>10
<1>12. TypeOK'
  BY <1>1, <1>2, <1>6, <1>7, <1>8 DEF TypeOK, CallState
<1>13. Local(p)'
  <2>1. CASE call' = [call EXCEPT ![p] = on] /\ FindShare(p, call[p].name) = {}
             /\ leaked' = leaked
    <3>1. call'[p] = on
      BY <1>1, <2>1, TypeFacts
    <3>2. InCall(p)' /\ Live(p)' /\ Creating(p)'
      BY <1>5, <3>1 DEF InCall, Live, Creating
    <3>3. CallOK(p)'
      <4>1. Len(on.frames) = 0 /\ 0 < on.size
        <5>1. call[p].size \in Nat
          BY <1>1, TypeFacts
        <5> QED
          BY <1>3, <1>5, <5>1
      <4>2. FindShare(p, call[p].name)' = {}
        BY <1>2, <1>5, <2>1, <3>1 DEF FindShare
      <4> QED
        BY <1>3, <1>5, <3>1, <3>2, <4>1, <4>2 DEF CallOK
    <3>4. HeapOK(p)'
      <4>1. Causes(p)' = Causes(p)
        BY <1>2, <1>3, <1>5, <2>1, <3>1, <3>2 DEF Causes
      <4>2. Extent(call[p])' = Extent(call[p])
        BY <1>5, <3>1 DEF Extent
      <4> QED
        BY <1>1, <1>2, <1>3, <1>5, <2>1, <3>1, <3>2, <4>1, <4>2 DEF Local, HeapOK, Used
    <3>5. PagesOK(p)'
      BY <1>1, <1>2, <1>3, <1>5, <1>10, <3>1, <3>2 DEF Local, PagesOK, FrameAt
    <3>6. SeesOK(p)'
      BY <1>1, <1>2, <1>9, SeesKept DEF Local
    <3> QED
      BY <3>3, <3>4, <3>5, <3>6 DEF Local
  <2>2. CASE call' = [call EXCEPT ![p] = Idle(p)]
             /\ leaked' = [leaked EXCEPT ![p] = leaked[p] \cup ({call[p].va} \ {0})]
    <3>1. call'[p] = Idle(p) /\ leaked'[p] = leaked[p] \cup ({call[p].va} \ {0})
      BY <1>1, <2>2, TypeFacts
    <3>2. ~InCall(p)' /\ Live(p)' /\ ~Creating(p)'
      BY <1>4, <3>1 DEF InCall, Live, Creating
    <3>3. CallOK(p)'
      BY <1>4, <3>1, <3>2 DEF CallOK
    <3>4. HeapOK(p)'
      <4>1. Causes(p)' = Causes(p)
        BY <1>2, <1>3, <3>1, <3>2 DEF Causes
      <4>2. \A h \in held[p] : h.va # 0
        <5>1. ASSUME NEW h \in held[p] PROVE h.va # 0
          <6>1. /\ InUse(h.va, h.size) \in UsedIn(heap[p].regions) /\ Tiled(heap[p])
                /\ heap[p].break < HeapMax /\ heap[p] \in HeapState
            BY <1>1, <1>3, TypeFacts DEF Local, HeapOK, Extent, Used
          <6> QED
            BY <6>1, RegionPages
        <5> QED
          BY <5>1
      <4> QED
        BY <1>1, <1>2, <1>3, <1>4, <3>1, <3>2, <4>1, <4>2 DEF Local, HeapOK, Used
    <3>5. PagesOK(p)'
      <4>1. Span(call[p].va, Len(call[p].frames)) = {}
        <5>1. Len(call[p].frames) = 0 /\ call[p].va \in Nat
          BY <1>1, <1>3, TypeFacts
        <5> QED
          BY <5>1 DEF Span
      <4> QED
        BY <1>1, <1>2, <1>3, <1>4, <1>10, <3>1, <3>2, <4>1 DEF Local, PagesOK, FrameAt
    <3>6. SeesOK(p)'
      BY <1>1, <1>2, <1>9, SeesKept DEF Local
    <3> QED
      BY <3>3, <3>4, <3>5, <3>6 DEF Local
  <2> QED
    BY <1>2, <2>1, <2>2
<1>14. ClaimsOK' /\ PrivateOK'
  <2>1. \A q \in Procs : \A h \in held[q] : Span(h.va, h.size) \subseteq Pages
    BY <1>1 DEF Local, HeapOK
  <2> QED
    BY <1>1, <1>2, <1>9, <2>1, ApartKept DEF FrameAt
<1>15. ListOK'
  BY <1>1, <1>2, ListKept
<1> QED
  BY <1>9, <1>10, <1>11, <1>12, <1>13, <1>14, <1>15, Together

(* Where the next page of an object in the making goes: inside the region  *)
(* of its own that smalloc chose, or below the heap when it goes on with   *)
(* the address 0.  No client of p holds that page, and what it may map is  *)
(* the frame of another such object.                                       *)
LEMMA NextPage ==
  ASSUME TypeOK, NEW p \in Procs, Local(p), call[p].step = "page"
  PROVE  LET c == call[p]
             a == c.va + Len(c.frames)
         IN  /\ a \in Pages /\ Live(p) /\ InCall(p) /\ Creating(p)
             /\ c.va = 0 => a \in 0..(HeapStart - 1)
             /\ c.va # 0 => a \in HeapStart..(HeapMax - 1)
             /\ \A h \in held[p] : a \notin Span(h.va, h.size)
             /\ FrameAt(p, a) = NoFrame \/ FrameAt(p, a) \in LowFrames
             /\ \A j \in 1..Len(c.frames) : c.va + j - 1 # a
             /\ c.va # 0 => \A j \in 1..Len(c.frames) : c.va + j - 1 \in Pages
<1> DEFINE c == call[p]
           a == c.va + Len(c.frames)
<1>1. Live(p) /\ InCall(p) /\ Creating(p)
  BY DEF Live, InCall, Creating
<1>2. /\ c.va \in Nat /\ c.size \in Nat /\ Len(c.frames) \in Nat
      /\ Len(c.frames) < c.size /\ c.size <= HeapStart
      /\ HeapStart \in Nat \ {0} /\ HeapMax \in Nat /\ HeapStart < HeapMax
  <2>1. /\ c.va \in Nat /\ c.size \in 0..MaxPages /\ Len(c.frames) \in Nat
        /\ MaxPages \in Nat \ {0} /\ MaxPages <= HeapStart
    BY TypeFacts
  <2>2. Len(c.frames) < c.size
    BY DEF Local, CallOK
  <2> QED
    BY <2>1, <2>2, PhysConstants
<1>3. HeapOK(p) /\ PagesOK(p) /\ heap[p] \in HeapState
  BY TypeFacts DEF Local
<1>4. /\ Tiled(heap[p]) /\ heap[p].break < HeapMax
      /\ \A h \in held[p] : /\ InUse(h.va, h.size) \in UsedIn(heap[p].regions)
                            /\ h.va # c.va
      /\ c.va # 0 => InUse(c.va, c.size) \in UsedIn(heap[p].regions)
  BY <1>1, <1>3 DEF HeapOK, Used, Extent
<1> HIDE DEF c
<1>5. \A j \in 1..Len(c.frames) : c.va + j - 1 # a
  BY <1>2
<1>6. a \in Span(c.va, c.size) /\ a \notin Span(c.va, Len(c.frames))
      /\ \A j \in 1..Len(c.frames) : c.va + j - 1 \in Span(c.va, c.size)
  <2>1. a \in c.va..(c.va + c.size - 1)
    BY <1>2
  <2>2. a \notin c.va..(c.va + Len(c.frames) - 1)
    BY <1>2
  <2>3. ASSUME NEW j \in 1..Len(c.frames)
        PROVE  c.va + j - 1 \in c.va..(c.va + c.size - 1)
    BY <1>2
  <2> QED
    BY <2>1, <2>2, <2>3 DEF Span
<1>7. CASE c.va = 0
  <2>1. a \in 0..(HeapStart - 1)
    BY <1>2, <1>7
  <2>2. a \in Pages
    BY <1>2, <2>1 DEF Pages
  <2>3. \A h \in held[p] : a \notin Span(h.va, h.size)
    <3>1. ASSUME NEW h \in held[p] PROVE a \notin Span(h.va, h.size)
      <4>1. Span(h.va, h.size) \subseteq HeapStart..(HeapMax - 1)
        BY <1>3, <1>4, RegionPages
      <4> QED
        BY <1>2, <2>1, <4>1
    <3> QED
      BY <3>1
  <2>4. FrameAt(p, a) = NoFrame \/ FrameAt(p, a) \in LowFrames
    BY <1>3, <2>1 DEF PagesOK
  <2> QED
    BY <1>1, <1>5, <1>7, <2>1, <2>2, <2>3, <2>4 DEF c
<1>8. CASE c.va # 0
  <2>1. InUse(c.va, c.size) \in UsedIn(heap[p].regions)
    BY <1>4, <1>8
  <2>2. /\ Span(c.va, c.size) \subseteq HeapStart..(HeapMax - 1)
        /\ Span(c.va, c.size) \subseteq Pages
        /\ \A d, m, b : InUse(d, m) \in UsedIn(heap[p].regions)
             /\ b \in Span(c.va, c.size) /\ b \in Span(d, m) => d = c.va /\ m = c.size
    BY <1>3, <1>4, <2>1, RegionPages
  <2>3. a \in HeapStart..(HeapMax - 1) /\ a \in Pages
    BY <1>6, <2>2
  <2>4. \A h \in held[p] : a \notin Span(h.va, h.size)
    <3>1. ASSUME NEW h \in held[p], a \in Span(h.va, h.size) PROVE FALSE
      <4> HIDE DEF a
      <4>1. InUse(h.va, h.size) \in UsedIn(heap[p].regions) /\ h.va # c.va
        BY <1>4
      <4> QED
        BY <1>6, <2>2, <3>1, <4>1
    <3> QED
      BY <3>1
  <2>5. FrameAt(p, a) = NoFrame
    BY <1>1, <1>3, <1>6, <2>3, <2>4 DEF PagesOK, c
  <2>6. \A j \in 1..Len(c.frames) : c.va + j - 1 \in Pages
    BY <1>6, <2>2
  <2> QED
    BY <1>1, <1>5, <1>8, <2>3, <2>4, <2>5, <2>6 DEF c
<1> QED
  BY <1>7, <1>8

(* A page of an object in the making gets its frame.                       *)
LEMMA CreatePageStep ==
  ASSUME IInv, NEW p \in Procs, CreatePage(p)
  PROVE  IInv' /\ Apart(p) /\ Steady(p)
<1> DEFINE c == call[p]
<1>0. PICK a : a = c.va + Len(c.frames)
  OBVIOUS
<1> DEFINE marked == AllocateUserMem(phys, p, a, 1)
           done == MapNewFrame(marked, p, a, TRUE)
           f == FirstFree(phys)
           frames == Append(c.frames, f)
           step == IF Len(frames) = c.size THEN "insert" ELSE "page"
           d == [step |-> step, va |-> c.va, size |-> c.size, writable |-> c.writable,
                 owner |-> c.owner, name |-> c.name, frames |-> frames]
<1>1. /\ TypeOK /\ Counted(phys, LowFrames) /\ Local(p) /\ ClaimsOK /\ ListOK /\ PrivateOK
      /\ \A q \in Procs : Local(q)
  BY DEF IInv
<1>2. /\ c.step = "page" /\ panic' = OutOfMemory(phys)
      /\ heap' = heap /\ shares' = shares /\ kblocks' = kblocks
      /\ held' = held /\ leaked' = leaked
      /\ panic' => phys' = phys /\ call' = call
      /\ ~panic' => phys' = done
      /\ ~panic' => call' = [call EXCEPT
           ![p].frames = Append(c.frames, GetFrameInfo(done, p, a)),
           ![p].step = IF Len(Append(c.frames, GetFrameInfo(done, p, a))) = c.size
                       THEN "insert" ELSE "page"]
  <2>1. c.step = "page" /\ panic' = OutOfMemory(phys)
        /\ heap' = heap /\ shares' = shares /\ kblocks' = kblocks
        /\ held' = held /\ leaked' = leaked
    BY DEF CreatePage, Ready
  <2>2. CASE panic'
    BY <2>1, <2>2 DEF CreatePage
  <2>3. CASE ~panic'
    BY <1>0, <2>1, <2>3 DEF CreatePage
  <2> QED
    BY <2>1, <2>2, <2>3
<1>3. panic' \in BOOLEAN
  BY <1>2 DEF OutOfMemory
<1>4. CASE panic'
  BY <1>2, <1>3, <1>4, PanicStep
<1>5. CASE ~panic'
  <2>1. /\ a \in Pages /\ Live(p) /\ InCall(p) /\ Creating(p)
        /\ c.va = 0 => a \in 0..(HeapStart - 1)
        /\ c.va # 0 => a \in HeapStart..(HeapMax - 1)
        /\ \A h \in held[p] : a \notin Span(h.va, h.size)
        /\ FrameAt(p, a) = NoFrame \/ FrameAt(p, a) \in LowFrames
        /\ \A j \in 1..Len(c.frames) : c.va + j - 1 # a
        /\ c.va # 0 => \A j \in 1..Len(c.frames) : c.va + j - 1 \in Pages
    BY <1>0, <1>1, <1>2, NextPage
  <2>2. /\ c \in CallState /\ c.frames \in Seq(FrameNums) /\ Len(c.frames) \in Nat
        /\ c.size \in Nat /\ c.va \in Nat /\ Len(c.frames) < c.size
        /\ phys \in PhysState
    <3>1. Len(c.frames) < c.size
      BY <1>1, <1>2 DEF Local, CallOK
    <3>2. c.size \in 0..MaxPages /\ MaxPages \in Nat
      BY <1>1, TypeFacts
    <3> QED
      BY <1>1, <3>1, <3>2, TypeFacts
  <2>3. /\ Counted(marked, LowFrames) /\ Elsewhere(phys, marked, p, a, 1)
        /\ marked.pte[p][a].frame = NoFrame
        /\ marked.free = phys.free /\ marked.refs = phys.refs /\ marked \in PhysState
    <3>1. a \in Nat /\ a \in Span(a, 1) /\ \A b \in Span(a, 1) : b = a
      BY <2>1, PhysConstants DEF Span
    <3>2. /\ marked \in PhysState /\ marked.free = phys.free /\ marked.refs = phys.refs
          /\ Elsewhere(phys, marked, p, a, 1)
          /\ \A b \in Span(a, 1) \cap Pages : marked.pte[p][b].frame = NoFrame
      <4>1. 1 \in Nat
        OBVIOUS
      <4> QED
        BY <2>2, <3>1, <4>1, AllocateUserMemIs
    <3> HIDE DEF marked
    <3>3. marked.pte[p][a].frame = NoFrame
      BY <2>1, <3>1, <3>2
    <3>4. ASSUME NEW q \in Procs, NEW b \in Pages
          PROVE  \/ marked.pte[q][b].frame = phys.pte[q][b].frame
                 \/ marked.pte[q][b].frame = NoFrame /\ phys.pte[q][b].frame \in LowFrames
      <4>1. CASE q = p /\ b = a
        BY <2>1, <3>3, <4>1 DEF FrameAt
      <4>2. CASE ~(q = p /\ b = a)
        BY <3>1, <3>2, <4>2 DEF Elsewhere
      <4> QED
        BY <4>1, <4>2
    <3>5. Counted(marked, LowFrames)
      BY <1>1, <3>2, <3>4, ForgetIs
    <3> QED
      BY <3>2, <3>3, <3>5
  <2>4. /\ Counted(done, LowFrames) /\ Elsewhere(marked, done, p, a, 1)
        /\ f \in FrameNums \ Reserved(KernelEnd) /\ phys.refs[f] = 0 /\ done.refs[f] = 1
        /\ done.pte[p][a].frame = f /\ done.pte[p][a].writable = TRUE
        /\ \A g \in FrameNums : g # f => done.refs[g] = phys.refs[g]
    <3> DEFINE w == TRUE
    <3>1. done = MapNewFrame(marked, p, a, w) /\ w \in BOOLEAN
      OBVIOUS
    <3> HIDE DEF marked, w, done
    <3>2. ~OutOfMemory(marked) /\ FirstFree(marked) = f
      BY <1>2, <1>5, <2>3 DEF OutOfMemory, FirstFree
    <3>3. /\ Counted(done, LowFrames) /\ Elsewhere(marked, done, p, a, 1)
          /\ FirstFree(marked) \in FrameNums \ Reserved(KernelEnd)
          /\ marked.refs[FirstFree(marked)] = 0 /\ done.refs[FirstFree(marked)] = 1
          /\ done.pte[p][a].frame = FirstFree(marked) /\ done.pte[p][a].writable = w
          /\ \A g \in FrameNums : g # FirstFree(marked) => done.refs[g] = marked.refs[g]
      BY <2>1, <2>3, <3>1, <3>2, NewFrameIs
    <3> HIDE DEF f
    <3>4. w = TRUE
      BY DEF w
    <3> QED
      BY <2>3, <3>2, <3>3, <3>4
  <2>5. /\ phys' = done /\ phys' \in PhysState
    BY <1>2, <1>5, <2>4 DEF Counted
  <2> HIDE DEF marked, done, f
  <2>6. /\ \A q \in Procs \ {p} : phys'.pte[q] = phys.pte[q]
        /\ \A b \in Pages : b # a => phys'.pte[p][b] = phys.pte[p][b]
    <3>1. \A b \in Pages : b \in Span(a, 1) <=> b = a
      BY <2>1, PhysConstants DEF Span
    <3>2. \A q \in Procs \ {p} : marked.pte[q] = phys.pte[q]
      BY <2>2, <2>3, RowSame
    <3>3. \A q \in Procs \ {p} : done.pte[q] = marked.pte[q]
      BY <2>3, <2>4, <2>5, RowSame
    <3>4. \A b \in Pages : b # a => marked.pte[p][b] = phys.pte[p][b]
      BY <2>3, <3>1 DEF Elsewhere
    <3>5. \A b \in Pages : b # a => done.pte[p][b] = marked.pte[p][b]
      BY <2>4, <3>1 DEF Elsewhere
    <3> QED
      BY <2>5, <3>2, <3>3, <3>4, <3>5
  <2>7. ~Claimed(f) /\ \A q \in Procs, b \in Pages : FrameAt(q, b) # f
    BY <1>1, <2>4, FreshFrame
  <2>8. /\ frames \in Seq(FrameNums) /\ Len(frames) = Len(c.frames) + 1
        /\ frames[Len(c.frames) + 1] = f
        /\ \A j \in 1..Len(c.frames) : frames[j] = c.frames[j]
        /\ Range(frames) = Range(c.frames) \cup {f}
    <3>1. f \in FrameNums
      BY <2>4
    <3>2. /\ frames \in Seq(FrameNums) /\ Len(frames) = Len(c.frames) + 1
          /\ frames[Len(c.frames) + 1] = f
          /\ \A j \in 1..Len(c.frames) : frames[j] = c.frames[j]
      BY <2>2, <3>1, AppendProperties
    <3>3. Range(frames) = Range(c.frames) \cup {f}
      BY <2>2, <3>1, AppendRange
    <3> QED
      BY <3>2, <3>3
  <2>9. call' = [call EXCEPT ![p].frames = frames, ![p].step = step]
    BY <1>2, <1>5, <2>4 DEF GetFrameInfo
  <2> HIDE DEF frames
  <2>10. d \in CallState
    <3>1. step \in Steps
      BY DEF Steps
    <3> HIDE DEF step
    <3> QED
      BY <2>2, <2>8, <3>1 DEF CallState
  <2>11. /\ call'[p] = d /\ call' \in [Procs -> CallState]
         /\ \A q \in Procs \ {p} : call'[q] = call[q]
    <3>1. call \in [Procs -> CallState]
      BY <1>1, TypeFacts
    <3>2. /\ call'[p] = [c EXCEPT !.frames = frames, !.step = step]
          /\ \A q \in Procs \ {p} : call'[q] = call[q]
          /\ call' = [o \in Procs |-> call'[o]]
      <4> HIDE DEF step
      <4> QED
        BY <2>9, <3>1
    <3>3. [c EXCEPT !.frames = frames, !.step = step] = d
      <4> DEFINE e == [c EXCEPT !.frames = frames]
      <4>1. /\ e.step = c.step /\ e.va = c.va /\ e.size = c.size
            /\ e.writable = c.writable /\ e.owner = c.owner /\ e.name = c.name
            /\ e.frames = frames /\ e \in CallState
        BY <2>2, <2>8 DEF CallState
      <4>2. [c EXCEPT !.frames = frames, !.step = step] = [e EXCEPT !.step = step]
        OBVIOUS
      <4>3. step \in Steps
        BY DEF Steps
      <4> HIDE DEF e, step
      <4> DEFINE x == [e EXCEPT !.step = step]
      <4>4. x \in CallState /\ x.step = step /\ x.va = e.va /\ x.size = e.size
            /\ x.writable = e.writable /\ x.owner = e.owner /\ x.name = e.name
            /\ x.frames = e.frames
        BY <4>1, <4>3 DEF CallState
      <4> HIDE DEF x
      <4>5. x = [step |-> x.step, va |-> x.va, size |-> x.size, writable |-> x.writable,
                 owner |-> x.owner, name |-> x.name, frames |-> x.frames]
        BY <4>4 DEF CallState
      <4>6. x = d
        BY <4>1, <4>4, <4>5
      <4> QED
        BY <4>2, <4>6 DEF x
    <3> HIDE DEF d
    <3> QED
      BY <2>10, <3>1, <3>2, <3>3
  <2>12. /\ d.va = c.va /\ d.size = c.size /\ d.owner = c.owner /\ d.name = c.name
         /\ d.frames = frames /\ d.step = step
    OBVIOUS
  <2> HIDE DEF d
  <2>13. \A g : Claimed(g)' <=> Claimed(g) \/ g = f
    <3>1. \A q \in Procs : \A g : g \in Range(call'[q].frames)
                                  <=> g \in Range(call[q].frames) \/ (q = p /\ g = f)
      BY <2>8, <2>11, <2>12
    <3> QED
      BY <1>2, <3>1 DEF Claimed
  <2>14. LowFrames \subseteq LowFrames' /\ (c.va = 0 => f \in LowFrames')
    <3>1. \A q \in Procs : /\ call'[q].va = call[q].va
                           /\ Range(call[q].frames) \subseteq Range(call'[q].frames)
      BY <2>8, <2>11, <2>12
    <3>2. ASSUME NEW g, g \in LowOf(shares, call)
          PROVE  g \in LowOf(shares', call')
      BY <1>2, <3>1, <3>2, LowIs
    <3>3. c.va = 0 => f \in LowOf(shares', call')
      BY <2>8, <2>11, <2>12, LowIs
    <3>4. LowFrames = LowOf(shares, call) /\ LowFrames' = LowOf(shares', call')
      BY DEF LowFrames, LowOf
    <3> QED
      BY <3>2, <3>3, <3>4
  <2>15. Counted(phys', LowFrames')
    <3>1. Counted(phys', LowFrames)
      BY <2>4, <2>5
    <3> QED
      BY <2>5, <2>14, <3>1, ForgetIs
  <2>16. Apart(p) /\ ListGrows(p) /\ \A o, m : FindShare(o, m)' = FindShare(o, m)
    BY <1>2, <2>6, <2>11, SameList DEF Apart
  <2>17. TypeOK'
    <3>1. TypeOK
      BY <1>1
    <3> QED
      BY <1>2, <1>3, <2>5, <2>11, <3>1 DEF TypeOK, PhysState, CallState
  <2>18. \A q \in Procs : \A h \in held[q] : Span(h.va, h.size) \subseteq Pages
    BY <1>1 DEF Local, HeapOK
  <2>19. \A h \in held[p] : \A b \in Span(h.va, h.size) : phys'.pte[p][b] = phys.pte[p][b]
    BY <2>1, <2>6, <2>18
  <2>20. Steady(p)
    BY <2>19 DEF Steady
  <2>21. Local(p)'
    <3>1. step \in {"page", "insert"} /\ InCall(p)' /\ Live(p)' /\ Creating(p)'
      BY <2>11, <2>12 DEF InCall, Live, Creating
    <3>2. CallOK(p)'
      <4>1. /\ c.size >= 1 /\ c.name \in Names /\ c.owner = p
            /\ FindShare(p, c.name) = {}
        BY <1>1, <1>2, <2>1 DEF Local, CallOK
      <4>2. /\ step = "page" => Len(frames) < c.size
            /\ step = "insert" => Len(frames) = c.size
        BY <2>2, <2>8
      <4>3. FindShare(p, call[p].name)' = {}
        BY <1>2, <2>11, <2>12, <4>1 DEF FindShare
      <4> HIDE DEF step
      <4> QED
        BY <2>11, <2>12, <3>1, <4>1, <4>2, <4>3 DEF CallOK
    <3>3. HeapOK(p)'
      <4>1. Causes(p)' = Causes(p)
        BY <1>2, <2>1, <2>11, <2>12, <3>1 DEF Causes
      <4>2. Extent(call[p])' = Extent(call[p])
        BY <2>11, <2>12 DEF Extent
      <4> QED
        BY <1>1, <1>2, <2>1, <2>11, <2>12, <3>1, <4>1, <4>2 DEF Local, HeapOK, Used
    <3>4. PagesOK(p)'
      <4>1. HeapStart..(HeapMax - 1) \subseteq Pages /\ 0..(HeapStart - 1) \subseteq Pages
            /\ \A b \in 0..(HeapStart - 1) : b \notin HeapStart..(HeapMax - 1)
        BY PhysConstants DEF Pages
      <4>2. PagesOK(p)
        BY <1>1 DEF Local
      <4>3. a \in Span(c.va, Len(frames))
            /\ Span(c.va, Len(c.frames)) \subseteq Span(c.va, Len(frames))
        <5>1. Len(c.frames) \in Nat /\ c.va \in Nat /\ Len(frames) = Len(c.frames) + 1
          BY <2>2, <2>8
        <5>2. a = c.va + Len(c.frames)
          BY <1>0
        <5> HIDE DEF c
        <5> QED
          BY <5>1, <5>2 DEF Span
      <4>4. FrameAt(p, a)' = f /\ \A b \in Pages : b # a => FrameAt(p, b)' = FrameAt(p, b)
        BY <2>4, <2>5, <2>6 DEF FrameAt
      <4>5. ASSUME NEW b \in HeapStart..(HeapMax - 1), FrameAt(p, b)' # NoFrame
            PROVE  \/ \E h \in held[p] : b \in Span(h.va, h.size)
                   \/ c.va # 0 /\ b \in Span(c.va, Len(frames))
        <5>1. CASE b = a
          BY <2>1, <4>1, <4>3, <5>1
        <5>2. CASE b # a
          <6>1. FrameAt(p, b) # NoFrame
            BY <4>1, <4>4, <4>5, <5>2
          <6>2. \/ \E h \in held[p] : b \in Span(h.va, h.size)
                \/ c.va # 0 /\ b \in Span(c.va, Len(c.frames))
            BY <2>1, <4>2, <6>1 DEF PagesOK
          <6> QED
            BY <4>3, <6>2
        <5> QED
          BY <5>1, <5>2
      <4>6. ASSUME NEW b \in 0..(HeapStart - 1), FrameAt(p, b)' # NoFrame
            PROVE  FrameAt(p, b)' \in LowFrames'
        <5>1. CASE b = a
          BY <2>1, <2>14, <4>1, <4>4, <5>1
        <5>2. CASE b # a
          BY <2>14, <4>1, <4>2, <4>4, <4>6, <5>2 DEF PagesOK
        <5> QED
          BY <5>1, <5>2
      <4>7. ASSUME c.va # 0, NEW j \in 1..Len(frames)
            PROVE  /\ phys'.pte[p][c.va + j - 1].frame = frames[j]
                   /\ phys'.pte[p][c.va + j - 1].writable
        <5>1. CASE j \in 1..Len(c.frames)
          <6> DEFINE b == c.va + j - 1
          <6>1. b \in Pages /\ b # a
            BY <2>1, <4>7, <5>1
          <6>2. phys.pte[p][b].frame = c.frames[j] /\ phys.pte[p][b].writable
            BY <4>2, <4>7, <5>1 DEF PagesOK
          <6> HIDE DEF b
          <6>3. phys'.pte[p][b] = phys.pte[p][b]
            BY <2>6, <6>1
          <6>4. frames[j] = c.frames[j]
            BY <2>8, <5>1
          <6>5. phys'.pte[p][b].frame = frames[j] /\ phys'.pte[p][b].writable
            BY <6>2, <6>3, <6>4
          <6> QED
            BY <6>5 DEF b
        <5>2. CASE j \notin 1..Len(c.frames)
          <6>1. j = Len(c.frames) + 1
            BY <2>2, <2>8, <5>2
          <6>2. c.va + j - 1 = a
            BY <1>0, <2>2, <6>1
          <6>3. phys'.pte[p][a].frame = frames[j] /\ phys'.pte[p][a].writable
            BY <2>4, <2>5, <2>8, <6>1
          <6> QED
            BY <6>2, <6>3
        <5> QED
          BY <5>1, <5>2
      <4> QED
        BY <1>2, <2>11, <2>12, <4>5, <4>6, <4>7 DEF PagesOK
    <3>5. SeesOK(p)'
      BY <1>1, <1>2, <2>16, <2>19, SeesKept DEF Local
    <3> QED
      BY <3>2, <3>3, <3>4, <3>5 DEF Local
  <2>22. ClaimsOK'
    <3>1. ASSUME NEW g, Claimed(g)'
          PROVE  g \in FrameNums \ Reserved(KernelEnd) /\ phys'.refs[g] # 0
      <4>1. CASE g = f
        BY <2>4, <2>5, <4>1
      <4>2. CASE g # f
        BY <1>1, <2>4, <2>5, <2>13, <3>1, <4>2 DEF ClaimsOK
      <4> QED
        BY <4>1, <4>2
    <3>2. \A q \in Procs : call'[q].frames = IF q = p THEN frames ELSE call[q].frames
      BY <2>11, <2>12
    <3>3. \A i \in DOMAIN shares : f \notin Range(shares[i].frames)
      BY <2>7 DEF Claimed
    <3>4. \A q \in Procs : f \notin Range(call[q].frames)
      BY <2>7 DEF Claimed
    <3>5. \A i, j \in DOMAIN shares' :
            i # j => Range(shares'[i].frames) \cap Range(shares'[j].frames) = {}
      BY <1>1, <1>2 DEF ClaimsOK
    <3>6. ASSUME NEW q \in Procs, NEW r \in Procs, q # r
          PROVE  Range(call'[q].frames) \cap Range(call'[r].frames) = {}
      <4>1. Range(call[q].frames) \cap Range(call[r].frames) = {}
        BY <1>1, <3>6 DEF ClaimsOK
      <4> QED
        BY <2>8, <3>2, <3>4, <3>6, <4>1
    <3>7. ASSUME NEW q \in Procs, NEW i \in DOMAIN shares'
          PROVE  Range(call'[q].frames) \cap Range(shares'[i].frames) = {}
      <4>1. i \in DOMAIN shares /\ Range(call[q].frames) \cap Range(shares[i].frames) = {}
        BY <1>1, <1>2, <3>7 DEF ClaimsOK
      <4> QED
        BY <1>2, <2>8, <3>2, <3>3, <4>1
    <3> QED
      BY <3>1, <3>5, <3>6, <3>7 DEF ClaimsOK
  <2>23. PrivateOK'
    <3>1. f # NoFrame
      BY <2>4, PhysConstants
    <3>2. \A q \in Procs, b \in Pages :
            ~(q = p /\ b = a) => FrameAt(q, b)' = FrameAt(q, b)
      BY <2>6 DEF FrameAt
    <3>3. FrameAt(p, a)' = f
      BY <2>4, <2>5 DEF FrameAt
    <3> QED
      BY <1>1, <1>2, <2>1, <2>7, <2>13, <2>18, <3>1, <3>2, <3>3, PrivateFresh
  <2>24. ListOK'
    BY <1>1, <1>2, ListKept
  <2> QED
    BY <2>14, <2>15, <2>16, <2>17, <2>20, <2>21, <2>22, <2>23, <2>24, Together
<1> QED
  BY <1>4, <1>5

(* The finished object enters the list.                                    *)
LEMMA InsertStep ==
  ASSUME IInv, NEW p \in Procs, InsertShare(p)
  PROVE  IInv' /\ Apart(p) /\ Steady(p)
<1> DEFINE c == call[p]
           object == [owner |-> p, name |-> c.name, size |-> c.size, va |-> c.va,
                      writable |-> c.writable, frames |-> c.frames, references |-> 1]
           k == [va |-> c.va, size |-> c.size, use |-> "creator",
                 owner |-> p, name |-> c.name]
<1>1. /\ TypeOK /\ Counted(phys, LowFrames) /\ Local(p) /\ ClaimsOK /\ ListOK /\ PrivateOK
      /\ \A q \in Procs : Local(q)
  BY DEF IInv
<1>2. /\ c.step = "insert" /\ call' = [call EXCEPT ![p] = Idle(p)]
      /\ shares' = Append(shares, object)
      /\ c.va = 0 => held' = held
      /\ c.va # 0 => held' = [held EXCEPT ![p] = held[p] \cup {k}]
      /\ phys' = phys /\ heap' = heap /\ kblocks' = kblocks
      /\ leaked' = leaked /\ panic' = panic
  <2>1. CASE c.va = 0
    BY <2>1 DEF InsertShare, Ready, Return
  <2>2. CASE c.va # 0
    BY <2>2 DEF InsertShare, Ready, Return
  <2> QED
    BY <2>1, <2>2
<1>3. Live(p) /\ InCall(p) /\ Creating(p)
  BY <1>2 DEF Live, InCall, Creating
<1>4. /\ c.size >= 1 /\ c.name \in Names /\ c.owner = p
      /\ Len(c.frames) = c.size /\ FindShare(p, c.name) = {}
  BY <1>1, <1>2, <1>3 DEF Local, CallOK
<1>5. /\ c.frames \in Seq(FrameNums) /\ c.va \in Pages /\ c.va \in Nat
      /\ c.size \in 1..MaxPages /\ c.size \in Nat /\ c.writable \in BOOLEAN
      /\ shares \in Seq(Share) /\ Len(shares) \in Nat /\ DOMAIN shares = 1..Len(shares)
      /\ heap[p] \in HeapState /\ DOMAIN c.frames = 1..Len(c.frames)
  <2>1. c.size \in 0..MaxPages /\ MaxPages \in Nat
    BY <1>1, TypeFacts
  <2> QED
    BY <1>1, <1>4, <2>1, TypeFacts
<1>6. /\ Idle(p) \in CallState /\ Idle(p).step = "idle" /\ Idle(p).va = 0
      /\ Idle(p).frames = <<>>
  <2>1. "idle" \in Steps
    BY DEF Steps
  <2> QED
    BY <2>1, IdleIs
<1>7. /\ call' \in [Procs -> CallState] /\ call'[p] = Idle(p)
      /\ \A q \in Procs \ {p} : call'[q] = call[q]
  BY <1>1, <1>2, <1>6, TypeFacts
<1>8. /\ object \in Share /\ object.owner = p /\ object.name = c.name
      /\ object.size = c.size /\ object.va = c.va /\ object.writable = c.writable
      /\ object.frames = c.frames /\ object.references = 1
  <2>1. 1 \in 1..(MaxGets + 1)
    BY SharedMemConstants
  <2> HIDE DEF c
  <2> QED
    BY <1>4, <1>5, <2>1 DEF Share
<1>9. /\ k \in Holding /\ k.va = c.va /\ k.size = c.size /\ k.use = "creator"
      /\ k.owner = p /\ k.name = c.name /\ Extent(k) = Extent(c)
  <2> HIDE DEF c
  <2> QED
    BY <1>4, <1>5 DEF Holding, Extent
<1>10. c.va # 0 => /\ Extent(c) \in Used(p) /\ c.va \notin leaked[p]
                   /\ Span(c.va, c.size) \subseteq Pages
                   /\ Span(c.va, c.size) \subseteq HeapStart..(HeapMax - 1)
  <2>1. ASSUME c.va # 0
        PROVE  /\ Extent(c) \in Used(p) /\ c.va \notin leaked[p]
               /\ Tiled(heap[p]) /\ heap[p].break < HeapMax
               /\ InUse(c.va, c.size) \in UsedIn(heap[p].regions)
    BY <1>1, <1>3, <2>1 DEF Local, HeapOK, Extent, Used
  <2> HIDE DEF c
  <2> QED
    BY <1>5, <2>1, RegionPages
<1> HIDE DEF object, k
<1>11. /\ shares' \in Seq(Share) /\ DOMAIN shares' = 1..(Len(shares) + 1)
       /\ shares'[Len(shares) + 1] = object
       /\ \A i \in DOMAIN shares : i \in DOMAIN shares' /\ shares'[i] = shares[i]
  <2>1. /\ shares' \in Seq(Share) /\ Len(shares') = Len(shares) + 1
        /\ shares'[Len(shares) + 1] = object
        /\ \A i \in 1..Len(shares) : shares'[i] = shares[i]
    BY <1>2, <1>5, <1>8, AppendProperties
  <2>2. DOMAIN shares' = 1..(Len(shares) + 1)
    BY <2>1, LenProperties
  <2> QED
    BY <1>5, <2>1, <2>2
<1>12. \A i \in DOMAIN shares' : i \in DOMAIN shares \/ i = Len(shares) + 1
  BY <1>5, <1>11
<1>13. /\ held' \in [Procs -> SUBSET Holding]
       /\ \A q \in Procs \ {p} : held'[q] = held[q]
       /\ held[p] \subseteq held'[p]
       /\ \A h \in held'[p] : h \in held[p] \/ (h = k /\ c.va # 0)
       /\ c.va # 0 => held'[p] = held[p] \cup {k}
  <2>1. held \in [Procs -> SUBSET Holding]
    BY <1>1, TypeFacts
  <2>2. CASE c.va = 0
    BY <1>2, <2>1, <2>2
  <2>3. CASE c.va # 0
    <3>1. held[p] \cup {k} \in SUBSET Holding
      BY <1>9, <2>1
    <3> QED
      BY <1>2, <2>1, <2>3, <3>1
  <2> QED
    BY <2>2, <2>3
<1>14. /\ Apart(p) /\ ListGrows(p) /\ Steady(p)
  BY <1>2, <1>7, <1>8, <1>11, <1>12, <1>13 DEF Apart, ListGrows, SameObject, Steady
<1>15. Range(<<>>) = {}
  BY DEF Range
<1>16. \A g : Claimed(g)' <=> Claimed(g)
  <2>1. ASSUME NEW g, Claimed(g)' PROVE Claimed(g)
    <3>1. CASE \E i \in DOMAIN shares' : g \in Range(shares'[i].frames)
      BY <1>8, <1>11, <1>12, <3>1 DEF Claimed
    <3>2. CASE \E q \in Procs : g \in Range(call'[q].frames)
      BY <1>6, <1>7, <1>15, <3>2 DEF Claimed
    <3> QED
      BY <2>1, <3>1, <3>2 DEF Claimed
  <2>2. ASSUME NEW g, Claimed(g) PROVE Claimed(g)'
    <3>1. CASE \E i \in DOMAIN shares : g \in Range(shares[i].frames)
      BY <1>11, <3>1 DEF Claimed
    <3>2. CASE \E q \in Procs : g \in Range(call[q].frames)
      <4>1. PICK q \in Procs : g \in Range(call[q].frames)
        BY <3>2
      <4>2. CASE q = p
        <5>1. Len(shares) + 1 \in DOMAIN shares'
          BY <1>5, <1>11
        <5> QED
          BY <1>8, <1>11, <4>1, <4>2, <5>1 DEF Claimed
      <4>3. CASE q # p
        BY <1>7, <4>1, <4>3 DEF Claimed
      <4> QED
        BY <4>2, <4>3
    <3> QED
      BY <2>2, <3>1, <3>2 DEF Claimed
  <2> QED
    BY <2>1, <2>2
<1>17. LowFrames' = LowFrames
  <2>1. ASSUME NEW g, g \in LowOf(shares', call') PROVE g \in LowOf(shares, call)
    <3>1. CASE \E i \in DOMAIN shares' : shares'[i].va = 0 /\ g \in Range(shares'[i].frames)
      BY <1>8, <1>11, <1>12, <3>1, LowIs
    <3>2. CASE \E q \in Procs : call'[q].va = 0 /\ g \in Range(call'[q].frames)
      BY <1>6, <1>7, <1>15, <3>2, LowIs
    <3> QED
      BY <2>1, <3>1, <3>2, LowIs
  <2>2. ASSUME NEW g, g \in LowOf(shares, call) PROVE g \in LowOf(shares', call')
    <3>1. CASE \E i \in DOMAIN shares : shares[i].va = 0 /\ g \in Range(shares[i].frames)
      BY <1>11, <3>1, LowIs
    <3>2. CASE \E q \in Procs : call[q].va = 0 /\ g \in Range(call[q].frames)
      <4>1. PICK q \in Procs : call[q].va = 0 /\ g \in Range(call[q].frames)
        BY <3>2
      <4>2. CASE q = p
        <5>1. Len(shares) + 1 \in DOMAIN shares'
          BY <1>5, <1>11
        <5> QED
          BY <1>8, <1>11, <4>1, <4>2, <5>1, LowIs
      <4>3. CASE q # p
        BY <1>7, <4>1, <4>3, LowIs
      <4> QED
        BY <4>2, <4>3
    <3> QED
      BY <2>2, <3>1, <3>2, LowIs
  <2>3. LowOf(shares', call') = LowOf(shares, call)
    BY <2>1, <2>2
  <2> QED
    BY <2>3 DEF LowFrames, LowOf
<1>18. Counted(phys', LowFrames')
  BY <1>1, <1>2, <1>17
<1>19. TypeOK'
  <2>1. TypeOK
    BY <1>1
  <2> QED
    BY <1>2, <1>7, <1>11, <1>13, <2>1 DEF TypeOK, CallState
<1>20. Local(p)'
  <2>1. Live(p)' /\ ~InCall(p)' /\ ~Creating(p)'
    BY <1>6, <1>7 DEF Live, InCall, Creating
  <2>2. CallOK(p)'
    BY <1>6, <1>7, <2>1 DEF CallOK
  <2>3. HeapOK(p)'
    <3>1. HeapOK(p)
      BY <1>1 DEF Local
    <3>2. Causes(p)' = Causes(p)
      <4>1. CASE c.va = 0
        BY <1>2, <1>3, <2>1, <4>1 DEF Causes
      <4>2. CASE c.va # 0
        <5>1. {h.va : h \in held'[p]} = {h.va : h \in held[p]} \cup {c.va}
          BY <1>9, <1>13, <4>2
        <5> QED
          BY <1>2, <1>3, <2>1, <4>2, <5>1 DEF Causes
      <4> QED
        BY <4>1, <4>2
    <3>3. \A h \in held[p] : h.va # 0
      <4>1. ASSUME NEW h \in held[p] PROVE h.va # 0
        <5>1. /\ InUse(h.va, h.size) \in UsedIn(heap[p].regions) /\ Tiled(heap[p])
              /\ heap[p].break < HeapMax
          BY <1>3, <3>1 DEF HeapOK, Extent, Used
        <5> QED
          BY <1>5, <5>1, RegionPages
      <4> QED
        BY <4>1
    <3>4. ASSUME NEW h \in held'[p]
          PROVE  /\ Span(h.va, h.size) \subseteq Pages /\ Extent(h) \in Used(p)
                 /\ h.va \notin leaked[p] /\ h.va # 0
                 /\ \A m \in held'[p] : h.va = m.va => h = m
      <4>1. CASE h \in held[p]
        <5>1. /\ Span(h.va, h.size) \subseteq Pages /\ Extent(h) \in Used(p)
              /\ h.va \notin leaked[p] /\ h.va # c.va
              /\ \A m \in held[p] : h.va = m.va => h = m
          BY <1>3, <3>1, <4>1 DEF HeapOK
        <5> QED
          BY <1>9, <1>13, <3>3, <4>1, <5>1
      <4>2. CASE h = k /\ c.va # 0
        <5>1. \A m \in held[p] : m.va # c.va
          BY <1>3, <3>1 DEF HeapOK
        <5> QED
          BY <1>9, <1>10, <1>13, <4>2, <5>1
      <4> QED
        BY <1>13, <4>1, <4>2
    <3>5. Used(p)' = Used(p)
      BY <1>2 DEF Used
    <3>6. call'[p].va = 0
      BY <1>6, <1>7
    <3> QED
      BY <1>2, <1>3, <2>1, <3>1, <3>2, <3>4, <3>5, <3>6 DEF HeapOK
  <2>4. PagesOK(p)'
    <3>1. PagesOK(p)
      BY <1>1 DEF Local
    <3>2. \A b \in HeapStart..(HeapMax - 1) : FrameAt(p, b) # NoFrame =>
            \E h \in held'[p] : b \in Span(h.va, h.size)
      <4>1. ASSUME NEW b \in HeapStart..(HeapMax - 1), FrameAt(p, b) # NoFrame
            PROVE  \E h \in held'[p] : b \in Span(h.va, h.size)
        <5>1. \/ \E h \in held[p] : b \in Span(h.va, h.size)
              \/ c.va # 0 /\ b \in Span(c.va, c.size)
          BY <1>3, <1>4, <3>1, <4>1 DEF PagesOK
        <5> QED
          BY <1>9, <1>13, <5>1
      <4> QED
        BY <4>1
    <3>3. \A b : FrameAt(p, b)' = FrameAt(p, b)
      BY <1>2 DEF FrameAt
    <3>4. call'[p].va = 0
      BY <1>6, <1>7
    <3> QED
      BY <1>17, <3>1, <3>2, <3>3, <3>4 DEF PagesOK
  <2>5. SeesOK(p)'
    <3>1. ASSUME NEW h \in held'[p], h.use # "private"
          PROVE  Sees(p, h)'
      <4>1. CASE h \in held[p]
        <5>1. Sees(p, h)
          BY <1>1, <3>1, <4>1 DEF Local, SeesOK
        <5>2. \A b \in Span(h.va, h.size) : phys'.pte[p][b] = phys.pte[p][b]
          BY <1>2
        <5> QED
          BY <1>1, <1>14, <4>1, <5>1, <5>2, SeesStays
      <4>2. CASE h = k /\ c.va # 0
        <5> DEFINE i == Len(shares) + 1
        <5>1. i \in DOMAIN shares' /\ shares'[i] = object
          BY <1>5, <1>11
        <5>2. \A j \in 1..h.size : /\ phys'.pte[p][h.va + j - 1].frame = c.frames[j]
                                   /\ phys'.pte[p][h.va + j - 1].writable
          BY <1>1, <1>2, <1>4, <1>9, <4>2 DEF Local, PagesOK
        <5>3. \A j \in 1..h.size : phys'.pte[p][h.va + j - 1].writable = TRUE
          <6>1. \A j \in 1..h.size : phys'.pte[p][h.va + j - 1].writable \in BOOLEAN
            <7>1. ASSUME NEW j \in 1..h.size
                  PROVE  phys'.pte[p][h.va + j - 1].writable \in BOOLEAN
              <8>1. h.va + j - 1 \in Pages
                <9>1. h.va + j - 1 \in Span(c.va, c.size)
                  <10>1. h.va = c.va /\ h.size = c.size
                    BY <1>9, <4>2
                  <10> QED
                    BY <1>5, <10>1 DEF Span
                <9> QED
                  BY <1>10, <4>2, <9>1
              <8>2. phys' \in PhysState
                BY <1>18 DEF Counted
              <8> HIDE DEF c
              <8> QED
                BY <8>1, <8>2, PhysFacts
            <7> QED
              BY <7>1
          <6> QED
            BY <5>2, <6>1
        <5>4. i \in FindShare(h.owner, h.name)'
          BY <1>8, <1>9, <4>2, <5>1 DEF FindShare
        <5> HIDE DEF i
        <5>5. /\ shares'[i].size = h.size /\ shares'[i].frames = c.frames
              /\ h.use = "creator"
          BY <1>8, <1>9, <4>2, <5>1
        <5> HIDE DEF c
        <5> QED
          BY <5>2, <5>3, <5>4, <5>5 DEF Sees
      <4> QED
        BY <1>13, <3>1, <4>1, <4>2
    <3> QED
      BY <3>1 DEF SeesOK
  <2> QED
    BY <2>2, <2>3, <2>4, <2>5 DEF Local
<1>21. ClaimsOK'
  <2>1. \A g : Claimed(g)' => g \in FrameNums \ Reserved(KernelEnd) /\ phys'.refs[g] # 0
    BY <1>1, <1>2, <1>16 DEF ClaimsOK
  <2>2. ASSUME NEW i \in DOMAIN shares', NEW j \in DOMAIN shares', i # j
        PROVE  Range(shares'[i].frames) \cap Range(shares'[j].frames) = {}
    <3>1. CASE i \in DOMAIN shares /\ j \in DOMAIN shares
      BY <1>1, <1>11, <2>2, <3>1 DEF ClaimsOK
    <3>2. CASE i \in DOMAIN shares /\ j = Len(shares) + 1
      BY <1>1, <1>8, <1>11, <3>2 DEF ClaimsOK
    <3>3. CASE j \in DOMAIN shares /\ i = Len(shares) + 1
      BY <1>1, <1>8, <1>11, <3>3 DEF ClaimsOK
    <3> QED
      BY <1>12, <2>2, <3>1, <3>2, <3>3
  <2>3. ASSUME NEW q \in Procs, NEW r \in Procs, q # r
        PROVE  Range(call'[q].frames) \cap Range(call'[r].frames) = {}
    <3>1. Range(call[q].frames) \cap Range(call[r].frames) = {}
      BY <1>1, <2>3 DEF ClaimsOK
    <3> QED
      BY <1>6, <1>7, <1>15, <3>1
  <2>4. ASSUME NEW q \in Procs, NEW i \in DOMAIN shares'
        PROVE  Range(call'[q].frames) \cap Range(shares'[i].frames) = {}
    <3>1. CASE q = p
      BY <1>6, <1>7, <1>15, <3>1
    <3>2. CASE q # p /\ i \in DOMAIN shares
      <4>1. call'[q] = call[q] /\ shares'[i] = shares[i]
        BY <1>7, <1>11, <3>2
      <4> QED
        BY <1>1, <3>2, <4>1 DEF ClaimsOK
    <3>3. CASE q # p /\ i = Len(shares) + 1
      <4>1. call'[q] = call[q] /\ shares'[i].frames = c.frames
        BY <1>7, <1>8, <1>11, <3>3
      <4>2. Range(call[q].frames) \cap Range(call[p].frames) = {}
        BY <1>1, <3>3 DEF ClaimsOK
      <4> QED
        BY <4>1, <4>2
    <3> QED
      BY <1>12, <3>1, <3>2, <3>3
  <2> QED
    BY <2>1, <2>2, <2>3, <2>4 DEF ClaimsOK
<1>22. PrivateOK'
  <2>1. \A q \in Procs : \A h \in held'[q] : h.use = "private" => h \in held[q]
    BY <1>9, <1>13
  <2>2. \A q, b : FrameAt(q, b)' = FrameAt(q, b)
    BY <1>2 DEF FrameAt
  <2>3. ASSUME NEW q \in Procs, NEW h \in held'[q], h.use = "private",
               NEW a \in Span(h.va, h.size), FrameAt(q, a)' # NoFrame
        PROVE  /\ ~Claimed(FrameAt(q, a))'
               /\ \A o \in Procs, b \in Pages : FrameAt(o, b)' = FrameAt(q, a)' => o = q /\ b = a
    <3>1. /\ ~Claimed(FrameAt(q, a))
          /\ \A o \in Procs, b \in Pages : FrameAt(o, b) = FrameAt(q, a) => o = q /\ b = a
      BY <1>1, <2>1, <2>2, <2>3 DEF PrivateOK
    <3> QED
      BY <1>16, <2>2, <3>1
  <2> QED
    BY <2>3 DEF PrivateOK
<1>23. ListOK'
  <2>1. \A o, n : Getters(o, n)' = Getters(o, n)
    <3>1. \A h : h.use = "getter" => (h \in held'[p] <=> h \in held[p])
      BY <1>9, <1>13
    <3> QED
      BY <1>13, <3>1, GettersKept
  <2>2. ASSUME NEW x \in Getters(p, c.name) PROVE FALSE
    <3>1. x \in GettersOf(held, p, c.name)
      BY <2>2 DEF Getters, GettersOf
    <3>2. \E q \in Procs : \E h \in held[q] :
            h.use = "getter" /\ h.owner = p /\ h.name = c.name
      BY <3>1, GettersIs
    <3>4. PICK q \in Procs : \E h \in held[q] :
            h.use = "getter" /\ h.owner = p /\ h.name = c.name
      BY <3>2
    <3>5. PICK h \in held[q] : h.use = "getter" /\ h.owner = p /\ h.name = c.name
      BY <3>4
    <3>3. Sees(q, h)
      BY <1>1, <3>5 DEF Local, SeesOK
    <3> QED
      BY <1>4, <3>3, <3>5 DEF Sees
  <2>3. Getters(p, c.name) = {}
    BY <2>2
  <2>4. ASSUME NEW i \in DOMAIN shares', NEW j \in DOMAIN shares',
               shares'[i].owner = shares'[j].owner, shares'[i].name = shares'[j].name
        PROVE  i = j
    <3>1. \A m \in DOMAIN shares : ~(shares[m].owner = p /\ shares[m].name = c.name)
      BY <1>4 DEF FindShare
    <3>2. CASE i \in DOMAIN shares /\ j \in DOMAIN shares
      BY <1>1, <1>11, <2>4, <3>2 DEF ListOK
    <3>3. CASE i \in DOMAIN shares /\ j = Len(shares) + 1
      BY <1>8, <1>11, <2>4, <3>1, <3>3
    <3>4. CASE j \in DOMAIN shares /\ i = Len(shares) + 1
      BY <1>8, <1>11, <2>4, <3>1, <3>4
    <3> QED
      BY <1>12, <3>2, <3>3, <3>4
  <2>5. ASSUME NEW i \in DOMAIN shares'
        PROVE  LET G == Getters(shares[i].owner, shares[i].name)'
               IN  /\ Len(shares'[i].frames) = shares'[i].size
                   /\ IsFiniteSet(G) /\ shares'[i].references = 1 + Cardinality(G)
    <3>1. CASE i \in DOMAIN shares
      BY <1>1, <1>11, <2>1, <3>1 DEF ListOK
    <3>2. CASE i = Len(shares) + 1
      <4>1. shares'[i].owner = p /\ shares'[i].name = c.name
            /\ Len(shares'[i].frames) = shares'[i].size /\ shares'[i].references = 1
        BY <1>4, <1>8, <1>11, <3>2
      <4>2. Getters(shares[i].owner, shares[i].name)' = {}
        BY <2>1, <2>3, <4>1 DEF Getters
      <4> QED
        BY <4>1, <4>2, FS_EmptySet
    <3> QED
      BY <1>12, <3>1, <3>2
  <2> QED
    BY <2>4, <2>5 DEF ListOK
<1> QED
  BY <1>14, <1>17, <1>18, <1>19, <1>20, <1>21, <1>22, <1>23, Together

(* An owner and a name belong to one object.                               *)
LEMMA TheObject ==
  ASSUME TypeOK, ListOK, NEW o, NEW n, NEW i \in FindShare(o, n)
  PROVE  /\ i \in DOMAIN shares /\ shares[i].owner = o /\ shares[i].name = n
         /\ FindShare(o, n) = {i} /\ Min(FindShare(o, n)) = i
<1>1. i \in DOMAIN shares /\ shares[i].owner = o /\ shares[i].name = n
  BY DEF FindShare
<1>2. FindShare(o, n) = {i}
  BY <1>1 DEF FindShare, ListOK
<1>3. i \in Nat
  BY <1>1, TypeFacts
<1>4. i \in {i} /\ \A y \in {i} : i <= y
  BY <1>3
<1>5. Min({i}) = i
  BY <1>4 DEF Min
<1> QED
  BY <1>1, <1>2, <1>5

(* One more reference to an object.                                        *)
LEMMA OneMore ==
  ASSUME TypeOK, NEW i \in DOMAIN shares, shares[i].references <= MaxGets,
         shares' = [shares EXCEPT ![i].references = @ + 1]
  PROVE  /\ shares' \in Seq(Share) /\ DOMAIN shares' = DOMAIN shares
         /\ \A j \in DOMAIN shares : SameObject(shares[j], shares'[j])
         /\ shares'[i].references = shares[i].references + 1
         /\ \A j \in DOMAIN shares : j # i => shares'[j] = shares[j]
<1> DEFINE x == shares[i]
           y == [x EXCEPT !.references = x.references + 1]
<1>1. shares \in Seq(Share) /\ x \in Share /\ i \in 1..Len(shares)
  BY TypeFacts
<1>2. x.references + 1 \in 1..(MaxGets + 1)
  BY <1>1, SharedMemConstants DEF Share
<1>3. y \in Share /\ SameObject(x, y) /\ y.references = x.references + 1
  <2> HIDE DEF x
  <2> QED
    BY <1>1, <1>2 DEF Share, SameObject
<1>4. shares' = [shares EXCEPT ![i] = y]
  OBVIOUS
<1> HIDE DEF y
<1>5. /\ shares' \in Seq(Share) /\ DOMAIN shares' = DOMAIN shares /\ shares'[i] = y
      /\ \A j \in DOMAIN shares : j # i => shares'[j] = shares[j]
  BY <1>1, <1>3, <1>4, ExceptSeq
<1>6. \A j \in DOMAIN shares : j # i => SameObject(shares[j], shares'[j])
  BY <1>5 DEF SameObject
<1> QED
  BY <1>3, <1>5, <1>6

(* One more getter of an object, and of no other.                          *)
LEMMA GettersMore ==
  ASSUME NEW p \in Procs, NEW k, k.use = "getter", k \notin held[p],
         held'[p] = held[p] \cup {k},
         \A q \in Procs \ {p} : held'[q] = held[q]
  PROVE  /\ Getters(k.owner, k.name)' = Getters(k.owner, k.name) \cup {<<p, k>>}
         /\ <<p, k>> \notin Getters(k.owner, k.name)
         /\ \A o, n : ~(o = k.owner /\ n = k.name) => Getters(o, n)' = Getters(o, n)
<1>1. ASSUME NEW x
      PROVE  x \in GettersOf(held', k.owner, k.name) <=>
               x \in GettersOf(held, k.owner, k.name) \/ x = <<p, k>>
  <2>1. x \in GettersOf(held', k.owner, k.name) =>
          x \in GettersOf(held, k.owner, k.name) \/ x = <<p, k>>
    <3> SUFFICES ASSUME x \in GettersOf(held', k.owner, k.name)
                 PROVE  x \in GettersOf(held, k.owner, k.name) \/ x = <<p, k>>
      OBVIOUS
    <3>1. PICK q \in Procs : \E h \in held'[q] :
            x = <<q, h>> /\ h.use = "getter" /\ h.owner = k.owner /\ h.name = k.name
      BY GettersIs
    <3>2. PICK h \in held'[q] :
            x = <<q, h>> /\ h.use = "getter" /\ h.owner = k.owner /\ h.name = k.name
      BY <3>1
    <3>3. h \in held[q] \/ (q = p /\ h = k)
      BY <3>2
    <3> QED
      BY <3>2, <3>3, GettersIs
  <2>2. x \in GettersOf(held, k.owner, k.name) => x \in GettersOf(held', k.owner, k.name)
    <3>1. \A q \in Procs : held[q] \subseteq held'[q]
      OBVIOUS
    <3> QED
      BY <3>1, GettersIs
  <2>3. x = <<p, k>> => x \in GettersOf(held', k.owner, k.name)
    BY GettersIs
  <2> QED
    BY <2>1, <2>2, <2>3
<1>2. ASSUME NEW o, NEW n, ~(o = k.owner /\ n = k.name), NEW x
      PROVE  x \in GettersOf(held', o, n) <=> x \in GettersOf(held, o, n)
  <2>1. \A q \in Procs : \A h : h.owner = o /\ h.name = n =>
          (h \in held'[q] <=> h \in held[q])
    BY <1>2
  <2> QED
    BY <2>1, GettersIs
<1>3. <<p, k>> \notin GettersOf(held, k.owner, k.name)
  BY GettersIs
<1>4. GettersOf(held', k.owner, k.name) = GettersOf(held, k.owner, k.name) \cup {<<p, k>>}
  <2>1. \A x : x \in GettersOf(held', k.owner, k.name) <=>
               x \in GettersOf(held, k.owner, k.name) \/ x = <<p, k>>
    BY <1>1
  <2> HIDE DEF GettersOf
  <2> QED
    BY <2>1
<1>5. ASSUME NEW o, NEW n, ~(o = k.owner /\ n = k.name)
      PROVE  GettersOf(held', o, n) = GettersOf(held, o, n)
  <2>1. \A x : x \in GettersOf(held', o, n) <=> x \in GettersOf(held, o, n)
    BY <1>2, <1>5
  <2> QED
    BY <2>1
<1>6. \A o, n : Getters(o, n) = GettersOf(held, o, n) /\ Getters(o, n)' = GettersOf(held', o, n)
  BY DEF Getters, GettersOf
<1>7. \A o, n : ~(o = k.owner /\ n = k.name) => Getters(o, n)' = Getters(o, n)
  BY <1>5, <1>6
<1> QED
  BY <1>3, <1>4, <1>6, <1>7

(* sget has mapped the object.                                             *)
LEMMA GetStep ==
  ASSUME IInv, NEW p \in Procs, GetShare(p)
  PROVE  IInv' /\ Apart(p) /\ Steady(p)
<1> DEFINE c == call[p]
<1>0. PICK k : k = [va |-> c.va, size |-> c.size, use |-> "getter",
                    owner |-> c.owner, name |-> c.name]
  OBVIOUS
<1>1. /\ TypeOK /\ Counted(phys, LowFrames) /\ Local(p) /\ ClaimsOK /\ ListOK /\ PrivateOK
      /\ \A q \in Procs : Local(q)
  BY DEF IInv
<1>2. c.step = "get" /\ Live(p) /\ InCall(p) /\ ~Creating(p)
  <2>1. c.step = "get"
    BY DEF GetShare, Ready
  <2> QED
    BY <2>1 DEF Live, InCall, Creating
<1>3. /\ c.size >= 1 /\ c.name \in Names /\ c.frames = <<>> /\ c.va # 0
      /\ \E i \in FindShare(c.owner, c.name) : shares[i].size = c.size
  BY <1>1, <1>2 DEF Local, CallOK
<1>4. PICK i \in FindShare(c.owner, c.name) : shares[i].size = c.size
  BY <1>3
<1>5. /\ i \in DOMAIN shares /\ shares[i].owner = c.owner /\ shares[i].name = c.name
      /\ Min(FindShare(c.owner, c.name)) = i
  <2> HIDE DEF c
  <2> QED
    BY <1>1, <1>4, TheObject
<1>6. /\ shares[i].references <= MaxGets
      /\ phys' = MapFrames(phys, p, shares[i].frames, c.va, shares[i].writable)
      /\ shares' = [shares EXCEPT ![i].references = @ + 1]
      /\ call' = [call EXCEPT ![p] = Idle(p)]
      /\ held' = [held EXCEPT ![p] = held[p] \cup {k}]
      /\ heap' = heap /\ kblocks' = kblocks /\ leaked' = leaked /\ panic' = panic
  BY <1>0, <1>5 DEF GetShare, Return
<1>7. /\ c.va \in Pages /\ c.va \in Nat /\ c.size \in 1..MaxPages /\ c.size \in Nat
      /\ c.owner \in Procs /\ heap[p] \in HeapState /\ shares[i].frames \in Seq(FrameNums)
      /\ shares[i].writable \in BOOLEAN /\ Len(shares[i].frames) = c.size
      /\ DOMAIN shares[i].frames = 1..c.size
  <2>1. c.size \in 0..MaxPages /\ MaxPages \in Nat
    BY <1>1, TypeFacts
  <2>2. Len(shares[i].frames) = c.size /\ shares[i].frames \in Seq(FrameNums)
    BY <1>1, <1>4, <1>5, TypeFacts DEF ListOK
  <2>3. DOMAIN shares[i].frames = 1..c.size
    BY <2>2, LenProperties
  <2> QED
    BY <1>1, <1>3, <1>5, <2>1, <2>2, <2>3, TypeFacts
<1>8. /\ Idle(p) \in CallState /\ Idle(p).step = "idle" /\ Idle(p).va = 0
      /\ Idle(p).frames = <<>>
  <2>1. "idle" \in Steps
    BY DEF Steps
  <2> QED
    BY <2>1, IdleIs
<1>9. /\ call' \in [Procs -> CallState] /\ call'[p] = Idle(p)
      /\ \A q \in Procs \ {p} : call'[q] = call[q]
  BY <1>1, <1>6, <1>8, TypeFacts
<1>10. /\ k \in Holding /\ k.va = c.va /\ k.size = c.size /\ k.use = "getter"
       /\ k.owner = c.owner /\ k.name = c.name /\ Extent(k) = Extent(c)
  <2> HIDE DEF c
  <2> QED
    BY <1>0, <1>3, <1>7 DEF Holding, Extent
<1>11. /\ shares' \in Seq(Share) /\ DOMAIN shares' = DOMAIN shares
       /\ \A j \in DOMAIN shares : SameObject(shares[j], shares'[j])
       /\ shares'[i].references = shares[i].references + 1
       /\ \A j \in DOMAIN shares : j # i => shares'[j] = shares[j]
  BY <1>1, <1>5, <1>6, OneMore
<1>12. /\ held' \in [Procs -> SUBSET Holding] /\ held'[p] = held[p] \cup {k}
       /\ \A q \in Procs \ {p} : held'[q] = held[q]
  <2>1. held[p] \cup {k} \in SUBSET Holding /\ held \in [Procs -> SUBSET Holding]
    BY <1>1, <1>10, TypeFacts
  <2> QED
    BY <1>6, <2>1
<1>13. /\ HeapOK(p) /\ Tiled(heap[p]) /\ heap[p].break < HeapMax
       /\ Extent(c) \in Used(p) /\ c.va \notin leaked[p]
       /\ \A h \in held[p] : Extent(h) \in Used(p) /\ h.va # c.va
  BY <1>1, <1>2, <1>3 DEF Local, HeapOK
<1>14. /\ Span(c.va, c.size) \subseteq HeapStart..(HeapMax - 1)
       /\ Span(c.va, c.size) \subseteq Pages
       /\ \A h \in held[p] : Span(h.va, h.size) \cap Span(c.va, c.size) = {}
  <2>1. /\ InUse(c.va, c.size) \in UsedIn(heap[p].regions)
        /\ \A h \in held[p] : InUse(h.va, h.size) \in UsedIn(heap[p].regions) /\ h.va # c.va
    BY <1>13 DEF Extent, Used
  <2> HIDE DEF c
  <2> QED
    BY <1>7, <1>13, <2>1, RegionPages
<1>15. \A b \in Span(c.va, c.size) : phys.pte[p][b].frame = NoFrame
  <2>1. Len(c.frames) = 0 /\ Span(c.va, 0) = {}
    BY <1>3, <1>7 DEF Span
  <2>2. ASSUME NEW b \in HeapStart..(HeapMax - 1), FrameAt(p, b) # NoFrame
        PROVE  \E h \in held[p] : b \in Span(h.va, h.size)
    <3>1. \/ \E h \in held[p] : b \in Span(h.va, h.size)
          \/ b \in Span(c.va, Len(c.frames))
      BY <1>1, <1>2, <2>2 DEF Local, PagesOK
    <3> QED
      BY <2>1, <3>1
  <2> QED
    BY <1>14, <2>2 DEF FrameAt
<1>16. \A f \in Range(shares[i].frames) :
         f \in FrameNums /\ f \notin Reserved(KernelEnd) /\ phys.refs[f] # 0 /\ Claimed(f)
  BY <1>1, <1>5 DEF ClaimsOK, Claimed
<1>17. /\ Counted(phys', LowFrames) /\ Elsewhere(phys, phys', p, c.va, c.size)
       /\ \A j \in 1..c.size : /\ phys'.pte[p][c.va + j - 1].frame = shares[i].frames[j]
                               /\ phys'.pte[p][c.va + j - 1].writable = shares[i].writable
       /\ \A f \in FrameNums : phys.refs[f] # 0 => phys'.refs[f] # 0
  <2> DEFINE a == c.va
             n == c.size
             fs == shares[i].frames
             w == shares[i].writable
             low == LowFrames
  <2>1. /\ Counted(phys, low) /\ a \in Nat /\ fs \in Seq(FrameNums) /\ w \in BOOLEAN
        /\ Len(fs) = n /\ Span(a, n) \subseteq Pages
        /\ \A b \in Span(a, n) : phys.pte[p][b].frame = NoFrame
        /\ \A f \in Range(fs) : f \notin Reserved(KernelEnd) /\ phys.refs[f] # 0
        /\ phys' = MapFrames(phys, p, fs, a, w)
    BY <1>1, <1>6, <1>7, <1>14, <1>15, <1>16
  <2> HIDE DEF a, n, fs, w, low
  <2>2. LET t == MapFrames(phys, p, fs, a, w)
        IN  /\ Counted(t, low) /\ Elsewhere(phys, t, p, a, Len(fs))
            /\ \A j \in 1..Len(fs) : /\ t.pte[p][a + j - 1].frame = fs[j]
                                     /\ t.pte[p][a + j - 1].writable = w
            /\ \A f \in FrameNums : phys.refs[f] # 0 => t.refs[f] # 0
    BY <2>1, MapFramesIs
  <2> QED
    BY <2>1, <2>2 DEF a, n, fs, w, low
<1>18. phys \in PhysState /\ phys' \in PhysState
  BY <1>1, <1>17 DEF Counted
<1>19. \A q \in Procs \ {p} : phys'.pte[q] = phys.pte[q]
  BY <1>17, <1>18, RowSame
<1>20. \A b \in Pages : b \notin Span(c.va, c.size) => phys'.pte[p][b] = phys.pte[p][b]
  BY <1>17 DEF Elsewhere
<1>21. Apart(p) /\ ListGrows(p) /\ ClaimsKept
  <2>1. Apart(p)
    BY <1>6, <1>9, <1>12, <1>19 DEF Apart
  <2>2. ListGrows(p)
    BY <1>11 DEF ListGrows
  <2>3. ClaimsKept
    BY <1>3, <1>8, <1>9, <1>11 DEF ClaimsKept
  <2> QED
    BY <2>1, <2>2, <2>3
<1>22. LowFrames' = LowFrames /\ \A f : Claimed(f)' <=> Claimed(f)
  BY <1>21, ClaimsKeptIs
<1>23. Counted(phys', LowFrames')
  BY <1>17, <1>22
<1>24. TypeOK'
  BY <1>1, <1>6, <1>9, <1>11, <1>12, <1>18 DEF TypeOK, PhysState, CallState
<1>25. \A h \in held[p] : /\ Span(h.va, h.size) \subseteq Pages
                          /\ \A b \in Span(h.va, h.size) : phys'.pte[p][b] = phys.pte[p][b]
  <2>1. \A h \in held[p] : Span(h.va, h.size) \subseteq Pages
    BY <1>13 DEF HeapOK
  <2> QED
    BY <1>14, <1>20, <2>1
<1>26. Steady(p)
  BY <1>25 DEF Steady
<1>27. ~InCall(p)' /\ ~Creating(p)' /\ Live(p)'
  BY <1>8, <1>9 DEF InCall, Creating, Live
<1>28. CallOK(p)'
  BY <1>8, <1>9, <1>27 DEF CallOK
<1>29. HeapOK(p)'
  <2>1. {h.va : h \in held'[p]} = {h.va : h \in held[p]} \cup {c.va}
    BY <1>10, <1>12
  <2>2. Causes(p)' = Causes(p)
    BY <1>2, <1>3, <1>6, <1>27, <2>1 DEF Causes
  <2>3. Used(p)' = Used(p)
    BY <1>6 DEF Used
  <2>4. \A h \in held[p] : h.va # 0
    <3>1. ASSUME NEW h \in held[p] PROVE h.va # 0
      <4>1. InUse(h.va, h.size) \in UsedIn(heap[p].regions)
        BY <1>13 DEF Extent, Used
      <4> QED
        BY <1>7, <1>13, <4>1, RegionPages
    <3> QED
      BY <3>1
  <2>5. ASSUME NEW h \in held'[p]
        PROVE  /\ Span(h.va, h.size) \subseteq Pages /\ Extent(h) \in Used(p)
               /\ h.va \notin leaked[p] /\ h.va # 0
               /\ \A m \in held'[p] : h.va = m.va => h = m
    <3>1. CASE h \in held[p]
      <4>1. /\ Span(h.va, h.size) \subseteq Pages /\ Extent(h) \in Used(p)
            /\ h.va \notin leaked[p] /\ h.va # c.va
            /\ \A m \in held[p] : h.va = m.va => h = m
        BY <1>2, <1>13, <3>1 DEF HeapOK
      <4> QED
        BY <1>10, <1>12, <2>4, <3>1, <4>1
    <3>2. CASE h = k
      BY <1>3, <1>10, <1>12, <1>13, <1>14, <3>2
    <3> QED
      BY <1>12, <3>1, <3>2
  <2>6. call'[p].va = 0
    BY <1>8, <1>9
  <2> QED
    BY <1>2, <1>6, <1>13, <1>27, <2>2, <2>3, <2>5, <2>6 DEF HeapOK
<1>30. PagesOK(p)'
  <2>1. PagesOK(p) /\ HeapStart..(HeapMax - 1) \subseteq Pages
        /\ 0..(HeapStart - 1) \subseteq Pages
    BY <1>1, PhysConstants DEF Local, Pages
  <2>2. ASSUME NEW b \in HeapStart..(HeapMax - 1), FrameAt(p, b)' # NoFrame
        PROVE  \E h \in held'[p] : b \in Span(h.va, h.size)
    <3>1. CASE b \in Span(c.va, c.size)
      BY <1>10, <1>12, <3>1
    <3>2. CASE b \notin Span(c.va, c.size)
      <4>1. FrameAt(p, b) # NoFrame
        BY <1>20, <2>1, <2>2, <3>2 DEF FrameAt
      <4>2. Len(c.frames) = 0 /\ Span(c.va, 0) = {}
        BY <1>3, <1>7 DEF Span
      <4>3. \/ \E h \in held[p] : b \in Span(h.va, h.size)
            \/ b \in Span(c.va, Len(c.frames))
        BY <1>2, <2>1, <4>1 DEF PagesOK
      <4> QED
        BY <1>12, <4>2, <4>3
    <3> QED
      BY <3>1, <3>2
  <2>3. ASSUME NEW b \in 0..(HeapStart - 1), FrameAt(p, b)' # NoFrame
        PROVE  FrameAt(p, b)' \in LowFrames
    <3>1. b \in Pages /\ b \notin Span(c.va, c.size)
      BY <1>14, <2>1, PhysConstants
    <3>2. FrameAt(p, b)' = FrameAt(p, b)
      BY <1>20, <3>1 DEF FrameAt
    <3> QED
      BY <2>1, <2>3, <3>2 DEF PagesOK
  <2>4. call'[p].va = 0
    BY <1>8, <1>9
  <2> QED
    BY <1>22, <2>2, <2>3, <2>4 DEF PagesOK
<1>31. SeesOK(p)'
  <2>1. ASSUME NEW h \in held'[p], h.use # "private"
        PROVE  Sees(p, h)'
    <3>1. CASE h \in held[p]
      <4>1. Sees(p, h)
        BY <1>1, <2>1, <3>1 DEF Local, SeesOK
      <4> QED
        BY <1>1, <1>21, <1>25, <3>1, <4>1, SeesStays
    <3>2. CASE h = k
      <4>1. /\ shares'[i].owner = h.owner /\ shares'[i].name = h.name
            /\ shares'[i].size = h.size /\ shares'[i].frames = shares[i].frames
            /\ shares'[i].writable = shares[i].writable /\ h.use # "creator"
        BY <1>4, <1>5, <1>10, <1>11, <3>2 DEF SameObject
      <4>2. i \in FindShare(h.owner, h.name)'
        BY <1>5, <1>11, <4>1 DEF FindShare
      <4>3. h.va = c.va /\ h.size = c.size
        BY <1>10, <3>2
      <4>4. \A j \in 1..h.size :
              /\ phys'.pte[p][h.va + j - 1].frame = shares'[i].frames[j]
              /\ phys'.pte[p][h.va + j - 1].writable = shares'[i].writable
        BY <1>17, <4>1, <4>3
      <4> HIDE DEF c
      <4>5. \A j \in 1..h.size :
              LET e == phys'.pte[p][h.va + j - 1]
              IN  /\ e.frame = shares'[i].frames[j]
                  /\ e.writable = (h.use = "creator" \/ shares'[i].writable)
        <5>1. shares'[i].writable \in BOOLEAN
          BY <1>7, <4>1
        <5> QED
          BY <4>1, <4>4, <5>1
      <4> QED
        BY <4>1, <4>2, <4>5 DEF Sees
    <3> QED
      BY <1>12, <3>1, <3>2
  <2> QED
    BY <2>1 DEF SeesOK
<1>32. Local(p)'
  BY <1>28, <1>29, <1>30, <1>31 DEF Local
<1>33. ClaimsOK'
  <2>1. \A f : Claimed(f) => phys'.refs[f] # 0
    BY <1>1, <1>17 DEF ClaimsOK
  <2> QED
    BY <1>1, <1>21, <2>1, ClaimsOKKept
<1>34. PrivateOK'
  <2>1. ASSUME NEW o \in Procs, NEW b \in Pages
        PROVE  FrameAt(o, b)' = FrameAt(o, b) \/ Claimed(FrameAt(o, b)')
    <3>1. CASE o = p /\ b \in Span(c.va, c.size)
      <4>1. PICK j \in 1..c.size : b = c.va + j - 1
        <5> HIDE DEF c
        <5>1. b \in c.va..(c.va + c.size - 1)
          BY <3>1 DEF Span
        <5>2. b - c.va + 1 \in 1..c.size /\ b = c.va + (b - c.va + 1) - 1
          BY <1>7, <5>1
        <5> QED
          BY <5>2
      <4>2. FrameAt(o, b)' = shares[i].frames[j]
        BY <1>17, <3>1, <4>1 DEF FrameAt
      <4>3. shares[i].frames[j] \in Range(shares[i].frames)
        BY <1>7 DEF Range
      <4> QED
        BY <1>16, <4>2, <4>3
    <3>2. CASE ~(o = p /\ b \in Span(c.va, c.size))
      BY <1>17, <3>2 DEF Elsewhere, FrameAt
    <3> QED
      BY <3>1, <3>2
  <2>2. ASSUME NEW q \in Procs, NEW h \in held'[q], h.use = "private",
               NEW a \in Span(h.va, h.size), FrameAt(q, a)' # NoFrame
        PROVE  /\ ~Claimed(FrameAt(q, a))'
               /\ \A o \in Procs, b \in Pages : FrameAt(o, b)' = FrameAt(q, a)' => o = q /\ b = a
    <3>1. h \in held[q]
      BY <1>10, <1>12, <2>2
    <3>2. a \in Pages /\ FrameAt(q, a)' = FrameAt(q, a)
      <4>1. CASE q = p
        BY <1>25, <3>1, <4>1 DEF FrameAt
      <4>2. CASE q # p
        <5>1. HeapOK(q)
          BY <1>1 DEF Local
        <5> QED
          BY <1>19, <3>1, <4>2, <5>1 DEF FrameAt, HeapOK
      <4> QED
        BY <4>1, <4>2
    <3>3. /\ ~Claimed(FrameAt(q, a))
          /\ \A o \in Procs, b \in Pages : FrameAt(o, b) = FrameAt(q, a) => o = q /\ b = a
      BY <1>1, <2>2, <3>1, <3>2 DEF PrivateOK
    <3> QED
      BY <1>22, <2>1, <3>2, <3>3
  <2> QED
    BY <2>2 DEF PrivateOK
<1>35. ListOK'
  <2>1. k \notin held[p]
    BY <1>10, <1>13
  <2>2. /\ Getters(k.owner, k.name)' = Getters(k.owner, k.name) \cup {<<p, k>>}
        /\ <<p, k>> \notin Getters(k.owner, k.name)
        /\ \A o, n : ~(o = k.owner /\ n = k.name) => Getters(o, n)' = Getters(o, n)
    BY <1>10, <1>12, <2>1, GettersMore
  <2>3. \A j \in DOMAIN shares' : /\ shares'[j].owner = shares[j].owner
                                  /\ shares'[j].name = shares[j].name
                                  /\ shares'[j].frames = shares[j].frames
                                  /\ shares'[j].size = shares[j].size
    BY <1>11 DEF SameObject
  <2>4. ASSUME NEW j \in DOMAIN shares', NEW m \in DOMAIN shares',
               shares'[j].owner = shares'[m].owner, shares'[j].name = shares'[m].name
        PROVE  j = m
    BY <1>1, <1>11, <2>3, <2>4 DEF ListOK
  <2>5. ASSUME NEW j \in DOMAIN shares'
        PROVE  LET G == Getters(shares[j].owner, shares[j].name)'
               IN  /\ Len(shares'[j].frames) = shares'[j].size
                   /\ IsFiniteSet(G) /\ shares'[j].references = 1 + Cardinality(G)
    <3>1. Len(shares'[j].frames) = shares'[j].size
      BY <1>1, <1>11, <2>3 DEF ListOK
    <3>2. CASE j = i
      <4> DEFINE G == Getters(k.owner, k.name)
      <4>1. IsFiniteSet(G) /\ shares[i].references = 1 + Cardinality(G)
        BY <1>1, <1>5, <1>10 DEF ListOK
      <4>2. Getters(shares[j].owner, shares[j].name)' = G \cup {<<p, k>>}
        <5>1. shares'[j].owner = k.owner /\ shares'[j].name = k.name
          BY <1>5, <1>10, <2>3, <3>2
        <5>2. Getters(shares[j].owner, shares[j].name)' = Getters(k.owner, k.name)'
          BY <5>1 DEF Getters
        <5> QED
          BY <2>2, <5>2
      <4> HIDE DEF G
      <4>3. /\ IsFiniteSet(G \cup {<<p, k>>})
            /\ Cardinality(G \cup {<<p, k>>}) = Cardinality(G) + 1
            /\ Cardinality(G) \in Nat
        BY <2>2, <4>1, FS_AddElement, FS_CardinalityType DEF G
      <4> QED
        BY <1>11, <3>1, <3>2, <4>1, <4>2, <4>3
    <3>3. CASE j # i
      <4>1. shares'[j] = shares[j] /\ j \in DOMAIN shares
        BY <1>11, <3>3
      <4>2. ~(shares[j].owner = k.owner /\ shares[j].name = k.name)
        BY <1>1, <1>5, <1>10, <3>3, <4>1 DEF ListOK
      <4>3. Getters(shares[j].owner, shares[j].name)' = Getters(shares[j].owner, shares[j].name)
        <5>1. Getters(shares[j].owner, shares[j].name)' = GettersOf(held', shares[j].owner, shares[j].name)
          BY <4>1 DEF Getters, GettersOf
        <5> DEFINE o == shares[j].owner
                   n == shares[j].name
        <5>2. Getters(o, n) = GettersOf(held, o, n)
          BY DEF Getters, GettersOf
        <5>3. \A x, y : Getters(x, y)' = GettersOf(held', x, y)
          BY DEF Getters, GettersOf
        <5>4. \A x, y : Getters(x, y) = GettersOf(held, x, y)
          BY DEF Getters, GettersOf
        <5>5. \A x, y : ~(x = k.owner /\ y = k.name) => GettersOf(held', x, y) = GettersOf(held, x, y)
          BY <2>2, <5>3, <5>4
        <5> QED
          BY <4>2, <5>1, <5>2, <5>5
      <4> QED
        BY <1>1, <3>1, <4>1, <4>3 DEF ListOK
    <3> QED
      BY <3>2, <3>3
  <2> QED
    BY <2>4, <2>5 DEF ListOK
<1> QED
  BY <1>21, <1>22, <1>23, <1>24, <1>26, <1>32, <1>33, <1>34, <1>35, Together

(* The list of free frames at the start: every frame that is not reserved, *)
(* once.                                                                   *)
LEMMA InitialListIs ==
  LET L == InitialFreeList(KernelEnd)
  IN  /\ L \in Seq(FrameNums) /\ NoDup(L)
      /\ \A f \in FrameNums : f \in Range(L) <=> f \notin Reserved(KernelEnd)
<1> DEFINE m == IoStart - 3
           n == NFrames - KernelEnd
           A == [i \in 1..m |-> i + 2]
           B == [i \in 1..n |-> KernelEnd + i - 1]
           C == A \o B
           At(i) == IF i <= m THEN i + 2 ELSE KernelEnd + (i - m) - 1
           L == Reverse(C)
<1>1. /\ m \in Nat /\ n \in Nat /\ IoStart = m + 3 /\ NFrames = KernelEnd + n
      /\ IoStart <= KernelEnd /\ KernelEnd \in Nat /\ IoStart \in Nat
      /\ Extended \in Nat /\ IoStart <= Extended /\ Extended <= KernelEnd /\ NFrames \in Nat
  BY PhysConstants
<1>2. /\ A \in Seq(Int) /\ Len(A) = m /\ \A i \in 1..m : A[i] = i + 2
      /\ B \in Seq(Int) /\ Len(B) = n /\ \A i \in 1..n : B[i] = KernelEnd + i - 1
  BY <1>1
<1> HIDE DEF A, B
<1>3. /\ C \in Seq(Int) /\ Len(C) = m + n
      /\ \A i \in 1..(m + n) : C[i] = IF i <= m THEN A[i] ELSE B[i - m]
  <2> HIDE DEF m, n
  <2>1. /\ C \in Seq(Int) /\ Len(C) = Len(A) + Len(B)
        /\ \A i \in 1..(Len(A) + Len(B)) : C[i] = IF i <= Len(A) THEN A[i] ELSE B[i - Len(A)]
    BY <1>2, ConcatProperties
  <2> HIDE DEF C
  <2> QED
    BY <1>2, <2>1
<1> HIDE DEF C, m, n
<1>4. \A i \in 1..(m + n) : C[i] = At(i)
  <2>1. ASSUME NEW i \in 1..(m + n) PROVE C[i] = At(i)
    <3>1. CASE i <= m
      BY <1>1, <1>2, <1>3, <3>1
    <3>2. CASE ~(i <= m)
      <4>1. i - m \in 1..n
        BY <1>1, <3>2
      <4> QED
        BY <1>2, <1>3, <3>2, <4>1
    <3> QED
      BY <3>1, <3>2
  <2> QED
    BY <2>1
<1>5. \A i \in 1..(m + n) : At(i) \in FrameNums /\ At(i) \notin Reserved(KernelEnd)
  <2>1. \A f : f \in FrameNums <=> f \in Int /\ 0 <= f /\ f < NFrames
    BY <1>1 DEF FrameNums
  <2>2. \A f \in Int : f \in Reserved(KernelEnd) <=>
          f \in {0, 1, 2} \/ (IoStart <= f /\ f < Extended) \/ (Extended <= f /\ f < KernelEnd)
    BY <1>1 DEF Reserved
  <2> QED
    BY <1>1, <2>1, <2>2
<1>6. \A i, j \in 1..(m + n) : At(i) = At(j) => i = j
  BY <1>1
<1>7. ASSUME NEW f \in FrameNums, f \notin Reserved(KernelEnd)
      PROVE  \E i \in 1..(m + n) : At(i) = f
  <2>1. f \in Nat /\ f < NFrames /\ f # 0 /\ f # 1 /\ f # 2
        /\ ~(IoStart <= f /\ f < Extended) /\ ~(Extended <= f /\ f < KernelEnd)
    BY <1>1, <1>7 DEF FrameNums, Reserved
  <2>2. CASE f < IoStart
    <3>1. f - 2 \in 1..(m + n) /\ At(f - 2) = f
      BY <1>1, <2>1, <2>2
    <3> QED
      BY <3>1
  <2>3. CASE f >= KernelEnd
    <3>1. f - KernelEnd + 1 + m \in 1..(m + n) /\ At(f - KernelEnd + 1 + m) = f
      BY <1>1, <2>1, <2>3
    <3> QED
      BY <3>1
  <2> QED
    BY <1>1, <2>1, <2>2, <2>3
<1> HIDE DEF At
<1>8. /\ L = [i \in 1..(m + n) |-> C[(m + n - i) + 1]]
  BY <1>1, <1>3 DEF Reverse
<1>9. /\ Len(L) = m + n /\ DOMAIN L = 1..(m + n)
      /\ \A i \in 1..(m + n) : (m + n - i) + 1 \in 1..(m + n) /\ L[i] = At((m + n - i) + 1)
  <2>1. \A i \in 1..(m + n) : (m + n - i) + 1 \in 1..(m + n)
    BY <1>1
  <2>2. DOMAIN L = 1..(m + n) /\ m + n \in Nat
    BY <1>1, <1>8
  <2>3. Len(L) = m + n
    BY <2>2, <1>8
  <2> HIDE DEF L
  <2> QED
    BY <1>4, <1>8, <2>1, <2>2, <2>3
<1>10. L \in Seq(FrameNums)
  <2>1. \A i \in 1..(m + n) : C[(m + n - i) + 1] \in FrameNums
    BY <1>4, <1>5, <1>9
  <2>2. m + n \in Nat
    BY <1>1
  <2> QED
    BY <1>8, <2>1, <2>2
<1> HIDE DEF L
<1>11. NoDup(L)
  BY <1>1, <1>6, <1>9 DEF NoDup
<1>12. ASSUME NEW f \in FrameNums
       PROVE  f \in Range(L) <=> f \notin Reserved(KernelEnd)
  <2>1. ASSUME f \in Range(L) PROVE f \notin Reserved(KernelEnd)
    BY <1>5, <1>9, <2>1 DEF Range
  <2>2. ASSUME f \notin Reserved(KernelEnd) PROVE f \in Range(L)
    <3>1. PICK i \in 1..(m + n) : At(i) = f
      BY <1>7, <2>2
    <3>2. /\ (m + n - i) + 1 \in 1..(m + n)
          /\ (m + n - ((m + n - i) + 1)) + 1 = i
      BY <1>1
    <3>3. L[(m + n - i) + 1] = f
      BY <1>9, <3>1, <3>2
    <3> QED
      BY <1>9, <3>2, <3>3 DEF Range
  <2> QED
    BY <2>1, <2>2
<1> QED
  BY <1>10, <1>11, <1>12 DEF L, C, A, B, m, n, InitialFreeList

(* The invariant holds at the start.                                       *)
LEMMA InitInvariant == Init => IInv
<1> SUFFICES ASSUME Init PROVE IInv
  OBVIOUS
<1>1. /\ phys = [free |-> InitialFreeList(KernelEnd), refs |-> InitialReferences(KernelEnd),
                 pte |-> [p \in Procs |-> [a \in Pages |-> Empty]]]
      /\ heap = [p \in Procs |-> EmptyHeap] /\ shares = <<>> /\ kblocks = KernelBlocks
      /\ call = [p \in Procs |-> Idle(p)] /\ held = [p \in Procs |-> {}]
      /\ leaked = [p \in Procs |-> {}] /\ panic = FALSE
  BY DEF Init
<1>2. Empty \in Entry /\ Empty.frame = NoFrame
  BY PhysConstants DEF Empty, Entry
<1>3. /\ phys.free = InitialFreeList(KernelEnd)
      /\ phys.refs \in [FrameNums -> Nat]
      /\ \A f \in FrameNums : phys.refs[f] = IF f \in Reserved(KernelEnd) THEN 1 ELSE 0
      /\ phys.pte \in [Procs -> [Pages -> Entry]]
      /\ \A q \in Procs, b \in Pages : phys.pte[q][b].frame = NoFrame
  BY <1>1, <1>2 DEF InitialReferences
<1>4. phys \in PhysState
  <2>1. phys = [free |-> phys.free, refs |-> phys.refs, pte |-> phys.pte]
    BY <1>1
  <2>2. phys.free \in Seq(FrameNums)
    BY <1>3, InitialListIs
  <2> QED
    BY <1>3, <2>1, <2>2 DEF PhysState
<1>5. \A p \in Procs : /\ Idle(p) \in CallState /\ Idle(p).step = "idle"
                       /\ Idle(p).va = 0 /\ Idle(p).frames = <<>>
  <2>1. "idle" \in Steps
    BY DEF Steps
  <2> QED
    BY <2>1, IdleIs
<1>6. \A p \in Procs : /\ call[p] = Idle(p) /\ held[p] = {} /\ leaked[p] = {}
                       /\ heap[p] = EmptyHeap
  BY <1>1
<1>7. TypeOK
  <2>1. heap \in [Procs -> HeapState]
    BY <1>1, EmptyHeapIs
  <2>2. shares \in Seq(Share) /\ panic \in BOOLEAN
    <3>1. shares = <<>> /\ panic = FALSE
      BY <1>1
    <3> QED
      BY <3>1, EmptySeq
  <2>3. kblocks \in 0..KernelBlocks
    BY <1>1, SharedMemConstants
  <2>4. call \in [Procs -> CallState]
    BY <1>1, <1>5
  <2>5. held \in [Procs -> SUBSET Holding] /\ leaked \in [Procs -> SUBSET Pages]
    BY <1>1
  <2> QED
    BY <1>4, <2>1, <2>2, <2>3, <2>4, <2>5 DEF TypeOK, PhysState, CallState
<1>8. Range(<<>>) = {} /\ DOMAIN shares = {}
  BY <1>1 DEF Range
<1>9. Counted(phys, LowFrames)
  <2>1. \A f : f # NoFrame => MapsOf(phys, f) = {}
    BY <1>3 DEF MapsOf
  <2>2. NoDup(phys.free)
        /\ \A f \in FrameNums : f \in Range(phys.free) <=> f \notin Reserved(KernelEnd)
    BY <1>3, InitialListIs
  <2>3. \A f \in FrameNums \ Reserved(KernelEnd) : f # NoFrame
    BY PhysConstants
  <2>4. Reserved(KernelEnd) \subseteq FrameNums
    BY PhysConstants
  <2>5. Cardinality({}) = 0
    BY FS_EmptySet
  <2>6. \A f \in FrameNums \ Reserved(KernelEnd) : phys.refs[f] = Cardinality(MapsOf(phys, f))
    BY <1>3, <2>1, <2>3, <2>5
  <2>7. \A f \in FrameNums : f \in Range(phys.free) <=> phys.refs[f] = 0
    BY <1>3, <2>2
  <2>8. \A f \in Reserved(KernelEnd) :
          phys.refs[f] = 1 /\ (f # NoFrame => MapsOf(phys, f) = {})
    BY <1>3, <2>1, <2>4
  <2>9. \A f \in FrameNums \ Reserved(KernelEnd) : phys.refs[f] >= Cardinality(MapsOf(phys, f))
    <3>1. \A f \in FrameNums : phys.refs[f] \in Nat
      BY <1>3
    <3> QED
      BY <2>6, <3>1
  <2> QED
    BY <1>4, <2>2, <2>6, <2>7, <2>8, <2>9 DEF Counted
<1>10. ASSUME NEW p \in Procs PROVE Local(p)
  <2>1. Live(p) /\ ~InCall(p) /\ ~Creating(p) /\ call[p].va = 0 /\ call[p].frames = <<>>
    BY <1>5, <1>6 DEF Live, InCall, Creating
  <2>2. CallOK(p)
    BY <1>5, <1>6, <2>1 DEF CallOK
  <2>3. HeapOK(p)
    <3>1. Used(p) = {}
      BY <1>6, EmptyHeapIs DEF Used
    <3>2. Causes(p) = {}
      BY <1>6, <2>1 DEF Causes
    <3> QED
      BY <1>6, <2>1, <3>1, <3>2, EmptyHeapIs DEF HeapOK
  <2>4. PagesOK(p)
    <3>1. HeapStart..(HeapMax - 1) \subseteq Pages /\ 0..(HeapStart - 1) \subseteq Pages
      BY PhysConstants DEF Pages
    <3> QED
      BY <1>3, <2>1, <3>1 DEF PagesOK, FrameAt
  <2>5. SeesOK(p)
    BY <1>6 DEF SeesOK
  <2> QED
    BY <2>2, <2>3, <2>4, <2>5 DEF Local
<1>11. \A f : ~Claimed(f)
  BY <1>5, <1>6, <1>8 DEF Claimed
<1>12. ClaimsOK
  BY <1>5, <1>6, <1>8, <1>11 DEF ClaimsOK
<1>13. ListOK /\ PrivateOK
  BY <1>6, <1>8 DEF ListOK, PrivateOK
<1> QED
  BY <1>7, <1>9, <1>10, <1>12, <1>13 DEF IInv

(* Nothing happens.                                                        *)
LEMMA StutterStep ==
  ASSUME IInv, UNCHANGED vars
  PROVE  IInv' /\ \A p \in Procs : Apart(p) /\ Steady(p)
<1>1. /\ phys' = phys /\ heap' = heap /\ shares' = shares /\ kblocks' = kblocks
      /\ call' = call /\ held' = held /\ leaked' = leaked /\ panic' = panic
  BY DEF vars
<1>2. /\ TypeOK /\ Counted(phys, LowFrames) /\ ClaimsOK /\ ListOK /\ PrivateOK
      /\ \A q \in Procs : Local(q)
  BY DEF IInv
<1>3. TypeOK'
  BY <1>1, <1>2 DEF TypeOK
<1>4. ClaimsKept
  BY <1>1 DEF ClaimsKept, SameObject
<1>5. LowFrames' = LowFrames
  BY <1>4, ClaimsKeptIs
<1>6. ClaimsOK'
  BY <1>1, <1>2, <1>4, ClaimsOKKept DEF ClaimsOK
<1>7. ASSUME NEW p \in Procs
      PROVE  Apart(p) /\ Steady(p) /\ ListGrows(p)
  BY <1>1 DEF Apart, Steady, ListGrows, SameObject
<1>8. \A f : Claimed(f)' <=> Claimed(f)
  BY <1>4, ClaimsKeptIs
<1>9. PrivateOK'
  BY <1>1, <1>2, <1>8 DEF PrivateOK, FrameAt
<1>10. ListOK'
  <2>1. \A o, n : Getters(o, n)' = Getters(o, n)
    BY <1>1 DEF Getters
  <2> QED
    BY <1>1, <1>2, <2>1 DEF ListOK
<1>11. ASSUME NEW p \in Procs PROVE Local(p)'
  BY <1>1, <1>2, <1>5 DEF Local, CallOK, HeapOK, PagesOK, SeesOK, Sees, FindShare,
     FrameAt, Causes, Used, Live, InCall, Creating
<1>12. Counted(phys', LowFrames')
  BY <1>1, <1>2, <1>5
<1> QED
  BY <1>3, <1>6, <1>7, <1>9, <1>10, <1>11, <1>12 DEF IInv

(* How the heap of a process that is between two calls answers.            *)
LEMMA AnswerIs ==
  ASSUME IInv, NEW p \in Procs, Ready(p, "idle"), NEW n \in 1..MaxPages,
         NEW r, r = ChooseRegion(heap[p], n)
  PROVE  /\ r.answer \in {"granted", "room", "block", "top block"}
         /\ r.heap \in HeapState
         /\ r.answer # "granted" => r.heap = heap[p] /\ r.va = 0
         /\ r.answer # "granted" => [heap EXCEPT ![p] = r.heap] = heap
         /\ r.answer = "granted" /\ ~BeyondUserHeap(r.va, n) =>
              Grants(p, n, r.va, r.heap, AllocateUserMem(phys, p, r.va, n))
<1>1. TypeOK /\ Counted(phys, LowFrames) /\ Local(p)
  BY DEF IInv
<1>2. Live(p)
  BY <1>1, IdleNow
<1>3. heap[p] \in HeapState /\ Tiled(heap[p]) /\ n \in Nat \ {0}
      /\ heap \in [Procs -> HeapState]
  <2>1. heap[p] \in HeapState /\ MaxPages \in Nat /\ heap \in [Procs -> HeapState]
    BY <1>1, TypeFacts
  <2> QED
    BY <1>1, <1>2, <2>1 DEF Local, HeapOK
<1>4. /\ r.answer \in {"granted", "room", "block", "top block"}
      /\ r.answer # "granted" => r.heap = heap[p] /\ r.va = 0
      /\ r.answer = "granted" => r.heap \in HeapState
  BY <1>3, ChooseIs
<1>5. r.answer # "granted" => [heap EXCEPT ![p] = r.heap] = heap
  BY <1>3, <1>4
<1>6. r.answer = "granted" /\ ~BeyondUserHeap(r.va, n) =>
        Grants(p, n, r.va, r.heap, AllocateUserMem(phys, p, r.va, n))
  BY <1>1, GrantIs
<1> QED
  BY <1>3, <1>4, <1>5, <1>6

(* malloc, whatever its heap answers.                                      *)
LEMMA MallocStep ==
  ASSUME IInv, NEW p \in Procs, NEW n \in 1..MaxPages, Malloc(p, n)
  PROVE  IInv' /\ Apart(p) /\ Steady(p)
<1>1. PICK r : r = ChooseRegion(heap[p], n)
  OBVIOUS
<1>2. /\ Ready(p, "idle") /\ shares' = shares /\ kblocks' = kblocks
      /\ leaked' = leaked /\ panic' = panic
  BY DEF Malloc
<1>3. /\ r.answer \in {"granted", "room", "block", "top block"}
      /\ r.heap \in HeapState
      /\ r.answer # "granted" => r.heap = heap[p] /\ r.va = 0
      /\ r.answer # "granted" => [heap EXCEPT ![p] = r.heap] = heap
      /\ r.answer = "granted" /\ ~BeyondUserHeap(r.va, n) =>
           Grants(p, n, r.va, r.heap, AllocateUserMem(phys, p, r.va, n))
  BY <1>1, <1>2, AnswerIs
<1>4. CASE r.answer = "granted"
  <2>1. /\ heap' = [heap EXCEPT ![p] = r.heap]
        /\ BeyondUserHeap(r.va, n) => End(p, "ended") /\ phys' = phys /\ held' = held
        /\ ~BeyondUserHeap(r.va, n) =>
             /\ phys' = AllocateUserMem(phys, p, r.va, n)
             /\ held' = [held EXCEPT ![p] = @ \cup
                  {[va |-> r.va, size |-> n, use |-> "private",
                    owner |-> p, name |-> NoName]}]
             /\ call' = call
    BY <1>1, <1>4 DEF Malloc
  <2>2. CASE BeyondUserHeap(r.va, n)
    BY <1>2, <1>3, <2>1, <2>2, EndsStep
  <2>3. CASE ~BeyondUserHeap(r.va, n)
    <3>1. Grants(p, n, r.va, r.heap, phys')
      BY <1>3, <1>4, <2>1, <2>3
    <3> QED
      BY <1>2, <2>1, <2>3, <3>1, TakeStep
  <2> QED
    BY <2>2, <2>3
<1>5. CASE r.answer \in {"room", "block"}
  <2>1. UNCHANGED vars
    BY <1>1, <1>2, <1>5 DEF Malloc, vars
  <2> QED
    BY <2>1, StutterStep
<1>6. CASE r.answer = "top block"
  <2>1. FollowNull(p) /\ phys' = phys /\ heap' = heap /\ held' = held
    BY <1>1, <1>6 DEF Malloc
  <2>2. PICK how \in {"ended", "corrupt"} : End(p, how)
    BY <2>1 DEF FollowNull
  <2>3. heap' = [heap EXCEPT ![p] = r.heap]
    BY <1>3, <1>6, <2>1
  <2> QED
    BY <1>2, <1>3, <2>1, <2>2, <2>3, EndsStep
<1> QED
  BY <1>3, <1>4, <1>5, <1>6

(* The first part of smalloc.                                              *)
LEMMA SmallocStep ==
  ASSUME IInv, NEW p \in Procs, NEW name \in Names, NEW n \in 1..MaxPages,
         NEW w \in BOOLEAN, Smalloc(p, name, n, w)
  PROVE  IInv' /\ Apart(p) /\ Steady(p)
<1>1. PICK r : r = ChooseRegion(heap[p], n)
  OBVIOUS
<1>2. /\ Ready(p, "idle") /\ shares' = shares /\ kblocks' = kblocks
      /\ leaked' = leaked /\ panic' = panic /\ held' = held
      /\ heap' = [heap EXCEPT ![p] = r.heap]
  BY <1>1 DEF Smalloc
<1>3. /\ r.answer \in {"granted", "room", "block", "top block"}
      /\ r.heap \in HeapState
      /\ r.answer # "granted" => r.heap = heap[p] /\ r.va = 0
      /\ r.answer # "granted" => [heap EXCEPT ![p] = r.heap] = heap
      /\ r.answer = "granted" /\ ~BeyondUserHeap(r.va, n) =>
           Grants(p, n, r.va, r.heap, AllocateUserMem(phys, p, r.va, n))
  BY <1>1, <1>2, AnswerIs
<1>4. PICK c : c = [step |-> "lookup", va |-> r.va, size |-> n, writable |-> w,
                    owner |-> p, name |-> name, frames |-> <<>>]
  OBVIOUS
<1>5. /\ c.step = "lookup" /\ c.va = r.va /\ c.size = n /\ c.name = name
      /\ c.frames = <<>> /\ c.owner = p
      /\ r.va \in Pages => c \in CallState
  <2>1. n \in 0..MaxPages /\ "lookup" \in Steps /\ <<>> \in Seq(FrameNums)
    BY SharedMemConstants DEF Steps
  <2> QED
    BY <1>4, <2>1 DEF CallState
<1>6. n >= 1 /\ 0 \in Pages
  BY PhysConstants, SharedMemConstants
<1>7. \/ r.answer = "granted" /\ BeyondUserHeap(r.va, n) /\ End(p, "ended") /\ phys' = phys
      \/ r.answer \in {"room", "top block"} /\ phys' = phys /\ call' = call
      \/ r.answer = "block" /\ phys' = phys /\ call' = [call EXCEPT ![p] = c]
      \/ /\ r.answer = "granted" /\ ~BeyondUserHeap(r.va, n)
         /\ phys' = AllocateUserMem(phys, p, r.va, n) /\ call' = [call EXCEPT ![p] = c]
  BY <1>1, <1>4 DEF Smalloc
<1>8. CASE /\ r.answer = "granted" /\ BeyondUserHeap(r.va, n)
           /\ End(p, "ended") /\ phys' = phys
  BY <1>2, <1>3, <1>8, EndsStep
<1>9. CASE r.answer \in {"room", "top block"} /\ phys' = phys /\ call' = call
  <2>1. UNCHANGED vars
    BY <1>2, <1>3, <1>9 DEF vars
  <2> QED
    BY <2>1, StutterStep
<1>10. CASE r.answer = "block" /\ phys' = phys /\ call' = [call EXCEPT ![p] = c]
  <2>1. heap' = heap /\ r.va = 0
    BY <1>2, <1>3, <1>10
  <2> QED
    BY <1>2, <1>5, <1>6, <1>10, <2>1, NoBlockStep
<1>11. CASE /\ r.answer = "granted" /\ ~BeyondUserHeap(r.va, n)
            /\ phys' = AllocateUserMem(phys, p, r.va, n) /\ call' = [call EXCEPT ![p] = c]
  <2>1. Grants(p, n, r.va, r.heap, phys')
    BY <1>3, <1>11
  <2>2. c \in CallState
    BY <1>5, <2>1 DEF Grants
  <2> QED
    BY <1>2, <1>5, <1>11, <2>1, <2>2, CallStep
<1> QED
  BY <1>7, <1>8, <1>9, <1>10, <1>11

(* The first part of sget.                                                 *)
LEMMA SgetStep ==
  ASSUME IInv, NEW p \in Procs, NEW owner \in Procs, NEW name \in Names,
         Sget(p, owner, name)
  PROVE  IInv' /\ Apart(p) /\ Steady(p)
<1>0. TypeOK /\ ListOK
  BY DEF IInv
<1>1. PICK i : i \in FindShare(owner, name)
  BY DEF Sget
<1>2. PICK n : n = SizeOfShare(owner, name)
  OBVIOUS
<1>3. n = shares[i].size /\ n \in 1..MaxPages
  <2>1. Min(FindShare(owner, name)) = i /\ i \in DOMAIN shares
    BY <1>0, <1>1, TheObject
  <2> QED
    BY <1>0, <1>2, <2>1, TypeFacts DEF SizeOfShare
<1>4. PICK r : r = ChooseRegion(heap[p], n)
  OBVIOUS
<1>5. /\ Ready(p, "idle") /\ shares' = shares /\ kblocks' = kblocks
      /\ leaked' = leaked /\ panic' = panic /\ held' = held
      /\ heap' = [heap EXCEPT ![p] = r.heap]
  BY <1>2, <1>4 DEF Sget
<1>6. /\ r.answer \in {"granted", "room", "block", "top block"}
      /\ r.heap \in HeapState
      /\ r.answer # "granted" => r.heap = heap[p] /\ r.va = 0
      /\ r.answer # "granted" => [heap EXCEPT ![p] = r.heap] = heap
      /\ r.answer = "granted" /\ ~BeyondUserHeap(r.va, n) =>
           Grants(p, n, r.va, r.heap, AllocateUserMem(phys, p, r.va, n))
  BY <1>3, <1>4, <1>5, AnswerIs
<1>7. PICK c : c = [step |-> "get", va |-> r.va, size |-> n, writable |-> FALSE,
                    owner |-> owner, name |-> name, frames |-> <<>>]
  OBVIOUS
<1>8. /\ c.step = "get" /\ c.va = r.va /\ c.size = n /\ c.name = name
      /\ c.frames = <<>> /\ c.owner = owner
      /\ r.va \in Pages => c \in CallState
  <2>1. n \in 0..MaxPages /\ "get" \in Steps /\ <<>> \in Seq(FrameNums)
    BY <1>3, SharedMemConstants DEF Steps
  <2> QED
    BY <1>7, <2>1 DEF CallState
<1>9. \/ r.answer = "granted" /\ BeyondUserHeap(r.va, n) /\ End(p, "ended") /\ phys' = phys
      \/ r.answer \in {"room", "block", "top block"} /\ phys' = phys /\ call' = call
      \/ /\ r.answer = "granted" /\ ~BeyondUserHeap(r.va, n)
         /\ phys' = AllocateUserMem(phys, p, r.va, n) /\ call' = [call EXCEPT ![p] = c]
  BY <1>2, <1>4, <1>7 DEF Sget
<1>10. CASE /\ r.answer = "granted" /\ BeyondUserHeap(r.va, n)
            /\ End(p, "ended") /\ phys' = phys
  BY <1>5, <1>6, <1>10, EndsStep
<1>11. CASE r.answer \in {"room", "block", "top block"} /\ phys' = phys /\ call' = call
  <2>1. UNCHANGED vars
    BY <1>5, <1>6, <1>11 DEF vars
  <2> QED
    BY <2>1, StutterStep
<1>12. CASE /\ r.answer = "granted" /\ ~BeyondUserHeap(r.va, n)
            /\ phys' = AllocateUserMem(phys, p, r.va, n) /\ call' = [call EXCEPT ![p] = c]
  <2>1. Grants(p, n, r.va, r.heap, phys')
    BY <1>6, <1>12
  <2>2. c \in CallState
    BY <1>8, <2>1 DEF Grants
  <2>3. \E j \in FindShare(c.owner, c.name) : shares[j].size = n
    BY <1>1, <1>3, <1>8
  <2> QED
    BY <1>3, <1>5, <1>8, <1>12, <2>1, <2>2, <2>3, CallStep
<1> QED
  BY <1>9, <1>10, <1>11, <1>12

-----------------------------------------------------------------------------
(* Every step of a process keeps the invariant, leaves the other processes *)
(* alone and changes nothing that its own client could see change.         *)
LEMMA ProcessStep ==
  ASSUME IInv, NEW p \in Procs, ClientCall(p) \/ SystemCall(p)
  PROVE  IInv' /\ Apart(p) /\ Steady(p)
<1>1. CASE \E n \in 1..MaxPages : Malloc(p, n)
  BY <1>1, MallocStep
<1>2. CASE \E h \in held[p] : Free(p, h)
  BY <1>2, FreeStep
<1>3. CASE \E h \in held[p] : \E a \in Span(h.va, h.size) : Touch(p, h, a)
  BY <1>3, TouchStep
<1>4. CASE \E name \in Names, n \in 1..MaxPages, w \in BOOLEAN : Smalloc(p, name, n, w)
  BY <1>4, SmallocStep
<1>5. CASE \E owner \in Procs, name \in Names : Sget(p, owner, name)
  BY <1>5, SgetStep
<1>6. CASE CreateShare(p)
  BY <1>6, CreateShareStep
<1>7. CASE CreatePage(p)
  BY <1>7, CreatePageStep
<1>8. CASE InsertShare(p)
  BY <1>8, InsertStep
<1>9. CASE GetShare(p)
  BY <1>9, GetStep
<1> QED
  BY <1>1, <1>2, <1>3, <1>4, <1>5, <1>6, <1>7, <1>8, <1>9 DEF ClientCall, SystemCall

(* So does every step of the system.                                       *)
LEMMA StepKeeps ==
  ASSUME IInv, [Next]_vars
  PROVE  IInv' /\ \A q \in Procs : Steady(q)
<1>1. CASE UNCHANGED vars
  BY <1>1, StutterStep
<1>2. CASE Next
  <2>1. PICK p \in Procs : ClientCall(p) \/ SystemCall(p)
    BY <1>2 DEF Next
  <2>2. IInv' /\ Apart(p) /\ Steady(p)
    BY <2>1, ProcessStep
  <2>3. ASSUME NEW q \in Procs, q # p
        PROVE  Steady(q)
    BY <2>2, <2>3 DEF Apart, Steady
  <2> QED
    BY <2>2, <2>3
<1> QED
  BY <1>1, <1>2

(* In every state the heaps, the frames, the pages, the calls under way    *)
(* and the objects agree as IInv says.                                     *)
THEOREM Invariance == Spec => []IInv
<1>1. Init => IInv
  BY InitInvariant
<1>2. IInv /\ [Next]_vars => IInv'
  BY StepKeeps
<1> QED
  BY <1>1, <1>2, PTL DEF Spec

-----------------------------------------------------------------------------
(* The regions of each user heap tile it and each region in use is held by *)
(* a client, belongs to a call under way or was lost by a refused smalloc. *)
THEOREM HeapAccountedCorrect == Spec => []HeapAccounted
<1>1. IInv => HeapAccounted
  BY DEF IInv, Local, HeapOK, HeapAccounted, Used, UsedIn, Causes
<1> QED
  BY <1>1, Invariance, PTL

(* A list without duplicates is as long as it has members.                 *)
LEMMA NoDupLength ==
  ASSUME NEW T, NEW q \in Seq(T), NoDup(q)
  PROVE  Cardinality(Range(q)) = Len(q)
<1>1. Len(q) \in Nat /\ DOMAIN q = 1..Len(q) /\ q \in [1..Len(q) -> Range(q)]
  <2>1. Len(q) \in Nat /\ DOMAIN q = 1..Len(q) /\ q = [i \in 1..Len(q) |-> q[i]]
    BY LenProperties
  <2> QED
    BY <2>1 DEF Range
<1>2. q \in Injection(1..Len(q), Range(q))
  BY <1>1 DEF NoDup, Injection, IsInjective
<1>3. q \in Surjection(1..Len(q), Range(q))
  BY <1>1 DEF Range, Surjection
<1>4. ExistsBijection(1..Len(q), Range(q))
  BY <1>2, <1>3 DEF Bijection, ExistsBijection
<1> QED
  BY <1>1, <1>4, FS_CountingElements

(* A frame is free exactly when nothing refers to it and its count is the  *)
(* number of entries that map it, however calls interleave; only an object *)
(* made at address 0 may lose mappings that stay counted.                  *)
THEOREM FramesCountedCorrect == Spec => []FramesCounted
<1>1. IInv => FramesCounted
  <2> SUFFICES ASSUME IInv PROVE FramesCounted
    OBVIOUS
  <2>1. Counted(phys, LowFrames) /\ phys \in PhysState
    BY DEF IInv, Counted
  <2>2. /\ phys.free \in Seq(FrameNums) /\ NoDup(phys.free)
        /\ phys.refs \in [FrameNums -> Nat]
    BY <2>1, PhysFacts DEF Counted
  <2>3. Range(phys.free) = {f \in FrameNums : phys.refs[f] = 0}
    <3>1. \A f \in Range(phys.free) : f \in FrameNums
      <4>1. DOMAIN phys.free = 1..Len(phys.free)
        BY <2>2, LenProperties
      <4> QED
        BY <2>2, <4>1, ElementOfSeq DEF Range
    <3>2. \A f \in FrameNums : f \in Range(phys.free) <=> phys.refs[f] = 0
      BY <2>1 DEF Counted
    <3> QED
      BY <3>1, <3>2
  <2>4. AvailableFrames(phys) = Cardinality({f \in FrameNums : phys.refs[f] = 0})
    BY <2>2, <2>3, NoDupLength DEF AvailableFrames
  <2>5. \A f : Mappings(f) = MapsOf(phys, f)
    BY DEF Mappings, MapsOf
  <2>6. ASSUME NEW f \in FrameNums
        PROVE  /\ f \in Range(phys.free) <=> phys.refs[f] = 0
               /\ f \in Reserved(KernelEnd) =>
                    phys.refs[f] = 1 /\ (f # NoFrame => MapsOf(phys, f) = {})
               /\ f \notin Reserved(KernelEnd) =>
                    phys.refs[f] >= Cardinality(MapsOf(phys, f))
               /\ f \notin Reserved(KernelEnd) \cup LowFrames =>
                    phys.refs[f] = Cardinality(MapsOf(phys, f))
    BY <2>1 DEF Counted
  <2> QED
    BY <2>4, <2>5, <2>6 DEF FramesCounted
<1> QED
  BY <1>1, Invariance, PTL

(* Who holds an object sees its frames where it was put, with the right to *)
(* write that the object gives; what malloc gave one process is mapped     *)
(* nowhere else.                                                           *)
THEOREM MemoryApartCorrect == Spec => []MemoryApart
<1>1. ASSUME IInv PROVE HoldersSeeObject
  <2>0. TypeOK /\ ListOK /\ ClaimsOK /\ \A p \in Procs : SeesOK(p)
    BY <1>1 DEF IInv, Local
  <2>1. ASSUME NEW p \in Procs, NEW h \in held[p], h.use # "private",
               NEW j \in 1..h.size
        PROVE  LET e == phys.pte[p][h.va + j - 1]
               IN  /\ e.frame = Object(h).frames[j]
                   /\ e.writable = (h.use = "creator" \/ Object(h).writable)
    <3>1. Sees(p, h)
      BY <2>0, <2>1 DEF SeesOK
    <3>2. PICK i \in FindShare(h.owner, h.name) :
            \A m \in 1..h.size :
              LET e == phys.pte[p][h.va + m - 1]
              IN  /\ e.frame = shares[i].frames[m]
                  /\ e.writable = (h.use = "creator" \/ shares[i].writable)
      BY <3>1 DEF Sees
    <3>3. Object(h) = shares[i]
      BY <2>0, <3>2, TheObject DEF Object
    <3> QED
      BY <3>2, <3>3
  <2>2. ASSUME NEW i \in DOMAIN shares
        PROVE  shares[i].references = 1 + Cardinality(
                 {x \in UNION {{p} \X held[p] : p \in Procs} :
                    /\ x[2].use = "getter"
                    /\ x[2].owner = shares[i].owner /\ x[2].name = shares[i].name})
    BY <2>0 DEF ListOK, Getters
  <2>3. \A i, j \in DOMAIN shares :
          /\ shares[i].owner = shares[j].owner /\ shares[i].name = shares[j].name => i = j
          /\ i # j => Range(shares[i].frames) \cap Range(shares[j].frames) = {}
    BY <2>0 DEF ListOK, ClaimsOK
  <2> QED
    BY <2>1, <2>2, <2>3 DEF HoldersSeeObject
<1>2. ASSUME IInv PROVE PrivateIsPrivate
  <2>0. PrivateOK /\ \A p \in Procs : HeapOK(p)
    BY <1>2 DEF IInv, Local
  <2>1. ASSUME NEW p \in Procs, NEW h \in held[p], h.use = "private",
               NEW a \in Span(h.va, h.size), FrameAt(p, a) # NoFrame
        PROVE  /\ Mappings(FrameAt(p, a)) = {<<p, a>>}
               /\ \A i \in DOMAIN shares : FrameAt(p, a) \notin Range(shares[i].frames)
    <3>1. /\ ~Claimed(FrameAt(p, a)) /\ a \in Pages
          /\ \A q \in Procs, b \in Pages :
               FrameAt(q, b) = FrameAt(p, a) => q = p /\ b = a
      BY <2>0, <2>1 DEF PrivateOK, HeapOK
    <3>2. ASSUME NEW x \in Procs \X Pages
          PROVE  phys.pte[x[1]][x[2]].frame = FrameAt(p, a) <=> x = <<p, a>>
      <4>1. x[1] \in Procs /\ x[2] \in Pages /\ x = <<x[1], x[2]>>
        OBVIOUS
      <4>2. FrameAt(x[1], x[2]) = FrameAt(p, a) => x[1] = p /\ x[2] = a
        BY <3>1, <4>1
      <4> QED
        BY <4>1, <4>2 DEF FrameAt
    <3>3. Mappings(FrameAt(p, a)) = {<<p, a>>}
      BY <3>1, <3>2 DEF Mappings
    <3> QED
      BY <3>1, <3>3 DEF Claimed
  <2> QED
    BY <2>1 DEF PrivateIsPrivate, FrameAt
<1>3. IInv => MemoryApart
  BY <1>1, <1>2 DEF MemoryApart
<1> QED
  BY <1>3, Invariance, PTL

(* No step changes the frame behind a page that a client holds before and  *)
(* after it.                                                               *)
THEOREM BackingStableCorrect == Spec => BackingStable
<1> DEFINE Stable == \A p \in Procs : \A h \in held[p] \cap held'[p] :
                       \A a \in Span(h.va, h.size) :
                         phys.pte[p][a].frame # NoFrame => phys'.pte[p][a] = phys.pte[p][a]
<1>1. IInv /\ [Next]_vars => Stable
  BY StepKeeps DEF Steady
<1>2. IInv /\ [Next]_vars => [Stable]_vars
  BY <1>1
<1>3. Spec => [][Stable]_vars
  <2> HIDE DEF Stable
  <2> QED
    BY <1>2, Invariance, PTL DEF Spec
<1> QED
  BY <1>3 DEF BackingStable
==============================================================================
