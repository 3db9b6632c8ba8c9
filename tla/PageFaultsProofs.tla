-------------------------- MODULE PageFaultsProofs ---------------------------
(***************************************************************************)
(* Proofs about demand paging, for any set of pages, size of the working   *)
(* set, page file and width of the time stamps, and for each of the three  *)
(* algorithms: the working set is the list of the present pages, with the  *)
(* hand where the clocks need it, nothing that was written is lost, and    *)
(* the page that goes is the one the algorithm promises.                   *)
(*                                                                         *)
(* None of the three is inductive.  That allocate_user_mem finds its page  *)
(* absent needs the heap bit of the present ones (HeapMarked), that a page *)
(* is in the page file when it goes without being written back needs the   *)
(* modified bit to be right (Saved), and that LRU takes a page that no     *)
(* other has been idle for longer than needs the time stamps to tell how   *)
(* long that was (AgesIn).  The handler passes its state on from step to   *)
(* step, and so do the lemmas: each says what one step keeps of Kept.      *)
(***************************************************************************)
EXTENDS PageFaults, ListOpsProofs

(* An element of the working set list.                                     *)
Seat == [page : Pages, stamp : 0..MaxStamp]

(* Every page of the list q once.                                          *)
Distinct(q) == \A i, j \in DOMAIN q : q[i].page = q[j].page => i = j

(* The pages it lists.                                                     *)
PagesOf(q) == {q[i].page : i \in DOMAIN q}

(* The list is the set of present pages.                                   *)
Listed(s) ==
  /\ s \in State /\ Len(s.ws) <= MaxSize /\ Distinct(s.ws)
  /\ InWs(s) = {p \in Pages : s.pte[p].present}

(* A page of the heap that is present was allocated.                       *)
HeapMarked(s) == \A p \in Heap : s.pte[p].present => s.pte[p].heap

(* The content of the pages in W is in memory, and in the page file too    *)
(* unless the page is present and marked as modified.                      *)
Saved(s, W) ==
  \A p \in W : IF s.pte[p].present
               THEN /\ s.memory[p] = "new"
                    /\ ~s.pte[p].modified => s.disk[p] = "new"
               ELSE s.disk[p] = "new"

(* What every step of the handler keeps.                                   *)
Kept(s, W) == Listed(s) /\ HeapMarked(s) /\ Saved(s, W)

(* Both clocks start at the first element of a full list.                  *)
HandFirst(s) == Len(s.ws) = MaxSize => s.hand = s.ws[1].page

(* The inductive invariant.                                                *)
PagingInv ==
  /\ TypeOK /\ Kept(m, written)
  /\ end = "no" => HandFirst(m) /\ last.times <= 2

-----------------------------------------------------------------------------
(* Lists.                                                                  *)

(* The list turned until its element i is the first.                       *)
LEMMA RotateIs ==
  ASSUME NEW T, NEW q \in Seq(T), NEW i \in DOMAIN q
  PROVE  LET r == SubSeq(q, i, Len(q)) \o SubSeq(q, 1, i - 1)
         IN  /\ r \in Seq(T) /\ Len(r) = Len(q)
             /\ \A k \in 1..Len(q) :
                  r[k] = IF k <= Len(q) - i + 1 THEN q[k + i - 1]
                         ELSE q[k - (Len(q) - i + 1)]
<1>1. Len(q) \in Nat /\ i \in 1..Len(q)
  BY LenProperties
<1> DEFINE a == SubSeq(q, i, Len(q))
           b == SubSeq(q, 1, i - 1)
<1>2. /\ a \in Seq(T) /\ Len(a) = Len(q) - i + 1
      /\ \A k \in 1..(Len(q) - i + 1) : a[k] = q[k + i - 1]
  BY <1>1
<1>3. /\ b \in Seq(T) /\ Len(b) = i - 1
      /\ \A k \in 1..(i - 1) : b[k] = q[k]
  BY <1>1
<1> HIDE DEF a, b
<1>4. /\ a \o b \in Seq(T) /\ Len(a \o b) = Len(q)
      /\ \A k \in 1..Len(q) :
           (a \o b)[k] = IF k <= Len(q) - i + 1 THEN a[k]
                         ELSE b[k - (Len(q) - i + 1)]
  BY <1>1, <1>2, <1>3
<1>5. \A k \in 1..Len(q) :
        (a \o b)[k] = IF k <= Len(q) - i + 1 THEN q[k + i - 1]
                      ELSE q[k - (Len(q) - i + 1)]
  BY <1>1, <1>2, <1>3, <1>4
<1> QED
  BY <1>4, <1>5 DEF a, b

(* What a list without one of its seats lists.                             *)
LEMMA RemovePages ==
  ASSUME NEW q \in Seq(Seat), Distinct(q), NEW i \in DOMAIN q
  PROVE  LET r == RemoveAt(q, i)
         IN  /\ r \in Seq(Seat) /\ Len(r) = Len(q) - 1
             /\ Distinct(r) /\ PagesOf(r) = PagesOf(q) \ {q[i].page}
             /\ Range(r) \subseteq Range(q)
<1> DEFINE r == RemoveAt(q, i)
<1>1. /\ r \in Seq(Seat) /\ Len(r) = Len(q) - 1
      /\ \A k \in 1..(Len(q) - 1) : r[k] = IF k < i THEN q[k] ELSE q[k + 1]
  BY CutIs DEF RemoveAt
<1> HIDE DEF r
<1>2. /\ Len(q) \in Nat /\ DOMAIN q = 1..Len(q) /\ DOMAIN r = 1..(Len(q) - 1)
      /\ i \in 1..Len(q)
  BY <1>1, LenProperties
<1> DEFINE from(k) == IF k < i THEN k ELSE k + 1
<1>3. \A k \in DOMAIN r : /\ from(k) \in DOMAIN q /\ from(k) # i
                          /\ r[k] = q[from(k)]
  BY <1>1, <1>2
<1>4. \A k, l \in DOMAIN r : from(k) = from(l) => k = l
  BY <1>2
<1> HIDE DEF from
<1>5. Distinct(r)
  BY <1>3, <1>4 DEF Distinct
<1>6. PagesOf(r) \subseteq PagesOf(q) \ {q[i].page}
  BY <1>3 DEF Distinct, PagesOf
<1>7. Range(r) \subseteq Range(q)
  BY <1>3 DEF Range
<1>8. ASSUME NEW p \in PagesOf(q) \ {q[i].page}
      PROVE  p \in PagesOf(r)
  <2>1. PICK k \in 1..Len(q) : p = q[k].page
    BY <1>2 DEF PagesOf
  <2>2. CASE k < i
    <3>1. k \in 1..(Len(q) - 1)
      BY <1>2, <2>2
    <3>2. r[k] = q[k]
      BY <1>1, <2>2, <3>1
    <3> QED
      BY <1>2, <2>1, <3>1, <3>2 DEF PagesOf
  <2>3. CASE k > i
    <3>1. k - 1 \in 1..(Len(q) - 1) /\ ~(k - 1 < i) /\ k - 1 + 1 = k
      BY <1>2, <2>3
    <3>2. r[k - 1] = q[k]
      BY <1>1, <3>1
    <3> QED
      BY <1>2, <2>1, <3>1, <3>2 DEF PagesOf
  <2>4. k # i
    BY <1>8, <2>1
  <2> QED
    BY <1>2, <2>1, <2>2, <2>3, <2>4
<1> QED
  BY <1>1, <1>5, <1>6, <1>8, <1>7 DEF r

(* What a list that was turned lists.                                      *)
LEMMA RotatePages ==
  ASSUME NEW q \in Seq(Seat), Distinct(q), NEW i \in DOMAIN q
  PROVE  LET r == SubSeq(q, i, Len(q)) \o SubSeq(q, 1, i - 1)
         IN  /\ r \in Seq(Seat) /\ Len(r) = Len(q)
             /\ Distinct(r) /\ PagesOf(r) = PagesOf(q)
<1> DEFINE r == SubSeq(q, i, Len(q)) \o SubSeq(q, 1, i - 1)
           rest == Len(q) - i + 1
<1>1. /\ r \in Seq(Seat) /\ Len(r) = Len(q)
      /\ \A k \in 1..Len(q) : r[k] = IF k <= rest THEN q[k + i - 1]
                                     ELSE q[k - rest]
  BY RotateIs
<1> HIDE DEF r
<1>2. /\ Len(q) \in Nat /\ DOMAIN q = 1..Len(q) /\ DOMAIN r = 1..Len(q)
      /\ i \in 1..Len(q)
  BY <1>1, LenProperties
<1>3. rest \in 1..Len(q)
  BY <1>2
<1> DEFINE from(k) == IF k <= rest THEN k + i - 1 ELSE k - rest
<1>4. \A k \in DOMAIN r : from(k) \in DOMAIN q /\ r[k] = q[from(k)]
  BY <1>1, <1>2, <1>3
<1>5. \A k, l \in DOMAIN r : from(k) = from(l) => k = l
  BY <1>2
<1> HIDE DEF from
<1>6. Distinct(r)
  BY <1>4, <1>5 DEF Distinct
<1>7. PagesOf(r) \subseteq PagesOf(q)
  BY <1>4 DEF PagesOf
<1>8. ASSUME NEW p \in PagesOf(q)
      PROVE  p \in PagesOf(r)
  <2>1. PICK k \in 1..Len(q) : p = q[k].page
    BY <1>2 DEF PagesOf
  <2>2. CASE k < i
    <3> DEFINE l == k + rest
    <3>1. l \in 1..Len(q) /\ ~(l <= rest) /\ l - rest = k
      BY <1>2, <2>2
    <3> HIDE DEF l
    <3>2. r[l] = q[k]
      <4>1. r[l] = q[l - rest]
        BY <1>1, <3>1
      <4> QED
        BY <3>1, <4>1
    <3> QED
      BY <1>2, <2>1, <3>1, <3>2 DEF PagesOf
  <2>3. CASE k >= i
    <3>1. k - i + 1 \in 1..Len(q) /\ r[k - i + 1] = q[k]
      BY <1>1, <1>2, <2>3
    <3> QED
      BY <1>2, <2>1, <3>1 DEF PagesOf
  <2> QED
    BY <1>2, <2>2, <2>3
<1> QED
  BY <1>1, <1>6, <1>7, <1>8 DEF r

(* What a list with a new page at its end lists.                           *)
LEMMA AppendPages ==
  ASSUME NEW q \in Seq(Seat), Distinct(q), NEW e \in Seat, e.page \notin PagesOf(q)
  PROVE  LET r == Append(q, e)
         IN  /\ r \in Seq(Seat) /\ Len(r) = Len(q) + 1
             /\ Distinct(r) /\ PagesOf(r) = PagesOf(q) \cup {e.page}
             /\ Range(r) = Range(q) \cup {e}
<1> DEFINE r == Append(q, e)
<1>1. /\ r \in Seq(Seat) /\ Len(r) = Len(q) + 1 /\ r[Len(q) + 1] = e
      /\ \A k \in 1..Len(q) : r[k] = q[k]
  OBVIOUS
<1> HIDE DEF r
<1>2. /\ Len(q) \in Nat /\ DOMAIN q = 1..Len(q) /\ DOMAIN r = 1..(Len(q) + 1)
  BY <1>1, LenProperties
<1>3. Distinct(r)
  BY <1>1, <1>2 DEF Distinct, PagesOf
<1>4. PagesOf(r) = PagesOf(q) \cup {e.page}
  BY <1>1, <1>2 DEF PagesOf
<1>5. Range(r) = Range(q) \cup {e}
  BY <1>1, <1>2 DEF Range
<1> QED
  BY <1>1, <1>3, <1>4, <1>5 DEF r

-----------------------------------------------------------------------------
(* What the handler changes.                                               *)

(* The range of a time stamp.                                              *)
LEMMA TopBitIs ==
  /\ TopBit \in Nat \ {0} /\ MaxStamp = 2 * TopBit - 1 /\ MaxStamp \in Nat
  /\ 0 \in 0..MaxStamp
<1>1. 0 \in 0..(StampBits - 1)
  BY PageFaultsConstants
<1>2. BitAt[0] \in Nat \ {0}
  BY <1>1, PageFaultsConstants
<1> QED
  BY <1>2 DEF TopBit, MaxStamp

(* The types of the list.                                                  *)
LEMMA ListFacts ==
  ASSUME NEW s \in State
  PROVE  /\ s.ws \in Seq(Seat) /\ Len(s.ws) \in Nat
         /\ DOMAIN s.ws = 1..Len(s.ws)
         /\ \A i \in DOMAIN s.ws : s.ws[i] \in Seat /\ s.ws[i].page \in Pages
         /\ InWs(s) = PagesOf(s.ws)
         /\ MaxSize \in Nat /\ MaxSize >= 1
<1>1. s.ws \in Seq(Seat)
  BY DEF State, Seat
<1>2. Len(s.ws) \in Nat /\ DOMAIN s.ws = 1..Len(s.ws)
  BY <1>1, LenProperties
<1>3. \A i \in DOMAIN s.ws : s.ws[i] \in Seat
  BY <1>1, <1>2
<1>4. MaxSize \in Nat /\ MaxSize >= 1
  BY PageFaultsConstants
<1> QED
  BY <1>1, <1>2, <1>3, <1>4 DEF Seat, InWs, PagesOf

(* t differs from s at most in used bits and time stamps.                  *)
Alike(s, t) ==
  /\ t \in State /\ Len(t.ws) = Len(s.ws)
  /\ \A i \in DOMAIN s.ws : t.ws[i].page = s.ws[i].page
  /\ t.hand = s.hand /\ t.memory = s.memory /\ t.disk = s.disk
  /\ \A p \in Pages : /\ t.pte[p].present = s.pte[p].present
                      /\ t.pte[p].modified = s.pte[p].modified
                      /\ t.pte[p].heap = s.pte[p].heap

(* Such a difference does not matter.                                      *)
LEMMA AlikeKept ==
  ASSUME NEW s \in State, NEW W \in SUBSET Pages, NEW t, Alike(s, t)
  PROVE  /\ Kept(s, W) => Kept(t, W)
         /\ HandFirst(s) => HandFirst(t)
         /\ InWs(t) = InWs(s)
<1>1. /\ DOMAIN t.ws = DOMAIN s.ws /\ Len(s.ws) \in Nat
      /\ DOMAIN s.ws = 1..Len(s.ws)
  BY ListFacts DEF Alike
<1>2. InWs(t) = InWs(s)
  BY <1>1 DEF Alike, InWs
<1>3. Distinct(s.ws) => Distinct(t.ws)
  BY <1>1 DEF Alike, Distinct
<1>4. Listed(s) => Listed(t)
  BY <1>2, <1>3 DEF Alike, Listed
<1>5. HeapMarked(s) => HeapMarked(t)
  BY DEF Alike, HeapMarked, Pages
<1>6. Saved(s, W) => Saved(t, W)
  BY DEF Alike, Saved
<1>7. HandFirst(s) => HandFirst(t)
  <2>1. Len(s.ws) = MaxSize => 1 \in DOMAIN s.ws
    BY <1>1, ListFacts
  <2> QED
    BY <2>1 DEF Alike, HandFirst
<1> QED
  BY <1>2, <1>4, <1>5, <1>6, <1>7 DEF Kept

(* Clearing used bits makes no other.                                      *)
LEMMA ClearAlike ==
  ASSUME NEW s \in State, NEW S
  PROVE  Alike(s, ClearUsed(s, S))
<1> DEFINE pte == [p \in Pages |-> IF \E i \in S : s.ws[i].page = p
                                   THEN [s.pte[p] EXCEPT !.used = FALSE]
                                   ELSE s.pte[p]]
<1>1. ClearUsed(s, S) \in State
  BY DEF ClearUsed, State, Entry
<1>2. \A p \in Pages : /\ pte[p].present = s.pte[p].present
                       /\ pte[p].modified = s.pte[p].modified
                       /\ pte[p].heap = s.pte[p].heap
  BY DEF State, Entry
<1>3. ClearUsed(s, S) = [s EXCEPT !.pte = pte]
  BY DEF ClearUsed
<1> HIDE DEF pte
<1>4. /\ ClearUsed(s, S).pte = pte /\ ClearUsed(s, S).ws = s.ws
      /\ ClearUsed(s, S).hand = s.hand /\ ClearUsed(s, S).memory = s.memory
      /\ ClearUsed(s, S).disk = s.disk
  BY <1>3 DEF State
<1> QED
  BY <1>1, <1>2, <1>4 DEF Alike

(* Nor does an update of the time stamps, which stay within their width.   *)
LEMMA AgedAlike ==
  ASSUME NEW s \in State
  PROVE  Alike(s, Aged(s))
<1> DEFINE c == ClearUsed(s, DOMAIN s.ws)
           stamp(i) == s.ws[i].stamp \div 2 + (IF UsedBit(s, i) THEN TopBit ELSE 0)
           ws == [i \in DOMAIN s.ws |-> [s.ws[i] EXCEPT !.stamp = stamp(i)]]
<1>1. Aged(s) = [c EXCEPT !.ws = ws]
  BY DEF Aged
<1>2. Alike(s, c)
  BY ClearAlike
<1> HIDE DEF c
<1>3. \A i \in DOMAIN s.ws : stamp(i) \in 0..MaxStamp
  <2>1. TAKE i \in DOMAIN s.ws
  <2>2. s.ws[i].stamp \in 0..MaxStamp
    BY ListFacts DEF Seat
  <2>3. TopBit \in Nat \ {0} /\ MaxStamp = 2 * TopBit - 1
    BY TopBitIs
  <2>4. s.ws[i].stamp \div 2 \in 0..(TopBit - 1)
    BY <2>2, <2>3
  <2> QED
    BY <2>3, <2>4
<1> HIDE DEF stamp
<1>4. \A i \in DOMAIN s.ws : ws[i] \in Seat /\ ws[i].page = s.ws[i].page
  BY <1>3, ListFacts DEF Seat
<1>5. ws \in Seq(Seat) /\ Len(ws) = Len(s.ws)
  <2>1. ws \in [1..Len(s.ws) -> Seat] /\ Len(s.ws) \in Nat
    BY <1>4, ListFacts
  <2> QED
    BY <2>1
<1> HIDE DEF ws
<1>6. /\ Aged(s) \in State /\ Aged(s).ws = ws /\ Aged(s).hand = c.hand
      /\ Aged(s).memory = c.memory /\ Aged(s).disk = c.disk
      /\ Aged(s).pte = c.pte
  BY <1>1, <1>2, <1>5 DEF Alike, State, Seat
<1> QED
  BY <1>2, <1>4, <1>5, <1>6 DEF Alike

(* What the list of t took over from that of s, but for a new page p.      *)
Carried(s, t, p) ==
  \A e \in Range(t.ws) :
    \/ /\ e \in Range(s.ws) /\ e.page # p
       /\ t.pte[e.page].used <=> s.pte[e.page].used
    \/ /\ e = [page |-> p, stamp |-> 0]
       /\ t.pte[p].used <=> s.disk[p] # "none"

(* The least number of a list's positions.                                 *)
LEMMA FirstOf ==
  ASSUME NEW n \in Nat, NEW S \in SUBSET (1..n), S # {}
  PROVE  Min(S) \in S
<1>1. S \subseteq Nat
  OBVIOUS
<1> QED
  BY <1>1, LeastNumber DEF Min

(* Some element of a list that is not empty has the smallest time stamp.   *)
LEMMA LeastStamp ==
  ASSUME NEW s \in State, NEW k \in DOMAIN s.ws
  PROVE  {i \in DOMAIN s.ws :
            \A j \in DOMAIN s.ws : s.ws[i].stamp <= s.ws[j].stamp} # {}
<1> DEFINE stamps == {s.ws[i].stamp : i \in DOMAIN s.ws}
<1>1. \A i \in DOMAIN s.ws : s.ws[i].stamp \in 0..MaxStamp
  BY ListFacts DEF Seat
<1>2. stamps \subseteq Nat /\ s.ws[k].stamp \in stamps
  BY <1>1
<1> HIDE DEF stamps
<1>3. PICK x \in stamps : \A y \in stamps : x <= y
  BY <1>2, LeastNumber
<1>4. PICK i \in DOMAIN s.ws : x = s.ws[i].stamp
  BY DEF stamps
<1>5. \A j \in DOMAIN s.ws : s.ws[i].stamp <= s.ws[j].stamp
  BY <1>3, <1>4 DEF stamps
<1> QED
  BY <1>5

(* Each algorithm finds a victim in a list that is not empty, and changes  *)
(* used bits only.                                                         *)
LEMMA VictimIs ==
  ASSUME NEW s \in State, Len(s.ws) >= 1, algorithm \in Algorithms
  PROVE  /\ Victim(s).at \in DOMAIN s.ws /\ Alike(s, Victim(s).to)
         /\ algorithm = "lru" => Victim(s).to = s
<1>1. /\ 1 \in DOMAIN s.ws /\ DOMAIN s.ws = 1..Len(s.ws) /\ Len(s.ws) \in Nat
      /\ \A S : Alike(s, ClearUsed(s, S))
  BY ListFacts, ClearAlike
<1>2. \A S \in SUBSET DOMAIN s.ws : S # {} => Min(S) \in DOMAIN s.ws
  BY <1>1, FirstOf
<1>3. Alike(s, s)
  BY DEF Alike
<1>4. ClockVictim(s).at \in DOMAIN s.ws /\ Alike(s, ClockVictim(s).to)
  BY <1>1, <1>2 DEF ClockVictim, Unused
<1>5. /\ ModifiedClockVictim(s).at \in DOMAIN s.ws
      /\ Alike(s, ModifiedClockVictim(s).to)
  BY <1>1, <1>2, <1>3, <1>4 DEF ModifiedClockVictim, Unused, Clean
<1>6. LruVictim(s).at \in DOMAIN s.ws /\ Alike(s, LruVictim(s).to)
  BY <1>1, <1>2, <1>3, LeastStamp DEF LruVictim
<1> QED
  BY <1>4, <1>5, <1>6 DEF Victim, Algorithms, LruVictim

(* Whatever is written back, the page file has the content of the page.    *)
LEMMA WriteBackKept ==
  ASSUME NEW s \in State, NEW W \in SUBSET Pages, Kept(s, W),
         NEW p \in Pages, s.pte[p].present
  PROVE  LET t == WriteBack(s, p)
         IN  /\ t \in State /\ Kept(t, W) /\ t.pte[p].present
             /\ t.ws = s.ws
             /\ p \in W => t.disk[p] = "new"
             /\ \A q \in Pages : t.pte[q].heap = s.pte[q].heap
             /\ \A q \in Pages \ {p} : /\ t.pte[q] = s.pte[q]
                                       /\ t.disk[q] = s.disk[q]
<1>1. CASE ~s.pte[p].modified
  BY <1>1 DEF WriteBack, Kept, Saved
<1>2. CASE s.pte[p].modified
  <2> DEFINE t == WriteBack(s, p)
             pte == [s.pte EXCEPT ![p].modified = FALSE]
             disk == [s.disk EXCEPT ![p] = s.memory[p]]
  <2>1. /\ t \in State /\ t.ws = s.ws /\ t.hand = s.hand /\ t.memory = s.memory
        /\ t.pte = pte /\ t.disk = disk
    BY <1>2 DEF WriteBack, State, Entry
  <2>2. /\ \A q \in Pages : /\ pte[q].present = s.pte[q].present
                            /\ pte[q].heap = s.pte[q].heap
        /\ \A q \in Pages \ {p} : pte[q] = s.pte[q]
    BY DEF State, Entry
  <2>3. /\ disk[p] = s.memory[p]
        /\ \A q \in Pages \ {p} : disk[q] = s.disk[q]
    BY DEF State
  <2> HIDE DEF t, pte, disk
  <2>4. Listed(t)
    BY <2>1, <2>2 DEF Kept, Listed, InWs
  <2>5. HeapMarked(t)
    BY <2>1, <2>2 DEF Kept, HeapMarked, Pages
  <2>6. Saved(t, W) /\ (p \in W => t.disk[p] = "new")
    BY <2>1, <2>2, <2>3 DEF Kept, Saved
  <2> QED
    BY <2>1, <2>2, <2>3, <2>4, <2>5, <2>6 DEF Kept, t
<1> QED
  BY <1>1, <1>2

(* Turning the list changes its order only.                                *)
LEMMA RotatedKept ==
  ASSUME NEW s \in State, NEW W \in SUBSET Pages, Kept(s, W),
         NEW i \in DOMAIN s.ws
  PROVE  LET t == Rotated(s, i)
         IN  /\ t \in State /\ Kept(t, W) /\ InWs(t) = InWs(s)
             /\ Len(t.ws) = Len(s.ws) /\ t.pte = s.pte /\ t.disk = s.disk
             /\ algorithm = "lru" => t = s
<1>1. CASE algorithm = "lru"
  BY <1>1 DEF Rotated
<1>2. CASE algorithm # "lru"
  <2> DEFINE ws == SubSeq(s.ws, i, Len(s.ws)) \o SubSeq(s.ws, 1, i - 1)
             t == Rotated(s, i)
  <2>1. /\ ws \in Seq(Seat) /\ Len(ws) = Len(s.ws)
        /\ Distinct(ws) /\ PagesOf(ws) = PagesOf(s.ws)
    BY RotatePages, ListFacts DEF Kept, Listed
  <2>2. t = [s EXCEPT !.ws = ws]
    BY <1>2 DEF Rotated
  <2> HIDE DEF ws, t
  <2>3. /\ t \in State /\ t.ws = ws /\ t.pte = s.pte /\ t.disk = s.disk
        /\ t.memory = s.memory
    BY <2>1, <2>2 DEF State, Seat
  <2>4. InWs(t) = InWs(s)
    BY <2>1, <2>3, ListFacts
  <2>5. Kept(t, W)
    BY <2>1, <2>3, <2>4 DEF Kept, Listed, HeapMarked, Saved
  <2> QED
    BY <1>2, <2>1, <2>3, <2>4, <2>5 DEF t
<1> QED
  BY <1>1, <1>2

(* A page is taken out of the list and out of memory.                      *)
LEMMA InvalidateKept ==
  ASSUME NEW s \in State, NEW W \in SUBSET Pages, Kept(s, W),
         NEW p \in Pages, p \in InWs(s), p \in W => s.disk[p] = "new"
  PROVE  LET t == Invalidate(s, p)
         IN  /\ t \in State /\ Kept(t, W) /\ InWs(t) = InWs(s) \ {p}
             /\ Len(t.ws) = Len(s.ws) - 1 /\ t.disk = s.disk
             /\ \A q \in Pages : t.pte[q].heap = s.pte[q].heap
             /\ \A q \in Pages \ {p} : t.pte[q] = s.pte[q]
             /\ Range(t.ws) \subseteq Range(s.ws)
<1> DEFINE i == CHOOSE j \in DOMAIN s.ws : s.ws[j].page = p
           next == IF i = Len(s.ws) THEN NoPage ELSE s.ws[i + 1].page
           hand == IF s.hand = p THEN next ELSE s.hand
           ws == RemoveAt(s.ws, i)
           pte == [s.pte EXCEPT ![p] = [Absent EXCEPT !.heap = s.pte[p].heap]]
           memory == [s.memory EXCEPT ![p] = "none"]
           t == Invalidate(s, p)
<1>1. i \in DOMAIN s.ws /\ s.ws[i].page = p
  BY DEF InWs
<1>2. t = [Unmap(s, p) EXCEPT !.hand = hand, !.ws = ws]
  BY DEF Invalidate
<1>3. hand \in Pages \cup {NoPage}
  <2>1. i # Len(s.ws) => i + 1 \in DOMAIN s.ws
    BY <1>1, ListFacts
  <2>2. next \in Pages \cup {NoPage}
    BY <2>1, ListFacts
  <2> QED
    BY <2>2 DEF State
<1> HIDE DEF i
<1>4. /\ ws \in Seq(Seat) /\ Len(ws) = Len(s.ws) - 1
      /\ Distinct(ws) /\ PagesOf(ws) = PagesOf(s.ws) \ {p}
      /\ Range(ws) \subseteq Range(s.ws)
  BY <1>1, RemovePages, ListFacts DEF Kept, Listed
<1>5. /\ pte \in [Pages -> Entry] /\ memory \in [Pages -> Content]
      /\ ~pte[p].present
      /\ \A q \in Pages : pte[q].heap = s.pte[q].heap
      /\ \A q \in Pages \ {p} : pte[q] = s.pte[q] /\ memory[q] = s.memory[q]
  BY DEF Absent, State, Entry, Content
<1>6. /\ Unmap(s, p).pte = pte /\ Unmap(s, p).memory = memory
      /\ Unmap(s, p) \in State /\ Unmap(s, p).disk = s.disk
  BY <1>5 DEF Unmap, State
<1> HIDE DEF hand, ws, pte, memory, t
<1>7. /\ t \in State /\ t.ws = ws /\ t.pte = pte /\ t.memory = memory
      /\ t.disk = s.disk
  BY <1>2, <1>3, <1>4, <1>6 DEF State, Seat
<1>8. InWs(t) = InWs(s) \ {p}
  BY <1>4, <1>7, ListFacts
<1>9. Listed(t)
  <2>1. Len(t.ws) <= MaxSize
    BY <1>4, <1>7, ListFacts DEF Kept, Listed
  <2>2. {q \in Pages : t.pte[q].present} = InWs(s) \ {p}
    BY <1>5, <1>7 DEF Kept, Listed
  <2> QED
    BY <1>4, <1>7, <1>8, <2>1, <2>2 DEF Listed
<1>10. HeapMarked(t)
  BY <1>5, <1>7 DEF Kept, HeapMarked, Pages
<1>11. Saved(t, W)
  BY <1>5, <1>7 DEF Kept, Saved
<1> QED
  BY <1>4, <1>5, <1>7, <1>8, <1>9, <1>10, <1>11 DEF Kept, t

(* A page is put into memory and at the end of the list.                   *)
LEMMA PlacedKept ==
  ASSUME NEW s \in State, NEW W \in SUBSET Pages, Kept(s, W),
         NEW p \in Pages, ~s.pte[p].present, p \in Heap => s.pte[p].heap,
         Len(s.ws) < MaxSize
  PROVE  LET d == Placed(s, p)
         IN  /\ d.to \in State /\ Kept(d.to, W) /\ d.end \in {"no", "exited"}
             /\ d.end = "no" => HandFirst(d.to)
             /\ InWs(s) \subseteq InWs(d.to) /\ Carried(s, d.to, p)
<1>1. \A e \in Range(s.ws) : e \in Seat /\ e.page \in InWs(s) /\ e.page # p
  BY ListFacts DEF Range, InWs, Kept, Listed
<1>2. CASE ~Legal(s, p)
  <2>1. Carried(s, s, p)
    BY <1>1 DEF Carried
  <2> QED
    BY <1>2, <2>1 DEF Placed
<1>3. CASE Legal(s, p)
  <2> DEFINE e == [page |-> p, stamp |-> 0]
             ws == Append(s.ws, e)
             hand == HandAt(ws)
             pte == [s.pte EXCEPT ![p] =
                       [present |-> TRUE, used |-> s.disk[p] # "none",
                        modified |-> FALSE, heap |-> s.pte[p].heap]]
             memory == [s.memory EXCEPT ![p] = IF s.disk[p] = "none" THEN "blank"
                                               ELSE s.disk[p]]
             t == Placed(s, p).to
  <2>1. t = [Map(s, p) EXCEPT !.ws = ws, !.hand = hand] /\ Placed(s, p).end = "no"
    BY <1>3 DEF Placed
  <2>2. e \in Seat /\ e.page = p
    BY TopBitIs DEF Seat
  <2>3. e = [page |-> p, stamp |-> 0]
    OBVIOUS
  <2>4. e.page \notin PagesOf(s.ws)
    BY ListFacts DEF Kept, Listed
  <2> HIDE DEF e
  <2>5. /\ ws \in Seq(Seat) /\ Len(ws) = Len(s.ws) + 1
        /\ Distinct(ws) /\ PagesOf(ws) = PagesOf(s.ws) \cup {p}
        /\ Range(ws) = Range(s.ws) \cup {e}
    BY <2>2, <2>4, AppendPages, ListFacts DEF Kept, Listed
  <2> HIDE DEF ws
  <2>6. /\ hand \in Pages \cup {NoPage}
        /\ Len(ws) = MaxSize => hand = ws[1].page
    <3>1. Len(ws) = MaxSize => ws[1] \in Seat
      BY <2>5, ListFacts
    <3> QED
      BY <3>1 DEF HandAt, Seat
  <2>7. /\ pte \in [Pages -> Entry] /\ memory \in [Pages -> Content]
        /\ pte[p].present /\ ~pte[p].modified
        /\ pte[p].used <=> s.disk[p] # "none"
        /\ s.disk[p] = "new" => memory[p] = "new"
        /\ \A q \in Pages : pte[q].heap = s.pte[q].heap
        /\ \A q \in Pages \ {p} : pte[q] = s.pte[q] /\ memory[q] = s.memory[q]
    BY DEF State, Entry, Content
  <2>8. /\ Map(s, p).pte = pte /\ Map(s, p).memory = memory
        /\ Map(s, p) \in State /\ Map(s, p).disk = s.disk
    BY <2>7 DEF Map, State
  <2> HIDE DEF hand, pte, memory, t
  <2>9. /\ t \in State /\ t.ws = ws /\ t.hand = hand /\ t.pte = pte
        /\ t.memory = memory /\ t.disk = s.disk
    BY <2>1, <2>5, <2>6, <2>8 DEF State, Seat
  <2>10. Listed(t)
    <3>1. InWs(t) = InWs(s) \cup {p}
      BY <2>5, <2>9, ListFacts
    <3>2. {q \in Pages : t.pte[q].present} = InWs(s) \cup {p}
      BY <2>7, <2>9 DEF Kept, Listed
    <3>3. Len(t.ws) <= MaxSize
      BY <2>5, <2>9, ListFacts
    <3> QED
      BY <2>5, <2>9, <3>1, <3>2, <3>3 DEF Listed
  <2>11. HeapMarked(t)
    BY <2>7, <2>9 DEF Kept, HeapMarked, Pages
  <2>12. Saved(t, W)
    BY <2>7, <2>9 DEF Kept, Saved
  <2>13. HandFirst(t)
    BY <2>6, <2>9 DEF HandFirst
  <2>14. InWs(s) \subseteq InWs(t) /\ Carried(s, t, p)
    <3>1. InWs(s) \subseteq InWs(t)
      BY <2>5, <2>9, ListFacts
    <3>2. Carried(s, t, p)
      BY <1>1, <2>5, <2>7, <2>9, <2>3 DEF Carried, Seat
    <3> QED
      BY <3>1, <3>2
  <2> QED
    BY <2>1, <2>9, <2>10, <2>11, <2>12, <2>13, <2>14 DEF Kept, t
<1> QED
  BY <1>2, <1>3

(* A page takes the place of another.                                      *)
LEMMA ReplacedKept ==
  ASSUME NEW s \in State, NEW W \in SUBSET Pages, Kept(s, W),
         NEW p \in Pages, ~s.pte[p].present, p \in Heap => s.pte[p].heap,
         ~(Len(s.ws) < MaxSize), algorithm \in Algorithms
  PROVE  LET d == Replaced(s, p)
         IN  /\ d.to \in State /\ Kept(d.to, W)
             /\ d.end \in {"no", "exited", "panic"}
             /\ d.end = "no" => HandFirst(d.to)
             /\ \A i \in DOMAIN s.ws :
                  i # Victim(s).at => s.ws[i].page \in InWs(d.to)
             /\ algorithm = "lru" => Carried(s, d.to, p)
<1> DEFINE v == Victim(s)
           page == s.ws[v.at].page
           clean == WriteBack(v.to, page)
           turned == Rotated(clean, v.at)
           out == Invalidate(turned, page)
<1>1. /\ v.at \in DOMAIN s.ws /\ Alike(s, v.to)
      /\ algorithm = "lru" => v.to = s
  <2>1. Len(s.ws) >= 1
    BY ListFacts
  <2> QED
    BY <2>1, VictimIs
<1> HIDE DEF v
<1>2. v.to \in State /\ Kept(v.to, W) /\ InWs(v.to) = InWs(s)
  BY <1>1, AlikeKept DEF Alike
<1>3. page \in Pages /\ page \in InWs(s) /\ page # p
  BY <1>1, ListFacts DEF InWs, Kept, Listed
<1>4. \A i \in DOMAIN s.ws : i # v.at =>
         s.ws[i].page \in InWs(s) /\ s.ws[i].page # page
  BY <1>1 DEF InWs, Kept, Listed, Distinct
<1>5. v.to.pte[page].present
  BY <1>2, <1>3 DEF Kept, Listed
<1>6. /\ clean \in State /\ Kept(clean, W) /\ clean.ws = v.to.ws
      /\ page \in W => clean.disk[page] = "new"
      /\ \A q \in Pages : clean.pte[q].heap = v.to.pte[q].heap
      /\ \A q \in Pages \ {page} : /\ clean.pte[q] = v.to.pte[q]
                                   /\ clean.disk[q] = v.to.disk[q]
  BY <1>2, <1>3, <1>5, WriteBackKept
<1> HIDE DEF page, clean
<1>7. v.at \in DOMAIN clean.ws /\ Len(clean.ws) = Len(s.ws)
  <2>1. DOMAIN clean.ws = 1..Len(clean.ws) /\ DOMAIN s.ws = 1..Len(s.ws)
    BY <1>6, ListFacts
  <2> QED
    BY <1>1, <1>6, <2>1 DEF Alike
<1>8. /\ turned \in State /\ Kept(turned, W) /\ InWs(turned) = InWs(s)
      /\ Len(turned.ws) = Len(s.ws) /\ turned.pte = clean.pte
      /\ turned.disk = clean.disk
      /\ algorithm = "lru" => turned = clean
  <2>1. InWs(clean) = InWs(s)
    BY <1>2, <1>6 DEF InWs
  <2> QED
    BY <1>6, <1>7, <2>1, RotatedKept
<1> HIDE DEF turned
<1>9. /\ out \in State /\ Kept(out, W) /\ InWs(out) = InWs(s) \ {page}
      /\ Len(out.ws) = Len(s.ws) - 1
      /\ \A q \in Pages : out.pte[q].heap = turned.pte[q].heap
      /\ \A q \in Pages \ {page} : out.pte[q] = turned.pte[q]
      /\ Range(out.ws) \subseteq Range(turned.ws) /\ out.disk = turned.disk
  <2>1. page \in InWs(turned)
    BY <1>3, <1>8
  <2>2. page \in W => turned.disk[page] = "new"
    BY <1>6, <1>8
  <2>3. turned \in State /\ Kept(turned, W) /\ page \in Pages
    BY <1>3, <1>8
  <2>4. /\ out \in State /\ Kept(out, W) /\ InWs(out) = InWs(turned) \ {page}
        /\ Len(out.ws) = Len(turned.ws) - 1 /\ out.disk = turned.disk
        /\ \A q \in Pages : out.pte[q].heap = turned.pte[q].heap
        /\ \A q \in Pages \ {page} : out.pte[q] = turned.pte[q]
        /\ Range(out.ws) \subseteq Range(turned.ws)
    BY <2>1, <2>2, <2>3, InvalidateKept
  <2> QED
    BY <1>8, <2>4
<1> HIDE DEF out
<1>10. /\ ~out.pte[p].present
       /\ p \in Heap => out.pte[p].heap
       /\ Len(out.ws) < MaxSize
  <2>1. p \notin InWs(out)
    BY <1>9 DEF Kept, Listed
  <2>2. ~out.pte[p].present
    BY <1>9, <2>1 DEF Kept, Listed
  <2>3. p \in Heap => out.pte[p].heap
    BY <1>1, <1>6, <1>8, <1>9 DEF Alike
  <2>4. Len(out.ws) < MaxSize
    BY <1>9, ListFacts DEF Kept, Listed
  <2> QED
    BY <2>2, <2>3, <2>4
<1>11. /\ Placed(out, p).to \in State /\ Kept(Placed(out, p).to, W)
       /\ Placed(out, p).end \in {"no", "exited"}
       /\ Placed(out, p).end = "no" => HandFirst(Placed(out, p).to)
       /\ InWs(out) \subseteq InWs(Placed(out, p).to)
       /\ Carried(out, Placed(out, p).to, p)
  <2>1. out \in State /\ Kept(out, W)
    BY <1>9
  <2> QED
    BY <1>10, <2>1, PlacedKept
<1>12. \/ Replaced(s, p) = [to |-> v.to, end |-> "panic"]
       \/ Replaced(s, p) = Placed(out, p)
  BY DEF Replaced, v, page, clean, turned, out
<1>13. \A i \in DOMAIN s.ws :
         i # v.at => s.ws[i].page \in InWs(Replaced(s, p).to)
  BY <1>2, <1>9, <1>11, <1>12, <1>4
<1>14. ASSUME algorithm = "lru" PROVE Carried(s, Replaced(s, p).to, p)
  <2>1. CASE Replaced(s, p) = [to |-> v.to, end |-> "panic"]
    <3>1. \A e \in Range(s.ws) : e.page \in InWs(s) /\ e.page # p
      BY DEF Range, InWs, Kept, Listed
    <3> QED
      BY <1>1, <1>14, <2>1, <3>1 DEF Carried
  <2>2. CASE Replaced(s, p) = Placed(out, p)
    <3>1. \A e \in Range(out.ws) : /\ e \in Range(s.ws)
                                   /\ e.page \in Pages \ {page}
      <4>1. \A e \in Range(out.ws) : e.page \in InWs(out)
        BY DEF Range, InWs
      <4>2. InWs(out) \subseteq Pages \ {page}
        BY <1>9 DEF Kept, Listed
      <4> QED
        BY <1>1, <1>6, <1>8, <1>9, <1>14, <4>1, <4>2
    <3>2. \A q \in Pages \ {page} : out.pte[q] = s.pte[q]
      BY <1>1, <1>6, <1>8, <1>9, <1>14
    <3>3. out.disk[p] = s.disk[p]
      BY <1>1, <1>3, <1>6, <1>8, <1>9, <1>14
    <3> QED
      BY <1>11, <2>2, <3>1, <3>2, <3>3 DEF Carried
  <2> QED
    BY <1>12, <2>1, <2>2
<1> QED
  BY <1>2, <1>11, <1>12, <1>13, <1>14 DEF v

-----------------------------------------------------------------------------
(* The steps.                                                              *)

(* Idle times are counted up to the width of a time stamp.                 *)
LEMMA OlderType ==
  ASSUME TypeOK, NEW p \in Pages
  PROVE  OlderIdle(p) \in 0..StampBits /\ StampBits \in 0..StampBits
BY PageFaultsConstants DEF TypeOK, OlderIdle

(* The end of a quantum.                                                   *)
LEMMA ClockKeeps ==
  ASSUME PagingInv, ClockInterrupt
  PROVE  PagingInv'
<1>1. m \in State /\ written \in SUBSET Pages /\ m' = Aged(m)
  BY DEF PagingInv, TypeOK, ClockInterrupt
<1>2. /\ Alike(m, m') /\ m' \in State
      /\ Kept(m, written) => Kept(m', written)
      /\ HandFirst(m) => HandFirst(m')
  BY <1>1, AgedAlike, AlikeKept DEF Alike
<1>3. idle' \in [Pages -> 0..StampBits]
  BY OlderType DEF PagingInv, ClockInterrupt
<1>4. TypeOK'
  BY <1>2, <1>3 DEF PagingInv, TypeOK, ClockInterrupt
<1> QED
  BY <1>2, <1>4 DEF PagingInv, ClockInterrupt

(* An access to a present page.                                            *)
LEMMA AccessKeeps ==
  ASSUME PagingInv, NEW p \in Pages, NEW write \in BOOLEAN, Access(p, write)
  PROVE  PagingInv'
<1> DEFINE pte == IF write
                  THEN [m.pte EXCEPT ![p].used = TRUE, ![p].modified = TRUE]
                  ELSE [m.pte EXCEPT ![p].used = TRUE]
           memory == IF write THEN [m.memory EXCEPT ![p] = "new"] ELSE m.memory
           disk == IF write
                   THEN [m.disk EXCEPT ![p] = IF @ = "new" THEN "old" ELSE @]
                   ELSE m.disk
<1>1. m \in State /\ written \in SUBSET Pages /\ m.pte[p].present
  BY DEF PagingInv, TypeOK, Access
<1>2. /\ m' \in State /\ m'.ws = m.ws /\ m'.hand = m.hand /\ m'.pte = pte
      /\ m'.memory = memory /\ m'.disk = disk
  <2>1. /\ pte \in [Pages -> Entry] /\ memory \in [Pages -> Content]
        /\ disk \in [Pages -> Content]
    <3>1. /\ m.pte \in [Pages -> Entry] /\ m.memory \in [Pages -> Content]
          /\ m.disk \in [Pages -> Content]
      BY <1>1 DEF State
    <3>2. pte \in [Pages -> Entry]
      BY <3>1 DEF Entry
    <3>3. {"new", "old"} \subseteq Content
      BY DEF Content
    <3>4. memory \in [Pages -> Content]
      BY <3>1, <3>3
    <3>5. disk \in [Pages -> Content]
      BY <3>1, <3>3
    <3> QED
      BY <3>2, <3>4, <3>5
  <2>2. CASE write
    <3>1. m' = [m EXCEPT !.pte = pte, !.memory = memory, !.disk = disk]
      BY <1>1, <2>2 DEF Access, State, Entry
    <3> HIDE DEF pte, memory, disk
    <3> QED
      BY <1>1, <2>1, <3>1 DEF State
  <2>3. CASE ~write
    <3>1. m' = [m EXCEPT !.pte = pte]
      BY <2>3 DEF Access
    <3>2. memory = m.memory /\ disk = m.disk
      BY <2>3
    <3> HIDE DEF pte, memory, disk
    <3> QED
      BY <1>1, <2>1, <3>1, <3>2 DEF State
  <2> QED
    BY <2>2, <2>3
<1>3. /\ \A q \in Pages : /\ pte[q].present = m.pte[q].present
                          /\ pte[q].heap = m.pte[q].heap
      /\ \A q \in Pages \ {p} : /\ pte[q].modified = m.pte[q].modified
                                /\ memory[q] = m.memory[q]
                                /\ disk[q] = m.disk[q]
      /\ write => pte[p].modified /\ memory[p] = "new"
      /\ ~write => /\ pte[p].modified = m.pte[p].modified
                   /\ memory[p] = m.memory[p] /\ disk[p] = m.disk[p]
  BY <1>1 DEF State, Entry
<1> HIDE DEF pte, memory, disk
<1>4. Listed(m')
  BY <1>1, <1>2, <1>3 DEF PagingInv, Kept, Listed, InWs
<1>5. HeapMarked(m')
  BY <1>2, <1>3 DEF PagingInv, Kept, HeapMarked, Pages
<1>6. Saved(m', written')
  <2>1. Saved(m, written)
    BY DEF PagingInv, Kept
  <2>2. written' \subseteq Pages /\ written' \subseteq written \cup {p}
    BY <1>1 DEF Access
  <2>3. \A q \in written' \ {p} : /\ q \in written
                                 /\ pte[q].modified = m.pte[q].modified
                                 /\ pte[q].present = m.pte[q].present
                                 /\ memory[q] = m.memory[q]
                                 /\ disk[q] = m.disk[q]
    BY <1>3, <2>2
  <2>4. p \in written' => /\ memory[p] = "new" /\ pte[p].present
                          /\ ~pte[p].modified => disk[p] = "new"
    <3>1. CASE write
      BY <1>1, <1>3, <3>1
    <3>2. CASE ~write
      BY <1>1, <1>3, <2>1, <3>2 DEF Access, Saved
    <3> QED
      BY <3>1, <3>2
  <2> QED
    BY <1>2, <2>1, <2>3, <2>4 DEF Saved
<1>7. HandFirst(m) => HandFirst(m')
  BY <1>2 DEF HandFirst
<1>8. TypeOK'
  <2>1. idle' \in [Pages -> 0..StampBits]
    BY PageFaultsConstants DEF PagingInv, TypeOK, Access
  <2> QED
    BY <1>2, <2>1 DEF PagingInv, TypeOK, Access
<1> QED
  BY <1>4, <1>5, <1>6, <1>7, <1>8 DEF PagingInv, Kept, Access

(* A fault, however it ends.                                               *)
LEMMA FaultKeeps ==
  ASSUME PagingInv, NEW p \in Pages, Fault(p)
  PROVE  PagingInv'
<1> DEFINE s == IF algorithm = "lru" THEN Aged(m) ELSE m
<1>1. /\ m \in State /\ written \in SUBSET Pages /\ algorithm \in Algorithms
      /\ ~m.pte[p].present /\ end = "no" /\ last.times <= 2
  BY DEF PagingInv, TypeOK, Fault
<1>2. Alike(m, s)
  <2>1. Alike(m, m)
    BY <1>1 DEF Alike
  <2> QED
    BY <1>1, <2>1, AgedAlike
<1>3. /\ s \in State /\ Kept(s, written) /\ ~s.pte[p].present
  BY <1>1, <1>2, AlikeKept DEF Alike, PagingInv
<1>4. PICK d : /\ d = IF Repeats(p) = 3 THEN [to |-> s, end |-> "repeated"]
                      ELSE IF p \in Heap /\ ~s.pte[p].heap
                           THEN [to |-> s, end |-> "exited"]
                      ELSE IF Len(s.ws) < MaxSize THEN Placed(s, p)
                      ELSE Replaced(s, p)
               /\ m' = d.to /\ end' = d.end
  BY DEF Fault
<1> HIDE DEF s
<1>5. /\ d.to \in State /\ Kept(d.to, written) /\ d.end \in Ends
      /\ d.end = "no" => HandFirst(d.to) /\ Repeats(p) # 3
  <2>1. CASE Repeats(p) = 3
    BY <1>3, <1>4, <2>1 DEF Ends
  <2>2. CASE Repeats(p) # 3 /\ p \in Heap /\ ~s.pte[p].heap
    BY <1>3, <1>4, <2>2 DEF Ends
  <2>3. CASE /\ Repeats(p) # 3 /\ ~(p \in Heap /\ ~s.pte[p].heap)
             /\ Len(s.ws) < MaxSize
    <3>1. d = Placed(s, p)
      BY <1>4, <2>3
    <3> QED
      BY <1>1, <1>3, <2>3, <3>1, PlacedKept DEF Ends
  <2>4. CASE /\ Repeats(p) # 3 /\ ~(p \in Heap /\ ~s.pte[p].heap)
             /\ ~(Len(s.ws) < MaxSize)
    <3>1. d = Replaced(s, p)
      BY <1>4, <2>4
    <3> QED
      BY <1>1, <1>3, <2>4, <3>1, ReplacedKept DEF Ends
  <2> QED
    BY <2>1, <2>2, <2>3, <2>4
<1>6. Repeats(p) \in 0..3
  BY <1>1 DEF PagingInv, TypeOK, Repeats
<1>7. /\ last' = [page |-> p, times |-> Repeats(p)]
      /\ retry' \in Pages \cup {NoPage} /\ UNCHANGED <<algorithm, written>>
  BY DEF Fault
<1>8. idle' \in [Pages -> 0..StampBits]
  <2>1. \A q \in Pages : OlderIdle(q) \in 0..StampBits
    BY OlderType DEF PagingInv
  <2>2. 0 \in 0..StampBits /\ StampBits \in 0..StampBits
    BY PageFaultsConstants
  <2>3. CASE algorithm = "lru"
    BY <2>1, <2>2, <2>3 DEF Fault
  <2>4. CASE algorithm # "lru"
    BY <2>4 DEF Fault, PagingInv, TypeOK
  <2> QED
    BY <2>3, <2>4
<1>9. TypeOK'
  BY <1>1, <1>4, <1>5, <1>6, <1>7, <1>8 DEF TypeOK
<1> QED
  BY <1>4, <1>5, <1>6, <1>7, <1>9 DEF PagingInv

(* allocate_user_mem.                                                      *)
LEMMA AllocateKeeps ==
  ASSUME PagingInv, NEW p \in Heap, Allocate(p)
  PROVE  PagingInv'
<1> DEFINE pte == [m.pte EXCEPT ![p] = [Absent EXCEPT !.heap = TRUE]]
<1>1. m \in State /\ p \in Pages /\ ~m.pte[p].present
  BY DEF PagingInv, TypeOK, Allocate, Kept, HeapMarked, Pages
<1>2. /\ m' \in State /\ m'.ws = m.ws /\ m'.hand = m.hand /\ m'.pte = pte
      /\ m'.memory = m.memory /\ m'.disk = m.disk
  BY <1>1 DEF Allocate, State, Entry, Absent
<1>3. /\ ~pte[p].present /\ pte[p].heap
      /\ \A q \in Pages \ {p} : pte[q] = m.pte[q]
  BY <1>1 DEF State, Absent
<1> HIDE DEF pte
<1>4. Listed(m')
  BY <1>1, <1>2, <1>3 DEF PagingInv, Kept, Listed, InWs
<1>5. HeapMarked(m')
  BY <1>2, <1>3 DEF PagingInv, Kept, HeapMarked, Pages
<1>6. Saved(m', written')
  BY <1>1, <1>2, <1>3 DEF PagingInv, TypeOK, Kept, Saved, Allocate
<1>7. HandFirst(m) => HandFirst(m')
  BY <1>2 DEF HandFirst
<1>8. TypeOK'
  BY <1>2 DEF PagingInv, TypeOK, Allocate
<1> QED
  BY <1>4, <1>5, <1>6, <1>7, <1>8 DEF PagingInv, Kept, Allocate

(* free_user_mem.                                                          *)
LEMMA FreeKeeps ==
  ASSUME PagingInv, NEW p \in Heap, Free(p)
  PROVE  /\ PagingInv'
         /\ ~m'.pte[p].present /\ Range(m'.ws) \subseteq Range(m.ws)
         /\ \A q \in Pages \ {p} : m'.pte[q] = m.pte[q]
<1> DEFINE W == written \ {p}
           s == [m EXCEPT !.disk[p] = "none"]
           t == Invalidate(s, p)
           pte == [t.pte EXCEPT ![p] = Absent]
           memory == [t.memory EXCEPT ![p] = "none"]
<1>1. /\ m \in State /\ p \in Pages /\ W \in SUBSET Pages /\ p \notin W
  BY DEF PagingInv, TypeOK, Pages
<1>2. /\ s \in State /\ s.ws = m.ws /\ s.hand = m.hand /\ s.pte = m.pte
      /\ s.memory = m.memory
      /\ \A q \in Pages \ {p} : s.disk[q] = m.disk[q]
  BY <1>1 DEF State, Content
<1> HIDE DEF s
<1>3. /\ Kept(s, W) /\ InWs(s) = InWs(m)
      /\ HandFirst(m) => HandFirst(s)
  BY <1>1, <1>2 DEF PagingInv, TypeOK, Kept, Listed, InWs, HeapMarked, Saved,
                    HandFirst, Pages
<1>4. /\ t \in State /\ Kept(t, W) /\ p \notin InWs(t)
      /\ HandFirst(m) => HandFirst(t)
      /\ Range(t.ws) \subseteq Range(m.ws)
      /\ \A q \in Pages \ {p} : t.pte[q] = m.pte[q]
  <2>1. CASE p \in InWs(s)
    <3>1. /\ t \in State /\ Kept(t, W) /\ InWs(t) = InWs(s) \ {p}
          /\ Len(t.ws) = Len(s.ws) - 1
          /\ Range(t.ws) \subseteq Range(s.ws)
          /\ \A q \in Pages \ {p} : t.pte[q] = s.pte[q]
      BY <1>1, <1>2, <1>3, <2>1, InvalidateKept
    <3>2. Len(t.ws) # MaxSize
      BY <1>2, <1>3, <3>1, ListFacts DEF Kept, Listed
    <3> QED
      BY <1>2, <3>1, <3>2 DEF HandFirst
  <2>2. CASE p \notin InWs(s)
    BY <1>2, <1>3, <2>2 DEF Invalidate
  <2> QED
    BY <2>1, <2>2
<1>5. m' = [Unmap(t, p) EXCEPT !.pte = [@ EXCEPT ![p] = Absent]]
  BY DEF Free, s
<1> HIDE DEF t
<1>6. /\ m' \in State /\ m'.ws = t.ws /\ m'.hand = t.hand /\ m'.pte = pte
      /\ m'.memory = memory /\ m'.disk = t.disk
  BY <1>1, <1>4, <1>5 DEF Unmap, State, Entry, Content, Absent
<1>7. /\ ~pte[p].present
      /\ \A q \in Pages \ {p} : pte[q] = t.pte[q] /\ memory[q] = t.memory[q]
  BY <1>1, <1>4 DEF State, Absent
<1> HIDE DEF pte, memory, W
<1>8. Listed(m')
  <2>1. ~t.pte[p].present
    BY <1>1, <1>4 DEF Kept, Listed
  <2> QED
    BY <1>1, <1>4, <1>6, <1>7, <2>1 DEF Kept, Listed, InWs
<1>9. HeapMarked(m')
  BY <1>4, <1>6, <1>7 DEF Kept, HeapMarked, Pages
<1>10. Saved(m', W)
  BY <1>1, <1>4, <1>6, <1>7 DEF Kept, Saved
<1>11. HandFirst(m) => HandFirst(m')
  BY <1>4, <1>6 DEF HandFirst
<1>12. idle' \in [Pages -> 0..StampBits]
  <2>1. idle \in [Pages -> 0..StampBits] /\ idle' = [idle EXCEPT ![p] = 0]
    BY DEF PagingInv, TypeOK, Free
  <2>2. 0 \in 0..StampBits
    BY PageFaultsConstants
  <2> QED
    BY <2>1, <2>2
<1>13. TypeOK' /\ written' = W
  BY <1>1, <1>6, <1>12 DEF PagingInv, TypeOK, Free, W
<1>14. PagingInv'
  BY <1>8, <1>9, <1>10, <1>11, <1>13 DEF PagingInv, Kept, Free
<1> QED
  BY <1>4, <1>6, <1>7, <1>14

(* What the loader leaves.                                                 *)
LEMMA InitPaging == Init => PagingInv
<1> SUFFICES ASSUME Init PROVE PagingInv
  OBVIOUS
<1> DEFINE ws == [i \in DOMAIN Loaded |-> [page |-> Loaded[i], stamp |-> 0]]
           R == Range(Loaded)
           inside == Code \cup {p \in Stack : p \in R}
           pte == [p \in Pages |-> IF p \in R
                     THEN [Absent EXCEPT !.present = TRUE, !.used = TRUE,
                                         !.modified = p \in Stack]
                     ELSE Absent]
           memory == [p \in Pages |-> IF p \in R THEN "new" ELSE "none"]
           disk == [p \in Pages |-> IF p \in inside THEN "new" ELSE "none"]
<1>1. m = [ws |-> ws, hand |-> HandAt(ws), pte |-> pte, memory |-> memory,
           disk |-> disk]
  BY DEF Init
<1>2. /\ Loaded \in Seq(Code \cup Stack) /\ Len(Loaded) \in 1..MaxSize
      /\ DOMAIN Loaded = 1..Len(Loaded) /\ Len(Loaded) \in Nat
      /\ \A i \in 1..Len(Loaded) : Loaded[i] \in Code \cup Stack
      /\ R \subseteq Code \cup Stack
  BY PageFaultsConstants, LenProperties DEF Range
<1>3. \A i \in 1..Len(Loaded) : /\ ws[i] \in Seat /\ ws[i].page = Loaded[i]
  BY <1>2, TopBitIs DEF Seat, Pages
<1>4. /\ ws \in Seq(Seat) /\ Len(ws) = Len(Loaded)
      /\ DOMAIN ws = 1..Len(Loaded)
  <2>1. ws \in [1..Len(Loaded) -> Seat]
    BY <1>2, <1>3
  <2> QED
    BY <1>2, <2>1
<1>5. Distinct(ws) /\ PagesOf(ws) = R
  BY <1>2, <1>3, <1>4, PageFaultsConstants DEF Distinct, PagesOf, Range
<1> HIDE DEF ws
<1>6. /\ HandAt(ws) \in Pages \cup {NoPage}
      /\ Len(ws) = MaxSize => HandAt(ws) = ws[1].page
  <2>1. ws[1] \in Seat
    BY <1>2, <1>4
  <2> QED
    BY <2>1 DEF HandAt, Seat
<1>7. /\ pte \in [Pages -> Entry] /\ memory \in [Pages -> Content]
      /\ disk \in [Pages -> Content]
      /\ \A p \in Pages : pte[p].present <=> p \in R
      /\ \A p \in R : memory[p] = "new" /\ (pte[p].modified <=> p \in Stack)
      /\ \A p \in inside : disk[p] = "new"
  <2>1. \A p \in Pages :
          /\ pte[p] \in Entry /\ (pte[p].present <=> p \in R)
          /\ p \in R => (pte[p].modified <=> p \in Stack)
    <3>1. TAKE p \in Pages
    <3>2. CASE p \in R /\ p \in Stack
      <4>1. pte[p] = [present |-> TRUE, used |-> TRUE, modified |-> TRUE,
                      heap |-> FALSE]
        BY <3>2 DEF Absent
      <4> QED
        BY <3>2, <4>1 DEF Entry
    <3>3. CASE p \in R /\ p \notin Stack
      <4>1. (p \in Stack) = FALSE
        BY <3>3
      <4>2. pte[p] = [present |-> TRUE, used |-> TRUE,
                      modified |-> p \in Stack, heap |-> FALSE]
        BY <3>3 DEF Absent
      <4>3. pte[p] = [present |-> TRUE, used |-> TRUE, modified |-> FALSE,
                      heap |-> FALSE]
        BY <4>1, <4>2
      <4> QED
        BY <3>3, <4>3 DEF Entry
    <3>4. CASE p \notin R
      BY <3>4 DEF Absent, Entry
    <3> QED
      BY <3>2, <3>3, <3>4
  <2>2. R \subseteq Pages /\ inside \subseteq Pages
    BY <1>2 DEF Pages
  <2>3. memory \in [Pages -> Content] /\ disk \in [Pages -> Content]
    BY DEF Content
  <2> QED
    BY <2>1, <2>2, <2>3
<1> HIDE DEF pte, memory, disk
<1>8. /\ m \in State /\ m.ws = ws /\ m.hand = HandAt(ws) /\ m.pte = pte
      /\ m.memory = memory /\ m.disk = disk
  BY <1>1, <1>4, <1>6, <1>7 DEF State, Seat
<1>9. Listed(m)
  <2>1. InWs(m) = R
    BY <1>5, <1>8, ListFacts
  <2>2. R = {p \in Pages : m.pte[p].present}
    BY <1>2, <1>7, <1>8 DEF Pages
  <2>3. Len(ws) <= MaxSize
    BY <1>2, <1>4, PageFaultsConstants
  <2> QED
    BY <1>5, <1>8, <2>1, <2>2, <2>3 DEF Listed
<1>10. HeapMarked(m)
  BY <1>2, <1>7, <1>8, PageFaultsConstants DEF HeapMarked, Pages
<1>11. Saved(m, written)
  BY <1>2, <1>7, <1>8 DEF Saved, Init, Pages
<1>12. HandFirst(m)
  BY <1>6, <1>8 DEF HandFirst
<1>13. TypeOK
  <2>1. /\ algorithm \in Algorithms /\ last = [page |-> NoPage, times |-> 0]
        /\ retry = NoPage /\ idle = [p \in Pages |-> 0] /\ end = "no"
        /\ written = Code \cup (Stack \cap R)
    BY DEF Init
  <2>2. idle \in [Pages -> 0..StampBits] /\ written \subseteq Pages
    <3>1. 0 \in 0..StampBits
      BY PageFaultsConstants
    <3> QED
      BY <2>1, <3>1 DEF Pages
  <2>3. last \in [page : Pages \cup {NoPage}, times : 0..3] /\ end \in Ends
    BY <2>1 DEF Ends
  <2> QED
    BY <1>8, <2>1, <2>2, <2>3 DEF TypeOK
<1>14. last.times = 0
  BY DEF Init
<1> QED
  BY <1>9, <1>10, <1>11, <1>12, <1>13, <1>14 DEF PagingInv, Kept

(* Every step.                                                             *)
LEMMA PagingStep ==
  ASSUME PagingInv, [Next]_vars
  PROVE  PagingInv'
<1>1. CASE UNCHANGED vars
  BY <1>1 DEF vars, PagingInv, TypeOK, Repeats
<1> QED
  BY <1>1, ClockKeeps, AccessKeeps, FaultKeeps, AllocateKeeps, FreeKeeps DEF Next

-----------------------------------------------------------------------------
(* The victim.                                                             *)

(* The highest bit of the time stamp of a page that was last used k        *)
(* updates ago: none of its bits above the k-th is set, and the k-th is,   *)
(* as long as there is one.                                                *)
AgeFits(stamp, used, k) ==
  IF k = 0 THEN used
  ELSE /\ ~used /\ stamp < 2 * BitAt[k - 1]
       /\ k < StampBits => BitAt[k - 1] <= stamp

(* Time stamps and used bits tell the age of every page of the list.       *)
AgesIn(s, age) ==
  \A e \in Range(s.ws) : AgeFits(e.stamp, s.pte[e.page].used, age[e.page])

(* The inductive invariant: only LRU keeps time stamps.                    *)
VictimInv == PagingInv /\ (algorithm = "lru" => AgesIn(m, idle))

(* A lower bit counts for at most half of a higher one.                    *)
LEMMA BitsFall ==
  ASSUME NEW j \in 0..(StampBits - 1), NEW k \in 0..(StampBits - 1), j < k
  PROVE  2 * BitAt[k] <= BitAt[j]
<1> DEFINE S == {l \in 0..(StampBits - 1) : j < l /\ ~(2 * BitAt[l] <= BitAt[j])}
<1>1. \A l \in 0..(StampBits - 1) : BitAt[l] \in Nat \ {0}
  BY PageFaultsConstants
<1>2. StampBits \in Nat /\ S \subseteq Nat
  BY PageFaultsConstants
<1>3. SUFFICES ASSUME S # {} PROVE FALSE
  OBVIOUS
<1>4. PICK l \in S : \A i \in S : l <= i
  BY <1>2, <1>3, LeastNumber
<1>5. /\ l \in 1..(StampBits - 1) /\ l - 1 \in 0..(StampBits - 1)
      /\ j < l /\ ~(2 * BitAt[l] <= BitAt[j])
  BY <1>2, <1>4
<1>6. BitAt[l - 1] = 2 * BitAt[l]
  BY <1>5, PageFaultsConstants
<1>7. l - 1 # j
  BY <1>1, <1>5, <1>6
<1>8. l - 1 \notin S /\ j < l - 1
  BY <1>2, <1>4, <1>5, <1>7
<1>9. 2 * BitAt[l - 1] <= BitAt[j]
  BY <1>5, <1>8
<1> QED
  BY <1>1, <1>5, <1>6, <1>9

(* An update makes a page one update older, up to the width of the stamp.  *)
LEMMA AgeSteps ==
  ASSUME NEW stamp \in 0..MaxStamp, NEW used \in BOOLEAN,
         NEW k \in 0..StampBits, AgeFits(stamp, used, k)
  PROVE  LET next == stamp \div 2 + (IF used THEN TopBit ELSE 0)
             older == IF k < StampBits THEN k + 1 ELSE k
         IN  /\ AgeFits(next, FALSE, older) /\ older \in 1..StampBits
             /\ next \in Nat
<1> DEFINE next == stamp \div 2 + (IF used THEN TopBit ELSE 0)
           older == IF k < StampBits THEN k + 1 ELSE k
<1>1. StampBits \in Nat \ {0} /\ BitAt[StampBits - 1] = 1
  BY PageFaultsConstants
<1>2. /\ TopBit \in Nat \ {0} /\ TopBit = BitAt[0] /\ MaxStamp = 2 * TopBit - 1
  BY TopBitIs DEF TopBit
<1>3. stamp \in Nat /\ next \in Nat /\ older \in 1..StampBits
  BY <1>1, <1>2
<1>4. CASE k = 0
  <2>1. used /\ older = 1
    BY <1>1, <1>4 DEF AgeFits
  <2>2. next \in TopBit..(2 * TopBit - 1)
    <3>1. stamp \div 2 \in 0..(TopBit - 1)
      BY <1>2
    <3> QED
      BY <1>2, <2>1, <3>1
  <2> HIDE DEF next
  <2>3. AgeFits(next, FALSE, 1)
    BY <1>2, <2>2 DEF AgeFits
  <2> QED
    BY <1>3, <2>1, <2>3 DEF next
<1>5. CASE k # 0 /\ k < StampBits
  <2>1. ~used /\ BitAt[k - 1] <= stamp /\ stamp < 2 * BitAt[k - 1]
    BY <1>5 DEF AgeFits
  <2>2. k \in 1..(StampBits - 1) /\ k \in 0..(StampBits - 1) /\ older = k + 1
    BY <1>1, <1>5
  <2>3. BitAt[k - 1] = 2 * BitAt[k] /\ BitAt[k] \in Nat
    BY <2>2, PageFaultsConstants
  <2>4. next = stamp \div 2
    BY <1>3, <2>1
  <2>5. BitAt[k] <= next /\ next < 2 * BitAt[k]
    BY <1>3, <2>1, <2>3, <2>4
  <2> HIDE DEF next
  <2>6. AgeFits(next, FALSE, k + 1)
    <3>1. k + 1 # 0 /\ (k + 1) - 1 = k
      BY <2>2
    <3> QED
      BY <2>5, <3>1 DEF AgeFits
  <2> QED
    BY <1>3, <2>2, <2>6 DEF next
<1>6. CASE k # 0 /\ ~(k < StampBits)
  <2>1. k = StampBits /\ older = StampBits
    BY <1>1, <1>6
  <2>2. ~used /\ stamp < 2
    BY <1>1, <1>6, <2>1 DEF AgeFits
  <2>3. next < 2
    BY <1>3, <2>2
  <2> HIDE DEF next
  <2>4. AgeFits(next, FALSE, StampBits)
    BY <1>1, <2>3 DEF AgeFits
  <2> QED
    BY <1>3, <2>1, <2>4 DEF next
<1> QED
  BY <1>4, <1>5, <1>6

(* The same of the whole list.                                             *)
LEMMA AgedAges ==
  ASSUME m \in State, idle \in [Pages -> 0..StampBits], AgesIn(m, idle)
  PROVE  /\ AgesIn(Aged(m), [q \in Pages |-> OlderIdle(q)])
         /\ \A p \in InWs(m) : OlderIdle(p) \in 1..StampBits
<1> DEFINE s == Aged(m)
           stamp(i) == m.ws[i].stamp \div 2 + (IF UsedBit(m, i) THEN TopBit ELSE 0)
           c == ClearUsed(m, DOMAIN m.ws)
           ws == [i \in DOMAIN m.ws |-> [m.ws[i] EXCEPT !.stamp = stamp(i)]]
<1>1. /\ DOMAIN m.ws = 1..Len(m.ws) /\ Len(m.ws) \in Nat
      /\ \A i \in DOMAIN m.ws : /\ m.ws[i] \in Seat /\ m.ws[i].page \in Pages
                                /\ m.ws[i].stamp \in 0..MaxStamp
                                /\ UsedBit(m, i) \in BOOLEAN
                                /\ m.ws[i] \in Range(m.ws)
  BY ListFacts DEF Seat, Range, UsedBit, State, Entry
<1>2. s = [c EXCEPT !.ws = ws] /\ c \in State
  BY ClearAlike DEF Aged, Alike
<1>3. /\ s.ws = ws /\ s.pte = c.pte
      /\ \A i \in DOMAIN m.ws : c.pte[m.ws[i].page].used = FALSE
  <2>1. s.ws = ws /\ s.pte = c.pte
    BY <1>2 DEF State
  <2>2. \A i \in DOMAIN m.ws : c.pte[m.ws[i].page].used = FALSE
    BY <1>1 DEF ClearUsed, State, Entry
  <2> QED
    BY <2>1, <2>2
<1> HIDE DEF s, c
<1>4. ASSUME NEW i \in DOMAIN m.ws
      PROVE  /\ AgeFits(stamp(i), FALSE, OlderIdle(m.ws[i].page))
             /\ OlderIdle(m.ws[i].page) \in 1..StampBits
  <2>1. AgeFits(m.ws[i].stamp, UsedBit(m, i), idle[m.ws[i].page])
    BY <1>1 DEF AgesIn, UsedBit
  <2>2. idle[m.ws[i].page] \in 0..StampBits
    BY <1>1
  <2> QED
    BY <1>1, <2>1, <2>2, AgeSteps DEF OlderIdle
<1>5. ASSUME NEW e \in Range(s.ws)
      PROVE  /\ AgeFits(e.stamp, s.pte[e.page].used, OlderIdle(e.page))
             /\ e.page \in Pages
  <2>1. PICK i \in DOMAIN m.ws : e = [m.ws[i] EXCEPT !.stamp = stamp(i)]
    BY <1>3 DEF Range
  <2> HIDE DEF stamp
  <2>2. e.page = m.ws[i].page /\ e.stamp = stamp(i)
    BY <1>1, <2>1 DEF Seat
  <2> QED
    BY <1>1, <1>3, <1>4, <2>2
<1>6. AgesIn(s, [q \in Pages |-> OlderIdle(q)])
  BY <1>5 DEF AgesIn
<1>7. \A p \in InWs(m) : OlderIdle(p) \in 1..StampBits
  BY <1>4 DEF InWs
<1> QED
  BY <1>6, <1>7 DEF s

(* The page with the smaller time stamp is the older one.                  *)
LEMMA SmallerOlder ==
  ASSUME NEW x \in Nat, NEW y \in Nat, x <= y,
         NEW k \in 1..StampBits, NEW l \in 1..StampBits,
         AgeFits(x, FALSE, k), AgeFits(y, FALSE, l)
  PROVE  l <= k
<1> SUFFICES ASSUME k < l PROVE FALSE
  BY PageFaultsConstants
<1>1. /\ StampBits \in Nat /\ k < StampBits
      /\ k - 1 \in 0..(StampBits - 1) /\ l - 1 \in 0..(StampBits - 1)
      /\ k - 1 < l - 1
  BY PageFaultsConstants
<1>2. BitAt[k - 1] <= x /\ y < 2 * BitAt[l - 1]
  BY <1>1 DEF AgeFits
<1>3. /\ 2 * BitAt[l - 1] <= BitAt[k - 1]
      /\ BitAt[k - 1] \in Nat /\ BitAt[l - 1] \in Nat
  BY <1>1, BitsFall, PageFaultsConstants
<1> QED
  BY <1>2, <1>3

(* What a fault does to the list: every page but the victim stays, and LRU *)
(* keeps the time stamps and the used bits of those that do.               *)
LEMMA FaultCarries ==
  ASSUME PagingInv, NEW p \in Pages, Fault(p)
  PROVE  LET s == IF algorithm = "lru" THEN Aged(m) ELSE m
         IN  /\ Alike(m, s)
             /\ \A i \in DOMAIN m.ws :
                  i # Victim(s).at => m.ws[i].page \in InWs(m')
             /\ algorithm = "lru" => Carried(s, m', p)
<1> DEFINE s == IF algorithm = "lru" THEN Aged(m) ELSE m
<1>1. /\ m \in State /\ written \in SUBSET Pages /\ algorithm \in Algorithms
      /\ ~m.pte[p].present
  BY DEF PagingInv, TypeOK, Fault
<1>2. Alike(m, s)
  <2>1. Alike(m, m)
    BY <1>1 DEF Alike
  <2> QED
    BY <1>1, <2>1, AgedAlike
<1>3. /\ s \in State /\ Kept(s, written) /\ ~s.pte[p].present
      /\ InWs(s) = InWs(m) /\ DOMAIN s.ws = DOMAIN m.ws
      /\ \A i \in DOMAIN m.ws : s.ws[i].page = m.ws[i].page
  <2>1. DOMAIN s.ws = 1..Len(s.ws) /\ DOMAIN m.ws = 1..Len(m.ws)
    BY <1>1, <1>2, ListFacts DEF Alike
  <2> QED
    BY <1>1, <1>2, <2>1, AlikeKept DEF Alike, PagingInv
<1>4. PICK d : /\ d = IF Repeats(p) = 3 THEN [to |-> s, end |-> "repeated"]
                      ELSE IF p \in Heap /\ ~s.pte[p].heap
                           THEN [to |-> s, end |-> "exited"]
                      ELSE IF Len(s.ws) < MaxSize THEN Placed(s, p)
                      ELSE Replaced(s, p)
               /\ m' = d.to
  BY DEF Fault
<1> HIDE DEF s
<1>5. \A i \in DOMAIN m.ws : m.ws[i].page \in InWs(s)
  BY <1>3 DEF InWs
<1>6. CASE d.to = s
  <2>1. \A e \in Range(s.ws) : e.page \in InWs(s)
    BY DEF Range, InWs
  <2>2. Carried(s, s, p)
    BY <1>3, <2>1 DEF Carried, Kept, Listed
  <2> QED
    BY <1>2, <1>4, <1>5, <1>6, <2>2 DEF s
<1>7. CASE /\ d = Placed(s, p) /\ ~(p \in Heap /\ ~s.pte[p].heap)
           /\ Len(s.ws) < MaxSize
  <2>1. InWs(s) \subseteq InWs(d.to) /\ Carried(s, d.to, p)
    BY <1>1, <1>3, <1>7, PlacedKept
  <2> QED
    BY <1>2, <1>4, <1>5, <2>1 DEF s
<1>8. CASE /\ d = Replaced(s, p) /\ ~(p \in Heap /\ ~s.pte[p].heap)
           /\ ~(Len(s.ws) < MaxSize)
  <2>1. /\ \A i \in DOMAIN s.ws :
             i # Victim(s).at => s.ws[i].page \in InWs(d.to)
        /\ algorithm = "lru" => Carried(s, d.to, p)
    BY <1>1, <1>3, <1>8, ReplacedKept
  <2> QED
    BY <1>2, <1>3, <1>4, <2>1 DEF s
<1> QED
  BY <1>4, <1>6, <1>7, <1>8

(* The steps of VictimInv.                                                 *)
LEMMA AgesKept ==
  ASSUME VictimInv, [Next]_vars
  PROVE  VictimInv'
<1>1. PagingInv /\ PagingInv'
  BY PagingStep DEF VictimInv
<1>2. /\ m \in State /\ idle \in [Pages -> 0..StampBits]
      /\ m' \in State /\ InWs(m') = {p \in Pages : m'.pte[p].present}
      /\ InWs(m) = {p \in Pages : m.pte[p].present}
  BY <1>1 DEF PagingInv, TypeOK, Kept, Listed
<1>3. /\ \A e \in Range(m.ws) : e.page \in InWs(m)
      /\ \A e \in Range(m'.ws) : e.page \in InWs(m')
  BY DEF Range, InWs
<1> SUFFICES ASSUME algorithm' = "lru" PROVE AgesIn(m', idle')
  BY <1>1 DEF VictimInv
<1>4. algorithm = "lru"
  BY DEF Next, vars, ClockInterrupt, Fault, Access, Allocate, Free
<1>5. AgesIn(m, idle)
  BY <1>4 DEF VictimInv
<1>6. /\ AgesIn(Aged(m), [q \in Pages |-> OlderIdle(q)])
      /\ InWs(Aged(m)) = InWs(m) /\ Aged(m) \in State
      /\ Aged(m).disk = m.disk
  BY <1>2, <1>5, AgedAges, AgedAlike, AlikeKept DEF Alike
<1>7. CASE ClockInterrupt
  <2>1. /\ m' = Aged(m)
        /\ \A e \in Range(m'.ws) : idle'[e.page] = OlderIdle(e.page)
    BY <1>2, <1>3, <1>6, <1>7 DEF ClockInterrupt
  <2> QED
    BY <1>2, <1>3, <1>6, <2>1 DEF AgesIn
<1>8. ASSUME NEW p \in Pages, Fault(p) PROVE AgesIn(m', idle')
  <2>1. Carried(Aged(m), m', p)
    BY <1>1, <1>4, <1>8, FaultCarries
  <2>2. \A e \in Range(m'.ws) :
          idle'[e.page] = IF e.page # p THEN OlderIdle(e.page)
                          ELSE IF m.disk[p] = "none" THEN StampBits ELSE 0
    BY <1>2, <1>3, <1>4, <1>8 DEF Fault
  <2>3. ASSUME NEW e \in Range(m'.ws)
        PROVE  AgeFits(e.stamp, m'.pte[e.page].used, idle'[e.page])
    <3>1. CASE /\ e \in Range(Aged(m).ws) /\ e.page # p
               /\ m'.pte[e.page].used <=> Aged(m).pte[e.page].used
      <4>1. e.page \in Pages /\ idle'[e.page] = OlderIdle(e.page)
        BY <1>2, <1>3, <2>2, <3>1
      <4>2. AgeFits(e.stamp, Aged(m).pte[e.page].used, OlderIdle(e.page))
        BY <1>6, <3>1, <4>1 DEF AgesIn
      <4> QED
        BY <3>1, <4>1, <4>2 DEF AgeFits
    <3>2. CASE /\ e = [page |-> p, stamp |-> 0]
               /\ m'.pte[p].used <=> m.disk[p] # "none"
      <4>1. e.page = p /\ e.stamp = 0
        BY <3>2
      <4>2. idle'[p] = IF m.disk[p] = "none" THEN StampBits ELSE 0
        BY <2>2, <4>1
      <4>3. StampBits # 0 /\ BitAt[StampBits - 1] = 1 /\ ~(StampBits < StampBits)
        BY PageFaultsConstants
      <4> QED
        BY <3>2, <4>1, <4>2, <4>3 DEF AgeFits
    <3> QED
      BY <1>6, <2>1, <3>1, <3>2 DEF Carried
  <2> QED
    BY <2>3 DEF AgesIn
<1>9. ASSUME NEW p \in Pages, NEW write \in BOOLEAN, Access(p, write)
      PROVE  AgesIn(m', idle')
  <2>1. /\ m'.ws = m.ws /\ m'.pte[p].used
        /\ \A q \in Pages \ {p} : m'.pte[q].used = m.pte[q].used
    BY <1>2, <1>9 DEF Access, State, Entry
  <2>2. idle'[p] = 0 /\ \A q \in Pages \ {p} : idle'[q] = idle[q]
    BY <1>2, <1>4, <1>9 DEF Access
  <2> QED
    BY <1>2, <1>3, <1>5, <2>1, <2>2 DEF AgesIn, AgeFits
<1>10. ASSUME NEW p \in Heap, Allocate(p) PROVE AgesIn(m', idle')
  <2>1. p \in Pages /\ p \notin InWs(m)
    BY <1>1, <1>2, <1>10 DEF PagingInv, Kept, HeapMarked, Allocate, Pages
  <2>2. /\ m'.ws = m.ws /\ idle' = idle
        /\ \A q \in Pages \ {p} : m'.pte[q] = m.pte[q]
    BY <1>2, <1>10 DEF Allocate, State
  <2> QED
    BY <1>2, <1>3, <1>5, <2>1, <2>2 DEF AgesIn
<1>11. ASSUME NEW p \in Heap, Free(p) PROVE AgesIn(m', idle')
  <2>1. /\ p \in Pages /\ p \notin InWs(m')
        /\ Range(m'.ws) \subseteq Range(m.ws)
        /\ \A q \in Pages \ {p} : m'.pte[q] = m.pte[q]
    BY <1>1, <1>2, <1>11, FreeKeeps DEF Pages
  <2>2. \A q \in Pages \ {p} : idle'[q] = idle[q]
    BY <1>2, <1>11 DEF Free
  <2> QED
    BY <1>2, <1>3, <1>5, <2>1, <2>2 DEF AgesIn
<1>12. CASE UNCHANGED vars
  BY <1>5, <1>12 DEF vars
<1> QED
  BY <1>7, <1>8, <1>9, <1>10, <1>11, <1>12 DEF Next

(* What the loader leaves was just used.                                   *)
LEMMA InitVictim == Init => VictimInv
<1> SUFFICES ASSUME Init PROVE VictimInv
  OBVIOUS
<1>1. PagingInv
  BY InitPaging
<1>2. \A e \in Range(m.ws) :
        e.page \in Pages /\ m.pte[e.page].used /\ idle[e.page] = 0
  <2>1. \A e \in Range(m.ws) : e.page \in InWs(m)
    BY DEF Range, InWs
  <2>2. InWs(m) = {p \in Pages : m.pte[p].present}
    BY <1>1 DEF PagingInv, Kept, Listed
  <2>3. \A p \in Pages : m.pte[p].present => m.pte[p].used
    BY DEF Init, Absent
  <2>4. \A p \in Pages : idle[p] = 0
    BY DEF Init
  <2> QED
    BY <2>1, <2>2, <2>3, <2>4
<1> QED
  BY <1>1, <1>2 DEF VictimInv, AgesIn, AgeFits

(* The place that the search stops at is the one the algorithm is for.     *)
LEMMA VictimStep ==
  ASSUME VictimInv, [Next]_vars
  PROVE  VictimAsPromised
<1> SUFFICES ASSUME NEW v \in DOMAIN m.ws, EvictedAt(v)
             PROVE  CASE algorithm = "clock" ->
                           v = Min(IF Unused(m) = {} THEN DOMAIN m.ws ELSE Unused(m))
                      [] algorithm = "modified clock" -> v \in Best(m)
                      [] algorithm = "lru" ->
                           \A r \in DOMAIN m.ws :
                             OlderIdle(m.ws[r].page) <= OlderIdle(m.ws[v].page)
  BY DEF VictimAsPromised
<1>1. /\ PagingInv /\ PagingInv' /\ m \in State /\ algorithm \in Algorithms
      /\ idle \in [Pages -> 0..StampBits]
      /\ InWs(m') = {p \in Pages : m'.pte[p].present}
      /\ DOMAIN m.ws = 1..Len(m.ws) /\ Len(m.ws) \in Nat /\ 1 \in DOMAIN m.ws
      /\ \A i \in DOMAIN m.ws : m.ws[i].page \in Pages
  <2>1. PagingInv /\ PagingInv'
    BY PagingStep DEF VictimInv
  <2>2. m \in State
    BY <2>1 DEF PagingInv, TypeOK
  <2> QED
    BY <2>1, <2>2, ListFacts DEF PagingInv, TypeOK, Kept, Listed
<1>2. PICK p \in Pages : Fault(p)
  <2>1. PICK q \in Pages : ~m.pte[q].present /\ m'.pte[q].present
    BY DEF EvictedAt
  <2>2. ASSUME ClockInterrupt PROVE FALSE
    BY <1>1, <2>1, <2>2, AgedAlike DEF ClockInterrupt, Alike
  <2>3. ASSUME NEW p \in Pages, NEW write \in BOOLEAN, Access(p, write)
        PROVE  FALSE
    BY <1>1, <2>1, <2>3 DEF Access, State, Entry
  <2>4. ASSUME NEW p \in Heap, Allocate(p) PROVE FALSE
    BY <1>1, <2>1, <2>4 DEF Allocate, State, Absent, Pages
  <2>5. ASSUME NEW p \in Heap, Free(p) PROVE FALSE
    BY <1>1, <2>1, <2>5, FreeKeeps
  <2>6. ~UNCHANGED vars
    BY <2>1 DEF vars
  <2> QED
    BY <2>2, <2>3, <2>4, <2>5, <2>6 DEF Next
<1> DEFINE s == IF algorithm = "lru" THEN Aged(m) ELSE m
<1>3. v = Victim(s).at
  <2>1. m.ws[v].page \notin InWs(m')
    BY <1>1 DEF EvictedAt
  <2> QED
    BY <1>1, <1>2, <2>1, FaultCarries
<1>4. \A S \in SUBSET DOMAIN m.ws : S # {} => Min(S) \in S
  BY <1>1, FirstOf
<1>5. CASE algorithm = "clock"
  <2>1. v = ClockVictim(m).at
    BY <1>3, <1>5 DEF Victim
  <2>2. Min(DOMAIN m.ws) = 1
    <3> DEFINE S == DOMAIN m.ws
    <3>1. S \subseteq Nat /\ S # {}
      BY <1>1
    <3>2. Min(S) = CHOOSE x \in S : \A y \in S : x <= y
      BY DEF Min
    <3> HIDE DEF S
    <3>3. Min(S) \in S /\ \A y \in S : Min(S) <= y
      BY <3>1, <3>2, LeastNumber
    <3> QED
      BY <1>1, <3>3 DEF S
  <2> QED
    BY <1>5, <2>1, <2>2 DEF ClockVictim
<1>6. CASE algorithm = "modified clock"
  <2>1. v = ModifiedClockVictim(m).at
    BY <1>3, <1>6 DEF Victim
  <2>2. v \in Best(m)
    BY <1>1, <1>4, <2>1 DEF ModifiedClockVictim, ClockVictim, Best, Unused, Clean
  <2> QED
    BY <1>6, <2>2
<1>7. CASE algorithm = "lru"
  <2>1. s = Aged(m) /\ v = LruVictim(s).at
    BY <1>3, <1>7 DEF Victim
  <2>2. /\ AgesIn(s, [q \in Pages |-> OlderIdle(q)]) /\ Alike(m, s) /\ s \in State
        /\ \A q \in InWs(m) : OlderIdle(q) \in 1..StampBits
    BY <1>1, <1>7, <2>1, AgedAges, AgedAlike DEF VictimInv, Alike
  <2>3. /\ DOMAIN s.ws = DOMAIN m.ws
        /\ \A i \in DOMAIN m.ws :
             /\ s.ws[i].page = m.ws[i].page /\ m.ws[i].page \in InWs(m)
             /\ s.ws[i].stamp \in Nat /\ s.ws[i] \in Range(s.ws)
    <3>1. DOMAIN s.ws = DOMAIN m.ws
      BY <1>1, <2>2, ListFacts DEF Alike
    <3>2. \A i \in DOMAIN m.ws : s.ws[i] \in Seat /\ s.ws[i].page = m.ws[i].page
      BY <2>2, <3>1, ListFacts DEF Alike
    <3> QED
      BY <3>1, <3>2, TopBitIs DEF Seat, Range, InWs
  <2> HIDE DEF s
  <2>4. \A j \in DOMAIN s.ws : s.ws[v].stamp <= s.ws[j].stamp
    <3> DEFINE S == {i \in DOMAIN s.ws :
                       \A j \in DOMAIN s.ws : s.ws[i].stamp <= s.ws[j].stamp}
    <3>1. S # {}
      BY <2>2, <2>3, LeastStamp
    <3>2. v = Min(S) /\ S \in SUBSET DOMAIN m.ws
      BY <2>1, <2>3 DEF LruVictim
    <3> QED
      BY <1>4, <3>1, <3>2
  <2>5. \A i \in DOMAIN m.ws :
          AgeFits(s.ws[i].stamp, s.pte[m.ws[i].page].used,
                  OlderIdle(m.ws[i].page))
    BY <1>1, <2>2, <2>3 DEF AgesIn
  <2>6. \A i \in DOMAIN m.ws :
          AgeFits(s.ws[i].stamp, FALSE, OlderIdle(m.ws[i].page))
    BY <2>2, <2>3, <2>5 DEF AgeFits
  <2>7. ASSUME NEW r \in DOMAIN m.ws
        PROVE  OlderIdle(m.ws[r].page) <= OlderIdle(m.ws[v].page)
    <3>1. /\ s.ws[v].stamp \in Nat /\ s.ws[r].stamp \in Nat
          /\ s.ws[v].stamp <= s.ws[r].stamp
          /\ OlderIdle(m.ws[r].page) \in 1..StampBits
          /\ OlderIdle(m.ws[v].page) \in 1..StampBits
      BY <2>2, <2>3, <2>4
    <3> QED
      BY <2>6, <3>1, SmallerOlder
  <2> QED
    BY <1>7, <2>7
<1> QED
  BY <1>1, <1>5, <1>6, <1>7 DEF Algorithms

-----------------------------------------------------------------------------
(* The theorems.                                                           *)

(* PagingInv is an invariant of demand paging.                             *)
THEOREM Invariance == Spec => []PagingInv
BY InitPaging, PagingStep, PTL DEF Spec

(* The first property is a part of it.                                     *)
LEMMA InvWorkingSet == PagingInv => WorkingSet
BY DEF PagingInv, Kept, Listed, HandFirst, Distinct, WorkingSet

(* So is the second.                                                       *)
LEMMA InvNoLostWrites == PagingInv => NoLostWrites
BY DEF PagingInv, Kept, Saved, NoLostWrites

(* The list is the set of present pages, each once and no more than        *)
(* allowed, and the hand of a full list is its first element, whatever     *)
(* faults, accesses, frees and ticks come in whatever order.               *)
THEOREM WorkingSetCorrect == Spec => []WorkingSet
BY Invariance, InvWorkingSet, PTL

(* What was written last to a page is in memory or in the page file until  *)
(* the page is freed.                                                      *)
THEOREM NoLostWritesCorrect == Spec => []NoLostWrites
BY Invariance, InvNoLostWrites, PTL

(* The page that goes is the one the algorithm promises: the first unused  *)
(* one from the hand, one of the best class, or, by LRU, one that no other *)
(* has been idle for longer than, as far as the time stamps can tell.      *)
THEOREM VictimChoiceCorrect == Spec => VictimChoice
<1>1. Spec => []VictimInv
  BY InitVictim, AgesKept, PTL DEF Spec
<1>2. VictimInv /\ [Next]_vars => [VictimAsPromised]_vars
  BY VictimStep
<1> QED
  BY <1>1, <1>2, PTL DEF Spec, VictimChoice
==============================================================================
