----------------------------- MODULE ListLemmas -----------------------------
(***************************************************************************)
(* Lemmas about the sorted lists the backend keeps (src/backend/list.h,    *)
(* used by timer.c): removing an element and inserting one in its place.   *)
(***************************************************************************)
EXTENDS Integers, SequencesExt, SequenceTheorems, WellFoundedInduction, TLAPS

(***************************************************************************)
(* q is sorted by the key dl and, among elements with the same key, by n.  *)
(***************************************************************************)
SortedBy(q, dl, n) ==
  \A i, j \in 1..Len(q) : i < j =>
    \/ dl[q[i]] < dl[q[j]]
    \/ dl[q[i]] = dl[q[j]] /\ n[q[i]] < n[q[j]]

(* r lists elements of q in the order of q.                                *)
KeepsOrder(r, q) ==
  \A i, j \in 1..Len(r) : i < j =>
    \E k, l \in 1..Len(q) : k < l /\ r[i] = q[k] /\ r[j] = q[l]

(* RemoveAt and InsertAt of the community modules, position by position.   *)
LEMMA RemoveAtElements ==
  ASSUME NEW S, NEW q \in Seq(S), NEW k \in 1..Len(q)
  PROVE  /\ RemoveAt(q, k) \in Seq(S)
         /\ Len(RemoveAt(q, k)) = Len(q) - 1
         /\ \A i \in 1..Len(q) - 1 :
              RemoveAt(q, k)[i] = IF i < k THEN q[i] ELSE q[i + 1]
<1> DEFINE pre == SubSeq(q, 1, k - 1)
           post == SubSeq(q, k + 1, Len(q))
<1>1. /\ pre \in Seq(S) /\ Len(pre) = k - 1
      /\ \A i \in 1..k - 1 : pre[i] = q[i]
  BY SubSeqProperties
<1>2. /\ post \in Seq(S) /\ Len(post) = Len(q) - k
      /\ \A i \in 1..Len(q) - k : post[i] = q[k + i]
  BY SubSeqProperties
<1>3. RemoveAt(q, k) = pre \o post
  BY DEF RemoveAt
<1> HIDE DEF pre, post
<1>4. /\ pre \o post \in Seq(S)
      /\ Len(pre \o post) = Len(pre) + Len(post)
      /\ \A i \in 1..Len(pre) + Len(post) :
           (pre \o post)[i] =
             IF i <= Len(pre) THEN pre[i] ELSE post[i - Len(pre)]
  BY <1>1, <1>2, ConcatProperties
<1>5. Len(q) \in Nat /\ Len(pre) + Len(post) = Len(q) - 1
  BY <1>1, <1>2, LenProperties
<1>6. ASSUME NEW i \in 1..Len(q) - 1
      PROVE  (pre \o post)[i] = IF i < k THEN q[i] ELSE q[i + 1]
  <2>1. CASE i < k
    <3>1. i \in 1..k - 1
      BY <1>5, <2>1
    <3>2. (pre \o post)[i] = pre[i]
      BY <1>1, <1>4, <1>5, <2>1
    <3> QED BY <1>1, <2>1, <3>1, <3>2
  <2>2. CASE ~(i < k)
    <3>1. (pre \o post)[i] = post[i - (k - 1)]
      BY <1>1, <1>4, <1>5, <2>2
    <3>2. i - (k - 1) \in 1..Len(q) - k
      BY <1>5, <2>2
    <3>3. k + (i - (k - 1)) = i + 1
      BY <1>5, <2>2
    <3> QED BY <1>2, <2>2, <3>1, <3>2, <3>3
  <2> QED BY <2>1, <2>2
<1> QED BY <1>3, <1>4, <1>5, <1>6

IsInsertion(r, q, k, t) ==
  /\ Len(r) = Len(q) + 1
  /\ \A i \in 1..Len(q) + 1 :
       r[i] = IF i < k THEN q[i] ELSE IF i = k THEN t ELSE q[i - 1]

(* Inserting t at k shifts the elements from k on by one.                  *)
LEMMA InsertAtElements ==
  ASSUME NEW S, NEW q \in Seq(S), NEW k \in 1..Len(q) + 1, NEW t \in S
  PROVE  /\ InsertAt(q, k, t) \in Seq(S)
         /\ IsInsertion(InsertAt(q, k, t), q, k, t)
<1> DEFINE pre == SubSeq(q, 1, k - 1)
           post == SubSeq(q, k, Len(q))
           mid == <<t>>
<1>0. Len(q) \in Nat
  BY LenProperties
<1>1. /\ pre \in Seq(S) /\ Len(pre) = k - 1
      /\ \A i \in 1..k - 1 : pre[i] = q[i]
  BY <1>0, SubSeqProperties
<1>2. /\ post \in Seq(S) /\ Len(post) = Len(q) - k + 1
      /\ \A i \in 1..Len(q) - k + 1 : post[i] = q[k + i - 1]
  BY <1>0, SubSeqProperties
<1>3. mid \in Seq(S) /\ Len(mid) = 1 /\ mid[1] = t
  OBVIOUS
<1>4. InsertAt(q, k, t) = (pre \o mid) \o post
  BY DEF InsertAt
<1> HIDE DEF pre, post, mid
<1>5. /\ pre \o mid \in Seq(S)
      /\ Len(pre \o mid) = Len(pre) + Len(mid)
      /\ \A i \in 1..Len(pre) + Len(mid) :
           (pre \o mid)[i] =
             IF i <= Len(pre) THEN pre[i] ELSE mid[i - Len(pre)]
  BY <1>1, <1>3, ConcatProperties
<1>6. \A i \in 1..k : (pre \o mid)[i] = IF i < k THEN q[i] ELSE t
  <2>1. Len(pre) = k - 1 /\ Len(pre) + Len(mid) = k
    BY <1>0, <1>1, <1>3
  <2> SUFFICES ASSUME NEW i \in 1..k
               PROVE  (pre \o mid)[i] = IF i < k THEN q[i] ELSE t
    OBVIOUS
  <2>2. CASE i < k
    BY <1>0, <1>1, <1>5, <2>1, <2>2
  <2>3. CASE ~(i < k)
    <3>1. i = k /\ i - Len(pre) = 1 /\ ~(i <= Len(pre))
      BY <1>0, <2>1, <2>3
    <3>2. (pre \o mid)[i] = mid[i - Len(pre)]
      BY <1>0, <1>5, <2>1, <3>1
    <3> QED BY <1>3, <2>3, <3>1, <3>2
  <2> QED BY <2>2, <2>3
<1> DEFINE front == pre \o mid
<1>7. front \in Seq(S) /\ Len(front) = k
  BY <1>0, <1>1, <1>3, <1>5
<1>8. \A i \in 1..k : front[i] = IF i < k THEN q[i] ELSE t
  BY <1>6
<1> HIDE DEF front
<1>9. /\ front \o post \in Seq(S)
      /\ Len(front \o post) = Len(front) + Len(post)
      /\ \A i \in 1..Len(front) + Len(post) :
           (front \o post)[i] =
             IF i <= Len(front) THEN front[i] ELSE post[i - Len(front)]
  BY <1>2, <1>7, ConcatProperties
<1>10. ASSUME NEW i \in 1..Len(q) + 1
       PROVE  (front \o post)[i] =
                IF i < k THEN q[i] ELSE IF i = k THEN t ELSE q[i - 1]
  <2>1. CASE i <= k
    <3>1. (front \o post)[i] = front[i]
      BY <1>0, <1>2, <1>7, <1>9, <2>1
    <3>2. i \in 1..k
      BY <1>0, <2>1
    <3> QED BY <1>8, <3>1, <3>2
  <2>2. CASE ~(i <= k)
    <3>1. (front \o post)[i] = post[i - k]
      BY <1>0, <1>2, <1>7, <1>9, <2>2
    <3>2. i - k \in 1..Len(q) - k + 1
      BY <1>0, <2>2
    <3>3. k + (i - k) - 1 = i - 1
      BY <1>0, <2>2
    <3> QED BY <1>2, <2>2, <3>1, <3>2, <3>3
  <2> QED BY <2>1, <2>2
<1>11. InsertAt(q, k, t) = front \o post
  BY <1>4 DEF front
<1>12. Len(front \o post) = Len(q) + 1
  BY <1>0, <1>2, <1>7, <1>9
<1> QED BY <1>9, <1>10, <1>11, <1>12 DEF IsInsertion

(* Unlinking an element from a list without duplicates.                    *)
LEMMA RemoveFirstElements ==
  ASSUME NEW S, NEW q \in Seq(S), NEW t,
         \A i, j \in 1..Len(q) : i < j => q[i] # q[j]
  PROVE  /\ RemoveFirst(q, t) \in Seq(S)
         /\ ToSet(RemoveFirst(q, t)) = ToSet(q) \ {t}
         /\ KeepsOrder(RemoveFirst(q, t), q)
<1> DEFINE r == RemoveFirst(q, t)
<1>0. Len(q) \in Nat /\ DOMAIN q = 1..Len(q)
  BY LenProperties
<1>1. CASE ~ \E i \in 1..Len(q) : q[i] = t
  <2>1. r = q
    BY <1>1 DEF RemoveFirst
  <2>2. ToSet(q) = ToSet(q) \ {t}
    BY <1>0, <1>1 DEF ToSet
  <2>3. KeepsOrder(q, q)
    BY DEF KeepsOrder
  <2> QED BY <2>1, <2>2, <2>3
<1>2. CASE \E i \in 1..Len(q) : q[i] = t
  <2>1. PICK k \in 1..Len(q) : q[k] = t
    BY <1>2
  <2>2. \A i \in 1..Len(q) : q[i] = t => i = k
    BY <1>0, <2>1
  <2>3. SelectInSeq(q, LAMBDA v : v = t) = k
    <3> DEFINE I == {i \in 1..Len(q) : q[i] = t}
    <3>1. I = {k}
      BY <2>1, <2>2
    <3>2. Min({k}) = k
      BY DEF Min
    <3>3. SelectInSeq(q, LAMBDA v : v = t) = IF I # {} THEN Min(I) ELSE 0
      BY DEF SelectInSeq
    <3> HIDE DEF I
    <3> QED BY <3>1, <3>2, <3>3
  <2>4. r = RemoveAt(q, k)
    BY <1>2, <2>3 DEF RemoveFirst
  <2> HIDE DEF r
  <2>5. /\ r \in Seq(S)
        /\ Len(r) = Len(q) - 1
        /\ \A i \in 1..Len(q) - 1 : r[i] = IF i < k THEN q[i] ELSE q[i + 1]
    BY <2>4, RemoveAtElements
  <2>6. DOMAIN r = 1..Len(q) - 1
    BY <2>5, LenProperties
  <2>7. ToSet(r) = ToSet(q) \ {t}
    <3>1. ASSUME NEW i \in 1..Len(q) - 1
          PROVE  r[i] \in ToSet(q) /\ r[i] # t
      <4>1. CASE i < k
        <5>1. r[i] = q[i] /\ i \in 1..Len(q) /\ i # k
          BY <1>0, <2>5, <4>1
        <5> QED BY <1>0, <2>2, <5>1 DEF ToSet
      <4>2. CASE ~(i < k)
        <5>1. r[i] = q[i + 1] /\ i + 1 \in 1..Len(q) /\ i + 1 # k
          BY <1>0, <2>5, <4>2
        <5> QED BY <1>0, <2>2, <5>1 DEF ToSet
      <4> QED BY <4>1, <4>2
    <3>2. ASSUME NEW i \in 1..Len(q), q[i] # t
          PROVE  \E j \in 1..Len(q) - 1 : r[j] = q[i]
      <4>1. CASE i < k
        <5>1. i \in 1..Len(q) - 1
          BY <1>0, <4>1
        <5> QED BY <2>5, <4>1, <5>1
      <4>2. CASE i > k
        <5>1. i - 1 \in 1..Len(q) - 1 /\ ~(i - 1 < k) /\ (i - 1) + 1 = i
          BY <1>0, <4>2
        <5> QED BY <2>5, <5>1
      <4>3. i # k
        BY <2>1, <3>2
      <4> QED BY <1>0, <4>1, <4>2, <4>3
    <3>3. ASSUME NEW x \in ToSet(r) PROVE x \in ToSet(q) \ {t}
      BY <2>6, <3>1 DEF ToSet
    <3>4. ASSUME NEW x \in ToSet(q) \ {t} PROVE x \in ToSet(r)
      <4>1. PICK i \in 1..Len(q) : x = q[i]
        BY <1>0 DEF ToSet
      <4> QED BY <2>6, <3>2, <4>1 DEF ToSet
    <3> QED BY <3>3, <3>4
  <2>8. KeepsOrder(r, q)
    <3> SUFFICES ASSUME NEW i \in 1..Len(r), NEW j \in 1..Len(r),
                        i < j
                 PROVE  \E l, m \in 1..Len(q) :
                          l < m /\ r[i] = q[l] /\ r[j] = q[m]
      BY DEF KeepsOrder
    <3> DEFINE l == IF i < k THEN i ELSE i + 1
               m == IF j < k THEN j ELSE j + 1
    <3>1. l \in 1..Len(q) /\ m \in 1..Len(q) /\ l < m
      BY <1>0, <2>5
    <3>2. r[i] = q[l]
      BY <2>5
    <3>3. r[j] = q[m]
      BY <2>5
    <3> QED BY <3>1, <3>2, <3>3
  <2> QED BY <2>5, <2>7, <2>8 DEF r
<1> QED BY <1>1, <1>2

(* Unlinking keeps a list sorted.                                          *)
LEMMA KeepsOrderKeepsSorted ==
  ASSUME NEW q, NEW r, NEW dl, NEW n,
         SortedBy(q, dl, n), KeepsOrder(r, q)
  PROVE  SortedBy(r, dl, n)
<1> SUFFICES ASSUME NEW i \in 1..Len(r), NEW j \in 1..Len(r), i < j
             PROVE  \/ dl[r[i]] < dl[r[j]]
                    \/ dl[r[i]] = dl[r[j]] /\ n[r[i]] < n[r[j]]
  BY DEF SortedBy
<1>1. PICK k, l \in 1..Len(q) : k < l /\ r[i] = q[k] /\ r[j] = q[l]
  BY DEF KeepsOrder
<1> QED BY <1>1 DEF SortedBy

(* A sorted list has no duplicates.                                        *)
LEMMA SortedDistinct ==
  ASSUME NEW S, NEW q \in Seq(S),
         NEW dl \in [S -> Nat], NEW n \in [S -> Nat], SortedBy(q, dl, n)
  PROVE  \A i, j \in 1..Len(q) : i < j => q[i] # q[j]
<1> SUFFICES ASSUME NEW i \in 1..Len(q), NEW j \in 1..Len(q),
                    i < j, q[i] = q[j]
             PROVE  FALSE
  OBVIOUS
<1>1. q[i] \in S
  BY ElementOfSeq
<1>2. dl[q[i]] \in Nat /\ n[q[i]] \in Nat
  BY <1>1
<1>3. dl[q[i]] < dl[q[j]] \/ n[q[i]] < n[q[j]]
  BY DEF SortedBy
<1> QED BY <1>2, <1>3


(* Every inhabited set of natural numbers has a least element.             *)
NatLess == {p \in Nat \X Nat : p[1] < p[2]}

LEMMA LeastElement ==
  ASSUME NEW I \in SUBSET Nat, I # {}
  PROVE  Min(I) \in I /\ \A i \in I : Min(I) <= i
<1>1. OpToRel(<, Nat) = NatLess
  BY Zenon DEF OpToRel, NatLess
<1>2. IsWellFoundedOn(NatLess, Nat)
  BY <1>1, NatLessThanWellFounded
<1>3. PICK x \in I : \A y \in I : ~(<<y, x>> \in NatLess)
  BY <1>2, WFMin
<1>4. ASSUME NEW y \in I, ~(x <= y) PROVE FALSE
  <2>1. y < x
    BY <1>4
  <2>2. <<y, x>> \in NatLess
    BY <2>1 DEF NatLess
  <2> QED BY <1>3, <2>2
<1>5. \A y \in I : x <= y
  BY <1>4
<1> QED BY <1>5 DEF Min

(* The position at which a value is inserted in a sorted list of numbers:  *)
(* before the first greater one, or at the end.                            *)
LEMMA FirstGreater ==
  ASSUME NEW m \in Nat, NEW f \in [1..m -> Nat], NEW d \in Nat,
         \A i, j \in 1..m : i < j => f[i] <= f[j]
  PROVE  LET I == {i \in 1..m : f[i] > d}
             k == IF I = {} THEN m + 1 ELSE Min(I)
         IN  /\ k \in 1..m + 1
             /\ \A i \in 1..m : i < k => f[i] <= d
             /\ \A i \in 1..m : i >= k => d < f[i]
<1> DEFINE I == {i \in 1..m : f[i] > d}
           k == IF I = {} THEN m + 1 ELSE Min(I)
<1>1. CASE I = {}
  <2>1. k = m + 1
    BY <1>1
  <2>2. \A i \in 1..m : ~(f[i] > d)
    BY <1>1
  <2> HIDE DEF I, k
  <2> QED BY <2>1, <2>2
<1>2. CASE I # {}
  <2>1. I \in SUBSET Nat
    OBVIOUS
  <2>2. k = Min(I)
    BY <1>2
  <2>3. k \in I /\ \A y \in I : k <= y
    <3> HIDE DEF I, k
    <3> QED BY <1>2, <2>1, <2>2, LeastElement
  <2> HIDE DEF k
  <2>4. k \in 1..m /\ f[k] > d
    BY <2>3
  <2>5. \A i \in 1..m : i \notin I => f[i] <= d
    OBVIOUS
  <2> HIDE DEF I
  <2>6. ASSUME NEW i \in 1..m, i < k PROVE f[i] <= d
    <3>1. i \notin I
      BY <2>3, <2>4, <2>6
    <3> QED BY <2>5, <3>1
  <2>7. ASSUME NEW i \in 1..m, i >= k PROVE d < f[i]
    <3>1. i = k \/ f[k] <= f[i]
      BY <2>4, <2>7
    <3>2. f[k] \in Nat /\ f[i] \in Nat
      BY <2>4
    <3> QED BY <2>4, <3>1, <3>2
  <2>8. /\ k \in 1..m + 1
        /\ \A i \in 1..m : i < k => f[i] <= d
        /\ \A i \in 1..m : i >= k => d < f[i]
    BY <2>4, <2>6, <2>7
  <2> QED BY <2>8 DEF I, k
<1> QED BY <1>1, <1>2

(* What is in a list after an insertion.                                   *)
LEMMA InsertAtToSet ==
  ASSUME NEW S, NEW q \in Seq(S), NEW k \in 1..Len(q) + 1, NEW t \in S
  PROVE  ToSet(InsertAt(q, k, t)) = ToSet(q) \cup {t}
<1>0. Len(q) \in Nat /\ DOMAIN q = 1..Len(q)
  BY LenProperties
<1> DEFINE r == InsertAt(q, k, t)
<1>1. /\ r \in Seq(S)
      /\ Len(r) = Len(q) + 1
      /\ \A i \in 1..Len(q) + 1 :
           r[i] = IF i < k THEN q[i] ELSE IF i = k THEN t ELSE q[i - 1]
  <2>1. r \in Seq(S) /\ IsInsertion(r, q, k, t)
    BY InsertAtElements
  <2> HIDE DEF r
  <2> QED BY <2>1 DEF IsInsertion
<1> HIDE DEF r
<1>2. DOMAIN r = 1..Len(q) + 1
  BY <1>1, LenProperties
<1>3. ASSUME NEW i \in 1..Len(q) + 1 PROVE r[i] \in ToSet(q) \cup {t}
  <2>1. CASE i < k
    <3>1. i \in 1..Len(q) /\ r[i] = q[i]
      BY <1>0, <1>1, <2>1
    <3> QED BY <1>0, <3>1 DEF ToSet
  <2>2. CASE i = k
    <3>1. r[i] = t
      BY <1>1, <2>2
    <3> QED BY <3>1
  <2>3. CASE i > k
    <3>1. i - 1 \in 1..Len(q) /\ ~(i < k) /\ i # k
      BY <1>0, <2>3
    <3>2. r[i] = q[i - 1]
      BY <1>1, <3>1
    <3> QED BY <1>0, <3>1, <3>2 DEF ToSet
  <2> QED BY <1>0, <2>1, <2>2, <2>3
<1>4. \E j \in 1..Len(q) + 1 : r[j] = t
  <2>1. r[k] = t
    BY <1>0, <1>1
  <2> QED BY <1>0, <2>1
<1>5. ASSUME NEW i \in 1..Len(q) PROVE \E j \in 1..Len(q) + 1 : r[j] = q[i]
  <2>1. CASE i < k
    <3>1. i \in 1..Len(q) + 1
      BY <1>0
    <3>2. r[i] = q[i]
      BY <1>1, <2>1, <3>1
    <3> QED BY <3>1, <3>2
  <2>2. CASE i >= k
    <3>1. i + 1 \in 1..Len(q) + 1 /\ ~(i + 1 < k) /\ i + 1 # k
      BY <1>0, <2>2
    <3>2. (i + 1) - 1 = i
      BY <1>0
    <3>3. r[i + 1] = q[(i + 1) - 1]
      BY <1>1, <3>1
    <3> QED BY <3>1, <3>2, <3>3
  <2> QED BY <1>0, <2>1, <2>2
<1>6. ASSUME NEW x \in ToSet(r) PROVE x \in ToSet(q) \cup {t}
  BY <1>2, <1>3 DEF ToSet
<1>7. ASSUME NEW x \in ToSet(q) \cup {t} PROVE x \in ToSet(r)
  <2>1. CASE x = t
    BY <1>2, <1>4, <2>1 DEF ToSet
  <2>2. CASE x # t
    <3>1. PICK i \in 1..Len(q) : x = q[i]
      BY <1>0, <2>2 DEF ToSet
    <3> QED BY <1>2, <1>5, <3>1 DEF ToSet
  <2> QED BY <2>1, <2>2
<1>8. ToSet(r) = ToSet(q) \cup {t}
  BY <1>6, <1>7
<1> QED BY <1>8 DEF r

(* Insertion after the elements with a lower or the same key and before    *)
(* those with a higher one keeps a list sorted.                            *)
LEMMA InsertAtSorted ==
  ASSUME NEW S, NEW q \in Seq(S), NEW k \in 1..Len(q) + 1, NEW t \in S,
         NEW dl \in [S -> Nat], NEW n \in [S -> Nat],
         SortedBy(q, dl, n),
         \A i \in 1..Len(q) : i < k => dl[q[i]] <= dl[t] /\ n[q[i]] < n[t],
         \A i \in 1..Len(q) : i >= k => dl[t] < dl[q[i]]
  PROVE  SortedBy(InsertAt(q, k, t), dl, n)
<1> DEFINE r == InsertAt(q, k, t)
           LessThan(x, y) == \/ dl[x] < dl[y]
                             \/ dl[x] = dl[y] /\ n[x] < n[y]
<1>0. Len(q) \in Nat
  BY LenProperties
<1>1. /\ r \in Seq(S)
      /\ Len(r) = Len(q) + 1
      /\ \A i \in 1..Len(q) + 1 :
           r[i] = IF i < k THEN q[i] ELSE IF i = k THEN t ELSE q[i - 1]
  <2>1. r \in Seq(S) /\ IsInsertion(r, q, k, t)
    BY InsertAtElements
  <2> HIDE DEF r
  <2> QED BY <2>1 DEF IsInsertion
<1>2. ASSUME NEW i \in 1..Len(q) PROVE dl[q[i]] \in Nat /\ n[q[i]] \in Nat
  <2>1. q[i] \in S
    BY ElementOfSeq
  <2> QED BY <2>1
<1>3. dl[t] \in Nat /\ n[t] \in Nat
  OBVIOUS
<1>4. \A i \in 1..Len(q) : i < k => LessThan(q[i], t)
  BY <1>2, <1>3
<1>5. \A i \in 1..Len(q) : i >= k => LessThan(t, q[i])
  BY <1>2, <1>3
<1>6. \A i, j \in 1..Len(q) : i < j => LessThan(q[i], q[j])
  BY DEF SortedBy
<1> HIDE DEF r, LessThan
<1> SUFFICES ASSUME NEW i \in 1..Len(q) + 1, NEW j \in 1..Len(q) + 1, i < j
             PROVE  LessThan(r[i], r[j])
  BY <1>1 DEF SortedBy, r, LessThan
<1>7. CASE i < k /\ j < k
  <2>1. i \in 1..Len(q) /\ j \in 1..Len(q)
    BY <1>0, <1>7
  <2>2. r[i] = q[i] /\ r[j] = q[j]
    BY <1>1, <1>7
  <2> QED BY <1>6, <2>1, <2>2
<1>8. CASE i < k /\ j = k
  <2>1. r[i] = q[i] /\ r[j] = t /\ i \in 1..Len(q)
    BY <1>0, <1>1, <1>8
  <2> QED BY <1>4, <1>8, <2>1
<1>9. CASE i < k /\ j > k
  <2>1. /\ i \in 1..Len(q) /\ j - 1 \in 1..Len(q) /\ i < j - 1
        /\ ~(j < k) /\ j # k
    BY <1>0, <1>9
  <2>2. r[i] = q[i] /\ r[j] = q[j - 1]
    BY <1>1, <1>9, <2>1
  <2> QED BY <1>6, <2>1, <2>2
<1>10. CASE i = k
  <2>1. /\ j - 1 \in 1..Len(q) /\ j - 1 >= k
        /\ ~(j < k) /\ j # k /\ ~(i < k)
    BY <1>0, <1>10
  <2>2. r[i] = t /\ r[j] = q[j - 1]
    BY <1>1, <1>10, <2>1
  <2> QED BY <1>5, <2>1, <2>2
<1>11. CASE i > k
  <2>1. /\ i - 1 \in 1..Len(q) /\ j - 1 \in 1..Len(q) /\ i - 1 < j - 1
        /\ ~(i < k) /\ i # k /\ ~(j < k) /\ j # k
    BY <1>0, <1>11
  <2>2. r[i] = q[i - 1] /\ r[j] = q[j - 1]
    BY <1>1, <2>1
  <2> QED BY <1>6, <2>1, <2>2
<1> QED BY <1>0, <1>7, <1>8, <1>9, <1>10, <1>11

=============================================================================
