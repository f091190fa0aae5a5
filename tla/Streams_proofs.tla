--------------------------- MODULE Streams_proofs ---------------------------
(***************************************************************************)
(* What the list of streams and its pages are, for any streams, clients,   *)
(* calls and bounds; and that the list keeps what LiveStreams promises at  *)
(* every step.                                                             *)
(***************************************************************************)
EXTENDS Streams, SequenceTheorems, FiniteSetTheorems, WellFoundedInduction, TLAPS

-----------------------------------------------------------------------------
(* Sequences of elements.                                                  *)

Ordered(s) == \A j, k \in 1 .. Len(s) : j < k => s[j].id < s[k].id
IdsOf(s) == {s[k].id : k \in 1 .. Len(s)}

\* Ids are numbers.
LEMMA IdIsNatural == \A e \in Element : e.id \in Ids /\ e.id \in Nat
BY IdsAssumption DEF Element

\* A set of natural numbers has a smallest one.
LEMMA Smallest ==
  ASSUME NEW S \in SUBSET Nat, S # {}
  PROVE  \E k \in S : \A j \in S : k <= j
<1>1. PICK k \in S : \A j \in S : <<j, k>> \notin OpToRel(<, Nat)
  BY NatLessThanWellFounded, WFMin
<1>2. \A j \in S : ~(j < k)
  BY <1>1 DEF OpToRel
<1> QED
  BY <1>2

\* The ids of a sequence with one element more.
LEMMA AppendedIds ==
  ASSUME NEW s \in Seq(Element), NEW m \in Element
  PROVE  /\ Append(s, m) \in Seq(Element)
         /\ Len(s) \in Nat
         /\ Len(Append(s, m)) = Len(s) + 1
         /\ \A k \in 1 .. Len(s) : Append(s, m)[k] = s[k]
         /\ Append(s, m)[Len(s) + 1] = m
         /\ IdsOf(Append(s, m)) = IdsOf(s) \cup {m.id}
<1> DEFINE a == Append(s, m)
           n == Len(s)
<1>1. /\ a \in Seq(Element)
      /\ n \in Nat
      /\ Len(a) = n + 1
      /\ \A k \in 1 .. n : a[k] = s[k]
      /\ a[n + 1] = m
  OBVIOUS
<1>2. IdsOf(a) = IdsOf(s) \cup {m.id}
  <2> HIDE DEF a
  <2>1. ASSUME NEW i \in IdsOf(a) PROVE i \in IdsOf(s) \cup {m.id}
    BY <1>1 DEF IdsOf
  <2>2. ASSUME NEW i \in IdsOf(s) \cup {m.id} PROVE i \in IdsOf(a)
    <3>1. CASE i = m.id
      BY <1>1, <3>1 DEF IdsOf
    <3>2. CASE i \in IdsOf(s)
      <4>1. PICK k \in 1 .. n : i = s[k].id
        BY <3>2 DEF IdsOf
      <4>2. k \in 1 .. Len(a) /\ a[k] = s[k]
        BY <1>1, <4>1
      <4> QED
        BY <4>1, <4>2 DEF IdsOf
    <3> QED
      BY <2>2, <3>1, <3>2
  <2> QED
    BY <2>1, <2>2
<1> HIDE DEF a, n
<1> QED
  BY <1>1, <1>2 DEF a, n

\* The order is kept by an element that comes after all others.
LEMMA AppendedOrder ==
  ASSUME NEW s \in Seq(Element), NEW m \in Element, Ordered(s),
         \A i \in IdsOf(s) : i < m.id
  PROVE  Ordered(Append(s, m))
<1> DEFINE a == Append(s, m)
<1>1. /\ Len(s) \in Nat
      /\ Len(a) = Len(s) + 1
      /\ \A k \in 1 .. Len(s) : a[k] = s[k] /\ s[k].id < m.id
      /\ a[Len(s) + 1] = m
  BY AppendedIds DEF IdsOf
<1> HIDE DEF a
<1> SUFFICES ASSUME NEW j \in 1 .. Len(a), NEW k \in 1 .. Len(a), j < k
             PROVE  a[j].id < a[k].id
  BY DEF Ordered, a
<1>2. j \in 1 .. Len(s)
  BY <1>1
<1>3. CASE k \in 1 .. Len(s)
  BY <1>1, <1>2, <1>3 DEF Ordered
<1>4. CASE k = Len(s) + 1
  BY <1>1, <1>2, <1>4
<1> QED
  BY <1>1, <1>3, <1>4

-----------------------------------------------------------------------------
(* The sort.                                                               *)

\* A stream that is not on an ordered list has a place on it.
LEMMA PlaceExists ==
  ASSUME NEW s \in Seq(Element), NEW m \in Element, Ordered(s), m.id \notin IdsOf(s)
  PROVE  \E c \in 0 .. Len(s) : /\ \A k \in 1 .. c : s[k].id < m.id
                                /\ \A k \in c + 1 .. Len(s) : m.id < s[k].id
<1> DEFINE n == Len(s)
           later == {k \in 1 .. n : m.id < s[k].id} \cup {n + 1}
<1>1. n \in Nat /\ \A k \in 1 .. n : s[k] \in Element /\ s[k].id \in Nat /\ s[k].id # m.id
  BY IdIsNatural DEF IdsOf
<1>2. m.id \in Nat
  BY IdIsNatural
<1>3. PICK f \in later : \A k \in later : f <= k
  <2>1. later \in SUBSET Nat /\ later # {}
    BY <1>1
  <2> QED
    BY <2>1, Smallest
<1>4. f \in 1 .. n + 1
  BY <1>1, <1>3
<1>5. \A k \in 1 .. f - 1 : s[k].id < m.id
  <2> SUFFICES ASSUME NEW k \in 1 .. f - 1 PROVE s[k].id < m.id
    OBVIOUS
  <2>1. k \in 1 .. n /\ k \notin later
    BY <1>1, <1>3, <1>4
  <2> QED
    BY <1>1, <1>2, <2>1
<1>6. \A k \in f .. n : m.id < s[k].id
  <2> SUFFICES ASSUME NEW k \in f .. n PROVE m.id < s[k].id
    OBVIOUS
  <2>1. f \in 1 .. n /\ m.id < s[f].id
    BY <1>1, <1>3, <1>4
  <2>2. k \in 1 .. n
    BY <1>1, <1>4
  <2>3. k = f \/ s[f].id < s[k].id
    BY <1>1, <2>1, <2>2 DEF Ordered
  <2> QED
    BY <1>1, <1>2, <2>1, <2>2, <2>3
<1> QED
  <2>1. f - 1 \in 0 .. n /\ (f - 1) + 1 = f
    BY <1>1, <1>4
  <2> HIDE DEF n, later
  <2> QED
    BY <1>5, <1>6, <2>1 DEF n

\* An order of the indices that sorts a sequence.
Sorts(p, s) ==
  \A j, k \in 1 .. Len(s) : j < k => s[p[j]].id <= s[p[k]].id
Orders(s) == {p \in Bijection(1 .. Len(s), 1 .. Len(s)) : Sorts(p, s)}

\* An ordered list to which a stream has been pushed can be sorted.
LEMMA OrderExists ==
  ASSUME NEW s \in Seq(Element), NEW m \in Element, Ordered(s), m.id \notin IdsOf(s)
  PROVE  Orders(Append(s, m)) # {}
<1> DEFINE a == Append(s, m)
           n == Len(s)
<1>1. /\ n \in Nat
      /\ Len(a) = n + 1
      /\ \A k \in 1 .. n : a[k] = s[k] /\ s[k].id \in Nat
      /\ a[n + 1] = m
      /\ m.id \in Nat
  BY AppendedIds, IdIsNatural
<1>2. PICK c \in 0 .. n : /\ \A k \in 1 .. c : s[k].id < m.id
                          /\ \A k \in c + 1 .. n : m.id < s[k].id
  BY PlaceExists
<1>3. \A j, k \in 1 .. n : j < k => s[j].id < s[k].id
  BY DEF Ordered
<1> HIDE DEF a, n
<1> DEFINE I == 1 .. n + 1
           p == [k \in I |-> IF k <= c THEN k ELSE IF k = c + 1 THEN n + 1 ELSE k - 1]
<1>4. p \in [I -> I]
  BY <1>1, <1>2
<1>5. \A j, k \in I : p[j] = p[k] => j = k
  BY <1>1, <1>2
<1>6. \A k \in I : \E j \in I : p[j] = k
  <2> SUFFICES ASSUME NEW k \in I PROVE \E j \in I : p[j] = k
    OBVIOUS
  <2>1. CASE k <= c
    BY <1>1, <1>2, <2>1
  <2>2. CASE k = n + 1
    <3>1. c + 1 \in I /\ p[c + 1] = k
      BY <1>1, <1>2, <2>2
    <3> QED
      BY <3>1
  <2>3. CASE ~(k <= c) /\ k # n + 1
    <3>1. k + 1 \in I /\ p[k + 1] = k
      BY <1>1, <1>2, <2>3
    <3> QED
      BY <3>1
  <2> QED
    BY <2>1, <2>2, <2>3
<1>7. \A k \in I : a[p[k]] = IF k <= c THEN s[k] ELSE IF k = c + 1 THEN m ELSE s[k - 1]
  BY <1>1, <1>2
<1>8. ASSUME NEW j \in I, NEW k \in I, j < k
      PROVE  a[p[j]].id <= a[p[k]].id
  <2>1. CASE k <= c
    <3>1. j \in 1 .. n /\ k \in 1 .. n /\ j <= c
      BY <1>1, <1>2, <1>8, <2>1
    <3> QED
      BY <1>1, <1>3, <1>7, <1>8, <2>1, <3>1
  <2>2. CASE k = c + 1
    <3>1. j \in 1 .. c /\ j \in 1 .. n
      BY <1>1, <1>2, <1>8, <2>2
    <3>2. a[p[j]] = s[j] /\ a[p[k]] = m
      BY <1>2, <1>7, <2>2, <3>1
    <3> QED
      BY <1>1, <1>2, <3>1, <3>2
  <2>3. CASE k > c + 1
    <3>1. k - 1 \in c + 1 .. n /\ k - 1 \in 1 .. n
      BY <1>1, <1>2, <2>3
    <3>2. a[p[k]] = s[k - 1]
      BY <1>2, <1>7, <2>3
    <3>3. CASE j <= c
      <4>1. j \in 1 .. n /\ j < k - 1 /\ a[p[j]] = s[j]
        BY <1>1, <1>2, <1>7, <2>3, <3>3
      <4> QED
        BY <1>1, <1>3, <3>1, <3>2, <4>1
    <3>4. CASE j = c + 1
      <4>1. a[p[j]] = m
        BY <1>2, <1>7, <3>4
      <4> QED
        BY <1>1, <1>2, <3>1, <3>2, <4>1
    <3>5. CASE j > c + 1
      <4>1. j - 1 \in 1 .. n /\ j - 1 < k - 1 /\ a[p[j]] = s[j - 1]
        BY <1>1, <1>2, <1>7, <1>8, <3>5
      <4> QED
        BY <1>1, <1>3, <3>1, <3>2, <4>1
    <3> QED
      BY <1>2, <3>3, <3>4, <3>5
  <2> QED
    BY <1>2, <2>1, <2>2, <2>3
<1> HIDE DEF p
<1>9. p \in Bijection(I, I)
  BY <1>4, <1>5, <1>6 DEF Bijection, Injection, Surjection, IsInjective
<1>10. Sorts(p, a)
  BY <1>1, <1>8 DEF Sorts
<1>11. p \in Orders(a)
  BY <1>1, <1>9, <1>10 DEF Orders
<1> QED
  BY <1>11 DEF a

\* Sorting the list after a push gives the same streams, in order.
LEMMA SortedList ==
  ASSUME NEW s \in Seq(Element), NEW m \in Element, Ordered(s), m.id \notin IdsOf(s)
  PROVE  /\ Sorted(Append(s, m)) \in Seq(Element)
         /\ Ordered(Sorted(Append(s, m)))
         /\ IdsOf(Sorted(Append(s, m))) = IdsOf(s) \cup {m.id}
<1> DEFINE a == Append(s, m)
           I == 1 .. Len(a)
           order == CHOOSE p \in Bijection(I, I) :
                      \A j, k \in I : j < k => a[p[j]].id <= a[p[k]].id
           t == Sorted(a)
<1>1. /\ a \in Seq(Element)
      /\ Len(a) \in Nat
      /\ \A k \in I : a[k] \in Element
      /\ IdsOf(a) = IdsOf(s) \cup {m.id}
  BY AppendedIds
<1>2. t = [k \in I |-> a[order[k]]]
  BY DEF Sorted
<1>3. \A j, k \in I : a[j].id = a[k].id => j = k
  <2>1. /\ Len(s) \in Nat
        /\ Len(a) = Len(s) + 1
        /\ \A k \in 1 .. Len(s) : a[k] = s[k] /\ s[k].id \in Nat /\ s[k].id # m.id
        /\ a[Len(s) + 1] = m
    BY AppendedIds, IdIsNatural DEF IdsOf
  <2> HIDE DEF a
  <2> SUFFICES ASSUME NEW j \in I, NEW k \in I, a[j].id = a[k].id PROVE j = k
    OBVIOUS
  <2>2. CASE j \in 1 .. Len(s) /\ k \in 1 .. Len(s)
    <3>1. ~(j < k) /\ ~(k < j)
      BY <2>1, <2>2 DEF Ordered
    <3> QED
      BY <2>2, <3>1
  <2>3. CASE j = Len(s) + 1 \/ k = Len(s) + 1
    BY <2>1, <2>3
  <2> QED
    BY <2>1, <2>2, <2>3
<1>4. \E p \in Bijection(I, I) : \A j, k \in I : j < k => a[p[j]].id <= a[p[k]].id
  BY OrderExists DEF Orders, Sorts
<1> HIDE DEF a, t
<1>5. /\ order \in Bijection(I, I)
      /\ \A j, k \in I : j < k => a[order[j]].id <= a[order[k]].id
  BY <1>4
<1> HIDE DEF order
<1>6. /\ order \in [I -> I]
      /\ \A j, k \in I : order[j] = order[k] => j = k
      /\ \A k \in I : \E j \in I : order[j] = k
  BY <1>5 DEF Bijection, Injection, Surjection, IsInjective
<1>7. t \in Seq(Element) /\ Len(t) = Len(a)
  <2>1. t \in [I -> Element]
    BY <1>1, <1>2, <1>6
  <2> QED
    BY <1>1, <2>1
<1>8. \A k \in I : t[k] = a[order[k]]
  BY <1>2
<1>9. Ordered(t)
  <2> SUFFICES ASSUME NEW j \in I, NEW k \in I, j < k PROVE t[j].id < t[k].id
    BY <1>7 DEF Ordered
  <2>1. a[order[j]].id <= a[order[k]].id
    BY <1>5
  <2>3. order[j] \in I /\ order[k] \in I /\ order[j] # order[k]
    <3>1. j # k
      BY <1>1
    <3> HIDE DEF I
    <3> QED
      BY <1>6, <3>1
  <2>4. a[order[j]].id # a[order[k]].id
    BY <1>3, <2>3
  <2>2. a[order[j]].id \in Nat /\ a[order[k]].id \in Nat
    BY <1>1, <1>6, IdIsNatural
  <2> QED
    BY <1>8, <2>1, <2>2, <2>4
<1>10. IdsOf(t) = IdsOf(a)
  <2>1. ASSUME NEW i \in IdsOf(t) PROVE i \in IdsOf(a)
    <3>1. PICK k \in I : i = t[k].id
      BY <1>7 DEF IdsOf
    <3>2. order[k] \in I /\ i = a[order[k]].id
      BY <1>6, <1>8, <3>1
    <3> QED
      BY <3>2 DEF IdsOf
  <2>2. ASSUME NEW i \in IdsOf(a) PROVE i \in IdsOf(t)
    <3>1. PICK k \in I : i = a[k].id
      BY DEF IdsOf
    <3>2. PICK j \in I : order[j] = k
      BY <1>6
    <3> QED
      BY <1>7, <1>8, <3>1, <3>2 DEF IdsOf
  <2> QED
    BY <2>1, <2>2
<1> QED
  BY <1>1, <1>7, <1>9, <1>10 DEF a, t

-----------------------------------------------------------------------------
(* The sweep.                                                              *)

\* One element of the loop.
Looked(s, k) == IF Dead(streams[k].id) THEN s ELSE Append(s, streams[k])

\* The list that the loop has left of the first n elements.
Loop(n, h) ==
  /\ h \in [0 .. n -> Seq(Element)]
  /\ \A k \in 0 .. n : h[k] = IF k = 0 THEN <<>> ELSE Looked(h[k - 1], k)

\* The loop comes to its end.
LEMMA LoopEnds ==
  ASSUME streams \in Seq(Element)
  PROVE  \E h : Loop(Len(streams), h)
<1> DEFINE N == Len(streams)
           Bad == {n \in 0 .. N : ~\E h : Loop(n, h)}
<1>1. N \in Nat /\ \A k \in 1 .. N : streams[k] \in Element
  OBVIOUS
<1>2. Bad = {}
  <2> SUFFICES ASSUME Bad # {} PROVE FALSE
    OBVIOUS
  <2>1. PICK n \in Bad : \A k \in Bad : n <= k
    <3>1. Bad \in SUBSET Nat
      BY <1>1
    <3> HIDE DEF Bad
    <3> QED
      BY <3>1, Smallest
  <2>2. n # 0
    <3> DEFINE h == [k \in 0 .. 0 |-> <<>>]
    <3>1. Loop(0, h)
      BY DEF Loop
    <3> QED
      BY <2>1, <3>1
  <2>3. n \in 1 .. N /\ n - 1 \in 0 .. N /\ n - 1 \notin Bad
    <3>1. n \in 0 .. N
      BY <2>1
    <3>2. n \in 1 .. N /\ n - 1 \in 0 .. N /\ ~(n <= n - 1)
      BY <1>1, <2>2, <3>1
    <3> HIDE DEF Bad
    <3> QED
      BY <2>1, <3>2
  <2>4. PICK h : Loop(n - 1, h)
    BY <2>3
  <2> DEFINE g == [k \in 0 .. n |-> IF k = n THEN Looked(h[n - 1], n) ELSE h[k]]
  <2>5. h \in [0 .. n - 1 -> Seq(Element)] /\ n - 1 \in 0 .. n - 1
    BY <2>3, <2>4 DEF Loop
  <2>6. Looked(h[n - 1], n) \in Seq(Element)
    <3>1. h[n - 1] \in Seq(Element) /\ streams[n] \in Element
      BY <1>1, <2>3, <2>5
    <3> QED
      BY <3>1, AppendedIds DEF Looked
  <2>7. g \in [0 .. n -> Seq(Element)]
    BY <2>3, <2>5, <2>6
  <2>8. ASSUME NEW k \in 0 .. n
        PROVE  g[k] = IF k = 0 THEN <<>> ELSE Looked(g[k - 1], k)
    <3>1. CASE k = n
      <4>1. g[k] = Looked(h[n - 1], n) /\ g[n - 1] = h[n - 1]
        BY <2>3, <3>1
      <4> QED
        BY <2>2, <3>1, <4>1
    <3>2. CASE k # n
      <4>1. k \in 0 .. n - 1
        BY <2>3, <3>2
      <4>2. g[k] = h[k]
        BY <3>2
      <4>3. k # 0 => g[k - 1] = h[k - 1]
        BY <2>3, <4>1
      <4> QED
        BY <2>4, <4>1, <4>2, <4>3 DEF Loop
    <3> QED
      BY <3>1, <3>2
  <2>9. Loop(n, g)
    BY <2>7, <2>8 DEF Loop
  <2> QED
    BY <2>1, <2>9
<1> QED
  <2>1. N \in 0 .. N /\ N \notin Bad
    BY <1>1, <1>2
  <2> QED
    BY <2>1

\* Streams that the loop has kept of the first n.
KeptOf(n) == {i \in {streams[k].id : k \in 1 .. n} : ~Dead(i)}

\* What is left is the streams that are not dead, in order.
LEMMA KeptList ==
  ASSUME streams \in Seq(Element), Ordered(streams)
  PROVE  /\ Kept \in Seq(Element)
         /\ Ordered(Kept)
         /\ IdsOf(Kept) = {i \in Listed : ~Dead(i)}
<1> DEFINE N == Len(streams)
           F(h) == [k \in 0 .. N |->
                      IF k = 0 THEN <<>>
                      ELSE IF Dead(streams[k].id) THEN h[k - 1]
                      ELSE Append(h[k - 1], streams[k])]
           kept == CHOOSE h : h = F(h)
<1>1. N \in Nat /\ \A k \in 1 .. N : streams[k] \in Element /\ streams[k].id \in Nat
  BY IdIsNatural
<1>2. Kept = kept[N]
  BY DEF Kept
<1>3. \E h : h = F(h)
  <2>1. PICK h : Loop(N, h)
    BY LoopEnds
  <2>2. h = F(h)
    <3>1. h = [k \in 0 .. N |-> h[k]]
      BY <2>1 DEF Loop
    <3>2. \A k \in 0 .. N : h[k] = F(h)[k]
      BY <2>1 DEF Loop, Looked
    <3> QED
      BY <3>1, <3>2
  <2> HIDE DEF F
  <2> QED
    BY <2>2
<1>4. kept = F(kept)
  <2> HIDE DEF F
  <2> QED
    BY <1>3
<1> HIDE DEF kept
<1>5. \A k \in 0 .. N : kept[k] = IF k = 0 THEN <<>> ELSE Looked(kept[k - 1], k)
  BY <1>4 DEF Looked
<1> HIDE DEF F
<1> DEFINE Good(k) == /\ kept[k] \in Seq(Element)
                      /\ Ordered(kept[k])
                      /\ IdsOf(kept[k]) = KeptOf(k)
           Bad == {k \in 0 .. N : ~Good(k)}
<1>6. Good(0)
  <2>1. kept[0] = <<>>
    BY <1>1, <1>5
  <2> QED
    BY <2>1 DEF Ordered, IdsOf, KeptOf
<1>7. ASSUME NEW k \in 1 .. N, Good(k - 1) PROVE Good(k)
  <2>0. k \in 0 .. N /\ k # 0 /\ k - 1 \in 0 .. N
    BY <1>1
  <2> DEFINE s == kept[k - 1]
             m == streams[k]
  <2>1. kept[k] = IF Dead(m.id) THEN s ELSE Append(s, m)
    BY <1>5, <2>0 DEF Looked
  <2>2. s \in Seq(Element) /\ Ordered(s) /\ IdsOf(s) = KeptOf(k - 1) /\ m \in Element
    BY <1>1, <1>7
  <2>3. {streams[j].id : j \in 1 .. k} = {streams[j].id : j \in 1 .. k - 1} \cup {m.id}
    <3>1. 1 .. k = 1 .. k - 1 \cup {k}
      BY <1>1
    <3> QED
      BY <3>1
  <2>4. CASE Dead(m.id)
    <3>1. KeptOf(k) = KeptOf(k - 1)
      BY <2>3, <2>4 DEF KeptOf
    <3> QED
      BY <2>1, <2>2, <2>4, <3>1
  <2>5. CASE ~Dead(m.id)
    <3>1. KeptOf(k) = KeptOf(k - 1) \cup {m.id}
      BY <2>3, <2>5 DEF KeptOf
    <3>2. \A i \in IdsOf(s) : i < m.id
      <4> SUFFICES ASSUME NEW i \in KeptOf(k - 1) PROVE i < m.id
        BY <2>2
      <4>1. PICK j \in 1 .. k - 1 : i = streams[j].id
        BY DEF KeptOf
      <4>2. j \in 1 .. N /\ j < k
        BY <1>1, <4>1
      <4> QED
        BY <4>1, <4>2 DEF Ordered
    <3>3. kept[k] = Append(s, m)
      BY <2>1, <2>5
    <3> HIDE DEF s, m
    <3> QED
      BY <2>2, <3>1, <3>2, <3>3, AppendedIds, AppendedOrder
  <2> QED
    BY <2>4, <2>5
<1>8. Bad = {}
  <2> SUFFICES ASSUME Bad # {} PROVE FALSE
    OBVIOUS
  <2>1. PICK k \in Bad : \A j \in Bad : k <= j
    <3>1. Bad \in SUBSET Nat
      BY <1>1
    <3> HIDE DEF Bad
    <3> QED
      BY <3>1, Smallest
  <2> HIDE DEF Good
  <2>2. k # 0
    BY <1>6, <2>1
  <2>3. k \in 1 .. N /\ k - 1 \in 0 .. N /\ k - 1 \notin Bad
    BY <1>1, <2>1, <2>2
  <2> QED
    BY <1>7, <2>1, <2>3
<1>9. Good(N)
  BY <1>1, <1>8
<1> QED
  BY <1>2, <1>9 DEF KeptOf, Listed

-----------------------------------------------------------------------------
(* Pages.                                                                  *)

\* The index that findIndex gives is that of the cursor's element.
LEMMA StartOfPage ==
  ASSUME streams \in Seq(Element), NEW c, NEW skip \in {0, 1}
  PROVE  /\ PageStart(c, skip) \in Nat
         /\ c \notin Listed => PageStart(c, skip) = skip
         /\ c \in Listed => \E k \in 1 .. Len(streams) :
              streams[k].id = c /\ PageStart(c, skip) = k - 1 + skip
<1>1. CASE IndexOf(c) = {}
  BY <1>1 DEF PageStart, IndexOf, Listed
<1>2. CASE IndexOf(c) # {}
  <2> DEFINE k == CHOOSE k \in IndexOf(c) : TRUE
  <2>1. k \in IndexOf(c)
    BY <1>2
  <2>2. PageStart(c, skip) = k - 1 + skip
    BY <1>2 DEF PageStart
  <2> HIDE DEF k
  <2>3. k \in 1 .. Len(streams) /\ streams[k].id = c
    BY <2>1 DEF IndexOf
  <2>4. k \in Nat /\ k - 1 + skip \in Nat
    BY <2>3
  <2> QED
    BY <2>2, <2>3, <2>4 DEF Listed
<1> QED
  BY <1>1, <1>2

\* A page is what follows, as far as it goes.
LEMMA SliceIsAPage ==
  ASSUME streams \in Seq(Element), NEW c, NEW skip \in {0, 1},
         NEW n \in Nat, n = PageStart(c, skip)
  PROVE  /\ Slice(c, skip) \in Seq(Element)
         /\ Len(Slice(c, skip)) \in 0 .. Take
         /\ \A k \in 1 .. Len(Slice(c, skip)) :
              n + k \in 1 .. Len(streams) /\ Slice(c, skip)[k] = streams[n + k]
         /\ Len(Slice(c, skip)) < Take =>
              \A k \in n + 1 .. Len(streams) : k - n \in 1 .. Len(Slice(c, skip))
<1> DEFINE L == Len(streams)
           last == IF n + 1 + Take - 1 < L THEN n + 1 + Take - 1 ELSE L
           page == Slice(c, skip)
<1>1. L \in Nat /\ Take \in Nat \ {0} /\ \A k \in 1 .. L : streams[k] \in Element
  BY LimitsAssumption
<1>2. page = SubSeq(streams, n + 1, last)
  BY DEF Slice
<1> HIDE DEF page, L
<1>3. last \in Nat /\ last <= L /\ last <= n + Take
  BY <1>1
<1>4. last < n + Take => last = L
  BY <1>1
<1> HIDE DEF last
<1>5. \A i \in n + 1 .. last : streams[i] \in Element
  BY <1>1, <1>3
<1>6. /\ page \in Seq(Element)
      /\ Len(page) = IF n + 1 <= last THEN last - (n + 1) + 1 ELSE 0
      /\ \A i \in 1 .. last - (n + 1) + 1 : page[i] = streams[n + 1 + i - 1]
  BY <1>2, <1>3, <1>5, SubSeqProperties
<1>7. Len(page) = IF n < last THEN last - n ELSE 0
  BY <1>3, <1>6
<1>8. Len(page) \in 0 .. Take
  BY <1>1, <1>3, <1>7
<1>9. ASSUME NEW k \in 1 .. Len(page)
      PROVE  n + k \in 1 .. L /\ page[k] = streams[n + k]
  <2>1. n < last /\ k \in 1 .. last - n
    BY <1>3, <1>7
  <2>2. n + k \in 1 .. L /\ n + 1 + k - 1 = n + k /\ k \in 1 .. last - (n + 1) + 1
    BY <1>1, <1>3, <2>1
  <2> QED
    BY <1>6, <2>2
<1>10. ASSUME Len(page) < Take, NEW k \in n + 1 .. L
       PROVE  k - n \in 1 .. Len(page)
  <2>1. last = L
    BY <1>1, <1>3, <1>4, <1>7, <1>10
  <2> QED
    BY <1>1, <1>7, <2>1
<1> QED
  BY <1>6, <1>8, <1>9, <1>10 DEF page, L

-----------------------------------------------------------------------------
(* The inductive invariant, one part for each group of variables.          *)

\* The list, and the time since streams were heard of: none for those that are
\* not on it.
ListInv ==
  /\ streams \in Seq(Element) /\ Ordered(streams)
  /\ streamLastSeen \in [Ids -> 0 .. Silence + 1]
  /\ quiet = streamLastSeen
  /\ \A i \in Ids : i \notin Listed => quiet[i] = 0

LinkInv ==
  /\ feed \in {"connecting", "up", "deaf"}
  /\ tries \in 0 .. Retries
  /\ broker \in BOOLEAN /\ outages \in 0 .. MaxOutages
  /\ inbox \in Seq(Ids) /\ Len(inbox) <= MaxInbox

\* Calls that have sent their command, or ended.
Sent == {c \in Calls : call[c] \notin {"idle", "starting"}}

\* No more workers are to be started than calls asked for; a "stop" has a target.
CallInv ==
  /\ worker \in [Ids -> {"none", "running", "stopped"}]
  /\ stops \subseteq Ids /\ muted \subseteq Ids
  /\ call \in [Calls -> {"idle", "starting", "stopping", "auditing",
                         "finishing", "settled"}]
  /\ target \in [Calls -> Ids \cup {None}]
  /\ recorded \subseteq Ids
  /\ starts \in Nat /\ starts <= Cardinality(Sent)
  /\ \A c \in Calls : call[c] = "stopping" => target[c] \in Ids

PageTypes ==
  /\ pager \in [Readers -> {"idle", "paging", "done"}]
  /\ cursor \in [Readers -> Ids \cup {None}]
  /\ got \in [Readers -> Seq(Element)]
  /\ steady \in [Readers -> SUBSET Ids]
  /\ lost \in [Readers -> BOOLEAN]

\* A client has been given, in order, everything steady up to its cursor.
Reading(r) ==
  /\ Ordered(got[r])
  /\ pager[r] = "paging" =>
       /\ cursor[r] \in Ids
       /\ \A i \in IdsOf(got[r]) : i <= cursor[r]
       /\ \A i \in steady[r] : i <= cursor[r] => i \in IdsOf(got[r])
  /\ pager[r] = "done" => steady[r] \subseteq IdsOf(got[r])

PageInv ==
  /\ PageTypes
  /\ \A r \in Readers :
       /\ pager[r] = "idle" => got[r] = <<>> /\ cursor[r] = None /\ ~lost[r]
       /\ steady[r] \subseteq Listed
       /\ ~lost[r] => Reading(r)

IInv == ListInv /\ LinkInv /\ CallInv /\ PageInv

-----------------------------------------------------------------------------
(* The list.                                                               *)

\* What a message does to the list.
LEMMA PlacedList ==
  ASSUME ListInv, NEW m \in Element
  PROVE  /\ Placed(m) \in Seq(Element)
         /\ Ordered(Placed(m))
         /\ IdsOf(Placed(m)) = Listed \cup {m.id}
<1>1. Listed = IdsOf(streams) /\ streams \in Seq(Element) /\ Ordered(streams)
  BY DEF ListInv, Listed, IdsOf
<1>2. CASE IndexOf(m.id) = {}
  <2>1. m.id \notin IdsOf(streams) /\ Placed(m) = Sorted(Append(streams, m))
    BY <1>2 DEF IndexOf, IdsOf, Placed
  <2> QED
    BY <1>1, <2>1, SortedList
<1>3. CASE IndexOf(m.id) # {}
  <2>1. Placed(m) = Replaced(m) /\ m.id \in Listed
    BY <1>3 DEF IndexOf, Listed, Placed
  <2>2. /\ Len(streams) \in Nat
        /\ Replaced(m) \in Seq(Element)
        /\ Len(Replaced(m)) = Len(streams)
        /\ \A k \in 1 .. Len(streams) : Replaced(m)[k].id = streams[k].id
    <3>1. Len(streams) \in Nat /\ Replaced(m) \in [1 .. Len(streams) -> Element]
      BY <1>1 DEF Replaced
    <3> QED
      BY <3>1 DEF Replaced
  <2>3. Ordered(Replaced(m))
    BY <1>1, <2>2 DEF Ordered
  <2>4. IdsOf(Replaced(m)) = IdsOf(streams)
    BY <2>2 DEF IdsOf
  <2> QED
    BY <1>1, <2>1, <2>2, <2>3, <2>4
<1> QED
  BY <1>2, <1>3

\* The list is not longer than there are streams.
LEMMA ListIsShort ==
  ASSUME ListInv
  PROVE  Len(streams) <= Cardinality(Ids)
<1> DEFINE n == Len(streams)
           f == [k \in 1 .. n |-> streams[k].id]
<1>1. n \in Nat /\ \A k \in 1 .. n : streams[k].id \in Ids
  BY IdIsNatural DEF ListInv
<1>2. \A j, k \in 1 .. n : streams[j].id = streams[k].id => j = k
  <2> SUFFICES ASSUME NEW j \in 1 .. n, NEW k \in 1 .. n, streams[j].id = streams[k].id
               PROVE  j = k
    OBVIOUS
  <2>1. streams[j].id \in Nat
    BY <1>1, IdsAssumption
  <2>2. ~(j < k) /\ ~(k < j)
    BY <2>1 DEF ListInv, Ordered
  <2> QED
    BY <1>1, <2>2
<1>3. f \in Injection(1 .. n, Ids)
  BY <1>1, <1>2 DEF Injection, IsInjective
<1>4. Cardinality(1 .. n) <= Cardinality(Ids)
  <2> HIDE DEF f, n
  <2> QED
    BY <1>3, FS_Injection, IdsAssumption
<1>5. Cardinality(1 .. n) = n
  <2> HIDE DEF n
  <2>1. Cardinality(1 .. n) = IF 1 > n THEN 0 ELSE n - 1 + 1
    BY <1>1, FS_Interval
  <2> QED
    BY <1>1, <2>1
<1> QED
  BY <1>4, <1>5

\* A step that does not touch the list.
LEMMA ListSame ==
  ASSUME ListInv, UNCHANGED list
  PROVE  ListInv' /\ Listed' = Listed
BY DEF ListInv, list, Listed, Ordered

\* The list of a process that has just started.
LEMMA ListExit ==
  ASSUME ProcessExit
  PROVE  ListInv' /\ Listed' = {} /\ Len(streams') = 0
<1>1. /\ streams' = <<>> /\ streamLastSeen' = [i \in Ids |-> 0]
      /\ quiet' = [i \in Ids |-> 0]
  BY DEF ProcessExit
<1>2. Listed' = {} /\ Len(streams') = 0 /\ streams' \in Seq(Element)
  BY <1>1 DEF Listed
<1> QED
  BY <1>1, <1>2, LimitsAssumption DEF ListInv, Ordered

\* A message puts its stream on the list.
LEMMA ListConsume ==
  ASSUME ListInv, LinkInv, Consume
  PROVE  /\ ListInv'
         /\ Head(inbox) \in Ids
         /\ Listed' = Listed \cup {Head(inbox)}
         /\ quiet' = [quiet EXCEPT ![Head(inbox)] = 0]
<1> DEFINE i == Head(inbox)
           m == [id |-> i, nulled |-> FALSE]
<1>1. /\ inbox # <<>>
      /\ streams' = Placed(m)
      /\ streamLastSeen' = [streamLastSeen EXCEPT ![i] = 0]
      /\ quiet' = [quiet EXCEPT ![i] = 0]
  BY DEF Consume
<1>2. i \in Ids
  BY <1>1 DEF LinkInv
<1>3. m \in Element /\ m.id = i
  BY <1>2 DEF Element
<1> HIDE DEF i, m
<1>4. streams' \in Seq(Element) /\ Ordered(streams') /\ Listed' = Listed \cup {i}
  BY <1>1, <1>3, PlacedList DEF Listed, IdsOf
<1>5. ListInv'
  BY <1>1, <1>2, <1>4, LimitsAssumption DEF ListInv, Ordered
<1> QED
  BY <1>1, <1>2, <1>4, <1>5 DEF i

\* Time passes for listed streams only.
LEMMA ListTick ==
  ASSUME ListInv, Tick
  PROVE  ListInv' /\ Listed' = Listed
<1>1. streams' = streams /\ Listed' = Listed
  BY DEF Tick, Listed
<1>2. streamLastSeen' = Older(streamLastSeen) /\ quiet' = Older(quiet)
  BY DEF Tick
<1>3. Older(streamLastSeen) \in [Ids -> 0 .. Silence + 1]
  BY LimitsAssumption DEF ListInv, Older
<1>4. \A i \in Ids : i \notin Listed => Older(quiet)[i] = 0
  BY DEF ListInv, Older
<1> QED
  BY <1>1, <1>2, <1>3, <1>4 DEF ListInv, Ordered

\* A sweep takes off the dead streams, and no others.
LEMMA ListSweep ==
  ASSUME ListInv, Sweep
  PROVE  /\ ListInv'
         /\ Listed' = {i \in Listed : ~Dead(i)}
         /\ quiet' = [i \in Ids |-> IF i \in {j \in Listed : Dead(j)} THEN 0 ELSE quiet[i]]
<1>1. /\ streams' = Kept
      /\ streamLastSeen' = Reset(streamLastSeen) /\ quiet' = Reset(quiet)
  BY DEF Sweep
<1>2. streams' \in Seq(Element) /\ Ordered(streams')
  BY <1>1, KeptList DEF ListInv
<1>3. Listed' = {i \in Listed : ~Dead(i)}
  BY <1>1, KeptList DEF ListInv, Listed, IdsOf
<1>4. streamLastSeen' \in [Ids -> 0 .. Silence + 1] /\ quiet' = streamLastSeen'
  BY <1>1, LimitsAssumption DEF ListInv, Reset
<1>5. \A i \in Ids : quiet'[i] = IF Dead(i) THEN 0 ELSE quiet[i]
  BY <1>1 DEF Reset
<1>6. \A i \in Ids : i \notin Listed' => quiet'[i] = 0
  BY <1>3, <1>5 DEF ListInv
<1>7. ListInv'
  BY <1>2, <1>4, <1>6 DEF ListInv, Ordered
<1>8. quiet' = [i \in Ids |-> IF i \in {j \in Listed : Dead(j)} THEN 0 ELSE quiet[i]]
  <2>1. quiet' = [i \in Ids |-> IF Dead(i) THEN 0 ELSE quiet[i]]
    BY <1>1 DEF Reset
  <2> QED
    BY <2>1 DEF ListInv
<1> QED
  BY <1>3, <1>7, <1>8

\* An answer masks elements of the list and leaves the list as it is.
LEMMA ListMasked ==
  ASSUME ListInv, NEW r \in Readers, FindManyStream(r)
  PROVE  ListInv' /\ Listed' = Listed /\ quiet' = quiet
<1>1. PICK page : streams' = MaskedList(r, page)
  BY DEF FindManyStream
<1>2. streamLastSeen' = streamLastSeen /\ quiet' = quiet
  BY DEF FindManyStream
<1>3. Len(streams) \in Nat /\ \A k \in 1 .. Len(streams) : streams[k] \in Element
  BY DEF ListInv
<1>4. /\ streams' \in [1 .. Len(streams) -> Element]
      /\ \A k \in 1 .. Len(streams) : streams'[k].id = streams[k].id
  BY <1>1, <1>3 DEF MaskedList, Element
<1>5. streams' \in Seq(Element) /\ Len(streams') = Len(streams)
  BY <1>3, <1>4
<1>6. Listed' = Listed
  BY <1>4, <1>5 DEF Listed
<1>7. Ordered(streams')
  BY <1>4, <1>5 DEF ListInv, Ordered
<1> QED
  BY <1>2, <1>5, <1>6, <1>7 DEF ListInv, Ordered

-----------------------------------------------------------------------------
(* The calls and the workers.                                              *)

\* More calls have sent their command.
LEMMA MoreSent ==
  ASSUME Sent \subseteq Sent'
  PROVE  /\ Cardinality(Sent) \in Nat /\ Cardinality(Sent') \in Nat
         /\ Cardinality(Sent) <= Cardinality(Sent')
<1>1. Sent \subseteq Calls /\ Sent' \subseteq Calls
  BY DEF Sent
<1>2. IsFiniteSet(Sent) /\ IsFiniteSet(Sent')
  BY <1>1, CallsAssumption, FS_Subset
<1> HIDE DEF Sent
<1> QED
  BY <1>2, FS_Subset, FS_CardinalityType

\* No call is taken back, and no command is given that no call asked for.
LEMMA CallsMove ==
  ASSUME CallInv,
         worker' \in [Ids -> {"none", "running", "stopped"}],
         stops' \subseteq Ids, muted' \subseteq Ids,
         call' \in [Calls -> {"idle", "starting", "stopping", "auditing",
                              "finishing", "settled"}],
         target' \in [Calls -> Ids \cup {None}],
         recorded' \subseteq Ids,
         starts' \in Nat, starts' <= starts,
         \A c \in Calls : call[c] \notin {"idle", "starting"} => call'[c] \notin {"idle", "starting"},
         \A c \in Calls : call'[c] = "stopping" => target'[c] \in Ids
  PROVE  CallInv'
<1>1. Sent \subseteq Sent'
  BY DEF Sent
<1>2. starts' <= Cardinality(Sent')
  BY <1>1, MoreSent DEF CallInv
<1> QED
  BY <1>2 DEF CallInv

\* A step that leaves workers and calls alone.
LEMMA CallsSame ==
  ASSUME CallInv, UNCHANGED <<workers, calls>>
  PROVE  CallInv'
BY DEF CallInv, workers, calls, Sent

\* A call moves on without a command to start.
LEMMA CallAdvances ==
  ASSUME CallInv, NEW c \in Calls,
         NEW stage \in {"starting", "auditing", "finishing", "settled"},
         Advance(c, stage), stage = "starting" => call[c] = "idle",
         UNCHANGED <<worker, starts, muted, target>>,
         stops' \subseteq Ids, recorded' \subseteq Ids
  PROVE  CallInv'
BY CallsMove DEF CallInv, Advance

\* The calls and workers, step by step.
LEMMA CallStep ==
  ASSUME IInv, Next
  PROVE  CallInv'
<1> USE DEF IInv
<1>1. CASE UNCHANGED <<workers, calls>>
  BY <1>1, CallsSame
<1>2. ASSUME ProcessExit, worker' = worker, stops' \subseteq Ids, muted' \subseteq Ids,
             starts' \in {0, starts}, UNCHANGED <<target, recorded>>
      PROVE  CallInv'
  <2>1. call' = [c \in Calls |-> IF call[c] = "idle" THEN "idle" ELSE "settled"]
    BY <1>2 DEF ProcessExit
  <2>2. starts' \in Nat /\ starts' <= starts
    BY <1>2 DEF CallInv
  <2> QED
    BY <1>2, <2>1, <2>2, CallsMove DEF CallInv
<1>3. CASE GiveUp
  BY <1>2, <1>3 DEF GiveUp, workers, CallInv
<1>4. CASE BrokerDown
  <2>1. /\ stops' = {} /\ muted' = muted \cup stops /\ starts' = 0
        /\ UNCHANGED <<worker, target, recorded>>
    BY <1>4 DEF BrokerDown
  <2>2. CASE ProcessExit
    BY <1>2, <2>1, <2>2 DEF CallInv
  <2>3. CASE call' = call
    BY <2>1, <2>3, CallsMove DEF CallInv
  <2> QED
    BY <1>4, <2>2, <2>3 DEF BrokerDown
<1>5. ASSUME NEW i \in Ids, Start(i) PROVE CallInv'
  <2>1. starts' \in Nat /\ starts' <= starts
    BY <1>5 DEF Start, CallInv
  <2> QED
    BY <1>5, <2>1, CallsMove DEF Start, calls, CallInv
<1>6. ASSUME NEW i \in Ids, Stop(i) PROVE CallInv'
  <2>1. starts' \in Nat /\ starts' <= starts
    BY <1>6 DEF Stop, CallInv
  <2> QED
    BY <1>6, <2>1, CallsMove DEF Stop, calls, CallInv
<1>7. ASSUME NEW c \in Calls, CreateStream(c) PROVE CallInv'
  BY <1>7, CallAdvances DEF CreateStream, workers, CallInv
<1>8. ASSUME NEW c \in Calls, NEW i \in Ids, DeleteStream(c, i) PROVE CallInv'
  <2>1. starts' \in Nat /\ starts' <= starts
    BY <1>8 DEF DeleteStream, workers, CallInv
  <2>2. /\ call' = [call EXCEPT ![c] = "stopping"]
        /\ target' = [target EXCEPT ![c] = i]
        /\ call[c] = "idle"
        /\ UNCHANGED <<worker, stops, muted, recorded>>
    BY <1>8 DEF DeleteStream, workers, Advance
  <2> QED
    BY <2>1, <2>2, CallsMove DEF CallInv
<1>9. ASSUME NEW c \in Calls, SendStart(c) PROVE CallInv'
  <2>1. /\ call[c] = "starting" /\ call' = [call EXCEPT ![c] = "auditing"]
        /\ starts' = starts + 1
        /\ UNCHANGED <<worker, stops, muted, target, recorded>>
    BY <1>9 DEF SendStart, Advance
  <2>2. c \notin Sent /\ Sent' = Sent \cup {c}
    BY <2>1 DEF Sent, CallInv
  <2>3. IsFiniteSet(Sent) /\ Cardinality(Sent) \in Nat
    <3>1. Sent \subseteq Calls
      BY DEF Sent
    <3> HIDE DEF Sent
    <3> QED
      BY <3>1, CallsAssumption, FS_Subset, FS_CardinalityType
  <2>4. Cardinality(Sent') = Cardinality(Sent) + 1
    BY <2>2, <2>3, FS_AddElement
  <2>5. starts' \in Nat /\ starts' <= Cardinality(Sent')
    BY <2>1, <2>3, <2>4 DEF CallInv
  <2> QED
    BY <2>1, <2>5 DEF CallInv
<1>10. ASSUME NEW c \in Calls, SendStop(c) PROVE CallInv'
  <2>1. /\ call[c] = "stopping" /\ Advance(c, "auditing")
        /\ UNCHANGED <<worker, starts, muted, target, recorded>>
        /\ stops' \subseteq Ids
    BY <1>10 DEF SendStop, CallInv
  <2> QED
    BY <2>1, CallAdvances DEF CallInv
<1>11. ASSUME NEW c \in Calls, SendFails(c) \/ AuditStream(c) \/ RollBackCall(c) PROVE CallInv'
  BY <1>11, CallAdvances DEF SendFails, AuditStream, RollBackCall, workers, CallInv
<1>12. ASSUME NEW c \in Calls, CommitCall(c) PROVE CallInv'
  <2>1. /\ Advance(c, "settled") /\ recorded' \subseteq Ids
        /\ UNCHANGED <<worker, starts, stops, muted, target>>
    BY <1>12 DEF CommitCall, workers, CallInv
  <2> QED
    BY <2>1, CallAdvances DEF CallInv
<1>13. CASE Connect \/ ConnectFails \/ BrokerUp \/ Consume \/ Tick \/ Sweep
            \/ (\E i \in Ids : Publish(i)) \/ (\E r \in Readers : FindManyStream(r))
  BY <1>1, <1>13 DEF Connect, ConnectFails, BrokerUp, Consume, Tick, Sweep, Publish, FindManyStream
<1> QED
  BY <1>3, <1>4, <1>5, <1>6, <1>7, <1>8, <1>9, <1>10, <1>11, <1>12, <1>13 DEF Next, Run

-----------------------------------------------------------------------------
(* The connection.                                                         *)

\* Attempts, outages and messages keep their bounds.
LEMMA LinkStep ==
  ASSUME IInv, Next
  PROVE  LinkInv'
<1> USE DEF IInv
<1>1. CASE UNCHANGED link
  BY <1>1 DEF link, LinkInv
<1>2. CASE Connect
  BY <1>2, LimitsAssumption DEF Connect, LinkInv
<1>3. CASE ConnectFails
  BY <1>3, LimitsAssumption DEF ConnectFails, LinkInv
<1>4. ASSUME ProcessExit PROVE /\ feed' \in {"connecting", "up", "deaf"}
                               /\ tries' \in 0 .. Retries
                               /\ inbox' \in Seq(Ids) /\ Len(inbox') <= MaxInbox
  BY <1>4, LimitsAssumption DEF ProcessExit
<1>5. CASE GiveUp
  BY <1>4, <1>5 DEF GiveUp, LinkInv
<1>6. CASE BrokerDown
  <2>1. broker' \in BOOLEAN /\ outages' \in 0 .. MaxOutages
    <3>1. broker' \in BOOLEAN
      BY <1>6 DEF BrokerDown
    <3>2. outages' = outages + 1 /\ outages < MaxOutages
      BY <1>6 DEF BrokerDown
    <3>3. outages \in 0 .. MaxOutages
      BY DEF LinkInv
    <3>4. outages' \in 0 .. MaxOutages
      BY <3>2, <3>3, LimitsAssumption
    <3> QED
      BY <3>1, <3>4
  <2>2. CASE ProcessExit
    BY <1>4, <2>1, <2>2 DEF LinkInv
  <2>3. CASE feed' = (IF feed = "up" THEN "deaf" ELSE feed) /\ inbox' = <<>> /\ tries' = tries
    BY <2>1, <2>3, LimitsAssumption DEF LinkInv
  <2> QED
    BY <1>6, <2>2, <2>3 DEF BrokerDown
<1>7. CASE BrokerUp
  BY <1>7 DEF BrokerUp, LinkInv
<1>8. CASE Consume
  <2>1. inbox # <<>> /\ inbox' = Tail(inbox) /\ UNCHANGED <<feed, tries, broker, outages>>
    BY <1>8 DEF Consume
  <2>2. Tail(inbox) \in Seq(Ids) /\ Len(Tail(inbox)) <= MaxInbox
    BY <2>1, LimitsAssumption DEF LinkInv
  <2> QED
    BY <2>1, <2>2 DEF LinkInv
<1>9. ASSUME NEW i \in Ids, Publish(i) PROVE LinkInv'
  <2>1. inbox' = Append(inbox, i) /\ Len(inbox) < MaxInbox
        /\ UNCHANGED <<feed, tries, broker, outages>>
    BY <1>9 DEF Publish
  <2>2. inbox' \in Seq(Ids) /\ Len(inbox') <= MaxInbox
    BY <2>1, LimitsAssumption DEF LinkInv
  <2> QED
    BY <2>1, <2>2 DEF LinkInv
<1>10. CASE Tick \/ Sweep \/ (\E i \in Ids : Start(i) \/ Stop(i))
            \/ (\E c \in Calls : CreateStream(c) \/ (\E i \in Ids : DeleteStream(c, i)) \/ Run(c))
            \/ (\E r \in Readers : FindManyStream(r))
  BY <1>1, <1>10 DEF Tick, Sweep, Start, Stop, CreateStream, DeleteStream, Run, SendStart,
     SendStop, SendFails, AuditStream, CommitCall, RollBackCall, FindManyStream
<1> QED
  BY <1>2, <1>3, <1>5, <1>6, <1>7, <1>8, <1>9, <1>10 DEF Next

-----------------------------------------------------------------------------
(* The clients.                                                            *)

\* Fewer streams are steady, and the steady ones are listed.
LEMMA PagesKeep ==
  ASSUME PageInv, UNCHANGED <<pager, cursor, got, lost>>,
         steady' \in [Readers -> SUBSET Ids],
         \A r \in Readers : steady'[r] \subseteq steady[r] /\ steady'[r] \subseteq Listed'
  PROVE  PageInv'
<1>1. PageTypes'
  BY DEF PageInv, PageTypes
<1>2. ASSUME NEW r \in Readers, ~lost[r], Reading(r) PROVE Reading(r)'
  BY <1>2 DEF Reading, Ordered, IdsOf
<1> QED
  BY <1>1, <1>2 DEF PageInv

\* Clients whose answers were not all given begin anew with the process.
LEMMA PagesExit ==
  ASSUME PageInv, ProcessExit
  PROVE  PageInv'
<1>1. /\ pager' = [r \in Readers |-> IF pager[r] = "paging" THEN "idle" ELSE pager[r]]
      /\ cursor' = [r \in Readers |-> None]
      /\ got' = [r \in Readers |-> IF pager[r] = "done" THEN got[r] ELSE <<>>]
      /\ steady' = [r \in Readers |-> {}]
      /\ lost' = [r \in Readers |-> pager[r] = "done" /\ lost[r]]
  BY DEF ProcessExit
<1>2. <<>> \in Seq(Element)
  OBVIOUS
<1>3. PageTypes'
  <2>1. pager' \in [Readers -> {"idle", "paging", "done"}]
    BY <1>1 DEF PageInv, PageTypes
  <2>2. got' \in [Readers -> Seq(Element)]
    BY <1>1, <1>2 DEF PageInv, PageTypes
  <2>3. lost' \in [Readers -> BOOLEAN]
    BY <1>1, Zenon
  <2> QED
    BY <1>1, <2>1, <2>2, <2>3 DEF PageTypes
<1>4. ASSUME NEW r \in Readers
      PROVE  /\ pager'[r] = "idle" => got'[r] = <<>> /\ cursor'[r] = None /\ ~lost'[r]
             /\ steady'[r] \subseteq Listed'
             /\ ~lost'[r] => Reading(r)'
  <2>1. CASE pager[r] = "done"
    <3>1. pager'[r] = "done" /\ got'[r] = got[r] /\ steady'[r] = {} /\ lost'[r] = lost[r]
      BY <1>1, <2>1 DEF PageInv, PageTypes
    <3>2. ~lost[r] => Ordered(got[r])
      BY DEF PageInv, Reading
    <3> QED
      BY <3>1, <3>2 DEF Reading, Ordered
  <2>2. CASE pager[r] # "done"
    <3>1. pager'[r] = "idle" /\ got'[r] = <<>> /\ steady'[r] = {} /\ ~lost'[r]
          /\ cursor'[r] = None
      BY <1>1, <2>2 DEF PageInv, PageTypes
    <3> QED
      BY <3>1 DEF Reading, Ordered
  <2> QED
    BY <2>1, <2>2
<1> QED
  BY <1>3, <1>4 DEF PageInv

\* One answer after the other.
LEMMA JoinedAnswers ==
  ASSUME NEW s \in Seq(Element), NEW t \in Seq(Element), Ordered(s), Ordered(t),
         \A i \in IdsOf(s), j \in IdsOf(t) : i < j
  PROVE  /\ s \o t \in Seq(Element)
         /\ Ordered(s \o t)
         /\ IdsOf(s \o t) = IdsOf(s) \cup IdsOf(t)
<1> DEFINE u == s \o t
           n == Len(s)
           l == Len(t)
<1>1. /\ u \in Seq(Element) /\ n \in Nat /\ l \in Nat /\ Len(u) = n + l
      /\ \A k \in 1 .. n : u[k] = s[k]
      /\ \A k \in 1 .. l : u[n + k] = t[k]
  OBVIOUS
<1>2. /\ \A k \in 1 .. n : s[k].id \in IdsOf(s)
      /\ \A k \in 1 .. l : t[k].id \in IdsOf(t)
      /\ \A j, k \in 1 .. n : j < k => s[j].id < s[k].id
      /\ \A j, k \in 1 .. l : j < k => t[j].id < t[k].id
  BY DEF IdsOf, Ordered
<1>3. IdsOf(s) = {s[k].id : k \in 1 .. n} /\ IdsOf(t) = {t[k].id : k \in 1 .. l}
  BY DEF IdsOf
<1> HIDE DEF u, n, l
<1>4. ASSUME NEW k \in 1 .. Len(u), k \notin 1 .. n
      PROVE  k - n \in 1 .. l /\ u[k] = t[k - n]
  <2>1. k - n \in 1 .. l /\ n + (k - n) = k
    BY <1>1, <1>4
  <2> QED
    BY <1>1, <2>1
<1>5. Ordered(u)
  <2> SUFFICES ASSUME NEW j \in 1 .. Len(u), NEW k \in 1 .. Len(u), j < k
               PROVE  u[j].id < u[k].id
    BY DEF Ordered
  <2>1. CASE k \in 1 .. n
    <3>1. j \in 1 .. n
      BY <1>1, <2>1
    <3> QED
      BY <1>1, <1>2, <2>1, <3>1
  <2>2. CASE k \notin 1 .. n /\ j \in 1 .. n
    BY <1>1, <1>2, <1>4, <2>2
  <2>3. CASE k \notin 1 .. n /\ j \notin 1 .. n
    <3>1. j - n \in 1 .. l /\ k - n \in 1 .. l /\ u[j] = t[j - n] /\ u[k] = t[k - n]
      BY <1>4, <2>3
    <3>2. j - n < k - n
      BY <1>1
    <3> QED
      BY <1>2, <3>1, <3>2
  <2> QED
    BY <2>1, <2>2, <2>3
<1>6. IdsOf(u) = IdsOf(s) \cup IdsOf(t)
  <2>1. ASSUME NEW i \in IdsOf(u) PROVE i \in IdsOf(s) \cup IdsOf(t)
    <3>1. PICK k \in 1 .. Len(u) : i = u[k].id
      BY DEF IdsOf
    <3> QED
      BY <1>1, <1>2, <1>4, <3>1
  <2>2. ASSUME NEW i \in IdsOf(s) PROVE i \in IdsOf(u)
    <3>1. PICK k \in 1 .. n : i = s[k].id
      BY <1>3
    <3>2. k \in 1 .. Len(u) /\ u[k] = s[k]
      BY <1>1
    <3> QED
      BY <3>1, <3>2 DEF IdsOf
  <2>3. ASSUME NEW i \in IdsOf(t) PROVE i \in IdsOf(u)
    <3>1. PICK k \in 1 .. l : i = t[k].id
      BY <1>3
    <3>2. n + k \in 1 .. Len(u) /\ u[n + k] = t[k]
      BY <1>1
    <3> QED
      BY <3>1, <3>2 DEF IdsOf
  <2> QED
    BY <2>1, <2>2, <2>3
<1> QED
  BY <1>1, <1>5, <1>6 DEF u

\* A page that comes after all that was given before, and leaves out nothing
\* steady, keeps the answers in order and complete up to the new cursor.
LEMMA GivenInOrder ==
  ASSUME ListInv, NEW r \in Readers, NEW c, NEW skip \in {0, 1},
         NEW n \in Nat, n = PageStart(c, skip),
         NEW old \in Seq(Element), Ordered(old),
         NEW kept \in SUBSET Listed,
         \A m \in n + 1 .. Len(streams) : \A i \in IdsOf(old) : i < streams[m].id,
         \A m \in 1 .. Len(streams) :
           m <= n /\ streams[m].id \in kept => streams[m].id \in IdsOf(old)
  PROVE  LET page == Slice(c, skip)
             new == old \o Nulled(r, page)
         IN  /\ Nulled(r, page) \in Seq(Element)
             /\ new \in Seq(Element)
             /\ Ordered(new)
             /\ Len(page) = Take =>
                  /\ page[Take].id \in Ids
                  /\ \A i \in IdsOf(new) : i <= page[Take].id
                  /\ \A i \in kept : i <= page[Take].id => i \in IdsOf(new)
             /\ Len(page) # Take => kept \subseteq IdsOf(new)
<1> DEFINE page == Slice(c, skip)
           l == Len(page)
           L == Len(streams)
           t == Nulled(r, page)
           new == old \o t
<1>1. /\ page \in Seq(Element)
      /\ l \in 0 .. Take
      /\ \A k \in 1 .. l : n + k \in 1 .. L /\ page[k] = streams[n + k]
      /\ l < Take => \A k \in n + 1 .. L : k - n \in 1 .. l
  BY SliceIsAPage DEF ListInv
<1>2. /\ L \in Nat /\ l \in Nat /\ Take \in Nat \ {0}
      /\ \A k \in 1 .. L : streams[k] \in Element /\ streams[k].id \in Ids /\ streams[k].id \in Nat
      /\ \A j, k \in 1 .. L : j < k => streams[j].id < streams[k].id
  BY <1>1, LimitsAssumption, IdIsNatural DEF ListInv, Ordered
<1>3. \A k \in 1 .. l : page[k] \in Element
  BY <1>1
<1>4. /\ t \in Seq(Element) /\ Len(t) = l
      /\ \A k \in 1 .. l : t[k].id = page[k].id
  <2>1. t \in [1 .. l -> Element] /\ \A k \in 1 .. l : t[k].id = page[k].id
    BY <1>3 DEF Nulled, Element
  <2> QED
    BY <1>2, <2>1
<1> HIDE DEF page, l, L, t
<1>5. Ordered(t)
  <2> SUFFICES ASSUME NEW j \in 1 .. l, NEW k \in 1 .. l, j < k PROVE t[j].id < t[k].id
    BY <1>4 DEF Ordered
  <2>1. n + j \in 1 .. L /\ n + k \in 1 .. L /\ n + j < n + k
    BY <1>1, <1>2
  <2>2. t[j].id = streams[n + j].id /\ t[k].id = streams[n + k].id
    BY <1>1, <1>4
  <2> QED
    BY <1>2, <2>1, <2>2
<1>6. IdsOf(t) = {streams[n + k].id : k \in 1 .. l}
  <2>1. IdsOf(t) = {t[k].id : k \in 1 .. l}
    BY <1>4 DEF IdsOf
  <2>2. \A k \in 1 .. l : t[k].id = streams[n + k].id
    BY <1>1, <1>4
  <2> QED
    BY <2>1, <2>2
<1>7. \A i \in IdsOf(old), j \in IdsOf(t) : i < j
  <2> SUFFICES ASSUME NEW i \in IdsOf(old), NEW j \in IdsOf(t) PROVE i < j
    OBVIOUS
  <2>1. PICK k \in 1 .. l : j = streams[n + k].id
    BY <1>6
  <2>2. n + k \in n + 1 .. L
    BY <1>1, <1>2
  <2> QED
    BY <2>1, <2>2 DEF L
<1>8. new \in Seq(Element) /\ Ordered(new) /\ IdsOf(new) = IdsOf(old) \cup IdsOf(t)
  BY <1>4, <1>5, <1>7, JoinedAnswers
<1> HIDE DEF new
<1>9. ASSUME NEW i \in kept PROVE \E m \in 1 .. L : i = streams[m].id
  BY DEF Listed, L
<1>10. ASSUME NEW m \in 1 .. L, streams[m].id \in kept, m <= n + l
       PROVE  streams[m].id \in IdsOf(new)
  <2>1. CASE m <= n
    BY <1>8, <1>10, <2>1 DEF L
  <2>2. CASE ~(m <= n)
    <3>1. m - n \in 1 .. l /\ n + (m - n) = m
      BY <1>2, <1>10, <2>2
    <3>2. streams[m].id \in IdsOf(t)
      BY <1>6, <3>1
    <3> QED
      BY <1>8, <3>2
  <2> QED
    BY <2>1, <2>2
<1>11. ASSUME l = Take
       PROVE  /\ page[Take].id \in Ids
              /\ \A i \in IdsOf(new) : i <= page[Take].id
              /\ \A i \in kept : i <= page[Take].id => i \in IdsOf(new)
  <2>1. Take \in 1 .. l /\ n + Take \in 1 .. L /\ page[Take] = streams[n + Take]
    BY <1>1, <1>2, <1>11
  <2> DEFINE b == streams[n + Take].id
  <2>2. b \in Ids /\ b \in Nat
    BY <1>2, <2>1
  <2>3. ASSUME NEW i \in IdsOf(t) PROVE i <= b
    <3>1. PICK k \in 1 .. l : i = streams[n + k].id
      BY <1>6
    <3>2. n + k \in 1 .. L /\ (k = Take \/ n + k < n + Take)
      BY <1>1, <1>2, <1>11
    <3>3. i \in Nat /\ (i = b \/ i < b)
      BY <1>2, <2>1, <3>1, <3>2
    <3> QED
      BY <2>2, <3>3
  <2>4. ASSUME NEW i \in IdsOf(old) PROVE i <= b
    <3>1. b \in IdsOf(t)
      BY <1>6, <2>1
    <3>2. i < b
      BY <1>7, <3>1
    <3>3. i \in Nat
      <4>1. PICK k \in 1 .. Len(old) : i = old[k].id
        BY DEF IdsOf
      <4> QED
        BY <4>1, IdIsNatural
    <3> QED
      BY <2>2, <3>2, <3>3
  <2>5. ASSUME NEW i \in kept, i <= b PROVE i \in IdsOf(new)
    <3>1. PICK m \in 1 .. L : i = streams[m].id
      BY <1>9
    <3>2. m <= n + Take
      <4>1. ~(n + Take < m)
        <5>1. n + Take < m => b < i
          BY <1>2, <2>1, <3>1
        <5>2. i \in Nat
          BY <1>2, <3>1
        <5> QED
          BY <2>2, <2>5, <5>1, <5>2
      <4> QED
        BY <1>2, <4>1
    <3> QED
      BY <1>10, <1>11, <3>1, <3>2
  <2> QED
    BY <1>8, <2>1, <2>2, <2>3, <2>4, <2>5
<1>12. ASSUME l # Take PROVE kept \subseteq IdsOf(new)
  <2> SUFFICES ASSUME NEW i \in kept PROVE i \in IdsOf(new)
    OBVIOUS
  <2>1. PICK m \in 1 .. L : i = streams[m].id
    BY <1>9
  <2>2. l < Take
    BY <1>1, <1>2, <1>12
  <2>3. m <= n + l
    <3>1. CASE m <= n
      BY <1>2, <3>1
    <3>2. CASE ~(m <= n)
      <4>1. m \in n + 1 .. L
        BY <1>2, <3>2
      <4>2. m - n \in 1 .. l
        BY <1>1, <2>2, <4>1
      <4> QED
        BY <1>2, <4>2
    <3> QED
      BY <3>1, <3>2
  <2> QED
    BY <1>10, <2>1, <2>3
<1> QED
  BY <1>4, <1>8, <1>11, <1>12 DEF page, l, t, new

\* An answer of findManyStream.
LEMMA PagesAnswer ==
  ASSUME IInv, NEW r \in Readers, FindManyStream(r)
  PROVE  PageInv'
<1> DEFINE skip == IF pager[r] = "idle" THEN 0 ELSE 1
           c == cursor[r]
           page == Slice(c, skip)
           full == Len(page) = Take
           astray == lost[r] \/ c \notin Listed \cup {None}
           old == got[r]
           n == PageStart(c, skip)
           kept == steady'[r]
           given == Nulled(r, page)
<1>1. /\ pager[r] \in {"idle", "paging"}
      /\ lost' = [lost EXCEPT ![r] = astray]
      /\ got' = [got EXCEPT ![r] = IF astray THEN <<>> ELSE old \o given]
      /\ steady' = IF pager[r] = "idle" THEN [steady EXCEPT ![r] = Listed] ELSE steady
      /\ cursor' = [cursor EXCEPT ![r] = IF full THEN page[Take].id ELSE None]
      /\ pager' = [pager EXCEPT ![r] = IF full THEN "paging" ELSE "done"]
  BY DEF FindManyStream, IInv, PageInv, PageTypes
<1>2. Listed' = Listed /\ Listed \subseteq Ids
  <2>1. Listed' = Listed
    BY ListMasked DEF IInv
  <2>2. \A k \in 1 .. Len(streams) : streams[k] \in Element
    BY DEF IInv, ListInv
  <2> QED
    BY <2>1, <2>2, IdIsNatural DEF Listed
<1>3. /\ got \in [Readers -> Seq(Element)] /\ steady \in [Readers -> SUBSET Ids]
      /\ pager \in [Readers -> {"idle", "paging", "done"}]
      /\ cursor \in [Readers -> Ids \cup {None}]
      /\ lost \in [Readers -> BOOLEAN]
  BY DEF IInv, PageInv, PageTypes
<1>4. kept \subseteq Listed /\ steady' \in [Readers -> SUBSET Ids]
  BY <1>1, <1>2, <1>3 DEF IInv, PageInv
<1>5. n \in Nat /\ skip \in {0, 1}
  BY StartOfPage DEF IInv, ListInv
<1>6. /\ page \in Seq(Element)
      /\ Len(page) \in 0 .. Take
      /\ full => page[Take].id \in Ids
  <2>1. page \in Seq(Element) /\ Len(page) \in 0 .. Take
    BY <1>5, SliceIsAPage DEF IInv, ListInv
  <2> HIDE DEF page
  <2>2. full => page[Take] \in Element
    BY <2>1, LimitsAssumption
  <2> QED
    BY <2>1, <2>2, IdIsNatural
<1>7. given \in Seq(Element)
  <2> HIDE DEF page
  <2>1. /\ Len(page) \in Nat
        /\ \A k \in 1 .. Len(page) : page[k] \in Element
    BY <1>6
  <2>2. given \in [1 .. Len(page) -> Element]
    BY <2>1 DEF Nulled, Element
  <2> QED
    BY <2>1, <2>2
<1>8. PageTypes'
  <2>1. cursor' \in [Readers -> Ids \cup {None}]
    BY <1>1, <1>3, <1>6
  <2>2. pager' \in [Readers -> {"idle", "paging", "done"}]
    BY <1>1, <1>3
  <2>3. got' \in [Readers -> Seq(Element)]
    <3> HIDE DEF given, astray
    <3>1. old \o given \in Seq(Element) /\ <<>> \in Seq(Element)
      BY <1>3, <1>7
    <3> QED
      BY <1>1, <1>3, <3>1
  <2>4. lost' \in [Readers -> BOOLEAN]
    <3>1. astray \in BOOLEAN
      BY <1>3
    <3> HIDE DEF astray
    <3> QED
      BY <1>1, <1>3, <3>1
  <2> QED
    BY <1>4, <2>1, <2>2, <2>3, <2>4 DEF PageTypes
<1>9. ASSUME NEW q \in Readers \ {r}
      PROVE  /\ pager'[q] = "idle" => got'[q] = <<>> /\ cursor'[q] = None /\ ~lost'[q]
             /\ steady'[q] \subseteq Listed'
             /\ ~lost'[q] => Reading(q)'
  <2>1. /\ pager'[q] = pager[q] /\ got'[q] = got[q] /\ cursor'[q] = cursor[q]
        /\ lost'[q] = lost[q] /\ steady'[q] = steady[q]
    <3> HIDE DEF astray, full, given, c, page, old
    <3> QED
      BY <1>1, <1>3
  <2> QED
    BY <1>2, <2>1 DEF IInv, PageInv, Reading, Ordered
<1>10. pager'[r] = IF full THEN "paging" ELSE "done"
  BY <1>1, <1>3
<1>11. ASSUME ~astray PROVE Reading(r)'
  <2>1. ~lost[r] /\ Reading(r) /\ old \in Seq(Element) /\ Ordered(old)
    BY <1>3, <1>11 DEF IInv, PageInv, Reading
  <2>2. /\ got'[r] = old \o given
        /\ cursor'[r] = IF full THEN page[Take].id ELSE None
    <3> HIDE DEF astray, full, given, page, old
    <3> QED
      BY <1>1, <1>3, <1>11
  <2>3. /\ \A m \in n + 1 .. Len(streams) : \A i \in IdsOf(old) : i < streams[m].id
        /\ \A m \in 1 .. Len(streams) :
             m <= n /\ streams[m].id \in kept => streams[m].id \in IdsOf(old)
    <3>1. CASE pager[r] = "idle"
      <4>1. c = None /\ old = <<>> /\ c \notin Listed
        BY <1>2, <3>1, IdsAssumption DEF IInv, PageInv
      <4>2. n = 0
        BY <3>1, <4>1, StartOfPage DEF IInv, ListInv
      <4>3. IdsOf(old) = {}
        BY <4>1 DEF IdsOf
      <4> HIDE DEF n, old
      <4> QED
        BY <4>2, <4>3
    <3>2. CASE pager[r] = "paging"
      <4>1. /\ c \in Ids /\ c \in Listed
            /\ \A i \in IdsOf(old) : i <= c
            /\ \A i \in steady[r] : i <= c => i \in IdsOf(old)
        BY <1>11, <2>1, <3>2, IdsAssumption DEF Reading
      <4>2. kept = steady[r] /\ skip = 1
        BY <1>1, <3>2
      <4>3. PICK k \in 1 .. Len(streams) : streams[k].id = c /\ n = k - 1 + 1
        BY <4>1, <4>2, StartOfPage DEF IInv, ListInv
      <4>4. n = k /\ Len(streams) \in Nat
        BY <4>3 DEF IInv, ListInv
      <4>5. \A m \in 1 .. Len(streams) :
              streams[m].id \in Nat /\ (k < m => c < streams[m].id) /\ (m < k => streams[m].id < c)
        BY <4>3, IdIsNatural DEF IInv, ListInv, Ordered
      <4>6. \A i \in IdsOf(old) : i \in Nat
        BY <2>1, IdIsNatural DEF IdsOf
      <4>7. c \in Nat
        BY <4>1, IdsAssumption
      <4> HIDE DEF n, kept, c, old, skip
      <4>8. ASSUME NEW m \in n + 1 .. Len(streams), NEW i \in IdsOf(old)
            PROVE  i < streams[m].id
        <5>1. m \in 1 .. Len(streams) /\ k < m
          BY <4>4
        <5> QED
          BY <4>1, <4>5, <4>6, <4>7, <5>1
      <4>9. ASSUME NEW m \in 1 .. Len(streams), m <= n, streams[m].id \in kept
            PROVE  streams[m].id \in IdsOf(old)
        <5>1. m = k \/ m < k
          BY <4>4, <4>9
        <5>2. streams[m].id <= c
          BY <4>3, <4>5, <4>7, <5>1
        <5> QED
          BY <4>1, <4>2, <4>9, <5>2
      <4> QED
        BY <4>8, <4>9
    <3> QED
      BY <1>1, <3>1, <3>2
  <2>4. /\ Ordered(old \o given)
        /\ full =>
             /\ page[Take].id \in Ids
             /\ \A i \in IdsOf(old \o given) : i <= page[Take].id
             /\ \A i \in kept : i <= page[Take].id => i \in IdsOf(old \o given)
        /\ ~full => kept \subseteq IdsOf(old \o given)
    <3> HIDE DEF n, skip, kept, c, old, astray
    <3> QED
      BY <1>4, <1>5, <2>1, <2>3, GivenInOrder DEF IInv, n
  <2>5. Ordered(got[r])' <=> Ordered(got'[r])
    BY DEF Ordered
  <2>6. IdsOf(got[r])' = IdsOf(got'[r])
    BY DEF IdsOf
  <2> HIDE DEF full, given, page, old, kept, n, c, skip
  <2> QED
    BY <1>10, <2>2, <2>4, <2>5, <2>6 DEF Reading, kept
<1>12. lost'[r] <=> astray
  <2> HIDE DEF astray
  <2> QED
    BY <1>1, <1>3
<1> HIDE DEF astray, full, kept
<1> QED
  BY <1>2, <1>4, <1>8, <1>9, <1>10, <1>11, <1>12 DEF PageInv, kept

\* The clients, step by step.
LEMMA PageStep ==
  ASSUME IInv, Next
  PROVE  PageInv'
<1>1. ASSUME UNCHANGED clients, Listed \subseteq Listed' PROVE PageInv'
  BY <1>1, PagesKeep DEF clients, IInv, PageInv, PageTypes
<1>2. CASE UNCHANGED <<list, clients>>
  BY <1>1, <1>2, ListSame DEF IInv
<1>3. CASE ProcessExit
  BY <1>3, PagesExit DEF IInv
<1>4. CASE GiveUp
  BY <1>3, <1>4 DEF GiveUp
<1>5. CASE BrokerDown
  BY <1>2, <1>3, <1>5 DEF BrokerDown
<1>6. CASE Consume
  BY <1>1, <1>6, ListConsume DEF IInv, Consume
<1>7. CASE Tick
  BY <1>1, <1>7, ListTick DEF IInv, Tick
<1>8. CASE Sweep
  <2>1. /\ steady' = StillSteady({i \in Listed : ~Dead(i)})
        /\ UNCHANGED <<pager, cursor, got, lost>>
        /\ Listed' = {i \in Listed : ~Dead(i)}
    BY <1>8, ListSweep DEF Sweep, IInv
  <2>2. steady \in [Readers -> SUBSET Ids]
    BY DEF IInv, PageInv, PageTypes
  <2>3. \A r \in Readers : steady'[r] = steady[r] \cap {i \in Listed : ~Dead(i)}
    BY <2>1 DEF StillSteady
  <2>4. steady' \in [Readers -> SUBSET Ids]
    BY <2>1, <2>2 DEF StillSteady
  <2> QED
    BY <2>1, <2>3, <2>4, PagesKeep DEF IInv
<1>9. ASSUME NEW r \in Readers, FindManyStream(r) PROVE PageInv'
  BY <1>9, PagesAnswer
<1>10. CASE Connect \/ ConnectFails \/ BrokerUp
            \/ (\E i \in Ids : Start(i) \/ Publish(i) \/ Stop(i))
            \/ (\E c \in Calls : CreateStream(c) \/ (\E i \in Ids : DeleteStream(c, i)) \/ Run(c))
  BY <1>2, <1>10 DEF Connect, ConnectFails, BrokerUp, Start, Publish, Stop, CreateStream,
     DeleteStream, Run, SendStart, SendStop, SendFails, AuditStream, CommitCall, RollBackCall
<1> QED
  BY <1>4, <1>5, <1>6, <1>7, <1>8, <1>9, <1>10 DEF Next

-----------------------------------------------------------------------------
(* The list keeps what LiveStreams promises.                               *)

\* Every step of the server is one of LiveStreams, or does not show.
LEMMA ShownStep ==
  ASSUME IInv, Next
  PROVE  ListInv' /\ [Live!Next]_(Live!vars)
<1>1. CASE UNCHANGED list
  BY <1>1, ListSame DEF IInv, list, Live!vars
<1>2. CASE ProcessExit
  <2>1. Live!Forget
    BY <1>2, ListExit DEF ProcessExit, Live!Forget
  <2> QED
    BY <1>2, <2>1, ListExit DEF Live!Next
<1>3. CASE GiveUp
  BY <1>2, <1>3 DEF GiveUp
<1>4. CASE BrokerDown
  BY <1>1, <1>2, <1>4 DEF BrokerDown
<1>5. CASE Consume
  <2>1. /\ ListInv'
        /\ Head(inbox) \in Ids
        /\ Listed' = Listed \cup {Head(inbox)}
        /\ quiet' = [quiet EXCEPT ![Head(inbox)] = 0]
    BY <1>5, ListConsume DEF IInv
  <2>2. Live!Report(Head(inbox))
    BY <2>1 DEF Live!Report
  <2> QED
    BY <2>1, <2>2 DEF Live!Next
<1>6. CASE Tick
  <2>1. ListInv' /\ Listed' = Listed
    BY <1>6, ListTick DEF IInv
  <2>2. Live!Pass
    BY <1>6, <2>1 DEF Tick, Older, Live!Pass
  <2> QED
    BY <2>1, <2>2 DEF Live!Next
<1>7. CASE Sweep
  <2> DEFINE dead == {i \in Listed : Dead(i)}
  <2>1. /\ ListInv'
        /\ Listed' = {i \in Listed : ~Dead(i)}
        /\ quiet' = [i \in Ids |-> IF i \in dead THEN 0 ELSE quiet[i]]
    BY <1>7, ListSweep DEF IInv
  <2>2. Listed' = Listed \ dead /\ dead # {}
    BY <1>7, <2>1 DEF Sweep
  <2>3. dead \in SUBSET {i \in Listed : quiet[i] > Silence}
    BY DEF IInv, ListInv, Dead
  <2>4. Live!Clear
    BY <2>1, <2>2, <2>3 DEF Live!Clear
  <2> QED
    BY <2>1, <2>4 DEF Live!Next
<1>8. ASSUME NEW r \in Readers, FindManyStream(r)
      PROVE  ListInv' /\ UNCHANGED Live!vars
  BY <1>8, ListMasked DEF IInv, Live!vars
<1>9. CASE Connect \/ ConnectFails \/ BrokerUp
           \/ (\E i \in Ids : Start(i) \/ Publish(i) \/ Stop(i))
           \/ (\E c \in Calls : CreateStream(c) \/ (\E i \in Ids : DeleteStream(c, i)) \/ Run(c))
  BY <1>1, <1>9 DEF Connect, ConnectFails, BrokerUp, Start, Publish, Stop, CreateStream,
     DeleteStream, Run, SendStart, SendStop, SendFails, AuditStream, CommitCall, RollBackCall
<1> QED
  BY <1>3, <1>4, <1>5, <1>6, <1>7, <1>8, <1>9 DEF Next

-----------------------------------------------------------------------------
(* The invariant.                                                          *)

\* A server that has just been started, in a broker that is up or down.
LEMMA InitInv == Init => IInv /\ Live!Init
<1> SUFFICES ASSUME Init PROVE IInv /\ Live!Init
  OBVIOUS
<1>1. Listed = {} /\ streams \in Seq(Element) /\ Len(streams) = 0
  BY DEF Init, Listed
<1>2. ListInv
  BY <1>1, LimitsAssumption DEF Init, ListInv, Ordered
<1>3. LinkInv
  BY LimitsAssumption DEF Init, LinkInv
<1>4. CallInv
  <2>1. Sent = {}
    BY DEF Init, Sent
  <2>2. starts = 0 /\ Cardinality(Sent) = 0
    BY <2>1, FS_EmptySet DEF Init
  <2> QED
    BY <2>2, RunningAssumption DEF Init, CallInv
<1>5. PageInv
  <2>1. PageTypes
    BY DEF Init, PageTypes
  <2> QED
    BY <2>1 DEF Init, PageInv, Reading, Ordered
<1>6. Live!Init
  BY <1>1 DEF Init, Live!Init
<1> QED
  BY <1>2, <1>3, <1>4, <1>5, <1>6 DEF IInv

\* No step breaks it.
LEMMA StepInv == IInv /\ [Next]_vars => IInv' /\ [Live!Next]_(Live!vars)
<1>1. ASSUME IInv, Next PROVE IInv' /\ [Live!Next]_(Live!vars)
  BY <1>1, ShownStep, LinkStep, CallStep, PageStep DEF IInv
<1>2. ASSUME IInv, UNCHANGED vars PROVE IInv' /\ [Live!Next]_(Live!vars)
  <2>1. UNCHANGED <<list, link, workers, calls, clients>>
    BY <1>2 DEF vars
  <2>2. ListInv' /\ Listed' = Listed
    BY <1>2, <2>1, ListSame DEF IInv
  <2>3. LinkInv'
    BY <1>2, <2>1 DEF IInv, LinkInv, link
  <2>4. CallInv'
    BY <1>2, <2>1, CallsSame DEF IInv
  <2>5. PageInv'
    BY <1>2, <2>1, <2>2, PagesKeep DEF IInv, PageInv, PageTypes, clients
  <2> QED
    BY <2>1, <2>2, <2>3, <2>4, <2>5 DEF IInv, list, Live!vars
<1> QED
  BY <1>1, <1>2

\* So it always holds.
LEMMA Invariance == Spec => []IInv
<1>1. Init => IInv
  BY InitInv
<1>2. IInv /\ [Next]_vars => IInv'
  BY StepInv
<1> QED
  BY <1>1, <1>2, PTL DEF Spec

-----------------------------------------------------------------------------
(* Theorems.                                                               *)

\* Every variable has its type, and the list is as long as there are streams,
\* with no more commands under way than calls.
THEOREM TypeCorrect == Spec => []TypeOK
<1>1. IInv => TypeOK
  <2> SUFFICES ASSUME IInv PROVE TypeOK
    OBVIOUS
  <2>1. Len(streams) <= Cardinality(Ids)
    BY ListIsShort DEF IInv
  <2>2. starts \in 0 .. Cardinality(Calls)
    <3>1. Sent \subseteq Calls
      BY DEF Sent
    <3>2. Cardinality(Sent) <= Cardinality(Calls) /\ Cardinality(Sent) \in Nat
          /\ Cardinality(Calls) \in Nat
      <4> HIDE DEF Sent
      <4> QED
        BY <3>1, CallsAssumption, FS_Subset, FS_CardinalityType
    <3> QED
      BY <3>2 DEF IInv, CallInv
  <2> QED
    BY <2>1, <2>2 DEF IInv, ListInv, LinkInv, CallInv, PageInv, PageTypes, TypeOK
<1> QED
  BY <1>1, Invariance, PTL

\* The list is always sorted, and no stream is on it twice.
THEOREM ListStaysOrdered == Spec => []ListIsOrdered
<1>1. IInv => ListIsOrdered
  BY DEF IInv, ListInv, Ordered, ListIsOrdered
<1> QED
  BY <1>1, Invariance, PTL

\* Whoever follows a cursor that stays on the list is given nothing twice and
\* everything that was listed all along.
THEOREM PagesAreExact == Spec => []PagingIsExact
<1>1. IInv => PagingIsExact
  BY DEF IInv, PageInv, Reading, Ordered, IdsOf, PagingIsExact
<1> QED
  BY <1>1, Invariance, PTL

\* The list starts as LiveStreams says and takes its steps only: streams are
\* shown when they report, and cleared when they have been silent for too long.
THEOREM ListIsLive == Spec => Live!Init /\ [][Live!Next]_(Live!vars)
<1>1. Init => Live!Init
  BY InitInv
<1>2. IInv /\ [Next]_vars => [Live!Next]_(Live!vars)
  BY StepInv
<1> QED
  BY <1>1, <1>2, Invariance, PTL DEF Spec
=============================================================================
