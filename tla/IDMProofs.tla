--------------------------- MODULE IDMProofs ---------------------------
(* What the operators of IDM.tla do to a list of any length: it stays a     *)
(* list of intervals in order, idm_get takes one identifier off it, and     *)
(* idm_return puts one back, or loses it where IDM.c:91-116 does.           *)
EXTENDS IDM, SequenceTheorems, WellFoundedInduction, TLAPS

Interval == [start : Int, end : Int]

(* Intervals that are not empty, one wholly below the next. *)
Ordered(l) == /\ l \in Seq(Interval)
              /\ \A i \in 1 .. Len(l) : l[i].start <= l[i].end
              /\ \A i, j \in 1 .. Len(l) : i < j => l[i].end < l[j].start
-----------------------------------------------------------------------------
(* Lists of intervals. *)

LEMMA Least ==
    ASSUME NEW S, S \subseteq Nat, S # {}
    PROVE  \E n \in S : \A m \in S : n <= m
<1> DEFINE R == {ss \in Nat \X Nat : ss[1] < ss[2]}
<1>1. IsWellFoundedOn(R, Nat)
  BY NatLessThanWellFounded DEF OpToRel
<1>2. \E n \in S : \A m \in S : <<m, n>> \notin R
  <2> HIDE DEF R
  <2> QED
    BY <1>1, WFMin
<1>3. PICK n \in S : \A m \in S : <<m, n>> \notin R
  BY <1>2
<1>4. \A m \in S : ~(m < n)
  BY <1>3
<1> QED
  BY <1>4

LEMMA FreeIs ==
    ASSUME NEW l, Ordered(l)
    PROVE  \A x : x \in Free(l) <=> /\ x \in Int
                                    /\ \E n \in 1 .. Len(l) : l[n].start <= x /\ x <= l[n].end
<1>1. /\ DOMAIN l = 1 .. Len(l)
      /\ \A n \in 1 .. Len(l) : l[n].start \in Int /\ l[n].end \in Int
  <2>1. \A n \in 1 .. Len(l) : l[n] \in Interval
    BY ElementOfSeq DEF Ordered
  <2> QED
    BY <2>1, LenProperties DEF Ordered, Interval
<1>2. \A x : x \in Free(l) <=> \E n \in 1 .. Len(l) : x \in l[n].start .. l[n].end
  BY <1>1 DEF Free
<1> QED
  BY <1>1, <1>2

(* A list with one of its intervals replaced by another, in its place. *)
LEMMA Replaced ==
    ASSUME NEW l, Ordered(l), NEW k \in 1 .. Len(l), NEW iv \in Interval,
           iv.start <= iv.end,
           \A j \in 1 .. k - 1 : l[j].end < iv.start,
           \A j \in k + 1 .. Len(l) : iv.end < l[j].start,
           NEW m \in Seq(Interval), Len(m) = Len(l),
           \A j \in 1 .. Len(l) : m[j] = IF j = k THEN iv ELSE l[j]
    PROVE  Ordered(m)
<1>1. /\ m \in Seq(Interval) /\ Len(m) = Len(l)
      /\ \A j \in 1 .. Len(l) : m[j] = IF j = k THEN iv ELSE l[j]
  OBVIOUS
<1>2. Len(l) \in Nat
  BY LenProperties DEF Ordered
<1>3. \A i \in 1 .. Len(m) : m[i].start <= m[i].end
  BY <1>1 DEF Ordered
<1>4. ASSUME NEW i \in 1 .. Len(m), NEW j \in 1 .. Len(m), i < j
      PROVE  m[i].end < m[j].start
  <2>1. CASE i # k /\ j # k
    BY <1>1, <1>4, <2>1 DEF Ordered
  <2>2. CASE i = k
    <3>1. j \in k + 1 .. Len(l) /\ j # k
      BY <1>1, <1>2, <1>4, <2>2
    <3> QED
      BY <1>1, <2>2, <3>1
  <2>3. CASE j = k
    <3>1. i \in 1 .. k - 1 /\ i # k
      BY <1>1, <1>2, <1>4, <2>3
    <3> QED
      BY <1>1, <2>3, <3>1
  <2> QED
    BY <2>1, <2>2, <2>3
<1> QED
  BY <1>1, <1>3, <1>4 DEF Ordered

(* A sequence without its k-th element. *)
LEMMA RemoveAtIs ==
    ASSUME NEW S, NEW l \in Seq(S), NEW k \in 1 .. Len(l)
    PROVE  /\ RemoveAt(l, k) \in Seq(S) /\ Len(RemoveAt(l, k)) = Len(l) - 1
           /\ \A j \in 1 .. Len(l) - 1 :
                 RemoveAt(l, k)[j] = IF j < k THEN l[j] ELSE l[j + 1]
<1>1. Len(l) \in Nat /\ \A j \in 1 .. Len(l) : l[j] \in S
  BY LenProperties
<1> DEFINE a == SubSeq(l, 1, k - 1)
           b == SubSeq(l, k + 1, Len(l))
<1>2. a \in Seq(S) /\ Len(a) = k - 1 /\ \A j \in 1 .. k - 1 : a[j] = l[j]
  BY <1>1, SubSeqProperties
<1>3. /\ b \in Seq(S) /\ Len(b) = Len(l) - k
      /\ \A j \in 1 .. Len(l) - k : b[j] = l[k + j]
  <2>1. \A j \in k + 1 .. Len(l) : l[j] \in S
    BY <1>1
  <2>2. /\ b \in Seq(S)
        /\ Len(b) = IF k + 1 <= Len(l) THEN Len(l) - (k + 1) + 1 ELSE 0
        /\ \A j \in 1 .. Len(l) - (k + 1) + 1 : b[j] = l[k + 1 + j - 1]
    BY <1>1, <2>1, SubSeqProperties
  <2> QED
    BY <1>1, <2>2
<1>4. RemoveAt(l, k) = a \o b
  BY DEF RemoveAt
<1> HIDE DEF a, b
<1>5. /\ a \o b \in Seq(S) /\ Len(a \o b) = Len(a) + Len(b)
      /\ \A j \in 1 .. Len(a) + Len(b) :
           (a \o b)[j] = IF j <= Len(a) THEN a[j] ELSE b[j - Len(a)]
  BY <1>2, <1>3, ConcatProperties
<1>6. ASSUME NEW j \in 1 .. Len(l) - 1
      PROVE  (a \o b)[j] = IF j < k THEN l[j] ELSE l[j + 1]
  <2>1. CASE j < k
    BY <1>1, <1>2, <1>3, <1>5, <2>1
  <2>2. CASE j >= k
    <3>1. j - (k - 1) \in 1 .. Len(l) - k /\ k + (j - (k - 1)) = j + 1
      BY <1>1, <2>2
    <3>2. b[j - (k - 1)] = l[j + 1]
      BY <1>3, <3>1
    <3>3. (a \o b)[j] = b[j - Len(a)]
      BY <1>1, <1>2, <1>3, <1>5, <2>2
    <3> QED
      BY <1>2, <2>2, <3>2, <3>3
  <2>3. j < k \/ j >= k
    BY <1>1
  <2> QED
    BY <2>1, <2>2, <2>3
<1> QED
  BY <1>1, <1>2, <1>3, <1>4, <1>5, <1>6

(* A list without one of its intervals. *)
LEMMA Removed ==
    ASSUME NEW l, Ordered(l), NEW k \in 1 .. Len(l)
    PROVE  /\ Ordered(RemoveAt(l, k)) /\ Len(RemoveAt(l, k)) = Len(l) - 1
           /\ \A j \in 1 .. Len(l) - 1 :
                 RemoveAt(l, k)[j] = IF j < k THEN l[j] ELSE l[j + 1]
<1>1. Len(l) \in Nat /\ l \in Seq(Interval)
  BY LenProperties DEF Ordered
<1> DEFINE m == RemoveAt(l, k)
<1>2. /\ m \in Seq(Interval) /\ Len(m) = Len(l) - 1
      /\ \A j \in 1 .. Len(l) - 1 : m[j] = IF j < k THEN l[j] ELSE l[j + 1]
  BY <1>1, RemoveAtIs
<1> HIDE DEF m
<1>3. \A i \in 1 .. Len(m) : m[i].start <= m[i].end
  BY <1>1, <1>2 DEF Ordered
<1>4. ASSUME NEW i \in 1 .. Len(m), NEW j \in 1 .. Len(m), i < j
      PROVE  m[i].end < m[j].start
  <2> DEFINE old(x) == IF x < k THEN x ELSE x + 1
  <2>1. old(i) \in 1 .. Len(l) /\ old(j) \in 1 .. Len(l) /\ old(i) < old(j)
    BY <1>1, <1>2, <1>4
  <2>2. m[i] = l[old(i)] /\ m[j] = l[old(j)]
    BY <1>2
  <2> HIDE DEF old
  <2> QED
    BY <2>1, <2>2 DEF Ordered
<1> QED
  BY <1>2, <1>3, <1>4 DEF Ordered, m

(* A list with one more interval, in its place. *)
LEMMA Inserted ==
    ASSUME NEW l, Ordered(l), NEW k \in 1 .. Len(l) + 1, NEW iv \in Interval,
           iv.start <= iv.end,
           \A j \in 1 .. k - 1 : l[j].end < iv.start,
           \A j \in k .. Len(l) : iv.end < l[j].start,
           NEW m \in Seq(Interval), Len(m) = Len(l) + 1,
           \A j \in 1 .. k - 1 : m[j] = l[j],
           m[k] = iv,
           \A j \in k + 1 .. Len(l) + 1 : m[j] = l[j - 1]
    PROVE  Ordered(m)
<1>1. Len(l) \in Nat
  BY LenProperties DEF Ordered
<1> DEFINE old(x) == IF x < k THEN x ELSE x - 1
<1>2. ASSUME NEW j \in 1 .. Len(m), j # k
      PROVE  old(j) \in 1 .. Len(l) /\ m[j] = l[old(j)]
  <2>1. CASE j < k
    BY <1>1, <2>1
  <2>2. CASE j > k
    <3>1. j \in k + 1 .. Len(l) + 1 /\ ~(j < k) /\ j - 1 \in 1 .. Len(l)
      BY <1>1, <2>2
    <3> QED
      BY <3>1
  <2> QED
    BY <1>1, <1>2, <2>1, <2>2
<1>3. \A i \in 1 .. Len(m) : m[i].start <= m[i].end
  <2> HIDE DEF old
  <2> QED
    BY <1>2 DEF Ordered
<1>4. ASSUME NEW i \in 1 .. Len(m), NEW j \in 1 .. Len(m), i < j
      PROVE  m[i].end < m[j].start
  <2>1. CASE i # k /\ j # k
    <3>1. /\ old(i) \in 1 .. Len(l) /\ old(j) \in 1 .. Len(l)
          /\ m[i] = l[old(i)] /\ m[j] = l[old(j)]
      BY <1>2, <2>1
    <3>2. old(i) < old(j)
      BY <1>1, <1>4, <2>1
    <3> HIDE DEF old
    <3> QED
      BY <3>1, <3>2 DEF Ordered
  <2>2. CASE i = k
    <3>1. j \in k + 1 .. Len(l) + 1 /\ j - 1 \in k .. Len(l)
      BY <1>1, <1>4, <2>2
    <3> QED
      BY <2>2, <3>1
  <2>3. CASE j = k
    <3>1. i \in 1 .. k - 1
      BY <1>1, <1>4, <2>3
    <3> QED
      BY <2>3, <3>1
  <2> QED
    BY <2>1, <2>2, <2>3
<1> QED
  BY <1>3, <1>4 DEF Ordered

LEMMA InsertAtIs ==
    ASSUME NEW l, NEW c \in Nat, NEW e
    PROVE  InsertAt(l, c + 1, e) = SubSeq(l, 1, c) \o <<e>> \o SubSeq(l, c + 1, Len(l))
<1> DEFINE k == c + 1
<1>1. k - 1 = c
  OBVIOUS
<1> HIDE DEF k
<1>2. InsertAt(l, k, e) = SubSeq(l, 1, k - 1) \o <<e>> \o SubSeq(l, k, Len(l))
  BY Zenon DEF InsertAt
<1>3. InsertAt(l, k, e) = SubSeq(l, 1, c) \o <<e>> \o SubSeq(l, k, Len(l))
  BY <1>1, <1>2, Zenon
<1> QED
  BY <1>3, Zenon DEF k

(* The places of Inserted, and what they mean for the identifiers. *)
InsertedAt(l, k, iv, m) ==
    /\ k \in 1 .. Len(l) + 1 /\ iv \in Interval /\ Len(m) = Len(l) + 1
    /\ \A j \in 1 .. k - 1 : m[j] = l[j]
    /\ m[k] = iv
    /\ \A j \in k + 1 .. Len(l) + 1 : m[j] = l[j - 1]

LEMMA InsertedFree ==
    ASSUME NEW l, Ordered(l), NEW k, NEW iv, NEW m, Ordered(m), InsertedAt(l, k, iv, m)
    PROVE  Free(m) = Free(l) \union (iv.start .. iv.end)
<1>0. /\ k \in 1 .. Len(l) + 1 /\ iv \in Interval /\ Len(m) = Len(l) + 1
      /\ \A j \in 1 .. k - 1 : m[j] = l[j]
      /\ m[k] = iv
      /\ \A j \in k + 1 .. Len(l) + 1 : m[j] = l[j - 1]
  BY DEF InsertedAt
<1> USE <1>0
<1>1. Len(l) \in Nat
  BY LenProperties DEF Ordered
<1>2. iv.start \in Int /\ iv.end \in Int
  BY DEF Interval
<1>3. ASSUME NEW x \in Free(m) PROVE x \in Free(l) \union (iv.start .. iv.end)
  <2>1. PICK j \in 1 .. Len(m) : m[j].start <= x /\ x <= m[j].end
    BY <1>3, FreeIs
  <2>2. x \in Int
    BY <1>3, FreeIs
  <2>3. CASE j < k
    <3>1. j \in 1 .. k - 1 /\ j \in 1 .. Len(l)
      BY <1>1, <2>3
    <3> QED
      BY <2>1, <2>2, <3>1, FreeIs
  <2>4. CASE j = k
    BY <1>2, <2>1, <2>2, <2>4
  <2>5. CASE j > k
    <3>1. j \in k + 1 .. Len(l) + 1 /\ j - 1 \in 1 .. Len(l)
      BY <1>1, <2>5
    <3>2. m[j] = l[j - 1]
      BY <3>1
    <3> QED
      BY <2>1, <2>2, <3>1, <3>2, FreeIs
  <2> QED
    BY <1>1, <2>3, <2>4, <2>5
<1>4. ASSUME NEW x \in Free(l) PROVE x \in Free(m)
  <2>1. PICK j \in 1 .. Len(l) : l[j].start <= x /\ x <= l[j].end
    BY <1>4, FreeIs
  <2>2. x \in Int
    BY <1>4, FreeIs
  <2>3. CASE j < k
    <3>1. j \in 1 .. k - 1 /\ j \in 1 .. Len(m)
      BY <1>1, <2>3
    <3> QED
      BY <2>1, <2>2, <3>1, FreeIs
  <2>4. CASE j >= k
    <3>1. j + 1 \in k + 1 .. Len(l) + 1 /\ j + 1 \in 1 .. Len(m) /\ (j + 1) - 1 = j
      BY <1>1, <2>4
    <3>2. m[j + 1] = l[j]
      BY <3>1
    <3> QED
      BY <2>1, <2>2, <3>1, <3>2, FreeIs
  <2> QED
    BY <1>1, <2>3, <2>4
<1>5. ASSUME NEW x \in iv.start .. iv.end PROVE x \in Free(m)
  <2>1. k \in 1 .. Len(m)
    BY <1>1
  <2> QED
    BY <1>2, <1>5, <2>1, FreeIs
<1> QED
  BY <1>3, <1>4, <1>5

(* The identifiers of a list whose k-th interval is replaced. *)
LEMMA ReplacedFree ==
    ASSUME NEW l, Ordered(l), NEW k \in 1 .. Len(l), NEW iv \in Interval,
           NEW m, Ordered(m), Len(m) = Len(l),
           \A j \in 1 .. Len(l) : m[j] = IF j = k THEN iv ELSE l[j]
    PROVE  Free(m) = (Free(l) \ (l[k].start .. l[k].end)) \union (iv.start .. iv.end)
<1>1. /\ Len(l) \in Nat /\ iv.start \in Int /\ iv.end \in Int
      /\ \A j \in 1 .. Len(l) : l[j].start \in Int /\ l[j].end \in Int
  <2>1. \A j \in 1 .. Len(l) : l[j] \in Interval
    BY ElementOfSeq DEF Ordered
  <2> QED
    BY <2>1, LenProperties DEF Ordered, Interval
<1>2. ASSUME NEW x \in Int
      PROVE  x \in Free(m) <=> (x \in Free(l) /\ ~(l[k].start <= x /\ x <= l[k].end))
                               \/ (iv.start <= x /\ x <= iv.end)
  <2>1. x \in Free(m) <=> \/ iv.start <= x /\ x <= iv.end
                          \/ \E j \in 1 .. Len(l) : j # k /\ l[j].start <= x /\ x <= l[j].end
    BY <1>1, FreeIs
  <2>2. x \in Free(l) <=> \E j \in 1 .. Len(l) : l[j].start <= x /\ x <= l[j].end
    BY FreeIs
  <2>3. \A j \in 1 .. Len(l) : j # k /\ l[j].start <= x /\ x <= l[j].end
           => ~(l[k].start <= x /\ x <= l[k].end)
    <3> SUFFICES ASSUME NEW j \in 1 .. Len(l), j # k, l[j].start <= x, x <= l[j].end
                 PROVE  ~(l[k].start <= x /\ x <= l[k].end)
      OBVIOUS
    <3>1. j < k \/ k < j
      BY <1>1
    <3>2. l[j].end < l[k].start \/ l[k].end < l[j].start
      BY <3>1 DEF Ordered
    <3> QED
      BY <1>1, <3>2
  <2> QED
    BY <2>1, <2>2, <2>3
<1>3. \A x : x \in Free(l) \/ x \in Free(m) => x \in Int
  BY FreeIs
<1> QED
  BY <1>1, <1>2, <1>3

(* idm_get hands out the lowest identifier, and only that one leaves. *)
LEMMA GetList ==
    ASSUME NEW l, Ordered(l), l # <<>>
    PROVE  /\ idm_index(l) \in Free(l) /\ Ordered(idm_get(l))
           /\ Free(idm_get(l)) = Free(l) \ {idm_index(l)}
<1>1. /\ Len(l) \in Nat \ {0} /\ l \in Seq(Interval)
      /\ \A j \in 1 .. Len(l) : l[j] \in Interval /\ l[j].start \in Int /\ l[j].end \in Int
  <2>1. \A j \in 1 .. Len(l) : l[j] \in Interval
    BY ElementOfSeq DEF Ordered
  <2> QED
    BY <2>1, LenProperties, EmptySeq DEF Ordered, Interval
<1>2. 1 \in 1 .. Len(l) /\ l[1].start <= l[1].end
  BY <1>1 DEF Ordered
<1>3. idm_index(l) \in Free(l)
  BY <1>1, <1>2, FreeIs DEF idm_index
<1>4. CASE l[1].start = l[1].end
  <2> DEFINE m == Tail(l)
  <2>1. /\ m \in Seq(Interval) /\ Len(m) = Len(l) - 1
        /\ \A j \in 1 .. Len(m) : m[j] = l[j + 1]
    BY <1>1, HeadTailProperties
  <2> HIDE DEF m
  <2>2. Ordered(m)
    <3>1. \A i \in 1 .. Len(m) : i + 1 \in 1 .. Len(l)
      BY <1>1, <2>1
    <3>2. \A i, j \in 1 .. Len(m) : i < j => i + 1 < j + 1
      BY <1>1, <2>1
    <3> QED
      BY <2>1, <3>1, <3>2 DEF Ordered
  <2>3. ASSUME NEW x PROVE x \in Free(m) <=> x \in Free(l) /\ x # l[1].start
    <3>1. ASSUME x \in Free(m) PROVE x \in Free(l) /\ x # l[1].start
      <4>1. PICK j \in 1 .. Len(m) : m[j].start <= x /\ x <= m[j].end
        BY <2>2, <3>1, FreeIs
      <4>2. j + 1 \in 1 .. Len(l) /\ 1 < j + 1 /\ m[j] = l[j + 1] /\ x \in Int
        BY <1>1, <2>1, <2>2, <3>1, FreeIs
      <4>3. l[1].end < l[j + 1].start
        BY <1>2, <4>2 DEF Ordered
      <4> QED
        BY <1>1, <1>2, <1>4, <4>1, <4>2, <4>3, FreeIs
    <3>2. ASSUME x \in Free(l), x # l[1].start PROVE x \in Free(m)
      <4>1. PICK j \in 1 .. Len(l) : l[j].start <= x /\ x <= l[j].end
        BY <3>2, FreeIs
      <4>2. x \in Int
        BY <3>2, FreeIs
      <4>3. j # 1
        BY <1>1, <1>2, <1>4, <3>2, <4>1, <4>2
      <4>4. j - 1 \in 1 .. Len(m) /\ (j - 1) + 1 = j
        BY <1>1, <2>1, <4>3
      <4>5. m[j - 1] = l[j]
        BY <2>1, <4>4
      <4> QED
        BY <2>2, <4>1, <4>2, <4>4, <4>5, FreeIs
    <3> QED
      BY <3>1, <3>2
  <2>4. idm_get(l) = m
    BY <1>4 DEF idm_get, m
  <2> QED
    BY <1>3, <2>2, <2>3, <2>4 DEF idm_index
<1>5. CASE l[1].start # l[1].end
  <2> DEFINE iv == [l[1] EXCEPT !.start = l[1].start + 1]
             m == [l EXCEPT ![1] = iv]
  <2>1. idm_get(l) = m
    BY <1>5 DEF idm_get
  <2>2. iv \in Interval /\ iv.start = l[1].start + 1 /\ iv.end = l[1].end
    BY <1>1, <1>2 DEF Interval
  <2> HIDE DEF iv
  <2>3. iv.start <= iv.end
    BY <1>1, <1>2, <1>5, <2>2
  <2>4. \A j \in 2 .. Len(l) : iv.end < l[j].start
    BY <1>2, <2>2 DEF Ordered
  <2>5. /\ Ordered(m) /\ Len(m) = Len(l)
        /\ \A j \in 1 .. Len(l) : m[j] = IF j = 1 THEN iv ELSE l[j]
    <3>1. /\ m \in Seq(Interval) /\ Len(m) = Len(l)
          /\ \A j \in 1 .. Len(l) : m[j] = IF j = 1 THEN iv ELSE l[j]
      BY <1>1, <1>2, <2>2, ExceptSeq
    <3> HIDE DEF m
    <3>2. 1 .. 1 - 1 = {} /\ 1 + 1 = 2
      OBVIOUS
    <3> QED
      BY <1>2, <2>2, <2>3, <2>4, <3>1, <3>2, Replaced
  <2> HIDE DEF m
  <2>6. Free(m) = (Free(l) \ (l[1].start .. l[1].end)) \union (iv.start .. iv.end)
    BY <1>2, <2>2, <2>5, ReplacedFree
  <2>7. l[1].start .. l[1].end \subseteq Free(l)
    BY <1>2, FreeIs
  <2>8. \A x : x \in l[1].start .. l[1].end <=> x = l[1].start \/ x \in iv.start .. iv.end
    BY <1>1, <1>2, <2>2
  <2>9. l[1].start \notin iv.start .. iv.end
    BY <1>1, <1>2, <2>2
  <2> QED
    BY <1>3, <2>1, <2>5, <2>6, <2>7, <2>8, <2>9 DEF idm_index
<1> QED
  BY <1>4, <1>5

LEMMA Bounds ==
    ASSUME NEW l, Ordered(l)
    PROVE  /\ l \in Seq(Interval) /\ Len(l) \in Nat /\ (l # <<>> <=> Len(l) > 0)
           /\ \A j \in 1 .. Len(l) : /\ l[j] \in Interval
                                     /\ l[j].start \in Int /\ l[j].end \in Int
                                     /\ l[j].start <= l[j].end
<1>1. \A j \in 1 .. Len(l) : l[j] \in Interval
  BY ElementOfSeq DEF Ordered
<1> QED
  BY <1>1, LenProperties, EmptySeq DEF Ordered, Interval

(* Merge leaves the identifiers on the list as they are. *)
LEMMA MergeList ==
    ASSUME NEW l, Ordered(l), NEW c \in 1 .. Len(l)
    PROVE  Ordered(Merge(l, c)) /\ Free(Merge(l, c)) = Free(l)
<1>1. CASE ~(c < Len(l) /\ l[c].end = l[c + 1].start - 1)
  BY <1>1 DEF Merge
<1>2. CASE c < Len(l) /\ l[c].end = l[c + 1].start - 1
  <2> DEFINE r == RemoveAt(l, c + 1)
             iv == [r[c] EXCEPT !.end = l[c + 1].end]
             m == [r EXCEPT ![c] = iv]
  <2>1. Merge(l, c) = m
    BY <1>2 DEF Merge
  <2>2. c + 1 \in 1 .. Len(l) /\ c \in 1 .. Len(l) - 1
    BY <1>2, Bounds
  <2>3. /\ Ordered(r) /\ Len(r) = Len(l) - 1
        /\ \A j \in 1 .. Len(l) - 1 : r[j] = IF j < c + 1 THEN l[j] ELSE l[j + 1]
    BY <2>2, Removed
  <2> HIDE DEF r
  <2>4. r[c] = l[c]
    <3>1. c \in 1 .. Len(l) - 1 /\ c < c + 1
      BY <2>2, Bounds
    <3> QED
      BY <2>3, <3>1
  <2>5. iv \in Interval /\ iv.start = l[c].start /\ iv.end = l[c + 1].end
    BY <2>2, <2>4, Bounds DEF Interval
  <2> HIDE DEF iv
  <2>6. iv.start <= iv.end
    BY <1>2, <2>2, <2>5, Bounds
  <2>7. \A j \in 1 .. c - 1 : r[j].end < iv.start
    <3> TAKE j \in 1 .. c - 1
    <3>1. Len(l) \in Nat
      BY Bounds
    <3>2. j \in 1 .. Len(l) - 1 /\ j \in 1 .. Len(l) /\ c \in 1 .. Len(l) /\ j < c /\ j < c + 1
      BY <2>2, <3>1
    <3>3. r[j] = l[j]
      BY <2>3, <3>2
    <3>4. l[j].end < l[c].start
      BY <3>2 DEF Ordered
    <3> QED
      BY <2>5, <3>3, <3>4
  <2>8. ASSUME NEW j \in c + 1 .. Len(r) PROVE iv.end < r[j].start
    <3>1. j \in 1 .. Len(l) - 1 /\ ~(j < c + 1) /\ c + 1 < j + 1 /\ j + 1 \in 1 .. Len(l)
      BY <2>2, <2>3, Bounds
    <3>2. r[j] = l[j + 1]
      BY <2>3, <3>1
    <3> QED
      BY <2>2, <2>5, <3>1, <3>2 DEF Ordered
  <2>9. /\ Ordered(m) /\ Len(m) = Len(r)
        /\ \A j \in 1 .. Len(r) : m[j] = IF j = c THEN iv ELSE r[j]
    <3>1. c \in 1 .. Len(r)
      BY <2>2, <2>3
    <3> QED
      <4>1. /\ m \in Seq(Interval) /\ Len(m) = Len(r)
            /\ \A j \in 1 .. Len(r) : m[j] = IF j = c THEN iv ELSE r[j]
        BY <2>3, <2>5, <3>1, ExceptSeq DEF Ordered
      <4> HIDE DEF m
      <4> QED
        BY <2>3, <2>5, <2>6, <2>7, <2>8, <3>1, <4>1, Replaced
  <2> HIDE DEF m
  <2>10. ASSUME NEW x \in Free(m) PROVE x \in Free(l)
    <3>1. PICK j \in 1 .. Len(m) : m[j].start <= x /\ x <= m[j].end
      BY <2>9, <2>10, FreeIs
    <3>2. x \in Int /\ j \in 1 .. Len(l) - 1 /\ j \in 1 .. Len(l) /\ j + 1 \in 1 .. Len(l)
      BY <2>3, <2>9, <2>10, FreeIs, Bounds
    <3>3. CASE j = c
      <4>1. l[c].start <= x /\ x <= l[c + 1].end
        BY <2>3, <2>5, <2>9, <3>1, <3>2, <3>3
      <4>2. x <= l[c].end \/ l[c + 1].start <= x
        BY <1>2, <2>2, <3>2, Bounds
      <4> QED
        BY <2>2, <3>2, <4>1, <4>2, FreeIs
    <3>4. CASE j # c
      <4>1. m[j] = l[j] \/ m[j] = l[j + 1]
        BY <2>3, <2>9, <3>2, <3>4
      <4> QED
        BY <3>1, <3>2, <4>1, FreeIs
    <3> QED
      BY <3>3, <3>4
  <2>11. ASSUME NEW x \in Free(l) PROVE x \in Free(m)
    <3>1. PICK j \in 1 .. Len(l) : l[j].start <= x /\ x <= l[j].end
      BY <2>11, FreeIs
    <3>2. x \in Int
      BY <2>11, FreeIs
    <3>3. CASE j \in {c, c + 1}
      <4>1. c \in 1 .. Len(m) /\ m[c] = iv
        BY <2>2, <2>3, <2>9
      <4>2. l[c].start <= x /\ x <= l[c + 1].end
        <5>1. l[c].end < l[c + 1].start
          BY <2>2, Bounds DEF Ordered
        <5> QED
          BY <2>2, <3>1, <3>2, <3>3, <5>1, Bounds
      <4> QED
        BY <2>5, <2>9, <3>2, <4>1, <4>2, FreeIs
    <3>4. CASE j < c
      <4>1. j \in 1 .. Len(m) /\ m[j] = l[j]
        BY <2>2, <2>3, <2>9, <3>4, Bounds
      <4> QED
        BY <2>9, <3>1, <3>2, <4>1, FreeIs
    <3>5. CASE j > c + 1
      <4>1. /\ j - 1 \in 1 .. Len(m) /\ j - 1 # c /\ ~(j - 1 < c + 1) /\ (j - 1) + 1 = j
            /\ j - 1 \in 1 .. Len(l) - 1 /\ j - 1 \in 1 .. Len(r)
        BY <2>2, <2>3, <2>9, <3>5, Bounds
      <4>2. m[j - 1] = l[j]
        BY <2>3, <2>9, <4>1
      <4> QED
        BY <2>9, <3>1, <3>2, <4>1, <4>2, FreeIs
    <3> QED
      BY <2>2, <3>3, <3>4, <3>5, Bounds
  <2> QED
    BY <2>1, <2>9, <2>10, <2>11
<1> QED
  BY <1>1, <1>2

(* The search of idm_return finds the first node that stops it. *)
LEMMA PredecessorIs ==
    ASSUME NEW l, Ordered(l), Len(l) > 1, NEW index \in Int
    PROVE  LET c == Predecessor(l, index) IN
           /\ c \in 1 .. Len(l)
           /\ c = Len(l) \/ index <= l[c + 1].end + 1
           /\ \A d \in 1 .. c - 1 : index > l[d + 1].end + 1
<1> DEFINE Stops == {c \in 1 .. Len(l) : c = Len(l) \/ index <= l[c + 1].end + 1}
<1>1. Stops \subseteq Nat /\ Len(l) \in Stops
  BY Bounds
<1>2. PICK c \in Stops : \A d \in Stops : c <= d
  BY <1>1, Least
<1>3. \A d \in 1 .. c - 1 : index > l[d + 1].end + 1
  <2> SUFFICES ASSUME NEW d \in 1 .. c - 1 PROVE index > l[d + 1].end + 1
    OBVIOUS
  <2>1. d \in 1 .. Len(l) /\ d # Len(l) /\ d + 1 \in 1 .. Len(l) /\ ~(c <= d)
    BY <1>2, Bounds
  <2>2. d \notin Stops
    BY <1>2, <2>1
  <2> QED
    BY <2>1, <2>2, Bounds
<1>4. DOMAIN l = 1 .. Len(l)
  BY LenProperties, Bounds
<1> QED
  BY <1>2, <1>3, <1>4 DEF Predecessor

(* An identifier at the end of the list. *)
LEMMA Appended ==
    ASSUME NEW l, Ordered(l), NEW index \in Int,
           \A j \in 1 .. Len(l) : l[j].end < index
    PROVE  /\ Ordered(Append(l, Node(index, index)))
           /\ Free(Append(l, Node(index, index))) = Free(l) \union {index}
<1> DEFINE iv == Node(index, index)
           m == Append(l, iv)
           k == Len(l) + 1
<1>1. iv \in Interval /\ iv.start = index /\ iv.end = index /\ iv.start <= iv.end
  BY DEF Node, Interval
<1> HIDE DEF iv
<1>2. /\ m \in Seq(Interval) /\ Len(m) = Len(l) + 1 /\ m[k] = iv
      /\ \A j \in 1 .. Len(l) : m[j] = l[j]
  BY <1>1, Bounds, AppendProperties
<1> HIDE DEF m
<1>3. /\ k \in 1 .. Len(l) + 1 /\ k - 1 = Len(l)
      /\ k .. Len(l) = {} /\ k + 1 .. Len(l) + 1 = {}
  BY Bounds
<1> HIDE DEF k
<1>4. /\ \A j \in 1 .. k - 1 : m[j] = l[j]
      /\ \A j \in k + 1 .. Len(l) + 1 : m[j] = l[j - 1]
      /\ \A j \in 1 .. k - 1 : l[j].end < iv.start
      /\ \A j \in k .. Len(l) : iv.end < l[j].start
  BY <1>1, <1>2, <1>3
<1>5. k \in 1 .. Len(l) + 1 /\ m[k] = iv /\ m \in Seq(Interval) /\ Len(m) = Len(l) + 1
  BY <1>2, <1>3
<1>6. Ordered(m)
  BY <1>1, <1>4, <1>5, Inserted
<1>7. Free(m) = Free(l) \union (iv.start .. iv.end)
  <2>1. InsertedAt(l, k, iv, m)
    BY <1>1, <1>4, <1>5 DEF InsertedAt
  <2> QED
    BY <1>6, <2>1, InsertedFree
<1> QED
  BY <1>1, <1>6, <1>7 DEF m, iv

(* One before the list. *)
LEMMA Prepended ==
    ASSUME NEW l, Ordered(l), NEW index \in Int,
           \A j \in 1 .. Len(l) : index < l[j].start
    PROVE  /\ Ordered(<<Node(index, index)>> \o l)
           /\ Free(<<Node(index, index)>> \o l) = Free(l) \union {index}
<1> DEFINE iv == Node(index, index)
           h == <<iv>>
           m == h \o l
<1>1. iv \in Interval /\ iv.start = index /\ iv.end = index /\ iv.start <= iv.end
  BY DEF Node, Interval
<1> HIDE DEF iv
<1>2. h \in Seq(Interval) /\ Len(h) = 1 /\ h[1] = iv
  BY <1>1
<1>3. l \in Seq(Interval) /\ Len(l) \in Nat
  BY Bounds
<1> HIDE DEF h
<1>4. /\ m \in Seq(Interval) /\ Len(m) = Len(h) + Len(l)
      /\ \A j \in 1 .. Len(h) + Len(l) :
            m[j] = IF j <= Len(h) THEN h[j] ELSE l[j - Len(h)]
  BY <1>2, <1>3, ConcatProperties
<1> HIDE DEF m
<1>5. /\ Len(m) = Len(l) + 1 /\ m[1] = iv
      /\ \A j \in 2 .. Len(l) + 1 : m[j] = l[j - 1]
  BY <1>2, <1>3, <1>4
<1>6. 1 \in 1 .. Len(l) + 1 /\ 1 .. 1 - 1 = {} /\ 1 + 1 = 2
  BY <1>3
<1>7. Ordered(m)
  BY <1>1, <1>4, <1>5, <1>6, Inserted
<1>8. Free(m) = Free(l) \union (iv.start .. iv.end)
  <2>1. InsertedAt(l, 1, iv, m)
    BY <1>1, <1>5, <1>6 DEF InsertedAt
  <2> QED
    BY <1>7, <2>1, InsertedFree
<1> QED
  BY <1>1, <1>7, <1>8 DEF m, h, iv

(* One between two nodes. *)
LEMMA Between ==
    ASSUME NEW l, Ordered(l), NEW index \in Int, NEW c \in 1 .. Len(l) - 1,
           l[c].end < index, index < l[c + 1].start
    PROVE  /\ Ordered(InsertAt(l, c + 1, Node(index, index)))
           /\ Free(InsertAt(l, c + 1, Node(index, index))) = Free(l) \union {index}
<1> DEFINE iv == Node(index, index)
           a == SubSeq(l, 1, c)
           h == <<iv>>
           b == SubSeq(l, c + 1, Len(l))
           ah == a \o h
           m == ah \o b
           k == c + 1
<1>1. iv \in Interval /\ iv.start = index /\ iv.end = index /\ iv.start <= iv.end
  BY DEF Node, Interval
<1>2. InsertAt(l, c + 1, Node(index, index)) = m
  <2>1. c \in Nat
    BY Bounds
  <2> QED
    BY <2>1, InsertAtIs, Zenon
<1> HIDE DEF iv
<1>3. /\ Len(l) \in Nat /\ c \in Nat /\ c >= 1 /\ c < Len(l)
      /\ \A j \in 1 .. Len(l) : l[j] \in Interval
  BY Bounds
<1>4. h \in Seq(Interval) /\ Len(h) = 1 /\ h[1] = iv
  BY <1>1
<1>5. a \in Seq(Interval) /\ Len(a) = c /\ \A j \in 1 .. c : a[j] = l[j]
  BY <1>3, SubSeqProperties
<1>6. /\ b \in Seq(Interval) /\ Len(b) = Len(l) - c
      /\ \A j \in 1 .. Len(l) - c : b[j] = l[c + j]
  <2>1. \A j \in c + 1 .. Len(l) : l[j] \in Interval
    BY <1>3
  <2>2. /\ b \in Seq(Interval)
        /\ Len(b) = IF c + 1 <= Len(l) THEN Len(l) - (c + 1) + 1 ELSE 0
        /\ \A j \in 1 .. Len(l) - (c + 1) + 1 : b[j] = l[c + 1 + j - 1]
    BY <1>3, <2>1, SubSeqProperties
  <2> QED
    BY <1>3, <2>2
<1> HIDE DEF a, h, b
<1>7. /\ ah \in Seq(Interval) /\ Len(ah) = Len(a) + Len(h)
      /\ \A j \in 1 .. Len(a) + Len(h) :
            ah[j] = IF j <= Len(a) THEN a[j] ELSE h[j - Len(a)]
  BY <1>4, <1>5, ConcatProperties
<1> HIDE DEF ah
<1>8. /\ m \in Seq(Interval) /\ Len(m) = Len(ah) + Len(b)
      /\ \A j \in 1 .. Len(ah) + Len(b) :
            m[j] = IF j <= Len(ah) THEN ah[j] ELSE b[j - Len(ah)]
  <2>1. ah \in Seq(Interval) /\ b \in Seq(Interval)
    BY <1>6, <1>7
  <2> QED
    BY <2>1, ConcatProperties
<1> HIDE DEF m
<1>9. /\ Len(m) = Len(l) + 1 /\ Len(ah) = k
      /\ \A j \in 1 .. k - 1 : m[j] = l[j]
      /\ m[k] = iv
  <2>1. Len(ah) = k /\ Len(m) = Len(l) + 1
    BY <1>3, <1>4, <1>5, <1>6, <1>7, <1>8
  <2>2. ASSUME NEW j \in 1 .. k - 1 PROVE m[j] = l[j]
    <3>1. /\ j \in 1 .. Len(ah) + Len(b) /\ j <= Len(ah)
          /\ j \in 1 .. Len(a) + Len(h) /\ j <= Len(a) /\ j \in 1 .. c
      BY <1>3, <1>4, <1>5, <1>6, <2>1
    <3>2. m[j] = ah[j] /\ ah[j] = a[j]
      BY <1>7, <1>8, <3>1
    <3> QED
      BY <1>5, <3>1, <3>2
  <2>3. m[k] = iv
    <3>0. /\ Len(ah) = c + 1 /\ Len(a) = c /\ Len(h) = 1 /\ Len(b) = Len(l) - c
          /\ Len(l) \in Nat /\ c \in Nat /\ c >= 1 /\ c < Len(l)
      BY <1>3, <1>4, <1>5, <1>6, <2>1
    <3>1. /\ c + 1 \in 1 .. (c + 1) + (Len(l) - c) /\ c + 1 <= c + 1
          /\ c + 1 \in 1 .. c + 1 /\ ~(c + 1 <= c) /\ c + 1 - c = 1
      <4>1. c \in Nat /\ Len(l) \in Nat /\ c < Len(l)
        BY <1>3
      <4> DEFINE n == Len(l)
      <4> HIDE DEF n
      <4>2. c \in Nat /\ n \in Nat /\ c < n
        BY <4>1 DEF n
      <4>3. /\ c + 1 \in 1 .. (c + 1) + (n - c) /\ c + 1 <= c + 1
            /\ c + 1 \in 1 .. c + 1 /\ ~(c + 1 <= c) /\ c + 1 - c = 1
        BY <4>2
      <4> QED
        BY <4>3 DEF n
    <3>2. m[k] = ah[k] /\ ah[k] = h[1]
      BY <1>7, <1>8, <3>0, <3>1
    <3> QED
      BY <1>4, <3>2
  <2> QED
    BY <2>1, <2>2, <2>3
<1>10. ASSUME NEW j \in k + 1 .. Len(l) + 1 PROVE m[j] = l[j - 1]
  <2>1. /\ j \in 1 .. Len(ah) + Len(b) /\ ~(j <= Len(ah))
        /\ j - k \in 1 .. Len(l) - c /\ c + (j - k) = j - 1
    BY <1>3, <1>6, <1>9
  <2>2. m[j] = b[j - k]
    BY <1>8, <1>9, <2>1
  <2> QED
    BY <1>6, <2>1, <2>2
<1>11. k \in 1 .. Len(l) + 1
  BY <1>3
<1>12. ASSUME NEW j \in 1 .. k - 1 PROVE l[j].end < iv.start
  <2>1. j \in 1 .. Len(l) /\ c \in 1 .. Len(l) /\ (j = c \/ j < c)
    BY <1>3
  <2>2. j = c \/ l[j].end < l[c].start
    BY <2>1 DEF Ordered
  <2> QED
    BY <1>1, <2>1, <2>2, Bounds
<1>13. ASSUME NEW j \in k .. Len(l) PROVE iv.end < l[j].start
  <2>1. j \in 1 .. Len(l) /\ c + 1 \in 1 .. Len(l) /\ (j = c + 1 \/ c + 1 < j)
    BY <1>3
  <2>2. j = c + 1 \/ l[c + 1].end < l[j].start
    BY <2>1 DEF Ordered
  <2> QED
    BY <1>1, <2>1, <2>2, Bounds
<1> HIDE DEF k
<1>14. Ordered(m)
  <2>1. m \in Seq(Interval)
    BY <1>8
  <2> QED
    BY <1>1, <1>9, <1>10, <1>11, <1>12, <1>13, <2>1, Inserted
<1>15. Free(m) = Free(l) \union (iv.start .. iv.end)
  <2>1. /\ iv \in Interval /\ k \in 1 .. Len(l) + 1 /\ Ordered(m) /\ Len(m) = Len(l) + 1
        /\ m[k] = iv /\ \A j \in 1 .. k - 1 : m[j] = l[j]
    BY <1>1, <1>9, <1>11, <1>14
  <2>2. \A j \in k + 1 .. Len(l) + 1 : m[j] = l[j - 1]
    BY <1>10
  <2>3. InsertedAt(l, k, iv, m)
    BY <2>1, <2>2 DEF InsertedAt
  <2> QED
    BY <2>1, <2>3, InsertedFree
<1> QED
  BY <1>1, <1>2, <1>14, <1>15

LEMMA Outside ==
    ASSUME NEW l, Ordered(l), NEW index \in Int, index \notin Free(l)
    PROVE  \A j \in 1 .. Len(l) : l[j].end < index \/ index < l[j].start
BY FreeIs, Bounds

(* An interval grown by one identifier beside it, downwards or upwards. *)
LEMMA Grown ==
    ASSUME NEW l, Ordered(l), NEW k \in 1 .. Len(l), NEW index \in Int, index \notin Free(l),
           NEW iv \in Interval,
           \/ iv.start = index /\ iv.end = l[k].end /\ index = l[k].start - 1
           \/ iv.start = l[k].start /\ iv.end = index /\ index = l[k].end + 1,
           NEW m \in Seq(Interval), Len(m) = Len(l),
           \A j \in 1 .. Len(l) : m[j] = IF j = k THEN iv ELSE l[j]
    PROVE  Ordered(m) /\ Free(m) = Free(l) \union {index}
<1>1. /\ l[k].start \in Int /\ l[k].end \in Int /\ l[k].start <= l[k].end
      /\ Len(l) \in Nat /\ index \in Int /\ k \in Int
  BY Bounds
<1>2. iv.start <= iv.end
  BY <1>1
<1>3. \A j \in 1 .. Len(l) : l[j].end < index \/ index < l[j].start
  BY Outside
<1>4. ASSUME NEW j \in 1 .. k - 1 PROVE l[j].end < iv.start
  <2>1. j \in 1 .. Len(l) /\ j < k
    BY <1>1
  <2>2. l[j].end < l[k].start
    BY <2>1 DEF Ordered
  <2> QED
    BY <1>1, <1>3, <2>1, <2>2, Bounds
<1>5. ASSUME NEW j \in k + 1 .. Len(l) PROVE iv.end < l[j].start
  <2>1. j \in 1 .. Len(l) /\ k < j
    BY <1>1
  <2>2. l[k].end < l[j].start
    BY <2>1 DEF Ordered
  <2> QED
    BY <1>1, <1>3, <2>1, <2>2, Bounds
<1>6. Ordered(m)
  BY <1>2, <1>4, <1>5, Replaced
<1>7. Free(m) = (Free(l) \ (l[k].start .. l[k].end)) \union (iv.start .. iv.end)
  BY <1>6, ReplacedFree
<1>8. l[k].start .. l[k].end \subseteq Free(l)
  BY <1>1, FreeIs
<1>9. iv.start .. iv.end = (l[k].start .. l[k].end) \union {index}
  BY <1>1
<1> QED
  BY <1>6, <1>7, <1>8, <1>9

(* Back in the list, in its place, or lost: only past the first interval.   *)
Back(l, index, m) ==
    /\ Ordered(m)
    /\ \/ Free(m) = Free(l) \union {index}
       \/ Free(m) = Free(l) /\ Len(l) > 1 /\ index = l[1].end + 1

LEMMA ReturnBeyond ==
    ASSUME NEW l, Ordered(l), Len(l) > 1, NEW index \in Int, index \notin Free(l),
           index >= l[1].start
    PROVE  Back(l, index, ReturnBeyondHead(l, index))
<1> DEFINE c == Predecessor(l, index)
           m == ReturnBeyondHead(l, index)
<1>1. /\ c \in 1 .. Len(l)
      /\ c = Len(l) \/ index <= l[c + 1].end + 1
      /\ \A d \in 1 .. c - 1 : index > l[d + 1].end + 1
  BY PredecessorIs
<1>2. m = CASE c = Len(l) -> Append(l, Node(index, index))
            [] c < Len(l) /\ index = l[c + 1].end + 1 ->
                  Merge([l EXCEPT ![c + 1].end = index], c + 1)
            [] c < Len(l) /\ index = l[c + 1].start - 1 ->
                  Merge([l EXCEPT ![c + 1].start = index], c)
            [] c < Len(l) /\ index < l[c + 1].start - 1 /\ index > l[c].end + 1 ->
                  InsertAt(l, c + 1, Node(index, index))
            [] OTHER -> l
  BY DEF ReturnBeyondHead
<1> SUFFICES Back(l, index, m)
  OBVIOUS
<1> HIDE DEF c, m
<1>3. index \in Int /\ Len(l) \in Nat /\ c \in Int /\ 1 \in 1 .. Len(l)
  BY <1>1, Bounds
<1>4. \A j \in 1 .. Len(l) : l[j].end < index \/ index < l[j].start
  BY Outside
<1>5. c > 1 => index > l[c].end + 1
  <2> SUFFICES ASSUME c > 1 PROVE index > l[c].end + 1
    OBVIOUS
  <2>1. c - 1 \in 1 .. c - 1 /\ (c - 1) + 1 = c
    BY <1>3
  <2> QED
    BY <1>1, <2>1
<1>6. l[1].end < index
  BY <1>3, <1>4, Bounds
<1>7. l[c].end < index
  <2>1. c = 1 \/ c > 1
    BY <1>1, <1>3
  <2> QED
    BY <1>1, <1>3, <1>5, <1>6, <2>1, Bounds
<1>8. CASE c = Len(l)
  <2>1. m = Append(l, Node(index, index))
    BY <1>2, <1>8
  <2>2. ASSUME NEW j \in 1 .. Len(l) PROVE l[j].end < index
    <3>1. j = c \/ j < c
      BY <1>3, <1>8
    <3>2. j = c \/ l[j].end < l[c].start
      BY <1>1, <3>1 DEF Ordered
    <3> QED
      BY <1>1, <1>3, <1>7, <3>2, Bounds
  <2> QED
    BY <1>3, <2>1, <2>2, Appended DEF Back
<1>9. CASE c < Len(l)
  <2>1. /\ c + 1 \in 1 .. Len(l) /\ c \in 1 .. Len(l) - 1 /\ c # Len(l)
        /\ l[c + 1] \in Interval /\ l[c + 1].start \in Int /\ l[c + 1].end \in Int
        /\ l[c + 1].start <= l[c + 1].end /\ l[c].end \in Int
    BY <1>1, <1>3, <1>9, Bounds
  <2>2. l[c + 1].end < index \/ index < l[c + 1].start
    BY <1>4, <2>1
  <2>3. CASE index = l[c + 1].end + 1
    <3> DEFINE iv == [l[c + 1] EXCEPT !.end = index]
               g == [l EXCEPT ![c + 1] = iv]
    <3>1. iv \in Interval /\ iv.start = l[c + 1].start /\ iv.end = index
      BY <1>3, <2>1 DEF Interval
    <3>2. m = Merge(g, c + 1)
      BY <1>2, <1>9, <2>1, <2>3
    <3> HIDE DEF iv
    <3>3. Ordered(g) /\ Len(g) = Len(l) /\ Free(g) = Free(l) \union {index}
      <4>1. /\ g \in Seq(Interval) /\ Len(g) = Len(l)
            /\ \A j \in 1 .. Len(l) : g[j] = IF j = c + 1 THEN iv ELSE l[j]
        BY <2>1, <3>1, Bounds, ExceptSeq
      <4> HIDE DEF g
      <4>2. /\ c + 1 \in 1 .. Len(l) /\ iv \in Interval
            /\ iv.start = l[c + 1].start /\ iv.end = index /\ index = l[c + 1].end + 1
        BY <2>1, <2>3, <3>1
      <4> QED
        BY <4>1, <4>2, Grown
    <3> HIDE DEF g
    <3> QED
      BY <2>1, <3>2, <3>3, MergeList DEF Back
  <2>4. CASE index = l[c + 1].start - 1
    <3> DEFINE iv == [l[c + 1] EXCEPT !.start = index]
               g == [l EXCEPT ![c + 1] = iv]
    <3>1. iv \in Interval /\ iv.start = index /\ iv.end = l[c + 1].end
      BY <1>3, <2>1 DEF Interval
    <3>2. index # l[c + 1].end + 1
      BY <1>3, <2>1, <2>4
    <3>3. m = Merge(g, c)
      BY <1>2, <1>9, <2>1, <2>4, <3>2
    <3> HIDE DEF iv
    <3>4. Ordered(g) /\ Len(g) = Len(l) /\ Free(g) = Free(l) \union {index}
      <4>1. /\ g \in Seq(Interval) /\ Len(g) = Len(l)
            /\ \A j \in 1 .. Len(l) : g[j] = IF j = c + 1 THEN iv ELSE l[j]
        BY <2>1, <3>1, Bounds, ExceptSeq
      <4> HIDE DEF g
      <4>2. /\ c + 1 \in 1 .. Len(l) /\ iv \in Interval
            /\ iv.start = index /\ iv.end = l[c + 1].end /\ index = l[c + 1].start - 1
        BY <2>1, <2>4, <3>1
      <4> QED
        BY <4>1, <4>2, Grown
    <3> HIDE DEF g
    <3> QED
      BY <1>1, <3>3, <3>4, MergeList DEF Back
  <2>5. CASE index < l[c + 1].start - 1 /\ index > l[c].end + 1
    <3>1. index # l[c + 1].end + 1 /\ index # l[c + 1].start - 1 /\ index < l[c + 1].start
      BY <1>3, <2>1, <2>5
    <3>2. m = InsertAt(l, c + 1, Node(index, index))
      BY <1>2, <1>9, <2>1, <2>5, <3>1
    <3> QED
      BY <1>3, <1>7, <2>1, <3>1, <3>2, Between DEF Back
  <2>6. CASE /\ index # l[c + 1].end + 1 /\ index # l[c + 1].start - 1
             /\ ~(index < l[c + 1].start - 1 /\ index > l[c].end + 1)
    <3>1. m = l
      BY <1>2, <1>9, <2>1, <2>6
    <3>2. index < l[c + 1].start - 1
      BY <1>1, <1>3, <2>1, <2>2, <2>6
    <3>3. index = l[c].end + 1
      BY <1>3, <1>7, <2>1, <2>6, <3>2
    <3>4. c = 1
      BY <1>1, <1>3, <1>5, <2>1, <3>3
    <3> QED
      BY <3>1, <3>3, <3>4 DEF Back
  <2> QED
    BY <2>3, <2>4, <2>5, <2>6
<1> QED
  BY <1>1, <1>3, <1>8, <1>9

(* idm_return takes back any identifier that is not on the list. *)
LEMMA ReturnList ==
    ASSUME NEW l, Ordered(l), NEW index \in Int, index \notin Free(l)
    PROVE  Back(l, index, idm_return(l, index))
<1> DEFINE m == idm_return(l, index)
           n == Len(l)
           low == l[1].start
           high == l[1].end
           empty == l = <<>>
           first == <<Node(index, index)>>
           before == <<Node(index, index)>> \o l
           after == Append(l, Node(index, index))
           down == [l EXCEPT ![1] = [l[1] EXCEPT !.start = index]]
           up == [l EXCEPT ![1] = [l[1] EXCEPT !.end = index]]
           beyond == ReturnBeyondHead(l, index)
<1>1. m = CASE empty -> first
            [] ~empty /\ index < low - 1 -> before
            [] ~empty /\ index = low - 1 -> down
            [] n = 1 /\ index > high + 1 -> after
            [] n = 1 /\ index = high + 1 -> up
            [] n > 1 /\ index >= low -> beyond
            [] OTHER -> l
  BY DEF idm_return
<1> SUFFICES Back(l, index, m)
  OBVIOUS
<1> HIDE DEF m, n, low, high, empty, first, before, after, down, up, beyond
<1>2. index \in Int /\ n \in Nat /\ n = Len(l)
  BY Bounds DEF n
<1>3. CASE n = 0
  <2>0. l = <<>> /\ empty
    BY <1>2, <1>3, EmptySeq DEF Ordered, empty
  <2>1. m = first
    <3>1. empty /\ n # 1 /\ ~(n > 1)
      BY <1>3, <2>0
    <3> QED
      BY <1>1, <3>1
  <2>2. first = after
    BY <2>0 DEF first, after
  <2>3. \A j \in 1 .. Len(l) : l[j].end < index
    BY <1>2, <1>3
  <2> QED
    BY <1>2, <2>1, <2>2, <2>3, Appended DEF Back, after
<1>4. CASE n > 0
  <2>0. ~empty
    BY <1>2, <1>4 DEF empty
  <2>1. /\ 1 \in 1 .. Len(l) /\ l[1] \in Interval /\ l[1].start = low /\ l[1].end = high
        /\ low \in Int /\ high \in Int /\ low <= high
    BY <1>2, <1>4, Bounds DEF low, high
  <2>2. high < index \/ index < low
    BY <2>1, Outside
  <2>3. CASE index < low - 1
    <3>1. m = before
      BY <1>1, <1>2, <2>0, <2>1, <2>3
    <3>2. ASSUME NEW j \in 1 .. Len(l) PROVE index < l[j].start
      <4>1. j = 1 \/ 1 < j
        BY <1>2
      <4>2. j = 1 \/ l[1].end < l[j].start
        BY <2>1, <4>1 DEF Ordered
      <4> QED
        BY <1>2, <2>1, <2>3, <4>2, Bounds
    <3> QED
      BY <1>2, <3>1, <3>2, Prepended DEF Back, before
  <2>4. CASE index = low - 1
    <3> DEFINE iv == [l[1] EXCEPT !.start = index]
               g == [l EXCEPT ![1] = iv]
    <3>1. iv \in Interval /\ iv.start = index /\ iv.end = l[1].end
      BY <1>2, <2>1 DEF Interval
    <3>2. ~(index < low - 1)
      BY <1>2, <2>1, <2>4
    <3>3. m = g
      BY <1>1, <1>2, <2>0, <2>1, <2>4, <3>2 DEF down
    <3> HIDE DEF iv
    <3>4. Ordered(g) /\ Free(g) = Free(l) \union {index}
      <4>1. /\ g \in Seq(Interval) /\ Len(g) = Len(l)
            /\ \A j \in 1 .. Len(l) : g[j] = IF j = 1 THEN iv ELSE l[j]
        BY <2>1, <3>1, Bounds, ExceptSeq
      <4> HIDE DEF g
      <4> QED
        BY <2>1, <2>4, <3>1, <4>1, Grown
    <3> QED
      BY <3>3, <3>4 DEF Back
  <2>5. CASE high < index
    <3>1. ~(index < low - 1) /\ index # low - 1 /\ index >= low
      BY <1>2, <2>1, <2>5
    <3>2. CASE n > 1
      <4>1. m = beyond
        BY <1>1, <1>2, <2>0, <3>1, <3>2
      <4> QED
        BY <1>2, <2>1, <3>1, <3>2, <4>1, ReturnBeyond DEF beyond
    <3>3. CASE n = 1 /\ index > high + 1
      <4>1. m = after
        BY <1>1, <2>0, <3>1, <3>3
      <4>2. \A j \in 1 .. Len(l) : l[j].end < index
        BY <1>2, <2>1, <2>5, <3>3
      <4> QED
        BY <1>2, <4>1, <4>2, Appended DEF Back, after
    <3>4. CASE n = 1 /\ index = high + 1
      <4> DEFINE iv == [l[1] EXCEPT !.end = index]
                 g == [l EXCEPT ![1] = iv]
      <4>1. iv \in Interval /\ iv.start = l[1].start /\ iv.end = index
        BY <1>2, <2>1 DEF Interval
      <4>2. ~(index > high + 1)
        BY <1>2, <2>1, <3>4
      <4>3. m = g
        BY <1>1, <2>0, <3>1, <3>4, <4>2 DEF up
      <4> HIDE DEF iv
      <4>4. Ordered(g) /\ Free(g) = Free(l) \union {index}
        <5>1. /\ g \in Seq(Interval) /\ Len(g) = Len(l)
              /\ \A j \in 1 .. Len(l) : g[j] = IF j = 1 THEN iv ELSE l[j]
          BY <2>1, <4>1, Bounds, ExceptSeq
        <5> HIDE DEF g
        <5> QED
          BY <2>1, <3>4, <4>1, <5>1, Grown
      <4> QED
        BY <4>3, <4>4 DEF Back
    <3>5. n = 1 \/ n > 1
      BY <1>2, <1>4
    <3>6. index > high + 1 \/ index = high + 1
      BY <1>2, <2>1, <2>5
    <3> QED
      BY <3>2, <3>3, <3>4, <3>5, <3>6
  <2>6. index < low - 1 \/ index = low - 1 \/ high < index
    BY <1>2, <2>1, <2>2
  <2> QED
    BY <2>3, <2>4, <2>5, <2>6
<1> QED
  BY <1>2, <1>3, <1>4
=============================================================================
