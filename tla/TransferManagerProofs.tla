--------------------- MODULE TransferManagerProofs ---------------------
(* What TransferManager.tla model-checks for three transfers, for any       *)
(* numbers of users, helpers, transfers and any limits.  In any             *)
(* environment: downloads queue only behind full slots, no slot is taken    *)
(* beyond the limit in force, and the queue, the identifiers and the        *)
(* monitor thread are in order.  While nobody cancels or leaves and         *)
(* connections come in turn: every transfer has one place and one helper at *)
(* most, and the counts of slots are right.                                 *)
EXTENDS TransferManager, IDMProofs, FiniteSetTheorems

(* Among, by its recursion. *)

Keeps(f, list, set, m) ==
    /\ f[0] = <<>>
    /\ \A i \in 1 .. m : f[i] = IF list[i] \in set THEN Append(f[i - 1], list[i])
                                ELSE f[i - 1]

(* The recursion defines a function. *)
LEMMA KeptExists ==
    ASSUME NEW S, NEW list \in Seq(S), NEW set
    PROVE  \E f : f = [i \in 0 .. Len(list) |-> f[i]] /\ Keeps(f, list, set, Len(list))
<1> DEFINE P(m) == \E f : f = [i \in 0 .. m |-> f[i]] /\ Keeps(f, list, set, m)
           bad == {m \in Nat : m <= Len(list) /\ ~P(m)}
<1>1. Len(list) \in Nat
  OBVIOUS
<1>2. SUFFICES ASSUME bad # {} PROVE FALSE
  BY <1>1
<1>3. PICK m \in bad : \A k \in bad : m <= k
  <2>1. bad \subseteq Nat
    OBVIOUS
  <2> HIDE DEF bad
  <2> QED
    BY <1>2, <2>1, Least
<1>4. m # 0
  <2>1. P(0)
    <3> DEFINE f == [i \in 0 .. 0 |-> <<>>]
    <3>1. f = [i \in 0 .. 0 |-> f[i]] /\ Keeps(f, list, set, 0)
      BY DEF Keeps
    <3> QED
      BY <3>1
  <2> QED
    BY <2>1
<1>5. m \in Nat /\ m - 1 \in Nat /\ m - 1 <= Len(list) /\ ~(m <= m - 1)
  BY <1>1, <1>4
<1>6. P(m - 1)
  BY <1>3, <1>5
<1>7. PICK f : f = [i \in 0 .. m - 1 |-> f[i]] /\ Keeps(f, list, set, m - 1)
  BY <1>6
<1> DEFINE last == IF list[m] \in set THEN Append(f[m - 1], list[m]) ELSE f[m - 1]
           g == [i \in 0 .. m |-> IF i = m THEN last ELSE f[i]]
<1>8. g = [i \in 0 .. m |-> g[i]] /\ g[0] = f[0] /\ g[m] = last
  BY <1>5
<1>9. \A i \in 0 .. m - 1 : g[i] = f[i]
  BY <1>5
<1> HIDE DEF g
<1>10. ASSUME NEW i \in 1 .. m
       PROVE  g[i] = IF list[i] \in set THEN Append(g[i - 1], list[i]) ELSE g[i - 1]
  <2>1. i - 1 \in 0 .. m - 1
    BY <1>5
  <2>2. CASE i = m
    BY <1>8, <1>9, <2>1, <2>2
  <2>3. CASE i # m
    <3>1. i \in 0 .. m - 1 /\ i \in 1 .. m - 1
      BY <1>5, <2>3
    <3> QED
      BY <1>7, <1>9, <2>1, <3>1 DEF Keeps
  <2> QED
    BY <2>2, <2>3
<1>11. Keeps(g, list, set, m)
  BY <1>7, <1>8, <1>10 DEF Keeps
<1> QED
  BY <1>3, <1>8, <1>11

(* What Among keeps, keeps its order: nothing else, nothing twice. *)
LEMMA AmongIs ==
    ASSUME NEW S, NEW list \in Seq(S), NEW set
    PROVE  /\ Among(list, set) \in Seq(S)
           /\ \A x : (\E i \in 1 .. Len(Among(list, set)) : Among(list, set)[i] = x)
                       <=> x \in set /\ \E i \in 1 .. Len(list) : list[i] = x
           /\ list = <<>> => Among(list, set) = <<>>
           /\ IsInjective(list) => IsInjective(Among(list, set))
<1> DEFINE n == Len(list)
           Body(g) == [i \in 0 .. n |->
                         IF i = 0 THEN <<>>
                         ELSE IF list[i] \in set THEN Append(g[i - 1], list[i]) ELSE g[i - 1]]
           kept == CHOOSE g : g = Body(g)
<1>1. n \in Nat /\ \A i \in 1 .. n : list[i] \in S
  OBVIOUS
<1>2. Among(list, set) = kept[n]
  BY DEF Among
<1>3. \A g : /\ Body(g)[0] = <<>> /\ Body(g) = [i \in 0 .. n |-> Body(g)[i]]
             /\ \A i \in 1 .. n : Body(g)[i] = IF list[i] \in set THEN Append(g[i - 1], list[i])
                                               ELSE g[i - 1]
  BY <1>1
<1> HIDE DEF Body
<1>4. \E g : g = Body(g)
  <2>1. PICK f : f = [i \in 0 .. n |-> f[i]] /\ Keeps(f, list, set, n)
    BY KeptExists
  <2> DEFINE b == Body(f)
  <2>2. b[0] = f[0] /\ \A i \in 1 .. n : b[i] = f[i]
    BY <1>3, <2>1 DEF Keeps
  <2>3. b = [i \in 0 .. n |-> b[i]]
    BY <1>3
  <2> HIDE DEF b
  <2>4. \A i \in 0 .. n : b[i] = f[i]
    BY <1>1, <2>2
  <2>5. [i \in 0 .. n |-> b[i]] = [i \in 0 .. n |-> f[i]]
    BY <2>4
  <2>6. b = f
    BY <2>1, <2>3, <2>5, Zenon
  <2> QED
    BY <2>6 DEF b
<1>5. kept = Body(kept)
  BY <1>4
<1> HIDE DEF kept
<1>6. /\ kept[0] = <<>>
      /\ \A i \in 1 .. n : kept[i] = IF list[i] \in set THEN Append(kept[i - 1], list[i])
                                     ELSE kept[i - 1]
  BY <1>3, <1>5, Zenon
<1> DEFINE has(m, x) == \E i \in 1 .. Len(kept[m]) : kept[m][i] = x
           of(m, x) == x \in set /\ \E i \in 1 .. m : list[i] = x
           once(m) == \A i, j \in 1 .. Len(kept[m]) : kept[m][i] = kept[m][j] => i = j
           good(m) == /\ kept[m] \in Seq(S) /\ \A x : has(m, x) <=> of(m, x)
                      /\ IsInjective(list) => once(m)
           bad == {m \in Nat : m <= n /\ ~good(m)}
<1>7. SUFFICES ASSUME bad # {} PROVE FALSE
  <2>1. SUFFICES ASSUME bad = {} PROVE good(n) /\ (list = <<>> => kept[n] = <<>>)
    <3> SUFFICES ASSUME good(n), list = <<>> => kept[n] = <<>>
                 PROVE  /\ Among(list, set) \in Seq(S)
                        /\ \A x : (\E i \in 1 .. Len(Among(list, set)) : Among(list, set)[i] = x)
                                    <=> x \in set /\ \E i \in 1 .. Len(list) : list[i] = x
                        /\ list = <<>> => Among(list, set) = <<>>
                        /\ IsInjective(list) => IsInjective(Among(list, set))
      BY Zenon
    <3>1. DOMAIN kept[n] = 1 .. Len(kept[n])
      OBVIOUS
    <3>2. IsInjective(list) => IsInjective(kept[n])
      BY <3>1 DEF IsInjective
    <3>3. kept[n] \in Seq(S) /\ \A x : has(n, x) <=> of(n, x)
      OBVIOUS
    <3> QED
      BY <1>2, <3>2, <3>3
  <2>2. good(n)
    <3> HIDE DEF good
    <3>1. n \in Nat /\ n <= n
      BY <1>1
    <3> QED
      BY <2>1, <3>1
  <2>3. list = <<>> => n = 0
    OBVIOUS
  <2> QED
    BY <1>6, <2>2, <2>3
<1>8. PICK m \in bad : \A k \in bad : m <= k
  <2>1. bad \subseteq Nat
    OBVIOUS
  <2> HIDE DEF bad
  <2> QED
    BY <1>7, <2>1, Least
<1>9. m # 0
  <2>1. good(0)
    BY <1>6
  <2> QED
    BY <1>8, <2>1
<1>10. m \in 1 .. n /\ m - 1 \in Nat /\ m - 1 <= n /\ ~(m <= m - 1)
  BY <1>1, <1>8, <1>9
<1>11. good(m - 1)
  BY <1>8, <1>10
<1>12. \A x : of(m, x) <=> x \in set /\ (list[m] = x \/ \E i \in 1 .. m - 1 : list[i] = x)
  BY <1>10
<1>13. CASE list[m] \notin set
  <2>1. kept[m] = kept[m - 1]
    BY <1>6, <1>10, <1>13
  <2>2. \A x : of(m, x) <=> of(m - 1, x)
    BY <1>12, <1>13
  <2>3. good(m)
    BY <1>11, <2>1, <2>2
  <2> QED
    BY <1>8, <2>3
<1>14. CASE list[m] \in set
  <2> DEFINE old == kept[m - 1]
             e == list[m]
             new == kept[m]
  <2>1. old \in Seq(S) /\ Len(old) \in Nat /\ e \in S
    BY <1>1, <1>10, <1>11
  <2>2. new = Append(old, e)
    BY <1>6, <1>10, <1>14
  <2>3. /\ new \in Seq(S) /\ Len(new) = Len(old) + 1 /\ new[Len(old) + 1] = e
        /\ \A i \in 1 .. Len(old) : new[i] = old[i]
    <3> HIDE DEF old, e, new
    <3> QED
      BY <2>1, <2>2, AppendProperties
  <2>4. \A x : has(m, x) <=> has(m - 1, x) \/ x = e
    <3> SUFFICES ASSUME NEW x PROVE has(m, x) <=> has(m - 1, x) \/ x = e
      OBVIOUS
    <3> HIDE DEF old, e, new
    <3>1. (\E i \in 1 .. Len(new) : new[i] = x) <=> (\E i \in 1 .. Len(old) : old[i] = x) \/ x = e
      <4>1. \A i \in 1 .. Len(new) : i \in 1 .. Len(old) \/ i = Len(old) + 1
        BY <2>1, <2>3
      <4>2. Len(old) + 1 \in 1 .. Len(new) /\ \A i \in 1 .. Len(old) : i \in 1 .. Len(new)
        BY <2>1, <2>3
      <4> QED
        BY <2>3, <4>1, <4>2
    <3> QED
      BY <3>1 DEF old, new
  <2>5. \A x : of(m, x) <=> of(m - 1, x) \/ x = e
    BY <1>12, <1>14
  <2>6. ASSUME IsInjective(list) PROVE once(m)
    <3>1. \A i \in 1 .. m - 1 : list[i] # e
      BY <1>1, <1>10, <2>6 DEF IsInjective
    <3>2. ~has(m - 1, e)
      <4>1. ~of(m - 1, e)
        BY <3>1
      <4> QED
        BY <1>11, <4>1
    <3>3. once(m - 1)
      BY <1>11, <2>6
    <3> HIDE DEF old, e, new
    <3>4. \A i \in 1 .. Len(old) : old[i] # e
      BY <3>2 DEF old
    <3>5. \A i, j \in 1 .. Len(old) : old[i] = old[j] => i = j
      BY <3>3 DEF old
    <3>6. \A i \in 1 .. Len(new) : i \in 1 .. Len(old) \/ i = Len(old) + 1
      BY <2>1, <2>3
    <3>7. \A i, j \in 1 .. Len(new) : new[i] = new[j] => i = j
      BY <2>3, <3>4, <3>5, <3>6
    <3> QED
      BY <3>7 DEF new
  <2>7. good(m)
    BY <1>11, <2>3, <2>4, <2>5, <2>6
  <2> QED
    BY <1>8, <2>7
<1> QED
  BY <1>13, <1>14
-----------------------------------------------------------------------------
(* The queue is as long as queue_size says, and there is none as long as    *)
(* no limit is configured; with that, NoIdleSlot is inductive.              *)
Counters == /\ q \in Seq(Addrs) /\ ttbl \subseteq Addrs
            /\ active_downloads \in Int /\ active_uploads \in Int
            /\ max_downloads \in Nat \cup {-1} /\ max_uploads \in Nat \cup {-1}

QueueInv == /\ Counters
            /\ queue_size = Len(q)
            /\ max_downloads = -1 => q = <<>>
            /\ NoIdleSlot
-----------------------------------------------------------------------------
(* The loop that fills open slots from the queue stops because the queue is *)
(* empty or the limit is reached, and never passes the limit.               *)
LEMMA OpeningsFill ==
    ASSUME Counters, NEW max \in Int, NEW active \in Int
    PROVE  LET k == Openings(max, active) IN
           /\ k \in 0 .. Len(q)
           /\ k = Len(q) \/ active + k >= max
           /\ k > 0 => active + k <= max
<1> DEFINE free == Max({0, max - active})
<1>1. Len(q) \in Nat
  BY DEF Counters
<1>2. free = IF max - active > 0 THEN max - active ELSE 0
  BY DEF Max
<1>3. Openings(max, active) = IF Len(q) <= free THEN Len(q) ELSE free
  BY <1>1, <1>2 DEF Openings, Min
<1> QED
  BY <1>1, <1>2, <1>3

(* What is left of the queue after k transfers have left it. *)
LEMMA QueueTail ==
    ASSUME Counters, NEW k \in 0 .. Len(q)
    PROVE  /\ SubSeq(q, k + 1, Len(q)) \in Seq(Addrs)
           /\ Len(SubSeq(q, k + 1, Len(q))) = Len(q) - k
           /\ k = Len(q) => SubSeq(q, k + 1, Len(q)) = <<>>
           /\ k = 0 => SubSeq(q, k + 1, Len(q)) = q
<1>1. Len(q) \in Nat /\ \A i \in 1 .. Len(q) : q[i] \in Addrs
  BY DEF Counters
<1>2. \A i \in k + 1 .. Len(q) : q[i] \in Addrs
  BY <1>1
<1>3. SubSeq(q, k + 1, Len(q)) \in Seq(Addrs)
      /\ Len(SubSeq(q, k + 1, Len(q))) = IF k + 1 <= Len(q) THEN Len(q) - (k + 1) + 1 ELSE 0
  BY <1>1, <1>2, SubSeqProperties
<1>4. k = Len(q) => SubSeq(q, k + 1, Len(q)) = <<>>
  BY <1>1, SubSeqEmpty
<1>5. k = 0 => SubSeq(q, k + 1, Len(q)) = q
  BY SubSeqFull DEF Counters
<1> QED
  BY <1>1, <1>3, <1>4, <1>5

(* A step that fills the open slots, after down of them have been counted. *)
LEMMA FillStep ==
    ASSUME QueueInv, Counters', NEW down \in Int,
           max_downloads' = -1 => max_downloads = -1,
           queue_size' = queue_size - Openings(max_downloads', down),
           q' = SubSeq(q, Openings(max_downloads', down) + 1, Len(q)),
           active_downloads' = down + Openings(max_downloads', down)
    PROVE  QueueInv'
<1> DEFINE k == Openings(max_downloads', down)
<1>1. max_downloads' \in Int /\ Len(q) \in Nat
  BY DEF Counters, QueueInv
<1>2. /\ k \in 0 .. Len(q)
      /\ k = Len(q) \/ down + k >= max_downloads'
  BY <1>1, OpeningsFill DEF QueueInv
<1>3. /\ Len(q') = Len(q) - k
      /\ k = Len(q) => q' = <<>>
  BY <1>2, QueueTail DEF QueueInv
<1>4. queue_size' = Len(q')
  BY <1>3 DEF QueueInv
<1>5. max_downloads' = -1 => q' = <<>>
  <2>1. SUFFICES ASSUME max_downloads' = -1 PROVE q' = <<>>
    OBVIOUS
  <2>2. Len(q) = 0
    BY <2>1 DEF QueueInv
  <2> QED
    BY <1>2, <1>3, <2>2
<1>6. NoIdleSlot'
  BY <1>2, <1>3 DEF NoIdleSlot
<1> QED
  BY <1>4, <1>5, <1>6 DEF QueueInv

(* A step in which transfer a gives up its slot: to the first in the queue, *)
(* or to nobody.                                                            *)
LEMMA ReleaseStep ==
    ASSUME QueueInv, fault = "none", NEW a, ReleaseSlot(a),
           queue_size' = queue_size - Claims(a),
           q' = SubSeq(q, Claims(a) + 1, Len(q)),
           ttbl' = ttbl \ {a},
           UNCHANGED limits
    PROVE  /\ QueueInv'
           /\ active_downloads' <= active_downloads
           /\ active_uploads' <= active_uploads
<1>1. Len(q) \in Nat /\ (Len(q) = 0 <=> q = <<>>)
  BY DEF QueueInv, Counters
<1>2. /\ Claims(a) \in 0 .. Len(q)
      /\ Claims(a) = 0 \/ (Claims(a) = 1 /\ IsDownload(a))
  BY <1>1 DEF Claims
<1>3. /\ q' \in Seq(Addrs) /\ Len(q') = Len(q) - Claims(a)
      /\ Claims(a) = 0 => q' = q
  BY <1>2, QueueTail DEF QueueInv
<1>4. /\ active_downloads' \in Int /\ active_uploads' \in Int
      /\ active_downloads' <= active_downloads
      /\ active_uploads' <= active_uploads
      /\ q # <<>> => active_downloads' = active_downloads
  BY <1>2 DEF ReleaseSlot, QueueInv, Counters, Claims
<1>5. q = <<>> => q' = <<>>
  BY <1>1, <1>2, <1>3
<1>6. Counters'
  BY <1>3, <1>4 DEF Counters, QueueInv, limits
<1>7. NoIdleSlot'
  BY <1>4, <1>5 DEF NoIdleSlot, QueueInv, limits
<1> QED
  BY <1>3, <1>4, <1>5, <1>6, <1>7 DEF QueueInv, limits

(* A step that leaves the queue, the counts and the limits alone. *)
LEMMA KeptStep ==
    ASSUME QueueInv, fault = "none", ttbl' \subseteq Addrs,
           UNCHANGED <<q, queue_size, active_downloads, active_uploads, limits>>
    PROVE  QueueInv'
BY DEF QueueInv, Counters, NoIdleSlot, limits
-----------------------------------------------------------------------------
(* No slot is taken beyond the limit in force. *)
WithinLimit ==
    /\ active_downloads' > active_downloads /\ max_downloads' # -1
         => active_downloads' <= max_downloads'
    /\ active_uploads' > active_uploads /\ max_uploads' # -1
         => active_uploads' <= max_uploads'

(* An identifier that is removed, by a helper, a canceller or nobody: one   *)
(* lemma for the five ways tfm_remove may end.                              *)
LEMMA RemoveStep ==
    ASSUME QueueInv, fault = "none", NEW tid, tfm_remove(tid), UNCHANGED limits
    PROVE  QueueInv' /\ WithinLimit
<1>1. SUFFICES /\ QueueInv'
               /\ active_downloads' <= active_downloads
               /\ active_uploads' <= active_uploads
  BY DEF WithinLimit, QueueInv, Counters
<1>2. ASSUME UNCHANGED <<q, queue_size, active_downloads, active_uploads>>,
             ttbl' \subseteq Addrs
      PROVE  QueueInv' /\ active_downloads' <= active_downloads
                       /\ active_uploads' <= active_uploads
  <2>1. QueueInv'
    BY <1>2, KeptStep
  <2> QED
    BY <1>2, <2>1 DEF QueueInv, Counters
<1>3. ttbl \subseteq Addrs
  BY DEF QueueInv, Counters
<1>4. CASE Lookup(tid) = {} /\ UNCHANGED lists
  BY <1>2, <1>3, <1>4 DEF lists
<1>5. ASSUME NEW a, NEW list, RemoveActive(a, list)
      PROVE  QueueInv' /\ active_downloads' <= active_downloads
                       /\ active_uploads' <= active_uploads
  <2>1. CASE QueueBroken(Claims(a))
    BY <1>2, <1>3, <1>5, <2>1 DEF RemoveActive, Crash
  <2>2. CASE ~QueueBroken(Claims(a))
    BY <1>5, <2>2, ReleaseStep DEF RemoveActive
  <2> QED
    BY <2>1, <2>2
<1>6. ASSUME NEW a \in ttbl, RemoveQueued(a)
      PROVE  QueueInv' /\ active_downloads' <= active_downloads
                       /\ active_uploads' <= active_uploads
  <2>1. CASE q # <<a>>
    BY <1>2, <1>3, <1>6, <2>1 DEF RemoveQueued, Crash
  <2>2. CASE q = <<a>>
    <3>1. q' = <<>> /\ queue_size' = 0 /\ ttbl' \subseteq Addrs
      BY <1>3, <1>6, <2>2 DEF RemoveQueued, QueueInv
    <3>2. UNCHANGED <<active_downloads, active_uploads>>
      BY <1>6, <2>2 DEF RemoveQueued
    <3> QED
      BY <3>1, <3>2 DEF QueueInv, Counters, NoIdleSlot, limits
  <2> QED
    BY <2>1, <2>2
<1>7. ASSUME NEW a, LeaveToMonitor(a) \/ RemoveLostOne(a)
      PROVE  QueueInv' /\ active_downloads' <= active_downloads
                       /\ active_uploads' <= active_uploads
  BY <1>2, <1>3, <1>7 DEF LeaveToMonitor, RemoveLostOne
<1>8. Lookup(tid) \subseteq ttbl
  BY DEF Lookup
<1> QED
  BY <1>4, <1>5, <1>6, <1>7, <1>8 DEF tfm_remove

(* The fill of the open slots after a reload or a purge. *)
LEMMA ReloadStep ==
    ASSUME QueueInv, fault = "none", Reload
    PROVE  QueueInv' /\ WithinLimit
<1>1. PICK enable \in BOOLEAN, down \in Limits, up \in Limits :
         tfm_init(enable, down, up)
  BY DEF Reload
<1>2. /\ max_downloads' = IF down >= 0 THEN down ELSE max_downloads
      /\ max_uploads' = IF up >= 0 THEN up ELSE max_uploads
  BY <1>1 DEF tfm_init
<1>3. /\ max_downloads' \in Nat \cup {-1} /\ max_uploads' \in Nat \cup {-1}
      /\ max_downloads' = -1 => max_downloads = -1
  <2>1. down \in Nat \cup {-1} /\ up \in Nat \cup {-1}
    BY TfmAssumption
  <2> QED
    BY <1>2, <2>1 DEF QueueInv, Counters
<1> DEFINE k == Openings(max_downloads', active_downloads)
<1>4. CASE QueueBroken(k)
  <2>1. Crash("use_after_free")
    BY <1>1, <1>4 DEF tfm_init
  <2>2. fault' # "none"
    BY <2>1 DEF Crash
  <2>3. /\ UNCHANGED <<q, queue_size, active_downloads, active_uploads, ttbl>>
        /\ max_downloads' = -1 => q' = <<>>
    BY <1>3, <2>1 DEF Crash, QueueInv
  <2> QED
    BY <1>3, <2>2, <2>3 DEF QueueInv, Counters, NoIdleSlot, WithinLimit
<1>5. CASE ~QueueBroken(k)
  <2>1. /\ active_downloads' = active_downloads + k
        /\ queue_size' = queue_size - k
        /\ q' = SubSeq(q, k + 1, Len(q))
        /\ UNCHANGED <<ttbl, active_uploads>>
    BY <1>1, <1>5 DEF tfm_init
  <2>2. /\ k \in 0 .. Len(q)
        /\ k > 0 => active_downloads + k <= max_downloads'
    <3>1. max_downloads' \in Int /\ active_downloads \in Int
      BY <1>3 DEF QueueInv, Counters
    <3> QED
      BY <3>1, OpeningsFill DEF QueueInv
  <2>3. Counters'
    <3>1. q' \in Seq(Addrs)
      BY <2>1, <2>2, QueueTail DEF QueueInv
    <3>2. Len(q) \in Nat
      BY DEF QueueInv, Counters
    <3>3. active_downloads' \in Int
      BY <2>1, <2>2, <3>2 DEF QueueInv, Counters
    <3> QED
      BY <1>3, <2>1, <3>1, <3>3 DEF QueueInv, Counters
  <2>4. QueueInv'
    BY <1>3, <2>1, <2>3, FillStep DEF QueueInv, Counters
  <2>5. WithinLimit
    BY <2>1, <2>2 DEF WithinLimit, QueueInv, Counters
  <2> QED
    BY <2>4, <2>5
<1> QED
  BY <1>4, <1>5

LEMMA PurgeStep ==
    ASSUME QueueInv, fault = "none", NEW u \in Uids, Purge(u)
    PROVE  QueueInv' /\ WithinLimit
<1>1. UNCHANGED limits /\ (tfm_purge_uid(u) \/ Crash("use_after_free"))
  BY DEF Purge
<1>2. CASE Crash("use_after_free")
  <2>1. ttbl' \subseteq Addrs /\ UNCHANGED <<q, queue_size, active_downloads,
                                                active_uploads, limits>>
    BY <1>1, <1>2 DEF Crash, QueueInv, Counters
  <2>2. QueueInv'
    BY <2>1, KeptStep
  <2> QED
    BY <2>1, <2>2 DEF QueueInv, Counters, WithinLimit
<1> DEFINE gone == IF Owned(u) = {} THEN {} ELSE Lookup(u)
           downs == {a \in gone : IsDownload(a) /\ ~Queued(a)}
           ups == {a \in gone : ~IsDownload(a)}
           down == active_downloads - Cardinality(downs)
           k == Openings(max_downloads, down)
<1>3. CASE /\ tfm_purge_uid(u)
           /\ ~(k > 0 /\ ~(Range(q) \subseteq Live \ gone))
  <2>1. gone \subseteq Addrs
    BY DEF Lookup, QueueInv, Counters
  <2>2. downs \subseteq Addrs /\ ups \subseteq Addrs
    BY <2>1
  <2>3. Cardinality(downs) \in Nat /\ Cardinality(ups) \in Nat
    BY <2>2, FS_Subset, FS_CardinalityType, TfmAssumption
  <2>4. /\ active_downloads' = down + k
        /\ active_uploads' = active_uploads - Cardinality(ups)
        /\ ttbl' = ttbl \ gone
        /\ queue_size' = queue_size - k
        /\ q' = SubSeq(q, k + 1, Len(q))
    BY <1>3 DEF tfm_purge_uid
  <2>5. down \in Int /\ down <= active_downloads /\ max_downloads \in Int
    BY <2>3 DEF QueueInv, Counters
  <2>6. k \in 0 .. Len(q) /\ (k > 0 => down + k <= max_downloads)
    BY <2>5, OpeningsFill DEF QueueInv
  <2>7. UNCHANGED <<max_downloads, max_uploads>>
    BY <1>1 DEF limits
  <2>8. Counters'
    <3>1. Len(q) \in Nat /\ ttbl' \subseteq Addrs
      BY <2>4 DEF QueueInv, Counters
    <3>2. q' \in Seq(Addrs)
      BY <2>4, <2>6, QueueTail DEF QueueInv
    <3>3. active_downloads' \in Int /\ active_uploads' \in Int
      <4> HIDE DEF k, down, ups
      <4>1. active_uploads \in Int /\ k \in Int
        BY <2>6, <3>1 DEF QueueInv, Counters
      <4> QED
        BY <2>3, <2>4, <2>5, <4>1
    <3> QED
      BY <2>7, <3>1, <3>2, <3>3 DEF QueueInv, Counters
  <2>9. QueueInv'
    BY <2>4, <2>5, <2>7, <2>8, FillStep
  <2>10. WithinLimit
    <3> HIDE DEF k, down, ups
    <3>1. /\ active_downloads \in Int /\ active_uploads \in Int /\ Len(q) \in Nat
          /\ k \in Nat
      BY <2>6 DEF QueueInv, Counters
    <3>2. active_downloads' > active_downloads => active_downloads' <= max_downloads'
      BY <2>4, <2>5, <2>6, <2>7, <3>1
    <3>3. ~(active_uploads' > active_uploads)
      BY <2>3, <2>4, <3>1
    <3> QED
      BY <3>2, <3>3 DEF WithinLimit
  <2> QED
    BY <2>9, <2>10
<1> QED
  BY <1>1, <1>2, <1>3 DEF tfm_purge_uid
-----------------------------------------------------------------------------
(* A download is queued only when the slots are full, and takes one only    *)
(* when they are not.                                                       *)
LEMMA AddDownloadStep ==
    ASSUME QueueInv, NEW u \in Uids, tfm_add_download(u)
    PROVE  QueueInv' /\ WithinLimit
<1> DEFINE a == CHOOSE free \in NewAddrs : TRUE
<1>1. /\ UNCHANGED <<max_downloads, max_uploads, active_uploads, fault>>
      /\ ttbl' = ttbl \cup {a} /\ a \in NewAddrs
  BY DEF tfm_add_download, limits
<1>2. a \in Addrs
  BY <1>1 DEF NewAddrs
<1>3. Len(q) \in Nat /\ active_downloads \in Int
  BY DEF QueueInv, Counters
<1>4. CASE Full
  <2>1. /\ queue_size' = queue_size + 1
        /\ q' = Append(q, a)
        /\ active_downloads' = active_downloads
    BY <1>4 DEF tfm_add_download
  <2>2. q' \in Seq(Addrs) /\ Len(q') = Len(q) + 1
    BY <1>2, <2>1 DEF QueueInv, Counters
  <2>3. Counters' /\ queue_size' = Len(q')
    BY <1>1, <1>2, <2>1, <2>2 DEF QueueInv, Counters
  <2>4. max_downloads' # -1 /\ active_downloads' >= max_downloads'
    BY <1>1, <1>4, <2>1 DEF Full
  <2>5. QueueInv'
    BY <2>3, <2>4 DEF QueueInv, NoIdleSlot
  <2> QED
    BY <1>1, <2>1, <2>5 DEF WithinLimit, QueueInv, Counters
<1>5. CASE ~Full
  <2>1. /\ UNCHANGED <<q, queue_size>>
        /\ active_downloads' = active_downloads + 1
    BY <1>5 DEF tfm_add_download
  <2>2. max_downloads # -1 => active_downloads < max_downloads
    BY <1>3, <1>5 DEF Full, QueueInv, Counters
  <2>3. Counters' /\ queue_size' = Len(q')
    <3>1. ttbl' \subseteq Addrs
      BY <1>1, <1>2 DEF QueueInv, Counters
    <3>2. active_downloads' \in Int
      BY <1>3, <2>1
    <3> QED
      BY <1>1, <2>1, <3>1, <3>2 DEF QueueInv, Counters
  <2>4. NoIdleSlot'
    BY <1>1, <1>3, <2>1 DEF QueueInv, Counters, NoIdleSlot
  <2>5. QueueInv'
    BY <1>1, <2>1, <2>3, <2>4 DEF QueueInv
  <2> QED
    BY <1>1, <1>3, <2>1, <2>2, <2>5 DEF WithinLimit, QueueInv, Counters
<1> QED
  BY <1>4, <1>5

LEMMA AddUploadStep ==
    ASSUME QueueInv, NEW u \in Uids, NEW file, tfm_add_upload(u, file)
    PROVE  QueueInv' /\ WithinLimit
<1> DEFINE a == CHOOSE free \in NewAddrs : TRUE
<1>1. /\ UNCHANGED <<max_downloads, max_uploads, active_downloads, q, queue_size>>
      /\ active_uploads' = active_uploads + 1
      /\ max_uploads = -1 \/ active_uploads < max_uploads
      /\ ttbl' = ttbl \cup {a} /\ a \in NewAddrs
  BY DEF tfm_add_upload, limits
<1>2. ttbl' \subseteq Addrs
  BY <1>1 DEF NewAddrs, QueueInv, Counters
<1> QED
  BY <1>1, <1>2 DEF QueueInv, Counters, NoIdleSlot, WithinLimit, tfm_add_upload

(* The monitor drops the first sequestered transfer, and its slot goes on. *)
LEMMA DropStep ==
    ASSUME QueueInv, Drop
    PROVE  QueueInv' /\ WithinLimit
<1> DEFINE a == Head(seq)
<1>1. fault = "none" /\ UNCHANGED limits
  BY DEF Drop, Running
<1>2. CASE a \notin Live \/ QueueBroken(Claims(a))
  <2>1. Crash("use_after_free")
    BY <1>2 DEF Drop
  <2>2. ttbl' \subseteq Addrs /\ UNCHANGED <<q, queue_size, active_downloads,
                                             active_uploads, limits>>
    BY <1>1, <2>1 DEF Crash, QueueInv, Counters
  <2>3. QueueInv'
    BY <1>1, <2>2, KeptStep
  <2> QED
    BY <2>2, <2>3 DEF QueueInv, Counters, WithinLimit
<1>3. CASE ~(a \notin Live \/ QueueBroken(Claims(a)))
  <2>1. /\ ReleaseSlot(a)
        /\ ttbl' = ttbl \ {a}
        /\ queue_size' = queue_size - Claims(a)
        /\ q' = SubSeq(q, Claims(a) + 1, Len(q))
    BY <1>3 DEF Drop
  <2>2. /\ QueueInv'
        /\ active_downloads' <= active_downloads
        /\ active_uploads' <= active_uploads
    BY <1>1, <2>1, ReleaseStep
  <2> QED
    BY <2>2 DEF QueueInv, Counters, WithinLimit
<1> QED
  BY <1>2, <1>3

(* Everything else leaves the queue, the counts and the limits alone. *)
LEMMA QuietStep ==
    ASSUME QueueInv, fault = "none",
           UNCHANGED <<q, queue_size, active_downloads, active_uploads, limits, ttbl>>
    PROVE  QueueInv' /\ WithinLimit
<1>1. QueueInv'
  BY KeptStep DEF QueueInv, Counters
<1> QED
  BY <1>1 DEF QueueInv, Counters, WithinLimit, limits
-----------------------------------------------------------------------------
LEMMA InitQueueInv == Init => QueueInv
<1> SUFFICES ASSUME Init PROVE QueueInv
  OBVIOUS
<1>1. max_downloads \in Nat \cup {-1} /\ max_uploads \in Nat \cup {-1}
  BY TfmAssumption DEF Init
<1>2. Counters /\ queue_size = Len(q) /\ q = <<>>
  BY <1>1 DEF Init, Counters
<1> QED
  BY <1>2 DEF QueueInv, NoIdleSlot

LEMMA NextQueueInv ==
    ASSUME QueueInv, [Next]_vars
    PROVE  QueueInv' /\ WithinLimit
<1>1. CASE UNCHANGED vars
  <2>1. UNCHANGED <<q, queue_size, active_downloads, active_uploads, max_downloads,
                    max_uploads, ttbl, fault>>
    BY <1>1 DEF vars, lists, limits
  <2> QED
    BY <2>1 DEF QueueInv, Counters, NoIdleSlot, WithinLimit
<1>2. ASSUME NEW u \in Uids, User(u)
      PROVE  QueueInv' /\ WithinLimit
  <2>1. CASE tfm_add_download(u)
    BY <2>1, AddDownloadStep
  <2>2. CASE \E file \in Files : tfm_add_upload(u, file)
    BY <2>2, AddUploadStep
  <2>3. CASE Purge(u)
    BY <2>3, PurgeStep DEF Purge, Running
  <2>4. CASE Cancel(u)
    BY <2>4, RemoveStep DEF Cancel, Running
  <2>5. CASE Leave(u) \/ Connect(u) \/ CheckOwner(u)
    <3>1. /\ fault = "none"
          /\ UNCHANGED <<q, queue_size, active_downloads, active_uploads, limits, ttbl>>
      BY <2>5 DEF Leave, Connect, CheckOwner, Running, lists
    <3> QED
      BY <3>1, QuietStep
  <2> QED
    BY <1>2, <2>1, <2>2, <2>3, <2>4, <2>5 DEF User
<1>3. ASSUME NEW h \in Helpers, Helper(h)
      PROVE  QueueInv' /\ WithinLimit
  <2>1. CASE Finish(h)
    BY <2>1, RemoveStep DEF Finish, Running
  <2>2. CASE DataConnect(h) \/ Receive(h) \/ Stray(h) \/ WakeEarly(h)
    <3>1. /\ fault = "none"
          /\ UNCHANGED <<q, queue_size, active_downloads, active_uploads, limits, ttbl>>
      BY <2>2 DEF DataConnect, tfm_register, Receive, Stray, WakeEarly, Running, lists
    <3> QED
      BY <3>1, QuietStep
  <2> QED
    BY <1>3, <2>1, <2>2 DEF Helper
<1>4. CASE Monitor
  <2>1. CASE MonitorStart \/ MonitorTimeout \/ SpuriousWakeup \/ Begin
    <3>1. /\ fault = "none"
          /\ UNCHANGED <<q, queue_size, active_downloads, active_uploads, limits, ttbl>>
      BY <2>1 DEF MonitorStart, MonitorTimeout, SpuriousWakeup, Begin, Crash, Running
    <3> QED
      BY <3>1, QuietStep
  <2> QED
    BY <1>4, <2>1, DropStep DEF Monitor
<1>5. CASE Reload
  BY <1>5, ReloadStep DEF Reload, Running
<1> QED
  BY <1>1, <1>2, <1>3, <1>4, <1>5 DEF Next

LEMMA Inductive == Spec => []QueueInv
BY InitQueueInv, NextQueueInv, PTL DEF Spec

(* Downloads wait in the queue only while every slot is taken, whatever     *)
(* happens to the transfers and their slots: each way a slot is vacated or  *)
(* the limit is raised fills it from the queue in the same section.         *)
THEOREM SlotsAreUsed == Spec => []NoIdleSlot
<1>1. QueueInv => NoIdleSlot
  BY DEF QueueInv
<1> QED
  BY <1>1, Inductive, PTL

(* The number of active downloads or uploads grows only below the limit in  *)
(* force, also when slots are handed on, purged or opened by a reload.      *)
THEOREM LimitIsKept == Spec => SlotsWithinLimit
<1>1. QueueInv /\ [Next]_vars => [WithinLimit]_vars
  BY NextQueueInv
<1> QED
  BY <1>1, Inductive, PTL DEF Spec, SlotsWithinLimit, WithinLimit
-----------------------------------------------------------------------------
(* The sequester list and its monitor thread. *)

SeqInv == seq \in Seq(Addrs) /\ MonitorWatches

LEMMA SequesteredIs ==
    ASSUME Counters, NEW k \in 0 .. Len(q)
    PROVE  Sequestered(k) \in Seq(Addrs) /\ (k = 0 => Sequestered(k) = <<>>)
<1> DEFINE l == Leaving(k)
           set == {a \in Range(Leaving(k)) : ~Registered(a)}
<1>1. q \in Seq(Addrs) /\ Len(q) \in Nat /\ \A i \in 1 .. Len(q) : q[i] \in Addrs
  BY DEF Counters
<1>2. \A i \in 1 .. k : q[i] \in Addrs
  BY <1>1
<1>3. SubSeq(q, 1, k) \in Seq(Addrs)
  BY <1>1, <1>2, SubSeqProperties
<1>4. k = 0 => SubSeq(q, 1, k) = <<>>
  BY <1>1, SubSeqEmpty
<1>5. l \in Seq(Addrs) /\ (k = 0 => l = <<>>)
  BY <1>3, <1>4 DEF Leaving
<1>6. Sequestered(k) = Among(l, set)
  BY DEF Sequestered
<1> HIDE DEF l, set
<1> QED
  BY <1>5, <1>6, AmongIs

(* The sequestered of those that leave the queue go behind the list that is *)
(* left, and a monitor thread comes if there is none.                       *)
LEMMA SeqFill ==
    ASSUME Counters, NEW k \in 0 .. Len(q), NEW list \in Seq(Addrs),
           (monitor = "none") <=> (list = <<>>),
           seq' = list \o Sequestered(k),
           monitor' = MonitorFor(list, Sequestered(k))
    PROVE  SeqInv'
<1> DEFINE added == Sequestered(k)
<1>1. added \in Seq(Addrs)
  BY SequesteredIs
<1>2. seq' = list \o added /\ monitor' = IF list = <<>> /\ added # <<>> THEN "starting" ELSE monitor
  BY DEF MonitorFor
<1> HIDE DEF added
<1>3. /\ list \o added \in Seq(Addrs) /\ Len(list \o added) = Len(list) + Len(added)
      /\ Len(list) \in Nat /\ Len(added) \in Nat
      /\ (Len(list) = 0 <=> list = <<>>) /\ (Len(added) = 0 <=> added = <<>>)
      /\ (Len(list \o added) = 0 <=> list \o added = <<>>)
  BY <1>1, ConcatProperties, EmptySeq, LenProperties
<1>4. list \o added = <<>> <=> list = <<>> /\ added = <<>>
  BY <1>3
<1> QED
  BY <1>2, <1>3, <1>4 DEF SeqInv, MonitorWatches

LEMMA ClaimsOne ==
    ASSUME Counters, NEW a
    PROVE  Claims(a) \in 0 .. Len(q)
<1>1. Len(q) \in Nat /\ (Len(q) = 0 <=> q = <<>>)
  BY DEF Counters
<1> QED
  BY <1>1 DEF Claims

(* What is taken out of the list is never its first. *)
LEMMA SeqRemoved ==
    ASSUME seq \in Seq(Addrs), NEW a, SearchSeq(a) < Len(seq)
    PROVE  /\ RemoveAt(seq, SearchSeq(a) + 1) \in Seq(Addrs)
           /\ RemoveAt(seq, SearchSeq(a) + 1) # <<>> /\ seq # <<>>
<1> DEFINE c == SearchSeq(a)
           n == Len(seq)
<1>1. n \in Nat /\ DOMAIN seq = 1 .. n /\ (n = 0 <=> seq = <<>>)
  OBVIOUS
<1>2. a \in Range(seq)
  BY <1>1 DEF SearchSeq
<1>3. \E i \in 1 .. n : seq[i] = a
  BY <1>1, <1>2 DEF Range
<1>4. c \in 1 .. n
  BY <1>1, <1>2, <1>3 DEF SearchSeq
<1>5. c + 1 \in 1 .. n /\ n - 1 > 0
  BY <1>1, <1>4
<1> HIDE DEF c
<1>6. RemoveAt(seq, c + 1) \in Seq(Addrs) /\ Len(RemoveAt(seq, c + 1)) = n - 1
  BY <1>5, RemoveAtIs
<1>7. RemoveAt(seq, c + 1) # <<>>
  BY <1>5, <1>6, EmptySeq
<1> QED
  BY <1>1, <1>5, <1>6, <1>7 DEF c

LEMMA SeqRemove ==
    ASSUME QueueInv, SeqInv, NEW tid, tfm_remove(tid)
    PROVE  SeqInv'
<1>1. ASSUME UNCHANGED <<seq, monitor>> PROVE SeqInv'
  BY <1>1 DEF SeqInv, MonitorWatches
<1>2. ASSUME NEW a, NEW list \in Seq(Addrs), (monitor = "none") <=> (list = <<>>),
             RemoveActive(a, list)
      PROVE  SeqInv' \/ UNCHANGED <<seq, monitor>>
  <2>1. CASE QueueBroken(Claims(a))
    BY <1>2, <2>1 DEF RemoveActive, Crash
  <2>2. CASE ~QueueBroken(Claims(a))
    <3>1. /\ seq' = list \o Sequestered(Claims(a))
          /\ monitor' = MonitorFor(list, Sequestered(Claims(a)))
      BY <1>2, <2>2 DEF RemoveActive
    <3>2. Counters /\ Claims(a) \in 0 .. Len(q)
      BY ClaimsOne DEF QueueInv
    <3> QED
      BY <1>2, <3>1, <3>2, SeqFill
  <2> QED
    BY <2>1, <2>2
<1>3. CASE Lookup(tid) = {} /\ UNCHANGED lists
  BY <1>1, <1>3 DEF lists
<1>4. ASSUME NEW a, RemoveActive(a, seq) PROVE SeqInv'
  BY <1>1, <1>2, <1>4 DEF SeqInv, MonitorWatches
<1>5. ASSUME NEW a, RemoveQueued(a) \/ LeaveToMonitor(a) \/ RemoveLostOne(a)
      PROVE  SeqInv'
  <2>1. UNCHANGED <<seq, monitor>>
    BY <1>5 DEF RemoveQueued, LeaveToMonitor, RemoveLostOne, Crash
  <2> QED
    BY <1>1, <2>1
<1>6. ASSUME NEW a, SearchSeq(a) < Len(seq),
             RemoveActive(a, RemoveAt(seq, SearchSeq(a) + 1))
      PROVE  SeqInv'
  <2>1. /\ RemoveAt(seq, SearchSeq(a) + 1) \in Seq(Addrs)
        /\ RemoveAt(seq, SearchSeq(a) + 1) # <<>> /\ monitor # "none"
    BY <1>6, SeqRemoved DEF SeqInv, MonitorWatches
  <2> QED
    BY <1>1, <1>2, <1>6, <2>1
<1> QED
  BY <1>3, <1>4, <1>5, <1>6 DEF tfm_remove

(* The monitor thread drops the first of the list or tells its thread to    *)
(* start it, and ends with the list.                                        *)
LEMMA SeqMonitor ==
    ASSUME QueueInv, SeqInv, Drop \/ Begin
    PROVE  SeqInv'
<1>1. ASSUME UNCHANGED <<seq, monitor>> PROVE SeqInv'
  BY <1>1 DEF SeqInv, MonitorWatches
<1>2. seq \in Seq(Addrs) /\ seq # <<>> /\ Counters
  BY DEF Drop, Begin, SeqInv, MonitorWatches, QueueInv
<1>3. ASSUME NEW rest \in Seq(Addrs), NEW heap, NextSequestered(rest, heap)
      PROVE  SeqInv'
  BY <1>3 DEF NextSequestered, SeqInv, MonitorWatches
<1>4. CASE Drop
  <2> DEFINE k == Claims(Head(seq))
             heap == Destroyed(MovedUp(k), Head(seq))
  <2>1. \/ UNCHANGED <<seq, monitor>>
        \/ NextSequestered(Tail(seq \o Sequestered(k)), heap)
    BY <1>4 DEF Drop, Crash
  <2>2. Sequestered(k) \in Seq(Addrs)
    BY <1>2, ClaimsOne, SequesteredIs
  <2> HIDE DEF k, heap
  <2>3. seq \o Sequestered(k) \in Seq(Addrs) /\ seq \o Sequestered(k) # <<>>
    <3>1. /\ seq \o Sequestered(k) \in Seq(Addrs)
          /\ Len(seq \o Sequestered(k)) = Len(seq) + Len(Sequestered(k))
      BY <1>2, <2>2, ConcatProperties
    <3>2. Len(seq) \in Nat /\ Len(seq) > 0 /\ Len(Sequestered(k)) \in Nat
      BY <1>2, <2>2, EmptySeq, LenProperties
    <3>3. Len(seq \o Sequestered(k)) > 0
      BY <3>1, <3>2
    <3> QED
      BY <3>1, <3>3, EmptySeq
  <2>4. Tail(seq \o Sequestered(k)) \in Seq(Addrs)
    BY <2>3, HeadTailProperties
  <2> QED
    BY <1>1, <1>3, <2>1, <2>4
<1>5. CASE Begin
  <2>1. \/ UNCHANGED <<seq, monitor>>
        \/ NextSequestered(Tail(seq), transfer)
    BY <1>5 DEF Begin, Crash
  <2>2. Tail(seq) \in Seq(Addrs)
    BY <1>2, HeadTailProperties
  <2> QED
    BY <1>1, <1>3, <2>1, <2>2
<1> QED
  BY <1>4, <1>5

(* A reload and a purge fill open slots behind the list. *)
LEMMA SeqReload ==
    ASSUME QueueInv, SeqInv, Reload
    PROVE  SeqInv'
<1>1. PICK enable \in BOOLEAN, down \in Limits, up \in Limits :
         tfm_init(enable, down, up)
  BY DEF Reload
<1> DEFINE k == Openings(max_downloads', active_downloads)
<1>2. CASE QueueBroken(k)
  BY <1>1, <1>2 DEF tfm_init, Crash, SeqInv, MonitorWatches
<1>3. CASE ~QueueBroken(k)
  <2>1. seq' = seq \o Sequestered(k) /\ monitor' = MonitorFor(seq, Sequestered(k))
    BY <1>1, <1>3 DEF tfm_init
  <2>2. max_downloads' \in Int /\ active_downloads \in Int
    <3>1. down \in Nat \cup {-1} /\ max_downloads' = IF down >= 0 THEN down ELSE max_downloads
      BY <1>1, TfmAssumption DEF tfm_init
    <3> QED
      BY <3>1 DEF QueueInv, Counters
  <2>3. k \in 0 .. Len(q)
    BY <2>2, OpeningsFill DEF QueueInv
  <2> HIDE DEF k
  <2> QED
    BY <2>1, <2>3, SeqFill DEF QueueInv, SeqInv, MonitorWatches
<1> QED
  BY <1>2, <1>3

LEMMA SeqPurge ==
    ASSUME QueueInv, SeqInv, NEW u \in Uids, Purge(u)
    PROVE  SeqInv'
<1>1. tfm_purge_uid(u) \/ Crash("use_after_free")
  BY DEF Purge
<1>2. CASE Crash("use_after_free")
  BY <1>2 DEF Crash, SeqInv, MonitorWatches
<1> DEFINE gone == IF Owned(u) = {} THEN {} ELSE Lookup(u)
           downs == {a \in gone : IsDownload(a) /\ ~Queued(a)}
           down == active_downloads - Cardinality(downs)
           k == Openings(max_downloads, down)
<1>3. CASE /\ tfm_purge_uid(u)
           /\ ~(k > 0 /\ ~(Range(q) \subseteq Live \ gone))
  <2>1. seq' = seq \o Sequestered(k) /\ monitor' = MonitorFor(seq, Sequestered(k))
    BY <1>3 DEF tfm_purge_uid
  <2>2. downs \subseteq Addrs
    BY DEF Lookup, QueueInv, Counters
  <2>3. Cardinality(downs) \in Nat
    BY <2>2, FS_Subset, FS_CardinalityType, TfmAssumption
  <2>4. down \in Int /\ max_downloads \in Int
    BY <2>3 DEF QueueInv, Counters
  <2>5. k \in 0 .. Len(q)
    BY <2>4, OpeningsFill DEF QueueInv
  <2> HIDE DEF k
  <2> QED
    BY <2>1, <2>5, SeqFill DEF QueueInv, SeqInv, MonitorWatches
<1>4. CASE /\ tfm_purge_uid(u)
           /\ k > 0 /\ ~(Range(q) \subseteq Live \ gone)
  <2>1. Crash("use_after_free")
    BY <1>4 DEF tfm_purge_uid
  <2> QED
    BY <2>1, <1>2
<1> QED
  BY <1>1, <1>2, <1>3, <1>4

(* A new transfer goes to the end of the list. *)
LEMMA SeqAppend ==
    ASSUME SeqInv, NEW a \in Addrs, seq' = Append(seq, a),
           monitor' = MonitorFor(seq, <<a>>)
    PROVE  SeqInv'
<1>1. seq' \in Seq(Addrs) /\ seq' # <<>>
  BY AppendProperties DEF SeqInv
<1>2. <<a>> # <<>>
  OBVIOUS
<1>3. monitor' # "none"
  BY <1>2 DEF MonitorFor, SeqInv, MonitorWatches
<1> QED
  BY <1>1, <1>3 DEF SeqInv, MonitorWatches

LEMMA SeqAdd ==
    ASSUME SeqInv, NEW u,
           tfm_add_download(u) \/ \E file \in Files : tfm_add_upload(u, file)
    PROVE  SeqInv'
<1> DEFINE a == CHOOSE free \in NewAddrs : TRUE
<1>1. a \in Addrs
  BY DEF tfm_add_download, tfm_add_upload, NewAddrs
<1>2. \/ UNCHANGED <<seq, monitor>>
      \/ seq' = Append(seq, a) /\ monitor' = MonitorFor(seq, <<a>>)
  BY DEF tfm_add_download, tfm_add_upload
<1> HIDE DEF a
<1> QED
  BY <1>1, <1>2, SeqAppend DEF SeqInv, MonitorWatches

LEMMA SeqRegister ==
    ASSUME SeqInv, NEW h, DataConnect(h)
    PROVE  SeqInv'
<1>1. PICK a \in ttbl : tfm_register(h, a)
  BY DEF DataConnect
<1>2. CASE UNCHANGED <<seq, monitor>>
  BY <1>2 DEF SeqInv, MonitorWatches
<1>3. CASE First(a) /\ UNCHANGED seq
           /\ monitor' = IF monitor = "waiting" THEN "signalled" ELSE monitor
  BY <1>3 DEF First, SeqInv, MonitorWatches
<1>4. CASE /\ SearchSeq(a) < Len(seq)
           /\ seq' = RemoveAt(seq, SearchSeq(a) + 1) /\ UNCHANGED monitor
  BY <1>4, SeqRemoved DEF SeqInv, MonitorWatches
<1> QED
  BY <1>1, <1>2, <1>3, <1>4 DEF tfm_register

LEMMA NextSeqInv ==
    ASSUME QueueInv, SeqInv, [Next]_vars
    PROVE  SeqInv'
<1>1. ASSUME UNCHANGED <<seq, monitor>> PROVE SeqInv'
  BY <1>1 DEF SeqInv, MonitorWatches
<1>2. CASE UNCHANGED vars
  BY <1>1, <1>2 DEF vars, lists
<1>3. ASSUME NEW u \in Uids, User(u) PROVE SeqInv'
  <2>1. CASE tfm_add_download(u) \/ \E file \in Files : tfm_add_upload(u, file)
    BY <2>1, SeqAdd
  <2>2. CASE Purge(u)
    BY <2>2, SeqPurge
  <2>3. CASE Cancel(u)
    BY <2>3, SeqRemove DEF Cancel
  <2>4. CASE Leave(u) \/ Connect(u) \/ CheckOwner(u)
    BY <1>1, <2>4 DEF Leave, Connect, CheckOwner, lists
  <2> QED
    BY <1>3, <2>1, <2>2, <2>3, <2>4 DEF User
<1>4. ASSUME NEW h \in Helpers, Helper(h) PROVE SeqInv'
  <2>1. CASE Finish(h)
    BY <2>1, SeqRemove DEF Finish
  <2>2. CASE DataConnect(h)
    BY <2>2, SeqRegister
  <2>3. CASE Receive(h) \/ Stray(h) \/ WakeEarly(h)
    BY <1>1, <2>3 DEF Receive, Stray, WakeEarly, lists
  <2> QED
    BY <1>4, <2>1, <2>2, <2>3 DEF Helper
<1>5. CASE Monitor
  <2>1. CASE MonitorStart \/ MonitorTimeout \/ SpuriousWakeup
    BY <2>1 DEF MonitorStart, MonitorTimeout, SpuriousWakeup, SeqInv, MonitorWatches
  <2> QED
    BY <1>5, <2>1, SeqMonitor DEF Monitor
<1> QED
  BY <1>2, <1>3, <1>4, <1>5, SeqReload DEF Next

(* A monitor thread exists exactly while something is sequestered, so a     *)
(* transfer is never without the thread that times it out, and two threads  *)
(* never share the list, in any environment.                                *)
THEOREM OneMonitor == Spec => []MonitorWatches
<1>1. Init => SeqInv
  BY DEF Init, SeqInv, MonitorWatches
<1>2. QueueInv /\ SeqInv /\ [Next]_vars => SeqInv'
  BY NextSeqInv
<1>3. SeqInv => MonitorWatches
  BY DEF SeqInv
<1> QED
  BY <1>1, <1>2, <1>3, Inductive, PTL DEF Spec
-----------------------------------------------------------------------------
(* The heap, the identifiers and the places in the queue. *)

HeapTypes == transfer \in [Addrs -> Transfers \cup {Freed}] /\ ttbl \subseteq Live

Ids == /\ Ordered(tfm_idm) /\ Free(tfm_idm) \subseteq 1 .. Size + 1
       /\ DistinctTids

Places == /\ \A i, j \in DOMAIN q : q[i] = q[j] => i = j
          /\ \A i \in DOMAIN q : q[i] \in Live => transfer[q[i]].position = i
          /\ \A a \in Live \ Range(q) : transfer[a].position = 0

HeapInv == HeapTypes /\ Ids /\ Places

LEMMA FreedIsNoTransfer == Freed \notin Transfers
<1> SUFFICES ASSUME Freed \in Transfers PROVE FALSE
  OBVIOUS
<1>1. Freed.tid \in 1 .. Size + 1
  BY DEF Transfers
<1>2. Freed.tid = 0
  BY DEF Freed
<1> QED
  BY <1>1, <1>2, TfmAssumption

LEMMA InQueue ==
    ASSUME Counters
    PROVE  /\ Len(q) \in Nat /\ DOMAIN q = 1 .. Len(q) /\ Range(q) \subseteq Addrs
           /\ \A a : a \in Range(q) <=> \E i \in 1 .. Len(q) : q[i] = a
BY DEF Counters, Range

(* k transfers leave the queue: every live one in it comes k places nearer, *)
(* or out of it, and nothing else about any transfer changes.               *)
LEMMA MovedUpIs ==
    ASSUME Counters, HeapInv, NEW k \in 0 .. Len(q),
           k > 0 => Range(q) \subseteq Live, NEW a \in Addrs
    PROVE  /\ MovedUp(k)[a] \in Transfers \cup {Freed}
           /\ MovedUp(k)[a] = Freed <=> a \notin Live
           /\ a \in Live => MovedUp(k)[a].tid = transfer[a].tid
           /\ \A i \in 1 .. Len(q) : q[i] = a /\ a \in Live
                => MovedUp(k)[a].position = IF k <= i THEN i - k ELSE 0
           /\ a \notin Range(q) => MovedUp(k)[a] = transfer[a]
<1>1. a \in Live <=> transfer[a] \in Transfers
  BY FreedIsNoTransfer DEF Live, HeapInv, HeapTypes
<1>2. CASE k = 0
  <2>1. MovedUp(k)[a] = transfer[a]
    BY <1>2 DEF MovedUp
  <2>2. \A i \in 1 .. Len(q) : q[i] = a /\ a \in Live => transfer[a].position = i
    BY InQueue DEF HeapInv, Places
  <2>3. /\ transfer[a] \in Transfers \cup {Freed}
        /\ transfer[a] = Freed <=> a \notin Live
    BY DEF HeapInv, HeapTypes, Live
  <2> QED
    BY <1>2, <2>1, <2>2, <2>3
<1>3. CASE k > 0 /\ a \notin Range(q)
  <2>1. MovedUp(k)[a] = transfer[a]
    BY <1>3 DEF MovedUp
  <2>2. /\ transfer[a] \in Transfers \cup {Freed}
        /\ transfer[a] = Freed <=> a \notin Live
    BY DEF HeapInv, HeapTypes, Live
  <2>3. \A i \in 1 .. Len(q) : q[i] # a
    BY <1>3, InQueue
  <2> QED
    BY <1>3, <2>1, <2>2, <2>3
<1>4. CASE k > 0 /\ a \in Range(q)
  <2>1. PICK i \in 1 .. Len(q) : q[i] = a
    BY <1>4, InQueue
  <2>2. \A j \in DOMAIN q : q[j] = a => j = i
    BY <2>1, InQueue DEF HeapInv, Places
  <2>3. (CHOOSE j \in DOMAIN q : q[j] = a) = i
    BY <2>1, <2>2, InQueue
  <2>4. a \in Live /\ transfer[a] \in Transfers /\ transfer[a].position = i
    BY <1>1, <1>4, <2>1, InQueue DEF HeapInv, Places
  <2> DEFINE less == Min({k, i})
  <2>5. less = IF k <= i THEN k ELSE i
    BY InQueue DEF Min
  <2>6. MovedUp(k)[a] = [transfer[a] EXCEPT !.position = @ - less]
    BY <1>4, <2>3 DEF MovedUp
  <2>7. i - less \in Nat /\ i - less = IF k <= i THEN i - k ELSE 0
    BY <2>5, InQueue
  <2> HIDE DEF less
  <2>8. /\ MovedUp(k)[a] \in Transfers
        /\ MovedUp(k)[a].tid = transfer[a].tid
        /\ MovedUp(k)[a].position = i - less
    BY <2>4, <2>6, <2>7 DEF Transfers
  <2> QED
    BY <1>4, <2>2, <2>4, <2>7, <2>8, FreedIsNoTransfer, InQueue
<1> QED
  BY <1>2, <1>3, <1>4

(* The identifier of a transfer that is destroyed goes back to tfm_idm, or  *)
(* is lost: it never becomes free while another transfer has it.            *)
LEMMA IdsReturned ==
    ASSUME HeapTypes, Ids, NEW a \in Live, Live' \subseteq Live \ {a},
           \A b \in Live' : transfer'[b].tid = transfer[b].tid,
           tfm_idm' = idm_return(tfm_idm, transfer[a].tid)
    PROVE  Ids'
<1> DEFINE tid == transfer[a].tid
           list == idm_return(tfm_idm, tid)
<1>1. tid \in 1 .. Size + 1 /\ tid \in Int
  <2>1. transfer[a] \in Transfers
    BY DEF Live, HeapTypes
  <2> QED
    BY <2>1, TfmAssumption DEF Transfers
<1>2. tid \notin Free(tfm_idm)
  BY DEF Ids, DistinctTids
<1>3. Back(tfm_idm, tid, list)
  BY <1>1, <1>2, ReturnList DEF Ids
<1> HIDE DEF list
<1>4. Ordered(list) /\ Free(list) \subseteq Free(tfm_idm) \cup {tid}
  BY <1>3 DEF Back
<1>5. tfm_idm' = list
  BY DEF list
<1>6. Free(list) \subseteq 1 .. Size + 1
  BY <1>1, <1>4 DEF Ids
<1>7. \A b \in Live' : transfer'[b].tid \notin Free(list)
  <2>1. SUFFICES ASSUME NEW b \in Live' PROVE transfer[b].tid \notin Free(list)
    OBVIOUS
  <2>2. b \in Live /\ b # a
    BY <2>1
  <2>3. transfer[b].tid \notin Free(tfm_idm) /\ transfer[b].tid # tid
    BY <2>2 DEF Ids, DistinctTids
  <2> QED
    BY <1>4, <2>3
<1>8. \A b, c \in Live' : b # c => transfer'[b].tid # transfer'[c].tid
  BY DEF Ids, DistinctTids
<1>9. Ordered(tfm_idm)' /\ Free(tfm_idm)' \subseteq 1 .. Size + 1
  BY <1>4, <1>5, <1>6 DEF Ordered, Free
<1>10. DistinctTids'
  BY <1>5, <1>7, <1>8 DEF DistinctTids, Free
<1> QED
  BY <1>9, <1>10 DEF Ids

LEMMA IdsKept ==
    ASSUME Ids, Live' \subseteq Live, UNCHANGED tfm_idm,
           \A b \in Live' : transfer'[b].tid = transfer[b].tid
    PROVE  Ids'
<1>1. Ordered(tfm_idm)' /\ Free(tfm_idm)' = Free(tfm_idm)
  BY DEF Ids, Ordered, Free
<1>2. \A b, c \in Live' : /\ transfer'[b].tid \notin Free(tfm_idm)
                          /\ b # c => transfer'[b].tid # transfer'[c].tid
  BY DEF Ids, DistinctTids
<1> QED
  BY <1>1, <1>2 DEF Ids, DistinctTids, Free

(* k transfers leave the queue, and those in gone are destroyed. *)
LEMMA PlacesLeft ==
    ASSUME Counters, HeapInv, NEW k \in 0 .. Len(q),
           k > 0 => Range(q) \subseteq Live,
           NEW gone \in SUBSET Live,
           transfer' = [a \in Addrs |-> IF a \in gone THEN Freed ELSE MovedUp(k)[a]],
           q' = SubSeq(q, k + 1, Len(q)), ttbl' \subseteq ttbl \ gone
    PROVE  /\ HeapTypes' /\ Places' /\ Live' = Live \ gone
           /\ \A b \in Live' : transfer'[b].tid = transfer[b].tid
<1>1. \A a \in Addrs : transfer'[a] = IF a \in gone THEN Freed ELSE MovedUp(k)[a]
  OBVIOUS
<1>2. \A a \in Addrs : transfer'[a] = Freed <=> a \notin Live \ gone
  BY <1>1, MovedUpIs
<1>3. Live' = Live \ gone /\ Live \subseteq Addrs
  BY <1>2 DEF Live
<1>4. HeapTypes'
  <2>1. \A a \in Addrs : transfer'[a] \in Transfers \cup {Freed}
    BY <1>1, MovedUpIs
  <2>2. ttbl' \subseteq Live'
    BY <1>3 DEF HeapInv, HeapTypes
  <2> QED
    BY <2>1, <2>2 DEF HeapTypes
<1>5. \A b \in Live' : b \in Addrs /\ b \in Live /\ transfer'[b] = MovedUp(k)[b]
  BY <1>1, <1>3
<1>6. \A b \in Live' : transfer'[b].tid = transfer[b].tid
  BY <1>5, MovedUpIs
<1>7. /\ Len(q) \in Nat /\ q' \in Seq(Addrs) /\ Len(q') = Len(q) - k
      /\ DOMAIN q' = 1 .. Len(q) - k
      /\ \A i \in 1 .. Len(q) - k : q'[i] = q[i + k]
  <2>1. Len(q) \in Nat /\ \A i \in k + 1 .. Len(q) : q[i] \in Addrs
    BY InQueue DEF Counters
  <2>2. /\ SubSeq(q, k + 1, Len(q)) \in Seq(Addrs)
        /\ Len(SubSeq(q, k + 1, Len(q))) = Len(q) - k
    BY QueueTail
  <2>3. \A i \in 1 .. Len(q) - k : SubSeq(q, k + 1, Len(q))[i] = q[k + 1 + i - 1]
    BY <2>1, <2>2, SubSeqProperties
  <2>4. \A i \in 1 .. Len(q) - k : k + 1 + i - 1 = i + k
    BY <2>1
  <2>5. \A i \in 1 .. Len(q) - k : q'[i] = q[i + k]
    BY <2>3, <2>4
  <2> QED
    BY <2>1, <2>2, <2>5, LenProperties
<1>8. \A i, j \in DOMAIN q' : q'[i] = q'[j] => i = j
  <2> SUFFICES ASSUME NEW i \in DOMAIN q', NEW j \in DOMAIN q', q'[i] = q'[j]
               PROVE  i = j
    OBVIOUS
  <2>1. /\ i \in 1 .. Len(q) - k /\ j \in 1 .. Len(q) - k
        /\ q[i + k] = q[j + k]
    <3>1. i \in 1 .. Len(q) - k /\ j \in 1 .. Len(q) - k
      BY <1>7
    <3>2. q'[i] = q[i + k] /\ q'[j] = q[j + k]
      BY <1>7, <3>1
    <3> QED
      BY <3>1, <3>2
  <2> DEFINE n == Len(q)
  <2>2. i + k \in DOMAIN q /\ j + k \in DOMAIN q
    <3>1. n \in Nat /\ DOMAIN q = 1 .. n /\ i \in 1 .. n - k /\ j \in 1 .. n - k
          /\ k \in 0 .. n
      BY <2>1, InQueue
    <3> HIDE DEF n
    <3>2. i + k \in 1 .. n /\ j + k \in 1 .. n
      BY <3>1
    <3> QED
      BY <3>1, <3>2
  <2>3. i + k = j + k
    BY <2>1, <2>2 DEF HeapInv, Places
  <2> QED
    BY <2>3
<1>9. \A i \in DOMAIN q' : q'[i] \in Live' => transfer'[q'[i]].position = i
  <2>1. SUFFICES ASSUME NEW i \in 1 .. Len(q) - k, q[i + k] \in Live'
                 PROVE  transfer'[q[i + k]].position = i
    BY <1>7
  <2>2. i + k \in 1 .. Len(q) /\ k <= i + k /\ i + k - k = i
    BY <1>7
  <2>3. MovedUp(k)[q[i + k]].position = i + k - k
    <3> DEFINE b == q[i + k]
               j == i + k
    <3>1. b \in Addrs /\ b \in Live /\ j \in 1 .. Len(q) /\ q[j] = b /\ k <= j
      BY <1>5, <2>1, <2>2
    <3> HIDE DEF b, j
    <3>2. MovedUp(k)[b].position = j - k
      BY <3>1, MovedUpIs
    <3> QED
      BY <3>2 DEF b, j
  <2> QED
    BY <1>5, <2>1, <2>2, <2>3
<1>10. \A a \in Live' \ Range(q)' : transfer'[a].position = 0
  <2>1. SUFFICES ASSUME NEW a \in Live', a \notin Range(q)'
                 PROVE  MovedUp(k)[a].position = 0
    BY <1>5
  <2>2. \A i \in 1 .. Len(q) - k : q[i + k] # a
    BY <1>7, <2>1 DEF Range
  <2>3. CASE a \notin Range(q)
    BY <1>5, <2>1, <2>3, MovedUpIs DEF HeapInv, Places
  <2>4. CASE a \in Range(q)
    <3>1. PICK i \in 1 .. Len(q) : q[i] = a
      BY <2>4, InQueue
    <3>2. CASE i > k
      <4>1. i - k \in 1 .. Len(q) - k /\ i - k + k = i
        BY <1>7, <3>2
      <4> QED
        BY <2>2, <3>1, <4>1
    <3>3. CASE ~(i > k)
      <4>1. MovedUp(k)[a].position = IF k <= i THEN i - k ELSE 0
        BY <1>5, <2>1, <3>1, MovedUpIs
      <4> QED
        BY <1>7, <3>3, <4>1
    <3> QED
      BY <3>2, <3>3
  <2> QED
    BY <2>3, <2>4
<1> QED
  BY <1>3, <1>4, <1>6, <1>8, <1>9, <1>10 DEF Places

LEMMA HeapKept ==
    ASSUME HeapInv, UNCHANGED <<transfer, q, tfm_idm>>, ttbl' \subseteq ttbl
    PROVE  HeapInv' /\ Live' \subseteq Live
<1>1. Live' = Live
  BY DEF Live
<1>2. Ids'
  BY <1>1, IdsKept DEF HeapInv
<1>3. Places'
  BY <1>1 DEF HeapInv, Places, Range
<1> QED
  BY <1>1, <1>2, <1>3 DEF HeapInv, HeapTypes

(* k transfers leave the queue, and nobody or one transfer is destroyed. *)
LEMMA HeapFill ==
    ASSUME QueueInv, HeapInv, NEW k \in 0 .. Len(q), k > 0 => Range(q) \subseteq Live,
           transfer' = MovedUp(k), q' = SubSeq(q, k + 1, Len(q)),
           ttbl' \subseteq ttbl, UNCHANGED tfm_idm
    PROVE  HeapInv' /\ Live' \subseteq Live
<1> DEFINE gone == {}
<1>1. gone \in SUBSET Live /\ ttbl' \subseteq ttbl \ gone
  OBVIOUS
<1>2. transfer' = [a \in Addrs |-> IF a \in gone THEN Freed ELSE MovedUp(k)[a]]
  BY DEF MovedUp
<1>3. Counters
  BY DEF QueueInv
<1> HIDE DEF gone
<1>4. /\ HeapTypes' /\ Places' /\ Live' = Live \ gone
      /\ \A b \in Live' : transfer'[b].tid = transfer[b].tid
  BY <1>1, <1>2, <1>3, PlacesLeft
<1>5. Live' \subseteq Live
  BY <1>4
<1>6. Ids'
  BY <1>4, <1>5, IdsKept DEF HeapInv
<1> QED
  BY <1>4, <1>5, <1>6 DEF HeapInv

LEMMA HeapFreed ==
    ASSUME QueueInv, HeapInv, NEW k \in 0 .. Len(q), k > 0 => Range(q) \subseteq Live,
           NEW a \in Live,
           transfer' = [b \in Addrs |-> IF b \in {a} THEN Freed ELSE MovedUp(k)[b]],
           q' = SubSeq(q, k + 1, Len(q)), ttbl' \subseteq ttbl \ {a},
           tfm_idm' = idm_return(tfm_idm, transfer[a].tid)
    PROVE  HeapInv' /\ Live' \subseteq Live
<1> DEFINE gone == {a}
<1>1. gone \in SUBSET Live /\ ttbl' \subseteq ttbl \ gone
  OBVIOUS
<1>2. transfer' = [b \in Addrs |-> IF b \in gone THEN Freed ELSE MovedUp(k)[b]]
  OBVIOUS
<1>3. Counters
  BY DEF QueueInv
<1>4. gone = {a}
  OBVIOUS
<1> HIDE DEF gone
<1>5. /\ HeapTypes' /\ Places' /\ Live' = Live \ gone
      /\ \A b \in Live' : transfer'[b].tid = transfer[b].tid
  BY <1>1, <1>2, <1>3, PlacesLeft
<1>6. Live' \subseteq Live \ {a}
  BY <1>4, <1>5
<1>7. Ids'
  BY <1>5, <1>6, IdsReturned DEF HeapInv
<1> QED
  BY <1>5, <1>6, <1>7 DEF HeapInv

LEMMA HeapDestroyed ==
    ASSUME QueueInv, HeapInv, NEW k \in 0 .. Len(q), k > 0 => Range(q) \subseteq Live,
           NEW a \in Live,
           transfer' = Destroyed(MovedUp(k), a),
           q' = SubSeq(q, k + 1, Len(q)), ttbl' \subseteq ttbl \ {a},
           tfm_idm' = idm_return(tfm_idm, transfer[a].tid)
    PROVE  HeapInv' /\ Live' \subseteq Live
<1>1. MovedUp(k) = [b \in Addrs |-> MovedUp(k)[b]]
  BY DEF MovedUp
<1> DEFINE m == MovedUp(k)
<1> HIDE DEF m
<1>2. Destroyed(m, a) = [b \in Addrs |-> IF b \in {a} THEN Freed ELSE m[b]]
  <2>1. m = [b \in Addrs |-> m[b]]
    BY <1>1 DEF m
  <2> QED
    BY <2>1 DEF Destroyed
<1>3. transfer' = [b \in Addrs |-> IF b \in {a} THEN Freed ELSE MovedUp(k)[b]]
  BY <1>2 DEF m
<1> QED
  BY <1>3, HeapFreed

(* The ways tfm_remove may end. *)
LEMMA HeapRemove ==
    ASSUME QueueInv, HeapInv, NEW tid, tfm_remove(tid)
    PROVE  HeapInv' /\ Live' \subseteq Live
<1>1. Lookup(tid) \subseteq ttbl /\ ttbl \subseteq Live
  BY DEF Lookup, HeapInv, HeapTypes
<1>2. Counters
  BY DEF QueueInv
<1>3. CASE UNCHANGED <<transfer, ttbl, q, tfm_idm>>
  BY <1>3, HeapKept
<1>4. ASSUME NEW a \in Live, NEW list, RemoveActive(a, list)
      PROVE  HeapInv' /\ Live' \subseteq Live
  <2>1. CASE QueueBroken(Claims(a))
    BY <1>3, <1>4, <2>1 DEF RemoveActive, Crash
  <2>2. CASE ~QueueBroken(Claims(a))
    <3>1. /\ transfer' = Destroyed(MovedUp(Claims(a)), a)
          /\ q' = SubSeq(q, Claims(a) + 1, Len(q)) /\ ttbl' \subseteq ttbl \ {a}
          /\ tfm_idm' = idm_return(tfm_idm, transfer[a].tid)
      BY <1>4, <2>2 DEF RemoveActive
    <3>2. Claims(a) > 0 => Range(q) \subseteq Live
      BY <2>2 DEF QueueBroken
    <3> QED
      BY <1>2, <3>1, <3>2, ClaimsOne, HeapDestroyed
  <2> QED
    BY <2>1, <2>2
<1>5. ASSUME NEW a \in Live, RemoveQueued(a), q = <<a>>
      PROVE  HeapInv' /\ Live' \subseteq Live
  <2>1. /\ transfer' = Destroyed(transfer, a) /\ q' = <<>> /\ ttbl' \subseteq ttbl \ {a}
        /\ tfm_idm' = idm_return(tfm_idm, transfer[a].tid)
    BY <1>5 DEF RemoveQueued
  <2>2. Len(q) = 1 /\ Range(q) = {a}
    BY <1>5 DEF Range
  <2>3. 1 \in 0 .. Len(q) /\ SubSeq(q, 1 + 1, Len(q)) = <<>>
    BY <1>2, <2>2, QueueTail
  <2>4. \A b \in Addrs : b # a => MovedUp(1)[b] = transfer[b]
    BY <2>2 DEF MovedUp
  <2>5. transfer = [b \in Addrs |-> transfer[b]]
    BY DEF HeapInv, HeapTypes
  <2>6. transfer' = [b \in Addrs |-> IF b \in {a} THEN Freed ELSE transfer[b]]
    BY <2>1, <2>5 DEF Destroyed
  <2>7. transfer' = [b \in Addrs |-> IF b \in {a} THEN Freed ELSE MovedUp(1)[b]]
    BY <2>4, <2>6
  <2>8. Range(q) \subseteq Live
    BY <2>2
  <2> QED
    BY <2>1, <2>3, <2>7, <2>8, HeapFreed
<1>6. ASSUME NEW a \in Live, RemoveLostOne(a)
      PROVE  HeapInv' /\ Live' \subseteq Live
  <2>1. /\ transfer' = Destroyed(transfer, a) /\ q' = q /\ ttbl' \subseteq ttbl \ {a}
        /\ tfm_idm' = idm_return(tfm_idm, transfer[a].tid)
    BY <1>6 DEF RemoveLostOne
  <2>2. 0 \in 0 .. Len(q) /\ SubSeq(q, 0 + 1, Len(q)) = q
    <3>1. 0 \in 0 .. Len(q)
      BY <1>2, InQueue
    <3>2. \A k \in 0 .. Len(q) : k = 0 => SubSeq(q, k + 1, Len(q)) = q
      BY <1>2, QueueTail
    <3> QED
      BY <3>1, <3>2
  <2>3. MovedUp(0) = transfer
    BY DEF MovedUp, HeapInv, HeapTypes
  <2> QED
    BY <2>1, <2>2, <2>3, HeapDestroyed
<1>7. ASSUME NEW a \in Live, RemoveQueued(a) \/ LeaveToMonitor(a)
      PROVE  HeapInv' /\ Live' \subseteq Live
  <2>1. CASE RemoveQueued(a) /\ q # <<a>>
    BY <1>3, <2>1 DEF RemoveQueued, Crash
  <2>2. CASE LeaveToMonitor(a)
    BY <2>2, HeapKept DEF LeaveToMonitor
  <2> QED
    BY <1>5, <1>7, <2>1, <2>2
<1> QED
  BY <1>1, <1>3, <1>4, <1>6, <1>7 DEF tfm_remove, lists

LEMMA HeapReload ==
    ASSUME QueueInv, HeapInv, Reload
    PROVE  HeapInv' /\ Live' \subseteq Live
<1>1. PICK enable \in BOOLEAN, down \in Limits, up \in Limits :
         tfm_init(enable, down, up)
  BY DEF Reload
<1> DEFINE k == Openings(max_downloads', active_downloads)
<1>2. CASE QueueBroken(k)
  BY <1>1, <1>2, HeapKept DEF tfm_init, Crash
<1>3. CASE ~QueueBroken(k)
  <2>1. /\ transfer' = MovedUp(k) /\ q' = SubSeq(q, k + 1, Len(q))
        /\ UNCHANGED <<ttbl, tfm_idm>> /\ (k > 0 => Range(q) \subseteq Live)
    BY <1>1, <1>3 DEF tfm_init, QueueBroken
  <2>2. max_downloads' \in Int /\ active_downloads \in Int
    <3>1. down \in Nat \cup {-1} /\ max_downloads' = IF down >= 0 THEN down ELSE max_downloads
      BY <1>1, TfmAssumption DEF tfm_init
    <3> QED
      BY <3>1 DEF QueueInv, Counters
  <2>3. k \in 0 .. Len(q)
    BY <2>2, OpeningsFill DEF QueueInv
  <2> HIDE DEF k
  <2> QED
    BY <2>1, <2>3, HeapFill
<1> QED
  BY <1>2, <1>3

(* A purge destroys at most one transfer: identifiers are distinct. *)
LEMMA HeapPurge ==
    ASSUME QueueInv, HeapInv, NEW u \in Uids, Purge(u)
    PROVE  HeapInv' /\ Live' \subseteq Live
<1>1. tfm_purge_uid(u) \/ Crash("use_after_free")
  BY DEF Purge
<1>2. CASE Crash("use_after_free")
  BY <1>2, HeapKept DEF Crash
<1> DEFINE gone == IF Owned(u) = {} THEN {} ELSE Lookup(u)
           downs == {a \in gone : IsDownload(a) /\ ~Queued(a)}
           down == active_downloads - Cardinality(downs)
           k == Openings(max_downloads, down)
<1>3. CASE /\ tfm_purge_uid(u)
           /\ ~(k > 0 /\ ~(Range(q) \subseteq Live \ gone))
  <2>1. /\ transfer' = [a \in Addrs |-> IF a \in gone THEN Freed ELSE MovedUp(k)[a]]
        /\ q' = SubSeq(q, k + 1, Len(q)) /\ ttbl' = ttbl \ gone
        /\ tfm_idm' = IF gone = {} THEN tfm_idm ELSE idm_return(tfm_idm, u)
        /\ k > 0 => Range(q) \subseteq Live
    BY <1>3 DEF tfm_purge_uid
  <2>2. downs \subseteq Addrs
    BY DEF Lookup, QueueInv, Counters
  <2>3. Cardinality(downs) \in Nat
    BY <2>2, FS_Subset, FS_CardinalityType, TfmAssumption
  <2>4. down \in Int /\ max_downloads \in Int
    BY <2>3 DEF QueueInv, Counters
  <2>5. k \in 0 .. Len(q)
    BY <2>4, OpeningsFill DEF QueueInv
  <2>6. gone \subseteq ttbl /\ gone \subseteq Live /\ \A a \in gone : transfer[a].tid = u
    BY DEF Lookup, HeapInv, HeapTypes
  <2>7. \A a, b \in gone : a = b
    BY <2>6 DEF HeapInv, Ids, DistinctTids
  <2> HIDE DEF k, gone
  <2>8. CASE gone = {}
    <3>1. transfer' = [a \in Addrs |-> MovedUp(k)[a]]
      BY <2>1, <2>8
    <3>2. transfer' = MovedUp(k) /\ ttbl' \subseteq ttbl /\ UNCHANGED tfm_idm
      BY <2>1, <2>8, <3>1 DEF MovedUp
    <3> QED
      BY <2>1, <2>5, <3>2, HeapFill
  <2>9. CASE gone # {}
    <3>1. PICK a \in gone : TRUE
      BY <2>9
    <3>2. gone = {a} /\ a \in Live /\ transfer[a].tid = u
      BY <2>6, <2>7, <3>1
    <3>3. /\ transfer' = [b \in Addrs |-> IF b \in {a} THEN Freed ELSE MovedUp(k)[b]]
          /\ ttbl' \subseteq ttbl \ {a} /\ tfm_idm' = idm_return(tfm_idm, transfer[a].tid)
      BY <2>1, <2>9, <3>2
    <3> QED
      BY <2>1, <2>5, <3>2, <3>3, HeapFreed
  <2> QED
    BY <2>8, <2>9
<1>4. CASE /\ tfm_purge_uid(u)
           /\ k > 0 /\ ~(Range(q) \subseteq Live \ gone)
  <2>1. Crash("use_after_free")
    BY <1>4 DEF tfm_purge_uid
  <2> QED
    BY <2>1, <1>2
<1> QED
  BY <1>1, <1>2, <1>3, <1>4

(* The monitor thread drops the first of its list, or has it started. *)
LEMMA HeapMonitor ==
    ASSUME QueueInv, HeapInv, Drop \/ Begin
    PROVE  HeapInv' /\ Live' \subseteq Live
<1>1. CASE UNCHANGED <<transfer, ttbl, q, tfm_idm>>
  BY <1>1, HeapKept
<1>2. CASE Begin
  <2>1. UNCHANGED <<transfer, ttbl, q, tfm_idm>>
    BY <1>2 DEF Begin, Crash, NextSequestered
  <2> QED
    BY <1>1, <2>1
<1> DEFINE a == Head(seq)
<1>3. CASE Drop /\ (a \notin Live \/ QueueBroken(Claims(a)))
  <2>1. UNCHANGED <<transfer, ttbl, q, tfm_idm>>
    BY <1>3 DEF Drop, Crash
  <2> QED
    BY <1>1, <2>1
<1>4. CASE Drop /\ ~(a \notin Live \/ QueueBroken(Claims(a)))
  <2>1. /\ ttbl' = ttbl \ {a} /\ q' = SubSeq(q, Claims(a) + 1, Len(q))
        /\ tfm_idm' = idm_return(tfm_idm, transfer[a].tid)
        /\ transfer' = Destroyed(MovedUp(Claims(a)), a)
    BY <1>4 DEF Drop, NextSequestered
  <2>2. Claims(a) \in 0 .. Len(q) /\ a \in Live
        /\ (Claims(a) > 0 => Range(q) \subseteq Live)
    BY <1>4, ClaimsOne DEF QueueInv, QueueBroken
  <2> HIDE DEF a
  <2> QED
    BY <2>1, <2>2, HeapDestroyed
<1> QED
  BY <1>2, <1>3, <1>4

(* tfm_register sets the thread of a transfer and nothing else of it. *)
LEMMA HeapRegister ==
    ASSUME HeapInv, NEW h \in Helpers, DataConnect(h)
    PROVE  HeapInv' /\ Live' \subseteq Live
<1>1. PICK a \in ttbl : tfm_register(h, a)
  BY DEF DataConnect
<1>2. /\ transfer' = [transfer EXCEPT ![a].thread = h]
      /\ UNCHANGED <<ttbl, q, tfm_idm>>
  BY <1>1 DEF tfm_register
<1>3. a \in Addrs /\ a \in Live /\ transfer[a] \in Transfers
  BY DEF HeapInv, HeapTypes, Live
<1>4. /\ transfer'[a] = [transfer[a] EXCEPT !.thread = h]
      /\ \A b \in Addrs : b # a => transfer'[b] = transfer[b]
      /\ transfer' = [b \in Addrs |-> transfer'[b]]
  BY <1>2, <1>3 DEF HeapInv, HeapTypes
<1>5. /\ transfer'[a] \in Transfers
      /\ transfer'[a].tid = transfer[a].tid /\ transfer'[a].position = transfer[a].position
  BY <1>3, <1>4 DEF Transfers
<1>6. /\ \A b \in Addrs : transfer'[b] = Freed <=> transfer[b] = Freed
      /\ \A b \in Addrs : transfer'[b] \in Transfers \cup {Freed}
      /\ \A b \in Addrs : b \in Live => /\ transfer'[b].tid = transfer[b].tid
                                        /\ transfer'[b].position = transfer[b].position
  BY <1>3, <1>4, <1>5, FreedIsNoTransfer DEF HeapInv, HeapTypes
<1>7. Live' = Live /\ Live \subseteq Addrs
  BY <1>6 DEF Live
<1>8. HeapTypes'
  <2>1. transfer' \in [Addrs -> Transfers \cup {Freed}]
    BY <1>4, <1>6
  <2> QED
    BY <1>2, <1>7, <2>1 DEF HeapInv, HeapTypes
<1>9. Ids'
  BY <1>2, <1>6, <1>7, IdsKept DEF HeapInv
<1>10. Places'
  BY <1>2, <1>6, <1>7 DEF HeapInv, Places, Range
<1> QED
  BY <1>7, <1>8, <1>9, <1>10 DEF HeapInv

(* A transfer that is added gets an identifier nobody has, and its place.   *)
LEMMA NewTransferIs ==
    ASSUME HeapInv, tfm_idm # <<>>, NEW u \in Uids, NEW type \in {"download", "upload"},
           NEW file \in Files \cup {NoFile}, NEW position \in Nat
    PROVE  LET new == NewTransfer(u, type, file, position) IN
           /\ new \in Transfers /\ new.tid = idm_index(tfm_idm)
           /\ new.type = type /\ new.position = position
<1> DEFINE tid == idm_index(tfm_idm)
           new == NewTransfer(u, type, file, position)
<1>1. tid \in 1 .. Size + 1
  BY GetList DEF HeapInv, Ids
<1> HIDE DEF tid
<1>2. new = [tid |-> tid, uid |-> u, type |-> type, file |-> file,
             position |-> position, thread |-> NoHelper]
  BY DEF NewTransfer, tid
<1>3. new \in Transfers
  BY <1>1, <1>2 DEF Transfers
<1> QED
  BY <1>2, <1>3 DEF tid

LEMMA HeapNew ==
    ASSUME QueueInv, HeapInv, tfm_idm # <<>>, NEW a \in NewAddrs,
           NEW new \in Transfers, new.tid = idm_index(tfm_idm),
           transfer' = [transfer EXCEPT ![a] = new],
           tfm_idm' = idm_get(tfm_idm), ttbl' = ttbl \cup {a},
           \/ q' = q /\ new.position = 0
           \/ q' = Append(q, a) /\ new.position = Len(q) + 1
    PROVE  HeapInv' /\ Live' = Live \cup {a} /\ transfer'[a] = new
<1> DEFINE tid == idm_index(tfm_idm)
<1>1. /\ tid \in Free(tfm_idm) /\ Ordered(idm_get(tfm_idm))
      /\ Free(idm_get(tfm_idm)) = Free(tfm_idm) \ {tid}
  BY GetList DEF HeapInv, Ids
<1>2. new # Freed /\ new.tid = tid
  BY FreedIsNoTransfer
<1>3. a \in Addrs /\ a \notin Live /\ a \notin Range(q)
  BY DEF NewAddrs
<1>4. /\ transfer' = [b \in Addrs |-> IF b = a THEN new ELSE transfer[b]]
      /\ transfer'[a] = new
      /\ \A b \in Addrs : b # a => transfer'[b] = transfer[b]
  BY <1>3 DEF HeapInv, HeapTypes
<1>5. Live' = Live \cup {a} /\ Live \subseteq Addrs
  BY <1>2, <1>3, <1>4 DEF Live
<1>6. HeapTypes'
  BY <1>2, <1>4, <1>5 DEF HeapInv, HeapTypes
<1>7. Ids'
  <2> DEFINE list == idm_get(tfm_idm)
  <2> HIDE DEF tid, list
  <2>1. /\ tid \in Free(tfm_idm) /\ Ordered(list) /\ Free(list) = Free(tfm_idm) \ {tid}
        /\ tfm_idm' = list
    BY <1>1 DEF list, tid
  <2>2. \A b \in Live : b \in Addrs /\ b # a /\ transfer'[b] = transfer[b]
    BY <1>3, <1>4, <1>5
  <2>3. \A b \in Live : transfer[b].tid \notin Free(tfm_idm)
    BY DEF HeapInv, Ids, DistinctTids
  <2>4. /\ \A b \in Live' : transfer'[b].tid \notin Free(list)
        /\ \A b, c \in Live' : b # c => transfer'[b].tid # transfer'[c].tid
    <3>1. \A b \in Live : transfer'[b].tid \notin Free(list) /\ transfer'[b].tid # tid
      BY <2>1, <2>2, <2>3
    <3>2. transfer'[a].tid = tid /\ tid \notin Free(list)
      BY <1>2, <1>4, <2>1
    <3>3. \A b, c \in Live : b # c => transfer'[b].tid # transfer'[c].tid
      BY <2>2 DEF HeapInv, Ids, DistinctTids
    <3> QED
      BY <1>5, <3>1, <3>2, <3>3
  <2>5. DistinctTids'
    BY <2>1, <2>4 DEF DistinctTids, Free
  <2>6. Ordered(tfm_idm)' /\ Free(tfm_idm)' \subseteq 1 .. Size + 1
    BY <2>1 DEF Ordered, Free, HeapInv, Ids
  <2> QED
    BY <2>5, <2>6 DEF Ids
<1>8. \A b \in Live : b \in Addrs /\ b # a /\ transfer'[b] = transfer[b]
  BY <1>3, <1>4, <1>5
<1>9. CASE q' = q /\ new.position = 0
  <2>1. \A b \in Live' \ Range(q)' : b = a \/ b \in Live \ Range(q)
    BY <1>5, <1>9 DEF Range
  <2>2. \A b \in Live' \ Range(q)' : transfer'[b].position = 0
    BY <1>2, <1>4, <1>8, <1>9, <2>1 DEF HeapInv, Places
  <2>3. \A i \in DOMAIN q : q[i] # a
    BY <1>3, InQueue DEF QueueInv
  <2>4. \A i \in DOMAIN q : q[i] \in Live' => transfer'[q[i]].position = i
    BY <1>5, <1>8, <2>3 DEF HeapInv, Places
  <2> QED
    BY <1>4, <1>5, <1>6, <1>7, <1>9, <2>2, <2>4 DEF HeapInv, Places
<1>10. CASE q' = Append(q, a) /\ new.position = Len(q) + 1
  <2> DEFINE n == Len(q)
  <2>1. /\ n \in Nat /\ DOMAIN q = 1 .. n /\ DOMAIN q' = 1 .. n + 1
        /\ q'[n + 1] = a /\ \A i \in 1 .. n : q'[i] = q[i] /\ q[i] # a
    <3>1. \A i \in 1 .. n : q[i] # a
      BY <1>3, InQueue DEF QueueInv
    <3> QED
      BY <1>10, <3>1, AppendProperties, LenProperties DEF QueueInv, Counters
  <2>2. new.position = n + 1
    BY <1>10
  <2> HIDE DEF n
  <2>3. \A i \in DOMAIN q' : i = n + 1 \/ (i \in DOMAIN q /\ q'[i] = q[i] /\ q[i] # a)
    <3>1. n \in Nat
      BY <2>1
    <3>2. \A i \in 1 .. n + 1 : i = n + 1 \/ i \in 1 .. n
      BY <3>1
    <3> QED
      BY <2>1, <3>2, Zenon
  <2>4. n + 1 \in DOMAIN q' /\ \A i \in DOMAIN q : i \in DOMAIN q'
    <3>1. n \in Nat
      BY <2>1
    <3>2. n + 1 \in 1 .. n + 1
      BY <3>1
    <3>3. \A i \in 1 .. n : i \in 1 .. n + 1
      BY <3>1
    <3> QED
      BY <2>1, <3>2, <3>3, Zenon
  <2>5. \A i, j \in DOMAIN q' : q'[i] = q'[j] => i = j
    BY <2>1, <2>3 DEF HeapInv, Places
  <2>6. \A i \in DOMAIN q' : q'[i] \in Live' => transfer'[q'[i]].position = i
    BY <1>2, <1>4, <1>5, <1>8, <2>1, <2>2, <2>3 DEF HeapInv, Places
  <2>7. \A b \in Live' \ Range(q)' : b # a /\ b \in Live \ Range(q)
    BY <1>5, <2>1, <2>3, <2>4 DEF Range
  <2>8. \A b \in Live' \ Range(q)' : transfer'[b].position = 0
    BY <1>8, <2>7 DEF HeapInv, Places
  <2> QED
    BY <1>4, <1>5, <1>6, <1>7, <2>5, <2>6, <2>8 DEF HeapInv, Places
<1> QED
  BY <1>4, <1>5, <1>6, <1>7, <1>9, <1>10 DEF HeapInv

LEMMA HeapAddUpload ==
    ASSUME QueueInv, HeapInv, NEW u \in Uids, NEW file \in Files, tfm_add_upload(u, file)
    PROVE  HeapInv' /\ ArrivesBehind
<1> DEFINE a == CHOOSE free \in NewAddrs : TRUE
<1>1. /\ transfer' = [transfer EXCEPT ![a] = NewTransfer(u, "upload", file, 0)]
      /\ tfm_idm # <<>> /\ a \in NewAddrs
      /\ tfm_idm' = idm_get(tfm_idm) /\ ttbl' = ttbl \cup {a} /\ q' = q
  BY DEF tfm_add_upload
<1> DEFINE new == NewTransfer(u, "upload", file, 0)
<1>2. new \in Transfers /\ new.tid = idm_index(tfm_idm)
      /\ new.type = "upload" /\ new.position = 0
  BY <1>1, NewTransferIs
<1> HIDE DEF a
<1>3. transfer' = [transfer EXCEPT ![a] = new]
  BY <1>1
<1> HIDE DEF new
<1>4. HeapInv' /\ Live' = Live \cup {a} /\ transfer'[a] = new
  BY <1>1, <1>2, <1>3, HeapNew
<1>5. ASSUME NEW b \in Live' \ Live PROVE ~IsDownload(b)'
  <2>1. b = a
    BY <1>4, <1>5
  <2> QED
    BY <1>2, <1>4, <2>1 DEF IsDownload
<1> QED
  BY <1>4, <1>5 DEF ArrivesBehind

(* A download that finds a free slot finds an empty queue. *)
LEMMA HeapAddDownload ==
    ASSUME QueueInv, HeapInv, fault = "none", NEW u \in Uids, tfm_add_download(u)
    PROVE  HeapInv' /\ ArrivesBehind
<1> DEFINE a == CHOOSE free \in NewAddrs : TRUE
           position == IF Full THEN queue_size + 1 ELSE 0
<1>1. /\ transfer' = [transfer EXCEPT ![a] = NewTransfer(u, "download", NoFile, position)]
      /\ tfm_idm # <<>> /\ a \in NewAddrs
      /\ tfm_idm' = idm_get(tfm_idm) /\ ttbl' = ttbl \cup {a}
      /\ IF Full THEN q' = Append(q, a) ELSE q' = q
  BY DEF tfm_add_download
<1>2. queue_size = Len(q) /\ Len(q) \in Nat
  BY DEF QueueInv, Counters
<1>3. /\ position \in Nat /\ (~Full => position = 0) /\ (Full => position = Len(q) + 1)
      /\ Full => position > 0
  BY <1>2
<1>4. ~Full => q = <<>>
  BY DEF Full, QueueInv, Counters, NoIdleSlot
<1> DEFINE new == NewTransfer(u, "download", NoFile, position)
<1>5. new \in Transfers /\ new.tid = idm_index(tfm_idm) /\ new.position = position
  BY <1>1, <1>3, NewTransferIs
<1>6. transfer' = [transfer EXCEPT ![a] = new]
  BY <1>1
<1> HIDE DEF a, position, new
<1>7. HeapInv' /\ Live' = Live \cup {a} /\ transfer'[a] = new
  <2>1. \/ q' = q /\ new.position = 0
        \/ q' = Append(q, a) /\ new.position = Len(q) + 1
    BY <1>1, <1>3, <1>5
  <2> QED
    BY <1>1, <1>5, <1>6, <2>1, HeapNew
<1>8. CASE Full
  <2>1. ASSUME NEW b \in Live' \ Live PROVE ~IsDownload(b)' \/ Queued(b)'
    <3>1. b = a
      BY <1>7, <2>1
    <3> QED
      BY <1>3, <1>5, <1>7, <1>8, <3>1 DEF Queued
  <2> QED
    BY <1>7, <2>1 DEF ArrivesBehind
<1>9. CASE ~Full
  BY <1>4, <1>7, <1>9 DEF ArrivesBehind
<1> QED
  BY <1>8, <1>9

LEMMA NextHeapInv ==
    ASSUME QueueInv, HeapInv, [Next]_vars
    PROVE  HeapInv' /\ ArrivesBehind
<1>1. ASSUME HeapInv', Live' \subseteq Live PROVE HeapInv' /\ ArrivesBehind
  BY <1>1 DEF ArrivesBehind
<1>2. ASSUME UNCHANGED <<transfer, ttbl, q, tfm_idm>>
      PROVE  HeapInv' /\ ArrivesBehind
  BY <1>1, <1>2, HeapKept
<1>3. CASE UNCHANGED vars
  BY <1>2, <1>3 DEF vars, lists
<1>4. ASSUME NEW u \in Uids, User(u) PROVE HeapInv' /\ ArrivesBehind
  <2>1. CASE tfm_add_download(u)
    <3>1. fault = "none"
      BY <2>1 DEF tfm_add_download, Running
    <3> QED
      BY <2>1, <3>1, HeapAddDownload
  <2>2. CASE \E file \in Files : tfm_add_upload(u, file)
    BY <2>2, HeapAddUpload
  <2>3. CASE Purge(u)
    BY <1>1, <2>3, HeapPurge
  <2>4. CASE Cancel(u)
    BY <1>1, <2>4, HeapRemove DEF Cancel
  <2>5. CASE Leave(u) \/ Connect(u) \/ CheckOwner(u)
    BY <1>2, <2>5 DEF Leave, Connect, CheckOwner, lists
  <2> QED
    BY <1>4, <2>1, <2>2, <2>3, <2>4, <2>5 DEF User
<1>5. ASSUME NEW h \in Helpers, Helper(h) PROVE HeapInv' /\ ArrivesBehind
  <2>1. CASE Finish(h)
    BY <1>1, <2>1, HeapRemove DEF Finish
  <2>2. CASE DataConnect(h)
    BY <1>1, <2>2, HeapRegister
  <2>3. CASE Receive(h) \/ Stray(h) \/ WakeEarly(h)
    BY <1>2, <2>3 DEF Receive, Stray, WakeEarly, lists
  <2> QED
    BY <1>5, <2>1, <2>2, <2>3 DEF Helper
<1>6. CASE Monitor
  <2>1. CASE MonitorStart \/ MonitorTimeout \/ SpuriousWakeup
    BY <1>2, <2>1 DEF MonitorStart, MonitorTimeout, SpuriousWakeup
  <2> QED
    BY <1>1, <1>6, <2>1, HeapMonitor DEF Monitor
<1>7. CASE Reload
  BY <1>1, <1>7, HeapReload
<1> QED
  BY <1>3, <1>4, <1>5, <1>6, <1>7 DEF Next

LEMMA InitHeapInv == Init => HeapInv
<1> SUFFICES ASSUME Init PROVE HeapInv
  OBVIOUS
<1>1. Live = {} /\ HeapTypes
  <2>1. transfer = [a \in Addrs |-> Freed] /\ ttbl = {}
    BY DEF Init
  <2> QED
    BY <2>1 DEF Live, HeapTypes
<1>2. Places
  <2>1. q = <<>>
    BY DEF Init
  <2> QED
    BY <1>1, <2>1 DEF Places
<1>3. Ordered(tfm_idm) /\ Free(tfm_idm) \subseteq 1 .. Size + 1
  <2> DEFINE iv == Node(1, 1 + Size)
  <2>1. Size \in Nat
    BY TfmAssumption
  <2>2. iv \in Interval /\ iv.start = 1 /\ iv.end = 1 + Size /\ iv.start <= iv.end
    BY <2>1 DEF Node, Interval
  <2>3. tfm_idm = <<iv>>
    BY DEF Init, idm_create
  <2> HIDE DEF iv
  <2>4. Ordered(tfm_idm)
    BY <2>2, <2>3 DEF Ordered
  <2>5. Free(tfm_idm) = iv.start .. iv.end
    <3>1. DOMAIN tfm_idm = {1} /\ tfm_idm[1] = iv
      BY <2>3
    <3> QED
      BY <3>1 DEF Free
  <2> QED
    BY <2>1, <2>2, <2>4, <2>5
<1>4. Ids
  BY <1>1, <1>3 DEF Ids, DistinctTids
<1> QED
  BY <1>1, <1>2, <1>4 DEF HeapInv

LEMMA HeapInductive == Spec => []HeapInv
<1>1. QueueInv /\ HeapInv /\ [Next]_vars => HeapInv'
  BY NextHeapInv
<1> QED
  BY <1>1, InitHeapInv, Inductive, PTL DEF Spec

(* No identifier belongs to two transfers or is free while one has it,      *)
(* though idm_return loses some: tfm_owner, tfm_remove and tfm_register     *)
(* find the transfer they were given, also while a canceller waits.         *)
THEOREM TidsAreDistinct == Spec => []DistinctTids
<1>1. HeapInv => DistinctTids
  BY DEF HeapInv, Ids
<1> QED
  BY <1>1, HeapInductive, PTL

(* Positions and the queue agree, whoever leaves it in whatever way: by     *)
(* position alone tfm_remove, tfm_register and the purge tell a queued      *)
(* transfer from one that holds a slot.  NewAddrs keeps an address that a   *)
(* purge left in the queue from being given out.                            *)
THEOREM PositionsAreRight == Spec => []QueuePositions
<1>1. QueueInv /\ HeapInv => QueuePositions
  BY DEF QueueInv, HeapInv, Places, QueuePositions
<1> QED
  BY <1>1, Inductive, HeapInductive, PTL

(* A download that arrives never passes those that wait.                    *)
THEOREM ArrivalsWait == Spec => NoOvertaking
<1>1. QueueInv /\ HeapInv /\ [Next]_vars => [ArrivesBehind]_vars
  BY NextHeapInv
<1> QED
  BY <1>1, Inductive, HeapInductive, PTL DEF Spec, NoOvertaking

-----------------------------------------------------------------------------
(* One at a time: while users neither cancel nor leave, data connections    *)
(* come in turn and no thread wakes without cause, every transfer has one   *)
(* place and one helper at most, and each slot one transfer.                *)
InTurn == Environment \subseteq {"reload"}

Listed == Range(q) \cup Range(seq)

ListsInv == /\ ttbl = Live
            /\ \A a \in Range(q) : a \in Live /\ IsDownload(a)
            /\ \A a \in Range(seq) : a \in Live /\ a \notin Range(q)
            /\ IsInjective(seq)
            /\ monitor = "signalled" => Registered(Head(seq))

\* what helper h does with its transfer a: it waits for its turn, has been
\* told to start, or has started
ServedBy(a, h) ==
    /\ helper[h].tid = transfer[a].tid
    /\ \/ a \in Listed /\ helper[h].at = "wait" /\ mail[h] = <<>>
       \/ a \notin Listed /\ helper[h].at = "wait" /\ mail[h] = <<Job(a)>>
       \/ /\ a \notin Listed /\ helper[h].at = "run" /\ mail[h] = <<>>
          /\ helper[h].job = Job(a)

Served(a) == /\ ~Registered(a) => a \in Listed
             /\ \A h \in Helpers : transfer[a].thread = h => ServedBy(a, h)

Carries(h) == helper[h].at = "run" \/ mail[h] # <<>>
                => \E a \in Live : transfer[a].thread = h

FilesInv == /\ \A a \in Live : IF IsDownload(a) THEN transfer[a].file = NoFile
                               ELSE transfer[a].file \in Files
            /\ \A a, b \in Live : ~IsDownload(a) /\ ~IsDownload(b) /\ a # b
                                    => transfer[a].file # transfer[b].file

HelpersInv == /\ mail = [h \in Helpers |-> mail[h]]
              /\ helper = [h \in Helpers |-> helper[h]]
              /\ \A a \in Live : Served(a)
              /\ \A h \in Helpers : Carries(h)

TurnInv == /\ InTurn /\ fault = "none" /\ \A u \in Uids : cancelling[u] = 0
           /\ ListsInv /\ HelpersInv /\ FilesInv /\ SlotsCounted

Facts == QueueInv /\ SeqInv /\ HeapInv /\ TurnInv

\* the live transfers that wait in no list but hold a slot
Downloads == {a \in Live : IsDownload(a) /\ a \notin Range(q)}
Uploads   == {a \in Live : ~IsDownload(a)}

LEMMA InList ==
    ASSUME NEW S, NEW list \in Seq(S)
    PROVE  /\ Len(list) \in Nat /\ DOMAIN list = 1 .. Len(list) /\ Range(list) \subseteq S
           /\ \A a : a \in Range(list) <=> \E i \in 1 .. Len(list) : list[i] = a
BY DEF Range

LEMMA AmongOf ==
    ASSUME NEW list \in Seq(Addrs), NEW set
    PROVE  /\ Among(list, set) \in Seq(Addrs)
           /\ \A a : a \in Range(Among(list, set)) <=> a \in set /\ a \in Range(list)
           /\ IsInjective(list) => IsInjective(Among(list, set))
<1>1. Among(list, set) \in Seq(Addrs)
  BY AmongIs
<1>2. IsInjective(list) => IsInjective(Among(list, set))
  BY AmongIs
<1>3. \A a : (\E i \in 1 .. Len(Among(list, set)) : Among(list, set)[i] = a)
              <=> a \in set /\ \E i \in 1 .. Len(list) : list[i] = a
  BY AmongIs
<1>4. \A a : a \in Range(list) <=> \E i \in 1 .. Len(list) : list[i] = a
  BY InList
<1> DEFINE kept == Among(list, set)
<1> HIDE DEF kept
<1>5. \A a : a \in Range(kept) <=> \E i \in 1 .. Len(kept) : kept[i] = a
  BY <1>1, InList DEF kept
<1> QED
  BY <1>1, <1>2, <1>3, <1>4, <1>5 DEF kept

(* The first k of the queue, and the others. *)
LEMMA LeavingIs ==
    ASSUME Counters, Places, NEW k \in 0 .. Len(q)
    PROVE  LET rest == SubSeq(q, k + 1, Len(q)) IN
           /\ Leaving(k) \in Seq(Addrs) /\ Len(Leaving(k)) = k /\ IsInjective(Leaving(k))
           /\ Range(q) = Range(Leaving(k)) \cup Range(rest)
           /\ Range(Leaving(k)) \cap Range(rest) = {}
<1> DEFINE n == Len(q)
           l == Leaving(k)
           rest == SubSeq(q, k + 1, n)
<1>1. n \in Nat /\ DOMAIN q = 1 .. n /\ \A i \in 1 .. n : q[i] \in Addrs
  BY DEF Counters
<1>2. \A i, j \in 1 .. n : q[i] = q[j] => i = j
  BY <1>1 DEF Places
<1>3. l \in Seq(Addrs) /\ Len(l) = k /\ \A i \in 1 .. k : l[i] = q[i]
  <2>1. \A i \in 1 .. k : q[i] \in Addrs
    BY <1>1
  <2>2. /\ SubSeq(q, 1, k) \in Seq(Addrs)
        /\ Len(SubSeq(q, 1, k)) = IF 1 <= k THEN k - 1 + 1 ELSE 0
        /\ \A i \in 1 .. k - 1 + 1 : SubSeq(q, 1, k)[i] = q[1 + i - 1]
    BY <1>1, <2>1, SubSeqProperties
  <2> QED
    BY <1>1, <2>2 DEF Leaving
<1>4. rest \in Seq(Addrs) /\ Len(rest) = n - k /\ \A i \in 1 .. n - k : rest[i] = q[k + i]
  <2>1. \A i \in k + 1 .. n : q[i] \in Addrs
    BY <1>1
  <2>2. /\ rest \in Seq(Addrs)
        /\ Len(rest) = IF k + 1 <= n THEN n - (k + 1) + 1 ELSE 0
        /\ \A i \in 1 .. n - (k + 1) + 1 : rest[i] = q[k + 1 + i - 1]
    BY <1>1, <2>1, SubSeqProperties
  <2> HIDE DEF n, rest
  <2>3. n - (k + 1) + 1 = n - k /\ \A i \in 1 .. n - k : k + 1 + i - 1 = k + i
    BY <1>1 DEF n
  <2>4. Len(rest) = n - k
    BY QueueTail DEF n, rest
  <2> QED
    BY <2>2, <2>3, <2>4
<1> HIDE DEF n, l, rest
<1>5. /\ \A a : a \in Range(l) <=> \E i \in 1 .. k : q[i] = a
      /\ \A a : a \in Range(rest) <=> \E i \in 1 .. n - k : q[k + i] = a
      /\ \A a : a \in Range(q) <=> \E i \in 1 .. n : q[i] = a
  <2>1. \A a : a \in Range(l) <=> \E i \in 1 .. Len(l) : l[i] = a
    BY <1>3, InList
  <2>2. \A a : a \in Range(rest) <=> \E i \in 1 .. Len(rest) : rest[i] = a
    BY <1>4, InList
  <2>3. \A a : a \in Range(q) <=> \E i \in 1 .. n : q[i] = a
    BY InQueue DEF n
  <2> QED
    BY <1>3, <1>4, <2>1, <2>2, <2>3
<1>6. IsInjective(l)
  BY <1>1, <1>2, <1>3 DEF IsInjective, n
<1>7. \A a : a \in Range(q) <=> a \in Range(l) \/ a \in Range(rest)
  <2>1. \A i \in 1 .. n : i \in 1 .. k \/ (i - k \in 1 .. n - k /\ k + (i - k) = i)
    BY <1>1
  <2>2. \A i \in 1 .. k : i \in 1 .. n
    BY <1>1 DEF n
  <2>3. \A i \in 1 .. n - k : k + i \in 1 .. n
    BY <1>1 DEF n
  <2> QED
    BY <1>5, <2>1, <2>2, <2>3
<1>8. \A a : ~(a \in Range(l) /\ a \in Range(rest))
  <2>1. \A i \in 1 .. k, j \in 1 .. n - k : i \in 1 .. n /\ k + j \in 1 .. n /\ i # k + j
    BY <1>1 DEF n
  <2> QED
    BY <1>2, <1>5, <2>1
<1> QED
  BY <1>3, <1>6, <1>7, <1>8 DEF n, l, rest

(* Of those that leave, the registered are started and the others           *)
(* sequestered.                                                             *)
LEMMA StartedIs ==
    ASSUME Counters, Places, NEW k \in 0 .. Len(q)
    PROVE  /\ Started(k) \in Seq(Addrs) /\ IsInjective(Started(k))
           /\ Sequestered(k) \in Seq(Addrs) /\ IsInjective(Sequestered(k))
           /\ \A a : a \in Range(Started(k)) <=> a \in Range(Leaving(k)) /\ Registered(a)
           /\ \A a : a \in Range(Sequestered(k))
                       <=> a \in Range(Leaving(k)) /\ ~Registered(a)
<1> DEFINE l == Leaving(k)
<1>1. l \in Seq(Addrs) /\ IsInjective(l)
  BY LeavingIs
<1> HIDE DEF l
<1>2. ASSUME NEW set
      PROVE  /\ Among(l, set) \in Seq(Addrs) /\ IsInjective(Among(l, set))
             /\ \A a : a \in Range(Among(l, set)) <=> a \in set /\ a \in Range(l)
  BY <1>1, AmongOf
<1>3. /\ Started(k) = Among(l, {a \in Range(l) : Registered(a)})
      /\ Sequestered(k) = Among(l, {a \in Range(l) : ~Registered(a)})
  BY DEF Started, Sequestered, l
<1>4. \A a : a \in Range(Started(k)) <=> a \in Range(l) /\ Registered(a)
  BY <1>2, <1>3
<1>5. \A a : a \in Range(Sequestered(k)) <=> a \in Range(l) /\ ~Registered(a)
  BY <1>2, <1>3
<1> QED
  BY <1>2, <1>3, <1>4, <1>5 DEF l

(* What activate_download and activate_upload do to the queues: one message *)
(* for the thread of each transfer, none for the others.                    *)
LEMMA ActivatedIs ==
    ASSUME NEW list \in Seq(Addrs), IsInjective(list), NEW h \in Helpers,
           \A a, b \in Range(list) : transfer[a].thread = h /\ transfer[b].thread = h => a = b,
           \A a \in Range(list) : transfer[a].thread = h => mail[h] = <<>>,
           mail[h] \o <<>> = mail[h]
    PROVE  /\ \A a \in Range(list) : transfer[a].thread = h => Activated(list)[h] = <<Job(a)>>
           /\ (\A a \in Range(list) : transfer[a].thread # h) => Activated(list)[h] = mail[h]
<1> DEFINE set == {a \in Range(list) : transfer[a].thread = h}
           his == Among(list, set)
           jobs == [i \in 1 .. Len(his) |-> Job(his[i])]
<1>1. his \in Seq(Addrs) /\ IsInjective(his)
      /\ \A a : a \in Range(his) <=> a \in set /\ a \in Range(list)
  <2> HIDE DEF set
  <2> QED
    BY AmongOf
<1>2. \A a : (\E i \in 1 .. Len(his) : his[i] = a) <=> a \in Range(list) /\ transfer[a].thread = h
  <2>1. \A a : a \in Range(his) <=> a \in Range(list) /\ transfer[a].thread = h
    BY <1>1
  <2> HIDE DEF set, his
  <2> QED
    BY <1>1, <2>1, InList
<1>3. Activated(list)[h] = mail[h] \o jobs
  BY DEF Activated
<1> HIDE DEF set, his
<1>4. Len(his) \in Nat /\ DOMAIN his = 1 .. Len(his)
  BY <1>1
<1>5. ASSUME NEW a \in Range(list), transfer[a].thread = h
      PROVE  Activated(list)[h] = <<Job(a)>>
  <2>1. \A i \in 1 .. Len(his) : his[i] = a
    BY <1>2, <1>5
  <2>2. Len(his) = 1
    <3>1. PICK i \in 1 .. Len(his) : his[i] = a
      BY <1>2, <1>5
    <3>2. \A j \in 1 .. Len(his) : j = i
      BY <1>1, <1>4, <2>1 DEF IsInjective
    <3>3. 1 \in 1 .. Len(his) /\ Len(his) \in 1 .. Len(his)
      BY <1>4, <3>1
    <3> QED
      BY <3>2, <3>3
  <2>3. jobs = [i \in 1 .. 1 |-> Job(his[i])] /\ his[1] = a
    BY <2>1, <2>2
  <2>4. jobs = <<Job(a)>>
    <3> DEFINE job == Job(a)
    <3>1. \A i \in 1 .. 1 : Job(his[i]) = job
      BY <2>1, <2>2
    <3> HIDE DEF job
    <3>2. jobs = [i \in 1 .. 1 |-> job]
      BY <2>3, <3>1
    <3>3. [i \in 1 .. 1 |-> job] = <<job>>
      OBVIOUS
    <3> QED
      BY <3>2, <3>3 DEF job
  <2>5. mail[h] = <<>>
    BY <1>5
  <2>6. <<>> \o <<Job(a)>> = <<Job(a)>>
    OBVIOUS
  <2> QED
    BY <1>3, <2>4, <2>5, <2>6
<1>6. ASSUME \A a \in Range(list) : transfer[a].thread # h
      PROVE  Activated(list)[h] = mail[h]
  <2>1. ~\E i \in 1 .. Len(his) : TRUE
    BY <1>2, <1>6
  <2>2. Len(his) = 0
    BY <1>4, <2>1
  <2>3. jobs = <<>>
    BY <2>2
  <2> QED
    BY <1>3, <2>3
<1> QED
  BY <1>5, <1>6

LEMMA LiveIs ==
    ASSUME HeapInv, NEW a \in Live
    PROVE  /\ a \in Addrs /\ transfer[a] \in Transfers
           /\ Registered(a) <=> transfer[a].thread \in Helpers
<1>1. a \in Addrs /\ transfer[a] \in Transfers
  BY DEF HeapInv, HeapTypes, Live
<1>2. transfer[a].thread \in Helpers \cup {NoHelper}
  BY <1>1 DEF Transfers
<1> QED
  BY <1>1, <1>2, TfmAssumption DEF Registered

(* A helper has one transfer at most, which is told to it at most once.     *)
LEMMA OneHelper ==
    ASSUME HeapInv, TurnInv, NEW h \in Helpers
    PROVE  /\ \A a \in Live : transfer[a].thread = h => ServedBy(a, h)
           /\ \A a, b \in Live : transfer[a].thread = h /\ transfer[b].thread = h => a = b
           /\ helper[h].at = "pool" => mail[h] = <<>> /\ \A a \in Live : transfer[a].thread # h
           /\ mail[h] # <<>> => \E a \in Live : transfer[a].thread = h /\ mail[h] = <<Job(a)>>
           /\ mail[h] \o <<>> = mail[h]
<1>1. ASSUME NEW a \in Live, transfer[a].thread = h PROVE ServedBy(a, h)
  BY <1>1 DEF TurnInv, HelpersInv, Served
<1>2. ASSUME NEW a \in Live, NEW b \in Live, transfer[a].thread = h, transfer[b].thread = h
      PROVE  a = b
  <2>1. transfer[a].tid = helper[h].tid /\ transfer[b].tid = helper[h].tid
    BY <1>1, <1>2 DEF ServedBy
  <2> QED
    BY <2>1 DEF HeapInv, Ids, DistinctTids
<1>3. mail[h] # <<>> => \E a \in Live : transfer[a].thread = h /\ mail[h] = <<Job(a)>>
  <2>1. SUFFICES ASSUME mail[h] # <<>>
                 PROVE  \E a \in Live : transfer[a].thread = h /\ mail[h] = <<Job(a)>>
    OBVIOUS
  <2>2. PICK a \in Live : transfer[a].thread = h
    BY <2>1 DEF TurnInv, HelpersInv, Carries
  <2>3. ServedBy(a, h)
    BY <1>1, <2>2
  <2> QED
    BY <2>1, <2>2, <2>3 DEF ServedBy
<1>4. ASSUME helper[h].at = "pool" PROVE \A a \in Live : transfer[a].thread # h
  BY <1>1, <1>4 DEF ServedBy
<1>5. mail[h] \o <<>> = mail[h]
  <2>1. CASE mail[h] = <<>>
    BY <2>1
  <2>2. CASE mail[h] # <<>>
    <3>1. PICK a \in Live : mail[h] = <<Job(a)>>
      BY <1>3, <2>2
    <3> DEFINE job == Job(a)
    <3> HIDE DEF job
    <3>2. <<job>> \o <<>> = <<job>>
      OBVIOUS
    <3> QED
      BY <3>1, <3>2 DEF job
  <2> QED
    BY <2>1, <2>2
<1> QED
  BY <1>1, <1>2, <1>3, <1>4, <1>5

SameTransfer(a) == /\ transfer'[a].tid = transfer[a].tid
                   /\ transfer'[a].thread = transfer[a].thread
                   /\ transfer'[a].type = transfer[a].type
                   /\ transfer'[a].file = transfer[a].file

(* A transfer that a step has nothing to do with. *)
LEMMA ServedStill ==
    ASSUME NEW a, Served(a), SameTransfer(a), a \in Listed' <=> a \in Listed,
           \A h \in Helpers : transfer[a].thread = h =>
              helper'[h] = helper[h] /\ mail'[h] = mail[h]
    PROVE  Served(a)'
<1>1. Job(a)' = Job(a) /\ (Registered(a)' <=> Registered(a))
  BY DEF SameTransfer, Job, Registered
<1>2. ASSUME NEW h \in Helpers, transfer'[a].thread = h PROVE ServedBy(a, h)'
  <2>1. transfer[a].thread = h /\ transfer'[a].tid = transfer[a].tid
    BY <1>2 DEF SameTransfer
  <2>2. ServedBy(a, h) /\ helper'[h] = helper[h] /\ mail'[h] = mail[h]
    BY <2>1 DEF Served
  <2> QED
    BY <1>1, <2>1, <2>2 DEF ServedBy
<1> QED
  BY <1>1, <1>2 DEF Served

(* A step in which some listed transfers are started, and some are gone.    *)
LEMMA StartStep ==
    ASSUME HeapInv, TurnInv, NEW gone \in SUBSET Live,
           NEW started \in Seq(Addrs), IsInjective(started),
           \A a \in Range(started) : a \in Listed /\ a \in Live \ gone /\ Registered(a),
           Live' = Live \ gone, \A a \in Live' : SameTransfer(a),
           \A a \in Live' : a \in Listed' <=> a \in Listed /\ a \notin Range(started),
           mail' = Activated(started), helper' = [h \in Helpers |-> helper'[h]],
           \A h \in Helpers : helper'[h] # helper[h] =>
              /\ helper'[h].at = "pool" /\ helper[h].at = "run"
              /\ \E a \in gone : transfer[a].thread = h,
           \A a \in gone, h \in Helpers : transfer[a].thread = h =>
              a \in Listed \/ (helper'[h].at = "pool" /\ helper[h].at = "run")
    PROVE  HelpersInv'
<1>1. mail' = [h \in Helpers |-> mail'[h]]
  BY DEF Activated
<1>2. ASSUME NEW h \in Helpers
      PROVE  /\ \A a \in Range(started) : transfer[a].thread = h => mail'[h] = <<Job(a)>>
             /\ (\A a \in Range(started) : transfer[a].thread # h) => mail'[h] = mail[h]
  <2>1. \A a, b \in Range(started) : transfer[a].thread = h /\ transfer[b].thread = h => a = b
    BY OneHelper
  <2>2. \A a \in Range(started) : transfer[a].thread = h => mail[h] = <<>>
    BY OneHelper DEF ServedBy
  <2>3. mail[h] \o <<>> = mail[h]
    BY OneHelper
  <2> QED
    BY <2>1, <2>2, <2>3, ActivatedIs
<1>3. ASSUME NEW a \in Live', a \in Range(started) PROVE Served(a)'
  <2>1. SameTransfer(a) /\ a \in Live /\ a \in Listed /\ a \notin Listed' /\ Registered(a)
    BY <1>3
  <2>2. Registered(a)' /\ Job(a)' = Job(a)
    BY <2>1 DEF SameTransfer, Job, Registered
  <2>3. ASSUME NEW h \in Helpers, transfer'[a].thread = h PROVE ServedBy(a, h)'
    <3>1. transfer[a].thread = h /\ transfer'[a].tid = transfer[a].tid
      BY <2>1, <2>3 DEF SameTransfer
    <3>2. helper[h].at = "wait" /\ helper[h].tid = transfer[a].tid
      BY <2>1, <3>1, OneHelper DEF ServedBy
    <3>3. helper'[h] = helper[h]
      BY <3>2
    <3>4. mail'[h] = <<Job(a)>>
      BY <1>2, <1>3, <3>1
    <3> QED
      BY <2>1, <2>2, <3>1, <3>2, <3>3, <3>4 DEF ServedBy
  <2> QED
    BY <2>2, <2>3 DEF Served
<1>4. ASSUME NEW a \in Live', a \notin Range(started) PROVE Served(a)'
  <2>1. SameTransfer(a) /\ a \in Live /\ a \notin gone /\ (a \in Listed' <=> a \in Listed)
    BY <1>4
  <2>2. ASSUME NEW h \in Helpers, transfer[a].thread = h
        PROVE  helper'[h] = helper[h] /\ mail'[h] = mail[h]
    <3>1. \A b \in Live : transfer[b].thread = h => b = a
      BY <2>1, <2>2, OneHelper
    <3>2. \A b \in Range(started) : transfer[b].thread # h
      BY <1>4, <3>1
    <3>3. ~\E b \in gone : transfer[b].thread = h
      BY <2>1, <3>1
    <3> QED
      BY <1>2, <3>2, <3>3
  <2>3. Served(a)
    BY <2>1 DEF TurnInv, HelpersInv
  <2> QED
    BY <2>1, <2>2, <2>3, ServedStill
<1>5. ASSUME NEW h \in Helpers PROVE Carries(h)'
  <2>1. CASE \E a \in Range(started) : transfer[a].thread = h
    <3>1. PICK a \in Range(started) : transfer[a].thread = h
      BY <2>1
    <3>2. a \in Live' /\ SameTransfer(a)
      OBVIOUS
    <3> QED
      BY <3>1, <3>2 DEF Carries, SameTransfer
  <2>2. CASE ~\E a \in Range(started) : transfer[a].thread = h
    <3>1. mail'[h] = mail[h]
      BY <1>2, <2>2
    <3>2. SUFFICES ASSUME helper'[h].at = "run" \/ mail[h] # <<>>
                   PROVE  \E a \in Live' : transfer'[a].thread = h
      BY <3>1 DEF Carries
    <3>3. helper[h].at = "run" \/ mail[h] # <<>>
      BY <3>2
    <3>4. PICK a \in Live : transfer[a].thread = h
      BY <3>3 DEF TurnInv, HelpersInv, Carries
    <3>5. ServedBy(a, h)
      BY <3>4, OneHelper
    <3>6. a \notin gone
      <4>1. SUFFICES ASSUME a \in gone PROVE FALSE
        OBVIOUS
      <4>2. CASE a \in Listed
        <5>1. helper[h].at = "wait" /\ mail[h] = <<>>
          BY <3>5, <4>2 DEF ServedBy
        <5> QED
          BY <3>2, <5>1
      <4>3. CASE helper'[h].at = "pool" /\ helper[h].at = "run"
        <5>1. mail[h] = <<>>
          BY <3>5, <4>3 DEF ServedBy
        <5> QED
          BY <3>2, <4>3, <5>1
      <4> QED
        BY <3>4, <4>1, <4>2, <4>3
    <3> QED
      BY <3>4, <3>6 DEF SameTransfer
  <2> QED
    BY <2>1, <2>2
<1> QED
  BY <1>1, <1>3, <1>4, <1>5 DEF HelpersInv

LEMMA InjectiveConcat ==
    ASSUME NEW s \in Seq(Addrs), NEW t \in Seq(Addrs), IsInjective(s), IsInjective(t),
           Range(s) \cap Range(t) = {}
    PROVE  s \o t \in Seq(Addrs) /\ IsInjective(s \o t) /\ Range(s \o t) = Range(s) \cup Range(t)
<1> DEFINE st == s \o t
           m == Len(s)
           n == Len(t)
<1>1. /\ st \in Seq(Addrs) /\ Len(st) = m + n /\ m \in Nat /\ n \in Nat
      /\ \A i \in 1 .. m + n : st[i] = IF i <= m THEN s[i] ELSE t[i - m]
  BY ConcatProperties
<1>2. /\ DOMAIN s = 1 .. m /\ DOMAIN t = 1 .. n
      /\ \A a : a \in Range(s) <=> \E i \in 1 .. m : s[i] = a
      /\ \A a : a \in Range(t) <=> \E i \in 1 .. n : t[i] = a
  BY InList
<1> HIDE DEF st, m, n
<1>3. DOMAIN st = 1 .. m + n /\ \A a : a \in Range(st) <=> \E i \in 1 .. m + n : st[i] = a
  <2>1. st \in Seq(Addrs)
    BY <1>1
  <2>2. /\ DOMAIN st = 1 .. Len(st)
        /\ \A a : a \in Range(st) <=> \E i \in 1 .. Len(st) : st[i] = a
    BY <2>1, InList
  <2> QED
    BY <1>1, <2>2
<1>4. \A i \in 1 .. m + n : \/ i \in 1 .. m /\ st[i] = s[i]
                            \/ i - m \in 1 .. n /\ st[i] = t[i - m]
  BY <1>1
<1>5. /\ \A i \in 1 .. m : i \in 1 .. m + n /\ st[i] = s[i]
      /\ \A i \in 1 .. n : i + m \in 1 .. m + n /\ st[i + m] = t[i]
  BY <1>1
<1>6. \A a : a \in Range(st) <=> a \in Range(s) \/ a \in Range(t)
  BY <1>2, <1>3, <1>4, <1>5
<1>7. ASSUME NEW i \in 1 .. m + n, NEW j \in 1 .. m + n, st[i] = st[j] PROVE i = j
  <2>1. CASE i \in 1 .. m /\ st[i] = s[i] /\ j \in 1 .. m /\ st[j] = s[j]
    BY <1>2, <1>7, <2>1 DEF IsInjective
  <2>2. CASE i - m \in 1 .. n /\ st[i] = t[i - m] /\ j - m \in 1 .. n /\ st[j] = t[j - m]
    <3>1. i - m = j - m
      BY <1>2, <1>7, <2>2 DEF IsInjective
    <3> QED
      BY <1>1, <3>1
  <2>3. ~(i \in 1 .. m /\ st[i] = s[i] /\ j - m \in 1 .. n /\ st[j] = t[j - m])
    BY <1>2, <1>7
  <2>4. ~(j \in 1 .. m /\ st[j] = s[j] /\ i - m \in 1 .. n /\ st[i] = t[i - m])
    BY <1>2, <1>7
  <2> QED
    BY <1>4, <2>1, <2>2, <2>3, <2>4
<1>8. IsInjective(st)
  BY <1>3, <1>7 DEF IsInjective
<1> QED
  BY <1>1, <1>6, <1>8 DEF st

LEMMA TailOf ==
    ASSUME NEW s \in Seq(Addrs), IsInjective(s), s # <<>>
    PROVE  /\ Tail(s) \in Seq(Addrs) /\ IsInjective(Tail(s)) /\ Head(s) \in Range(s)
           /\ \A a : a \in Range(Tail(s)) <=> a \in Range(s) /\ a # Head(s)
           /\ Head(s) \in Addrs
<1> DEFINE r == Tail(s)
           n == Len(s)
<1>1. /\ n \in Nat /\ n > 0 /\ Head(s) = s[1] /\ Head(s) \in Addrs
      /\ r \in Seq(Addrs) /\ Len(r) = n - 1 /\ \A i \in 1 .. n - 1 : r[i] = s[i + 1]
  BY HeadTailProperties
<1>2. DOMAIN s = 1 .. n /\ \A a : a \in Range(s) <=> \E i \in 1 .. n : s[i] = a
  BY InList
<1> HIDE DEF r, n
<1>3. DOMAIN r = 1 .. n - 1 /\ \A a : a \in Range(r) <=> \E i \in 1 .. n - 1 : r[i] = a
  BY <1>1, InList
<1>4. /\ \A i \in 1 .. n - 1 : i + 1 \in 1 .. n /\ i + 1 # 1
      /\ \A i \in 1 .. n : i = 1 \/ (i - 1 \in 1 .. n - 1 /\ (i - 1) + 1 = i)
      /\ 1 \in 1 .. n
  BY <1>1
<1>5. \A i, j \in 1 .. n : s[i] = s[j] => i = j
  BY <1>2 DEF IsInjective
<1>6. \A a : a \in Range(r) <=> a \in Range(s) /\ a # s[1]
  <2> TAKE a
  <2>1. ASSUME a \in Range(r) PROVE a \in Range(s) /\ a # s[1]
    <3>1. PICK i \in 1 .. n - 1 : r[i] = a
      BY <1>3, <2>1
    <3>2. i + 1 \in 1 .. n /\ 1 \in 1 .. n /\ i + 1 # 1 /\ s[i + 1] = a
      BY <1>1, <1>4, <3>1
    <3> QED
      BY <1>2, <1>5, <3>2
  <2>2. ASSUME a \in Range(s), a # s[1] PROVE a \in Range(r)
    <3>1. PICK i \in 1 .. n : s[i] = a
      BY <1>2, <2>2
    <3>2. i - 1 \in 1 .. n - 1 /\ (i - 1) + 1 = i
      BY <1>4, <2>2, <3>1
    <3>3. r[i - 1] = a
      BY <1>1, <3>1, <3>2
    <3> QED
      BY <1>3, <3>2, <3>3
  <2> QED
    BY <2>1, <2>2
<1>7. \A i, j \in 1 .. n - 1 : r[i] = r[j] => i = j
  <2>1. \A i, j \in 1 .. n - 1 : r[i] = r[j] => i + 1 = j + 1
    BY <1>1, <1>4, <1>5
  <2> QED
    BY <1>1, <2>1
<1>8. IsInjective(r)
  BY <1>3, <1>7 DEF IsInjective
<1>9. s[1] \in Range(s)
  BY <1>2, <1>4
<1> QED
  BY <1>1, <1>6, <1>8, <1>9 DEF r

LEMMA TailConcat ==
    ASSUME NEW s \in Seq(Addrs), NEW t \in Seq(Addrs), s # <<>>
    PROVE  Tail(s \o t) = Tail(s) \o t
<1> DEFINE u == s \o t
           r == Tail(s)
           v == r \o t
<1>1. /\ u \in Seq(Addrs) /\ Len(u) = Len(s) + Len(t)
      /\ \A i \in 1 .. Len(s) + Len(t) : u[i] = IF i <= Len(s) THEN s[i] ELSE t[i - Len(s)]
  BY ConcatProperties
<1>2. Len(s) \in Nat /\ Len(s) > 0 /\ Len(t) \in Nat
  OBVIOUS
<1>3. r \in Seq(Addrs) /\ Len(r) = Len(s) - 1 /\ \A i \in 1 .. Len(s) - 1 : r[i] = s[i + 1]
  BY HeadTailProperties
<1> HIDE DEF r
<1>4. /\ v \in Seq(Addrs) /\ Len(v) = Len(r) + Len(t)
      /\ \A i \in 1 .. Len(r) + Len(t) : v[i] = IF i <= Len(r) THEN r[i] ELSE t[i - Len(r)]
  BY <1>3, ConcatProperties
<1> HIDE DEF u, v
<1>5. u # <<>>
  BY <1>1, <1>2, EmptySeq
<1>6. /\ Tail(u) \in Seq(Addrs) /\ Len(Tail(u)) = Len(u) - 1
      /\ \A i \in 1 .. Len(Tail(u)) : Tail(u)[i] = u[i + 1]
  BY <1>1, <1>5, HeadTailProperties
<1>7. Len(Tail(u)) = Len(v)
  BY <1>1, <1>2, <1>3, <1>4, <1>6
<1>8. ASSUME NEW i \in 1 .. Len(v) PROVE Tail(u)[i] = v[i]
  <2>1. /\ i \in Nat /\ i + 1 \in 1 .. Len(s) + Len(t) /\ Tail(u)[i] = u[i + 1]
        /\ i \in 1 .. Len(r) + Len(t)
    BY <1>1, <1>2, <1>3, <1>4, <1>6, <1>7
  <2>2. CASE i <= Len(r)
    <3>1. i \in 1 .. Len(s) - 1 /\ i + 1 <= Len(s)
      BY <1>2, <1>3, <2>1, <2>2
    <3> QED
      BY <1>1, <1>3, <1>4, <2>1, <2>2, <3>1
  <2>3. CASE ~(i <= Len(r))
    <3>1. ~(i + 1 <= Len(s)) /\ (i + 1) - Len(s) = i - Len(r)
      BY <1>2, <1>3, <2>1, <2>3
    <3> QED
      BY <1>1, <1>4, <2>1, <2>3, <3>1
  <2> QED
    BY <2>2, <2>3
<1>9. Tail(u) = v
  <2> DEFINE w == Tail(u)
  <2> HIDE DEF w
  <2>1. w \in Seq(Addrs) /\ Len(w) = Len(v) /\ \A i \in 1 .. Len(w) : w[i] = v[i]
    BY <1>6, <1>7, <1>8 DEF w
  <2> QED
    BY <1>4, <2>1, SeqEqual DEF w
<1> QED
  BY <1>9 DEF u, v, r

LEMMA MovedUpKeeps ==
    ASSUME HeapInv, NEW k, NEW a \in Live
    PROVE  /\ MovedUp(k)[a].tid = transfer[a].tid
           /\ MovedUp(k)[a].thread = transfer[a].thread
           /\ MovedUp(k)[a].type = transfer[a].type
           /\ MovedUp(k)[a].file = transfer[a].file
<1> DEFINE less == Min({k, CHOOSE i \in DOMAIN q : q[i] = a})
<1>1. a \in Addrs /\ transfer[a] \in Transfers
  BY LiveIs
<1>2. MovedUp(k)[a] = IF k > 0 /\ a \in Range(q)
                      THEN [transfer[a] EXCEPT !.position = @ - less] ELSE transfer[a]
  BY <1>1 DEF MovedUp
<1> HIDE DEF less
<1> QED
  BY <1>1, <1>2 DEF Transfers

\* the transfers in gone are destroyed, and k others leave the queue
Passes(k, gone, list) ==
    /\ transfer' = [b \in Addrs |-> IF b \in gone THEN Freed ELSE MovedUp(k)[b]]
    /\ q' = SubSeq(q, k + 1, Len(q))
    /\ seq' = list \o Sequestered(k)
    /\ ttbl' = ttbl \ gone
    /\ mail' = Activated(Started(k))

\* the first transfer of the list stays the first if it is signalled
SignalledLater(k, list) ==
    monitor' = "signalled" => list = seq /\ monitor' = MonitorFor(seq, Sequestered(k))

LEMMA PassLists ==
    ASSUME QueueInv, HeapInv, SeqInv, TurnInv, NEW k \in 0 .. Len(q), NEW gone \in SUBSET Live,
           gone \cap Range(q) = {}, NEW list \in Seq(Addrs), IsInjective(list),
           \A a : a \in Range(list) <=> a \in Range(seq) /\ a \notin gone,
           Passes(k, gone, list), SignalledLater(k, list)
    PROVE  /\ Live' = Live \ gone /\ \A a \in Live' : SameTransfer(a)
           /\ Range(q') = Range(q) \ Range(Leaving(k))
           /\ Range(Leaving(k)) \subseteq Range(q)
           /\ \A a \in Live' : a \in Listed' <=> a \in Listed /\ a \notin Range(Started(k))
           /\ ListsInv'
<1>1. Counters /\ Places
  BY DEF QueueInv, HeapInv
<1>2. \A a \in Range(q) : a \in Live /\ IsDownload(a)
  BY DEF TurnInv, ListsInv
<1>3. Live' = Live \ gone
  <2>1. ttbl' \subseteq ttbl \ gone
    BY DEF Passes
  <2>2. k > 0 => Range(q) \subseteq Live
    BY <1>2
  <2> QED
    BY <1>1, <2>1, <2>2, PlacesLeft DEF Passes
<1>4. ASSUME NEW a \in Live' PROVE SameTransfer(a)
  <2>1. a \in Live /\ a \notin gone /\ a \in Addrs
    BY <1>3, LiveIs
  <2>2. transfer'[a] = MovedUp(k)[a]
    BY <2>1 DEF Passes
  <2> QED
    BY <2>1, <2>2, MovedUpKeeps DEF SameTransfer
<1>5. /\ Range(q) = Range(Leaving(k)) \cup Range(q')
      /\ Range(Leaving(k)) \cap Range(q') = {}
  BY <1>1, LeavingIs DEF Passes
<1>6. /\ Sequestered(k) \in Seq(Addrs) /\ IsInjective(Sequestered(k))
      /\ \A a : a \in Range(Started(k)) <=> a \in Range(Leaving(k)) /\ Registered(a)
      /\ \A a : a \in Range(Sequestered(k)) <=> a \in Range(Leaving(k)) /\ ~Registered(a)
  BY <1>1, StartedIs
<1>7. \A a \in Range(seq) : a \in Live /\ a \notin Range(q)
  BY DEF TurnInv, ListsInv
<1>8. /\ seq' \in Seq(Addrs) /\ IsInjective(seq')
      /\ Range(seq') = Range(list) \cup Range(Sequestered(k))
  <2> DEFINE added == Sequestered(k)
  <2>1. added \in Seq(Addrs) /\ IsInjective(added) /\ Range(list) \cap Range(added) = {}
    BY <1>5, <1>6, <1>7
  <2>2. seq' = list \o added
    BY DEF Passes
  <2> HIDE DEF added
  <2> QED
    BY <2>1, <2>2, InjectiveConcat DEF added
<1>9. \A a \in Live' : a \in Listed' <=> a \in Listed /\ a \notin Range(Started(k))
  BY <1>3, <1>5, <1>6, <1>7, <1>8 DEF Listed
<1>10. ttbl' = Live'
  BY <1>3 DEF Passes, TurnInv, ListsInv
<1>11. ASSUME NEW a \in Range(q') PROVE a \in Live' /\ IsDownload(a)'
  <2>1. a \in Live' /\ IsDownload(a)
    BY <1>2, <1>3, <1>5
  <2> QED
    BY <1>4, <2>1 DEF SameTransfer, IsDownload
<1>12. \A a \in Range(seq') : a \in Live' /\ a \notin Range(q')
  BY <1>2, <1>3, <1>5, <1>6, <1>7, <1>8
<1>13. ASSUME monitor' = "signalled" PROVE Registered(Head(seq))'
  <2>1. list = seq /\ monitor = "signalled"
    BY <1>13 DEF SignalledLater, MonitorFor
  <2>2. seq \in Seq(Addrs) /\ seq # <<>> /\ IsInjective(seq) /\ Registered(Head(seq))
    BY <2>1 DEF SeqInv, MonitorWatches, TurnInv, ListsInv
  <2> DEFINE first == Head(seq)
  <2>3. first \in Range(seq) /\ first \notin gone
    BY <2>1, <2>2, TailOf
  <2>4. first \in Live'
    BY <1>3, <1>7, <2>3
  <2>5. Head(seq') = first
    <3> DEFINE added == Sequestered(k)
    <3>1. added \in Seq(Addrs) /\ seq' = seq \o added
      BY <1>6, <2>1 DEF Passes
    <3> HIDE DEF added
    <3>2. /\ seq' \in Seq(Addrs) /\ Len(seq') = Len(seq) + Len(added)
          /\ \A i \in 1 .. Len(seq) + Len(added) :
                seq'[i] = IF i <= Len(seq) THEN seq[i] ELSE added[i - Len(seq)]
      BY <2>2, <3>1, ConcatProperties
    <3>3. Len(seq) \in Nat /\ Len(seq) > 0 /\ Len(added) \in Nat /\ first = seq[1]
      BY <2>2, <3>1
    <3>4. seq'[1] = seq[1] /\ seq' # <<>>
      BY <3>2, <3>3, EmptySeq
    <3> QED
      BY <3>2, <3>3, <3>4
  <2> HIDE DEF first
  <2>6. SameTransfer(first) /\ Registered(first)
    BY <1>4, <2>2, <2>4 DEF first
  <2> QED
    BY <2>5, <2>6 DEF SameTransfer, Registered
<1>14. ListsInv'
  BY <1>8, <1>10, <1>11, <1>12, <1>13 DEF ListsInv
<1> QED
  BY <1>3, <1>4, <1>5, <1>9, <1>14

LEMMA FilesStill ==
    ASSUME FilesInv, Live' \subseteq Live,
           \A a \in Live' : /\ transfer'[a].type = transfer[a].type
                            /\ transfer'[a].file = transfer[a].file
    PROVE  FilesInv'
<1>1. \A a \in Live' : /\ IsDownload(a)' <=> IsDownload(a)
                       /\ transfer'[a].file = transfer[a].file
  BY DEF IsDownload
<1> QED
  BY <1>1 DEF FilesInv

LEMMA PassHelpers ==
    ASSUME QueueInv, HeapInv, SeqInv, TurnInv, NEW k \in 0 .. Len(q), NEW gone \in SUBSET Live,
           gone \cap Range(q) = {}, NEW list \in Seq(Addrs), IsInjective(list),
           \A a : a \in Range(list) <=> a \in Range(seq) /\ a \notin gone,
           Passes(k, gone, list), SignalledLater(k, list),
           helper' = [h \in Helpers |-> helper'[h]],
           \A h \in Helpers : helper'[h] # helper[h] =>
              /\ helper'[h].at = "pool" /\ helper[h].at = "run"
              /\ \E a \in gone : transfer[a].thread = h,
           \A a \in gone, h \in Helpers : transfer[a].thread = h =>
              a \in Listed \/ (helper'[h].at = "pool" /\ helper[h].at = "run")
    PROVE  ListsInv' /\ HelpersInv' /\ FilesInv'
<1>1. /\ Live' = Live \ gone /\ \A a \in Live' : SameTransfer(a)
      /\ Range(Leaving(k)) \subseteq Range(q)
      /\ \A a \in Live' : a \in Listed' <=> a \in Listed /\ a \notin Range(Started(k))
      /\ ListsInv'
  BY PassLists
<1>2. FilesInv'
  BY <1>1, FilesStill DEF TurnInv, SameTransfer
<1>3. /\ Started(k) \in Seq(Addrs) /\ IsInjective(Started(k))
      /\ \A a : a \in Range(Started(k)) <=> a \in Range(Leaving(k)) /\ Registered(a)
  BY StartedIs DEF QueueInv, HeapInv
<1>4. \A a \in Range(Started(k)) : a \in Listed /\ a \in Live \ gone /\ Registered(a)
  BY <1>1, <1>3 DEF Listed, TurnInv, ListsInv
<1>5. mail' = Activated(Started(k))
  BY DEF Passes
<1> DEFINE started == Started(k)
<1> HIDE DEF started
<1>6. HelpersInv'
  <2>1. /\ started \in Seq(Addrs) /\ IsInjective(started)
        /\ \A a \in Range(started) : a \in Listed /\ a \in Live \ gone /\ Registered(a)
        /\ \A a \in Live' : a \in Listed' <=> a \in Listed /\ a \notin Range(started)
        /\ mail' = Activated(started)
    BY <1>1, <1>3, <1>4, <1>5 DEF started
  <2> QED
    BY <1>1, <2>1, StartStep
<1> QED
  BY <1>1, <1>2, <1>6

(* A download waits in the queue, or holds a slot: the counts are those of  *)
(* the transfers that hold one.                                             *)
LEMMA Counted ==
    QueueInv /\ HeapInv => (SlotsCounted <=> /\ active_downloads = Cardinality(Downloads)
                                             /\ active_uploads = Cardinality(Uploads))
<1> SUFFICES ASSUME QueueInv, HeapInv
             PROVE  SlotsCounted <=> /\ active_downloads = Cardinality(Downloads)
                                     /\ active_uploads = Cardinality(Uploads)
  OBVIOUS
<1>1. ASSUME NEW a \in Live, IsDownload(a) PROVE Queued(a) <=> a \in Range(q)
  <2>1. CASE a \in Range(q)
    <3>1. PICK i \in 1 .. Len(q) : q[i] = a
      BY <2>1, InQueue DEF QueueInv
    <3>2. DOMAIN q = 1 .. Len(q) /\ Len(q) \in Nat
      BY InQueue DEF QueueInv
    <3>3. transfer[a].position = i
      BY <3>1, <3>2 DEF HeapInv, Places
    <3> QED
      BY <1>1, <2>1, <3>2, <3>3 DEF Queued
  <2>2. CASE a \notin Range(q)
    <3>1. transfer[a].position = 0
      BY <2>2 DEF HeapInv, Places
    <3> QED
      BY <2>2, <3>1 DEF Queued
  <2> QED
    BY <2>1, <2>2
<1>2. {a \in Live : IsDownload(a) /\ ~Queued(a)} = Downloads
  BY <1>1 DEF Downloads
<1> QED
  BY <1>2 DEF SlotsCounted, Uploads

LEMMA LeavingCount ==
    ASSUME Counters, Places, NEW k \in 0 .. Len(q)
    PROVE  IsFiniteSet(Range(Leaving(k))) /\ Cardinality(Range(Leaving(k))) = k
<1> DEFINE l == Leaving(k)
           S == Range(l)
<1>1. l \in Seq(Addrs) /\ Len(l) = k /\ IsInjective(l) /\ k \in Nat
  BY LeavingIs, InQueue
<1> HIDE DEF l
<1>2. DOMAIN l = 1 .. k /\ \A a : a \in S <=> \E i \in 1 .. k : l[i] = a
  BY <1>1, InList
<1> HIDE DEF S
<1>3. l \in [1 .. k -> S]
  BY <1>1, <1>2
<1>4. l \in Bijection(1 .. k, S)
  <2>1. l \in Injection(1 .. k, S)
    <3>1. \A i, j \in 1 .. k : l[i] = l[j] => i = j
      BY <1>1, <1>2 DEF IsInjective
    <3> QED
      BY <1>2, <1>3, <3>1 DEF Injection, IsInjective
  <2>2. l \in Surjection(1 .. k, S)
    BY <1>2, <1>3 DEF Surjection
  <2> QED
    BY <2>1, <2>2 DEF Bijection
<1>5. ExistsBijection(1 .. k, S)
  BY <1>4 DEF ExistsBijection
<1> QED
  BY <1>1, <1>5, FS_CountingElements, FS_NatBijection DEF S, l

LEMMA FiniteLive == IsFiniteSet(Downloads) /\ IsFiniteSet(Uploads)
<1>1. Downloads \in SUBSET Addrs /\ Uploads \in SUBSET Addrs
  BY DEF Downloads, Uploads, Live
<1> QED
  BY <1>1, TfmAssumption, FS_Subset

LEMMA PassCounts ==
    ASSUME QueueInv, HeapInv, NEW k \in 0 .. Len(q), NEW gone \in SUBSET Live,
           gone \cap Range(q) = {}, \A a \in Range(q) : a \in Live /\ IsDownload(a),
           Live' = Live \ gone, \A a \in Live' : SameTransfer(a),
           Range(q') = Range(q) \ Range(Leaving(k)), Range(Leaving(k)) \subseteq Range(q)
    PROVE  /\ Cardinality(Downloads)' =
                 Cardinality(Downloads) - Cardinality(Downloads \cap gone) + k
           /\ Cardinality(Uploads)' = Cardinality(Uploads) - Cardinality(Uploads \cap gone)
           /\ {Cardinality(Downloads), Cardinality(Uploads)} \subseteq Int
<1> DEFINE left == Range(Leaving(k))
           kept == Downloads \ gone
<1>1. IsFiniteSet(left) /\ Cardinality(left) = k
  BY LeavingCount DEF QueueInv, HeapInv
<1>2. \A a \in Live' : IsDownload(a)' <=> IsDownload(a)
  BY DEF SameTransfer, IsDownload
<1>3. \A a : a \in Downloads' <=> a \in kept \/ a \in left
  BY <1>2 DEF Downloads
<1>4. \A a : a \in Uploads' <=> a \in Uploads /\ a \notin gone
  BY <1>2 DEF Uploads
<1>5. kept \cap left = {}
  BY DEF Downloads
<1> HIDE DEF left
<1>6. /\ IsFiniteSet(kept)
      /\ Cardinality(kept) = Cardinality(Downloads) - Cardinality(Downloads \cap gone)
  BY FiniteLive, FS_Difference
<1>7. Cardinality(Uploads \ gone) = Cardinality(Uploads) - Cardinality(Uploads \cap gone)
  BY FiniteLive, FS_Difference
<1>8. Downloads' = kept \cup left /\ Uploads' = Uploads \ gone
  BY <1>3, <1>4
<1> HIDE DEF kept
<1>9. Cardinality(kept \cup left) =
         Cardinality(kept) + Cardinality(left) - Cardinality(kept \cap left)
  BY <1>1, <1>6, FS_Union
<1>10. Cardinality(kept \cap left) = 0
  BY <1>5, FS_EmptySet
<1>11. Cardinality(kept) \in Nat /\ Cardinality(Downloads) \in Nat /\ Cardinality(Uploads) \in Nat
  BY <1>6, FiniteLive, FS_CardinalityType
<1>12. /\ Cardinality(Downloads)' = Cardinality(kept \cup left)
       /\ Cardinality(Uploads)' = Cardinality(Uploads \ gone)
  BY <1>8
<1> QED
  BY <1>1, <1>6, <1>7, <1>9, <1>10, <1>11, <1>12

LEMMA PassTurn ==
    ASSUME Facts, QueueInv', HeapInv', NEW k \in 0 .. Len(q), NEW gone \in SUBSET Live,
           gone \cap Range(q) = {}, NEW list \in Seq(Addrs), IsInjective(list),
           \A a : a \in Range(list) <=> a \in Range(seq) /\ a \notin gone,
           Passes(k, gone, list), SignalledLater(k, list),
           helper' = [h \in Helpers |-> helper'[h]],
           \A h \in Helpers : helper'[h] # helper[h] =>
              /\ helper'[h].at = "pool" /\ helper[h].at = "run"
              /\ \E a \in gone : transfer[a].thread = h,
           \A a \in gone, h \in Helpers : transfer[a].thread = h =>
              a \in Listed \/ (helper'[h].at = "pool" /\ helper[h].at = "run"),
           active_downloads' = active_downloads - Cardinality(Downloads \cap gone) + k,
           active_uploads' = active_uploads - Cardinality(Uploads \cap gone),
           fault' = "none", UNCHANGED cancelling
    PROVE  TurnInv'
<1>1. ListsInv' /\ HelpersInv' /\ FilesInv'
  BY PassHelpers DEF Facts
<1>2. SlotsCounted'
  <2>1. /\ Live' = Live \ gone /\ \A a \in Live' : SameTransfer(a)
        /\ Range(q') = Range(q) \ Range(Leaving(k))
        /\ Range(Leaving(k)) \subseteq Range(q)
    BY PassLists DEF Facts
  <2>2. \A a \in Range(q) : a \in Live /\ IsDownload(a)
    BY DEF Facts, TurnInv, ListsInv
  <2>3. /\ Cardinality(Downloads)' = Cardinality(Downloads) - Cardinality(Downloads \cap gone) + k
        /\ Cardinality(Uploads)' = Cardinality(Uploads) - Cardinality(Uploads \cap gone)
    BY <2>1, <2>2, PassCounts DEF Facts
  <2>4. active_downloads = Cardinality(Downloads) /\ active_uploads = Cardinality(Uploads)
    BY Counted DEF Facts, TurnInv
  <2>5. (QueueInv /\ HeapInv => (SlotsCounted <=> /\ active_downloads = Cardinality(Downloads)
                                                  /\ active_uploads = Cardinality(Uploads)))'
    BY Counted, PTL
  <2> QED
    BY <2>3, <2>4, <2>5
<1> QED
  BY <1>1, <1>2 DEF Facts, TurnInv, InTurn

\* the slot of one transfer outside the queue
LEMMA OneGone ==
    ASSUME NEW a \in Live, a \notin Range(q)
    PROVE  /\ Cardinality(Downloads \cap {a}) = IF IsDownload(a) THEN 1 ELSE 0
           /\ Cardinality(Uploads \cap {a}) = IF IsDownload(a) THEN 0 ELSE 1
<1>1. CASE IsDownload(a)
  <2>1. Downloads \cap {a} = {a} /\ Uploads \cap {a} = {}
    BY <1>1 DEF Downloads, Uploads
  <2> QED
    BY <1>1, <2>1, FS_Singleton, FS_EmptySet
<1>2. CASE ~IsDownload(a)
  <2>1. Downloads \cap {a} = {} /\ Uploads \cap {a} = {a}
    BY <1>2 DEF Downloads, Uploads
  <2> QED
    BY <1>2, <2>1, FS_Singleton, FS_EmptySet
<1> QED
  BY <1>1, <1>2

LEMMA TurnReload ==
    ASSUME Facts, QueueInv', HeapInv', Reload
    PROVE  TurnInv'
<1>1. PICK enable \in BOOLEAN, down \in Limits, up \in Limits :
         tfm_init(enable, down, up)
  BY DEF Reload
<1> DEFINE k == Openings(max_downloads', active_downloads)
<1>2. max_downloads' \in Int /\ active_downloads \in Int /\ active_uploads \in Int
  <2>1. down \in Nat \cup {-1} /\ max_downloads' = IF down >= 0 THEN down ELSE max_downloads
    BY <1>1, TfmAssumption DEF tfm_init
  <2> QED
    BY <2>1 DEF Facts, QueueInv, Counters
<1>3. k \in 0 .. Len(q)
  BY <1>2, OpeningsFill DEF Facts, QueueInv
<1>4. ~QueueBroken(k)
  BY DEF QueueBroken, Facts, TurnInv, ListsInv
<1>5. /\ active_downloads' = active_downloads + k
      /\ q' = SubSeq(q, k + 1, Len(q)) /\ seq' = seq \o Sequestered(k)
      /\ monitor' = MonitorFor(seq, Sequestered(k))
      /\ mail' = Activated(Started(k)) /\ transfer' = MovedUp(k)
      /\ UNCHANGED <<ttbl, active_uploads, fault, helper, cancelling>>
  BY <1>1, <1>4 DEF tfm_init, Reload
<1> HIDE DEF k
<1> DEFINE gone == {}
<1>6. transfer' = [b \in Addrs |-> IF b \in gone THEN Freed ELSE MovedUp(k)[b]]
  <2>1. MovedUp(k) = [b \in Addrs |-> MovedUp(k)[b]]
    BY DEF MovedUp
  <2> QED
    BY <1>5, <2>1
<1>7. Passes(k, gone, seq) /\ SignalledLater(k, seq)
  BY <1>5, <1>6 DEF Passes, SignalledLater
<1>8. Cardinality(Downloads \cap gone) = 0 /\ Cardinality(Uploads \cap gone) = 0
  BY FS_EmptySet
<1>9. /\ active_downloads' = active_downloads - Cardinality(Downloads \cap gone) + k
      /\ active_uploads' = active_uploads - Cardinality(Uploads \cap gone)
  <2> HIDE DEF gone
  <2> QED
    BY <1>2, <1>3, <1>5, <1>8
<1>10. seq \in Seq(Addrs) /\ IsInjective(seq) /\ helper = [h \in Helpers |-> helper[h]]
       /\ fault = "none"
  BY DEF Facts, SeqInv, TurnInv, ListsInv, HelpersInv
<1>11. /\ helper' = [h \in Helpers |-> helper'[h]] /\ fault' = "none" /\ UNCHANGED cancelling
       /\ \A h \in Helpers : helper'[h] = helper[h]
  BY <1>5, <1>10
<1>12. /\ gone \in SUBSET Live /\ gone \cap Range(q) = {}
       /\ \A a : a \in Range(seq) <=> a \in Range(seq) /\ a \notin gone
       /\ \A a \in gone : FALSE
  OBVIOUS
<1> HIDE DEF gone
<1> QED
  BY <1>3, <1>7, <1>9, <1>10, <1>11, <1>12, PassTurn

(* A running helper finds its transfer by its identifier, and outside the   *)
(* lists.                                                                   *)
LEMMA Carried ==
    ASSUME Facts, NEW h \in Helpers, helper[h].at = "run"
    PROVE  \E a \in Live : /\ transfer[a].thread = h /\ Lookup(helper[h].tid) = {a}
                           /\ a \notin Listed /\ Registered(a)
                           /\ helper[h].job = Job(a)
<1>1. PICK a \in Live : transfer[a].thread = h
  BY DEF Facts, TurnInv, HelpersInv, Carries
<1>2. ServedBy(a, h) /\ Registered(a)
  BY <1>1, OneHelper, LiveIs DEF Facts
<1>3. helper[h].tid = transfer[a].tid /\ a \notin Listed /\ helper[h].job = Job(a)
  BY <1>2 DEF ServedBy
<1>4. \A b \in Live : b # a => transfer[b].tid # transfer[a].tid
  BY DEF Facts, HeapInv, Ids, DistinctTids
<1>5. Lookup(helper[h].tid) = {a}
  BY <1>3, <1>4 DEF Lookup, Facts, TurnInv, ListsInv
<1> QED
  BY <1>1, <1>2, <1>3, <1>5

\* the slot that one transfer gives up
LEMMA ReleaseIs ==
    ASSUME Facts, NEW a \in Live, a \notin Range(q), ReleaseSlot(a)
    PROVE  /\ active_downloads' = active_downloads - Cardinality(Downloads \cap {a}) + Claims(a)
           /\ active_uploads' = active_uploads - Cardinality(Uploads \cap {a})
           /\ Claims(a) \in 0 .. Len(q) /\ ~QueueBroken(Claims(a))
<1>1. Claims(a) \in 0 .. Len(q) /\ Len(q) \in Nat
  BY ClaimsOne, InQueue DEF Facts, QueueInv
<1>2. ~IsDownload(a) => Claims(a) = 0
  BY DEF Claims
<1>3. active_downloads \in Int /\ active_uploads \in Int
  BY DEF Facts, QueueInv, Counters
<1>4. ~QueueBroken(Claims(a))
  BY DEF QueueBroken, Facts, TurnInv, ListsInv
<1>5. /\ active_downloads' = active_downloads - (IF IsDownload(a) THEN 1 - Claims(a) ELSE 0)
      /\ active_uploads' = active_uploads - (IF IsDownload(a) THEN 0 ELSE 1)
  BY DEF ReleaseSlot
<1>6. /\ Cardinality(Downloads \cap {a}) = IF IsDownload(a) THEN 1 ELSE 0
      /\ Cardinality(Uploads \cap {a}) = IF IsDownload(a) THEN 0 ELSE 1
  BY OneGone
<1>7. CASE IsDownload(a)
  BY <1>1, <1>3, <1>4, <1>5, <1>6, <1>7
<1>8. CASE ~IsDownload(a)
  BY <1>1, <1>2, <1>3, <1>4, <1>5, <1>6, <1>8
<1> QED
  BY <1>7, <1>8

LEMMA TurnFinish ==
    ASSUME Facts, QueueInv', HeapInv', NEW h \in Helpers, Finish(h)
    PROVE  TurnInv'
<1>1. helper[h].at = "run" /\ tfm_remove(helper[h].tid)
      /\ helper' = [helper EXCEPT ![h] = [at |-> "pool"]] /\ UNCHANGED cancelling
  BY DEF Finish
<1>2. PICK a \in Live : /\ transfer[a].thread = h /\ Lookup(helper[h].tid) = {a}
                        /\ a \notin Listed /\ Registered(a)
  BY <1>1, Carried
<1>3. RemoveActive(a, seq)
  BY <1>1, <1>2 DEF tfm_remove
<1> DEFINE k == Claims(a)
           gone == {a}
<1>4. a \notin Range(q) /\ a \notin Range(seq)
  BY <1>2 DEF Listed
<1>5. ~QueueBroken(k) /\ k \in 0 .. Len(q)
  <2>1. k \in 0 .. Len(q)
    BY ClaimsOne DEF Facts, QueueInv
  <2> QED
    BY <2>1 DEF QueueBroken, Facts, TurnInv, ListsInv
<1>6. /\ ReleaseSlot(a) /\ q' = SubSeq(q, k + 1, Len(q)) /\ seq' = seq \o Sequestered(k)
      /\ monitor' = MonitorFor(seq, Sequestered(k)) /\ mail' = Activated(Started(k))
      /\ transfer' = Destroyed(MovedUp(k), a) /\ ttbl' = ttbl \ {a} /\ UNCHANGED fault
  BY <1>3, <1>5 DEF RemoveActive
<1> HIDE DEF k
<1>7. transfer' = [b \in Addrs |-> IF b \in gone THEN Freed ELSE MovedUp(k)[b]]
  <2>1. MovedUp(k) = [b \in Addrs |-> MovedUp(k)[b]]
    BY DEF MovedUp
  <2> QED
    BY <1>6, <2>1 DEF Destroyed
<1>8. Passes(k, gone, seq) /\ SignalledLater(k, seq)
  BY <1>6, <1>7 DEF Passes, SignalledLater
<1>9. /\ active_downloads' = active_downloads - Cardinality(Downloads \cap gone) + k
      /\ active_uploads' = active_uploads - Cardinality(Uploads \cap gone)
  BY <1>4, <1>6, ReleaseIs DEF k
<1>10. seq \in Seq(Addrs) /\ IsInjective(seq) /\ helper = [g \in Helpers |-> helper[g]]
       /\ fault = "none"
  BY DEF Facts, SeqInv, TurnInv, ListsInv, HelpersInv
<1>11. /\ helper' = [g \in Helpers |-> helper'[g]] /\ helper'[h].at = "pool"
       /\ \A g \in Helpers : helper'[g] # helper[g] => g = h
       /\ fault' = "none"
  BY <1>1, <1>6, <1>10
<1>12. /\ gone \in SUBSET Live /\ gone \cap Range(q) = {}
       /\ \A b : b \in Range(seq) <=> b \in Range(seq) /\ b \notin gone
       /\ \A b \in gone : transfer[b].thread = h
       /\ \E b \in gone : transfer[b].thread = h
  BY <1>2, <1>4
<1> HIDE DEF gone
<1>13. /\ \A g \in Helpers : helper'[g] # helper[g] =>
            /\ helper'[g].at = "pool" /\ helper[g].at = "run"
            /\ \E b \in gone : transfer[b].thread = g
       /\ \A b \in gone, g \in Helpers : transfer[b].thread = g =>
            b \in Listed \/ (helper'[g].at = "pool" /\ helper[g].at = "run")
  BY <1>1, <1>11, <1>12
<1> QED
  BY <1>1, <1>5, <1>8, <1>9, <1>10, <1>11, <1>12, <1>13, PassTurn

(* The first of the list, while there is a monitor thread. *)
LEMMA FirstIs ==
    ASSUME Facts, monitor # "none"
    PROVE  /\ seq \in Seq(Addrs) /\ seq # <<>> /\ IsInjective(seq)
           /\ Head(seq) \in Live /\ Head(seq) \in Range(seq) /\ Head(seq) \notin Range(q)
<1>1. seq \in Seq(Addrs) /\ seq # <<>> /\ IsInjective(seq)
  BY DEF Facts, SeqInv, MonitorWatches, TurnInv, ListsInv
<1>2. Head(seq) \in Range(seq)
  BY <1>1, TailOf
<1> QED
  BY <1>1, <1>2 DEF Facts, TurnInv, ListsInv

LEMMA TurnDrop ==
    ASSUME Facts, QueueInv', HeapInv', Drop
    PROVE  TurnInv'
<1> DEFINE a == Head(seq)
           k == Claims(a)
           gone == {a}
           list == Tail(seq)
<1>1. monitor = "timed_out" /\ UNCHANGED <<helper, cancelling>>
  BY DEF Drop
<1>2. /\ seq \in Seq(Addrs) /\ seq # <<>> /\ IsInjective(seq)
      /\ a \in Live /\ a \in Range(seq) /\ a \notin Range(q)
  BY <1>1, FirstIs
<1>3. k \in 0 .. Len(q) /\ ~QueueBroken(k)
  <2>1. k \in 0 .. Len(q)
    BY ClaimsOne DEF Facts, QueueInv
  <2> QED
    BY <2>1 DEF QueueBroken, Facts, TurnInv, ListsInv
<1>4. /\ ReleaseSlot(a) /\ ttbl' = ttbl \ {a} /\ q' = SubSeq(q, k + 1, Len(q))
      /\ mail' = Activated(Started(k))
      /\ NextSequestered(Tail(seq \o Sequestered(k)), Destroyed(MovedUp(k), a))
  BY <1>2, <1>3 DEF Drop
<1>5. /\ list \in Seq(Addrs) /\ IsInjective(list)
      /\ \A b : b \in Range(list) <=> b \in Range(seq) /\ b \notin gone
  <2>1. /\ list \in Seq(Addrs) /\ IsInjective(list)
        /\ \A b : b \in Range(list) <=> b \in Range(seq) /\ b # a
    BY <1>2, TailOf
  <2> QED
    BY <2>1
<1>6. Tail(seq \o Sequestered(k)) = list \o Sequestered(k)
  BY <1>2, <1>3, SequesteredIs, TailConcat DEF Facts, QueueInv
<1> HIDE DEF a, k, list
<1> DEFINE heap == Destroyed(MovedUp(k), a)
           rest == list \o Sequestered(k)
<1>7. /\ seq' = rest /\ transfer' = heap /\ monitor' # "signalled"
      /\ fault' = IF rest # <<>> /\ heap[Head(rest)] = Freed THEN "use_after_free" ELSE "none"
  BY <1>4, <1>6 DEF NextSequestered
<1>8. heap = [b \in Addrs |-> IF b \in gone THEN Freed ELSE MovedUp(k)[b]]
  <2>1. MovedUp(k) = [b \in Addrs |-> MovedUp(k)[b]]
    BY DEF MovedUp
  <2> QED
    BY <2>1 DEF Destroyed
<1> HIDE DEF heap, rest
<1>9. Passes(k, gone, list) /\ SignalledLater(k, list)
  BY <1>4, <1>7, <1>8 DEF Passes, SignalledLater, rest
<1>10. /\ active_downloads' = active_downloads - Cardinality(Downloads \cap gone) + k
       /\ active_uploads' = active_uploads - Cardinality(Uploads \cap gone)
  BY <1>2, <1>4, ReleaseIs DEF k
<1>11. /\ gone \in SUBSET Live /\ gone \cap Range(q) = {}
       /\ \A b \in gone : b \in Listed
  BY <1>2 DEF Listed
<1> HIDE DEF gone
<1>12. Live' = Live \ gone /\ ListsInv'
  BY <1>3, <1>5, <1>9, <1>11, PassLists DEF Facts
<1>13. fault' = "none"
  <2>1. SUFFICES ASSUME rest # <<>>, heap[Head(rest)] = Freed PROVE FALSE
    BY <1>7
  <2>2. seq' \in Seq(Addrs) /\ IsInjective(seq')
    <3>1. Sequestered(k) \in Seq(Addrs)
      BY <1>3, SequesteredIs DEF Facts, QueueInv
    <3>2. rest \in Seq(Addrs)
      BY <1>5, <3>1, ConcatProperties DEF rest
    <3> QED
      BY <1>7, <1>12, <3>2 DEF ListsInv
  <2>3. Head(seq') \in Range(seq')
    <3> DEFINE s == seq'
    <3>1. s \in Seq(Addrs) /\ IsInjective(s) /\ s # <<>>
      BY <1>7, <2>1, <2>2
    <3> HIDE DEF s
    <3>2. Head(s) \in Range(s)
      BY <3>1, TailOf
    <3> QED
      BY <3>2 DEF s
  <2>4. Head(seq') \in Live'
    BY <1>12, <2>3 DEF ListsInv
  <2> QED
    BY <1>7, <2>1, <2>4 DEF Live
<1>14. helper = [h \in Helpers |-> helper[h]]
  BY DEF Facts, TurnInv, HelpersInv
<1>15. /\ helper' = [h \in Helpers |-> helper'[h]] /\ UNCHANGED cancelling
       /\ \A h \in Helpers : helper'[h] = helper[h]
  BY <1>1, <1>14
<1> QED
  BY <1>3, <1>5, <1>9, <1>10, <1>11, <1>13, <1>15, PassTurn

\* a step that destroys nothing and leaves the queue and the counts alone
LEMMA SlotsStill ==
    ASSUME Facts, QueueInv', HeapInv', Live' = Live,
           \A a \in Live : transfer'[a].type = transfer[a].type,
           UNCHANGED <<q, active_downloads, active_uploads>>
    PROVE  SlotsCounted'
<1>1. \A a \in Live : IsDownload(a)' <=> IsDownload(a)
  BY DEF IsDownload
<1>2. Downloads' = Downloads /\ Uploads' = Uploads
  BY <1>1 DEF Downloads, Uploads
<1>3. active_downloads = Cardinality(Downloads) /\ active_uploads = Cardinality(Uploads)
  BY Counted DEF Facts, TurnInv
<1>4. /\ Cardinality(Downloads)' = Cardinality(Downloads)
      /\ Cardinality(Uploads)' = Cardinality(Uploads)
  BY <1>2
<1>5. (QueueInv /\ HeapInv => (SlotsCounted <=> /\ active_downloads = Cardinality(Downloads)
                                                /\ active_uploads = Cardinality(Uploads)))'
  BY Counted, PTL
<1> QED
  BY <1>3, <1>4, <1>5

LEMMA TurnBegin ==
    ASSUME Facts, QueueInv', HeapInv', Begin
    PROVE  TurnInv'
<1> DEFINE a == Head(seq)
<1>1. monitor = "signalled" /\ UNCHANGED <<helper, cancelling>>
  BY DEF Begin
<1>2. /\ seq \in Seq(Addrs) /\ seq # <<>> /\ IsInjective(seq)
      /\ a \in Live /\ a \in Range(seq) /\ a \notin Range(q) /\ a \in Addrs
  BY <1>1, FirstIs, LiveIs DEF Facts
<1>3. Registered(a)
  BY <1>1 DEF Facts, TurnInv, ListsInv
<1>4. /\ mail' = Activated(<<a>>) /\ seq' = Tail(seq) /\ transfer' = transfer
      /\ monitor' # "signalled"
      /\ fault' = IF seq' # <<>> /\ transfer[Head(seq')] = Freed THEN "use_after_free" ELSE "none"
      /\ UNCHANGED <<ttbl, q, active_downloads, active_uploads>>
  BY <1>2, <1>3 DEF Begin, NextSequestered
<1>5. /\ seq' \in Seq(Addrs) /\ IsInjective(seq')
      /\ \A b : b \in Range(seq') <=> b \in Range(seq) /\ b # a
  BY <1>2, <1>4, TailOf
<1>6. Live' = Live /\ \A b \in Live' : SameTransfer(b)
  BY <1>4 DEF Live, SameTransfer
<1>7. ListsInv'
  BY <1>4, <1>5, <1>6 DEF Facts, TurnInv, ListsInv, IsDownload
<1> DEFINE started == <<a>>
           gone == {}
<1>8. started \in Seq(Addrs) /\ IsInjective(started) /\ \A b : b \in Range(started) <=> b = a
  BY <1>2 DEF IsInjective, Range
<1>9. \A b \in Live' : b \in Listed' <=> b \in Listed /\ b \notin Range(started)
  BY <1>2, <1>4, <1>5, <1>8 DEF Listed
<1>10. \A b \in Range(started) : b \in Listed /\ b \in Live \ gone /\ Registered(b)
  BY <1>2, <1>3, <1>8 DEF Listed
<1>11. mail' = Activated(started)
  BY <1>4
<1>12. /\ helper' = [h \in Helpers |-> helper'[h]]
       /\ \A h \in Helpers : helper'[h] = helper[h]
  BY <1>1 DEF Facts, TurnInv, HelpersInv
<1>13. gone \in SUBSET Live /\ Live' = Live \ gone /\ \A b \in gone : FALSE
  BY <1>6
<1>14. HelpersInv'
  <2> HIDE DEF started, gone
  <2> QED
    BY <1>6, <1>8, <1>9, <1>10, <1>11, <1>12, <1>13, StartStep DEF Facts
<1>15. FilesInv' /\ SlotsCounted'
  BY <1>4, <1>6, FilesStill, SlotsStill DEF Facts, TurnInv, SameTransfer
<1>16. fault' = "none"
  <2>1. SUFFICES ASSUME seq' # <<>>, transfer[Head(seq')] = Freed PROVE FALSE
    BY <1>4
  <2> DEFINE s == seq'
  <2>2. s \in Seq(Addrs) /\ IsInjective(s) /\ s # <<>>
    BY <1>5, <2>1
  <2> HIDE DEF s
  <2>3. Head(s) \in Range(s)
    BY <2>2, TailOf
  <2>4. Head(seq') \in Live'
    BY <1>7, <2>3 DEF s, ListsInv
  <2> QED
    BY <1>6, <2>1, <2>4 DEF Live
<1> QED
  BY <1>1, <1>7, <1>14, <1>15, <1>16 DEF Facts, TurnInv, InTurn

LEMMA TurnReceive ==
    ASSUME Facts, QueueInv', HeapInv', NEW h \in Helpers, Receive(h)
    PROVE  TurnInv'
<1>1. /\ helper[h].at = "wait" /\ mail[h] # <<>>
      /\ helper' = [helper EXCEPT ![h] =
                     [at |-> "run", tid |-> helper[h].tid, job |-> Head(mail[h])]]
      /\ mail' = [mail EXCEPT ![h] = Tail(mail[h])]
      /\ UNCHANGED <<transfer, ttbl, q, seq, active_downloads, active_uploads, monitor,
                     fault, cancelling>>
  BY DEF Receive
<1>2. PICK a \in Live : transfer[a].thread = h /\ mail[h] = <<Job(a)>>
  BY <1>1, OneHelper DEF Facts
<1>3. ServedBy(a, h) /\ \A b \in Live : transfer[b].thread = h => b = a
  BY <1>2, OneHelper DEF Facts
<1>4. helper[h].tid = transfer[a].tid /\ a \notin Listed
  BY <1>1, <1>3 DEF ServedBy
<1>5. Head(mail[h]) = Job(a) /\ Tail(mail[h]) = <<>>
  <2> DEFINE job == Job(a)
  <2> HIDE DEF job
  <2>1. Head(<<job>>) = job /\ Tail(<<job>>) = <<>>
    OBVIOUS
  <2> QED
    BY <1>2, <2>1 DEF job
<1>6. helper = [g \in Helpers |-> helper[g]] /\ mail = [g \in Helpers |-> mail[g]]
  BY DEF Facts, TurnInv, HelpersInv
<1>7. /\ helper'[h].at = "run" /\ helper'[h].tid = transfer[a].tid
      /\ helper'[h].job = Job(a) /\ mail'[h] = <<>>
      /\ \A g \in Helpers : g # h => helper'[g] = helper[g] /\ mail'[g] = mail[g]
      /\ helper' = [g \in Helpers |-> helper'[g]] /\ mail' = [g \in Helpers |-> mail'[g]]
  BY <1>1, <1>4, <1>5, <1>6
<1>8. Live' = Live /\ Listed' = Listed /\ \A b \in Live : SameTransfer(b)
  BY <1>1 DEF Live, Listed, SameTransfer
<1>9. ASSUME NEW b \in Live PROVE Served(b)'
  <2>1. CASE b = a
    <3>1. ~Registered(b)' => b \in Listed'
      BY <1>1, <1>8, <1>9 DEF Registered, Facts, TurnInv, HelpersInv, Served
    <3>2. ASSUME NEW g \in Helpers, transfer'[b].thread = g PROVE ServedBy(b, g)'
      <4>1. g = h
        BY <1>1, <1>2, <2>1, <3>2
      <4>2. Job(b)' = Job(a)
        BY <1>1, <2>1 DEF Job
      <4> QED
        BY <1>1, <1>4, <1>7, <1>8, <2>1, <4>1, <4>2 DEF ServedBy
    <3> QED
      BY <3>1, <3>2 DEF Served
  <2>2. CASE b # a
    <3>1. transfer[b].thread # h
      BY <1>3, <2>2
    <3>2. Served(b)
      BY DEF Facts, TurnInv, HelpersInv
    <3> QED
      BY <1>7, <1>8, <3>1, <3>2, ServedStill
  <2> QED
    BY <2>1, <2>2
<1>10. ASSUME NEW g \in Helpers PROVE Carries(g)'
  <2>1. CASE g = h
    BY <1>1, <1>2, <1>8, <2>1 DEF Carries
  <2>2. CASE g # h
    BY <1>1, <1>7, <1>8, <2>2 DEF Carries, Facts, TurnInv, HelpersInv
  <2> QED
    BY <2>1, <2>2
<1>11. HelpersInv'
  BY <1>7, <1>8, <1>9, <1>10 DEF HelpersInv
<1>12. ListsInv'
  BY <1>1, <1>8 DEF ListsInv, Registered, IsDownload, Facts, TurnInv
<1>13. FilesInv' /\ SlotsCounted'
  BY <1>1, <1>8, FilesStill, SlotsStill DEF Facts, TurnInv, SameTransfer
<1> QED
  BY <1>1, <1>11, <1>12, <1>13 DEF Facts, TurnInv, InTurn

LEMMA TurnRegister ==
    ASSUME Facts, QueueInv', HeapInv', NEW h \in Helpers, DataConnect(h)
    PROVE  TurnInv'
<1>1. PICK a \in ttbl : (Queued(a) \/ First(a)) /\ tfm_register(h, a)
  BY DEF DataConnect, Facts, TurnInv, InTurn
<1>2. /\ helper[h].at = "pool" /\ ~Registered(a)
      /\ transfer' = [transfer EXCEPT ![a].thread = h]
      /\ helper' = [helper EXCEPT ![h] = [at |-> "wait", tid |-> transfer[a].tid]]
      /\ monitor' = monitor \/ First(a)
      /\ UNCHANGED <<ttbl, q, seq, mail, active_downloads, active_uploads, fault, cancelling>>
  BY <1>1 DEF tfm_register
<1>3. a \in Live /\ a \in Addrs /\ transfer[a] \in Transfers /\ transfer[a].thread \notin Helpers
  BY <1>2, LiveIs DEF Facts, TurnInv, ListsInv
<1>4. /\ transfer'[a] = [transfer[a] EXCEPT !.thread = h]
      /\ \A b \in Addrs : b # a => transfer'[b] = transfer[b]
  BY <1>2, <1>3 DEF Facts, HeapInv, HeapTypes
<1>5. /\ transfer'[a] \in Transfers /\ transfer'[a].thread = h
      /\ transfer'[a].tid = transfer[a].tid /\ transfer'[a].type = transfer[a].type
      /\ transfer'[a].file = transfer[a].file
  BY <1>3, <1>4 DEF Transfers
<1>6. Live' = Live /\ Listed' = Listed
  BY <1>2, <1>3, <1>4, <1>5, FreedIsNoTransfer DEF Live, Listed
<1>7. \A b \in Live : b # a => SameTransfer(b)
  BY <1>4, LiveIs DEF SameTransfer, Facts
<1>8. h # NoHelper
  BY TfmAssumption
<1>9. \A b \in Live : Registered(b) \/ b = a => Registered(b)'
  BY <1>5, <1>7, <1>8 DEF Registered, SameTransfer
<1>10. ListsInv'
  <2>1. \A b \in Live : IsDownload(b)' <=> IsDownload(b)
    BY <1>5, <1>7 DEF IsDownload, SameTransfer
  <2>2. ASSUME monitor' = "signalled" PROVE Registered(Head(seq))'
    <3>1. seq # <<>>
      BY <1>2, <2>2 DEF First, Facts, SeqInv, MonitorWatches
    <3>2. Head(seq) \in Range(seq)
      BY <3>1, TailOf DEF Facts, TurnInv, ListsInv, SeqInv
    <3>3. PICK first \in Live : first = Head(seq)
      BY <3>2 DEF Facts, TurnInv, ListsInv
    <3>4. Registered(first) \/ first = a
      BY <1>2, <2>2, <3>3 DEF First, Facts, TurnInv, ListsInv
    <3>5. seq' = seq
      BY <1>2
    <3>6. Registered(first)'
      BY <1>9, <3>3, <3>4
    <3> QED
      BY <3>3, <3>5, <3>6 DEF Registered
  <2> QED
    BY <1>2, <1>6, <2>1, <2>2 DEF Facts, TurnInv, ListsInv
<1>11. helper = [g \in Helpers |-> helper[g]] /\ mail = [g \in Helpers |-> mail[g]]
  BY DEF Facts, TurnInv, HelpersInv
<1>12. /\ helper'[h].at = "wait" /\ helper'[h].tid = transfer[a].tid
       /\ \A g \in Helpers : g # h => helper'[g] = helper[g]
       /\ helper' = [g \in Helpers |-> helper'[g]] /\ mail' = [g \in Helpers |-> mail'[g]]
  BY <1>2, <1>11
<1>13. mail[h] = <<>> /\ \A b \in Live : transfer[b].thread # h
  BY <1>2, OneHelper DEF Facts
<1>14. ASSUME NEW b \in Live PROVE Served(b)'
  <2>1. Served(b)
    BY DEF Facts, TurnInv, HelpersInv
  <2>2. CASE b = a
    <3>1. b \in Listed
      BY <1>2, <2>1, <2>2 DEF Served
    <3>2. ASSUME NEW g \in Helpers, transfer'[b].thread = g PROVE ServedBy(b, g)'
      <4>1. g = h
        BY <1>5, <2>2, <3>2
      <4> QED
        BY <1>2, <1>5, <1>6, <1>12, <1>13, <2>2, <3>1, <4>1 DEF ServedBy
    <3> QED
      BY <1>6, <3>1, <3>2 DEF Served
  <2>3. CASE b # a
    BY <1>2, <1>6, <1>7, <1>12, <1>13, <2>1, <2>3, ServedStill
  <2> QED
    BY <2>2, <2>3
<1>15. ASSUME NEW g \in Helpers PROVE Carries(g)'
  <2>1. CASE g = h
    BY <1>3, <1>5, <1>6, <2>1 DEF Carries
  <2>2. CASE g # h
    <3>1. Carries(g) /\ helper'[g] = helper[g] /\ mail'[g] = mail[g]
      BY <1>2, <1>12, <2>2 DEF Facts, TurnInv, HelpersInv
    <3>2. \A b \in Live : transfer[b].thread = g => transfer'[b].thread = g
      BY <1>3, <1>7 DEF SameTransfer
    <3> QED
      BY <1>6, <3>1, <3>2 DEF Carries
  <2> QED
    BY <2>1, <2>2
<1>16. HelpersInv'
  BY <1>6, <1>12, <1>14, <1>15 DEF HelpersInv
<1>17. \A b \in Live : /\ transfer'[b].type = transfer[b].type
                       /\ transfer'[b].file = transfer[b].file
  BY <1>5, <1>7 DEF SameTransfer
<1>18. FilesInv' /\ SlotsCounted'
  BY <1>2, <1>6, <1>17, FilesStill, SlotsStill DEF Facts, TurnInv
<1> QED
  BY <1>2, <1>10, <1>16, <1>18 DEF Facts, TurnInv, InTurn

LEMMA AppendOf ==
    ASSUME NEW s \in Seq(Addrs), NEW a \in Addrs, a \notin Range(s), IsInjective(s)
    PROVE  /\ Append(s, a) \in Seq(Addrs) /\ IsInjective(Append(s, a))
           /\ \A b : b \in Range(Append(s, a)) <=> b \in Range(s) \/ b = a
           /\ s # <<>> => Head(Append(s, a)) = Head(s)
<1> DEFINE t == <<a>>
<1>1. t \in Seq(Addrs) /\ IsInjective(t) /\ Range(t) = {a}
  BY DEF IsInjective, Range
<1>2. Append(s, a) = s \o t
  BY AppendIsConcat
<1> HIDE DEF t
<1>3. /\ Append(s, a) \in Seq(Addrs) /\ IsInjective(Append(s, a))
      /\ Range(Append(s, a)) = Range(s) \cup {a}
  BY <1>1, <1>2, InjectiveConcat
<1>4. s # <<>> => Head(Append(s, a)) = Head(s)
  OBVIOUS
<1> QED
  BY <1>3, <1>4

\* what is added is new to the lists, and nobody carries it
Arrives(a) == /\ a \in NewAddrs /\ Live' = Live \cup {a}
              /\ \A b \in Live : transfer'[b] = transfer[b]
              /\ transfer'[a].thread = NoHelper
              /\ ttbl' = ttbl \cup {a}
              /\ UNCHANGED <<helper, mail, fault, cancelling>>

LEMMA ArrivesHelpers ==
    ASSUME Facts, NEW a, Arrives(a), \A b \in Live' : b \in Listed' <=> b \in Listed \/ b = a
    PROVE  HelpersInv'
<1>1. \A b \in Live : SameTransfer(b) /\ b # a
  BY DEF Arrives, SameTransfer, NewAddrs
<1>2. ASSUME NEW b \in Live PROVE Served(b)'
  <2>1. Served(b) /\ SameTransfer(b) /\ (b \in Listed' <=> b \in Listed)
    BY <1>1 DEF Facts, TurnInv, HelpersInv, Arrives
  <2> QED
    BY <2>1, ServedStill DEF Arrives
<1>3. Served(a)'
  BY TfmAssumption DEF Served, Arrives
<1>4. ASSUME NEW g \in Helpers PROVE Carries(g)'
  BY DEF Carries, Arrives, Facts, TurnInv, HelpersInv
<1> QED
  BY <1>2, <1>3, <1>4 DEF HelpersInv, Arrives, Facts, TurnInv

\* the new transfer goes to the end of the sequester list
LEMMA ArrivesLast ==
    ASSUME Facts, NEW a, Arrives(a), q' = q, seq' = Append(seq, a),
           monitor' = MonitorFor(seq, <<a>>)
    PROVE  ListsInv' /\ \A b \in Live' : b \in Listed' <=> b \in Listed \/ b = a
<1>1. /\ a \in Addrs /\ a \notin Live /\ a \notin Range(q) /\ a \notin Range(seq)
      /\ seq \in Seq(Addrs) /\ IsInjective(seq)
  BY DEF Arrives, NewAddrs, Facts, SeqInv, TurnInv, ListsInv
<1>2. /\ seq' \in Seq(Addrs) /\ IsInjective(seq')
      /\ \A b : b \in Range(seq') <=> b \in Range(seq) \/ b = a
      /\ seq # <<>> => Head(seq') = Head(seq)
  BY <1>1, AppendOf
<1>3. \A b \in Live' : b \in Listed' <=> b \in Listed \/ b = a
  BY <1>2 DEF Listed
<1>4. ASSUME monitor' = "signalled" PROVE Registered(Head(seq))'
  <2> DEFINE first == Head(seq)
  <2>1. monitor = "signalled"
    BY <1>4 DEF MonitorFor
  <2>2. first \in Live /\ Head(seq') = first /\ Registered(first)
    BY <1>2, <2>1, FirstIs DEF Facts, TurnInv, ListsInv
  <2> HIDE DEF first
  <2>3. transfer'[first] = transfer[first]
    BY <2>2 DEF Arrives
  <2> QED
    BY <2>2, <2>3 DEF Registered
<1>5. ListsInv'
  <2>1. ttbl' = Live'
    BY DEF Arrives, Facts, TurnInv, ListsInv
  <2>2. \A b \in Range(q') : b \in Live' /\ IsDownload(b)'
    BY DEF Arrives, Facts, TurnInv, ListsInv, IsDownload
  <2>3. \A b \in Range(seq') : b \in Live' /\ b \notin Range(q')
    BY <1>1, <1>2 DEF Arrives, Facts, TurnInv, ListsInv
  <2> QED
    BY <1>2, <1>4, <2>1, <2>2, <2>3 DEF ListsInv
<1> QED
  BY <1>3, <1>5

\* the new transfer waits in the queue, or counts for one slot
LEMMA ArrivesCounts ==
    ASSUME Facts, QueueInv', HeapInv', NEW a, Arrives(a),
           \A b \in Live : b \in Range(q') <=> b \in Range(q),
           active_downloads' = active_downloads +
               (IF IsDownload(a)' /\ a \notin Range(q') THEN 1 ELSE 0),
           active_uploads' = active_uploads + (IF IsDownload(a)' THEN 0 ELSE 1)
    PROVE  SlotsCounted'
<1>1. \A b \in Live : b # a /\ (IsDownload(b)' <=> IsDownload(b))
  BY DEF Arrives, NewAddrs, IsDownload
<1>2. Downloads' = IF IsDownload(a)' /\ a \notin Range(q') THEN Downloads \cup {a} ELSE Downloads
  BY <1>1 DEF Downloads, Arrives
<1>3. Uploads' = IF IsDownload(a)' THEN Uploads ELSE Uploads \cup {a}
  BY <1>1 DEF Uploads, Arrives
<1>4. a \notin Downloads /\ a \notin Uploads
  BY <1>1 DEF Downloads, Uploads
<1>5. /\ Cardinality(Downloads \cup {a}) = Cardinality(Downloads) + 1
      /\ Cardinality(Uploads \cup {a}) = Cardinality(Uploads) + 1
  BY <1>4, FiniteLive, FS_AddElement
<1>6. /\ Cardinality(Downloads)' = Cardinality(Downloads')
      /\ Cardinality(Uploads)' = Cardinality(Uploads')
  OBVIOUS
<1>7. active_downloads = Cardinality(Downloads) /\ active_uploads = Cardinality(Uploads)
  BY Counted DEF Facts, TurnInv
<1>8. Cardinality(Downloads) \in Nat /\ Cardinality(Uploads) \in Nat
  BY FiniteLive, FS_CardinalityType
<1>9. active_downloads' = Cardinality(Downloads)' /\ active_uploads' = Cardinality(Uploads)'
  <2>1. active_downloads' = Cardinality(Downloads)'
    BY <1>2, <1>5, <1>6, <1>7, <1>8
  <2>2. active_uploads' = Cardinality(Uploads)'
    BY <1>3, <1>5, <1>6, <1>7, <1>8
  <2> QED
    BY <2>1, <2>2
<1>10. (QueueInv /\ HeapInv => (SlotsCounted <=> /\ active_downloads = Cardinality(Downloads)
                                                 /\ active_uploads = Cardinality(Uploads)))'
  BY Counted, PTL
<1> QED
  BY <1>9, <1>10

LEMMA TurnAddDownload ==
    ASSUME Facts, QueueInv', HeapInv', NEW u \in Uids, tfm_add_download(u)
    PROVE  TurnInv'
<1> DEFINE place == IF Full THEN queue_size + 1 ELSE 0
           new == NewTransfer(u, "download", NoFile, place)
<1>1. PICK a : /\ a \in NewAddrs /\ transfer' = [transfer EXCEPT ![a] = new]
               /\ tfm_idm # <<>> /\ tfm_idm' = idm_get(tfm_idm) /\ ttbl' = ttbl \cup {a}
               /\ IF Full
                  THEN q' = Append(q, a) /\ UNCHANGED <<seq, monitor, active_downloads>>
                  ELSE /\ q' = q /\ seq' = Append(seq, a)
                       /\ monitor' = MonitorFor(seq, <<a>>)
                       /\ active_downloads' = active_downloads + 1
               /\ UNCHANGED <<active_uploads, mail, fault, helper, cancelling>>
  BY DEF tfm_add_download
<1>2. queue_size = Len(q) /\ Len(q) \in Nat
  BY DEF Facts, QueueInv, Counters
<1>3. new \in Transfers /\ new.tid = idm_index(tfm_idm) /\ new.position = place
  <2>1. place \in Nat
    BY <1>2
  <2> HIDE DEF place
  <2> QED
    BY <1>1, <2>1, NewTransferIs DEF Facts
<1>4. new.type = "download" /\ new.file = NoFile /\ new.thread = NoHelper
  BY DEF NewTransfer
<1>5. \/ q' = q /\ new.position = 0
      \/ q' = Append(q, a) /\ new.position = Len(q) + 1
  BY <1>1, <1>2, <1>3
<1> HIDE DEF new
<1>6. Live' = Live \cup {a} /\ transfer'[a] = new
  BY <1>1, <1>3, <1>5, HeapNew DEF Facts
<1>7. \A b \in Live : transfer'[b] = transfer[b]
  BY <1>1, LiveIs DEF NewAddrs, Facts
<1>8. Arrives(a) /\ IsDownload(a)' /\ transfer'[a].file = NoFile
  BY <1>1, <1>3, <1>4, <1>6, <1>7 DEF Arrives, IsDownload
<1>9. /\ a \in Addrs /\ a \notin Live /\ a \notin Range(q) /\ a \notin Range(seq)
  BY <1>1 DEF NewAddrs
<1>10. /\ ListsInv' /\ \A b \in Live' : b \in Listed' <=> b \in Listed \/ b = a
       /\ \A b \in Live : b \in Range(q') <=> b \in Range(q)
       /\ active_downloads' = active_downloads + (IF a \notin Range(q') THEN 1 ELSE 0)
  <2>1. CASE ~Full
    <3>1. /\ q' = q /\ seq' = Append(seq, a) /\ monitor' = MonitorFor(seq, <<a>>)
          /\ active_downloads' = active_downloads + 1
      BY <1>1, <2>1
    <3>2. ListsInv' /\ \A b \in Live' : b \in Listed' <=> b \in Listed \/ b = a
      BY <1>8, <3>1, ArrivesLast
    <3> QED
      BY <1>9, <3>1, <3>2
  <2>2. CASE Full
    <3>1. q' = Append(q, a) /\ UNCHANGED <<seq, monitor, active_downloads>>
      BY <1>1, <2>2
    <3>2. \A b : b \in Range(q') <=> b \in Range(q) \/ b = a
      <4>1. q \in Seq(Addrs) /\ IsInjective(q)
        BY DEF IsInjective, Facts, QueueInv, Counters, HeapInv, Places
      <4> QED
        BY <1>9, <3>1, <4>1, AppendOf
    <3>3. \A b \in Live' : b \in Listed' <=> b \in Listed \/ b = a
      BY <3>1, <3>2 DEF Listed
    <3>4. ASSUME monitor' = "signalled" PROVE Registered(Head(seq))'
      <4>1. Head(seq) \in Live /\ Registered(Head(seq)) /\ seq' = seq
        BY <3>1, <3>4, FirstIs DEF Facts, TurnInv, ListsInv
      <4> QED
        BY <1>7, <4>1 DEF Registered
    <3>5. \A b \in Range(q') : b \in Live' /\ IsDownload(b)'
      BY <1>6, <1>7, <1>8, <3>2 DEF Facts, TurnInv, ListsInv, IsDownload
    <3>6. \A b \in Range(seq') : b \in Live' /\ b \notin Range(q')
      BY <1>6, <1>9, <3>1, <3>2 DEF Facts, TurnInv, ListsInv
    <3>7. ListsInv'
      BY <1>1, <1>6, <3>1, <3>4, <3>5, <3>6 DEF ListsInv, Facts, TurnInv
    <3>8. active_downloads \in Int
      BY DEF Facts, QueueInv, Counters
    <3> QED
      BY <1>9, <3>1, <3>2, <3>3, <3>7, <3>8
  <2> QED
    BY <2>1, <2>2
<1>11. HelpersInv'
  BY <1>8, <1>10, ArrivesHelpers
<1>12. FilesInv'
  <2>1. \A b \in Live : (IsDownload(b)' <=> IsDownload(b)) /\ transfer'[b].file = transfer[b].file
    BY <1>7 DEF IsDownload
  <2> QED
    BY <1>6, <1>8, <2>1 DEF FilesInv, Facts, TurnInv
<1>13. SlotsCounted'
  <2>1. active_uploads' = active_uploads + 0
    BY <1>1 DEF Facts, QueueInv, Counters
  <2> QED
    BY <1>8, <1>10, <2>1, ArrivesCounts
<1> QED
  BY <1>1, <1>10, <1>11, <1>12, <1>13 DEF Facts, TurnInv, InTurn

LEMMA TurnAddUpload ==
    ASSUME Facts, QueueInv', HeapInv', NEW u \in Uids, NEW file \in Files, tfm_add_upload(u, file)
    PROVE  TurnInv'
<1> DEFINE new == NewTransfer(u, "upload", file, 0)
<1>1. PICK a : /\ a \in NewAddrs /\ transfer' = [transfer EXCEPT ![a] = new]
               /\ tfm_idm # <<>> /\ tfm_idm' = idm_get(tfm_idm) /\ ttbl' = ttbl \cup {a}
               /\ monitor' = MonitorFor(seq, <<a>>) /\ seq' = Append(seq, a)
               /\ active_uploads' = active_uploads + 1
               /\ UNCHANGED <<q, active_downloads, mail, fault, helper, cancelling>>
  BY DEF tfm_add_upload
<1>2. ~Uploading(file)
  BY DEF tfm_add_upload
<1>3. /\ new \in Transfers /\ new.tid = idm_index(tfm_idm)
      /\ new.type = "upload" /\ new.position = 0
  BY <1>1, NewTransferIs DEF Facts
<1>4. new.file = file /\ new.thread = NoHelper
  BY DEF NewTransfer
<1> HIDE DEF new
<1>5. Live' = Live \cup {a} /\ transfer'[a] = new
  BY <1>1, <1>3, HeapNew DEF Facts
<1>6. \A b \in Live : transfer'[b] = transfer[b]
  BY <1>1, LiveIs DEF NewAddrs, Facts
<1>7. Arrives(a) /\ ~IsDownload(a)' /\ transfer'[a].file = file
  BY <1>1, <1>3, <1>4, <1>5, <1>6 DEF Arrives, IsDownload
<1>8. ListsInv' /\ \A b \in Live' : b \in Listed' <=> b \in Listed \/ b = a
  BY <1>1, <1>7, ArrivesLast
<1>9. HelpersInv'
  BY <1>7, <1>8, ArrivesHelpers
<1>10. FilesInv'
  <2>1. \A b \in Live : (IsDownload(b)' <=> IsDownload(b)) /\ transfer'[b].file = transfer[b].file
    BY <1>6 DEF IsDownload
  <2>2. \A b \in Live : ~IsDownload(b) => transfer[b].file # file
    BY <1>2 DEF Uploading, Facts, TurnInv, ListsInv
  <2> QED
    BY <1>5, <1>7, <2>1, <2>2 DEF FilesInv, Facts, TurnInv
<1>11. SlotsCounted'
  <2>1. active_downloads' = active_downloads + 0 /\ active_uploads' = active_uploads + 1
    BY <1>1 DEF Facts, QueueInv, Counters
  <2> QED
    BY <1>1, <1>7, <2>1, ArrivesCounts
<1> QED
  BY <1>1, <1>8, <1>9, <1>10, <1>11 DEF Facts, TurnInv, InTurn

\* a step of the monitor thread or of a connection that moves no transfer
LEMMA TurnQuiet ==
    ASSUME Facts, QueueInv', HeapInv',
           UNCHANGED <<transfer, ttbl, q, seq, active_downloads, active_uploads, mail,
                       helper, fault, cancelling>>,
           monitor' = monitor \/ monitor' # "signalled"
    PROVE  TurnInv'
<1>1. Live' = Live /\ Listed' = Listed /\ \A a \in Live : SameTransfer(a)
  BY DEF Live, Listed, SameTransfer
<1>2. ListsInv'
  BY <1>1 DEF ListsInv, Registered, IsDownload, Facts, TurnInv
<1>3. \A a \in Live : Served(a)'
  BY <1>1, ServedStill DEF Facts, TurnInv, HelpersInv
<1>4. \A h \in Helpers : Carries(h)'
  BY <1>1 DEF Carries, Facts, TurnInv, HelpersInv
<1>5. HelpersInv'
  BY <1>1, <1>3, <1>4 DEF HelpersInv, Facts, TurnInv
<1>6. FilesInv' /\ SlotsCounted'
  BY <1>1, FilesStill, SlotsStill DEF Facts, TurnInv, SameTransfer
<1> QED
  BY <1>2, <1>5, <1>6 DEF Facts, TurnInv, InTurn

LEMMA NextTurnInv ==
    ASSUME Facts, QueueInv', HeapInv', [Next]_vars
    PROVE  TurnInv'
<1>1. CASE UNCHANGED vars
  BY <1>1, TurnQuiet DEF vars, lists
<1>2. ASSUME NEW u \in Uids, User(u) PROVE TurnInv'
  <2>1. CASE tfm_add_download(u)
    BY <2>1, TurnAddDownload
  <2>2. CASE \E file \in Files : tfm_add_upload(u, file)
    BY <2>2, TurnAddUpload
  <2>3. CASE Leave(u) \/ Connect(u)
    BY <2>3, TurnQuiet DEF Leave, Connect, lists
  <2>4. ~Purge(u) /\ ~CheckOwner(u)
    BY DEF Purge, CheckOwner, Facts, TurnInv, InTurn
  <2>5. ~Cancel(u)
    BY DEF Cancel, Facts, TurnInv
  <2> QED
    BY <1>2, <2>1, <2>2, <2>3, <2>4, <2>5 DEF User
<1>3. ASSUME NEW h \in Helpers, Helper(h) PROVE TurnInv'
  <2>1. ~WakeEarly(h)
    BY DEF WakeEarly, Facts, TurnInv, InTurn
  <2>2. ~Stray(h)
    BY OneHelper DEF Stray, Facts
  <2> QED
    BY <1>3, <2>1, <2>2, TurnRegister, TurnReceive, TurnFinish DEF Helper
<1>4. CASE Monitor
  <2>1. CASE MonitorStart
    <3>1. Head(seq) \in Live
      BY <2>1, FirstIs DEF MonitorStart
    <3> QED
      BY <2>1, <3>1, TurnQuiet DEF MonitorStart
  <2>2. CASE MonitorTimeout
    BY <2>2, TurnQuiet DEF MonitorTimeout
  <2>3. ~SpuriousWakeup
    BY DEF SpuriousWakeup, Facts, TurnInv, InTurn
  <2> QED
    BY <1>4, <2>1, <2>2, <2>3, TurnDrop, TurnBegin DEF Monitor
<1>5. CASE Reload
  BY <1>5, TurnReload
<1> QED
  BY <1>1, <1>2, <1>3, <1>4, <1>5 DEF Next

LEMMA InitTurnInv == InTurn /\ Init => TurnInv
<1> SUFFICES ASSUME InTurn, Init PROVE TurnInv
  OBVIOUS
<1>1. Live = {} /\ Range(q) = {} /\ Range(seq) = {}
  BY DEF Init, Live, Range
<1>2. ListsInv /\ FilesInv
  BY <1>1 DEF Init, ListsInv, FilesInv, IsInjective
<1>3. HelpersInv
  BY <1>1 DEF Init, HelpersInv, Carries
<1>4. SlotsCounted
  <2>1. Downloads = {} /\ Uploads = {}
    BY <1>1 DEF Downloads, Uploads
  <2>2. active_downloads = Cardinality(Downloads) /\ active_uploads = Cardinality(Uploads)
    BY <2>1, FS_EmptySet DEF Init
  <2> QED
    BY <2>2, Counted, InitQueueInv, InitHeapInv
<1> QED
  BY <1>2, <1>3, <1>4 DEF Init, TurnInv

LEMMA FactsInductive == InTurn /\ Spec => []Facts
<1>1. InTurn /\ Init => Facts
  BY InitTurnInv, InitQueueInv, InitHeapInv DEF Facts, Init, SeqInv, MonitorWatches
<1>2. Facts /\ [Next]_vars => Facts'
  <2> SUFFICES ASSUME Facts, [Next]_vars PROVE Facts'
    OBVIOUS
  <2>1. QueueInv' /\ HeapInv' /\ SeqInv'
    BY NextQueueInv, NextHeapInv, NextSeqInv DEF Facts
  <2> QED
    BY <2>1, NextTurnInv DEF Facts
<1> QED
  BY <1>1, <1>2, PTL DEF Spec

(* The counts of active transfers are the numbers of live transfers that    *)
(* hold a slot: with every hand-over, no slot is lost and none counted      *)
(* twice, while users neither cancel nor leave and connections come in      *)
(* turn.                                                                    *)
THEOREM SlotsAreCounted == InTurn /\ Spec => []SlotsCounted
<1>1. Facts => SlotsCounted
  BY DEF Facts, TurnInv
<1> QED
  BY <1>1, FactsInductive, PTL

(* A transfer is in the queue, in the sequester list or with the helper     *)
(* that has been told to start it, and in one of them only.                 *)
THEOREM TransfersHaveOnePlace == InTurn /\ Spec => []OnePlace
<1>1. Facts => OnePlace
  <2> SUFFICES ASSUME Facts, NEW a \in Live
               PROVE  LET inQueue == a \in Range(q)
                          inSeq   == a \in Range(seq)
                          told    == \E h \in Carriers(transfer[a].tid) :
                                       helper[h].at = "run" \/ mail[h] # <<>>
                      IN /\ ~(inQueue /\ inSeq) /\ ~(told /\ (inQueue \/ inSeq))
                         /\ inQueue \/ inSeq \/ told
    BY DEF OnePlace
  <2> DEFINE told == \E h \in Carriers(transfer[a].tid) :
                        helper[h].at = "run" \/ mail[h] # <<>>
  <2>1. a \notin Range(q) \/ a \notin Range(seq)
    BY DEF Facts, TurnInv, ListsInv
  <2>2. ASSUME told PROVE a \notin Listed
    <3>1. PICK h \in Helpers : /\ helper[h].tid = transfer[a].tid
                               /\ helper[h].at = "run" \/ mail[h] # <<>>
      BY <2>2 DEF Carriers
    <3>2. PICK b \in Live : transfer[b].thread = h
      BY <3>1 DEF Facts, TurnInv, HelpersInv, Carries
    <3>3. ServedBy(b, h)
      BY <3>2, OneHelper DEF Facts
    <3>4. b = a
      BY <3>1, <3>3 DEF ServedBy, Facts, HeapInv, Ids, DistinctTids
    <3> QED
      BY <3>1, <3>3, <3>4 DEF ServedBy
  <2>3. ASSUME a \notin Listed PROVE told
    <3>1. Registered(a)
      BY <2>3 DEF Facts, TurnInv, HelpersInv, Served
    <3>2. PICK h \in Helpers : transfer[a].thread = h
      BY <3>1, LiveIs DEF Facts
    <3>3. ServedBy(a, h)
      BY <3>2, OneHelper DEF Facts
    <3>4. <<Job(a)>> # <<>>
      OBVIOUS
    <3> QED
      BY <2>3, <3>3, <3>4 DEF ServedBy, Carriers
  <2> QED
    BY <2>1, <2>2, <2>3 DEF Listed
<1> QED
  BY <1>1, FactsInductive, PTL

(* A helper runs the transfer it registered for, and one that is back in    *)
(* the pool has nothing left to read.                                       *)
THEOREM HelpersRunTheirOwn == InTurn /\ Spec => []RightTransfer
<1>1. Facts => RightTransfer
  <2> SUFFICES ASSUME Facts, NEW h \in Helpers
               PROVE  /\ helper[h].at = "pool" => mail[h] = <<>>
                      /\ helper[h].at = "run" => \A a \in Lookup(helper[h].tid) :
                            transfer[a].thread = h /\ Job(a) = helper[h].job
    BY DEF RightTransfer
  <2>1. helper[h].at = "pool" => mail[h] = <<>>
    BY OneHelper DEF Facts
  <2>2. ASSUME helper[h].at = "run", NEW a \in Lookup(helper[h].tid)
        PROVE  transfer[a].thread = h /\ Job(a) = helper[h].job
    BY <2>2, Carried
  <2> QED
    BY <2>1, <2>2
<1> QED
  BY <1>1, FactsInductive, PTL

(* Two helpers never write the same file.                                   *)
THEOREM FilesHaveOneWriter == InTurn /\ Spec => []OneWriterPerFile
<1>1. Facts => OneWriterPerFile
  <2> SUFFICES ASSUME Facts, NEW g \in Helpers, NEW h \in Helpers, g # h,
                      helper[g].at = "run", helper[h].at = "run",
                      helper[g].job.type # "download",
                      helper[g].job.file = helper[h].job.file
               PROVE  FALSE
    BY DEF OneWriterPerFile
  <2>1. PICK a \in Live : transfer[a].thread = g /\ helper[g].job = Job(a)
    BY Carried
  <2>2. PICK b \in Live : transfer[b].thread = h /\ helper[h].job = Job(b)
    BY Carried
  <2>3. /\ helper[g].job.type = transfer[a].type /\ helper[g].job.file = transfer[a].file
        /\ helper[h].job.file = transfer[b].file
    BY <2>1, <2>2 DEF Job
  <2>4. a # b /\ ~IsDownload(a) /\ transfer[a].file = transfer[b].file
    BY <2>1, <2>2, <2>3 DEF IsDownload
  <2> QED
    BY <2>4, TfmAssumption DEF Facts, TurnInv, FilesInv
<1> QED
  BY <1>1, FactsInductive, PTL
=============================================================================
