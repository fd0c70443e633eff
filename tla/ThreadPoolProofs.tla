-------------------------- MODULE ThreadPoolProofs -------------------------
(* What ThreadPool.tla model-checks for three threads, for any number of    *)
(* them, any limits and any environment: a pooled thread is idle and pooled *)
(* once, and active_thread_count counts the threads that are out.           *)
EXTENDS ThreadPool, SequenceTheorems, FiniteSetTheorems, TLAPS

(* The stack of inactive threads. *)
LEMMA Popped ==
    ASSUME NEW S, NEW s \in Seq(S), s # <<>>, IsInjective(s)
    PROVE  /\ Front(s) \in Seq(S) /\ IsInjective(Front(s))
           /\ Last(s) \in S /\ Last(s) \in Range(s)
           /\ Range(Front(s)) = Range(s) \ {Last(s)}
<1> DEFINE n == Len(s)
           f == SubSeq(s, 1, n - 1)
<1>1. /\ n \in Nat /\ DOMAIN s = 1 .. n /\ n # 0
      /\ \A i \in 1 .. n : s[i] \in S
  BY EmptySeq, LenProperties, ElementOfSeq
<1>2. \A i, j \in 1 .. n : s[i] = s[j] => i = j
  BY <1>1, Zenon DEF IsInjective
<1>3. /\ f \in Seq(S) /\ Len(f) = n - 1
      /\ \A i \in 1 .. n - 1 : f[i] = s[i]
  <2> HIDE DEF n
  <2>1. n - 1 \in Nat /\ 1 .. n - 1 \subseteq 1 .. n
    BY <1>1
  <2>2. \A i \in 1 .. n - 1 : s[i] \in S
    BY <1>1, <2>1
  <2>3. /\ f \in Seq(S) /\ Len(f) = IF 1 <= n - 1 THEN n - 1 - 1 + 1 ELSE 0
        /\ \A i \in 1 .. n - 1 - 1 + 1 : f[i] = s[1 + i - 1]
    BY <2>1, <2>2, SubSeqProperties DEF n
  <2>4. n - 1 - 1 + 1 = n - 1 /\ \A i \in 1 .. n - 1 : 1 + i - 1 = i
    BY <1>1
  <2> QED
    BY <2>1, <2>3, <2>4
<1>4. DOMAIN f = 1 .. n - 1
  BY <1>3, LenProperties
<1>5. n \in 1 .. n /\ \A i \in 1 .. n : i \in 1 .. n - 1 \/ i = n
  <2> HIDE DEF n
  <2> QED
    BY <1>1
<1>6. \A i \in 1 .. n - 1 : i \in 1 .. n /\ i # n
  <2> HIDE DEF n
  <2> QED
    BY <1>1
<1>7. Front(s) = f /\ Last(s) = s[n]
  BY Zenon DEF Front, Last
<1> HIDE DEF f, n
<1>8. IsInjective(f)
  <2>1. \A i, j \in DOMAIN f : f[i] = f[j] => i = j
    BY <1>2, <1>3, <1>4, <1>6
  <2> QED
    BY <2>1, Zenon DEF IsInjective
<1>9. Range(f) = Range(s) \ {s[n]}
  <2>1. \A x : x \in Range(f) <=> \E i \in 1 .. n - 1 : s[i] = x
    BY <1>3, <1>4 DEF Range
  <2>2. \A x : x \in Range(s) <=> \E i \in 1 .. n : s[i] = x
    BY <1>1 DEF Range
  <2>3. \A x : x \in Range(f) <=> x \in Range(s) /\ x # s[n]
    BY <1>2, <1>5, <1>6, <2>1, <2>2
  <2> QED
    BY <2>3
<1>10. s[n] \in S /\ s[n] \in Range(s)
  BY <1>1, <1>5 DEF Range
<1> QED
  BY <1>3, <1>7, <1>8, <1>9, <1>10

(* Threads that are not on the stack are put on top of it. *)
LEMMA Pushed ==
    ASSUME NEW S, NEW s \in Seq(S), IsInjective(s),
           NEW r \in Seq(S), IsInjective(r), \A x \in Range(r) : x \notin Range(s)
    PROVE  /\ s \o r \in Seq(S) /\ IsInjective(s \o r)
           /\ Range(s \o r) = Range(s) \cup Range(r)
<1> DEFINE n == Len(s)
           m == Len(r)
           f == s \o r
<1>1. /\ n \in Nat /\ DOMAIN s = 1 .. n /\ m \in Nat /\ DOMAIN r = 1 .. m
  BY LenProperties
<1>2. /\ f \in Seq(S) /\ Len(f) = n + m
      /\ \A i \in 1 .. n + m : f[i] = IF i <= n THEN s[i] ELSE r[i - n]
  BY ConcatProperties
<1>3. DOMAIN f = 1 .. n + m
  BY <1>2, LenProperties
<1>4. /\ \A i, j \in 1 .. n : s[i] = s[j] => i = j
      /\ \A i, j \in 1 .. m : r[i] = r[j] => i = j
  BY <1>1, Zenon DEF IsInjective
<1>5. /\ \A x : x \in Range(s) <=> \E i \in 1 .. n : s[i] = x
      /\ \A x : x \in Range(r) <=> \E i \in 1 .. m : r[i] = x
      /\ \A x : x \in Range(f) <=> \E i \in 1 .. n + m : f[i] = x
  BY <1>1, <1>3 DEF Range
<1> HIDE DEF n, m, f
<1>6. /\ \A i \in 1 .. n : i \in 1 .. n + m /\ i <= n
      /\ \A i \in 1 .. m : n + i \in 1 .. n + m /\ ~(n + i <= n) /\ n + i - n = i
      /\ \A i \in 1 .. n + m : i \in 1 .. n \/ (~(i <= n) /\ i - n \in 1 .. m /\ n + (i - n) = i)
  BY <1>1
<1>7. /\ \A i \in 1 .. n : f[i] = s[i]
      /\ \A i \in 1 .. m : f[n + i] = r[i]
      /\ \A i \in 1 .. n + m : ~(i <= n) => f[i] = r[i - n]
  <2>1. \A i \in 1 .. n : f[i] = s[i]
    BY <1>2, <1>6
  <2>2. \A i \in 1 .. n + m : ~(i <= n) => f[i] = r[i - n]
    BY <1>2
  <2>3. ASSUME NEW i \in 1 .. m PROVE f[n + i] = r[i]
    <3> DEFINE j == n + i
    <3>1. j \in 1 .. n + m /\ ~(j <= n) /\ j - n = i
      <4>1. n \in Nat /\ m \in Nat
        BY <1>1
      <4> QED
        BY <4>1
    <3> HIDE DEF j
    <3>2. f[j] = r[i]
      BY <2>2, <3>1
    <3> QED
      BY <3>2 DEF j
  <2> QED
    BY <2>1, <2>2, <2>3
<1>8. Range(f) = Range(s) \cup Range(r)
  <2>1. \A x \in Range(f) : x \in Range(s) \/ x \in Range(r)
    BY <1>5, <1>6, <1>7
  <2>2. \A x \in Range(s) : x \in Range(f)
    BY <1>5, <1>6, <1>7
  <2>3. \A x \in Range(r) : x \in Range(f)
    BY <1>5, <1>6, <1>7
  <2> QED
    BY <2>1, <2>2, <2>3
<1>9. IsInjective(f)
  <2>1. SUFFICES ASSUME NEW i \in 1 .. n + m, NEW j \in 1 .. n + m, f[i] = f[j]
                 PROVE  i = j
    BY <1>3, Zenon DEF IsInjective
  <2>2. CASE i \in 1 .. n /\ j \in 1 .. n
    BY <1>4, <1>7, <2>1, <2>2
  <2>3. CASE ~(i \in 1 .. n) /\ ~(j \in 1 .. n)
    <3>1. i - n \in 1 .. m /\ j - n \in 1 .. m /\ n + (i - n) = i /\ n + (j - n) = j
          /\ f[i] = r[i - n] /\ f[j] = r[j - n]
      BY <1>6, <1>7, <2>3
    <3>2. i - n = j - n
      BY <1>4, <2>1, <3>1
    <3> QED
      BY <3>1, <3>2
  <2>4. CASE i \in 1 .. n /\ ~(j \in 1 .. n)
    BY <1>5, <1>6, <1>7, <2>1, <2>4
  <2>5. CASE ~(i \in 1 .. n) /\ j \in 1 .. n
    BY <1>5, <1>6, <1>7, <2>1, <2>5
  <2> QED
    BY <2>2, <2>3, <2>4, <2>5
<1> QED
  BY <1>2, <1>8, <1>9 DEF f

(* One thread is put on top. *)
LEMMA PushedOne ==
    ASSUME NEW S, NEW s \in Seq(S), IsInjective(s), NEW t \in S, t \notin Range(s)
    PROVE  /\ Append(s, t) \in Seq(S) /\ IsInjective(Append(s, t))
           /\ Range(Append(s, t)) = Range(s) \cup {t}
<1> DEFINE r == <<t>>
<1>1. r \in Seq(S) /\ Range(r) = {t}
  BY DEF Range
<1>2. IsInjective(r)
  <2>1. \A i, j \in DOMAIN r : i = j
    OBVIOUS
  <2> QED
    BY <2>1, Zenon DEF IsInjective
<1>3. Append(s, t) = s \o r
  BY AppendIsConcat
<1> HIDE DEF r
<1> QED
  BY <1>1, <1>2, <1>3, Pushed
-----------------------------------------------------------------------------
Sent == {<<e>> : e \in Events}
Pooled == Range(inactive_threads)
Waits == {"recv", "dead"}

Types == /\ inactive_threads \in Seq(Threads) /\ IsInjective(inactive_threads)
         /\ active_thread_count \in Int
         /\ state \in [Threads -> States]
         /\ queue = [t \in Threads |-> queue[t]]
         /\ taken \in Threads \cup {NoThread} /\ taken \notin Pooled
         /\ main = "send" <=> taken # NoThread
         /\ main # "poll" => event \in Events

(* Where a thread may be: in the pool or taken from it, with an empty queue;*)
(* with one message of the main thread in its queue; or at work.            *)
At(t) == /\ t \in Pooled \/ taken = t <=> state[t] \in Waits /\ queue[t] = <<>>
         /\ state[t] \in Waits => queue[t] \in Sent \cup {<<>>}
         /\ state[t] = "xfer_wait" => queue[t] \in {<<>>, <<"HT_DOWNLOAD">>}
         /\ state[t] \notin Waits \cup {"xfer_wait"} => queue[t] = <<>>

(* Threads only die in the pool of a wakeup without a message. *)
Alive == /\ woken_early \in BOOLEAN
         /\ \A t \in Threads : ~woken_early => state[t] # "dead"

IInv == Types /\ (\A t \in Threads : At(t)) /\ Alive /\ ActiveCounted

(* A thread is out unless it is in the pool, or is none any more. *)
Away(t) == t \notin Pooled /\ state[t] \notin {"none", "destroyed"}

LEMMA Where ==
    ASSUME NEW t \in Threads, Types, At(t)
    PROVE  t \in Out <=> Away(t)
<1>1. state[t] \in Waits \/ state[t] \in Events \cup {"xfer_wait", "HT_DOWNLOAD"}
        \/ state[t] \in {"none", "destroyed"}
  BY DEF States, Waits, Types
<1>2. t # NoThread
  BY PoolAssumption
<1>3. t \in Out <=> \/ taken = t
                    \/ state[t] \in Events \cup {"xfer_wait", "HT_DOWNLOAD"}
                    \/ state[t] \in Waits /\ queue[t] # <<>>
  BY <1>2 DEF Out, Waits
<1>4. /\ state[t] \in Events \cup {"xfer_wait", "HT_DOWNLOAD"}
           => state[t] \notin {"none", "destroyed"} /\ state[t] \notin Waits
      /\ state[t] \in {"none", "destroyed"} => state[t] \notin Waits
      /\ state[t] \in Waits => state[t] \notin {"none", "destroyed"}
  BY DEF Events, Waits
<1> QED
  BY <1>1, <1>3, <1>4 DEF At, Away, Types

LEMMA WhereNext ==
    ASSUME NEW t \in Threads, Types', At(t)'
    PROVE  t \in Out' <=> Away(t)'
<1>1. state'[t] \in Waits \/ state'[t] \in Events \cup {"xfer_wait", "HT_DOWNLOAD"}
        \/ state'[t] \in {"none", "destroyed"}
  BY DEF States, Waits, Types
<1>2. t # NoThread
  BY PoolAssumption
<1>3. t \in Out' <=> \/ taken' = t
                     \/ state'[t] \in Events \cup {"xfer_wait", "HT_DOWNLOAD"}
                     \/ state'[t] \in Waits /\ queue'[t] # <<>>
  BY <1>2 DEF Out, Waits
<1>4. /\ state'[t] \in Events \cup {"xfer_wait", "HT_DOWNLOAD"}
           => state'[t] \notin {"none", "destroyed"} /\ state'[t] \notin Waits
      /\ state'[t] \in {"none", "destroyed"} => state'[t] \notin Waits
      /\ state'[t] \in Waits => state'[t] \notin {"none", "destroyed"}
  BY DEF Events, Waits
<1> QED
  BY <1>1, <1>3, <1>4 DEF At, Away, Types

(* A step that moves at most one thread out of the pool or ends its use,    *)
(* and counts it.                                                           *)
LEMMA Counted ==
    ASSUME IInv, Types', \A t \in Threads : At(t)',
           NEW t \in Threads,
           \A u \in Threads \ {t} : Away(u)' <=> Away(u),
           active_thread_count' = active_thread_count
             + (IF Away(t)' THEN 1 ELSE 0) - (IF Away(t) THEN 1 ELSE 0)
    PROVE  ActiveCounted'
<1>1. \A u \in Threads : u \in Out <=> Away(u)
  BY Where DEF IInv
<1>2. \A u \in Threads : u \in Out' <=> Away(u)'
  BY WhereNext
<1>3. Out \subseteq Threads /\ Out' \subseteq Threads
  BY DEF Out, IInv, Types
<1>4. IsFiniteSet(Out)
  BY <1>3, FS_Subset, PoolAssumption
<1>5. active_thread_count = Cardinality(Out) /\ Cardinality(Out) \in Nat
  BY <1>4, FS_CardinalityType DEF IInv, ActiveCounted
<1>6. CASE Away(t)' /\ ~Away(t)
  <2>1. Out' = Out \cup {t} /\ t \notin Out
    BY <1>1, <1>2, <1>3, <1>6
  <2>2. Cardinality(Out \cup {t}) = Cardinality(Out) + 1
    BY <1>4, <2>1, FS_AddElement
  <2> QED
    BY <1>5, <1>6, <2>1, <2>2 DEF ActiveCounted
<1>7. CASE ~Away(t)' /\ Away(t)
  <2>1. Out' = Out \ {t} /\ t \in Out
    BY <1>1, <1>2, <1>3, <1>7
  <2>2. Cardinality(Out \ {t}) = Cardinality(Out) - 1
    BY <1>4, <2>1, FS_RemoveElement
  <2> QED
    BY <1>5, <1>7, <2>1, <2>2 DEF ActiveCounted
<1>8. CASE Away(t)' <=> Away(t)
  <2>1. Out' = Out
    BY <1>1, <1>2, <1>3, <1>8
  <2> QED
    BY <1>5, <1>8, <2>1 DEF ActiveCounted
<1> QED
  BY <1>6, <1>7, <1>8

(* A thread that a step leaves where it is. *)
LEMMA Stays ==
    ASSUME NEW u \in Threads, At(u), state'[u] = state[u], queue'[u] = queue[u],
           u \in Pooled' \/ taken' = u <=> u \in Pooled \/ taken = u
    PROVE  At(u)'
BY DEF At

LEMMA CountKept ==
    ASSUME IInv, Types', \A t \in Threads : At(t)',
           \A u \in Threads : Away(u)' <=> Away(u), UNCHANGED active_thread_count
    PROVE  ActiveCounted'
<1>1. \A u \in Threads : u \in Out <=> Away(u)
  BY Where DEF IInv
<1>2. \A u \in Threads : u \in Out' <=> Away(u)'
  BY WhereNext
<1>3. Out' = Out
  BY <1>1, <1>2 DEF Out, IInv, Types
<1> QED
  BY <1>3 DEF ActiveCounted, IInv

(* A step of one thread, or one that uses its queue. *)
LEMMA OneThread ==
    ASSUME IInv, NEW t \in Threads, NEW st \in States, NEW mail,
           state' = [state EXCEPT ![t] = st], queue' = [queue EXCEPT ![t] = mail],
           UNCHANGED <<inactive_threads, taken, event>>,
           main' = "send" <=> main = "send", main' # "poll" => main # "poll",
           At(t)', Alive', active_thread_count' \in Int,
           active_thread_count' = active_thread_count
             + (IF Away(t)' THEN 1 ELSE 0) - (IF Away(t) THEN 1 ELSE 0)
    PROVE  IInv'
<1>1. /\ Types /\ state'[t] = st
      /\ \A u \in Threads \ {t} : state'[u] = state[u] /\ queue'[u] = queue[u]
      /\ Pooled' = Pooled
  BY DEF IInv, Types, Pooled
<1>2. Types'
  <2>1. state' \in [Threads -> States] /\ queue' = [u \in Threads |-> queue'[u]]
    BY <1>1 DEF Types
  <2>2. IsInjective(inactive_threads)'
    BY <1>1, Zenon DEF Types
  <2> QED
    BY <1>1, <2>1, <2>2 DEF Types
<1>3. ASSUME NEW u \in Threads PROVE At(u)'
  <2>1. CASE u = t
    BY <2>1
  <2>2. CASE u # t
    BY <1>1, <2>2, Stays DEF IInv
  <2> QED
    BY <2>1, <2>2
<1>4. \A u \in Threads \ {t} : Away(u)' <=> Away(u)
  BY <1>1 DEF Away
<1>5. ActiveCounted'
  BY <1>2, <1>3, <1>4, Counted
<1> QED
  BY <1>2, <1>3, <1>5 DEF IInv

(* A step of the main thread alone. *)
LEMMA MainAlone ==
    ASSUME IInv, UNCHANGED <<counts, state, queue, taken, woken_early>>,
           main # "send", main' # "send", main' # "poll" => event' \in Events
    PROVE  IInv'
<1>1. Pooled' = Pooled /\ Types
  BY DEF IInv, Pooled, counts
<1>2. IsInjective(inactive_threads)'
  BY <1>1, Zenon DEF Types, counts
<1>3. Types'
  BY <1>1, <1>2 DEF Types, counts
<1>4. \A u \in Threads : At(u)'
  BY <1>1, Stays DEF IInv
<1>5. \A u \in Threads : Away(u)' <=> Away(u)
  BY <1>1 DEF Away
<1>6. ActiveCounted'
  BY <1>3, <1>4, <1>5, CountKept DEF counts
<1>7. Alive'
  BY Zenon DEF Alive, IInv
<1> QED
  BY <1>3, <1>4, <1>6, <1>7 DEF IInv

(* tm_get_thread takes a thread, from the pool or a new one. *)
LEMMA TakeStep ==
    ASSUME IInv, main \notin {"poll", "send"}, NEW t \in Threads, NEW pool, Take(t, pool),
           pool \in Seq(Threads), IsInjective(pool),
           \A u \in Threads : u \in Range(pool) <=> u \in Pooled /\ u # t,
           \/ t \in Pooled /\ UNCHANGED state
           \/ state[t] = "none" /\ state' = [state EXCEPT ![t] = "recv"],
           UNCHANGED <<queue, event, woken_early>>
    PROVE  IInv'
<1>1. Types /\ (\A u \in Threads : At(u)) /\ t # NoThread /\ taken = NoThread
  BY PoolAssumption DEF IInv, Types
<1>2. /\ inactive_threads' = pool /\ active_thread_count' = active_thread_count + 1
      /\ taken' = t /\ main' = "send"
  BY DEF Take
<1>3. /\ state' \in [Threads -> States] /\ state'[t] \in Waits
      /\ \A u \in Threads \ {t} : state'[u] = state[u]
      /\ queue[t] = <<>>
      /\ t \in Pooled \/ state[t] \notin Waits
  <2>1. CASE t \in Pooled /\ UNCHANGED state
    BY <1>1, <2>1 DEF Types, At
  <2>2. CASE state[t] = "none" /\ state' = [state EXCEPT ![t] = "recv"]
    <3>1. "recv" \in States /\ "recv" \in Waits /\ "none" \notin Waits \cup {"xfer_wait"}
      BY DEF States, Waits
    <3> QED
      BY <1>1, <2>2, <3>1 DEF Types, At
  <2> QED
    BY <2>1, <2>2
<1>4. \A u \in Threads : u \in Pooled' <=> u \in Pooled /\ u # t
  BY <1>2 DEF Pooled
<1>5. IsInjective(inactive_threads)'
  BY <1>2, Zenon
<1>6. Types'
  BY <1>1, <1>2, <1>3, <1>4, <1>5 DEF Types
<1>7. At(t)'
  BY <1>2, <1>3 DEF At
<1>8. ASSUME NEW u \in Threads PROVE At(u)'
  <2>1. CASE u # t
    BY <1>1, <1>2, <1>3, <1>4, <2>1, PoolAssumption, Stays
  <2> QED
    BY <1>7, <2>1
<1>9. /\ Away(t)' /\ ~Away(t)
      /\ \A u \in Threads \ {t} : Away(u)' <=> Away(u)
  <2>1. state'[t] \notin {"none", "destroyed"}
    BY <1>3 DEF Waits
  <2> QED
    BY <1>3, <1>4, <2>1 DEF Away
<1>10. ActiveCounted'
  BY <1>1, <1>2, <1>6, <1>8, <1>9, Counted DEF Types
<1>11. Alive'
  <2>1. \A u \in Threads : state'[u] = "dead" => state[u] = "dead"
    BY <1>1, <1>3 DEF Types
  <2> QED
    BY <2>1, Zenon DEF Alive, IInv
<1> QED
  BY <1>6, <1>8, <1>10, <1>11 DEF IInv

LEMMA GetPooledStep ==
    ASSUME IInv, main \notin {"poll", "send"}, inactive_threads # <<>>,
           Take(Last(inactive_threads), Front(inactive_threads)),
           UNCHANGED <<state, queue, event, woken_early>>
    PROVE  IInv'
<1> DEFINE t == Last(inactive_threads)
           pool == Front(inactive_threads)
<1>1. /\ pool \in Seq(Threads) /\ IsInjective(pool)
      /\ t \in Threads /\ t \in Pooled /\ Range(pool) = Pooled \ {t}
  BY Popped DEF IInv, Types, Pooled
<1>2. Take(t, pool)
  OBVIOUS
<1> HIDE DEF t, pool
<1>3. \A u \in Threads : u \in Range(pool) <=> u \in Pooled /\ u # t
  BY <1>1
<1> QED
  BY <1>1, <1>2, <1>3, TakeStep

LEMMA GetCreatedStep ==
    ASSUME IInv, GetCreated
    PROVE  IInv'
<1> DEFINE pool == <<>>
<1>1. PICK t \in Unborn : Take(t, pool) /\ state' = [state EXCEPT ![t] = "recv"]
  BY DEF GetCreated
<1>2. /\ main \notin {"poll", "send"} /\ inactive_threads = <<>>
      /\ UNCHANGED <<queue, event, woken_early>>
  BY DEF GetCreated
<1>3. t \in Threads /\ state[t] = "none"
  BY DEF Unborn
<1>4. pool \in Seq(Threads) /\ Range(pool) = {} /\ Pooled = {}
  BY <1>2 DEF Range, Pooled
<1>5. IsInjective(pool)
  <2>1. \A i, j \in DOMAIN pool : pool[i] = pool[j] => i = j
    OBVIOUS
  <2> QED
    BY <2>1, Zenon DEF IsInjective
<1>6. \A u \in Threads : u \in Range(pool) <=> u \in Pooled /\ u # t
  BY <1>4
<1> HIDE DEF pool
<1> QED
  BY <1>1, <1>2, <1>3, <1>4, <1>5, <1>6, TakeStep

(* The message goes to a thread that waits for it. *)
LEMMA SendStep ==
    ASSUME IInv, Send
    PROVE  IInv'
<1>1. PICK t \in Threads : t = taken
  BY DEF Send, IInv, Types
<1>2. /\ Types /\ (\A u \in Threads : At(u)) /\ t # NoThread
      /\ event \in Events /\ t \notin Pooled
  BY <1>1 DEF Send, IInv, Types
<1>3. /\ queue' = [queue EXCEPT ![t] = Append(@, event)]
      /\ main' = "poll" /\ taken' = NoThread
      /\ UNCHANGED <<inactive_threads, active_thread_count, state, woken_early>>
  BY <1>1 DEF Send, counts
<1>4. state[t] \in Waits /\ queue[t] = <<>>
  BY <1>1, <1>2 DEF At
<1>5. /\ queue'[t] = <<event>> /\ queue' = [u \in Threads |-> queue'[u]]
      /\ \A u \in Threads \ {t} : queue'[u] = queue[u]
  BY <1>2, <1>3, <1>4 DEF Types
<1>6. Pooled' = Pooled
  BY <1>3 DEF Pooled
<1>7. IsInjective(inactive_threads)'
  BY <1>2, <1>3, Zenon DEF Types
<1>8. NoThread \notin Pooled
  BY <1>2, PoolAssumption DEF Types, Pooled, Range
<1>9. Types'
  BY <1>2, <1>3, <1>5, <1>6, <1>7, <1>8 DEF Types
<1>10. At(t)'
  <2>1. queue'[t] \in Sent /\ queue'[t] # <<>>
    BY <1>2, <1>5 DEF Sent
  <2> QED
    BY <1>2, <1>3, <1>4, <1>6, <2>1 DEF At, Waits
<1>11. ASSUME NEW u \in Threads PROVE At(u)'
  <2>1. CASE u # t
    BY <1>1, <1>2, <1>3, <1>5, <1>6, <2>1, PoolAssumption, Stays
  <2> QED
    BY <1>10, <2>1
<1>12. \A u \in Threads : Away(u)' <=> Away(u)
  BY <1>3, <1>6 DEF Away
<1>13. ActiveCounted'
  BY <1>3, <1>9, <1>11, <1>12, CountKept
<1>14. Alive'
  BY <1>3, Zenon DEF Alive, IInv
<1> QED
  BY <1>9, <1>11, <1>13, <1>14 DEF IInv

(* What a thread has received is its work until it returns itself. *)
LEMMA WorkStep ==
    ASSUME IInv, NEW t \in Threads,
           Receive(t) \/ Register(t) \/ Activate(t) \/ StartTransfer(t)
    PROVE  IInv'
<1>1. Types /\ At(t)
  BY DEF IInv
<1>2. /\ UNCHANGED <<inactive_threads, active_thread_count, taken, event, main, woken_early>>
      /\ Pooled' = Pooled
  BY DEF Receive, Register, Activate, StartTransfer, counts, Pooled
<1>3. ASSUME NEW st \in States, NEW mail, st # "dead",
             state' = [state EXCEPT ![t] = st], queue' = [queue EXCEPT ![t] = mail],
             t \notin Pooled /\ taken # t, At(t)',
             state[t] \notin {"none", "destroyed"}, st \notin {"none", "destroyed"}
      PROVE  IInv'
  <2>1. Away(t)' /\ Away(t)
    BY <1>1, <1>2, <1>3 DEF Away, Types
  <2>2. active_thread_count' \in Int
        /\ active_thread_count' = active_thread_count
             + (IF Away(t)' THEN 1 ELSE 0) - (IF Away(t) THEN 1 ELSE 0)
    BY <1>1, <1>2, <2>1 DEF Types
  <2>3. Alive'
    <3>1. \A u \in Threads : state'[u] = "dead" => state[u] = "dead"
      BY <1>1, <1>3 DEF Types
    <3> QED
      BY <1>2, <3>1, Zenon DEF Alive, IInv
  <2> QED
    BY <1>2, <1>3, <2>2, <2>3, OneThread
<1>4. CASE Receive(t)
  <2>1. queue[t] \in Sent /\ state[t] = "recv" /\ state[t] \in Waits /\ queue[t] # <<>>
    BY <1>1, <1>4 DEF Receive, At, Waits
  <2>2. PICK e \in Events : queue[t] = <<e>>
    BY <2>1 DEF Sent
  <2>3. /\ state' = [state EXCEPT ![t] = e]
        /\ queue' = [queue EXCEPT ![t] = Tail(@)] /\ Tail(queue[t]) = <<>>
    BY <1>4, <2>2 DEF Receive
  <2>4. queue' = [queue EXCEPT ![t] = <<>>]
    BY <2>3
  <2>5. e \in States /\ e \notin Waits \cup {"xfer_wait", "none", "destroyed", "dead"}
    BY DEF States, Events, Waits
  <2>6. t \notin Pooled /\ taken # t
    BY <1>1, <2>1 DEF At
  <2>7. At(t)'
    BY <1>1, <1>2, <2>3, <2>4, <2>5, <2>6 DEF At, Types
  <2> QED
    BY <1>3, <2>1, <2>3, <2>4, <2>5, <2>6, <2>7
<1>5. CASE Register(t)
  <2>1. /\ state[t] = "HT_DATA_CONNECT" /\ state' = [state EXCEPT ![t] = "xfer_wait"]
        /\ queue' = queue
    BY <1>5 DEF Register
  <2>2. queue[t] = <<>> /\ t \notin Pooled /\ taken # t
    BY <1>1, <2>1 DEF At, Waits
  <2>3. "xfer_wait" \in States /\ "xfer_wait" \notin Waits
    BY DEF States, Waits
  <2>4. queue' = [queue EXCEPT ![t] = <<>>]
    BY <1>1, <2>1, <2>2 DEF Types
  <2>5. At(t)'
    BY <1>1, <1>2, <2>1, <2>2, <2>3 DEF At, Types
  <2> QED
    BY <1>3, <2>1, <2>2, <2>3, <2>4, <2>5
<1>6. CASE Activate(t)
  <2>1. /\ state[t] = "xfer_wait" /\ state' = state
        /\ queue' = [queue EXCEPT ![t] = <<"HT_DOWNLOAD">>]
    BY <1>6 DEF Activate
  <2>2. t \notin Pooled /\ taken # t
    BY <1>1, <2>1 DEF At, Waits
  <2>3. "xfer_wait" \in States /\ "xfer_wait" \notin Waits
    BY DEF States, Waits
  <2>4. state' = [state EXCEPT ![t] = "xfer_wait"]
    BY <1>1, <2>1 DEF Types
  <2>5. At(t)'
    BY <1>1, <1>2, <2>1, <2>2, <2>3 DEF At, Types
  <2> QED
    BY <1>3, <2>1, <2>2, <2>3, <2>4, <2>5
<1>7. CASE StartTransfer(t)
  <2>1. /\ state[t] = "xfer_wait" /\ state' = [state EXCEPT ![t] = "HT_DOWNLOAD"]
        /\ queue' = [queue EXCEPT ![t] = Tail(@)] /\ queue[t] # <<>>
    BY <1>7 DEF StartTransfer
  <2>2. t \notin Pooled /\ taken # t /\ queue[t] = <<"HT_DOWNLOAD">>
    BY <1>1, <2>1 DEF At, Waits
  <2>3. "HT_DOWNLOAD" \in States /\ "HT_DOWNLOAD" \notin Waits \cup {"xfer_wait"}
    BY DEF States, Waits
  <2>4. queue' = [queue EXCEPT ![t] = <<>>]
    BY <2>1, <2>2
  <2>5. At(t)'
    BY <1>1, <1>2, <2>1, <2>2, <2>3, <2>4 DEF At, Types
  <2> QED
    BY <1>3, <2>1, <2>2, <2>3, <2>4, <2>5
<1> QED
  BY <1>4, <1>5, <1>6, <1>7

(* A thread that is woken without a message dies where it waits. *)
LEMMA SpuriousStep ==
    ASSUME IInv, NEW t \in Threads, SpuriousWakeup(t)
    PROVE  IInv'
<1>1. Types /\ At(t)
  BY DEF IInv
<1>2. /\ UNCHANGED <<inactive_threads, active_thread_count, taken, event, main, queue>>
      /\ queue[t] = <<>> /\ Pooled' = Pooled
  BY DEF SpuriousWakeup, counts, Pooled
<1>3. queue' = [queue EXCEPT ![t] = <<>>]
  BY <1>1, <1>2 DEF Types
<1>4. Alive'
  <2>1. woken_early' = TRUE
    BY DEF SpuriousWakeup
  <2> QED
    BY <2>1, Zenon DEF Alive
<1>5. ASSUME NEW st \in {"dead", "HT_DOWNLOAD"}, state' = [state EXCEPT ![t] = st], At(t)',
             state[t] \notin {"none", "destroyed"}
      PROVE  IInv'
  <2>1. st \in States /\ st \notin {"none", "destroyed"}
    BY DEF States
  <2>2. Away(t)' <=> Away(t)
    BY <1>1, <1>2, <1>5, <2>1 DEF Away, Types
  <2>3. active_thread_count' \in Int
        /\ active_thread_count' = active_thread_count
             + (IF Away(t)' THEN 1 ELSE 0) - (IF Away(t) THEN 1 ELSE 0)
    BY <1>1, <1>2, <2>2 DEF Types
  <2> QED
    BY <1>2, <1>3, <1>4, <1>5, <2>1, <2>3, OneThread
<1>6. CASE state[t] = "recv" /\ state' = [state EXCEPT ![t] = Gone(t)]
  <2>1. t \in Pooled \/ taken = t
    BY <1>1, <1>2, <1>6 DEF At, Waits
  <2>2. Gone(t) = "dead"
    BY <2>1 DEF Gone, Pooled
  <2>3. At(t)'
    BY <1>1, <1>2, <1>6, <2>1, <2>2 DEF At, Types, Waits
  <2> QED
    BY <1>5, <1>6, <2>2, <2>3
<1>7. CASE state[t] = "xfer_wait" /\ state' = [state EXCEPT ![t] = "HT_DOWNLOAD"]
  <2>1. t \notin Pooled /\ taken # t
    BY <1>1, <1>7 DEF At, Waits
  <2>2. At(t)'
    BY <1>1, <1>2, <1>7, <2>1 DEF At, Types, Waits
  <2> QED
    BY <1>5, <1>7, <2>2
<1> QED
  BY <1>6, <1>7 DEF SpuriousWakeup

LEMMA WakeIs ==
    ASSUME Wake
    PROVE  (main' = "send" <=> main = "send") /\ (main' # "poll" => main # "poll")
BY DEF Wake

(* A thread whose work is done goes back on the stack, or is destroyed. *)
LEMMA ReturnStep ==
    ASSUME IInv, NEW t \in Threads, tm_return_thread(t)
    PROVE  IInv'
<1>1. Types /\ At(t) /\ (\A u \in Threads : At(u))
  BY DEF IInv
<1>2. /\ state[t] \in Events \cup {"HT_DOWNLOAD"}
      /\ active_thread_count' = active_thread_count - 1
      /\ (main' = "send" <=> main = "send") /\ (main' # "poll" => main # "poll")
      /\ UNCHANGED <<queue, taken, event, woken_early>>
  BY WakeIs DEF tm_return_thread
<1>3. state[t] \notin Waits \cup {"xfer_wait", "none", "destroyed"}
  BY <1>2 DEF Events, Waits
<1>4. queue[t] = <<>> /\ t \notin Pooled /\ taken # t /\ Away(t)
  BY <1>1, <1>3 DEF At, Away
<1>5. CASE state' = [state EXCEPT ![t] = "destroyed"] /\ UNCHANGED inactive_threads
  <2>1. queue' = [queue EXCEPT ![t] = <<>>]
    BY <1>1, <1>2, <1>4 DEF Types
  <2>2. "destroyed" \in States /\ "destroyed" \notin Waits \cup {"xfer_wait"}
    BY DEF States, Waits
  <2>3. state'[t] = "destroyed" /\ Pooled' = Pooled
    BY <1>1, <1>5 DEF Types, Pooled
  <2>4. At(t)' /\ ~Away(t)'
    BY <1>2, <1>4, <2>2, <2>3 DEF At, Away
  <2>5. active_thread_count' \in Int
        /\ active_thread_count' = active_thread_count
             + (IF Away(t)' THEN 1 ELSE 0) - (IF Away(t) THEN 1 ELSE 0)
    BY <1>1, <1>2, <1>4, <2>4 DEF Types
  <2>6. Alive'
    <3>1. \A u \in Threads : state'[u] = "dead" => state[u] = "dead"
      BY <1>1, <1>5 DEF Types
    <3> QED
      BY <1>2, <3>1, Zenon DEF Alive, IInv
  <2> QED
    BY <1>2, <1>5, <2>1, <2>2, <2>4, <2>5, <2>6, OneThread
<1>6. CASE /\ state' = [state EXCEPT ![t] = "recv"]
           /\ inactive_threads' = Append(inactive_threads, t)
  <2>1. /\ inactive_threads' \in Seq(Threads) /\ IsInjective(Append(inactive_threads, t))
        /\ Range(Append(inactive_threads, t)) = Pooled \cup {t}
    BY <1>1, <1>4, <1>6, PushedOne DEF Types, Pooled
  <2>2. IsInjective(inactive_threads)' /\ Pooled' = Pooled \cup {t}
    BY <1>6, <2>1, Zenon DEF Pooled
  <2>3. /\ state' \in [Threads -> States] /\ state'[t] = "recv" /\ "recv" \in Waits
        /\ \A u \in Threads \ {t} : state'[u] = state[u]
    BY <1>1, <1>6 DEF Types, States, Waits
  <2>4. Types'
    BY <1>1, <1>2, <1>4, <2>1, <2>2, <2>3 DEF Types
  <2>5. At(t)'
    BY <1>2, <1>4, <2>2, <2>3 DEF At
  <2>6. ASSUME NEW u \in Threads PROVE At(u)'
    <3>1. CASE u # t
      BY <1>1, <1>2, <2>2, <2>3, <3>1, Stays
    <3> QED
      BY <2>5, <3>1
  <2>7. ~Away(t)' /\ \A u \in Threads \ {t} : Away(u)' <=> Away(u)
    BY <2>2, <2>3 DEF Away
  <2>8. ActiveCounted'
    BY <1>1, <1>2, <1>4, <2>4, <2>6, <2>7, Counted DEF Types
  <2>9. Alive'
    <3>1. \A u \in Threads : state'[u] = "dead" => state[u] = "dead"
      BY <1>1, <1>6 DEF Types
    <3> QED
      BY <1>2, <3>1, Zenon DEF Alive, IInv
  <2> QED
    BY <2>4, <2>6, <2>8, <2>9 DEF IInv
<1> QED
  BY <1>5, <1>6 DEF tm_return_thread

LEMMA ReceiveDestroyedStep ==
    ASSUME IInv, NEW t \in Threads, ReceiveDestroyed(t)
    PROVE  IInv'
<1>1. Types /\ At(t)
  BY DEF IInv
<1>2. /\ state[t] = "destroyed"
      /\ UNCHANGED <<inactive_threads, active_thread_count, taken, event, main, queue,
                     woken_early>>
  BY DEF ReceiveDestroyed, counts
<1>3. PICK st \in {"none", "destroyed"} : state' = [state EXCEPT ![t] = st]
  BY <1>1, <1>2 DEF ReceiveDestroyed, Types
<1>4. /\ queue[t] = <<>> /\ t \notin Pooled /\ taken # t /\ Pooled' = Pooled
      /\ st \in States /\ st \notin Waits \cup {"xfer_wait", "dead"}
  BY <1>1, <1>2 DEF At, Waits, States, Pooled
<1>5. queue' = [queue EXCEPT ![t] = <<>>] /\ state'[t] = st
  BY <1>1, <1>2, <1>3, <1>4 DEF Types
<1>6. At(t)' /\ ~Away(t)' /\ ~Away(t)
  BY <1>2, <1>3, <1>4, <1>5 DEF At, Away
<1>7. active_thread_count' \in Int
      /\ active_thread_count' = active_thread_count
           + (IF Away(t)' THEN 1 ELSE 0) - (IF Away(t) THEN 1 ELSE 0)
  BY <1>1, <1>2, <1>6 DEF Types
<1>8. Alive'
  <2>1. \A u \in Threads : state'[u] = "dead" => state[u] = "dead"
    BY <1>1, <1>3, <1>4 DEF Types
  <2> QED
    BY <1>2, <2>1, Zenon DEF Alive, IInv
<1> QED
  BY <1>2, <1>3, <1>4, <1>5, <1>6, <1>7, <1>8, OneThread

(* A reload fills the pool with threads that did not exist. *)
LEMMA ReloadStep ==
    ASSUME IInv, tm_init
    PROVE  IInv'
<1>1. Types /\ (\A u \in Threads : At(u))
  BY DEF IInv
<1>2. PICK limit \in Limits : \E n \in Spawned(Missing(limit[1])) : \E s \in Fillings(n) :
        /\ inactive_threads' = inactive_threads \o s
        /\ state' = [t \in Threads |-> IF t \in Range(s) THEN "recv" ELSE state[t]]
  BY DEF tm_init
<1>3. PICK n \in Spawned(Missing(limit[1])) : \E s \in Fillings(n) :
        /\ inactive_threads' = inactive_threads \o s
        /\ state' = [t \in Threads |-> IF t \in Range(s) THEN "recv" ELSE state[t]]
  BY <1>2
<1>4. PICK s \in Fillings(n) :
        /\ inactive_threads' = inactive_threads \o s
        /\ state' = [t \in Threads |-> IF t \in Range(s) THEN "recv" ELSE state[t]]
  BY <1>3
<1>5. n \in Nat
  <2> DEFINE len == Len(inactive_threads)
             max == limit[1]
  <2>1. len \in Nat /\ max \in Nat /\ active_thread_count \in Int
    BY <1>1, PoolAssumption DEF Types
  <2>2. Missing(max) = IF max > len + active_thread_count
                       THEN max - len - active_thread_count ELSE 0
    BY DEF Missing
  <2>3. n \in 0 .. Missing(max) \/ n = Missing(max)
    BY DEF Spawned
  <2> HIDE DEF len, max
  <2>4. Missing(max) \in Nat
    BY <2>1, <2>2
  <2> HIDE DEF max
  <2> QED
    BY <2>3, <2>4
<1>6. /\ s \in [1 .. n -> Unborn] /\ \A i, j \in 1 .. n : i # j => s[i] # s[j]
  BY DEF Fillings
<1>7. s \in Seq(Threads) /\ DOMAIN s = 1 .. n /\ Range(s) \subseteq Unborn
  <2>1. s \in [1 .. n -> Threads]
    BY <1>6 DEF Unborn
  <2>2. s \in Seq(Threads)
    BY <1>5, <2>1, SeqDef
  <2> QED
    BY <1>6, <2>2 DEF Range
<1>8. IsInjective(s)
  <2>1. \A i, j \in DOMAIN s : s[i] = s[j] => i = j
    BY <1>6, <1>7
  <2> QED
    BY <2>1, Zenon DEF IsInjective
<1>9. \A t \in Range(s) : /\ t \in Threads /\ state[t] = "none"
                          /\ queue[t] = <<>> /\ t \notin Pooled /\ taken # t
  <2>1. SUFFICES ASSUME NEW t \in Range(s)
                 PROVE  /\ t \in Threads /\ state[t] = "none"
                        /\ queue[t] = <<>> /\ t \notin Pooled /\ taken # t
    OBVIOUS
  <2>2. t \in Threads /\ state[t] = "none"
    BY <1>7 DEF Unborn
  <2> QED
    BY <1>1, <2>2 DEF At, Waits
<1>10. /\ inactive_threads' \in Seq(Threads) /\ IsInjective(inactive_threads \o s)
      /\ Range(inactive_threads \o s) = Pooled \cup Range(s)
  <2>1. \A x \in Range(s) : x \notin Range(inactive_threads)
    BY <1>9 DEF Pooled
  <2> QED
    BY <1>1, <1>4, <1>7, <1>8, <2>1, Pushed DEF Types, Pooled
<1>11. IsInjective(inactive_threads)' /\ Pooled' = Pooled \cup Range(s)
  BY <1>4, <1>10, Zenon DEF Pooled
<1>12. UNCHANGED <<active_thread_count, queue, main, taken, event, woken_early>>
  BY DEF tm_init
<1>13. \A t \in Threads : state'[t] = IF t \in Range(s) THEN "recv" ELSE state[t]
  BY <1>4
<1>14. Types'
  <2>1. state' \in [Threads -> States]
    <3>1. "recv" \in States
      BY DEF States
    <3> QED
      BY <1>1, <1>4, <3>1 DEF Types
  <2>2. taken \notin Range(s)
    BY <1>9
  <2> QED
    BY <1>1, <1>10, <1>11, <1>12, <2>1, <2>2 DEF Types
<1>15. ASSUME NEW t \in Threads PROVE At(t)' /\ (Away(t)' <=> Away(t))
  <2>1. CASE t \in Range(s)
    <3>1. state'[t] = "recv" /\ queue'[t] = <<>> /\ t \in Pooled' /\ state[t] = "none"
      BY <1>9, <1>11, <1>12, <1>13, <2>1
    <3> QED
      BY <3>1 DEF At, Away, Waits
  <2>2. CASE t \notin Range(s)
    <3>1. state'[t] = state[t] /\ queue'[t] = queue[t] /\ taken' = taken
          /\ (t \in Pooled' <=> t \in Pooled)
      BY <1>11, <1>12, <1>13, <2>2
    <3> QED
      BY <1>1, <3>1, Stays DEF Away
  <2> QED
    BY <2>1, <2>2
<1>16. ActiveCounted'
  BY <1>12, <1>14, <1>15, CountKept
<1>17. Alive'
  <2>1. \A t \in Threads : state'[t] = "dead" => state[t] = "dead"
    BY <1>13
  <2> QED
    BY <1>12, <2>1, Zenon DEF Alive, IInv
<1> QED
  BY <1>14, <1>15, <1>16, <1>17 DEF IInv

LEMMA Starts == Init => IInv
<1> SUFFICES ASSUME Init PROVE IInv
  OBVIOUS
<1> DEFINE c == Cardinality(Threads)
<1>1. PICK limit \in Limits, s \in [1 .. c -> Threads] :
        /\ \A t \in Threads : \E i \in DOMAIN s : s[i] = t
        /\ limit[1] <= c
        /\ \E n \in Spawned(limit[1]) : inactive_threads = SubSeq(s, 1, n)
        /\ state = [t \in Threads |->
                      IF t \in Range(inactive_threads) THEN "recv" ELSE "none"]
  BY DEF Init
<1>2. PICK n \in Spawned(limit[1]) : inactive_threads = SubSeq(s, 1, n)
  BY <1>1
<1>3. c \in Nat /\ limit[1] \in Nat
  BY FS_CardinalityType, PoolAssumption
<1>4. n \in 0 .. c
  <2> DEFINE max == limit[1]
  <2>1. n \in 0 .. max \/ n = max
    BY DEF Spawned
  <2>2. max \in Nat /\ max <= c
    BY <1>1, <1>3
  <2> HIDE DEF c, max
  <2> QED
    BY <1>3, <2>1, <2>2
<1>5. \A i, j \in 1 .. c : s[i] = s[j] => i = j
  <2>1. IsFiniteSet(1 .. c) /\ Cardinality(1 .. c) = c
    BY <1>3, FS_Interval
  <2>2. s \in Surjection(1 .. c, Threads)
    BY <1>1 DEF Surjection
  <2>3. s \in Injection(1 .. c, Threads)
    BY <2>1, <2>2, FS_SurjSameCardinalityImpliesInj
  <2> QED
    BY <2>3, Zenon DEF Injection, IsInjective
<1>6. /\ inactive_threads \in Seq(Threads) /\ DOMAIN inactive_threads = 1 .. n
      /\ \A i \in 1 .. n : inactive_threads[i] = s[i] /\ i \in 1 .. c
  <2> HIDE DEF c
  <2>1. \A i \in 1 .. n : i \in 1 .. c
    BY <1>3, <1>4
  <2>2. \A i \in 1 .. n : s[i] \in Threads
    BY <2>1
  <2>3. /\ SubSeq(s, 1, n) \in Seq(Threads) /\ Len(SubSeq(s, 1, n)) = n
        /\ \A i \in 1 .. n : SubSeq(s, 1, n)[i] = s[i]
    <3>1. s \in Seq(Threads) /\ Len(s) = c
      BY <1>3, SeqDef, LenProperties
    <3>2. n \in Nat /\ n <= c /\ 1 \in Nat
      BY <1>3, <1>4
    <3>3. SubSeq(s, 1, n) = [i \in 1 .. n |-> s[i]]
      BY <1>3, <1>4, <3>1
    <3>4. [i \in 1 .. n |-> s[i]] \in [1 .. n -> Threads]
      BY <2>2
    <3>5. [i \in 1 .. n |-> s[i]] \in Seq(Threads)
      BY <3>2, <3>4, SeqDef
    <3> QED
      BY <3>2, <3>3, <3>5, LenProperties
  <2> QED
    BY <1>2, <2>1, <2>3, LenProperties
<1>7. IsInjective(inactive_threads)
  <2>1. \A i, j \in DOMAIN inactive_threads :
          inactive_threads[i] = inactive_threads[j] => i = j
    BY <1>5, <1>6
  <2> QED
    BY <2>1, Zenon DEF IsInjective
<1>8. /\ active_thread_count = 0 /\ queue = [t \in Threads |-> <<>>]
      /\ main = "poll" /\ taken = NoThread /\ woken_early = FALSE
  BY DEF Init
<1>9. Pooled \subseteq Threads
  BY <1>6 DEF Pooled, Range
<1>10. Types
  <2>1. state \in [Threads -> States]
    BY <1>1 DEF States
  <2> QED
    BY <1>6, <1>7, <1>8, <1>9, <2>1, PoolAssumption DEF Types
<1>11. ASSUME NEW t \in Threads PROVE At(t) /\ ~Away(t) /\ state[t] # "dead"
  <2>1. t # NoThread /\ queue[t] = <<>>
        /\ state[t] = IF t \in Pooled THEN "recv" ELSE "none"
    BY <1>1, <1>8, PoolAssumption DEF Pooled
  <2> QED
    BY <1>8, <2>1 DEF At, Away, Waits
<1>12. ActiveCounted
  <2>1. \A t \in Threads : t \notin Out
    BY <1>10, <1>11, Where
  <2>2. Out = {}
    BY <1>8, <2>1 DEF Out
  <2> QED
    BY <1>8, <2>2, FS_EmptySet DEF ActiveCounted
<1>13. Alive
  BY <1>8, <1>11, Zenon DEF Alive
<1> QED
  BY <1>10, <1>11, <1>12, <1>13 DEF IInv

LEMMA Continues ==
    ASSUME IInv, [Next]_vars
    PROVE  IInv'
<1>1. ASSUME Poll \/ GetWait \/ GetFails PROVE IInv'
  <2>1. /\ UNCHANGED <<counts, state, queue, taken, woken_early>>
        /\ main # "send" /\ main' # "send"
    BY <1>1 DEF Poll, GetWait, GetFails
  <2>2. main' # "poll" => event' \in Events
    BY <1>1 DEF Poll, GetWait, GetFails, IInv, Types
  <2> QED
    BY <2>1, <2>2, MainAlone
<1>2. CASE GetPooled
  <2>1. /\ main \notin {"poll", "send"} /\ inactive_threads # <<>>
        /\ Take(Last(inactive_threads), Front(inactive_threads))
        /\ UNCHANGED <<state, queue, event, woken_early>>
    BY <1>2 DEF GetPooled
  <2> QED
    BY <2>1, GetPooledStep
<1>3. CASE GetCreated
  BY <1>3, GetCreatedStep
<1>4. CASE GetReturned
  <2>1. CASE inactive_threads # <<>>
    <3>1. /\ main \notin {"poll", "send"}
          /\ Take(Last(inactive_threads), Front(inactive_threads))
          /\ UNCHANGED <<state, queue, event, woken_early>>
      BY <1>4, <2>1 DEF GetReturned
    <3> QED
      BY <2>1, <3>1, GetPooledStep
  <2>2. CASE inactive_threads = <<>>
    <3>1. /\ UNCHANGED <<counts, state, queue, taken, woken_early>>
          /\ main = "one_returned" /\ main' = main /\ event' = event
      BY <1>4, <2>2 DEF GetReturned
    <3>2. event \in Events
      BY <3>1 DEF IInv, Types
    <3> QED
      BY <3>1, <3>2, MainAlone
  <2> QED
    BY <2>1, <2>2
<1>5. CASE Send
  BY <1>5, SendStep
<1>6. CASE tm_init
  BY <1>6, ReloadStep
<1>7. ASSUME NEW t \in Threads, Helper(t) \/ Activate(t) \/ SpuriousWakeup(t)
      PROVE  IInv'
  <2>1. CASE Receive(t) \/ Register(t) \/ Activate(t) \/ StartTransfer(t)
    BY <2>1, WorkStep
  <2>2. CASE tm_return_thread(t)
    BY <2>2, ReturnStep
  <2>3. CASE ReceiveDestroyed(t)
    BY <2>3, ReceiveDestroyedStep
  <2>4. CASE SpuriousWakeup(t)
    BY <2>4, SpuriousStep
  <2> QED
    BY <1>7, <2>1, <2>2, <2>3, <2>4 DEF Helper
<1>8. CASE MainWokenEarly
  <2>1. /\ UNCHANGED <<counts, state, queue, taken, woken_early>>
        /\ main \in {"wait", "wait_for_one"} /\ main' # "send" /\ event' = event
    BY <1>8 DEF MainWokenEarly, Wake
  <2>2. event \in Events
    BY <2>1 DEF IInv, Types
  <2> QED
    BY <2>1, <2>2, MainAlone
<1>9. CASE UNCHANGED vars
  <2>1. UNCHANGED <<inactive_threads, active_thread_count, state, queue, main, taken,
                    event, woken_early>>
    BY <1>9 DEF vars, counts
  <2>2. Types /\ Pooled' = Pooled
    BY <2>1 DEF IInv, Pooled
  <2>3. IsInjective(inactive_threads)'
    BY <2>1, <2>2, Zenon DEF Types
  <2>4. Types'
    BY <2>1, <2>2, <2>3 DEF Types
  <2>5. \A u \in Threads : At(u)'
    BY <2>1, <2>2, Stays DEF IInv
  <2>6. \A u \in Threads : Away(u)' <=> Away(u)
    BY <2>1, <2>2 DEF Away
  <2>7. ActiveCounted'
    BY <2>1, <2>4, <2>5, <2>6, CountKept
  <2>8. Alive'
    BY <2>1, Zenon DEF Alive, IInv
  <2> QED
    BY <2>4, <2>5, <2>7, <2>8 DEF IInv
<1> QED
  BY <1>1, <1>2, <1>3, <1>4, <1>5, <1>6, <1>7, <1>8, <1>9 DEF Next, Main

(* active_thread_count, which tm_get_thread compares with the maximum, is   *)
(* the number of threads out of the pool: none is counted twice, and none   *)
(* leaves or returns uncounted, whatever the reloads, the lost threads and  *)
(* the wakeups without a message.                                           *)
THEOREM EveryoneIsCounted == Spec => []ActiveCounted
<1>1. IInv => ActiveCounted
  BY DEF IInv
<1> QED
  BY <1>1, Starts, Continues, PTL DEF Spec

LEMMA IdleInPool ==
    ASSUME IInv
    PROVE  PoolIsIdle
<1>1. Types /\ (\A t \in Threads : At(t)) /\ Alive
  BY DEF IInv
<1>2. IsInjective(inactive_threads)
  BY <1>1, Zenon DEF Types
<1>3. ASSUME ~woken_early, NEW t \in Range(inactive_threads)
      PROVE  state[t] = "recv" /\ queue[t] = <<>> /\ t \notin Out
  <2>1. t \in Threads /\ t \in Pooled
    BY <1>1 DEF Types, Range, Pooled
  <2>2. state[t] \in Waits /\ queue[t] = <<>>
    BY <1>1, <2>1 DEF At
  <2>3. state[t] # "dead"
    BY <1>1, <1>3, <2>1, Zenon DEF Alive
  <2>4. t \notin Out
    BY <1>1, <2>1, Where DEF Away
  <2> QED
    BY <2>2, <2>3, <2>4 DEF Waits
<1> QED
  BY <1>2, <1>3, Zenon DEF PoolIsIdle

(* A thread in the pool is there once, alive, waiting with an empty queue,  *)
(* and no work of a transaction or a transfer holds it: tm_get_thread never *)
(* hands out a thread that is at work.                                      *)
THEOREM PooledAreIdle == Spec => []PoolIsIdle
BY IdleInPool, Starts, Continues, PTL DEF Spec
=============================================================================
