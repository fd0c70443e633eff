------------------------------ MODULE Collection ------------------------------
(* Collection.c, and HashTable.c, which is the same code over string keys: a   *)
(* chained hash table whose lookup moves the node it finds to the front of its *)
(* chain.  Insertions and removals run under a write lock and are one step;    *)
(* lookups and traversals run under a shared read lock (ConnectionManager.c)   *)
(* or a mutex (TransferManager.c), one statement at a time.  A node is named   *)
(* by its key, which no other node in the table has.                           *)
EXTENDS Naturals, FiniteSets, Sequences

CONSTANTS Callers, Keys, Null,
          Primes,      \* the bucket counts, in the order of the array
          Environment  \* {"shared_readers"}: the table is behind an RCL, else a mutex

ASSUME KeysAssumption == Keys \subseteq Nat /\ Keys # {} /\ IsFiniteSet(Keys) /\ Null \notin Keys
ASSUME PrimesAssumption ==
    /\ Primes \in Seq(Nat \ {0}) /\ Primes # <<>>
    /\ Cardinality(Keys) <= 3 * Primes[Len(Primes)]
ASSUME EnvironmentAssumption == Environment \subseteq {"shared_readers"}

VARIABLES n_nodes, n_buckets, buckets, next,  \* the table, and its nodes' next
          local   \* local[t]: the call thread t runs, and its locals

table == <<n_nodes, n_buckets, buckets, next>>
tableVars == <<table, local>>

Pointer == Keys \cup {Null}
Local == [pc : {"idle", "walk", "unlink", "relink", "front", "iterate", "callback",
                "fault"},  \* a NULL pointer was followed: the process is gone
          call : {"none", "insert", "remove", "lookup", "iterate", "broadcast"},
          key : Keys,         \* the argument
          n : Pointer, o : Pointer, \* collection_lookup's pointers
          i : Nat, c : Pointer,  \* collection_iterate's bucket and node
          visited : SUBSET Keys, answer : SUBSET Keys]

-------------------------------------------------------------------------------
(* The chains.  One that has become a cycle never reaches Null. *)

Hash(key, count) == key % count

Path(start) ==
    LET p[j \in 0 .. Cardinality(Keys)] ==
            IF j = 0 THEN start
            ELSE IF p[j - 1] = Null THEN Null ELSE next[p[j - 1]]
    IN p

Reached(i) == {Path(buckets[i])[j] : j \in 0 .. Cardinality(Keys)} \ {Null}

Contents == UNION {Reached(i) : i \in DOMAIN buckets}

(* No chain is a cycle and no node is lost. *)
Intact == /\ n_nodes = Cardinality(Contents)
          /\ \A i \in DOMAIN buckets : Path(buckets[i])[Cardinality(Keys)] = Null

\* mutant: hashed with the old bucket count
PushAsBefore(t, key) == LET b == Hash(key, n_buckets) IN
    [t EXCEPT !.next[key] = t.buckets[b], !.buckets[b] = key]

(* A table as a value: rebuilt, or given another node at the front of a chain. *)
Push(t, key) == LET b == Hash(key, t.count) IN
    [t EXCEPT !.next[key] = t.buckets[b], !.buckets[b] = key]

Current == [count |-> n_buckets, buckets |-> buckets, next |-> next]

next_prime(p) == Primes[CHOOSE i \in DOMAIN Primes :
                           Primes[i] >= p /\ \A j \in 1 .. i - 1 : Primes[j] < p]

(* The loops of hash_table_rebuild, a node or the end of an old chain at a    *)
(* time; a node's next is read before the node is pushed.                    *)
Emptying(m) == IF m.n # Null THEN [m EXCEPT !.n = next[m.n], !.new = Push(m.new, m.n)]
               ELSE IF m.i + 1 = n_buckets THEN m
               ELSE [m EXCEPT !.i = m.i + 1, !.n = buckets[m.i + 1]]

hash_table_rebuild(count) ==
    LET last == n_buckets + Cardinality(Keys)
        new == [count |-> count, buckets |-> [b \in 0 .. count - 1 |-> Null],
                next |-> [k \in Keys |-> Null]]
        moved[j \in 0 .. last] ==
            IF j = 0 THEN [i |-> 0, n |-> buckets[0], new |-> new]
            ELSE Emptying(moved[j - 1])
    IN moved[last].new

(* Insertion first grows the table when it holds more than 3 nodes a bucket; *)
(* removal first rebuilds it with half the buckets when it holds more than   *)
(* one node a bucket: the test that would make sense is the opposite one.    *)
hash_table_grow == IF n_nodes > 3 * n_buckets
                   THEN hash_table_rebuild(next_prime(n_buckets + 1)) ELSE Current
hash_table_shrink == IF n_nodes > n_buckets
                     THEN hash_table_rebuild(next_prime(n_buckets \div 2)) ELSE Current

TakenOut(t, key) ==
    LET b == Hash(key, t.count) IN
    [t EXCEPT !.buckets[b] = IF @ = key THEN t.next[key] ELSE @,
              !.next = [k \in Keys |-> IF k = key THEN Null
                                       ELSE IF t.next[k] = key THEN t.next[key]
                                       ELSE t.next[k]]]

-------------------------------------------------------------------------------
(* Calls.  A writer excludes every other call; a reader excludes the writers *)
(* and, when the table is behind a mutex, the other readers.                 *)

Others(t) == {u \in Callers \ {t} : local[u].pc # "idle"}
MayRead(t) == local[t].pc = "idle" /\ (Others(t) = {} \/ "shared_readers" \in Environment)
(* What a writer does to a table that is already damaged is not followed. *)
MayWrite(t) == local[t].pc = "idle" /\ Others(t) = {} /\ Intact

Set(t, call, k, answer) == local' = [local EXCEPT ![t] =
    [@ EXCEPT !.call = call, !.key = k, !.answer = answer]]

Store(t) == /\ n_buckets' = t.count
            /\ buckets' = t.buckets
            /\ next' = t.next

collection_insert(t, k) ==
    /\ MayWrite(t)
    /\ Set(t, "insert", k, Contents \cap {k})
    /\ IF k \in Contents
       THEN Store(hash_table_grow) /\ UNCHANGED n_nodes
       ELSE Store(Push(hash_table_grow, k)) /\ n_nodes' = n_nodes + 1

collection_remove(t, k) ==
    /\ MayWrite(t)
    /\ Set(t, "remove", k, Contents \cap {k})
    /\ IF k \in Contents
       THEN Store(TakenOut(hash_table_shrink, k)) /\ n_nodes' = n_nodes - 1
       ELSE Store(hash_table_shrink) /\ UNCHANGED n_nodes

(* A lookup's first walk pointer, whoever calls it. *)
Walk(l, k) == [l EXCEPT !.pc = "walk", !.key = k, !.n = Null,
                        !.o = buckets[Hash(k, n_buckets)]]

Lookup(t, k) ==
    /\ MayRead(t)
    /\ local' = [local EXCEPT ![t] =
                    [Walk(@, k) EXCEPT !.call = "lookup", !.answer = {}]]
    /\ UNCHANGED table

(* A traversal, by the broadcast of the connection manager or another.  *)
Iterate(t, call) ==
    /\ MayRead(t)
    /\ local' = [local EXCEPT ![t] =
                    [@ EXCEPT !.pc = "iterate", !.call = call, !.answer = {},
                              !.visited = {}, !.i = 0, !.c = buckets[0]]]
    /\ UNCHANGED table

-------------------------------------------------------------------------------
(* collection_lookup, statement by statement. *)

Ended(l, answer) == [l EXCEPT !.pc = "idle", !.n = Null, !.o = Null, !.c = Null,
                             !.i = 0, !.visited = {}, !.answer = answer]

(* The lookup returns: to its caller, or to the callback of a broadcast,   *)
(* which goes on to the next node of wherever its own node now is.         *)
Returned(l, answer) ==
    IF l.call = "broadcast" THEN [l EXCEPT !.pc = "iterate", !.n = Null, !.o = Null,
                                         !.c = next'[l.c]]
    ELSE Ended(l, answer)

LookOn(t) ==
    LET l == local[t] IN
    /\ l.pc = "walk" /\ l.o # Null
    /\ IF l.o = l.key
       THEN /\ l.o # buckets[Hash(l.key, n_buckets)]
            /\ local' = [local EXCEPT ![t].pc = "unlink"]
       ELSE local' = [local EXCEPT ![t].n = l.o, ![t].o = next[l.o]]
    /\ UNCHANGED table

(* Found at the front of the chain already, or not at all. *)
Found(t) ==
    LET l == local[t] IN
    /\ l.pc = "walk"
    /\ l.o # Null => l.o = l.key /\ l.o = buckets[Hash(l.key, n_buckets)]
    /\ UNCHANGED table
    /\ local' = [local EXCEPT ![t] = Returned(l, {l.o} \ {Null})]

(* n->next = o->next: with another reader at work n may be NULL, because o   *)
(* need not be behind the front of the chain any more.                       *)
LeaveChain(t) ==
    LET l == local[t] IN
    /\ l.pc = "unlink"
    /\ next' = IF l.n = Null THEN next ELSE [next EXCEPT ![l.n] = next[l.o]]
    /\ local' = [local EXCEPT ![t].pc = IF l.n = Null THEN "fault" ELSE "relink"]
    /\ UNCHANGED <<n_nodes, n_buckets, buckets>>

PointAtFront(t) ==
    LET l == local[t] IN
    /\ l.pc = "relink"
    /\ next' = [next EXCEPT ![l.o] = buckets[Hash(l.key, n_buckets)]]
    /\ local' = [local EXCEPT ![t].pc = "front"]
    /\ UNCHANGED <<n_nodes, n_buckets, buckets>>

\* mutant: the bucket is not set
BecomeFrontNot(t) ==
    LET l == local[t] IN
    /\ l.pc = "front"
    /\ UNCHANGED table
    /\ local' = [local EXCEPT ![t] = Returned(l, {l.o})]

BecomeFront(t) ==
    LET l == local[t] IN
    /\ l.pc = "front"
    /\ buckets' = [buckets EXCEPT ![Hash(l.key, n_buckets)] = l.o]
    /\ UNCHANGED <<n_nodes, n_buckets, next>>
    /\ local' = [local EXCEPT ![t] = Returned(l, {l.o})]

-------------------------------------------------------------------------------
(* collection_iterate. *)

Visit(t) ==
    LET l == local[t] IN
    /\ l.pc = "iterate" /\ l.c # Null
    /\ local' = [local EXCEPT ![t].pc = "callback", ![t].visited = @ \cup {l.c}]
    /\ UNCHANGED table

\* mutants: the same bucket again and again; the last bucket left out
NextBucketNever(t) ==
    LET l == local[t] IN
    /\ l.pc = "iterate" /\ l.c = Null
    /\ local' = [local EXCEPT ![t] =
                   IF l.i + 1 = n_buckets THEN Ended(l, l.visited)
                   ELSE [l EXCEPT !.c = buckets[l.i]]]
    /\ UNCHANGED table
NextBucketEarly(t) ==
    LET l == local[t] IN
    /\ l.pc = "iterate" /\ l.c = Null
    /\ local' = [local EXCEPT ![t] =
                   IF l.i + 2 >= n_buckets THEN Ended(l, l.visited)
                   ELSE [l EXCEPT !.i = @ + 1, !.c = buckets[l.i + 1]]]
    /\ UNCHANGED table

NextBucket(t) ==
    LET l == local[t] IN
    /\ l.pc = "iterate" /\ l.c = Null
    /\ local' = [local EXCEPT ![t] =
                   IF l.i + 1 = n_buckets THEN Ended(l, l.visited)
                   ELSE [l EXCEPT !.i = @ + 1, !.c = buckets[l.i + 1]]]
    /\ UNCHANGED table

(* The callback returns 1; it returns 0 and ends the traversal; or, being    *)
(* broadcast_iterator, it looks up the key it was called with.               *)
Callback(t) ==
    LET l == local[t] IN
    /\ l.pc = "callback"
    /\ \/ local' = [local EXCEPT ![t].pc = "iterate", ![t].c = next[l.c]]
       \/ l.call = "iterate" /\ local' = [local EXCEPT ![t] = Ended(l, l.visited)]
    /\ UNCHANGED table

CallbackLooksUp(t) ==
    LET l == local[t] IN
    /\ l.pc = "callback" /\ l.call = "broadcast"
    /\ local' = [local EXCEPT ![t] = Walk(l, l.c)]
    /\ UNCHANGED table

-------------------------------------------------------------------------------
Running(t) == \/ LookOn(t) \/ Found(t) \/ LeaveChain(t) \/ PointAtFront(t)
              \/ BecomeFront(t) \/ Visit(t) \/ NextBucket(t)
              \/ Callback(t) \/ CallbackLooksUp(t)

(* collection_create, and threads that have called nothing yet. *)
TableInit == /\ n_nodes = 0
             /\ n_buckets = Primes[1]
             /\ buckets = [b \in 0 .. Primes[1] - 1 |-> Null]
             /\ next = [k \in Keys |-> Null]
             /\ local \in [Callers -> [pc : {"idle"}, call : {"none"},
                                       key : {CHOOSE k \in Keys : TRUE},
                                       n : {Null}, o : {Null}, i : {0}, c : {Null},
                                       visited : {{}}, answer : {{}}]]

Alive == \A t \in Callers : local[t].pc # "fault"

TableNext == Alive /\ \E t \in Callers :
    \/ \E k \in Keys : collection_insert(t, k) \/ collection_remove(t, k) \/ Lookup(t, k)
    \/ \E call \in {"iterate", "broadcast"} : Iterate(t, call)
    \/ Running(t)

TableSpec == TableInit /\ [][TableNext]_tableVars

(* A thread that is in a call goes on with it. *)
FairTableSpec == TableSpec /\ \A t \in Callers : WF_tableVars(Running(t))

-------------------------------------------------------------------------------
(* While no call runs, every chain ends, n_nodes counts the nodes the chains    *)
(* hold, and each is in the chain its key hashes to, through every rebuild and *)
(* every move to the front, so that a lookup looks where the node is; shared   *)
(* readers break it.                                                           *)
ChainsSound == (\A t \in Callers : local[t].pc = "idle") =>
    /\ Intact
    /\ \A i \in DOMAIN buckets : \A k \in Reached(i) : Hash(k, n_buckets) = i

(* A traversal that reaches the end of the table has shown every entry. *)
VisitsAll == [][\A t \in Callers :
                  /\ local[t].pc = "iterate" /\ local'[t].pc = "idle"
                  => local'[t].answer = Contents]_tableVars

(* Every traversal whose callback leaves the chains alone ends, in a table     *)
(* whose chains lookups and rebuilds have reordered.                           *)
IterationEnds == \A t \in Callers :
    local[t].call = "iterate" /\ local[t].pc # "idle" ~> local[t].pc = "idle"

(* So does the broadcast's ("performs an in-order traversal of the            *)
(* collection", Collection.h:73), whose callback looks up its own key.         *)
BroadcastEnds == \A t \in Callers :
    local[t].call = "broadcast" /\ local[t].pc # "idle" ~> local[t].pc = "idle"

(* The table under the calls is a set of keys, and each call answers from it:  *)
(* "returns the pointer associated with the given key, or NULL if not found".  *)
(* In the middle of a move to the front the moved node is out of its chain,    *)
(* and still an entry.                                                         *)
Moving == {local[t].o : t \in {u \in Callers : local[u].pc \in {"relink", "front"}}}
AskedBy(l) == IF l.call \in {"iterate", "broadcast"}
              THEN [call |-> "iterate", key |-> CHOOSE k \in Keys : TRUE]
              ELSE [call |-> l.call, key |-> l.key]
Promise == INSTANCE Dictionary WITH
    Threads <- Callers,
    entries <- Contents \cup Moving,
    asked <- [t \in Callers |-> AskedBy(local[t])],
    answer <- [t \in Callers |-> local[t].answer]
ImplementsDictionary == Promise!Spec
===============================================================================
