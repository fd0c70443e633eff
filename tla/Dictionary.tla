------------------------------ MODULE Dictionary ------------------------------
(* What Collection.h and HashTable.h promise: a set of entries, and calls that *)
(* answer for the key they were given.  An entry is its key (its data pointer  *)
(* never changes); an answer is the set of keys whose data the call returns    *)
(* or, for an insertion, the key it refuses to insert again.                   *)
CONSTANTS Threads, Keys

VARIABLES entries,  \* the keys in the collection
          asked,    \* asked[t]: the call thread t last made, and its key
          answer    \* answer[t]: what that call returned, {} while it runs

vars == <<entries, asked, answer>>

Calls == {"none", "insert", "remove", "lookup", "iterate"}

Init == /\ entries = {}
        /\ asked \in [Threads -> [call : {"none"}, key : Keys]]
        /\ answer = [t \in Threads |-> {}]

Ask(t) == /\ \E c \in Calls \ {"none"}, k \in Keys :
               asked' = [asked EXCEPT ![t] = [call |-> c, key |-> k]]
          /\ answer' = [answer EXCEPT ![t] = {}]
          /\ UNCHANGED entries

(* An insertion or a removal, exclusive of everything else, in one step. *)
Update(t) == \E c \in {"insert", "remove"}, k \in Keys :
    /\ asked' = [asked EXCEPT ![t] = [call |-> c, key |-> k]]
    /\ answer' = [answer EXCEPT ![t] = entries \cap {k}]
    /\ entries' = IF c = "insert" THEN entries \cup {k} ELSE entries \ {k}

(* A lookup returns the entry of its key; a traversal shows every entry, *)
(* or some of them when the callback stops it.                           *)
Answer(t) == /\ \/ /\ asked[t].call = "lookup"
                   /\ answer' = [answer EXCEPT ![t] = entries \cap {asked[t].key}]
                \/ /\ asked[t].call = "iterate"
                   /\ \E shown \in SUBSET entries :
                        answer' = [answer EXCEPT ![t] = shown]
             /\ UNCHANGED <<entries, asked>>

Next == \E t \in Threads : Ask(t) \/ Update(t) \/ Answer(t)

Spec == Init /\ [][Next]_vars
===============================================================================
