------------------------------ MODULE IDM ------------------------------
(* The identifier manager (src/IDM.c): a linked list of intervals of free   *)
(* identifiers, here the sequence of its nodes.  A function that takes an   *)
(* IDM * is an operator from the list to the list it leaves behind.         *)
EXTENDS Integers, Sequences, SequencesExt

Node(first, last) == [start |-> first, end |-> last]

(* idm_create: base + size is itself an identifier *)
idm_create(base, size) == <<Node(base, base + size)>>

(* idm_get: the identifier handed out, and the list afterwards *)
idm_index(list) == list[1].start

\* mutant: the interval is not advanced
idm_getRepeats(list) == IF list[1].start = list[1].end
                        THEN list
                        ELSE [list EXCEPT ![1].start = @ + 1]

idm_get(list) == IF list[1].start = list[1].end
                 THEN Tail(list)
                 ELSE [list EXCEPT ![1].start = @ + 1]

\* where the search of idm_return stops: the last node, or the first one
\* whose successor the identifier does not lie wholly beyond
Predecessor(list, index) ==
    CHOOSE c \in DOMAIN list :
        /\ c = Len(list) \/ index <= list[c + 1].end + 1
        /\ \A d \in 1 .. c - 1 : index > list[d + 1].end + 1

\* mutant: the successor goes, its end is not kept
MergeDropping(list, c) ==
    IF c < Len(list) /\ list[c].end = list[c + 1].start - 1
    THEN RemoveAt(list, c + 1)
    ELSE list

\* node c swallows its successor if nothing lies between them
Merge(list, c) ==
    IF c < Len(list) /\ list[c].end = list[c + 1].start - 1
    THEN [RemoveAt(list, c + 1) EXCEPT ![c].end = list[c + 1].end]
    ELSE list

\* the search beyond the first node, for a list of at least two
ReturnBeyondHead(list, index) ==
    LET c == Predecessor(list, index) IN
    CASE c = Len(list) -> Append(list, Node(index, index))
      [] c < Len(list) /\ index = list[c + 1].end + 1 ->
            Merge([list EXCEPT ![c + 1].end = index], c + 1)
      [] c < Len(list) /\ index = list[c + 1].start - 1 ->
            Merge([list EXCEPT ![c + 1].start = index], c)
      [] c < Len(list) /\ index < list[c + 1].start - 1 /\ index > list[c].end + 1 ->
            InsertAt(list, c + 1, Node(index, index))
      [] OTHER -> list

(* idm_return *)
idm_return(list, index) ==
    CASE list = <<>> -> <<Node(index, index)>>
      [] list # <<>> /\ index < list[1].start - 1 -> <<Node(index, index)>> \o list
      [] list # <<>> /\ index = list[1].start - 1 -> [list EXCEPT ![1].start = index]
      [] Len(list) = 1 /\ index > list[1].end + 1 -> Append(list, Node(index, index))
      [] Len(list) = 1 /\ index = list[1].end + 1 -> [list EXCEPT ![1].end = index]
      [] Len(list) > 1 /\ index >= list[1].start  -> ReturnBeyondHead(list, index)
      [] OTHER -> list

\* the identifiers on the list
Free(list) == UNION {list[n].start .. list[n].end : n \in DOMAIN list}
=============================================================================
