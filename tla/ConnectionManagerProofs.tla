----------------------- MODULE ConnectionManagerProofs -----------------------
(* NoUseAfterFree, OwnConnection and ListsAgree of ConnectionManager.tla,      *)
(* for any numbers, clients and helpers. The first, with kicks and failed      *)
(* handshakes: the invariant follows cm_lock. What a reader has found stays    *)
(* in the table until it is done with it, because a writer waits for rc; and   *)
(* what a writer has taken out of the table is its own to free. The others,    *)
(* up to the first of either. For the second, the invariant says who has a     *)
(* number to himself, the main thread, a helper or the set of watched users,   *)
(* and that whoever gives it up does so with the last of his calls. For the    *)
(* third, it says of every list, one that a client has or one that is being    *)
(* made, that it is right of each user but those whom a helper has in hand.    *)
EXTENDS ConnectionManager, SequenceTheorems, TLAPS

Live == {"NL", "NR", "LI"}
PCs == {"idle", "handshake", "transaction", "next", "read_lock", "look", "use",
        "read_unlock", "cast_lock", "cast", "list", "reply", "write_lock",
        "complete", "write", "destroy"}
HelperCalls == Calls \ {"add", "dispatch"}

(* Local, with the calls that are left as a sequence of any length. *)
Record == [pc : PCs, uid : Fds \cup {None}, client : Clients \cup {None},
           calls : Seq(Calls), call : Calls \cup {None},
           victim : Fds \cup {None}, target : Fds \cup {None},
           o : Clients \cup {None}, todo : SUBSET Fds, list : SUBSET Fds, late : BOOLEAN]

Types == /\ ctbl \in [Fds -> Clients \cup {None}]
         /\ object \in [Clients -> Cstates]
         /\ socket \in [Fds -> Clients \cup {None}]
         /\ watched \subseteq Fds
         /\ entry \in Threads \cup {None}
         /\ rc \in [Threads -> 0 .. 2]
         /\ local \in [Threads -> Record]

(* The table has allocated objects only, each of them once. *)
TableInv ==
    /\ \A f \in Fds : ctbl[f] # None => object[ctbl[f]] \in Live
    /\ \A f, g \in Fds : f # g /\ ctbl[f] # None => ctbl[f] # ctbl[g]

(* What is left to do can be done: a removal has a victim, and the object that *)
(* the main thread is to add has not been added.                               *)
MainInv(t) ==
    LET m == local[t] IN
    /\ m.pc \in {"idle", "next", "write_lock", "complete", "write"}
    /\ m.pc # "idle" => /\ m.uid \in Fds /\ m.client \in Clients
                        /\ m.calls \in {<<"add", "dispatch">>, <<"dispatch">>}
                        /\ m.calls = <<"add", "dispatch">> => m.pc = "next"
    /\ m.pc \in {"write_lock", "complete", "write"} => m.target = m.uid
    /\ m.pc \in {"write_lock", "complete", "write"} \/ (m.pc = "next" /\ m.calls = <<"add", "dispatch">>)
           => object[m.client] = "none"

HelperInv(h) ==
    LET l == local[h] IN
    /\ l.pc # "idle" => l.uid \in Fds
    /\ l.calls \in Seq(HelperCalls)
    /\ l.victim \in Fds \/ l.calls \in Seq(HelperCalls \ {"remove"})
    /\ l.pc \in {"look", "use", "write_lock", "complete", "write", "destroy"} => l.target \in Fds
    /\ l.pc = "read_lock" => l.target \in Fds

(* Who reads cm_lock, and how often.  Only a broadcast reads it again, and     *)
(* then it has still users to write to.                                        *)
ReadInv(t) ==
    LET l == local[t]
        casts == l.call \in Casts
    IN
    /\ l.pc = "read_lock" => rc[t] = IF casts THEN 1 ELSE 0
    /\ l.pc \in {"look", "use"} => rc[t] = IF casts THEN 2 ELSE 1
    /\ l.pc = "read_unlock" => rc[t] = 1 \/ (casts /\ rc[t] = 2)
    /\ l.pc = "cast_lock" => casts
    /\ l.pc = "cast" => rc[t] = 1 /\ casts
    /\ l.pc = "list" => rc[t] = 1 /\ l.call = "list"
    /\ rc[t] # 0 => l.pc \in {"read_lock", "look", "use", "read_unlock", "cast", "list"}
    /\ l.todo # {} => \/ l.pc \in {"cast", "list"}
                      \/ l.pc = "read_lock" /\ casts
                      \/ l.pc \in {"look", "use", "read_unlock"} /\ rc[t] = 2

WriteInv(t) ==
    /\ local[t].pc \in {"complete", "write"} => entry = t
    /\ local[t].pc = "write" => \A u \in Threads : rc[u] = 0

(* What a thread has found, and what it has taken out. *)
FoundInv(t) ==
    LET l == local[t] IN
    /\ \A u \in l.todo : ctbl[u] # None
    /\ l.pc = "use" => l.o \in Clients /\ ctbl[l.target] = l.o

TakenInv(t) ==
    LET l == local[t] IN
    l.pc = "destroy" =>
        /\ l.o \in Clients /\ object[l.o] \in Live
        /\ \A f \in Fds : ctbl[f] # l.o
        /\ \A u \in Threads \ {t} : local[u].pc = "destroy" => local[u].o # l.o

ThreadInv(t) == /\ t = Main => MainInv(t)
                /\ t # Main => HelperInv(t)
                /\ ReadInv(t) /\ WriteInv(t) /\ FoundInv(t) /\ TakenInv(t)

IInv == Types /\ TableInv /\ \A t \in Threads : ThreadInv(t)
-----------------------------------------------------------------------------
LEMMA InitIInv == Init => IInv
<1> SUFFICES ASSUME Init PROVE IInv
  OBVIOUS
<1>1. Types
  BY ClientsAssumption DEF Init, Types, Record, PCs, Cstates, Idle
<1>2. TableInv
  BY DEF Init, TableInv
<1>3. ASSUME NEW t \in Threads PROVE ThreadInv(t)
  <2>1. /\ local[t].pc = "idle" /\ local[t].calls = <<>> /\ local[t].todo = {}
        /\ rc[t] = 0
    BY DEF Init, Idle
  <2>2. MainInv(t)
    BY <2>1 DEF MainInv
  <2>3. HelperInv(t)
    BY <2>1 DEF HelperInv
  <2>4. ReadInv(t) /\ WriteInv(t) /\ FoundInv(t) /\ TakenInv(t)
    BY <2>1 DEF ReadInv, WriteInv, FoundInv, TakenInv
  <2> QED
    BY <2>2, <2>3, <2>4 DEF ThreadInv
<1> QED
  BY <1>1, <1>2, <1>3 DEF IInv

(* Everything a step may leave as it was, of a thread that does not take it.   *)
Same(u) == /\ local'[u].pc = local[u].pc /\ local'[u].uid = local[u].uid
           /\ local'[u].client = local[u].client /\ local'[u].calls = local[u].calls
           /\ local'[u].call = local[u].call /\ local'[u].victim = local[u].victim
           /\ local'[u].target = local[u].target /\ local'[u].o = local[u].o
           /\ local'[u].todo = local[u].todo
           /\ rc'[u] = rc[u]

(* A step that leaves the table and the objects alone disturbs nobody else, if *)
(* it takes neither cm_lock from a writer nor an object from a destroyer.      *)
LEMMA Others ==
    ASSUME IInv, NEW t \in Threads, NEW u \in Threads, u # t, Same(u),
           UNCHANGED <<ctbl, object>>,
           local[u].pc \in {"complete", "write"} => entry' = entry,
           local[u].pc = "write" => \A v \in Threads : rc'[v] = 0,
           \A v \in Threads \ {u} : local'[v].pc = "destroy" =>
               local[v].pc = "destroy" /\ local'[v].o = local[v].o
    PROVE  ThreadInv(u)'
<1>0. ThreadInv(u)
  BY DEF IInv
<1>1. (u = Main => MainInv(u)') /\ (u # Main => HelperInv(u)')
  BY <1>0 DEF MainInv, HelperInv, ThreadInv, Same
<1>2. ReadInv(u)'
  BY <1>0 DEF ReadInv, ThreadInv, Same
<1>3. WriteInv(u)'
  BY <1>0 DEF WriteInv, ThreadInv, Same
<1>4. FoundInv(u)'
  BY <1>0 DEF FoundInv, ThreadInv, Same
<1>5. TakenInv(u)'
  BY <1>0 DEF TakenInv, ThreadInv, Same
<1> QED
  BY <1>1, <1>2, <1>3, <1>4, <1>5 DEF ThreadInv

LEMMA Quiet ==
    ASSUME IInv, NEW t \in Threads, UNCHANGED <<ctbl, object, entry, rc>>,
           \A u \in Threads \ {t} : local'[u] = local[u],
           local'[t].pc # "destroy", Types', ThreadInv(t)'
    PROVE  IInv'
<1>1. ASSUME NEW u \in Threads, u # t PROVE ThreadInv(u)'
  <2>1. Same(u)
    BY <1>1 DEF Same
  <2>2. local[u].pc = "write" => \A v \in Threads : rc'[v] = 0
    BY <1>1 DEF IInv, ThreadInv, WriteInv
  <2>3. ASSUME NEW v \in Threads \ {u}, local'[v].pc = "destroy"
        PROVE  local[v].pc = "destroy" /\ local'[v].o = local[v].o
    BY <2>3
  <2> QED
    BY <1>1, <2>1, <2>2, <2>3, Others
<1>2. TableInv'
  BY DEF IInv, TableInv
<1> QED
  BY <1>1, <1>2 DEF IInv

(* What the main thread has to do with a client it has accepted. *)
LEMMA Accepted ==
    /\ Head(<<"dispatch">>) = "dispatch"
    /\ Head(<<"add", "dispatch">>) = "add"
    /\ Tail(<<"add", "dispatch">>) = <<"dispatch">>
    /\ <<"add", "dispatch">> # <<"dispatch">>
<1>1. Head(<<"dispatch">>) = "dispatch" /\ Head(<<"add", "dispatch">>) = "add"
  OBVIOUS
<1>2. Tail(<<"add", "dispatch">>) = <<"dispatch">>
  OBVIOUS
<1>3. <<"add", "dispatch">> # <<"dispatch">>
  BY <1>1
<1> QED
  BY <1>1, <1>2, <1>3

LEMMA BeginStep ==
    ASSUME IInv, NEW t \in Threads, Begin(t)
    PROVE  IInv'
<1> DEFINE l == local[t]
<1>1. /\ l \in Record /\ ThreadInv(t) /\ Types
      /\ l.pc = "next" /\ l.calls \in Seq(Calls) /\ l.calls # <<>>
      /\ l.uid \in Fds \cup {None} /\ l.victim \in Fds \cup {None}
  BY DEF IInv, Types, Begin, Record
<1>2. Head(l.calls) \in Calls /\ Tail(l.calls) \in Seq(Calls)
  BY <1>1, HeadTailProperties
<1>3. PICK pc \in {"next", "read_lock", "cast_lock", "write_lock"},
           target \in Fds \cup {None} :
        /\ local' = [local EXCEPT ![t] =
                        [l EXCEPT !.pc = pc, !.call = Head(l.calls),
                                  !.calls = Tail(l.calls), !.target = target]]
        /\ pc = "read_lock" => target = l.uid /\ Head(l.calls) \in {"NR", "LI", "list"}
        /\ pc = "cast_lock" => Head(l.calls) \in Casts
        /\ pc = "write_lock" => /\ Head(l.calls) \in {"add", "remove"}
                                /\ target = IF Head(l.calls) = "add" THEN l.uid ELSE l.victim
        /\ Head(l.calls) \in Casts => pc = "cast_lock"
        /\ Head(l.calls) = "add" => pc = "write_lock"
        /\ Head(l.calls) # "dispatch"
  BY <1>1 DEF Begin, Casts
<1>4. UNCHANGED <<ctbl, object, entry, rc>>
  BY DEF Begin
<1> DEFINE m == local'[t]
<1>5. /\ m.pc = pc /\ m.call = Head(l.calls) /\ m.calls = Tail(l.calls)
      /\ m.target = target /\ m.uid = l.uid /\ m.client = l.client
      /\ m.victim = l.victim /\ m.o = l.o /\ m.todo = l.todo
      /\ m \in Record
  <2>1. m = [l EXCEPT !.pc = pc, !.call = Head(l.calls), !.calls = Tail(l.calls), !.target = target]
    BY <1>1, <1>3 DEF Types
  <2>2. /\ l \in Record /\ pc \in PCs /\ Head(l.calls) \in Calls \cup {None}
        /\ Tail(l.calls) \in Seq(Calls) /\ target \in Fds \cup {None}
    BY <1>1, <1>2, <1>3 DEF PCs
  <2> HIDE DEF l, m
  <2>3. m \in Record
    BY <2>1, <2>2 DEF Record
  <2>4. /\ m.pc = pc /\ m.call = Head(l.calls) /\ m.calls = Tail(l.calls)
        /\ m.target = target /\ m.uid = l.uid /\ m.client = l.client
        /\ m.victim = l.victim /\ m.o = l.o /\ m.todo = l.todo
    BY <2>1, <2>2 DEF Record
  <2> QED
    BY <2>3, <2>4
<1>6. l.uid \in Fds
  BY <1>1 DEF ThreadInv, MainInv, HelperInv
<1>7. Types'
  <2>1. socket' \in [Fds -> Clients \cup {None}] /\ watched' \subseteq Fds
    BY <1>1, <1>6 DEF Begin, Types
  <2>2. local' \in [Threads -> Record]
    BY <1>1, <1>3, <1>5 DEF Types
  <2> QED
    BY <1>1, <1>4, <2>1, <2>2 DEF Types
<1>8. ThreadInv(t)'
  <2>1. ASSUME t = Main PROVE MainInv(t)'
    <3>1. /\ l.calls \in {<<"add", "dispatch">>, <<"dispatch">>}
          /\ l.client \in Clients /\ (l.calls = <<"add", "dispatch">> => object[l.client] = "none")
      BY <1>1, <2>1 DEF ThreadInv, MainInv
    <3>2. /\ l.calls = <<"add", "dispatch">>
          /\ Head(l.calls) = "add" /\ Tail(l.calls) = <<"dispatch">>
      BY <1>3, <3>1, Accepted
    <3> QED
      BY <1>3, <1>4, <1>5, <1>6, <3>1, <3>2, Accepted DEF MainInv
  <2>2. ASSUME t # Main PROVE HelperInv(t)'
    <3>1. /\ l.calls \in Seq(HelperCalls)
          /\ l.victim \in Fds \/ l.calls \in Seq(HelperCalls \ {"remove"})
      BY <1>1, <2>2 DEF ThreadInv, HelperInv
    <3>2. Head(l.calls) \in HelperCalls /\ Tail(l.calls) \in Seq(HelperCalls)
      BY <1>1, <3>1, HeadTailProperties
    <3>3. \/ l.victim \in Fds
          \/ /\ Head(l.calls) \in HelperCalls \ {"remove"}
             /\ Tail(l.calls) \in Seq(HelperCalls \ {"remove"})
      BY <1>1, <3>1, HeadTailProperties
    <3> QED
      BY <1>3, <1>5, <1>6, <3>2, <3>3 DEF HelperInv, HelperCalls
  <2>3. ReadInv(t)'
    BY <1>1, <1>3, <1>4, <1>5 DEF ThreadInv, ReadInv, Casts
  <2>4. WriteInv(t)' /\ FoundInv(t)' /\ TakenInv(t)'
    BY <1>1, <1>3, <1>4, <1>5 DEF ThreadInv, WriteInv, FoundInv, TakenInv
  <2> QED
    BY <2>1, <2>2, <2>3, <2>4 DEF ThreadInv
<1>9. \A u \in Threads \ {t} : local'[u] = local[u]
  BY <1>1, <1>3 DEF Types
<1> QED
  BY <1>3, <1>4, <1>5, <1>7, <1>8, <1>9, Quiet

LEMMA EndStep ==
    ASSUME IInv, NEW t \in Threads, End(t)
    PROVE  IInv'
<1> DEFINE m == local'[t]
<1>1. /\ Types /\ ThreadInv(t) /\ local[t].pc = "next"
      /\ UNCHANGED <<ctbl, object, socket, watched, entry, rc>>
      /\ local' = [local EXCEPT ![t] = Idle]
  BY DEF End, IInv, data
<1>2. Idle \in Record
  BY DEF Idle, Record, PCs
<1>3. /\ m = Idle /\ \A u \in Threads \ {t} : local'[u] = local[u]
      /\ local' \in [Threads -> Record]
  BY <1>1, <1>2 DEF Types
<1>4. /\ m.pc = "idle" /\ m.calls = <<>> /\ m.todo = {}
  BY <1>3 DEF Idle
<1>5. Types'
  BY <1>1, <1>3 DEF Types
<1>6. ThreadInv(t)'
  <2>1. (t = Main => MainInv(t)') /\ (t # Main => HelperInv(t)')
    BY <1>4 DEF MainInv, HelperInv
  <2>2. ReadInv(t)' /\ WriteInv(t)' /\ FoundInv(t)' /\ TakenInv(t)'
    BY <1>1, <1>4 DEF ThreadInv, ReadInv, WriteInv, FoundInv, TakenInv
  <2> QED
    BY <2>1, <2>2 DEF ThreadInv
<1> QED
  BY <1>1, <1>3, <1>4, <1>5, <1>6, Quiet

(* The steps of a traversal, and a lookup: a helper that reads cm_lock goes on *)
(* reading it.                                                                 *)
LEMMA LookStep ==
    ASSUME IInv, NEW t \in Threads, Look(t)
    PROVE  IInv'
<1> DEFINE l == local[t]
           m == local'[t]
<1>1. /\ Types /\ ThreadInv(t) /\ l \in Record /\ l.pc = "look" /\ l.call # "list"
      /\ UNCHANGED <<ctbl, object, socket, watched, entry, rc>>
  BY DEF Look, IInv, data, Types
<1>2. t # Main /\ HelperInv(t)
  BY <1>1 DEF ThreadInv, MainInv
<1>3. /\ l.target \in Fds /\ ctbl[l.target] \in Clients \cup {None}
  BY <1>1, <1>2 DEF HelperInv, Types
<1>4. /\ m = [l EXCEPT !.pc = IF ctbl[l.target] = None THEN "read_unlock" ELSE "use",
                       !.o = ctbl[l.target]]
      /\ \A u \in Threads \ {t} : local'[u] = local[u]
  BY <1>1 DEF Look, Types
<1>5. m \in Record
  BY <1>1, <1>3, <1>4 DEF Record, PCs
<1>6. local' \in [Threads -> Record]
  BY <1>1, <1>5, <1>4 DEF Types, Look
<1>7. /\ m.pc = (IF ctbl[l.target] = None THEN "read_unlock" ELSE "use")
      /\ m.o = ctbl[l.target] /\ m.target = l.target /\ m.todo = l.todo
      /\ m.call = l.call /\ m.uid = l.uid /\ m.calls = l.calls /\ m.victim = l.victim
  BY <1>1, <1>4 DEF Record
<1>8. Types'
  BY <1>1, <1>6 DEF Types
<1>9. ThreadInv(t)'
  <2>1. HelperInv(t)'
    BY <1>1, <1>2, <1>7 DEF HelperInv
  <2>2. ReadInv(t)'
    BY <1>1, <1>7 DEF ThreadInv, ReadInv
  <2>3. WriteInv(t)' /\ TakenInv(t)'
    BY <1>7 DEF WriteInv, TakenInv
  <2>4. FoundInv(t)'
    BY <1>1, <1>3, <1>7 DEF ThreadInv, FoundInv
  <2> QED
    BY <1>2, <2>1, <2>2, <2>3, <2>4 DEF ThreadInv
<1> QED
  BY <1>1, <1>4, <1>7, <1>8, <1>9, Quiet

LEMMA ListBeginStep ==
    ASSUME IInv, NEW t \in Threads, ListBegin(t)
    PROVE  IInv'
<1> DEFINE l == local[t]
           m == local'[t]
<1>1. /\ Types /\ ThreadInv(t) /\ l \in Record
      /\ l.pc = "look" /\ l.call = "list"
      /\ UNCHANGED <<ctbl, object, socket, watched, entry, rc>>
  BY DEF ListBegin, IInv, data, Types
<1>2. t # Main /\ HelperInv(t)
  BY <1>1 DEF ThreadInv, MainInv
<1>3. /\ m = [l EXCEPT !.pc = "list", !.todo = {f \in Fds : ctbl[f] # None}]
      /\ \A u \in Threads \ {t} : local'[u] = local[u]
  BY <1>1 DEF ListBegin, Types
<1>4. m \in Record
  BY <1>1, <1>3 DEF Record, PCs
<1>5. local' \in [Threads -> Record]
  BY <1>1, <1>4, <1>3 DEF Types, ListBegin
<1>6. /\ m.pc = "list" /\ m.todo = {f \in Fds : ctbl[f] # None}
      /\ m.target = l.target /\ m.o = l.o
      /\ m.call = l.call /\ m.uid = l.uid /\ m.calls = l.calls /\ m.victim = l.victim
  BY <1>1, <1>3 DEF Record
<1>7. Types'
  BY <1>1, <1>5 DEF Types
<1>8. ThreadInv(t)'
  <2>1. HelperInv(t)'
    BY <1>1, <1>2, <1>6 DEF HelperInv
  <2>2. ReadInv(t)'
    BY <1>1, <1>6 DEF ThreadInv, ReadInv, Casts
  <2>3. WriteInv(t)' /\ TakenInv(t)'
    BY <1>6 DEF WriteInv, TakenInv
  <2>4. FoundInv(t)'
    BY <1>1, <1>6 DEF ThreadInv, FoundInv
  <2> QED
    BY <1>2, <2>1, <2>2, <2>3, <2>4 DEF ThreadInv
<1> QED
  BY <1>1, <1>3, <1>6, <1>7, <1>8, Quiet

LEMMA ListUserStep ==
    ASSUME IInv, NEW t \in Threads, NEW x \in Fds, ListUser(t, x)
    PROVE  IInv'
<1> DEFINE l == local[t]
           m == local'[t]
<1>1. /\ Types /\ ThreadInv(t) /\ l \in Record
      /\ l.pc = "list" /\ x \in l.todo
      /\ UNCHANGED <<ctbl, object, socket, watched, entry, rc>>
  BY DEF ListUser, IInv, data, Types
<1>2. t # Main /\ HelperInv(t)
  BY <1>1 DEF ThreadInv, MainInv
<1>3. /\ m = [l EXCEPT !.todo = l.todo \ {x},
                       !.list = IF Listed(x) THEN l.list \cup {x} ELSE l.list,
                       !.late = l.late \/ Leaving(x)]
      /\ \A u \in Threads \ {t} : local'[u] = local[u]
  BY <1>1 DEF ListUser, Types
<1>4. m \in Record
  <2> DEFINE late == l.late \/ Leaving(x)
             list == IF Listed(x) THEN l.list \cup {x} ELSE l.list
  <2>1. late \in BOOLEAN /\ list \in SUBSET Fds
    BY <1>1 DEF Record
  <2>2. m = [l EXCEPT !.todo = l.todo \ {x}, !.list = list, !.late = late]
    BY <1>3
  <2> HIDE DEF late, list
  <2> QED
    BY <1>1, <2>1, <2>2 DEF Record
<1>5. local' \in [Threads -> Record]
  BY <1>1, <1>4, <1>3 DEF Types, ListUser
<1>6. /\ m.pc = "list" /\ m.todo = l.todo \ {x}
      /\ m.target = l.target /\ m.o = l.o
      /\ m.call = l.call /\ m.uid = l.uid /\ m.calls = l.calls /\ m.victim = l.victim
  BY <1>1, <1>3 DEF Record
<1>7. Types'
  BY <1>1, <1>5 DEF Types
<1>8. ThreadInv(t)'
  <2>1. HelperInv(t)'
    BY <1>1, <1>2, <1>6 DEF HelperInv
  <2>2. ReadInv(t)'
    BY <1>1, <1>6 DEF ThreadInv, ReadInv
  <2>3. WriteInv(t)' /\ TakenInv(t)'
    BY <1>6 DEF WriteInv, TakenInv
  <2>4. FoundInv(t)'
    BY <1>1, <1>6 DEF ThreadInv, FoundInv
  <2> QED
    BY <1>2, <2>1, <2>2, <2>3, <2>4 DEF ThreadInv
<1> QED
  BY <1>1, <1>3, <1>6, <1>7, <1>8, Quiet

LEMMA ListEndStep ==
    ASSUME IInv, NEW t \in Threads, ListEnd(t)
    PROVE  IInv'
<1> DEFINE l == local[t]
           m == local'[t]
<1>1. /\ Types /\ ThreadInv(t) /\ l \in Record
      /\ l.pc = "list" /\ l.todo = {}
      /\ UNCHANGED <<ctbl, object, socket, watched, entry, rc>>
  BY DEF ListEnd, IInv, data, Types
<1>2. t # Main /\ HelperInv(t)
  BY <1>1 DEF ThreadInv, MainInv
<1>3. /\ m = [l EXCEPT !.pc = "read_unlock"]
      /\ \A u \in Threads \ {t} : local'[u] = local[u]
  BY <1>1 DEF ListEnd, Types
<1>4. m \in Record
  BY <1>1, <1>3 DEF Record, PCs
<1>5. local' \in [Threads -> Record]
  BY <1>1, <1>4, <1>3 DEF Types, ListEnd
<1>6. /\ m.pc = "read_unlock" /\ m.todo = l.todo
      /\ m.target = l.target /\ m.o = l.o
      /\ m.call = l.call /\ m.uid = l.uid /\ m.calls = l.calls /\ m.victim = l.victim
  BY <1>1, <1>3 DEF Record
<1>7. Types'
  BY <1>1, <1>5 DEF Types
<1>8. ThreadInv(t)'
  <2>1. HelperInv(t)'
    BY <1>1, <1>2, <1>6 DEF HelperInv
  <2>2. ReadInv(t)'
    BY <1>1, <1>6 DEF ThreadInv, ReadInv
  <2>3. WriteInv(t)' /\ TakenInv(t)'
    BY <1>6 DEF WriteInv, TakenInv
  <2>4. FoundInv(t)'
    BY <1>1, <1>6 DEF ThreadInv, FoundInv
  <2> QED
    BY <1>2, <2>1, <2>2, <2>3, <2>4 DEF ThreadInv
<1> QED
  BY <1>1, <1>3, <1>6, <1>7, <1>8, Quiet

LEMMA CastEndStep ==
    ASSUME IInv, NEW t \in Threads, CastEnd(t)
    PROVE  IInv'
<1> DEFINE l == local[t]
           m == local'[t]
<1>1. /\ Types /\ ThreadInv(t) /\ l \in Record
      /\ l.pc = "cast" /\ l.todo = {}
      /\ UNCHANGED <<ctbl, object, socket, watched, entry, rc>>
  BY DEF CastEnd, IInv, data, Types
<1>2. t # Main /\ HelperInv(t)
  BY <1>1 DEF ThreadInv, MainInv
<1>3. /\ m = [l EXCEPT !.pc = "read_unlock"]
      /\ \A u \in Threads \ {t} : local'[u] = local[u]
  BY <1>1 DEF CastEnd, Types
<1>4. m \in Record
  BY <1>1, <1>3 DEF Record, PCs
<1>5. local' \in [Threads -> Record]
  BY <1>1, <1>4, <1>3 DEF Types, CastEnd
<1>6. /\ m.pc = "read_unlock" /\ m.todo = l.todo
      /\ m.target = l.target /\ m.o = l.o
      /\ m.call = l.call /\ m.uid = l.uid /\ m.calls = l.calls /\ m.victim = l.victim
  BY <1>1, <1>3 DEF Record
<1>7. Types'
  BY <1>1, <1>5 DEF Types
<1>8. ThreadInv(t)'
  <2>1. HelperInv(t)'
    BY <1>1, <1>2, <1>6 DEF HelperInv
  <2>2. ReadInv(t)'
    BY <1>1, <1>6 DEF ThreadInv, ReadInv
  <2>3. WriteInv(t)' /\ TakenInv(t)'
    BY <1>6 DEF WriteInv, TakenInv
  <2>4. FoundInv(t)'
    BY <1>1, <1>6 DEF ThreadInv, FoundInv
  <2> QED
    BY <1>2, <2>1, <2>2, <2>3, <2>4 DEF ThreadInv
<1> QED
  BY <1>1, <1>3, <1>6, <1>7, <1>8, Quiet

LEMMA ListReplyStep ==
    ASSUME IInv, NEW t \in Threads, ListReply(t)
    PROVE  IInv'
<1> DEFINE l == local[t]
           m == local'[t]
<1>1. /\ Types /\ ThreadInv(t) /\ l \in Record
      /\ l.pc = "reply"
      /\ UNCHANGED <<ctbl, object, socket, watched, entry, rc>>
  BY DEF ListReply, IInv, data, Types
<1>2. t # Main /\ HelperInv(t)
  BY <1>1 DEF ThreadInv, MainInv
<1>3. /\ m = [l EXCEPT !.pc = "next", !.list = {}, !.late = FALSE]
      /\ \A u \in Threads \ {t} : local'[u] = local[u]
  BY <1>1 DEF ListReply, Types
<1>4. m \in Record
  BY <1>1, <1>3 DEF Record, PCs
<1>5. local' \in [Threads -> Record]
  BY <1>1, <1>4, <1>3 DEF Types, ListReply
<1>6. /\ m.pc = "next" /\ m.todo = l.todo
      /\ m.target = l.target /\ m.o = l.o
      /\ m.call = l.call /\ m.uid = l.uid /\ m.calls = l.calls /\ m.victim = l.victim
  BY <1>1, <1>3 DEF Record
<1>7. Types'
  BY <1>1, <1>5 DEF Types
<1>8. ThreadInv(t)'
  <2>1. HelperInv(t)'
    BY <1>1, <1>2, <1>6 DEF HelperInv
  <2>2. ReadInv(t)'
    BY <1>1, <1>6 DEF ThreadInv, ReadInv
  <2>3. WriteInv(t)' /\ TakenInv(t)'
    BY <1>6 DEF WriteInv, TakenInv
  <2>4. FoundInv(t)'
    BY <1>1, <1>6 DEF ThreadInv, FoundInv
  <2> QED
    BY <1>2, <2>1, <2>2, <2>3, <2>4 DEF ThreadInv
<1> QED
  BY <1>1, <1>3, <1>6, <1>7, <1>8, Quiet

LEMMA CastToStep ==
    ASSUME IInv, NEW t \in Threads, NEW x \in Fds, CastTo(t, x)
    PROVE  IInv'
<1> DEFINE l == local[t]
           m == local'[t]
<1>1. /\ Types /\ ThreadInv(t) /\ l \in Record
      /\ l.pc = "cast" /\ x \in l.todo
      /\ UNCHANGED <<ctbl, object, socket, watched, entry, rc>>
  BY DEF CastTo, IInv, data, Types
<1>2. t # Main /\ HelperInv(t)
  BY <1>1 DEF ThreadInv, MainInv
<1>3. /\ m = [l EXCEPT !.todo = l.todo \ {x},
                       !.pc = IF Passed(t, x) THEN "cast" ELSE "read_lock",
                       !.target = IF Passed(t, x) THEN None ELSE x]
      /\ \A u \in Threads \ {t} : local'[u] = local[u]
  BY <1>1 DEF CastTo, Types
<1>4. m \in Record
  <2>1. /\ (IF Passed(t, x) THEN "cast" ELSE "read_lock") \in PCs
        /\ (IF Passed(t, x) THEN None ELSE x) \in Fds \cup {None}
        /\ l.todo \ {x} \in SUBSET Fds /\ l \in Record
    BY <1>1 DEF Record, PCs
  <2> HIDE DEF l, m
  <2> QED
    BY <1>3, <2>1 DEF Record
<1>5. local' \in [Threads -> Record]
  BY <1>1, <1>4, <1>3 DEF Types, CastTo
<1>6. /\ \/ m.pc = "cast"
         \/ m.pc = "read_lock" /\ m.target = x
      /\ m.todo = l.todo \ {x} /\ m.o = l.o
      /\ m.call = l.call /\ m.uid = l.uid /\ m.calls = l.calls /\ m.victim = l.victim
  BY <1>1, <1>3 DEF Record
<1>7. Types'
  BY <1>1, <1>5 DEF Types
<1>8. ThreadInv(t)'
  <2>1. HelperInv(t)'
    BY <1>1, <1>2, <1>6 DEF HelperInv
  <2>2. ReadInv(t)'
    BY <1>1, <1>6 DEF ThreadInv, ReadInv
  <2>3. WriteInv(t)' /\ TakenInv(t)'
    BY <1>6 DEF WriteInv, TakenInv
  <2>4. FoundInv(t)'
    BY <1>1, <1>6 DEF ThreadInv, FoundInv
  <2> QED
    BY <1>2, <2>1, <2>2, <2>3, <2>4 DEF ThreadInv
<1> QED
  BY <1>1, <1>3, <1>6, <1>7, <1>8, Quiet

LEMMA WriteCompleteStep ==
    ASSUME IInv, NEW t \in Threads, WriteComplete(t)
    PROVE  IInv'
<1> DEFINE l == local[t]
           m == local'[t]
<1>1. /\ Types /\ ThreadInv(t) /\ l \in Record
      /\ l.pc = "complete" /\ \A u \in Threads : rc[u] = 0
      /\ UNCHANGED <<ctbl, object, socket, watched, entry, rc>>
  BY DEF WriteComplete, IInv, data, Types
<1>2. /\ m = [l EXCEPT !.pc = "write"]
      /\ \A u \in Threads \ {t} : local'[u] = local[u]
  BY <1>1 DEF WriteComplete, Types
<1>3. m \in Record
  BY <1>1, <1>2 DEF Record, PCs
<1>4. local' \in [Threads -> Record]
  BY <1>1, <1>3, <1>2 DEF Types, WriteComplete
<1>5. /\ m.pc = "write" /\ m.todo = l.todo /\ m.target = l.target /\ m.o = l.o
      /\ m.call = l.call /\ m.uid = l.uid /\ m.client = l.client
      /\ m.calls = l.calls /\ m.victim = l.victim
  BY <1>1, <1>2 DEF Record
<1>6. Types'
  BY <1>1, <1>4 DEF Types
<1>7. ThreadInv(t)'
  <2>1. t = Main => MainInv(t)'
    BY <1>1, <1>5 DEF ThreadInv, MainInv
  <2>2. t # Main => HelperInv(t)'
    BY <1>1, <1>5 DEF ThreadInv, HelperInv
  <2>3. ReadInv(t)' /\ WriteInv(t)' /\ FoundInv(t)' /\ TakenInv(t)'
    BY <1>1, <1>5 DEF ThreadInv, ReadInv, WriteInv, FoundInv, TakenInv
  <2> QED
    BY <2>1, <2>2, <2>3 DEF ThreadInv
<1> QED
  BY <1>1, <1>2, <1>5, <1>6, <1>7, Quiet

(* Whatever a helper plans to do, with a victim if it is to remove one.        *)
LEMMA PlanStep ==
    ASSUME IInv, NEW h \in Helpers, local[h].pc \in {"handshake", "transaction"},
           NEW calls \in Seq(HelperCalls), NEW victim \in Fds \cup {None},
           victim \in Fds \/ calls \in Seq(HelperCalls \ {"remove"}),
           Plan(h, calls, victim)
    PROVE  IInv'
<1> DEFINE l == local[h]
           m == local'[h]
<1>1. /\ Types /\ ThreadInv(h) /\ l \in Record /\ h \in Threads /\ h # Main
      /\ UNCHANGED <<ctbl, object, socket, watched, entry, rc>>
  BY ThreadsAssumption DEF Plan, IInv, Types, Threads
<1>2. /\ m = [l EXCEPT !.pc = "next", !.calls = calls, !.victim = victim]
      /\ \A u \in Threads \ {h} : local'[u] = local[u]
  BY <1>1 DEF Plan, Types
<1>3. calls \in Seq(Calls)
  BY DEF HelperCalls
<1>4. m \in Record
  BY <1>1, <1>2, <1>3 DEF Record, PCs
<1>5. local' \in [Threads -> Record]
  BY <1>1, <1>2, <1>4 DEF Types, Plan
<1>6. /\ m.pc = "next" /\ m.todo = l.todo /\ m.uid = l.uid
      /\ m.calls = calls /\ m.victim = victim
  BY <1>1, <1>2 DEF Record
<1>7. Types'
  BY <1>1, <1>5 DEF Types
<1>8. ThreadInv(h)'
  <2>1. HelperInv(h)'
    BY <1>1, <1>6 DEF ThreadInv, HelperInv
  <2>2. ReadInv(h)' /\ WriteInv(h)' /\ FoundInv(h)' /\ TakenInv(h)'
    BY <1>1, <1>6 DEF ThreadInv, ReadInv, WriteInv, FoundInv, TakenInv
  <2> QED
    BY <1>1, <2>1, <2>2 DEF ThreadInv
<1> QED
  BY <1>1, <1>2, <1>6, <1>7, <1>8, Quiet

LEMMA HandshakeStep ==
    ASSUME IInv, NEW h \in Helpers, Handshake(h)
    PROVE  IInv'
<1>1. local[h].pc = "handshake" /\ local[h].uid \in Fds
  BY ThreadsAssumption DEF Handshake, IInv, Threads, ThreadInv, HelperInv
<1>2. CASE Plan(h, <<"watch">>, None)
  <2>1. <<"watch">> \in Seq(HelperCalls) /\ <<"watch">> \in Seq(HelperCalls \ {"remove"})
    BY DEF HelperCalls, Calls, Casts
  <2> QED
    BY <1>1, <1>2, <2>1, PlanStep
<1>3. CASE Plan(h, <<"remove", "close">>, local[h].uid)
  <2>1. <<"remove", "close">> \in Seq(HelperCalls)
    BY DEF HelperCalls, Calls, Casts
  <2> QED
    BY <1>1, <1>3, <2>1, PlanStep
<1> QED
  BY <1>2, <1>3 DEF Handshake

LEMMA TransactionStep ==
    ASSUME IInv, NEW h \in Helpers, Transaction(h)
    PROVE  IInv'
<1>1. local[h].pc = "transaction" /\ local[h].uid \in Fds
  <2>1. local[h].pc = "transaction"
    BY DEF Transaction, ht_control_disconnect, txn_login, txn_info, txn_userlist,
           txn_send_chat, txn_kick_user, Serves
  <2> QED
    BY <2>1, ThreadsAssumption DEF IInv, Threads, ThreadInv, HelperInv
<1> DEFINE Replies == {<<"watch">>, <<"NR", "watch">>, <<"LI", "join", "watch">>,
                       <<"list", "watch">>, <<"chat", "watch">>}
           Removals == {<<"part", "remove">>, <<"part", "remove", "watch">>}
<1>2. \/ \E calls \in Replies : Plan(h, calls, None)
      \/ \E calls \in Removals, victim \in Fds : Plan(h, calls, victim)
  BY <1>1 DEF Transaction, ht_control_disconnect, txn_login, txn_info, txn_userlist,
              txn_send_chat, txn_kick_user
<1>3. ASSUME NEW calls \in Replies
      PROVE  calls \in Seq(HelperCalls) /\ calls \in Seq(HelperCalls \ {"remove"})
  <2>1. {"watch", "NR", "LI", "join", "list", "chat"} \subseteq HelperCalls \ {"remove"}
    BY DEF HelperCalls, Calls, Casts
  <2>2. CASE calls = <<"watch">>
    BY <2>1, <2>2
  <2>3. CASE calls = <<"NR", "watch">>
    BY <2>1, <2>3
  <2>4. CASE calls = <<"LI", "join", "watch">>
    BY <2>1, <2>4
  <2>5. CASE calls = <<"list", "watch">>
    BY <2>1, <2>5
  <2>6. CASE calls = <<"chat", "watch">>
    BY <2>1, <2>6
  <2> QED
    BY <2>2, <2>3, <2>4, <2>5, <2>6
<1>4. ASSUME NEW calls \in Removals
      PROVE  calls \in Seq(HelperCalls)
  <2>1. {"part", "remove", "watch"} \subseteq HelperCalls
    BY DEF HelperCalls, Calls, Casts
  <2>2. CASE calls = <<"part", "remove">>
    BY <2>1, <2>2
  <2>3. CASE calls = <<"part", "remove", "watch">>
    BY <2>1, <2>3
  <2> QED
    BY <2>2, <2>3
<1>5. CASE \E calls \in Replies : Plan(h, calls, None)
  <2> HIDE DEF Replies
  <2> QED
    BY <1>1, <1>3, <1>5, PlanStep
<1>6. CASE \E calls \in Removals, victim \in Fds : Plan(h, calls, victim)
  <2> HIDE DEF Removals
  <2> QED
    BY <1>1, <1>4, <1>6, PlanStep
<1> QED
  BY <1>2, <1>5, <1>6

LEMMA IdleRecord == /\ Idle \in Record
                    /\ Idle.pc = "idle" /\ Idle.calls = <<>> /\ Idle.todo = {}
BY DEF Idle, Record, PCs

(* A thread that begins to serve a user has nothing else.                      *)
LEMMA Served ==
    ASSUME NEW pc \in PCs, NEW f \in Fds, NEW k \in Clients \cup {None}
    PROVE  /\ Serve(pc, f, k) \in Record
           /\ Serve(pc, f, k).pc = pc /\ Serve(pc, f, k).uid = f
           /\ Serve(pc, f, k).client = k /\ Serve(pc, f, k).calls = <<>>
           /\ Serve(pc, f, k).todo = {}
<1>1. Serve(pc, f, k) = [Idle EXCEPT !.pc = pc, !.uid = f, !.client = k]
  BY DEF Serve
<1>2. /\ Idle \in Record /\ Idle.calls = <<>> /\ Idle.todo = {}
      /\ pc \in PCs /\ f \in Fds \cup {None} /\ k \in Clients \cup {None}
  BY IdleRecord
<1>3. Serve(pc, f, k) \in Record
  BY <1>1, <1>2 DEF Record
<1>4. /\ Serve(pc, f, k).pc = pc /\ Serve(pc, f, k).uid = f
      /\ Serve(pc, f, k).client = k /\ Serve(pc, f, k).calls = <<>>
      /\ Serve(pc, f, k).todo = {}
  BY <1>1, <1>2 DEF Record
<1> QED
  BY <1>3, <1>4

LEMMA AcceptStep ==
    ASSUME IInv, NEW f \in Fds, NEW k \in Clients, Accept(f, k)
    PROVE  IInv'
<1> DEFINE r == Serve("next", f, k)
           m == local'[Main]
<1>1. /\ Types /\ ThreadInv(Main) /\ Main \in Threads /\ local[Main].pc = "idle"
      /\ object[k] = "none"
      /\ UNCHANGED <<ctbl, object, watched, entry, rc>>
      /\ socket' \in [Fds -> Clients \cup {None}]
  BY DEF Accept, IInv, Threads, Types
<1>2. r \in Record /\ r.pc = "next" /\ r.uid = f /\ r.client = k /\ r.todo = {}
  <2>1. "next" \in PCs /\ k \in Clients \cup {None}
    BY DEF PCs
  <2> QED
    BY <2>1, Served
<1>3. m = [r EXCEPT !.calls = <<"add", "dispatch">>]
      /\ \A u \in Threads \ {Main} : local'[u] = local[u]
  BY <1>1 DEF Accept, Types
<1>4. <<"add", "dispatch">> \in Seq(Calls)
  BY DEF Calls
<1>5. m \in Record
  BY <1>2, <1>3, <1>4 DEF Record
<1>6. local' \in [Threads -> Record]
  BY <1>1, <1>3, <1>5 DEF Types, Accept
<1>7. m.pc = "next" /\ m.uid = f /\ m.client = k /\ m.todo = {}
      /\ m.calls = <<"add", "dispatch">>
  BY <1>2, <1>3 DEF Record
<1>8. Types'
  BY <1>1, <1>6 DEF Types
<1>9. ThreadInv(Main)'
  <2>1. MainInv(Main)'
    BY <1>1, <1>7 DEF MainInv
  <2>2. ReadInv(Main)' /\ WriteInv(Main)' /\ FoundInv(Main)' /\ TakenInv(Main)'
    BY <1>1, <1>7 DEF ThreadInv, ReadInv, WriteInv, FoundInv, TakenInv
  <2> QED
    BY <2>1, <2>2 DEF ThreadInv
<1> QED
  BY <1>1, <1>3, <1>7, <1>8, <1>9, Quiet

LEMMA DispatchTransactionStep ==
    ASSUME IInv, NEW h \in Helpers, NEW f \in Fds, DispatchTransaction(h, f)
    PROVE  IInv'
<1> DEFINE r == Serve("transaction", f, socket[f])
           m == local'[h]
<1>1. /\ Types /\ ThreadInv(h) /\ h \in Threads /\ h # Main /\ local[h].pc = "idle"
      /\ socket[f] \in Clients \cup {None} /\ watched' \subseteq Fds
      /\ UNCHANGED <<ctbl, object, socket, entry, rc>>
  BY ThreadsAssumption DEF DispatchTransaction, IInv, Threads, Types
<1>2. /\ r \in Record /\ r.pc = "transaction" /\ r.uid = f /\ r.todo = {}
      /\ r.calls = <<>>
  <2>1. "transaction" \in PCs
    BY DEF PCs
  <2> QED
    BY <1>1, <2>1, Served
<1>3. /\ m = r /\ \A u \in Threads \ {h} : local'[u] = local[u]
      /\ local' \in [Threads -> Record]
  BY <1>1, <1>2 DEF DispatchTransaction, Types
<1>4. Types'
  BY <1>1, <1>3 DEF Types
<1>5. ThreadInv(h)'
  <2>1. HelperInv(h)'
    <3>1. <<>> \in Seq(HelperCalls) /\ <<>> \in Seq(HelperCalls \ {"remove"})
      OBVIOUS
    <3>2. /\ local'[h].pc = "transaction" /\ local'[h].uid = f
          /\ local'[h].calls = <<>>
      BY <1>2, <1>3
    <3> QED
      BY <3>1, <3>2 DEF HelperInv
  <2>2. ReadInv(h)' /\ WriteInv(h)' /\ FoundInv(h)' /\ TakenInv(h)'
    BY <1>1, <1>2, <1>3 DEF ThreadInv, ReadInv, WriteInv, FoundInv, TakenInv
  <2> QED
    BY <1>1, <2>1, <2>2 DEF ThreadInv
<1> QED
  BY <1>1, <1>2, <1>3, <1>4, <1>5, Quiet

LEMMA DispatchConnectStep ==
    ASSUME IInv, NEW h \in Helpers, DispatchConnect(h)
    PROVE  IInv'
<1> DEFINE l == local[Main]
           r == Serve("handshake", l.uid, l.client)
<1>1. /\ Types /\ TableInv /\ ThreadInv(h) /\ ThreadInv(Main)
      /\ h \in Threads /\ h # Main /\ Main \in Threads
      /\ l.pc = "next" /\ local[h].pc = "idle"
      /\ UNCHANGED <<ctbl, object, socket, watched, entry, rc>>
  BY ThreadsAssumption DEF DispatchConnect, IInv, Threads, data
<1>2. l.uid \in Fds /\ l.client \in Clients
  BY <1>1 DEF ThreadInv, MainInv
<1>3. /\ r \in Record /\ r.pc = "handshake" /\ r.uid = l.uid /\ r.todo = {}
      /\ r.calls = <<>>
  <2>1. "handshake" \in PCs /\ l.client \in Clients \cup {None}
    BY <1>2 DEF PCs
  <2> QED
    BY <1>2, <2>1, Served
<1>4. /\ Idle \in Record /\ Idle.pc = "idle" /\ Idle.todo = {} /\ Idle.calls = <<>>
  BY IdleRecord
<1>5. /\ local'[h] = r /\ local'[Main] = Idle
      /\ \A u \in Threads \ {h, Main} : local'[u] = local[u]
      /\ local' \in [Threads -> Record]
  BY <1>1, <1>3, <1>4 DEF DispatchConnect, Types
<1>6. Types' /\ TableInv'
  BY <1>1, <1>5 DEF Types, TableInv
<1>7. ThreadInv(h)'
  <2>1. HelperInv(h)'
    <3>1. <<>> \in Seq(HelperCalls) /\ <<>> \in Seq(HelperCalls \ {"remove"})
      OBVIOUS
    <3>2. /\ local'[h].pc = "handshake" /\ local'[h].uid \in Fds
          /\ local'[h].calls = <<>>
      BY <1>2, <1>3, <1>5
    <3> QED
      BY <3>1, <3>2 DEF HelperInv
  <2>2. ReadInv(h)' /\ WriteInv(h)' /\ FoundInv(h)' /\ TakenInv(h)'
    BY <1>1, <1>3, <1>5 DEF ThreadInv, ReadInv, WriteInv, FoundInv, TakenInv
  <2> QED
    BY <1>1, <2>1, <2>2 DEF ThreadInv
<1>8. ThreadInv(Main)'
  <2>1. MainInv(Main)'
    BY <1>4, <1>5 DEF MainInv
  <2>2. ReadInv(Main)' /\ WriteInv(Main)' /\ FoundInv(Main)' /\ TakenInv(Main)'
    BY <1>1, <1>4, <1>5 DEF ThreadInv, ReadInv, WriteInv, FoundInv, TakenInv
  <2> QED
    BY <2>1, <2>2 DEF ThreadInv
<1>9. ASSUME NEW u \in Threads \ {h, Main} PROVE ThreadInv(u)'
  <2>1. Same(u)
    BY <1>1, <1>5 DEF Same
  <2>2. local[u].pc = "write" => \A v \in Threads : rc'[v] = 0
    BY <1>1 DEF IInv, ThreadInv, WriteInv
  <2>3. ASSUME NEW v \in Threads \ {u}, local'[v].pc = "destroy"
        PROVE  local[v].pc = "destroy" /\ local'[v].o = local[v].o
    BY <2>3, <1>3, <1>4, <1>5
  <2> QED
    BY <1>1, <2>1, <2>2, <2>3, Others
<1> QED
  BY <1>6, <1>7, <1>8, <1>9 DEF IInv

(* A thread that begins or ends a read of cm_lock: no writer has completed.     *)
LEMMA Reading ==
    ASSUME IInv, NEW t \in Threads, UNCHANGED <<ctbl, object, entry>>,
           entry = None \/ rc[t] # 0,
           \A u \in Threads \ {t} : Same(u),
           local'[t].pc # "destroy", Types', ThreadInv(t)'
    PROVE  IInv'
<1>1. ASSUME NEW u \in Threads, u # t PROVE ThreadInv(u)'
  <2>1. None \notin Threads
    BY ThreadsAssumption DEF Threads
  <2>2. local[u].pc # "write"
    BY <2>1 DEF IInv, ThreadInv, WriteInv
  <2>3. ASSUME NEW v \in Threads \ {u}, local'[v].pc = "destroy"
        PROVE  local[v].pc = "destroy" /\ local'[v].o = local[v].o
    BY <2>3 DEF Same
  <2> QED
    BY <1>1, <2>2, <2>3, Others
<1>2. TableInv'
  BY DEF IInv, TableInv
<1> QED
  BY <1>1, <1>2 DEF IInv

LEMMA ReadLockStep ==
    ASSUME IInv, NEW t \in Threads, ReadLock(t)
    PROVE  IInv'
<1> DEFINE l == local[t]
           m == local'[t]
<1>1. /\ Types /\ ThreadInv(t) /\ l \in Record
      /\ l.pc = "read_lock" /\ entry = None
      /\ UNCHANGED <<ctbl, object, socket, watched, entry>>
  BY DEF ReadLock, rcl_read_lock, IInv, data, Types
<1>2. t # Main /\ HelperInv(t)
  BY <1>1 DEF ThreadInv, MainInv
<1>3. /\ rc[t] = IF l.call \in Casts THEN 1 ELSE 0
      /\ rc'[t] = IF l.call \in Casts THEN 2 ELSE 1
      /\ rc' \in [Threads -> 0 .. 2]
  <2>1. rc[t] = IF l.call \in Casts THEN 1 ELSE 0
    BY <1>1 DEF ThreadInv, ReadInv
  <2>2. rc \in [Threads -> 0 .. 2] /\ rc' = [rc EXCEPT ![t] = rc[t] + 1]
    BY <1>1 DEF ReadLock, rcl_read_lock, Types
  <2> QED
    BY <2>1, <2>2
<1>4. /\ m = [l EXCEPT !.pc = "look"]
      /\ \A u \in Threads \ {t} : local'[u] = local[u] /\ rc'[u] = rc[u]
  BY <1>1 DEF ReadLock, rcl_read_lock, Types
<1>5. m \in Record
  BY <1>1, <1>4 DEF Record, PCs
<1>6. local' \in [Threads -> Record]
  BY <1>1, <1>4, <1>5 DEF ReadLock, rcl_read_lock, Types
<1>7. /\ m.pc = "look" /\ m.todo = l.todo /\ m.target = l.target /\ m.o = l.o
      /\ m.call = l.call /\ m.uid = l.uid /\ m.calls = l.calls /\ m.victim = l.victim
  BY <1>1, <1>4 DEF Record
<1>8. Types'
  BY <1>1, <1>3, <1>6 DEF Types
<1>9. ThreadInv(t)'
  <2>1. HelperInv(t)'
    BY <1>1, <1>2, <1>7 DEF HelperInv
  <2>2. ReadInv(t)'
    BY <1>1, <1>3, <1>7 DEF ThreadInv, ReadInv, Casts
  <2>3. WriteInv(t)' /\ FoundInv(t)' /\ TakenInv(t)'
    BY <1>1, <1>7 DEF ThreadInv, WriteInv, FoundInv, TakenInv
  <2> QED
    BY <1>2, <2>1, <2>2, <2>3 DEF ThreadInv
<1>10. \A u \in Threads \ {t} : Same(u)
  BY <1>4 DEF Same
<1> QED
  BY <1>1, <1>7, <1>8, <1>9, <1>10, Reading

LEMMA CastLockStep ==
    ASSUME IInv, NEW t \in Threads, CastLock(t)
    PROVE  IInv'
<1> DEFINE l == local[t]
           m == local'[t]
           there == {f \in Fds : ctbl[f] # None}
<1>1. /\ Types /\ ThreadInv(t) /\ l \in Record
      /\ l.pc = "cast_lock" /\ entry = None
      /\ UNCHANGED <<ctbl, object, socket, watched, entry>>
  BY DEF CastLock, rcl_read_lock, IInv, data, Types
<1>2. t # Main /\ HelperInv(t)
  BY <1>1 DEF ThreadInv, MainInv
<1>3. /\ l.call \in Casts /\ rc[t] = 0 /\ rc'[t] = 1
      /\ rc' \in [Threads -> 0 .. 2]
  <2>1. l.call \in Casts /\ rc[t] = 0
    BY <1>1 DEF ThreadInv, ReadInv
  <2>2. rc \in [Threads -> 0 .. 2] /\ rc' = [rc EXCEPT ![t] = rc[t] + 1]
    BY <1>1 DEF CastLock, rcl_read_lock, Types
  <2> QED
    BY <2>1, <2>2
<1>4. /\ m = [l EXCEPT !.pc = "cast", !.todo = there]
      /\ \A u \in Threads \ {t} : local'[u] = local[u] /\ rc'[u] = rc[u]
  BY <1>1 DEF CastLock, rcl_read_lock, Types
<1>5. m \in Record
  <2>1. l \in Record /\ "cast" \in PCs /\ there \in SUBSET Fds
    BY <1>1 DEF PCs
  <2> HIDE DEF l, m, there
  <2> QED
    BY <1>4, <2>1 DEF Record
<1>6. local' \in [Threads -> Record]
  BY <1>1, <1>4, <1>5 DEF CastLock, rcl_read_lock, Types
<1>7. /\ m.pc = "cast" /\ m.todo = there /\ m.target = l.target /\ m.o = l.o
      /\ m.call = l.call /\ m.uid = l.uid /\ m.calls = l.calls /\ m.victim = l.victim
  BY <1>1, <1>4 DEF Record
<1>8. Types'
  BY <1>1, <1>3, <1>6 DEF Types
<1>9. ThreadInv(t)'
  <2>1. HelperInv(t)'
    BY <1>1, <1>2, <1>7 DEF HelperInv
  <2>2. ReadInv(t)'
    BY <1>1, <1>3, <1>7 DEF ThreadInv, ReadInv
  <2>3. WriteInv(t)' /\ FoundInv(t)' /\ TakenInv(t)'
    BY <1>1, <1>7 DEF ThreadInv, WriteInv, FoundInv, TakenInv
  <2> QED
    BY <1>2, <2>1, <2>2, <2>3 DEF ThreadInv
<1>10. \A u \in Threads \ {t} : Same(u)
  BY <1>4 DEF Same
<1> QED
  BY <1>1, <1>7, <1>8, <1>9, <1>10, Reading

LEMMA ReadUnlockStep ==
    ASSUME IInv, NEW t \in Threads, ReadUnlock(t)
    PROVE  IInv'
<1> DEFINE l == local[t]
           m == local'[t]
           pc == IF l.call = "list" THEN "reply" ELSE "next"
<1>1. /\ Types /\ ThreadInv(t) /\ l \in Record
      /\ l.pc = "read_unlock" /\ rc[t] = 1
      /\ UNCHANGED <<ctbl, object, socket, watched, entry>>
  BY DEF ReadUnlock, IInv, data, Types
<1>2. t # Main /\ HelperInv(t)
  BY <1>1 DEF ThreadInv, MainInv
<1>3. /\ l.todo = {} /\ rc'[t] = 0 /\ rc' \in [Threads -> 0 .. 2]
  <2>1. l.todo = {}
    <3>1. rc[t] = 1
      BY <1>1
    <3>2. rc[t] # 2
      BY <3>1
    <3>3. ReadInv(t) /\ l.pc = "read_unlock"
      BY <1>1 DEF ThreadInv
    <3> QED
      BY <3>2, <3>3 DEF ReadInv
  <2>2. rc \in [Threads -> 0 .. 2] /\ rc' = [rc EXCEPT ![t] = 0]
    BY <1>1 DEF ReadUnlock, Types
  <2> QED
    BY <2>1, <2>2
<1>4. /\ m = [l EXCEPT !.pc = pc, !.target = None]
      /\ \A u \in Threads \ {t} : local'[u] = local[u] /\ rc'[u] = rc[u]
  BY <1>1 DEF ReadUnlock, Types
<1>5. m \in Record
  BY <1>1, <1>4 DEF Record, PCs
<1>6. local' \in [Threads -> Record]
  BY <1>1, <1>4, <1>5 DEF ReadUnlock, Types
<1>7. /\ m.pc = pc /\ m.todo = l.todo /\ m.o = l.o
      /\ m.call = l.call /\ m.uid = l.uid /\ m.calls = l.calls /\ m.victim = l.victim
  BY <1>1, <1>4 DEF Record
<1>8. Types'
  BY <1>1, <1>3, <1>6 DEF Types
<1>9. ThreadInv(t)'
  <2>1. HelperInv(t)'
    BY <1>1, <1>2, <1>7 DEF HelperInv
  <2>2. ReadInv(t)'
    BY <1>1, <1>3, <1>7 DEF ThreadInv, ReadInv
  <2>3. WriteInv(t)' /\ FoundInv(t)' /\ TakenInv(t)'
    BY <1>1, <1>3, <1>7 DEF ThreadInv, WriteInv, FoundInv, TakenInv
  <2> QED
    BY <1>2, <2>1, <2>2, <2>3 DEF ThreadInv
<1>10. \A u \in Threads \ {t} : Same(u)
  BY <1>4 DEF Same
<1> QED
  <2>1. m.pc # "destroy" /\ rc[t] # 0
    <3>1. rc[t] = 1
      BY <1>1
    <3>2. rc[t] # 0
      BY <3>1
    <3> QED
      BY <1>7, <3>2
  <2> QED
    BY <1>1, <1>8, <1>9, <1>10, <2>1, Reading

LEMMA CastWriteStep ==
    ASSUME IInv, NEW t \in Threads, CastWrite(t)
    PROVE  IInv'
<1> DEFINE l == local[t]
           m == local'[t]
           late(u) == local[u].late \/ (l.call # "chat" /\ Listing(u, l.target))
<1>1. /\ Types /\ ThreadInv(t) /\ l \in Record
      /\ l.pc = "read_unlock" /\ rc[t] = 2
      /\ local' = [u \in Threads |->
                      IF u = t THEN [l EXCEPT !.pc = "cast", !.target = None]
                      ELSE [local[u] EXCEPT !.late = late(u)]]
      /\ UNCHANGED <<ctbl, object, socket, watched, entry>>
  BY DEF CastWrite, IInv, Types
<1>2. t # Main /\ HelperInv(t)
  BY <1>1 DEF ThreadInv, MainInv
<1>3. /\ l.call \in Casts /\ rc'[t] = 1 /\ rc' \in [Threads -> 0 .. 2]
  <2>1. l.call \in Casts
    <3>1. rc[t] = 2
      BY <1>1
    <3>2. rc[t] # 1
      BY <3>1
    <3>3. ReadInv(t) /\ l.pc = "read_unlock"
      BY <1>1 DEF ThreadInv
    <3> QED
      BY <3>2, <3>3 DEF ReadInv
  <2>2. rc \in [Threads -> 0 .. 2] /\ rc' = [rc EXCEPT ![t] = 1]
    BY <1>1 DEF CastWrite, Types
  <2> QED
    BY <2>1, <2>2
<1>4. m = [l EXCEPT !.pc = "cast", !.target = None] /\ m \in Record
  BY <1>1 DEF Record, PCs
<1>5. ASSUME NEW u \in Threads \ {t}
      PROVE  local'[u] \in Record /\ Same(u)
  <2>1. late(u) \in BOOLEAN
    OBVIOUS
  <2>2. local'[u] = [local[u] EXCEPT !.late = late(u)]
    BY <1>1
  <2>3. rc'[u] = rc[u]
    BY <1>1 DEF CastWrite, Types
  <2>4. local[u] \in Record
    BY <1>1 DEF Types
  <2> HIDE DEF late
  <2> QED
    BY <2>1, <2>2, <2>3, <2>4 DEF Record, Same
<1>6. local' \in [Threads -> Record]
  <2>1. \A u \in Threads : local'[u] \in Record
    BY <1>4, <1>5
  <2>2. local' = [u \in Threads |-> local'[u]]
    BY <1>1
  <2> QED
    BY <2>1, <2>2
<1>7. /\ m.pc = "cast" /\ m.todo = l.todo /\ m.o = l.o
      /\ m.call = l.call /\ m.uid = l.uid /\ m.calls = l.calls /\ m.victim = l.victim
  BY <1>1, <1>4 DEF Record
<1>8. Types'
  BY <1>1, <1>3, <1>6 DEF Types
<1>9. ThreadInv(t)'
  <2>1. HelperInv(t)'
    BY <1>1, <1>2, <1>7 DEF HelperInv
  <2>2. ReadInv(t)'
    BY <1>1, <1>3, <1>7 DEF ThreadInv, ReadInv
  <2>3. WriteInv(t)' /\ FoundInv(t)' /\ TakenInv(t)'
    BY <1>1, <1>7 DEF ThreadInv, WriteInv, FoundInv, TakenInv
  <2> QED
    BY <1>2, <2>1, <2>2, <2>3 DEF ThreadInv
<1> QED
  <2>1. m.pc # "destroy" /\ rc[t] # 0
    <3>1. rc[t] = 2
      BY <1>1
    <3>2. rc[t] # 0
      BY <3>1
    <3> QED
      BY <1>7, <3>2
  <2> QED
    BY <1>1, <1>5, <1>8, <1>9, <2>1, Reading

LEMMA WriteReserveStep ==
    ASSUME IInv, NEW t \in Threads, WriteReserve(t)
    PROVE  IInv'
<1> DEFINE l == local[t]
           m == local'[t]
<1>1. /\ Types /\ TableInv /\ ThreadInv(t) /\ l \in Record
      /\ l.pc = "write_lock" /\ entry = None /\ entry' = t
      /\ UNCHANGED <<ctbl, object, socket, watched, rc>>
  BY DEF WriteReserve, IInv, data, Types
<1>2. /\ m = [l EXCEPT !.pc = "complete"]
      /\ \A u \in Threads \ {t} : local'[u] = local[u]
  BY <1>1 DEF WriteReserve, Types
<1>3. m \in Record
  BY <1>1, <1>2 DEF Record, PCs
<1>4. local' \in [Threads -> Record]
  BY <1>1, <1>3, <1>2 DEF Types, WriteReserve
<1>5. /\ m.pc = "complete" /\ m.todo = l.todo /\ m.target = l.target /\ m.o = l.o
      /\ m.call = l.call /\ m.uid = l.uid /\ m.client = l.client
      /\ m.calls = l.calls /\ m.victim = l.victim
  BY <1>1, <1>2 DEF Record
<1>6. Types' /\ TableInv'
  BY <1>1, <1>4 DEF Types, TableInv
<1>7. ThreadInv(t)'
  <2>1. t = Main => MainInv(t)'
    BY <1>1, <1>5 DEF ThreadInv, MainInv
  <2>2. t # Main => HelperInv(t)'
    BY <1>1, <1>5 DEF ThreadInv, HelperInv
  <2>3. ReadInv(t)' /\ WriteInv(t)' /\ FoundInv(t)' /\ TakenInv(t)'
    BY <1>1, <1>5 DEF ThreadInv, ReadInv, WriteInv, FoundInv, TakenInv
  <2> QED
    BY <2>1, <2>2, <2>3 DEF ThreadInv
<1>8. ASSUME NEW u \in Threads, u # t PROVE ThreadInv(u)'
  <2>1. Same(u)
    BY <1>1, <1>2, <1>8 DEF Same
  <2>2. local[u].pc \notin {"complete", "write"}
    BY <1>1, ThreadsAssumption DEF IInv, ThreadInv, WriteInv, Threads
  <2>3. ASSUME NEW v \in Threads \ {u}, local'[v].pc = "destroy"
        PROVE  local[v].pc = "destroy" /\ local'[v].o = local[v].o
    BY <2>3, <1>2, <1>5
  <2> QED
    BY <1>1, <1>8, <2>1, <2>2, <2>3, Others
<1> QED
  BY <1>6, <1>7, <1>8 DEF IInv

(* What a step must leave to the others that changes the table or the objects. *)
LEMMA Elsewhere ==
    ASSUME IInv, NEW u \in Threads, Same(u),
           local[u].pc \in {"complete", "write"} => entry' = entry,
           UNCHANGED rc,
           \A f \in Fds : ctbl[f] # None /\ (local[u].todo # {} \/ local[u].pc = "use")
                              => ctbl'[f] = ctbl[f],
           u = Main /\ local[u].pc # "idle" /\ object[local[u].client] = "none"
               => object'[local[u].client] = "none",
           TakenInv(u)'
    PROVE  ThreadInv(u)'
<1>1. ThreadInv(u) /\ local[u].todo \subseteq Fds
  BY DEF IInv, Types, Record
<1>2. u = Main => MainInv(u)'
  BY <1>1 DEF MainInv, ThreadInv, Same
<1>3. u # Main => HelperInv(u)'
  BY <1>1 DEF HelperInv, ThreadInv, Same
<1>4. ReadInv(u)'
  BY <1>1 DEF ReadInv, ThreadInv, Same
<1>5. WriteInv(u)'
  BY <1>1 DEF WriteInv, ThreadInv, Same
<1>6. FoundInv(u)'
  <2>1. \A f \in local'[u].todo : ctbl'[f] # None
    BY <1>1 DEF FoundInv, ThreadInv, Same
  <2>2. ASSUME local'[u].pc = "use"
        PROVE  local'[u].o \in Clients /\ ctbl'[local'[u].target] = local'[u].o
    <3>1. u # Main /\ local[u].pc = "use"
      BY <1>1, <2>2 DEF ThreadInv, MainInv, Same
    <3>2. /\ local[u].target \in Fds /\ local[u].o \in Clients
          /\ ctbl[local[u].target] = local[u].o
      BY <1>1, <3>1 DEF ThreadInv, HelperInv, FoundInv
    <3>3. ctbl[local[u].target] # None
      BY <3>2, ClientsAssumption
    <3> QED
      BY <3>1, <3>2, <3>3 DEF Same
  <2> QED
    BY <2>1, <2>2 DEF FoundInv
<1> QED
  BY <1>2, <1>3, <1>4, <1>5, <1>6 DEF ThreadInv

LEMMA UseStep ==
    ASSUME IInv, NEW t \in Threads, Use(t)
    PROVE  IInv'
<1> DEFINE l == local[t]
           m == local'[t]
<1>1. /\ Types /\ TableInv /\ ThreadInv(t) /\ l \in Record /\ l.pc = "use"
      /\ UNCHANGED <<ctbl, socket, watched, entry, rc>>
  BY DEF Use, IInv, Types
<1>2. t # Main /\ HelperInv(t)
  BY <1>1 DEF ThreadInv, MainInv
<1>3. /\ l.o \in Clients /\ object[l.o] \in Live
  <2>1. l.target \in Fds /\ l.o \in Clients /\ ctbl[l.target] = l.o
    BY <1>1, <1>2 DEF HelperInv, ThreadInv, FoundInv
  <2> QED
    BY <1>1, <2>1, ClientsAssumption DEF TableInv
<1>4. /\ object' \in [Clients -> Cstates]
      /\ \A k \in Clients : /\ object[k] \in Live => object'[k] \in Live
                            /\ object[k] = "none" => object'[k] = "none"
  BY <1>1, <1>3 DEF Use, Types, Cstates, Live
<1>5. /\ m = [l EXCEPT !.pc = "read_unlock", !.o = None]
      /\ \A u \in Threads \ {t} : local'[u] = local[u]
  BY <1>1 DEF Use, Types
<1>6. m \in Record
  BY <1>1, <1>5 DEF Record, PCs
<1>7. local' \in [Threads -> Record]
  BY <1>1, <1>5, <1>6 DEF Types, Use
<1>8. /\ m.pc = "read_unlock" /\ m.todo = l.todo /\ m.target = l.target
      /\ m.call = l.call /\ m.uid = l.uid /\ m.calls = l.calls /\ m.victim = l.victim
  BY <1>1, <1>5 DEF Record
<1>9. Types'
  BY <1>1, <1>4, <1>7 DEF Types
<1>10. TableInv'
  BY <1>1, <1>4 DEF TableInv, Types
<1>11. ThreadInv(t)'
  <2>1. HelperInv(t)'
    BY <1>1, <1>2, <1>8 DEF HelperInv
  <2>2. ReadInv(t)'
    BY <1>1, <1>8 DEF ThreadInv, ReadInv
  <2>3. WriteInv(t)' /\ FoundInv(t)' /\ TakenInv(t)'
    BY <1>1, <1>8 DEF ThreadInv, WriteInv, FoundInv, TakenInv
  <2> QED
    BY <1>2, <2>1, <2>2, <2>3 DEF ThreadInv
<1>12. ASSUME NEW u \in Threads, u # t PROVE ThreadInv(u)'
  <2>1. Same(u)
    BY <1>1, <1>5, <1>12 DEF Same
  <2>2. ThreadInv(u)
    BY DEF IInv
  <2>3. TakenInv(u)'
    <3>1. TakenInv(u)
      BY <2>2 DEF ThreadInv
    <3>2. /\ local'[u].pc = local[u].pc /\ local'[u].o = local[u].o
          /\ ctbl' = ctbl
          /\ \A k \in Clients : object[k] \in Live => object'[k] \in Live
          /\ \A v \in Threads \ {u} :
                 local'[v].pc = "destroy" => local[v].pc = "destroy" /\ local'[v].o = local[v].o
      BY <1>1, <1>4, <1>5, <1>8, <1>12
    <3> QED
      BY <3>1, <3>2 DEF TakenInv
  <2>4. u = Main /\ local[u].pc # "idle" /\ object[local[u].client] = "none"
            => object'[local[u].client] = "none"
    BY <1>4, <2>2 DEF ThreadInv, MainInv
  <2> QED
    BY <1>1, <2>1, <2>3, <2>4, Elsewhere
<1> QED
  BY <1>9, <1>10, <1>11, <1>12 DEF IInv

(* The main thread's object is new, and its number may be in the table still.  *)
LEMMA AddStep ==
    ASSUME IInv, NEW t \in Threads, Add(t)
    PROVE  IInv'
<1> DEFINE l == local[t]
           m == local'[t]
<1>1. /\ Types /\ TableInv /\ ThreadInv(t) /\ l \in Record
      /\ l.pc = "write" /\ t = Main
      /\ UNCHANGED <<socket, watched, rc>>
      /\ entry' = None
  BY DEF Add, IInv, Types
<1>2. /\ l.uid \in Fds /\ l.client \in Clients /\ object[l.client] = "none"
      /\ l.calls = <<"dispatch">>
  BY <1>1 DEF ThreadInv, MainInv
<1>3. /\ object' \in [Clients -> Cstates]
      /\ object'[l.client] = "NL"
      /\ \A k \in Clients \ {l.client} : object'[k] = object[k]
  BY <1>1, <1>2 DEF Add, Types, Cstates
<1>4. /\ ctbl' \in [Fds -> Clients \cup {None}]
      /\ ctbl'[l.uid] = IF ctbl[l.uid] = None THEN l.client ELSE ctbl[l.uid]
      /\ \A f \in Fds \ {l.uid} : ctbl'[f] = ctbl[f]
  BY <1>1, <1>2 DEF Add, Types
<1>5. /\ m = [l EXCEPT !.pc = "next", !.target = None]
      /\ \A u \in Threads \ {t} : local'[u] = local[u]
  BY <1>1 DEF Add, Types
<1>6. m \in Record
  BY <1>1, <1>5 DEF Record, PCs
<1>7. local' \in [Threads -> Record]
  BY <1>1, <1>5, <1>6 DEF Types, Add
<1>8. /\ m.pc = "next" /\ m.todo = l.todo /\ m.client = l.client
      /\ m.call = l.call /\ m.uid = l.uid /\ m.calls = l.calls
  BY <1>1, <1>5 DEF Record
<1>9. Types'
  BY <1>1, <1>3, <1>4, <1>7 DEF Types
<1>10. \A f \in Fds : ctbl[f] # None => ctbl[f] \in Clients \ {l.client}
  BY <1>1, <1>2 DEF TableInv, Types, Live
<1>11. TableInv'
  <2>1. \A f \in Fds : ctbl'[f] # None => object'[ctbl'[f]] \in Live
    BY <1>1, <1>3, <1>4, <1>10 DEF TableInv, Live
  <2>2. \A f, g \in Fds : f # g /\ ctbl'[f] # None => ctbl'[f] # ctbl'[g]
    BY <1>1, <1>2, <1>4, <1>10 DEF TableInv
  <2> QED
    BY <2>1, <2>2 DEF TableInv
<1>12. ThreadInv(t)'
  <2>1. MainInv(t)'
    BY <1>2, <1>8, Accepted DEF MainInv
  <2>2. l.todo = {}
    BY <1>1 DEF ThreadInv, ReadInv
  <2>3. ReadInv(t)' /\ WriteInv(t)' /\ FoundInv(t)' /\ TakenInv(t)'
    BY <1>1, <1>8, <2>2 DEF ThreadInv, ReadInv, WriteInv, FoundInv, TakenInv
  <2> QED
    BY <1>1, <2>1, <2>3 DEF ThreadInv
<1>13. ASSUME NEW u \in Threads, u # t PROVE ThreadInv(u)'
  <2>1. Same(u)
    BY <1>1, <1>5, <1>13 DEF Same
  <2>2. ThreadInv(u)
    BY DEF IInv
  <2>3. local[u].pc \notin {"complete", "write"}
    BY <1>1, <1>13, <2>2 DEF ThreadInv, WriteInv
  <2>4. TakenInv(u)'
    <3>1. ASSUME local[u].pc = "destroy"
          PROVE  /\ local[u].o \in Clients \ {l.client} /\ object'[local[u].o] \in Live
                 /\ \A f \in Fds : ctbl'[f] # local[u].o
      <4>1. /\ local[u].o \in Clients /\ object[local[u].o] \in Live
            /\ \A f \in Fds : ctbl[f] # local[u].o
        BY <2>2, <3>1 DEF ThreadInv, TakenInv
      <4>2. local[u].o # l.client
        BY <1>2, <4>1 DEF Live
      <4> QED
        BY <1>3, <1>4, <4>1, <4>2
    <3>2. \A v \in Threads \ {u} :
              local[u].pc = "destroy" /\ local'[v].pc = "destroy" => local'[v].o # local[u].o
      BY <1>5, <1>8, <2>2 DEF ThreadInv, TakenInv
    <3> QED
      BY <2>1, <3>1, <3>2 DEF TakenInv, Same
  <2>5. \A f \in Fds : ctbl[f] # None => ctbl'[f] = ctbl[f]
    BY <1>4
  <2> QED
    BY <1>1, <1>13, <2>1, <2>3, <2>4, <2>5, Elsewhere
<1> QED
  BY <1>9, <1>11, <1>12, <1>13 DEF IInv

(* A thread that does not read cm_lock has found nothing.                      *)
LEMMA NoReader ==
    ASSUME NEW u \in Threads, ReadInv(u), rc[u] = 0
    PROVE  local[u].todo = {} /\ local[u].pc # "use"
<1>1. rc[u] \notin {1, 2}
  OBVIOUS
<1>2. local[u].pc \notin {"use", "cast", "list"}
  BY <1>1 DEF ReadInv
<1>3. ~(local[u].pc = "read_lock" /\ local[u].call \in Casts)
  BY <1>1 DEF ReadInv
<1> QED
  BY <1>1, <1>2, <1>3 DEF ReadInv

LEMMA RemoveStep ==
    ASSUME IInv, NEW t \in Threads, Remove(t)
    PROVE  IInv'
<1> DEFINE l == local[t]
           m == local'[t]
           o == ctbl[l.target]
           pc == IF o = None THEN "next" ELSE "destroy"
<1>1. /\ Types /\ TableInv /\ ThreadInv(t) /\ l \in Record
      /\ l.pc = "write" /\ t # Main
      /\ UNCHANGED <<object, socket, watched, rc>>
      /\ entry' = None
  BY DEF Remove, IInv, Types
<1>2. l.target \in Fds /\ o \in Clients \cup {None}
  BY <1>1 DEF ThreadInv, HelperInv, Types
<1>3. /\ ctbl' \in [Fds -> Clients \cup {None}]
      /\ ctbl'[l.target] = None
      /\ \A f \in Fds \ {l.target} : ctbl'[f] = ctbl[f]
  BY <1>1, <1>2 DEF Remove, Types
<1>4. /\ m = [l EXCEPT !.pc = pc, !.o = o]
      /\ \A u \in Threads \ {t} : local'[u] = local[u]
  BY <1>1 DEF Remove, Types
<1>5. pc \in PCs
  BY DEF PCs
<1>6. m \in Record
  BY <1>1, <1>2, <1>4, <1>5 DEF Record
<1>7. local' \in [Threads -> Record]
  BY <1>1, <1>4, <1>6 DEF Types, Remove
<1>8. /\ m.pc = pc /\ m.o = o /\ m.todo = l.todo /\ m.target = l.target
      /\ m.call = l.call /\ m.uid = l.uid /\ m.calls = l.calls /\ m.victim = l.victim
  BY <1>1, <1>4 DEF Record
<1>9. Types'
  BY <1>1, <1>3, <1>7 DEF Types
<1>10. TableInv'
  BY <1>1, <1>3 DEF TableInv
<1>11. ASSUME NEW u \in Threads PROVE local[u].todo = {} /\ local[u].pc # "use"
  <2>1. rc[u] = 0
    BY <1>1 DEF ThreadInv, WriteInv
  <2>2. ReadInv(u)
    BY DEF IInv, ThreadInv
  <2> QED
    BY <2>1, <2>2, NoReader
<1>12. ASSUME o # None
       PROVE  /\ o \in Clients /\ object[o] \in Live
              /\ \A f \in Fds : ctbl'[f] # o
              /\ \A u \in Threads \ {t} : local[u].pc = "destroy" => local[u].o # o
  <2>1. o \in Clients /\ object[o] \in Live
    BY <1>1, <1>2, <1>12 DEF TableInv
  <2>2. \A f \in Fds : ctbl'[f] # o
    BY <1>1, <1>2, <1>3, <1>12 DEF TableInv
  <2>3. \A u \in Threads \ {t} : local[u].pc = "destroy" => local[u].o # o
    BY <1>2 DEF IInv, ThreadInv, TakenInv
  <2> QED
    BY <2>1, <2>2, <2>3
<1>13. ThreadInv(t)'
  <2>1. HelperInv(t)'
    BY <1>1, <1>8 DEF ThreadInv, HelperInv
  <2>2. ReadInv(t)'
    BY <1>1, <1>8 DEF ThreadInv, ReadInv
  <2>3. WriteInv(t)' /\ FoundInv(t)'
    BY <1>8, <1>11 DEF WriteInv, FoundInv
  <2>4. TakenInv(t)'
    BY <1>1, <1>4, <1>8, <1>12 DEF TakenInv
  <2> QED
    BY <1>1, <2>1, <2>2, <2>3, <2>4 DEF ThreadInv
<1>14. ASSUME NEW u \in Threads, u # t PROVE ThreadInv(u)'
  <2>1. Same(u)
    BY <1>1, <1>4, <1>14 DEF Same
  <2>2. ThreadInv(u)
    BY DEF IInv
  <2>3. local[u].pc \notin {"complete", "write"}
    BY <1>1, <1>14, <2>2 DEF ThreadInv, WriteInv
  <2>4. TakenInv(u)'
    <3>1. ASSUME local[u].pc = "destroy"
          PROVE  /\ local[u].o \in Clients /\ object[local[u].o] \in Live
                 /\ \A f \in Fds : ctbl'[f] # local[u].o
      <4>1. /\ local[u].o \in Clients /\ object[local[u].o] \in Live
            /\ \A f \in Fds : ctbl[f] # local[u].o
        BY <2>2, <3>1 DEF ThreadInv, TakenInv
      <4>2. local[u].o # None
        BY <4>1, ClientsAssumption
      <4> QED
        BY <1>3, <4>1, <4>2
    <3>2. ASSUME NEW v \in Threads \ {u}, local[u].pc = "destroy", local'[v].pc = "destroy"
          PROVE  local'[v].o # local[u].o
      <4>1. CASE v = t
        BY <1>8, <1>12, <1>14, <3>2, <4>1
      <4>2. CASE v # t
        BY <1>4, <2>2, <3>2, <4>2 DEF ThreadInv, TakenInv
      <4> QED
        BY <4>1, <4>2
    <3> QED
      BY <1>1, <2>1, <3>1, <3>2 DEF TakenInv, Same
  <2>5. local[u].todo = {} /\ local[u].pc # "use"
    BY <1>11
  <2> QED
    BY <1>1, <2>1, <2>3, <2>4, <2>5, Elsewhere
<1> QED
  BY <1>9, <1>10, <1>13, <1>14 DEF IInv

LEMMA DestroyStep ==
    ASSUME IInv, NEW t \in Threads, Destroy(t)
    PROVE  IInv'
<1> DEFINE l == local[t]
           m == local'[t]
<1>1. /\ Types /\ TableInv /\ ThreadInv(t) /\ l \in Record /\ l.pc = "destroy"
      /\ UNCHANGED <<ctbl, watched, entry, rc>>
  BY DEF Destroy, IInv, Types
<1>2. t # Main /\ HelperInv(t) /\ l.target \in Fds
  BY <1>1 DEF ThreadInv, MainInv, HelperInv
<1>3. /\ l.o \in Clients /\ object[l.o] \in Live
      /\ \A f \in Fds : ctbl[f] # l.o
  BY <1>1 DEF ThreadInv, TakenInv
<1>4. /\ object' \in [Clients -> Cstates]
      /\ \A k \in Clients \ {l.o} : object'[k] = object[k]
  BY <1>1, <1>3 DEF Destroy, Types, Cstates
<1>5. socket' \in [Fds -> Clients \cup {None}]
  BY <1>1, <1>2 DEF Destroy, Types
<1>6. /\ m = [l EXCEPT !.pc = "next", !.o = None, !.target = None]
      /\ \A u \in Threads \ {t} : local'[u] = local[u]
  BY <1>1 DEF Destroy, Types
<1>7. m \in Record
  BY <1>1, <1>6 DEF Record, PCs
<1>8. local' \in [Threads -> Record]
  BY <1>1, <1>6, <1>7 DEF Types, Destroy
<1>9. /\ m.pc = "next" /\ m.todo = l.todo
      /\ m.call = l.call /\ m.uid = l.uid /\ m.calls = l.calls /\ m.victim = l.victim
  BY <1>1, <1>6 DEF Record
<1>10. Types'
  BY <1>1, <1>4, <1>5, <1>8 DEF Types
<1>11. TableInv'
  BY <1>1, <1>3, <1>4 DEF TableInv, Types
<1>12. ThreadInv(t)'
  <2>1. HelperInv(t)'
    BY <1>1, <1>2, <1>9 DEF HelperInv
  <2>2. ReadInv(t)'
    BY <1>1, <1>9 DEF ThreadInv, ReadInv
  <2>3. WriteInv(t)' /\ FoundInv(t)' /\ TakenInv(t)'
    BY <1>1, <1>9 DEF ThreadInv, WriteInv, FoundInv, TakenInv
  <2> QED
    BY <1>2, <2>1, <2>2, <2>3 DEF ThreadInv
<1>13. ASSUME NEW u \in Threads, u # t PROVE ThreadInv(u)'
  <2>1. Same(u)
    BY <1>1, <1>6, <1>13 DEF Same
  <2>2. ThreadInv(u)
    BY DEF IInv
  <2>3. TakenInv(u)'
    <3>1. ASSUME local[u].pc = "destroy"
          PROVE  local[u].o \in Clients \ {l.o} /\ object[local[u].o] \in Live
      BY <1>1, <1>13, <2>2, <3>1 DEF ThreadInv, TakenInv
    <3>2. \A v \in Threads \ {u} :
              local[u].pc = "destroy" /\ local'[v].pc = "destroy" => local'[v].o # local[u].o
      BY <1>6, <1>9, <2>2 DEF ThreadInv, TakenInv
    <3>3. local[u].pc = "destroy" => \A f \in Fds : ctbl'[f] # local[u].o
      BY <1>1, <2>2 DEF ThreadInv, TakenInv
    <3> QED
      BY <1>4, <2>1, <3>1, <3>2, <3>3 DEF TakenInv, Same
  <2>4. u = Main /\ local[u].pc # "idle" /\ object[local[u].client] = "none"
            => object'[local[u].client] = "none"
    <3>1. u = Main /\ local[u].pc # "idle" => local[u].client \in Clients
      BY <2>2 DEF ThreadInv, MainInv
    <3>2. object[l.o] # "none"
      BY <1>3 DEF Live
    <3> QED
      BY <1>4, <3>1, <3>2
  <2> QED
    BY <1>1, <2>1, <2>3, <2>4, Elsewhere
<1> QED
  BY <1>10, <1>11, <1>12, <1>13 DEF IInv

LEMMA StepIInv ==
    ASSUME IInv, Next
    PROVE  IInv'
<1>1. ASSUME NEW f \in Fds, NEW k \in Clients, Accept(f, k) PROVE IInv'
  BY <1>1, AcceptStep
<1>2. ASSUME NEW h \in Helpers,
             \/ DispatchConnect(h) \/ Handshake(h) \/ Transaction(h)
             \/ \E f \in Fds : DispatchTransaction(h, f)
      PROVE  IInv'
  BY <1>2, DispatchConnectStep, HandshakeStep, TransactionStep, DispatchTransactionStep
<1>3. ASSUME NEW t \in Threads, Step(t) PROVE IInv'
  <2>1. CASE Begin(t) \/ End(t)
    BY <2>1, BeginStep, EndStep
  <2>2. CASE ReadLock(t) \/ Look(t) \/ Use(t) \/ ReadUnlock(t)
    BY <2>2, ReadLockStep, LookStep, UseStep, ReadUnlockStep
  <2>3. CASE ListBegin(t) \/ ListEnd(t) \/ ListReply(t)
    BY <2>3, ListBeginStep, ListEndStep, ListReplyStep
  <2>4. CASE CastLock(t) \/ CastWrite(t) \/ CastEnd(t)
    BY <2>4, CastLockStep, CastWriteStep, CastEndStep
  <2>5. CASE \E u \in Fds : CastTo(t, u) \/ ListUser(t, u)
    BY <2>5, CastToStep, ListUserStep
  <2>6. CASE WriteReserve(t) \/ WriteComplete(t)
    BY <2>6, WriteReserveStep, WriteCompleteStep
  <2>7. CASE Add(t) \/ Remove(t) \/ Destroy(t)
    BY <2>7, AddStep, RemoveStep, DestroyStep
  <2> QED
    BY <1>3, <2>1, <2>2, <2>3, <2>4, <2>5, <2>6, <2>7 DEF Step
<1> QED
  BY <1>1, <1>2, <1>3 DEF Next

LEMMA StutterIInv ==
    ASSUME IInv, UNCHANGED vars
    PROVE  IInv'
<1>1. UNCHANGED <<ctbl, object, socket, watched, entry, rc, local>>
  BY DEF vars, data
<1>2. Types' /\ TableInv'
  BY <1>1 DEF IInv, Types, TableInv
<1>3. ASSUME NEW t \in Threads PROVE ThreadInv(t)'
  <2>1. ThreadInv(t)
    BY DEF IInv
  <2> QED
    BY <1>1, <2>1 DEF ThreadInv, MainInv, HelperInv, ReadInv, WriteInv, FoundInv, TakenInv
<1> QED
  BY <1>2, <1>3 DEF IInv

LEMMA IInvNoUseAfterFree ==
    ASSUME IInv
    PROVE  NoUseAfterFree
<1>1. ASSUME NEW t \in Threads, local[t].pc \in {"use", "destroy"}
      PROVE  object[local[t].o] \in Live
  <2>1. ThreadInv(t) /\ TableInv
    BY DEF IInv
  <2>2. CASE local[t].pc = "use"
    <3>1. t # Main
      BY <2>1, <2>2 DEF ThreadInv, MainInv
    <3>2. /\ local[t].target \in Fds /\ local[t].o \in Clients
          /\ ctbl[local[t].target] = local[t].o
      BY <2>1, <2>2, <3>1 DEF ThreadInv, HelperInv, FoundInv
    <3> QED
      BY <2>1, <3>2, ClientsAssumption DEF TableInv
  <2>3. CASE local[t].pc = "destroy"
    BY <2>1, <2>3 DEF ThreadInv, TakenInv
  <2> QED
    BY <1>1, <2>2, <2>3
<1>2. ASSUME NEW t \in Threads, NEW u \in local[t].todo
      PROVE  ctbl[u] # None /\ object[ctbl[u]] \in Live
  <2>1. ThreadInv(t) /\ TableInv /\ u \in Fds
    BY DEF IInv, Types, Record
  <2> QED
    BY <2>1 DEF ThreadInv, FoundInv, TableInv
<1>3. ASSUME NEW t \in Threads, NEW u \in Threads, local[t].pc = "destroy"
      PROVE  /\ local[t].o \notin {ctbl[f] : f \in Fds}
             /\ t # u /\ local[u].pc = "destroy" => local[t].o # local[u].o
  BY <1>3 DEF IInv, ThreadInv, TakenInv
<1> QED
  BY <1>1, <1>2, <1>3 DEF NoUseAfterFree, Live
-----------------------------------------------------------------------------
(* Whoever kicks, disconnects or fails a handshake, and however the numbers    *)
(* are given out again: a reader of cm_lock never holds an object that is      *)
(* freed, and cm_remove frees no object twice.                                 *)
THEOREM ObjectsOutliveReaders == Spec => []NoUseAfterFree
<1>1. Init => IInv
  BY InitIInv
<1>2. IInv /\ [Next]_vars => IInv'
  BY StepIInv, StutterIInv
<1>3. IInv => NoUseAfterFree
  BY IInvNoUseAfterFree
<1> QED
  BY <1>1, <1>2, <1>3, PTL DEF Spec
-----------------------------------------------------------------------------
(* Before the first kick and the first failed handshake: who serves whom.      *)

Rests(t) == local[t].pc = "idle" \/ (local[t].pc = "next" /\ local[t].calls = <<>>)

(* The main thread has added its client and has still to dispatch it.          *)
Added == local[Main].pc = "next" /\ local[Main].calls = <<"dispatch">>

(* A thread that has not rested yet has its user to itself, under the number   *)
(* and the object of the client it began with.                                 *)
HoldInv(t) ==
    LET l == local[t] IN
    ~Rests(t) =>
        /\ l.uid \in Fds \ watched /\ l.client \in Clients
        /\ socket[l.uid] = l.client
        /\ ctbl[l.uid] = IF (t = Main /\ ~Added) \/ l.pc = "destroy" THEN None ELSE l.client
        /\ \A u \in Threads \ {t} : ~Rests(u) => local[u].uid # l.uid
        /\ l.pc = "handshake" \/ (t = Main /\ Added) => object[l.client] = "NL"

(* It gives the user up with the last of its calls, and with that only.        *)
Closing(calls) == \A i \in 1 .. Len(calls) :
    calls[i] # "close" /\ (calls[i] \in {"watch", "remove"} <=> i = Len(calls))

Removing == {"write_lock", "complete", "write", "destroy"}
Looking == {"read_lock", "look", "use"}
Reads == Looking \cup {"read_unlock", "cast_lock", "cast", "list", "reply"}

PlanInv(h) ==
    LET l == local[h] IN
    /\ Closing(l.calls)
    /\ l.pc \in Removing => l.calls = <<>> /\ l.target = l.uid
    /\ l.pc \in Reads => l.calls # <<>>
    /\ \A i \in 1 .. Len(l.calls) : l.calls[i] = "remove" => l.victim = l.uid
    /\ l.call \in {"NR", "LI"} /\ l.pc \in Looking => l.target = l.uid

TablesAgree == /\ \A f \in Fds : ctbl[f] # None => ctbl[f] = socket[f]
               /\ \A f \in watched : ctbl[f] # None

OwnInv == /\ TablesAgree
          /\ \A t \in Threads : HoldInv(t)
          /\ \A h \in Helpers : PlanInv(h)

LEMMA InitOwn == Init => OwnInv
<1> SUFFICES ASSUME Init PROVE OwnInv
  OBVIOUS
<1>1. TablesAgree
  BY DEF Init, TablesAgree
<1>2. ASSUME NEW t \in Threads
      PROVE  local[t].pc = "idle" /\ local[t].calls = <<>> /\ local[t].call = None
  BY DEF Init, Idle
<1>3. \A t \in Threads : HoldInv(t)
  BY <1>2 DEF HoldInv, Rests
<1>4. ASSUME NEW h \in Helpers PROVE PlanInv(h)
  <2>1. local[h].pc = "idle" /\ local[h].calls = <<>>
    BY <1>2 DEF Threads
  <2> QED
    BY <2>1 DEF PlanInv, Closing, Removing, Looking, Reads
<1> QED
  BY <1>1, <1>3, <1>4 DEF OwnInv

(* What the invariant reads of a thread.                                       *)
Alike(u) == /\ local'[u].pc = local[u].pc /\ local'[u].uid = local[u].uid
            /\ local'[u].client = local[u].client /\ local'[u].calls = local[u].calls
            /\ local'[u].call = local[u].call /\ local'[u].victim = local[u].victim
            /\ local'[u].target = local[u].target

LEMMA AlikeRests ==
    ASSUME NEW u \in Threads, Alike(u)
    PROVE  /\ Rests(u)' <=> Rests(u)
           /\ u = Main => (Added' <=> Added)
           /\ PlanInv(u)' <=> PlanInv(u)
<1>1. (Rests(u)' <=> Rests(u)) /\ (u = Main => (Added' <=> Added))
  BY DEF Alike, Rests, Added
<1>2. PlanInv(u)' <=> PlanInv(u)
  BY DEF Alike, PlanInv
<1> QED
  BY <1>1, <1>2

(* A step that leaves the tables alone and goes on serving the same client.    *)
LEMMA Going ==
    ASSUME IInv, OwnInv, NEW t \in Threads, UNCHANGED <<ctbl, object, socket, watched>>,
           \A u \in Threads \ {t} : Alike(u),
           local'[t].uid = local[t].uid, local'[t].client = local[t].client,
           ~Rests(t)' => ~Rests(t),
           local'[t].pc # "destroy", local[t].pc # "destroy", local'[t].pc # "handshake",
           t = Main => (Added' <=> Added),
           t \in Helpers => PlanInv(t)'
    PROVE  OwnInv'
<1>1. ASSUME NEW u \in Threads
      PROVE  /\ ~Rests(u)' => ~Rests(u)
             /\ local'[u].uid = local[u].uid /\ local'[u].client = local[u].client
             /\ local'[u].pc = "destroy" <=> local[u].pc = "destroy"
             /\ local'[u].pc = "handshake" => local[u].pc = "handshake"
             /\ u = Main => (Added' <=> Added)
             /\ u \in Helpers => PlanInv(u)'
  <2>1. CASE u = t
    BY <2>1
  <2>2. CASE u # t
    <3>1. Alike(u) /\ (u \in Helpers => PlanInv(u))
      BY <2>2 DEF OwnInv
    <3> QED
      BY <3>1, AlikeRests DEF Alike
  <2> QED
    BY <2>1, <2>2
<1>2. ASSUME NEW u \in Threads PROVE HoldInv(u)'
  <2>1. HoldInv(u)
    BY DEF OwnInv
  <2> QED
    BY <1>1, <2>1 DEF HoldInv
<1>3. TablesAgree'
  BY DEF OwnInv, TablesAgree
<1> QED
  BY <1>1, <1>2, <1>3 DEF OwnInv, Threads

(* A call that reads goes on, or ends.                                         *)
Goes(t) ==
    /\ UNCHANGED <<ctbl, object, socket, watched, crossed>>
    /\ \A u \in Threads \ {t} : Alike(u)
    /\ local[t].pc \in Reads /\ local'[t].pc \in Reads \cup {"next"}
    /\ local'[t].uid = local[t].uid /\ local'[t].client = local[t].client
    /\ local'[t].calls = local[t].calls /\ local'[t].call = local[t].call
    /\ local'[t].victim = local[t].victim
    /\ local'[t].call \in {"NR", "LI"} /\ local'[t].pc \in Looking =>
           local[t].pc \in Looking /\ local'[t].target = local[t].target

LEMMA GoingOn ==
    ASSUME IInv, NEW t \in Threads,
           \/ ReadLock(t) \/ Look(t) \/ ReadUnlock(t)
           \/ ListBegin(t) \/ ListEnd(t) \/ ListReply(t)
           \/ CastLock(t) \/ CastEnd(t)
    PROVE  Goes(t)
<1> DEFINE l == local[t]
           m == local'[t]
<1>1. l \in Record /\ local \in [Threads -> Record] /\ ReadInv(t)
  BY DEF IInv, Types, ThreadInv
<1>2. ASSUME NEW r, local' = [local EXCEPT ![t] = r],
             UNCHANGED <<ctbl, object, socket, watched, crossed>>,
             l.pc \in Reads, r.pc \in Reads \cup {"next"},
             r.uid = l.uid, r.client = l.client, r.calls = l.calls,
             r.call = l.call, r.victim = l.victim,
             r.call \in {"NR", "LI"} /\ r.pc \in Looking =>
                 l.pc \in Looking /\ r.target = l.target
      PROVE  Goes(t)
  <2>1. m = r /\ \A u \in Threads \ {t} : local'[u] = local[u]
    BY <1>1, <1>2
  <2> QED
    BY <1>2, <2>1 DEF Goes, Alike
<1>3. CASE ReadLock(t)
  <2> DEFINE r == [l EXCEPT !.pc = "look"]
  <2>1. l.pc = "read_lock" /\ local' = [local EXCEPT ![t] = r]
        /\ UNCHANGED <<ctbl, object, socket, watched, crossed>>
    BY <1>1, <1>3 DEF ReadLock, rcl_read_lock, data
  <2>2. /\ r.pc = "look" /\ r.uid = l.uid /\ r.client = l.client /\ r.calls = l.calls
        /\ r.call = l.call /\ r.victim = l.victim /\ r.target = l.target
    BY <1>1 DEF Record
  <2> HIDE DEF r
  <2> QED
    BY <1>2, <2>1, <2>2 DEF Reads, Looking
<1>4. CASE Look(t)
  <2> DEFINE r == [l EXCEPT !.pc = IF ctbl[l.target] = None THEN "read_unlock" ELSE "use",
                       !.o = ctbl[l.target]]
  <2>1. l.pc = "look" /\ local' = [local EXCEPT ![t] = r]
        /\ UNCHANGED <<ctbl, object, socket, watched, crossed>>
    BY <1>1, <1>4 DEF Look, data
  <2>2. /\ r.pc \in {"read_unlock", "use"} /\ r.uid = l.uid /\ r.client = l.client /\ r.calls = l.calls
        /\ r.call = l.call /\ r.victim = l.victim /\ r.target = l.target
    BY <1>1 DEF Record
  <2> HIDE DEF r
  <2> QED
    BY <1>2, <2>1, <2>2 DEF Reads, Looking
<1>5. CASE ReadUnlock(t)
  <2> DEFINE r == [l EXCEPT !.pc = IF l.call = "list" THEN "reply" ELSE "next", !.target = None]
  <2>1. l.pc = "read_unlock" /\ local' = [local EXCEPT ![t] = r]
        /\ UNCHANGED <<ctbl, object, socket, watched, crossed>>
    BY <1>1, <1>5 DEF ReadUnlock, data
  <2>2. /\ r.pc \in {"reply", "next"} /\ r.uid = l.uid /\ r.client = l.client /\ r.calls = l.calls
        /\ r.call = l.call /\ r.victim = l.victim
    BY <1>1 DEF Record
  <2> HIDE DEF r
  <2> QED
    BY <1>2, <2>1, <2>2 DEF Reads, Looking
<1>6. CASE ListBegin(t)
  <2> DEFINE r == [l EXCEPT !.pc = "list", !.todo = {f \in Fds : ctbl[f] # None}]
  <2>1. l.pc = "look" /\ local' = [local EXCEPT ![t] = r]
        /\ UNCHANGED <<ctbl, object, socket, watched, crossed>>
    BY <1>1, <1>6 DEF ListBegin, data
  <2>2. /\ r.pc = "list" /\ r.uid = l.uid /\ r.client = l.client /\ r.calls = l.calls
        /\ r.call = l.call /\ r.victim = l.victim
    BY <1>1 DEF Record
  <2> HIDE DEF r
  <2> QED
    BY <1>2, <2>1, <2>2 DEF Reads, Looking
<1>7. CASE ListEnd(t)
  <2> DEFINE r == [l EXCEPT !.pc = "read_unlock"]
  <2>1. l.pc = "list" /\ local' = [local EXCEPT ![t] = r]
        /\ UNCHANGED <<ctbl, object, socket, watched, crossed>>
    BY <1>1, <1>7 DEF ListEnd, data
  <2>2. /\ r.pc = "read_unlock" /\ r.uid = l.uid /\ r.client = l.client /\ r.calls = l.calls
        /\ r.call = l.call /\ r.victim = l.victim
    BY <1>1 DEF Record
  <2> HIDE DEF r
  <2> QED
    BY <1>2, <2>1, <2>2 DEF Reads, Looking
<1>8. CASE ListReply(t)
  <2> DEFINE r == [l EXCEPT !.pc = "next", !.list = {}, !.late = FALSE]
  <2>1. l.pc = "reply" /\ local' = [local EXCEPT ![t] = r]
        /\ UNCHANGED <<ctbl, object, socket, watched, crossed>>
    BY <1>1, <1>8 DEF ListReply, data
  <2>2. /\ r.pc = "next" /\ r.uid = l.uid /\ r.client = l.client /\ r.calls = l.calls
        /\ r.call = l.call /\ r.victim = l.victim
    BY <1>1 DEF Record
  <2> HIDE DEF r
  <2> QED
    BY <1>2, <2>1, <2>2 DEF Reads, Looking
<1>9. CASE CastLock(t)
  <2> DEFINE r == [l EXCEPT !.pc = "cast", !.todo = {f \in Fds : ctbl[f] # None}]
  <2>1. l.pc = "cast_lock" /\ local' = [local EXCEPT ![t] = r]
        /\ UNCHANGED <<ctbl, object, socket, watched, crossed>>
    BY <1>1, <1>9 DEF CastLock, rcl_read_lock, data
  <2>2. /\ r.pc = "cast" /\ r.uid = l.uid /\ r.client = l.client /\ r.calls = l.calls
        /\ r.call = l.call /\ r.victim = l.victim
    BY <1>1 DEF Record
  <2> HIDE DEF r
  <2> QED
    BY <1>2, <2>1, <2>2 DEF Reads, Looking
<1>10. CASE CastEnd(t)
  <2> DEFINE r == [l EXCEPT !.pc = "read_unlock"]
  <2>1. l.pc = "cast" /\ local' = [local EXCEPT ![t] = r]
        /\ UNCHANGED <<ctbl, object, socket, watched, crossed>>
    BY <1>1, <1>10 DEF CastEnd, data
  <2>2. /\ r.pc = "read_unlock" /\ r.uid = l.uid /\ r.client = l.client /\ r.calls = l.calls
        /\ r.call = l.call /\ r.victim = l.victim
    BY <1>1 DEF Record
  <2> HIDE DEF r
  <2> QED
    BY <1>2, <2>1, <2>2 DEF Reads, Looking
<1> QED
  BY <1>3, <1>4, <1>5, <1>6, <1>7, <1>8, <1>9, <1>10

LEMMA Casting ==
    ASSUME IInv, NEW t \in Threads, NEW x \in Fds, CastTo(t, x)
    PROVE  Goes(t)
<1> DEFINE l == local[t]
           m == local'[t]
<1>1. /\ Types /\ ReadInv(t) /\ l \in Record /\ l.pc = "cast"
      /\ UNCHANGED <<ctbl, object, socket, watched, crossed>>
  BY DEF CastTo, IInv, data, Types, ThreadInv
<1>2. /\ m = [l EXCEPT !.todo = l.todo \ {x},
                       !.pc = IF Passed(t, x) THEN "cast" ELSE "read_lock",
                       !.target = IF Passed(t, x) THEN None ELSE x]
      /\ \A u \in Threads \ {t} : local'[u] = local[u]
  BY <1>1 DEF CastTo, Types
<1>3. /\ m.pc \in {"cast", "read_lock"} /\ m.uid = l.uid /\ m.client = l.client
      /\ m.calls = l.calls /\ m.call = l.call /\ m.victim = l.victim
  BY <1>1, <1>2 DEF Record
<1>4. l.call \in Casts
  BY <1>1 DEF ReadInv
<1> QED
  BY <1>1, <1>2, <1>3, <1>4 DEF Goes, Alike, Reads, Looking, Casts

LEMMA ListingOne ==
    ASSUME IInv, NEW t \in Threads, NEW x \in Fds, ListUser(t, x)
    PROVE  Goes(t)
<1> DEFINE l == local[t]
           m == local'[t]
<1>1. /\ Types /\ l \in Record /\ l.pc = "list"
      /\ UNCHANGED <<ctbl, object, socket, watched, crossed>>
  BY DEF ListUser, IInv, data, Types
<1>2. /\ m = [l EXCEPT !.todo = l.todo \ {x},
                       !.list = IF Listed(x) THEN l.list \cup {x} ELSE l.list,
                       !.late = l.late \/ Leaving(x)]
      /\ \A u \in Threads \ {t} : local'[u] = local[u]
  BY <1>1 DEF ListUser, Types
<1>3. /\ m.pc = l.pc /\ m.uid = l.uid /\ m.client = l.client /\ m.target = l.target
      /\ m.calls = l.calls /\ m.call = l.call /\ m.victim = l.victim
  BY <1>1, <1>2 DEF Record
<1> QED
  BY <1>1, <1>2, <1>3 DEF Goes, Alike, Reads, Looking

LEMMA WritingTo ==
    ASSUME IInv, NEW t \in Threads, CastWrite(t)
    PROVE  Goes(t)
<1> DEFINE l == local[t]
           m == local'[t]
           late(u) == local[u].late \/ (l.call # "chat" /\ Listing(u, l.target))
<1>1. /\ local \in [Threads -> Record] /\ l \in Record
      /\ l.pc = "read_unlock" /\ rc[t] = 2
      /\ local' = [u \in Threads |->
                      IF u = t THEN [l EXCEPT !.pc = "cast", !.target = None]
                      ELSE [local[u] EXCEPT !.late = late(u)]]
      /\ UNCHANGED <<ctbl, object, socket, watched, crossed>>
  BY DEF CastWrite, IInv, Types
<1>2. m = [l EXCEPT !.pc = "cast", !.target = None]
  BY <1>1
<1>3. ASSUME NEW u \in Threads \ {t} PROVE Alike(u)
  <2>1. local'[u] = [local[u] EXCEPT !.late = late(u)] /\ local[u] \in Record
    BY <1>1
  <2> HIDE DEF late
  <2> QED
    BY <2>1 DEF Record, Alike
<1>4. /\ m.pc = "cast" /\ m.uid = l.uid /\ m.client = l.client
      /\ m.calls = l.calls /\ m.call = l.call /\ m.victim = l.victim
  BY <1>1, <1>2 DEF Record
<1> QED
  BY <1>1, <1>3, <1>4 DEF Goes, Reads, Looking

LEMMA GoesOwn ==
    ASSUME IInv, OwnInv, NEW t \in Threads, Goes(t)
    PROVE  OwnInv'
<1> DEFINE l == local[t]
           m == local'[t]
<1>1. l.pc \in Reads /\ m.pc \in Reads \cup {"next"} /\ ThreadInv(t)
  BY DEF Goes, IInv
<1>2. t # Main /\ t \in Helpers
  BY <1>1 DEF ThreadInv, MainInv, Reads, Looking, Threads
<1>3. PlanInv(t) /\ l.calls # <<>>
  BY <1>1, <1>2 DEF OwnInv, PlanInv
<1>4. PlanInv(t)'
  <2>1. m.pc \notin Removing
    BY <1>1 DEF Reads, Removing, Looking
  <2> QED
    BY <1>3, <2>1 DEF PlanInv, Goes
<1>5. ~Rests(t) /\ m.pc # "destroy" /\ l.pc # "destroy" /\ m.pc # "handshake"
  BY <1>1 DEF Rests, Reads, Looking
<1> QED
  BY <1>2, <1>4, <1>5, Going DEF Goes

(* A step that changes the tables for its own user only.                       *)
LEMMA OnlyOwn ==
    ASSUME IInv, OwnInv, NEW t \in Threads,
           TablesAgree', HoldInv(t)', t \in Helpers => PlanInv(t)',
           \A u \in Threads \ {t} : Alike(u),
           \A u \in Threads \ {t} : ~Rests(u) =>
               LET f == local[u].uid
                   k == local[u].client
               IN  /\ socket'[f] = socket[f] /\ ctbl'[f] = ctbl[f] /\ f \notin watched'
                   /\ ~Rests(t)' => local'[t].uid # f
                   /\ local[u].pc = "handshake" \/ (u = Main /\ Added) =>
                          object'[k] = object[k]
    PROVE  OwnInv'
<1>1. ASSUME NEW u \in Threads, u # t
      PROVE  HoldInv(u)' /\ (u \in Helpers => PlanInv(u)')
  <2>1. /\ Alike(u) /\ HoldInv(u) /\ (u \in Helpers => PlanInv(u))
        /\ Rests(u)' <=> Rests(u)
        /\ u = Main => (Added' <=> Added)
        /\ PlanInv(u)' <=> PlanInv(u)
    BY <1>1, AlikeRests DEF OwnInv
  <2>2. CASE Rests(u)
    BY <2>1, <2>2 DEF HoldInv
  <2>3. CASE ~Rests(u)
    <3> DEFINE f == local[u].uid
               k == local[u].client
    <3>1. /\ local'[u].uid = f /\ local'[u].client = k /\ local'[u].pc = local[u].pc
      BY <2>1 DEF Alike
    <3>2. /\ f \in Fds /\ k \in Clients /\ socket[f] = k
          /\ ctbl[f] = IF (u = Main /\ ~Added) \/ local[u].pc = "destroy" THEN None ELSE k
          /\ \A v \in Threads \ {u} : ~Rests(v) => local[v].uid # f
          /\ local[u].pc = "handshake" \/ (u = Main /\ Added) => object[k] = "NL"
      BY <2>1, <2>3 DEF HoldInv
    <3>3. /\ socket'[f] = socket[f] /\ ctbl'[f] = ctbl[f] /\ f \notin watched'
          /\ ~Rests(t)' => local'[t].uid # f
          /\ local[u].pc = "handshake" \/ (u = Main /\ Added) => object'[k] = object[k]
      BY <1>1, <2>3
    <3>4. ASSUME NEW v \in Threads \ {u}, ~Rests(v)' PROVE local'[v].uid # f
      <4>1. CASE v = t
        BY <3>3, <3>4, <4>1
      <4>2. CASE v # t
        <5>1. Alike(v) /\ (Rests(v)' <=> Rests(v))
          BY <4>2, AlikeRests
        <5> QED
          BY <3>2, <3>4, <5>1 DEF Alike
      <4> QED
        BY <4>1, <4>2
    <3> HIDE DEF f, k
    <3> QED
      BY <2>1, <3>1, <3>2, <3>3, <3>4 DEF HoldInv
  <2> QED
    BY <2>1, <2>2, <2>3
<1> QED
  BY <1>1 DEF OwnInv, Threads

LEMMA ClosingRest ==
    ASSUME NEW S, NEW calls \in Seq(S), calls # <<>>, Closing(calls)
    PROVE  /\ Closing(Tail(calls)) /\ Head(calls) # "close"
           /\ Head(calls) \in {"watch", "remove"} <=> Tail(calls) = <<>>
           /\ 1 \in 1 .. Len(calls) /\ Head(calls) = calls[1]
           /\ \A i \in 1 .. Len(Tail(calls)) : /\ i + 1 \in 1 .. Len(calls)
                                               /\ Tail(calls)[i] = calls[i + 1]
<1> DEFINE n == Len(calls)
           rest == Tail(calls)
<1>1. /\ n \in Nat /\ n # 0 /\ Head(calls) = calls[1]
      /\ rest \in Seq(S) /\ Len(rest) = n - 1
      /\ \A i \in 1 .. Len(rest) : rest[i] = calls[i + 1]
  BY EmptySeq, LenProperties, HeadTailProperties
<1> HIDE DEF n, rest
<1>2. /\ 1 \in 1 .. n /\ (n = 1 <=> Len(rest) = 0)
      /\ \A i \in 1 .. Len(rest) : i + 1 \in 1 .. n /\ (i + 1 = n <=> i = Len(rest))
  BY <1>1
<1>3. rest = <<>> <=> n = 1
  BY <1>1, <1>2, EmptySeq
<1>4. \A i \in 1 .. n : calls[i] # "close" /\ (calls[i] \in {"watch", "remove"} <=> i = n)
  BY DEF Closing, n
<1>5. \A i \in 1 .. Len(rest) :
          rest[i] # "close" /\ (rest[i] \in {"watch", "remove"} <=> i = Len(rest))
  <2>1. SUFFICES ASSUME NEW i \in 1 .. Len(rest)
                 PROVE  /\ rest[i] # "close"
                        /\ rest[i] \in {"watch", "remove"} <=> i = Len(rest)
    OBVIOUS
  <2>2. i + 1 \in 1 .. n /\ (i + 1 = n <=> i = Len(rest)) /\ rest[i] = calls[i + 1]
    BY <1>1, <1>2
  <2> QED
    BY <1>4, <2>2
<1>6. Closing(rest)
  BY <1>5 DEF Closing
<1>7. calls[1] # "close" /\ (calls[1] \in {"watch", "remove"} <=> n = 1)
  BY <1>2, <1>4
<1> QED
  BY <1>1, <1>2, <1>3, <1>6, <1>7 DEF n, rest

LEMMA Beginning ==
    ASSUME IInv, NEW t \in Threads, Begin(t)
    PROVE  LET l == local[t]
               m == local'[t]
               head == Head(l.calls)
           IN  /\ \/ /\ head \in {"NR", "LI", "list"} /\ m.pc = "read_lock" /\ m.target = l.uid
                     /\ UNCHANGED <<socket, watched>>
                  \/ /\ head \in Casts /\ m.pc = "cast_lock" /\ m.target = None
                     /\ UNCHANGED <<socket, watched>>
                  \/ /\ head \in {"add", "remove"} /\ m.pc = "write_lock"
                     /\ m.target = IF head = "add" THEN l.uid ELSE l.victim
                     /\ UNCHANGED <<socket, watched>>
                  \/ head = "close"
                  \/ /\ head = "watch" /\ m.pc = "next" /\ m.target = None
                     /\ watched' = watched \cup {l.uid} /\ socket' = socket
               /\ m.call = head /\ m.calls = Tail(l.calls)
               /\ m.uid = l.uid /\ m.client = l.client /\ m.victim = l.victim
               /\ m.todo = l.todo /\ m.list = l.list /\ m.late = l.late
<1> DEFINE l == local[t]
           m == local'[t]
           head == Head(l.calls)
           rest == Tail(l.calls)
           victim == IF head = "add" THEN l.uid ELSE l.victim
           Fields(pc, target) ==
               /\ m.pc = pc /\ m.call = head /\ m.calls = rest /\ m.target = target
               /\ m.uid = l.uid /\ m.client = l.client /\ m.victim = l.victim
               /\ m.todo = l.todo /\ m.list = l.list /\ m.late = l.late
<1>1. l \in Record /\ Types
  BY DEF IInv, Types
<1>2. \/ /\ head \in {"NR", "LI", "list"} /\ UNCHANGED <<socket, watched>>
         /\ m = [l EXCEPT !.pc = "read_lock", !.call = head, !.calls = rest, !.target = l.uid]
      \/ /\ head \in Casts /\ UNCHANGED <<socket, watched>>
         /\ m = [l EXCEPT !.pc = "cast_lock", !.call = head, !.calls = rest, !.target = None]
      \/ /\ head \in {"add", "remove"} /\ UNCHANGED <<socket, watched>>
         /\ m = [l EXCEPT !.pc = "write_lock", !.call = head, !.calls = rest, !.target = victim]
      \/ /\ head = "close"
         /\ m = [l EXCEPT !.pc = "next", !.call = head, !.calls = rest, !.target = None]
      \/ /\ head = "watch" /\ watched' = watched \cup {l.uid} /\ socket' = socket
         /\ m = [l EXCEPT !.pc = "next", !.call = head, !.calls = rest, !.target = None]
  BY <1>1 DEF Begin, Types
<1>3. ASSUME NEW pc, NEW target,
             m = [l EXCEPT !.pc = pc, !.call = head, !.calls = rest, !.target = target]
      PROVE  Fields(pc, target)
  <2> HIDE DEF head, rest
  <2> QED
    BY <1>1, <1>3 DEF Record
<1> HIDE DEF l, m, head, rest, victim, Fields
<1>4. \/ /\ head \in {"NR", "LI", "list"} /\ Fields("read_lock", l.uid)
         /\ UNCHANGED <<socket, watched>>
      \/ /\ head \in Casts /\ Fields("cast_lock", None)
         /\ UNCHANGED <<socket, watched>>
      \/ /\ head \in {"add", "remove"} /\ Fields("write_lock", victim)
         /\ UNCHANGED <<socket, watched>>
      \/ head = "close" /\ Fields("next", None)
      \/ /\ head = "watch" /\ Fields("next", None)
         /\ watched' = watched \cup {l.uid} /\ socket' = socket
  BY <1>2, <1>3, Zenon
<1> QED
  BY <1>4 DEF l, m, head, rest, victim, Fields

LEMMA BeginOwn ==
    ASSUME IInv, OwnInv, NEW t \in Threads, Begin(t)
    PROVE  OwnInv'
<1> DEFINE l == local[t]
           m == local'[t]
           head == Head(l.calls)
           rest == Tail(l.calls)
<1>1. /\ l \in Record /\ Types /\ ThreadInv(t) /\ HoldInv(t) /\ TablesAgree
      /\ t \in Helpers => PlanInv(t)
      /\ l.pc = "next" /\ l.calls \in Seq(Calls) /\ l.calls # <<>>
      /\ UNCHANGED <<ctbl, object>>
  BY DEF IInv, Types, Begin, Record, OwnInv
<1>2. ~Rests(t)
  BY <1>1 DEF Rests
<1>3. /\ l.uid \in Fds \ watched /\ socket[l.uid] = l.client /\ l.client \in Clients
      /\ ctbl[l.uid] = IF t = Main /\ ~Added THEN None ELSE l.client
  BY <1>1, <1>2 DEF HoldInv
<1>4. /\ \/ /\ head \in {"NR", "LI", "list"} /\ m.pc = "read_lock" /\ m.target = l.uid
            /\ UNCHANGED <<socket, watched>>
         \/ head \in Casts /\ m.pc = "cast_lock" /\ UNCHANGED <<socket, watched>>
         \/ /\ head \in {"add", "remove"} /\ m.pc = "write_lock"
            /\ m.target = IF head = "add" THEN l.uid ELSE l.victim
            /\ UNCHANGED <<socket, watched>>
         \/ head = "close"
         \/ /\ head = "watch" /\ m.pc = "next"
            /\ watched' = watched \cup {l.uid} /\ socket' = socket
      /\ m.call = head /\ m.calls = rest
      /\ m.uid = l.uid /\ m.client = l.client /\ m.victim = l.victim
  BY Beginning
<1>5. \A u \in Threads \ {t} : local'[u] = local[u]
  BY <1>1 DEF Begin, Types
<1>7. \A u \in Threads \ {t} : Alike(u)
  BY <1>5 DEF Alike
<1>8. CASE t = Main
  <2>1. l.calls = <<"add", "dispatch">> /\ head = "add" /\ rest = <<"dispatch">>
    <3>1. l.calls \in {<<"add", "dispatch">>, <<"dispatch">>}
      BY <1>1, <1>8 DEF ThreadInv, MainInv
    <3>2. head # "dispatch"
      BY <1>4 DEF Casts
    <3> QED
      BY <3>1, <3>2, Accepted
  <2>2. m.pc = "write_lock" /\ UNCHANGED <<socket, watched>>
    BY <1>4, <2>1 DEF Casts
  <2>3. ~Added /\ ~(Added')
    BY <1>8, <2>1, <2>2, Accepted DEF Added
  <2>4. t \notin Helpers
    BY <1>8, ThreadsAssumption
  <2> QED
    BY <1>1, <1>2, <1>4, <1>7, <2>2, <2>3, <2>4, Going
<1>9. CASE t # Main
  <2>1. /\ t \in Helpers /\ PlanInv(t) /\ Closing(l.calls)
        /\ \A i \in 1 .. Len(l.calls) : l.calls[i] = "remove" => l.victim = l.uid
    BY <1>1, <1>9 DEF Threads, PlanInv
  <2>2. /\ Closing(rest) /\ head # "close"
        /\ head \in {"watch", "remove"} <=> rest = <<>>
        /\ head = "remove" => l.victim = l.uid
        /\ \A i \in 1 .. Len(rest) : rest[i] = "remove" => l.victim = l.uid
    BY <1>1, <2>1, ClosingRest
  <2>3. head # "add"
    BY <1>1, <1>9, HeadTailProperties DEF ThreadInv, HelperInv, HelperCalls
  <2> HIDE DEF head, rest
  <2>4. PlanInv(t)'
    <3>1. m.pc \in Removing => rest = <<>> /\ m.target = l.uid
      BY <1>4, <2>2, <2>3 DEF Removing
    <3>2. m.pc \in Reads => rest # <<>>
      BY <1>4, <2>2 DEF Reads, Looking, Casts
    <3>3. head \in {"NR", "LI"} /\ m.pc \in Looking => m.target = l.uid
      BY <1>4, <2>2 DEF Looking, Casts
    <3> QED
      BY <1>4, <2>2, <3>1, <3>2, <3>3 DEF PlanInv
  <2>5. CASE head # "watch"
    <3>1. UNCHANGED <<socket, watched>> /\ m.pc \in {"read_lock", "cast_lock", "write_lock"}
      BY <1>4, <2>2, <2>5
    <3> QED
      BY <1>1, <1>2, <1>4, <1>7, <1>9, <2>4, <3>1, Going
  <2>6. CASE head = "watch"
    <3>1. m.pc = "next" /\ watched' = watched \cup {l.uid} /\ socket' = socket /\ rest = <<>>
      BY <1>4, <2>2, <2>6 DEF Casts
    <3>2. Rests(t)'
      BY <1>4, <3>1 DEF Rests
    <3>3. HoldInv(t)'
      BY <3>2 DEF HoldInv
    <3>4. TablesAgree'
      BY <1>1, <1>3, <1>9, <3>1, ClientsAssumption DEF TablesAgree
    <3>5. ASSUME NEW u \in Threads \ {t}, ~Rests(u)
          PROVE  local[u].uid \notin watched'
      <4>1. HoldInv(u)
        BY DEF OwnInv
      <4>2. local[u].uid \notin watched /\ l.uid # local[u].uid
        BY <1>2, <3>5, <4>1 DEF HoldInv
      <4> QED
        BY <3>1, <4>2
    <3> QED
      BY <1>1, <1>7, <2>4, <3>1, <3>2, <3>3, <3>4, <3>5, OnlyOwn
  <2> QED
    BY <2>5, <2>6
<1> QED
  BY <1>8, <1>9

LEMMA EndOwn ==
    ASSUME IInv, OwnInv, NEW t \in Threads, End(t)
    PROVE  OwnInv'
<1>1. /\ Types /\ ThreadInv(t) /\ local[t].pc = "next" /\ local[t].calls = <<>>
      /\ UNCHANGED <<ctbl, object, socket, watched>>
      /\ local' = [local EXCEPT ![t] = Idle]
  BY DEF End, IInv, data
<1>2. local'[t] = Idle /\ \A u \in Threads \ {t} : local'[u] = local[u]
  BY <1>1 DEF Types
<1>3. local'[t].pc = "idle" /\ local'[t].calls = <<>> /\ local'[t].call = None
  BY <1>2 DEF Idle
<1>4. t # Main
  <2>1. <<"add", "dispatch">> # <<>> /\ <<"dispatch">> # <<>>
    OBVIOUS
  <2> QED
    BY <1>1, <2>1 DEF ThreadInv, MainInv
<1>5. PlanInv(t)'
  BY <1>3 DEF PlanInv, Closing, Removing, Looking, Reads
<1>6. Rests(t)' /\ HoldInv(t)' /\ TablesAgree'
  BY <1>1, <1>3 DEF Rests, HoldInv, TablesAgree, OwnInv
<1>7. \A u \in Threads \ {t} : Alike(u)
  BY <1>2 DEF Alike
<1>8. \A u \in Threads \ {t} : ~Rests(u) => local[u].uid \notin watched'
  BY <1>1 DEF OwnInv, HoldInv
<1> QED
  BY <1>1, <1>5, <1>6, <1>7, <1>8, OnlyOwn

LEMMA WaitingOwn ==
    ASSUME IInv, OwnInv, NEW t \in Threads, WriteReserve(t) \/ WriteComplete(t)
    PROVE  OwnInv'
<1> DEFINE l == local[t]
           m == local'[t]
<1>1. /\ Types /\ l \in Record /\ (t \in Helpers => PlanInv(t))
      /\ l.pc \in {"write_lock", "complete"}
      /\ UNCHANGED <<ctbl, object, socket, watched>>
  BY DEF WriteReserve, WriteComplete, IInv, Types, OwnInv, data
<1>2. PICK pc \in {"complete", "write"} : local' = [local EXCEPT ![t].pc = pc]
  BY DEF WriteReserve, WriteComplete
<1>3. /\ m = [l EXCEPT !.pc = pc] /\ \A u \in Threads \ {t} : local'[u] = local[u]
  BY <1>1, <1>2 DEF Types
<1>4. /\ m.pc = pc /\ m.uid = l.uid /\ m.client = l.client /\ m.calls = l.calls
      /\ m.call = l.call /\ m.victim = l.victim /\ m.target = l.target
  BY <1>1, <1>3 DEF Record
<1>5. t \in Helpers => PlanInv(t)'
  BY <1>1, <1>4 DEF PlanInv, Removing, Looking, Reads
<1>6. ~Rests(t) /\ m.pc # "destroy" /\ l.pc # "destroy" /\ m.pc # "handshake"
      /\ (t = Main => (Added' <=> Added))
  BY <1>1, <1>4 DEF Rests, Added
<1>7. \A u \in Threads \ {t} : Alike(u)
  BY <1>3 DEF Alike
<1> QED
  BY <1>1, <1>4, <1>5, <1>6, <1>7, Going

LEMMA PlanOwn ==
    ASSUME IInv, OwnInv, NEW h \in Helpers, local[h].pc \in {"handshake", "transaction"},
           NEW calls, Closing(calls), NEW victim, Plan(h, calls, victim),
           \A i \in 1 .. Len(calls) : calls[i] = "remove" => victim = local[h].uid
    PROVE  OwnInv'
<1> DEFINE l == local[h]
           m == local'[h]
<1>1. /\ Types /\ l \in Record /\ h \in Threads /\ h # Main /\ PlanInv(h)
      /\ UNCHANGED <<ctbl, object, socket, watched>>
  BY ThreadsAssumption DEF Plan, IInv, Types, OwnInv, Threads
<1>2. /\ m = [l EXCEPT !.pc = "next", !.calls = calls, !.victim = victim]
      /\ \A u \in Threads \ {h} : local'[u] = local[u]
  BY <1>1 DEF Plan, Types
<1>3. /\ m.pc = "next" /\ m.uid = l.uid /\ m.client = l.client /\ m.calls = calls
      /\ m.call = l.call /\ m.victim = victim
  BY <1>1, <1>2 DEF Record
<1>4. PlanInv(h)'
  BY <1>3 DEF PlanInv, Removing, Looking, Reads
<1>5. ~Rests(h) /\ m.pc # "destroy" /\ l.pc # "destroy" /\ m.pc # "handshake"
  BY <1>3 DEF Rests
<1>6. \A u \in Threads \ {h} : Alike(u)
  BY <1>2 DEF Alike
<1> QED
  BY <1>1, <1>3, <1>4, <1>5, <1>6, Going

LEMMA Plans ==
    /\ \A calls \in {<<"watch">>, <<"NR", "watch">>, <<"LI", "join", "watch">>,
                     <<"list", "watch">>, <<"chat", "watch">>} :
           Closing(calls) /\ \A i \in 1 .. Len(calls) : calls[i] # "remove"
    /\ Closing(<<"part", "remove">>)
<1>1. Closing(<<"watch">>) /\ \A i \in 1 .. Len(<<"watch">>) : <<"watch">>[i] # "remove"
  BY DEF Closing
<1>2. ASSUME NEW call \in {"NR", "list", "chat"}
      PROVE  /\ Closing(<<call, "watch">>)
             /\ \A i \in 1 .. Len(<<call, "watch">>) : <<call, "watch">>[i] # "remove"
  BY DEF Closing
<1>3. /\ Closing(<<"LI", "join", "watch">>)
      /\ \A i \in 1 .. Len(<<"LI", "join", "watch">>) : <<"LI", "join", "watch">>[i] # "remove"
  BY DEF Closing
<1>4. Closing(<<"part", "remove">>)
  BY DEF Closing
<1> QED
  BY <1>1, <1>2, <1>3, <1>4

LEMMA HandshakeOwn ==
    ASSUME IInv, OwnInv, NEW h \in Helpers, Handshake(h), UNCHANGED crossed, ~crossed
    PROVE  OwnInv'
<1>1. local[h].pc = "handshake" /\ Plan(h, <<"watch">>, None)
  BY DEF Handshake
<1> QED
  BY <1>1, PlanOwn, Plans

LEMMA TransactionOwn ==
    ASSUME IInv, OwnInv, NEW h \in Helpers, Transaction(h), UNCHANGED crossed, ~crossed
    PROVE  OwnInv'
<1> DEFINE Replies == {<<"watch">>, <<"NR", "watch">>, <<"LI", "join", "watch">>,
                       <<"list", "watch">>, <<"chat", "watch">>}
<1>1. ~txn_kick_user(h)
  BY DEF txn_kick_user
<1>2. /\ local[h].pc = "transaction"
      /\ \/ \E calls \in Replies : Plan(h, calls, None)
         \/ Plan(h, <<"part", "remove">>, local[h].uid)
  BY <1>1 DEF Transaction, ht_control_disconnect, txn_login, txn_info, txn_userlist,
              txn_send_chat, Serves
<1>3. \A calls \in Replies :
          Closing(calls) /\ \A i \in 1 .. Len(calls) : calls[i] # "remove"
  BY Plans
<1> HIDE DEF Replies
<1>4. CASE \E calls \in Replies : Plan(h, calls, None)
  BY <1>2, <1>3, <1>4, PlanOwn
<1>5. CASE Plan(h, <<"part", "remove">>, local[h].uid)
  BY <1>2, <1>5, PlanOwn, Plans
<1> QED
  BY <1>2, <1>4, <1>5

(* cm_setval changes the object of the user it serves: the others' are others. *)
LEMMA UseOwn ==
    ASSUME IInv, OwnInv, NEW t \in Threads, Use(t)
    PROVE  OwnInv'
<1> DEFINE l == local[t]
           m == local'[t]
<1>1. /\ Types /\ TableInv /\ l \in Record /\ ThreadInv(t) /\ l.pc = "use"
      /\ HoldInv(t) /\ TablesAgree
      /\ UNCHANGED <<ctbl, socket, watched>>
  BY DEF Use, IInv, Types, OwnInv
<1>2. t \in Helpers /\ t # Main /\ PlanInv(t)
  BY <1>1 DEF ThreadInv, MainInv, Threads, OwnInv
<1>3. /\ m = [l EXCEPT !.pc = "read_unlock", !.o = None]
      /\ \A u \in Threads \ {t} : local'[u] = local[u]
  BY <1>1 DEF Use, Types
<1>4. /\ m.pc = "read_unlock" /\ m.uid = l.uid /\ m.client = l.client /\ m.calls = l.calls
      /\ m.call = l.call /\ m.victim = l.victim
  BY <1>1, <1>3 DEF Record
<1>5. ~Rests(t) /\ ~Rests(t)' /\ l.calls # <<>>
  BY <1>1, <1>2, <1>4 DEF Rests, PlanInv, Reads, Looking
<1>6. /\ l.uid \in Fds \ watched /\ socket[l.uid] = l.client /\ l.client \in Clients
      /\ ctbl[l.uid] = l.client
  BY <1>1, <1>2, <1>5 DEF HoldInv
<1>7. \A k \in Clients : k # l.client => object'[k] = object[k]
  <2>1. CASE l.call \in {"NR", "LI"}
    <3>1. l.target = l.uid
      BY <1>1, <1>2, <2>1 DEF PlanInv, Looking
    <3>2. l.o = l.client
      BY <1>1, <1>6, <3>1 DEF ThreadInv, FoundInv
    <3> QED
      BY <1>1, <1>6, <2>1, <3>2 DEF Use, Types
  <2>2. CASE l.call \notin {"NR", "LI"}
    BY <2>2 DEF Use
  <2> QED
    BY <2>1, <2>2
<1>8. PlanInv(t)'
  BY <1>2, <1>4, <1>5 DEF PlanInv, Removing, Looking, Reads
<1>9. \A u \in Threads \ {t} : Alike(u)
  BY <1>3 DEF Alike
<1>10. ASSUME NEW u \in Threads \ {t}, ~Rests(u)
       PROVE  /\ local[u].uid \notin watched /\ local[u].uid # l.uid
              /\ local[u].pc = "handshake" \/ (u = Main /\ Added) =>
                     object'[local[u].client] = object[local[u].client]
  <2>1. HoldInv(u)
    BY DEF OwnInv
  <2>2. /\ local[u].uid \in Fds \ watched /\ local[u].client \in Clients
        /\ local[u].uid # l.uid
    BY <1>5, <1>10, <2>1 DEF HoldInv
  <2>3. ASSUME local[u].pc = "handshake" \/ (u = Main /\ Added)
        PROVE  local[u].client # l.client
    <3>1. u = Main /\ Added => local[u].pc = "next"
      BY DEF Added
    <3>2. ctbl[local[u].uid] = local[u].client
      <4>1. local[u].pc # "destroy"
        BY <2>3, <3>1
      <4>2. CASE u = Main
        <5>1. local[u].pc # "handshake"
          BY <4>2 DEF IInv, ThreadInv, MainInv
        <5> QED
          BY <1>10, <2>1, <2>3, <4>1, <4>2, <5>1 DEF HoldInv
      <4>3. CASE u # Main
        BY <1>10, <2>1, <4>1, <4>3 DEF HoldInv
      <4> QED
        BY <4>2, <4>3
    <3> QED
      BY <1>1, <1>6, <2>2, <3>2, ClientsAssumption DEF TableInv
  <2> QED
    BY <1>7, <2>2, <2>3
<1>11. HoldInv(t)'
  <2>1. ASSUME NEW u \in Threads \ {t}, ~Rests(u)' PROVE local'[u].uid # l.uid
    <3>1. Alike(u) /\ (Rests(u)' <=> Rests(u))
      BY <1>9, AlikeRests
    <3> QED
      BY <1>10, <2>1, <3>1 DEF Alike
  <2> QED
    BY <1>1, <1>2, <1>4, <1>6, <2>1 DEF HoldInv
<1>12. TablesAgree'
  BY <1>1 DEF TablesAgree
<1> QED
  BY <1>1, <1>4, <1>8, <1>9, <1>10, <1>11, <1>12, OnlyOwn

(* cm_add: nobody else has the number, or an object that is not allocated yet. *)
LEMMA AddOwn ==
    ASSUME IInv, OwnInv, NEW t \in Threads, Add(t)
    PROVE  OwnInv'
<1> DEFINE l == local[t]
           m == local'[t]
<1>1. /\ Types /\ l \in Record /\ ThreadInv(t) /\ HoldInv(t) /\ TablesAgree
      /\ l.pc = "write" /\ t = Main /\ t \notin Helpers
      /\ UNCHANGED <<socket, watched>>
  BY ThreadsAssumption DEF Add, IInv, Types, OwnInv
<1>2. l.client \in Clients /\ object[l.client] = "none" /\ l.calls = <<"dispatch">>
  BY <1>1 DEF ThreadInv, MainInv
<1>3. /\ m = [l EXCEPT !.pc = "next", !.target = None]
      /\ \A u \in Threads \ {t} : local'[u] = local[u]
  BY <1>1 DEF Add, Types
<1>4. /\ m.pc = "next" /\ m.uid = l.uid /\ m.client = l.client /\ m.calls = l.calls
  BY <1>1, <1>3 DEF Record
<1>5. ~Rests(t) /\ ~Rests(t)' /\ ~Added /\ Added'
  <2>1. <<"dispatch">> # <<>>
    OBVIOUS
  <2> QED
    BY <1>1, <1>2, <1>4, <2>1 DEF Rests, Added
<1>6. /\ l.uid \in Fds \ watched /\ socket[l.uid] = l.client /\ ctbl[l.uid] = None
      /\ \A u \in Threads \ {t} : ~Rests(u) => local[u].uid # l.uid
  BY <1>1, <1>5 DEF HoldInv
<1>7. /\ object'[l.client] = "NL"
      /\ \A k \in Clients \ {l.client} : object'[k] = object[k]
      /\ ctbl'[l.uid] = l.client
      /\ \A f \in Fds \ {l.uid} : ctbl'[f] = ctbl[f]
  BY <1>1, <1>2, <1>6 DEF Add, Types
<1>8. \A u \in Threads \ {t} : Alike(u)
  BY <1>3 DEF Alike
<1>9. HoldInv(t)'
  <2>1. ASSUME NEW u \in Threads \ {t}, ~Rests(u)' PROVE local'[u].uid # l.uid
    BY <1>3, <1>6, <2>1 DEF Rests
  <2>2. m.pc # "destroy"
    BY <1>4
  <2> QED
    BY <1>1, <1>2, <1>4, <1>5, <1>6, <1>7, <2>1, <2>2 DEF HoldInv
<1>10. TablesAgree'
  BY <1>1, <1>6, <1>7, ClientsAssumption DEF TablesAgree, Types
<1>11. ASSUME NEW u \in Threads \ {t}, ~Rests(u)
       PROVE  /\ local[u].uid \in Fds \ {l.uid} /\ local[u].uid \notin watched
              /\ local[u].pc = "handshake" =>
                     object'[local[u].client] = object[local[u].client]
  <2>1. HoldInv(u)
    BY DEF OwnInv
  <2>2. /\ local[u].uid \in Fds \ watched /\ local[u].client \in Clients
        /\ local[u].pc = "handshake" => object[local[u].client] = "NL"
    BY <1>11, <2>1 DEF HoldInv
  <2> QED
    BY <1>2, <1>6, <1>7, <1>11, <2>2
<1> QED
  BY <1>1, <1>4, <1>7, <1>8, <1>9, <1>10, <1>11, OnlyOwn

(* cm_remove: the user is the thread's own, and is in the table.               *)
LEMMA RemoveOwn ==
    ASSUME IInv, OwnInv, NEW t \in Threads, Remove(t)
    PROVE  OwnInv'
<1> DEFINE l == local[t]
           m == local'[t]
<1>1. /\ Types /\ l \in Record /\ HoldInv(t) /\ TablesAgree /\ l.pc = "write"
      /\ t # Main /\ t \in Helpers /\ PlanInv(t)
      /\ UNCHANGED <<object, socket, watched>>
  BY DEF Remove, IInv, Types, OwnInv, Threads
<1>2. l.calls = <<>> /\ l.target = l.uid /\ ~Rests(t)
  BY <1>1 DEF PlanInv, Removing, Rests
<1>3. /\ l.uid \in Fds \ watched /\ l.client \in Clients
      /\ socket[l.uid] = l.client /\ ctbl[l.uid] = l.client
      /\ \A u \in Threads \ {t} : ~Rests(u) => local[u].uid # l.uid
  BY <1>1, <1>2 DEF HoldInv
<1>4. l.client # None
  BY <1>3, ClientsAssumption
<1>5. /\ m = [l EXCEPT !.pc = "destroy", !.o = l.client]
      /\ \A u \in Threads \ {t} : local'[u] = local[u]
      /\ ctbl' = [ctbl EXCEPT ![l.uid] = None]
  BY <1>1, <1>2, <1>3, <1>4 DEF Remove, Types
<1>6. /\ m.pc = "destroy" /\ m.uid = l.uid /\ m.client = l.client /\ m.calls = l.calls
      /\ m.call = l.call /\ m.victim = l.victim /\ m.target = l.target
  BY <1>1, <1>5 DEF Record
<1>7. ctbl'[l.uid] = None /\ \A f \in Fds \ {l.uid} : ctbl'[f] = ctbl[f]
  BY <1>1, <1>3, <1>5 DEF Types
<1>8. \A u \in Threads \ {t} : Alike(u)
  BY <1>5 DEF Alike
<1>9. HoldInv(t)'
  <2>1. ASSUME NEW u \in Threads \ {t}, ~Rests(u)' PROVE local'[u].uid # l.uid
    BY <1>3, <1>5, <2>1 DEF Rests
  <2> QED
    BY <1>1, <1>3, <1>6, <1>7, <2>1 DEF HoldInv
<1>10. PlanInv(t)'
  BY <1>1, <1>6 DEF PlanInv, Removing, Looking, Reads
<1>11. TablesAgree'
  BY <1>1, <1>3, <1>7, ClientsAssumption DEF TablesAgree, Types
<1>12. ASSUME NEW u \in Threads \ {t}, ~Rests(u)
       PROVE  local[u].uid \in Fds \ {l.uid} /\ local[u].uid \notin watched
  BY <1>3, <1>12 DEF OwnInv, HoldInv
<1> QED
  BY <1>1, <1>6, <1>7, <1>8, <1>9, <1>10, <1>11, <1>12, OnlyOwn

(* The end of cm_remove: the number is given up, and the object that is freed  *)
(* is not in the table.                                                        *)
LEMMA DestroyOwn ==
    ASSUME IInv, OwnInv, NEW t \in Threads, Destroy(t)
    PROVE  OwnInv'
<1> DEFINE l == local[t]
           m == local'[t]
<1>1. /\ Types /\ l \in Record /\ HoldInv(t) /\ TablesAgree /\ ThreadInv(t)
      /\ l.pc = "destroy"
      /\ UNCHANGED <<ctbl, watched>>
  BY DEF Destroy, IInv, Types, OwnInv
<1>2. t # Main /\ t \in Helpers /\ PlanInv(t)
  BY <1>1 DEF ThreadInv, MainInv, Threads, OwnInv
<1>3. l.calls = <<>> /\ l.target = l.uid /\ ~Rests(t)
  BY <1>1, <1>2 DEF PlanInv, Removing, Rests
<1>4. /\ l.uid \in Fds \ watched /\ l.client \in Clients /\ ctbl[l.uid] = None
      /\ \A u \in Threads \ {t} : ~Rests(u) => local[u].uid # l.uid
  BY <1>1, <1>3 DEF HoldInv
<1>5. l.o \in Clients /\ \A f \in Fds : ctbl[f] # l.o
  BY <1>1 DEF ThreadInv, TakenInv
<1>6. /\ m = [l EXCEPT !.pc = "next", !.o = None, !.target = None]
      /\ \A u \in Threads \ {t} : local'[u] = local[u]
      /\ object' = [object EXCEPT ![l.o] = "freed"]
      /\ socket' = [socket EXCEPT ![l.uid] = None]
  BY <1>1, <1>3 DEF Destroy, Types
<1>7. m.pc = "next" /\ m.calls = <<>>
  BY <1>1, <1>3, <1>6 DEF Record
<1>8. /\ socket'[l.uid] = None /\ \A f \in Fds \ {l.uid} : socket'[f] = socket[f]
      /\ \A k \in Clients \ {l.o} : object'[k] = object[k]
  BY <1>1, <1>4, <1>5, <1>6 DEF Types
<1>9. Rests(t)' /\ HoldInv(t)'
  BY <1>7 DEF Rests, HoldInv
<1>10. PlanInv(t)'
  BY <1>7 DEF PlanInv, Closing, Removing, Looking, Reads
<1>11. TablesAgree'
  BY <1>1, <1>4, <1>8 DEF TablesAgree, Types
<1>12. \A u \in Threads \ {t} : Alike(u)
  BY <1>6 DEF Alike
<1>13. ASSUME NEW u \in Threads \ {t}, ~Rests(u)
       PROVE  /\ local[u].uid \in Fds \ {l.uid} /\ local[u].uid \notin watched
              /\ local[u].pc = "handshake" \/ (u = Main /\ Added) =>
                     object'[local[u].client] = object[local[u].client]
  <2>1. HoldInv(u)
    BY DEF OwnInv
  <2>2. /\ local[u].uid \in Fds \ watched /\ local[u].client \in Clients
        /\ local[u].uid # l.uid
    BY <1>4, <1>13, <2>1 DEF HoldInv
  <2>3. ASSUME local[u].pc = "handshake" \/ (u = Main /\ Added)
        PROVE  ctbl[local[u].uid] = local[u].client
    <3>1. u = Main /\ Added => local[u].pc = "next"
      BY DEF Added
    <3>2. u = Main => local[u].pc # "handshake"
      BY DEF IInv, ThreadInv, MainInv
    <3> QED
      BY <1>13, <2>1, <2>3, <3>1, <3>2 DEF HoldInv
  <2> QED
    BY <1>5, <1>8, <2>2, <2>3
<1> QED
  BY <1>1, <1>8, <1>9, <1>10, <1>11, <1>12, <1>13, OnlyOwn

(* A number that is free is nobody's, in the table or out of it.               *)
LEMMA AcceptOwn ==
    ASSUME IInv, OwnInv, NEW f \in Fds, NEW k \in Clients, Accept(f, k)
    PROVE  OwnInv'
<1> DEFINE r == Serve("next", f, k)
           m == local'[Main]
<1>1. /\ Types /\ TablesAgree /\ Main \in Threads /\ Main \notin Helpers
      /\ local[Main].pc = "idle" /\ socket[f] = None
      /\ UNCHANGED <<ctbl, object, watched>>
      /\ socket' = [socket EXCEPT ![f] = k]
  BY ThreadsAssumption DEF Accept, IInv, Threads, OwnInv
<1>2. ctbl[f] = None /\ f \notin watched
  BY <1>1 DEF TablesAgree
<1>3. socket'[f] = k /\ \A g \in Fds \ {f} : socket'[g] = socket[g]
  BY <1>1 DEF Types
<1>4. r \in Record
  <2>1. "next" \in PCs /\ k \in Clients \cup {None}
    BY DEF PCs
  <2> QED
    BY <2>1, Served
<1>5. r.uid = f /\ r.client = k /\ r.pc = "next"
  <2>1. "next" \in PCs /\ k \in Clients \cup {None}
    BY DEF PCs
  <2> QED
    BY <2>1, Served
<1>6. m = [r EXCEPT !.calls = <<"add", "dispatch">>]
      /\ \A u \in Threads \ {Main} : local'[u] = local[u]
  BY <1>1 DEF Accept, Types
<1>7. m.pc = "next" /\ m.uid = f /\ m.client = k /\ m.calls = <<"add", "dispatch">>
  BY <1>4, <1>5, <1>6 DEF Record
<1>8. ~(Added')
  BY <1>7, Accepted DEF Added
<1>9. \A u \in Threads \ {Main} : Alike(u)
  BY <1>6 DEF Alike
<1>10. ASSUME NEW u \in Threads \ {Main}, ~Rests(u)
       PROVE  local[u].uid \in Fds \ {f} /\ local[u].uid \notin watched
  <2>1. HoldInv(u)
    BY DEF OwnInv
  <2> QED
    BY <1>1, <1>10, <2>1, ClientsAssumption DEF HoldInv
<1>11. HoldInv(Main)'
  <2>1. ASSUME NEW u \in Threads \ {Main}, ~Rests(u)' PROVE local'[u].uid # f
    BY <1>6, <1>10, <2>1 DEF Rests
  <2>2. m.pc # "handshake"
    BY <1>7
  <2> QED
    BY <1>1, <1>2, <1>3, <1>7, <1>8, <2>1, <2>2 DEF HoldInv
<1>12. TablesAgree'
  BY <1>1, <1>2, <1>3 DEF TablesAgree
<1> QED
  BY <1>1, <1>3, <1>7, <1>9, <1>10, <1>11, <1>12, OnlyOwn

(* A watched user is in the table under its own number, and nobody serves it.  *)
LEMMA DispatchTransactionOwn ==
    ASSUME IInv, OwnInv, NEW h \in Helpers, NEW f \in Fds, DispatchTransaction(h, f)
    PROVE  OwnInv'
<1> DEFINE r == Serve("transaction", f, socket[f])
           m == local'[h]
<1>1. /\ Types /\ TablesAgree /\ h \in Threads /\ h # Main
      /\ f \in watched /\ watched' = watched \ {f}
      /\ UNCHANGED <<ctbl, object, socket>>
  BY ThreadsAssumption DEF DispatchTransaction, IInv, Threads, OwnInv
<1>2. ctbl[f] # None /\ ctbl[f] = socket[f] /\ socket[f] \in Clients
  BY <1>1 DEF TablesAgree, Types
<1>3. /\ r \in Record /\ r.pc = "transaction" /\ r.uid = f /\ r.client = socket[f]
      /\ r.calls = <<>>
  <2>1. "transaction" \in PCs /\ socket[f] \in Clients \cup {None}
    BY <1>2 DEF PCs
  <2> QED
    BY <2>1, Served
<1>4. m = r /\ \A u \in Threads \ {h} : local'[u] = local[u]
  BY <1>1 DEF DispatchTransaction, Types
<1>5. \A u \in Threads \ {h} : Alike(u)
  BY <1>4 DEF Alike
<1>6. ASSUME NEW u \in Threads \ {h}, ~Rests(u)
      PROVE  local[u].uid # f /\ local[u].uid \notin watched'
  BY <1>1, <1>6 DEF OwnInv, HoldInv
<1> HIDE DEF r
<1>7. HoldInv(h)'
  <2>1. ASSUME NEW u \in Threads \ {h}, ~Rests(u)' PROVE local'[u].uid # f
    BY <1>4, <1>6, <2>1 DEF Rests
  <2>2. m.pc = "transaction" /\ m.uid = f /\ m.client = socket[f]
    BY <1>3, <1>4
  <2> QED
    BY <1>1, <1>2, <2>1, <2>2 DEF HoldInv
<1>8. PlanInv(h)'
  BY <1>3, <1>4 DEF PlanInv, Closing, Removing, Looking, Reads
<1>9. TablesAgree'
  BY <1>1 DEF TablesAgree
<1> QED
  BY <1>1, <1>3, <1>4, <1>5, <1>6, <1>7, <1>8, <1>9, OnlyOwn

(* The main thread hands the user it has added over to a helper.               *)
LEMMA DispatchConnectOwn ==
    ASSUME IInv, OwnInv, NEW h \in Helpers, DispatchConnect(h)
    PROVE  OwnInv'
<1> DEFINE l == local[Main]
           r == Serve("handshake", l.uid, l.client)
<1>1. /\ Types /\ ThreadInv(Main) /\ HoldInv(Main) /\ TablesAgree
      /\ h \in Threads /\ h # Main /\ Main \in Threads /\ Main \notin Helpers
      /\ l.pc = "next" /\ l.calls # <<>> /\ Head(l.calls) = "dispatch"
      /\ local[h].pc = "idle"
      /\ UNCHANGED <<ctbl, object, socket, watched>>
  BY ThreadsAssumption DEF DispatchConnect, IInv, Threads, data, OwnInv
<1>2. l.uid \in Fds /\ l.client \in Clients /\ Added
  BY <1>1, Accepted DEF ThreadInv, MainInv, Added
<1>3. /\ ~Rests(Main) /\ l.uid \notin watched /\ socket[l.uid] = l.client
      /\ ctbl[l.uid] = l.client /\ object[l.client] = "NL"
      /\ \A u \in Threads \ {Main} : ~Rests(u) => local[u].uid # l.uid
  BY <1>1, <1>2 DEF HoldInv, Rests
<1>4. /\ r.pc = "handshake" /\ r.uid = l.uid /\ r.client = l.client /\ r.calls = <<>>
  <2>1. "handshake" \in PCs /\ l.client \in Clients \cup {None}
    BY <1>2 DEF PCs
  <2> QED
    BY <1>2, <2>1, Served
<1>5. /\ local'[h] = r /\ local'[Main] = Idle
      /\ \A u \in Threads \ {h, Main} : local'[u] = local[u]
  BY <1>1 DEF DispatchConnect, Types
<1>6. Rests(Main)' /\ HoldInv(Main)'
  <2>1. local'[Main].pc = "idle"
    BY <1>5, IdleRecord
  <2> QED
    BY <2>1 DEF Rests, HoldInv
<1> HIDE DEF r
<1>7. HoldInv(h)'
  <2>1. ASSUME NEW u \in Threads \ {h}, ~Rests(u)' PROVE local'[u].uid # l.uid
    <3>1. u # Main
      BY <1>6, <2>1
    <3> QED
      BY <1>3, <1>5, <2>1, <3>1 DEF Rests
  <2>2. local'[h].pc = "handshake" /\ local'[h].uid = l.uid /\ local'[h].client = l.client
    BY <1>4, <1>5
  <2> QED
    BY <1>1, <1>2, <1>3, <2>1, <2>2 DEF HoldInv
<1>8. ASSUME NEW u \in Threads \ {h, Main} PROVE HoldInv(u)'
  <2>1. HoldInv(u) /\ local'[u] = local[u] /\ (Rests(u)' <=> Rests(u))
    BY <1>5 DEF OwnInv, Rests
  <2>2. ASSUME ~Rests(u), NEW v \in Threads \ {u}, ~Rests(v)'
        PROVE  local'[v].uid # local[u].uid
    <3>1. CASE v = h
      BY <1>3, <1>4, <1>5, <2>2, <3>1
    <3>2. CASE v = Main
      BY <1>6, <2>2, <3>2
    <3>3. CASE v \notin {h, Main}
      BY <1>5, <2>1, <2>2, <3>3 DEF HoldInv, Rests
    <3> QED
      BY <3>1, <3>2, <3>3
  <2> QED
    BY <1>1, <1>8, <2>1, <2>2 DEF HoldInv
<1>9. ASSUME NEW g \in Helpers PROVE PlanInv(g)'
  <2>1. CASE g = h
    BY <1>4, <1>5, <2>1 DEF PlanInv, Closing, Removing, Looking, Reads
  <2>2. CASE g # h
    <3>1. local'[g] = local[g] /\ PlanInv(g)
      BY <1>1, <1>5, <2>2 DEF OwnInv, Threads
    <3> QED
      BY <3>1 DEF PlanInv
  <2> QED
    BY <2>1, <2>2
<1>10. TablesAgree'
  BY <1>1 DEF TablesAgree
<1> QED
  BY <1>6, <1>7, <1>8, <1>9, <1>10 DEF OwnInv

LEMMA NotYet ==
    ASSUME Next, ~(crossed')
    PROVE  UNCHANGED crossed
<1>1. ASSUME NEW f \in Fds, NEW k \in Clients, Accept(f, k) PROVE UNCHANGED crossed
  BY <1>1 DEF Accept
<1>2. ASSUME NEW h \in Helpers,
             \/ DispatchConnect(h) \/ Handshake(h) \/ Transaction(h)
             \/ \E f \in Fds : DispatchTransaction(h, f)
      PROVE  UNCHANGED crossed
  BY <1>2 DEF DispatchConnect, data, Handshake, DispatchTransaction, Transaction,
              ht_control_disconnect, txn_login, txn_info, txn_userlist, txn_send_chat,
              txn_kick_user
<1>3. ASSUME NEW t \in Threads, Step(t) PROVE UNCHANGED crossed
  <2>1. CASE Begin(t)
    BY <2>1 DEF Begin
  <2>2. CASE ListReply(t)
    BY <2>2 DEF ListReply
  <2>3. CASE CastWrite(t)
    BY <2>3 DEF CastWrite
  <2>4. CASE ReadLock(t) \/ CastLock(t)
    BY <2>4 DEF ReadLock, CastLock, rcl_read_lock, data
  <2>5. CASE End(t) \/ Look(t) \/ Use(t) \/ ReadUnlock(t)
    BY <2>5 DEF End, Look, Use, ReadUnlock, data
  <2>6. CASE ListBegin(t) \/ ListEnd(t) \/ CastEnd(t)
    BY <2>6 DEF ListBegin, ListEnd, CastEnd, data
  <2>7. CASE \E u \in Fds : CastTo(t, u) \/ ListUser(t, u)
    BY <2>7 DEF CastTo, ListUser, data
  <2>8. CASE WriteReserve(t) \/ WriteComplete(t) \/ Add(t) \/ Remove(t) \/ Destroy(t)
    BY <2>8 DEF WriteReserve, WriteComplete, Add, Remove, Destroy, data
  <2> QED
    BY <1>3, <2>1, <2>2, <2>3, <2>4, <2>5, <2>6, <2>7, <2>8 DEF Step
<1> QED
  BY <1>1, <1>2, <1>3 DEF Next

LEMMA StepOwn ==
    ASSUME IInv, ~crossed => OwnInv, Next, ~(crossed')
    PROVE  OwnInv'
<1>0. UNCHANGED crossed /\ ~crossed /\ OwnInv
  BY NotYet
<1>1. ASSUME NEW f \in Fds, NEW k \in Clients, Accept(f, k) PROVE OwnInv'
  BY <1>0, <1>1, AcceptOwn
<1>2. ASSUME NEW h \in Helpers,
             \/ DispatchConnect(h) \/ Handshake(h) \/ Transaction(h)
             \/ \E f \in Fds : DispatchTransaction(h, f)
      PROVE  OwnInv'
  BY <1>0, <1>2, DispatchConnectOwn, HandshakeOwn, TransactionOwn, DispatchTransactionOwn
<1>3. ASSUME NEW t \in Threads, Step(t) PROVE OwnInv'
  <2>1. CASE Begin(t) \/ End(t)
    BY <1>0, <2>1, BeginOwn, EndOwn
  <2>2. CASE \/ ReadLock(t) \/ Look(t) \/ ReadUnlock(t)
             \/ ListBegin(t) \/ ListEnd(t) \/ ListReply(t)
             \/ CastLock(t) \/ CastEnd(t)
    <3>1. Goes(t)
      BY <2>2, GoingOn
    <3> QED
      BY <1>0, <3>1, GoesOwn
  <2>3. CASE CastWrite(t) \/ \E u \in Fds : CastTo(t, u) \/ ListUser(t, u)
    <3>1. Goes(t)
      BY <2>3, WritingTo, Casting, ListingOne
    <3> QED
      BY <1>0, <3>1, GoesOwn
  <2>4. CASE Use(t) \/ WriteReserve(t) \/ WriteComplete(t)
    BY <1>0, <2>4, UseOwn, WaitingOwn
  <2>5. CASE Add(t) \/ Remove(t) \/ Destroy(t)
    BY <1>0, <2>5, AddOwn, RemoveOwn, DestroyOwn
  <2> QED
    BY <1>3, <2>1, <2>2, <2>3, <2>4, <2>5 DEF Step
<1> QED
  BY <1>1, <1>2, <1>3 DEF Next

LEMMA StutterOwn ==
    ASSUME ~crossed => OwnInv, UNCHANGED vars
    PROVE  ~(crossed') => OwnInv'
<1>1. UNCHANGED <<ctbl, object, socket, watched, crossed, local>>
  BY DEF vars, data
<1> QED
  BY <1>1 DEF OwnInv, TablesAgree, HoldInv, PlanInv, Rests, Added

LEMMA OwnInvOwnConnection ==
    ASSUME IInv, ~crossed => OwnInv
    PROVE  OwnConnection
<1>1. ASSUME ~crossed, NEW h \in Helpers,
             local[h].pc \in {"handshake", "transaction", "read_lock", "look", "use", "cast"}
      PROVE  /\ socket[local[h].uid] = local[h].client
             /\ ctbl[local[h].uid] = local[h].client
             /\ local[h].pc = "handshake" => object[local[h].client] = "NL"
  <2>1. h \in Threads /\ h # Main
    BY ThreadsAssumption DEF Threads
  <2>2. HoldInv(h) /\ ~Rests(h) /\ local[h].pc # "destroy"
    BY <1>1, <2>1 DEF OwnInv, Rests
  <2> QED
    BY <2>1, <2>2 DEF HoldInv
<1> QED
  BY <1>1 DEF OwnConnection
-----------------------------------------------------------------------------
(* Through every order of logins, broadcasts, lists, disconnects and reused    *)
(* numbers, up to the first kick or failed handshake: a helper has its client  *)
(* under the number it was dispatched with, in the table and on the socket,    *)
(* until it lets go of it, and a handshake meets a user who has not logged in. *)
THEOREM ServedAreOwn == Spec => []OwnConnection
<1>1. Init => IInv /\ (~crossed => OwnInv)
  BY InitIInv, InitOwn
<1>2. IInv /\ (~crossed => OwnInv) /\ [Next]_vars => IInv' /\ (~crossed => OwnInv)'
  BY StepIInv, StutterIInv, StepOwn, StutterOwn
<1>3. IInv /\ (~crossed => OwnInv) => OwnConnection
  BY OwnInvOwnConnection
<1> QED
  BY <1>1, <1>2, <1>3, PTL DEF Spec

-----------------------------------------------------------------------------
(* What the clients know of the users, up to the first kick or failed          *)
(* handshake.                                                                  *)

(* The calls that are left after one, and those that a transaction plans.      *)
Left(call) == CASE call = "LI" -> <<"join", "watch">>
                [] call = "part" -> <<"remove">>
                [] call \in {"watch", "remove"} -> <<>>
                [] OTHER -> <<"watch">>
Scripts == {<<"watch">>, <<"NR", "watch">>, <<"LI", "join", "watch">>, <<"list", "watch">>,
          <<"chat", "watch">>, <<"part", "remove">>}
Making == {"list", "read_unlock", "reply"}

ScriptInv(h) ==
    LET l == local[h] IN
    /\ l.pc \in {"idle", "handshake", "transaction"} =>
           l.call = None /\ l.calls = <<>> /\ l.victim = None
    /\ l.call = None => l.calls = <<>> \/ l.calls \in Scripts
    /\ l.call # None => l.calls = Left(l.call)
    /\ l.victim = IF l.call \in {"part", "remove"} \/ l.calls = <<"part", "remove">>
                  THEN l.uid ELSE None
    /\ l.pc \in Removing => l.call = "remove"
    /\ l.pc = "reply" => l.call = "list"
    /\ l.pc = "use" => l.call # "list"
    /\ l.call \in Casts /\ l.pc \in {"cast_lock", "cast", "next"} => l.target = None
    /\ l.call \in Casts /\ l.pc = "read_unlock" /\ rc[h] = 1 => l.target = None
    /\ l.pc = "read_unlock" /\ rc[h] = 2 => l.target \in Fds
    /\ l.list # {} => l.call = "list" /\ l.pc \in Making
    /\ l.list \cap l.todo = {}

(* Who is announced can be listed, and who is to log in has not.               *)
StateInv(h) ==
    LET l == local[h] IN
    /\ l.call = "join" \/ (l.call = "LI" /\ l.pc \in {"read_unlock", "next"}) =>
           object[l.client] = "LI"
    /\ l.calls = <<"NR", "watch">> \/ (l.call = "NR" /\ l.pc \in Looking) =>
           object[l.client] = "NL"

(* Helper h has still to tell user f that u is there; it has taken leave of u  *)
(* and has yet to take him out of the table; and f has heard of that.          *)
Waits(h, f) == local[h].pc = "cast_lock" \/ f \in local[h].todo \/ local[h].target = f
Announces(h, u, f) == /\ local[h].uid = u
                      /\ local[h].call = "LI" \/ (local[h].call = "join" /\ Waits(h, f))
Departs(h, u) == /\ local[h].victim = u
                 /\ \/ local[h].call = "part"
                    \/ local[h].call = "remove" /\ local[h].pc \in {"write_lock", "complete", "write"}
Told(h, u, f) == Departs(h, u) /\ ~(local[h].call = "part" /\ Waits(h, f))

Excused(u, f) == \E h \in Helpers : Announces(h, u, f) \/ Departs(h, u)
Parted(u, f) == f # u /\ \E h \in Helpers : Told(h, u, f)

(* The list that helper h makes is for f, and will count.                      *)
Counts(h, f) == /\ local[h].call = "list" /\ local[h].pc \in Making
                /\ local[h].uid = f /\ ~local[h].late /\ LoggedIn(f)

ViewsInv == \A f, u \in Fds : Trusts(f) =>
    /\ (u \in view[socket[f]] <=> Listed(u)) \/ Excused(u, f)
    /\ Parted(u, f) => u \notin view[socket[f]]
ListsInv == \A h \in Helpers, f \in Fds : Counts(h, f) => \A u \in Fds \ local[h].todo :
    /\ (u \in local[h].list <=> Listed(u)) \/ Excused(u, f)
    /\ Parted(u, f) => u \notin local[h].list

SocketsDiffer == \A f, g \in Fds : f # g /\ socket[f] # None => socket[f] # socket[g]
ClientsInv == /\ view \in [Clients -> SUBSET Fds] /\ fresh \in [Clients -> BOOLEAN]
              /\ \A k \in Clients : fresh[k] => object[k] \in {"NR", "LI"}

KnowInv == /\ \A h \in Helpers : ScriptInv(h) /\ StateInv(h)
           /\ SocketsDiffer /\ ClientsInv /\ ViewsInv /\ ListsInv

LEMMA InitKnow == Init => KnowInv
<1> SUFFICES ASSUME Init PROVE KnowInv
  OBVIOUS
<1>1. ASSUME NEW h \in Helpers
      PROVE  /\ local[h].pc = "idle" /\ local[h].calls = <<>> /\ local[h].call = None
             /\ local[h].victim = None /\ local[h].list = {} /\ local[h].todo = {}
  BY DEF Init, Idle, Threads
<1>2. ASSUME NEW h \in Helpers PROVE ScriptInv(h) /\ StateInv(h)
  <2>1. None \notin {"LI", "join", "NR", "part", "remove", "list"} \cup Casts
    BY NoneAssumption DEF Calls, Casts
  <2>2. <<>> # <<"NR", "watch">>
    OBVIOUS
  <2>3. StateInv(h)
    BY <1>1, <2>1, <2>2 DEF StateInv, Looking
  <2>4. ScriptInv(h)
    BY <1>1, <2>1 DEF ScriptInv, Removing
  <2> QED
    BY <2>3, <2>4
<1>3. SocketsDiffer /\ ClientsInv
  BY DEF Init, SocketsDiffer, ClientsInv
<1>4. ViewsInv
  BY DEF Init, ViewsInv, Trusts
<1>5. ListsInv
  <2>1. ASSUME NEW h \in Helpers, NEW f \in Fds PROVE ~Counts(h, f)
    BY <1>1 DEF Counts, Making
  <2> QED
    BY <2>1 DEF ListsInv
<1> QED
  BY <1>2, <1>3, <1>4, <1>5 DEF KnowInv

(* A helper that serves has its client's object, and another helper another's. *)
LEMMA Served2 ==
    ASSUME IInv, OwnInv, NEW h \in Helpers, ~Rests(h), local[h].pc # "destroy"
    PROVE  LET l == local[h] IN
           /\ l.uid \in Fds /\ l.client \in Clients /\ l.client # None
           /\ ctbl[l.uid] = l.client /\ socket[l.uid] = l.client
           /\ object[l.client] \in Live
           /\ \A u \in Threads \ {h} : ~Rests(u) => local[u].uid # l.uid
<1>1. h \in Threads /\ h # Main /\ HoldInv(h) /\ TableInv
  BY ThreadsAssumption DEF Threads, OwnInv, IInv
<1> QED
  BY <1>1, ClientsAssumption DEF HoldInv, TableInv

LEMMA Scripted ==
    ASSUME NEW h \in Helpers, ScriptInv(h)
    PROVE  LET l == local[h] IN
           /\ l.call \in {"LI", "join", "part", "list", "NR", "chat"} => l.calls # <<>> /\ ~Rests(h)
           /\ l.calls # <<>> => ~Rests(h)
           /\ l.pc \in Removing => ~Rests(h)
<1> DEFINE l == local[h]
<1>1. \A call \in {"LI", "join", "part", "list", "NR", "chat"} : Left(call) # <<>>
  BY DEF Left
<1>2. l.call \in {"LI", "join", "part", "list", "NR", "chat"} => l.calls # <<>>
  BY <1>1, NoneAssumption DEF ScriptInv, Calls, Casts
<1>3. l.calls # <<>> => ~Rests(h)
  BY DEF ScriptInv, Rests
<1>4. l.pc \in Removing => ~Rests(h)
  BY DEF Rests, Removing
<1> QED
  BY <1>2, <1>3, <1>4

LEMMA OtherScript ==
    ASSUME IInv, OwnInv, NEW u \in Helpers, ScriptInv(u), StateInv(u), Same(u),
           local'[u].list = local[u].list,
           ~Rests(u) /\ local[u].pc # "destroy" =>
               object'[local[u].client] = object[local[u].client]
    PROVE  ScriptInv(u)' /\ StateInv(u)'
<1> DEFINE l == local[u]
<1>1. ScriptInv(u)'
  BY DEF ScriptInv, Same
<1>2. ASSUME l.call \in {"join", "LI", "NR"} \/ l.calls = <<"NR", "watch">>
      PROVE  ~Rests(u) /\ l.pc # "destroy"
  <2>1. <<"NR", "watch">> # <<>>
    OBVIOUS
  <2>2. l.pc = "destroy" => l.call = "remove" /\ l.calls = Left("remove")
    BY NoneAssumption DEF ScriptInv, Removing, Calls
  <2>3. Left("remove") = <<>>
    BY DEF Left
  <2> QED
    BY <1>2, <2>1, <2>2, <2>3, Scripted
<1>3. StateInv(u)'
  BY <1>2 DEF StateInv, Same
<1> QED
  BY <1>1, <1>3

(* What helper h owes, and what it has told, to those whom it may concern.     *)
Constant(h) == \A f, u \in Fds : LoggedIn(f) =>
    /\ Announces(h, u, f) => Announces(h, u, f)'
    /\ Departs(h, u) => Departs(h, u)'
    /\ f # u /\ Told(h, u, f)' => Told(h, u, f)

(* A list that goes on where it was.                                           *)
Resumed(h) == /\ local[h].call = "list" /\ local[h].pc \in Making
              /\ local'[h].uid = local[h].uid /\ local'[h].late = local[h].late
              /\ local'[h].list = local[h].list /\ local'[h].todo = local[h].todo

(* A list that adds up.                                                        *)
Makes(h) == \A f \in Fds : Counts(h, f)' => \A u \in Fds \ local'[h].todo :
    /\ (u \in local'[h].list <=> Listed(u)) \/ Excused(u, f)
    /\ Parted(u, f) => u \notin local'[h].list

LEMMA Resuming ==
    ASSUME KnowInv, NEW h \in Helpers, UNCHANGED <<ctbl, object>>,
           local'[h].call = "list" /\ local'[h].pc \in Making => Resumed(h)
    PROVE  Makes(h)
<1>1. ASSUME NEW f \in Fds, Counts(h, f)'
      PROVE  /\ Counts(h, f) /\ local'[h].list = local[h].list
             /\ local'[h].todo = local[h].todo
  <2>1. LoggedIn(f)' <=> LoggedIn(f)
    BY DEF LoggedIn
  <2> QED
    BY <1>1, <2>1 DEF Counts, Resumed
<1> QED
  BY <1>1 DEF Makes, KnowInv, ListsInv

LEMMA Trusted ==
    ASSUME IInv, ClientsInv, NEW f \in Fds, Trusts(f)
    PROVE  LoggedIn(f)
<1>1. ctbl[f] # None /\ ctbl[f] \in Clients /\ fresh[ctbl[f]] /\ ctbl[f] = socket[f]
  BY DEF Trusts, IInv, Types
<1> QED
  BY <1>1 DEF LoggedIn, ClientsInv

(* A step that changes nothing that anybody knows.                             *)
LEMMA QuietKnow ==
    ASSUME IInv, OwnInv, KnowInv, NEW t \in Threads,
           UNCHANGED <<ctbl, object, view, fresh>>, SocketsDiffer',
           \A f \in Fds : Trusts(f)' => Trusts(f) /\ socket'[f] = socket[f],
           \A u \in Helpers \ {t} : local'[u] = local[u] /\ rc'[u] = rc[u],
           t \in Helpers => /\ ScriptInv(t)' /\ StateInv(t)' /\ Constant(t) /\ Makes(t)
    PROVE  KnowInv'
<1>1. ASSUME NEW h \in Helpers
      PROVE  ScriptInv(h)' /\ StateInv(h)' /\ Constant(h) /\ Makes(h)
  <2>1. CASE h = t
    BY <2>1
  <2>2. CASE h # t
    <3>1. local'[h] = local[h] /\ rc'[h] = rc[h]
      BY <2>2
    <3>2. Same(h) /\ ScriptInv(h) /\ StateInv(h)
      BY <3>1 DEF Same, KnowInv
    <3>3. ScriptInv(h)' /\ StateInv(h)'
      BY <3>1, <3>2, OtherScript
    <3>4. Constant(h)
      BY <3>1 DEF Constant, Announces, Departs, Told, Waits
    <3>5. Makes(h)
      BY <3>1, Resuming DEF Resumed
    <3> QED
      BY <3>3, <3>4, <3>5
  <2> QED
    BY <2>1, <2>2
<1>2. ASSUME NEW f \in Fds, NEW u \in Fds, LoggedIn(f)
      PROVE  (Excused(u, f) => Excused(u, f)') /\ (Parted(u, f)' => Parted(u, f))
  BY <1>1, <1>2 DEF Excused, Parted, Constant
<1>3. \A u \in Fds : (Listed(u)' <=> Listed(u)) /\ (LoggedIn(u)' <=> LoggedIn(u))
  BY DEF Listed, LoggedIn
<1>4. ViewsInv'
  <2>1. SUFFICES ASSUME NEW f \in Fds, NEW u \in Fds, Trusts(f)'
                 PROVE  /\ (u \in view'[socket'[f]] <=> Listed(u)') \/ Excused(u, f)'
                        /\ Parted(u, f)' => u \notin view'[socket'[f]]
    BY DEF ViewsInv
  <2>2. Trusts(f) /\ LoggedIn(f) /\ socket'[f] = socket[f]
    BY <2>1, Trusted DEF KnowInv
  <2>3. /\ (u \in view[socket[f]] <=> Listed(u)) \/ Excused(u, f)
        /\ Parted(u, f) => u \notin view[socket[f]]
    BY <2>2 DEF KnowInv, ViewsInv
  <2> QED
    BY <1>2, <1>3, <2>2, <2>3
<1>5. ListsInv'
  <2>1. SUFFICES ASSUME NEW h \in Helpers, NEW f \in Fds, Counts(h, f)',
                        NEW u \in Fds \ local'[h].todo
                 PROVE  /\ (u \in local'[h].list <=> Listed(u)') \/ Excused(u, f)'
                        /\ Parted(u, f)' => u \notin local'[h].list
    BY DEF ListsInv
  <2>2. LoggedIn(f)
    BY <1>3, <2>1 DEF Counts
  <2>3. /\ (u \in local'[h].list <=> Listed(u)) \/ Excused(u, f)
        /\ Parted(u, f) => u \notin local'[h].list
    BY <1>1, <2>1 DEF Makes
  <2> QED
    BY <1>2, <1>3, <2>2, <2>3
<1>6. ClientsInv'
  BY DEF KnowInv, ClientsInv
<1> QED
  BY <1>1, <1>4, <1>5, <1>6 DEF KnowInv

LEMMA StillKnow ==
    ASSUME IInv, OwnInv, KnowInv, NEW t \in Threads,
           UNCHANGED <<ctbl, object, socket, view, fresh>>,
           \A u \in Helpers \ {t} : local'[u] = local[u] /\ rc'[u] = rc[u],
           t \in Helpers => /\ ScriptInv(t)' /\ StateInv(t)' /\ Constant(t)
                            /\ local'[t].call = "list" /\ local'[t].pc \in Making => Resumed(t)
    PROVE  KnowInv'
<1>1. SocketsDiffer' /\ \A f \in Fds : Trusts(f)' => Trusts(f) /\ socket'[f] = socket[f]
  BY DEF KnowInv, SocketsDiffer, Trusts
<1>2. t \in Helpers => Makes(t)
  BY Resuming
<1> QED
  BY <1>1, <1>2, QuietKnow

LEMMA AcceptKnow ==
    ASSUME IInv, OwnInv, KnowInv, NEW f \in Fds, NEW k \in Clients, Accept(f, k)
    PROVE  KnowInv'
<1>1. /\ Types /\ TablesAgree /\ Main \in Threads /\ Main \notin Helpers
      /\ socket[f] = None /\ \A g \in Fds : socket[g] # k
      /\ UNCHANGED <<ctbl, object, rc, view, fresh>>
      /\ socket' = [socket EXCEPT ![f] = k]
      /\ \A u \in Threads \ {Main} : local'[u] = local[u]
  BY ThreadsAssumption DEF Accept, IInv, Threads, OwnInv, Types, clients
<1>2. ctbl[f] = None /\ k # None
  BY <1>1, ClientsAssumption DEF TablesAgree
<1>3. socket'[f] = k /\ \A g \in Fds \ {f} : socket'[g] = socket[g]
  BY <1>1 DEF Types
<1>4. SocketsDiffer'
  BY <1>1, <1>3 DEF KnowInv, SocketsDiffer
<1>5. \A g \in Fds : Trusts(g)' => Trusts(g) /\ socket'[g] = socket[g]
  BY <1>1, <1>2, <1>3 DEF Trusts
<1>6. \A u \in Helpers \ {Main} : local'[u] = local[u] /\ rc'[u] = rc[u]
  BY <1>1 DEF Threads
<1> QED
  BY <1>1, <1>4, <1>5, <1>6, QuietKnow

(* Who has done nothing yet, or nothing any more, owes nothing.                *)
LEMMA NothingOwed ==
    ASSUME NEW h \in Helpers, local[h].call = None, local'[h].call = None
    PROVE  Constant(h) /\ local'[h].call # "list"
<1>1. None \notin {"LI", "join", "part", "remove", "list"}
  BY NoneAssumption DEF Calls, Casts
<1> QED
  BY <1>1 DEF Constant, Announces, Departs, Told

LEMMA BareScript ==
    ASSUME NEW h \in Helpers, local'[h].call = None, local'[h].calls = <<>>,
           local'[h].victim = None, local'[h].pc \in {"idle", "handshake", "transaction"},
           local'[h].list = {}
    PROVE  ScriptInv(h)' /\ StateInv(h)'
<1>1. None \notin {"LI", "join", "NR", "part", "remove", "list"} \cup Casts
  BY NoneAssumption DEF Calls, Casts
<1>2. <<>> # <<"NR", "watch">>
  OBVIOUS
<1>3. StateInv(h)'
  BY <1>1, <1>2 DEF StateInv
<1>4. ScriptInv(h)'
  BY <1>1 DEF ScriptInv, Removing
<1> QED
  BY <1>3, <1>4

LEMMA Begun ==
    ASSUME NEW pc \in PCs, NEW f \in Fds, NEW k \in Clients \cup {None}
    PROVE  LET s == Serve(pc, f, k) IN
           s.pc = pc /\ s.calls = <<>> /\ s.call = None /\ s.victim = None /\ s.list = {}
<1>1. Serve(pc, f, k) = [Idle EXCEPT !.pc = pc, !.uid = f, !.client = k]
  BY DEF Serve
<1>2. Idle \in Record /\ Idle.calls = <<>> /\ Idle.call = None /\ Idle.victim = None /\ Idle.list = {}
  BY IdleRecord DEF Idle
<1> QED
  BY <1>1, <1>2 DEF Record

LEMMA DispatchConnectKnow ==
    ASSUME IInv, OwnInv, KnowInv, NEW h \in Helpers, DispatchConnect(h)
    PROVE  KnowInv'
<1> DEFINE l == local[Main]
           r == Serve("handshake", l.uid, l.client)
<1>1. /\ Types /\ ThreadInv(Main) /\ h \in Threads /\ h # Main
      /\ l.pc = "next" /\ local[h].pc = "idle" /\ ScriptInv(h)
      /\ UNCHANGED <<ctbl, object, socket, rc, view, fresh>>
  BY ThreadsAssumption DEF DispatchConnect, IInv, Threads, data, clients, KnowInv
<1>2. r.pc = "handshake" /\ r.calls = <<>> /\ r.call = None /\ r.victim = None /\ r.list = {}
  <2>1. l.uid \in Fds /\ l.client \in Clients \cup {None} /\ "handshake" \in PCs
    BY <1>1 DEF ThreadInv, MainInv, PCs
  <2> QED
    BY <2>1, Begun
<1>3. /\ local'[h] = r /\ \A u \in Helpers \ {h} : local'[u] = local[u]
  BY <1>1, ThreadsAssumption DEF DispatchConnect, Types, Threads
<1>4. /\ local'[h].pc = "handshake" /\ local'[h].calls = <<>> /\ local'[h].call = None
      /\ local'[h].victim = None /\ local'[h].list = {}
  BY <1>2, <1>3
<1>5. local[h].call = None
  BY <1>1 DEF ScriptInv
<1> QED
  BY <1>1, <1>3, <1>4, <1>5, NothingOwed, BareScript, StillKnow

LEMMA DispatchTransactionKnow ==
    ASSUME IInv, OwnInv, KnowInv, NEW h \in Helpers, NEW f \in Fds, DispatchTransaction(h, f)
    PROVE  KnowInv'
<1> DEFINE r == Serve("transaction", f, socket[f])
<1>1. /\ Types /\ h \in Threads /\ h # Main
      /\ local[h].pc = "idle" /\ ScriptInv(h)
      /\ UNCHANGED <<ctbl, object, socket, rc, view, fresh>>
  BY ThreadsAssumption DEF DispatchTransaction, IInv, Threads, clients, KnowInv
<1>2. r.pc = "transaction" /\ r.calls = <<>> /\ r.call = None /\ r.victim = None /\ r.list = {}
  <2>1. socket[f] \in Clients \cup {None} /\ "transaction" \in PCs
    BY <1>1 DEF Types, PCs
  <2> QED
    BY <2>1, Begun
<1>3. /\ local'[h] = r /\ \A u \in Helpers \ {h} : local'[u] = local[u]
  BY <1>1 DEF DispatchTransaction, Types, Threads
<1>4. /\ local'[h].pc = "transaction" /\ local'[h].calls = <<>> /\ local'[h].call = None
      /\ local'[h].victim = None /\ local'[h].list = {}
  BY <1>2, <1>3
<1>5. local[h].call = None
  BY <1>1 DEF ScriptInv
<1> QED
  BY <1>1, <1>3, <1>4, <1>5, NothingOwed, BareScript, StillKnow

LEMMA EndKnow ==
    ASSUME IInv, OwnInv, KnowInv, NEW t \in Threads, End(t)
    PROVE  KnowInv'
<1>1. /\ Types /\ local[t].pc = "next" /\ local[t].calls = <<>>
      /\ UNCHANGED <<ctbl, object, socket, rc, view, fresh>>
      /\ local' = [local EXCEPT ![t] = Idle]
  BY DEF End, IInv, data, clients
<1>2. local'[t] = Idle /\ \A u \in Helpers \ {t} : local'[u] = local[u]
  BY <1>1 DEF Types, Threads
<1>3. /\ local'[t].pc = "idle" /\ local'[t].calls = <<>> /\ local'[t].call = None
      /\ local'[t].victim = None /\ local'[t].list = {}
  BY <1>2 DEF Idle
<1>4. ASSUME t \in Helpers PROVE Constant(t) /\ local'[t].call # "list"
  <2>1. local[t].call \notin {"LI", "join", "part"}
    BY <1>1, <1>4, Scripted DEF KnowInv
  <2>2. None \notin {"LI", "join", "part", "remove", "list"}
    BY NoneAssumption DEF Calls, Casts
  <2> QED
    BY <1>1, <1>3, <2>1, <2>2 DEF Constant, Announces, Departs, Told
<1> QED
  BY <1>1, <1>2, <1>3, <1>4, BareScript, StillKnow

LEMMA PlanKnow ==
    ASSUME IInv, OwnInv, KnowInv, NEW h \in Helpers,
           local[h].pc \in {"handshake", "transaction"},
           NEW calls \in Scripts, NEW victim, Plan(h, calls, victim),
           victim = IF calls = <<"part", "remove">> THEN local[h].uid ELSE None,
           calls = <<"NR", "watch">> => ~LoggedIn(local[h].uid)
    PROVE  KnowInv'
<1> DEFINE l == local[h]
           m == local'[h]
<1>1. /\ Types /\ l \in Record /\ h \in Threads /\ ScriptInv(h) /\ StateInv(h)
      /\ UNCHANGED <<ctbl, object, socket, rc, view, fresh>>
  BY DEF Plan, IInv, Types, Threads, clients, KnowInv
<1>2. /\ m = [l EXCEPT !.pc = "next", !.calls = calls, !.victim = victim]
      /\ \A u \in Helpers \ {h} : local'[u] = local[u]
  BY <1>1 DEF Plan, Types, Threads
<1>3. /\ m.pc = "next" /\ m.uid = l.uid /\ m.client = l.client /\ m.calls = calls
      /\ m.call = l.call /\ m.victim = victim /\ m.list = l.list /\ m.todo = l.todo
  BY <1>1, <1>2 DEF Record
<1>4. l.call = None /\ None \notin {"LI", "join", "NR", "part", "remove", "list"} \cup Casts
  BY <1>1, NoneAssumption DEF ScriptInv, Calls, Casts
<1>5. ScriptInv(h)'
  BY <1>1, <1>3, <1>4 DEF ScriptInv, Removing
<1>6. calls = <<"NR", "watch">> => object[l.client] = "NL"
  <2>1. ~Rests(h) /\ l.pc # "destroy"
    BY DEF Rests
  <2> QED
    BY <2>1, Served2 DEF LoggedIn, Live
<1>7. StateInv(h)'
  BY <1>1, <1>3, <1>4, <1>6 DEF StateInv
<1> QED
  BY <1>1, <1>2, <1>3, <1>4, <1>5, <1>7, NothingOwed, StillKnow

LEMMA HandshakeKnow ==
    ASSUME IInv, OwnInv, KnowInv, NEW h \in Helpers, Handshake(h), UNCHANGED crossed, ~crossed
    PROVE  KnowInv'
<1>1. local[h].pc = "handshake" /\ Plan(h, <<"watch">>, None)
  BY DEF Handshake
<1>2. /\ <<"watch">> \in Scripts /\ <<"watch">> # <<"part", "remove">>
      /\ <<"watch">> # <<"NR", "watch">>
  BY DEF Scripts
<1> QED
  BY <1>1, <1>2, PlanKnow

LEMMA TransactionKnow ==
    ASSUME IInv, OwnInv, KnowInv, NEW h \in Helpers, Transaction(h), UNCHANGED crossed, ~crossed
    PROVE  KnowInv'
<1> DEFINE Replies == {<<"watch">>, <<"LI", "join", "watch">>,
                       <<"list", "watch">>, <<"chat", "watch">>}
<1>1. ~txn_kick_user(h)
  BY DEF txn_kick_user
<1>2. /\ local[h].pc = "transaction"
      /\ \/ \E calls \in Replies : Plan(h, calls, None)
         \/ ~LoggedIn(local[h].uid) /\ Plan(h, <<"NR", "watch">>, None)
         \/ Plan(h, <<"part", "remove">>, local[h].uid)
  BY <1>1 DEF Transaction, ht_control_disconnect, txn_login, txn_info, txn_userlist,
              txn_send_chat, Serves
<1>3. \A calls \in Replies : /\ calls \in Scripts /\ calls # <<"part", "remove">>
                             /\ calls # <<"NR", "watch">>
  BY DEF Scripts
<1>4. /\ <<"NR", "watch">> \in Scripts /\ <<"part", "remove">> \in Scripts
      /\ <<"NR", "watch">> # <<"part", "remove">>
  BY DEF Scripts
<1> HIDE DEF Replies
<1>5. CASE \E calls \in Replies : Plan(h, calls, None)
  BY <1>2, <1>3, <1>5, PlanKnow
<1>6. CASE ~LoggedIn(local[h].uid) /\ Plan(h, <<"NR", "watch">>, None)
  BY <1>2, <1>4, <1>6, PlanKnow
<1>7. CASE Plan(h, <<"part", "remove">>, local[h].uid)
  BY <1>2, <1>4, <1>7, PlanKnow
<1> QED
  BY <1>2, <1>5, <1>6, <1>7

(* What a step within a call leaves as it is.                                  *)
Keeps(t) ==
    LET l == local[t]
        m == local'[t]
    IN
    /\ m.uid = l.uid /\ m.client = l.client /\ m.calls = l.calls /\ m.call = l.call
    /\ m.victim = l.victim /\ m.list = l.list /\ m.late = l.late

(* A step within a call that no other client can notice.                       *)
LEMMA OnwardKnow ==
    ASSUME IInv, OwnInv, KnowInv, NEW t \in Helpers, Keeps(t),
           UNCHANGED <<ctbl, object, socket, view, fresh>>,
           \A u \in Helpers \ {t} : local'[u] = local[u] /\ rc'[u] = rc[u],
           local'[t].pc \notin {"idle", "handshake", "transaction"},
           local'[t].pc \in Removing => local[t].call = "remove",
           local'[t].pc = "reply" => local[t].call = "list",
           local'[t].pc = "use" => local[t].call # "list",
           local[t].call \in Casts /\ local'[t].pc \in {"cast_lock", "cast", "next"} =>
               local'[t].target = None,
           local[t].call \in Casts /\ local'[t].pc = "read_unlock" /\ rc'[t] = 1 =>
               local'[t].target = None,
           local'[t].pc = "read_unlock" /\ rc'[t] = 2 => local'[t].target \in Fds,
           local[t].call = "list" => /\ local[t].pc \in Making => local'[t].pc \in Making
                                     /\ local'[t].pc \in Making => local[t].pc \in Making
                                     /\ local'[t].todo = local[t].todo,
           local[t].call = "LI" /\ local'[t].pc \in {"read_unlock", "next"} =>
               local[t].pc \in {"read_unlock", "next"},
           local[t].call = "NR" /\ local'[t].pc \in Looking => local[t].pc \in Looking,
           local[t].call \in {"join", "part"} =>
               \A f \in Fds : LoggedIn(f) /\ f # local[t].victim =>
                                  (Waits(t, f)' <=> Waits(t, f)),
           local[t].call = "remove" => /\ local'[t].pc \in {"write_lock", "complete", "write"}
                                       /\ local[t].pc \in {"write_lock", "complete", "write"}
    PROVE  KnowInv'
<1> DEFINE l == local[t]
           m == local'[t]
<1>1. ScriptInv(t) /\ StateInv(t)
  BY DEF KnowInv
<1>2. ScriptInv(t)'
  BY <1>1 DEF ScriptInv, Keeps
<1>3. StateInv(t)'
  BY <1>1 DEF StateInv, Keeps
<1>4. Constant(t)
  <2>0. l.call = "join" => l.victim = None
    <3>1. Left("join") = <<"watch">> /\ <<"watch">> # <<"part", "remove">>
      BY DEF Left
    <3> QED
      BY <1>1, <3>1, NoneAssumption DEF ScriptInv, Calls, Casts
  <2>1. \A u \in Fds : Departs(t, u)' <=> Departs(t, u)
    BY DEF Departs, Keeps
  <2>2. ASSUME NEW f \in Fds, NEW u \in Fds, LoggedIn(f)
        PROVE  /\ Announces(t, u, f) => Announces(t, u, f)'
               /\ f # u /\ Told(t, u, f)' => Told(t, u, f)
    <3>1. f # None
      BY ClientsAssumption
    <3>2. Announces(t, u, f) => Announces(t, u, f)'
      BY <2>0, <2>2, <3>1 DEF Announces, Keeps
    <3>3. f # u /\ Told(t, u, f)' => Told(t, u, f)
      BY <2>1, <2>2 DEF Told, Departs, Keeps
    <3> QED
      BY <3>2, <3>3
  <2> QED
    BY <2>1, <2>2 DEF Constant
<1>5. m.call = "list" /\ m.pc \in Making => Resumed(t)
  BY DEF Resumed, Keeps
<1> QED
  BY <1>2, <1>3, <1>4, <1>5, StillKnow DEF Threads

LEMMA NotRemoving ==
    ASSUME OwnInv, KnowInv, NEW t \in Helpers, local[t].pc \in Reads
    PROVE  local[t].call # "remove" /\ ~Rests(t) /\ local[t].pc # "destroy"
<1>1. ScriptInv(t) /\ local[t].calls # <<>>
  BY DEF KnowInv, OwnInv, PlanInv
<1>2. "remove" # None /\ Left("remove") = <<>>
  BY NoneAssumption DEF Left, Calls
<1> QED
  BY <1>1, <1>2 DEF ScriptInv, Rests, Reads, Looking

LEMMA ReadLockKnow ==
    ASSUME IInv, OwnInv, KnowInv, NEW t \in Helpers, ReadLock(t)
    PROVE  KnowInv'
<1> DEFINE l == local[t]
           m == local'[t]
<1>1. /\ Types /\ l \in Record /\ t \in Threads /\ ScriptInv(t) /\ l.pc = "read_lock"
      /\ UNCHANGED <<ctbl, object, socket, view, fresh>>
  BY DEF ReadLock, rcl_read_lock, IInv, Types, Threads, data, clients, KnowInv
<1>2. /\ m = [l EXCEPT !.pc = "look"]
      /\ \A u \in Helpers \ {t} : local'[u] = local[u] /\ rc'[u] = rc[u]
  BY <1>1 DEF ReadLock, rcl_read_lock, Types, Threads
<1>3. Keeps(t) /\ m.pc = "look" /\ m.todo = l.todo /\ m.target = l.target
  BY <1>1, <1>2 DEF Record, Keeps
<1>4. l.call # "remove"
  BY <1>1, NotRemoving DEF Reads, Looking
<1> QED
  BY <1>1, <1>2, <1>3, <1>4, OnwardKnow DEF Removing, Making, Looking, Waits

(* A user who is in the table is found.                                        *)
LEMMA LookKnow ==
    ASSUME IInv, OwnInv, KnowInv, NEW t \in Helpers, Look(t)
    PROVE  KnowInv'
<1> DEFINE l == local[t]
           m == local'[t]
<1>1. /\ Types /\ l \in Record /\ t \in Threads /\ ScriptInv(t) /\ l.pc = "look"
      /\ l.call # "list" /\ PlanInv(t) /\ ReadInv(t) /\ l.target \in Fds
      /\ UNCHANGED <<ctbl, object, socket, rc, view, fresh>>
  BY ThreadsAssumption DEF Look, IInv, Types, Threads, data, clients, KnowInv, OwnInv,
                           ThreadInv, HelperInv
<1>2. /\ m = [l EXCEPT !.pc = IF ctbl[l.target] = None THEN "read_unlock" ELSE "use",
                       !.o = ctbl[l.target]]
      /\ \A u \in Helpers \ {t} : local'[u] = local[u] /\ rc'[u] = rc[u]
  BY <1>1 DEF Look, Types, Threads
<1>3. /\ Keeps(t) /\ m.todo = l.todo /\ m.target = l.target
      /\ m.pc = IF ctbl[l.target] = None THEN "read_unlock" ELSE "use"
  BY <1>1, <1>2 DEF Record, Keeps
<1>4. l.call # "remove" /\ ~Rests(t) /\ l.pc # "destroy"
  BY <1>1, NotRemoving DEF Reads, Looking
<1>5. l.call = "LI" => m.pc = "use"
  BY <1>1, <1>3, <1>4, Served2 DEF PlanInv, Looking
<1>6. l.call \in Casts => rc'[t] = 2
  BY <1>1 DEF ReadInv
<1>7. \A f \in Fds : Waits(t, f)' <=> Waits(t, f)
  BY <1>1, <1>3 DEF Waits
<1>8. m.pc \in {"read_unlock", "use"}
  BY <1>3
<1>9. rc'[t] = 1 => l.call \notin Casts
  BY <1>6
<1> HIDE DEF l, m
<1> QED
  BY <1>1, <1>2, <1>3, <1>4, <1>5, <1>7, <1>8, <1>9, OnwardKnow
     DEF Removing, Making, Looking, l, m

LEMMA ReadUnlockKnow ==
    ASSUME IInv, OwnInv, KnowInv, NEW t \in Helpers, ReadUnlock(t)
    PROVE  KnowInv'
<1> DEFINE l == local[t]
           m == local'[t]
<1>1. /\ Types /\ l \in Record /\ t \in Threads /\ ScriptInv(t) /\ l.pc = "read_unlock"
      /\ rc[t] = 1
      /\ UNCHANGED <<ctbl, object, socket, view, fresh>>
  BY DEF ReadUnlock, IInv, Types, Threads, data, clients, KnowInv
<1>2. /\ m = [l EXCEPT !.pc = IF l.call = "list" THEN "reply" ELSE "next", !.target = None]
      /\ \A u \in Helpers \ {t} : local'[u] = local[u] /\ rc'[u] = rc[u]
  BY <1>1 DEF ReadUnlock, Types, Threads
<1>3. /\ Keeps(t) /\ m.todo = l.todo /\ m.target = None
      /\ m.pc = IF l.call = "list" THEN "reply" ELSE "next"
  BY <1>1, <1>2 DEF Record, Keeps
<1>4. l.call # "remove"
  BY <1>1, NotRemoving DEF Reads, Looking
<1>5. l.call \in {"join", "part"} => \A f \in Fds : Waits(t, f)' <=> Waits(t, f)
  BY <1>1, <1>3 DEF Waits, ScriptInv, Casts
<1> QED
  BY <1>1, <1>2, <1>3, <1>4, <1>5, OnwardKnow DEF Removing, Making, Looking

LEMMA EndsKnow ==
    ASSUME IInv, OwnInv, KnowInv, NEW t \in Helpers, ListEnd(t) \/ CastEnd(t)
    PROVE  KnowInv'
<1> DEFINE l == local[t]
           m == local'[t]
<1>1. /\ Types /\ l \in Record /\ t \in Threads /\ ScriptInv(t) /\ ReadInv(t)
      /\ l.pc \in {"list", "cast"} /\ (l.pc = "list" <=> l.call = "list")
      /\ UNCHANGED <<ctbl, object, socket, rc, view, fresh>>
  BY DEF ListEnd, CastEnd, IInv, Types, Threads, data, clients, KnowInv, ThreadInv, ReadInv,
         Casts
<1>2. /\ m = [l EXCEPT !.pc = "read_unlock"]
      /\ \A u \in Helpers \ {t} : local'[u] = local[u] /\ rc'[u] = rc[u]
  BY <1>1 DEF ListEnd, CastEnd, Types, Threads
<1>3. Keeps(t) /\ m.pc = "read_unlock" /\ m.todo = l.todo /\ m.target = l.target
  BY <1>1, <1>2 DEF Record, Keeps
<1>4. l.call \notin {"remove", "LI"}
  BY <1>1, NotRemoving DEF Reads, Looking, ReadInv, Casts
<1>5. rc'[t] = 1 /\ (l.call \in Casts => l.target = None)
  <2>1. l.call \in Casts => l.pc = "cast"
    BY <1>1 DEF Casts
  <2>2. l.call \in Casts => l.target = None
    BY <1>1, <2>1 DEF ScriptInv
  <2>3. rc[t] = 1
    BY <1>1 DEF ReadInv
  <2> QED
    BY <1>1, <2>2, <2>3
<1>6. \A f \in Fds : Waits(t, f)' <=> Waits(t, f)
  BY <1>1, <1>3 DEF Waits
<1>7. l.call = "list" => l.pc \in Making /\ m.pc \in Making
  BY <1>1, <1>3 DEF Making
<1>8. m.pc \notin {"idle", "handshake", "transaction", "reply", "use"} \cup Removing \cup Looking
  BY <1>3 DEF Removing, Looking
<1>9. UNCHANGED <<ctbl, object, socket, view, fresh>>
  BY <1>1
<1>10. l.call = "list" => m.todo = l.todo
  BY <1>3
<1>11. \A u \in Helpers \ {t} : local'[u] = local[u] /\ rc'[u] = rc[u]
  BY <1>2
<1>12. Keeps(t) /\ m.pc = "read_unlock" /\ m.target = l.target
  BY <1>3
<1> HIDE DEF l, m
<1> QED
  BY <1>4, <1>5, <1>6, <1>7, <1>8, <1>9, <1>10, <1>11, <1>12, OnwardKnow DEF l, m

(* Everybody who has logged in is in the table, and so among those to be told. *)
LEMMA CastLockKnow ==
    ASSUME IInv, OwnInv, KnowInv, NEW t \in Helpers, CastLock(t)
    PROVE  KnowInv'
<1> DEFINE l == local[t]
           m == local'[t]
<1>1. /\ Types /\ l \in Record /\ t \in Threads /\ ScriptInv(t) /\ ReadInv(t)
      /\ l.pc = "cast_lock" /\ l.call \in Casts
      /\ UNCHANGED <<ctbl, object, socket, view, fresh>>
  BY DEF CastLock, rcl_read_lock, IInv, Types, Threads, data, clients, KnowInv, ThreadInv,
         ReadInv
<1>2. /\ m = [l EXCEPT !.pc = "cast", !.todo = {f \in Fds : ctbl[f] # None}]
      /\ \A u \in Helpers \ {t} : local'[u] = local[u] /\ rc'[u] = rc[u]
  BY <1>1 DEF CastLock, rcl_read_lock, Types, Threads
<1>3. /\ Keeps(t) /\ m.pc = "cast" /\ m.todo = {f \in Fds : ctbl[f] # None}
      /\ m.target = l.target
  BY <1>1, <1>2 DEF Record, Keeps
<1>4. l.target = None
  BY <1>1 DEF ScriptInv
<1>5. l.call \notin {"remove", "list", "LI", "NR"}
  BY <1>1 DEF Casts
<1>6. \A f \in Fds : LoggedIn(f) => (Waits(t, f)' <=> Waits(t, f))
  BY <1>1, <1>3 DEF Waits, LoggedIn
<1> QED
  BY <1>1, <1>2, <1>3, <1>4, <1>5, <1>6, OnwardKnow DEF Removing, Looking

(* Nobody who has logged in is passed over but the victim itself.              *)
LEMMA CastToKnow ==
    ASSUME IInv, OwnInv, KnowInv, NEW t \in Helpers, NEW x \in Fds, CastTo(t, x)
    PROVE  KnowInv'
<1> DEFINE l == local[t]
           m == local'[t]
<1>1. /\ Types /\ l \in Record /\ t \in Threads /\ ScriptInv(t) /\ ReadInv(t) /\ FoundInv(t)
      /\ l.pc = "cast" /\ l.call \in Casts /\ l.target = None /\ x \in l.todo
      /\ UNCHANGED <<ctbl, object, socket, rc, view, fresh>>
  BY DEF CastTo, IInv, Types, Threads, data, clients, KnowInv, ThreadInv, ReadInv, ScriptInv
<1>2. /\ m = [l EXCEPT !.todo = l.todo \ {x},
                       !.pc = IF Passed(t, x) THEN "cast" ELSE "read_lock",
                       !.target = IF Passed(t, x) THEN None ELSE x]
      /\ \A u \in Helpers \ {t} : local'[u] = local[u] /\ rc'[u] = rc[u]
  BY <1>1 DEF CastTo, Types, Threads
<1>3. /\ Keeps(t) /\ m.todo = l.todo \ {x}
      /\ m.pc = IF Passed(t, x) THEN "cast" ELSE "read_lock"
      /\ m.target = IF Passed(t, x) THEN None ELSE x
  BY <1>1, <1>2 DEF Record, Keeps
<1>4. l.call \notin {"remove", "list", "LI", "NR"}
  BY <1>1 DEF Casts
<1>5. ASSUME NEW f \in Fds, LoggedIn(f), f # l.victim
      PROVE  Waits(t, f)' <=> Waits(t, f)
  <2>1. Passed(t, f) => FALSE
    BY <1>5 DEF Passed, LoggedIn
  <2>2. f # None
    BY ClientsAssumption
  <2> QED
    BY <1>1, <1>3, <2>1, <2>2 DEF Waits
<1>6. m.pc \in {"cast", "read_lock"} /\ (m.pc = "cast" => m.target = None)
  BY <1>3
<1> QED
  BY <1>1, <1>2, <1>3, <1>4, <1>5, <1>6, OnwardKnow DEF Removing, Looking

LEMMA WaitingKnow ==
    ASSUME IInv, OwnInv, KnowInv, NEW t \in Threads, WriteReserve(t) \/ WriteComplete(t)
    PROVE  KnowInv'
<1> DEFINE l == local[t]
           m == local'[t]
<1>1. /\ Types /\ l \in Record
      /\ l.pc \in {"write_lock", "complete"}
      /\ UNCHANGED <<ctbl, object, socket, rc, view, fresh>>
  BY DEF WriteReserve, WriteComplete, IInv, Types, data, clients
<1>2. PICK pc \in {"complete", "write"} : local' = [local EXCEPT ![t].pc = pc]
  BY DEF WriteReserve, WriteComplete
<1>3. /\ m = [l EXCEPT !.pc = pc]
      /\ \A u \in Helpers \ {t} : local'[u] = local[u] /\ rc'[u] = rc[u]
  BY <1>1, <1>2 DEF Types, Threads
<1>4. Keeps(t) /\ m.pc = pc /\ m.target = l.target /\ m.todo = l.todo
  BY <1>1, <1>3 DEF Record, Keeps
<1>5. CASE t \in Helpers
  <2>1. l.call = "remove"
    BY <1>1, <1>5 DEF KnowInv, ScriptInv, Removing
  <2> QED
    BY <1>1, <1>3, <1>4, <1>5, <2>1, OnwardKnow DEF Casts, Looking
<1>6. CASE t \notin Helpers
  BY <1>1, <1>3, <1>6, StillKnow
<1> QED
  BY <1>5, <1>6

(* The calls of a plan follow one another.                                     *)
LEMMA NextCall ==
    ASSUME NEW h \in Helpers, ScriptInv(h), local[h].calls # <<>>
    PROVE  LET l == local[h]
               head == Head(l.calls)
           IN  /\ Tail(l.calls) = Left(head) /\ Left(head) \notin {<<"NR", "watch">>, <<"part", "remove">>}
               /\ head \in Casts \cup {"NR", "LI", "list", "remove", "watch"}
               /\ head = "join" <=> l.call = "LI"
               /\ head = "remove" <=> l.call = "part"
               /\ head = "part" <=> l.calls = <<"part", "remove">>
               /\ head = "NR" <=> l.calls = <<"NR", "watch">>
               /\ l.call # "remove"
<1> DEFINE Follows(call, calls) ==
               /\ Tail(calls) = Left(Head(calls))
               /\ Left(Head(calls)) \notin {<<"NR", "watch">>, <<"part", "remove">>}
               /\ Head(calls) \in Casts \cup {"NR", "LI", "list", "remove", "watch"}
               /\ Head(calls) = "join" <=> call = "LI"
               /\ Head(calls) = "remove" <=> call = "part"
               /\ Head(calls) = "part" <=> calls = <<"part", "remove">>
               /\ Head(calls) = "NR" <=> calls = <<"NR", "watch">>
               /\ call # "remove"
<1>1. /\ Left("LI") = <<"join", "watch">> /\ Left("part") = <<"remove">>
      /\ Left("watch") = <<>> /\ Left("remove") = <<>>
      /\ \A call : call \notin {"LI", "part", "watch", "remove"} => Left(call) = <<"watch">>
  BY DEF Left
<1>2. ASSUME NEW call, call \notin {"LI", "part", "remove"} PROVE Follows(call, <<"watch">>)
  <2>1. Head(<<"watch">>) = "watch" /\ Tail(<<"watch">>) = <<>>
    OBVIOUS
  <2>2. <<>> \notin {<<"NR", "watch">>, <<"part", "remove">>}
    OBVIOUS
  <2>3. <<"watch">> \notin {<<"NR", "watch">>, <<"part", "remove">>}
    OBVIOUS
  <2> QED
    BY <1>1, <1>2, <2>1, <2>2, <2>3
<1>3. ASSUME NEW call, call \notin {"LI", "part", "remove"},
             NEW c \in {"NR", "list", "chat"}
      PROVE  Follows(call, <<c, "watch">>)
  <2>1. Head(<<c, "watch">>) = c /\ Tail(<<c, "watch">>) = <<"watch">>
    OBVIOUS
  <2>2. <<"watch">> \notin {<<"NR", "watch">>, <<"part", "remove">>}
    OBVIOUS
  <2>3. /\ <<c, "watch">> = <<"NR", "watch">> <=> c = "NR"
        /\ <<c, "watch">> # <<"part", "remove">>
    OBVIOUS
  <2> QED
    BY <1>1, <1>3, <2>1, <2>2, <2>3 DEF Casts
<1>4. ASSUME NEW call, call \notin {"LI", "part", "remove"}
      PROVE  Follows(call, <<"LI", "join", "watch">>) /\ Follows(call, <<"part", "remove">>)
  <2>1. /\ Head(<<"LI", "join", "watch">>) = "LI"
        /\ Tail(<<"LI", "join", "watch">>) = <<"join", "watch">>
        /\ Head(<<"part", "remove">>) = "part" /\ Tail(<<"part", "remove">>) = <<"remove">>
    OBVIOUS
  <2>2. /\ <<"join", "watch">> \notin {<<"NR", "watch">>, <<"part", "remove">>}
        /\ <<"remove">> \notin {<<"NR", "watch">>, <<"part", "remove">>}
    OBVIOUS
  <2>3. /\ <<"LI", "join", "watch">> \notin {<<"NR", "watch">>, <<"part", "remove">>}
        /\ <<"part", "remove">> # <<"NR", "watch">>
    OBVIOUS
  <2> QED
    BY <1>1, <1>4, <2>1, <2>2, <2>3 DEF Casts
<1>5. Follows("LI", <<"join", "watch">>) /\ Follows("part", <<"remove">>)
  <2>1. /\ Head(<<"join", "watch">>) = "join" /\ Tail(<<"join", "watch">>) = <<"watch">>
        /\ Head(<<"remove">>) = "remove" /\ Tail(<<"remove">>) = <<>>
    OBVIOUS
  <2>2. /\ <<"watch">> \notin {<<"NR", "watch">>, <<"part", "remove">>}
        /\ <<>> \notin {<<"NR", "watch">>, <<"part", "remove">>}
    OBVIOUS
  <2>3. /\ <<"join", "watch">> \notin {<<"NR", "watch">>, <<"part", "remove">>}
        /\ <<"remove">> \notin {<<"NR", "watch">>, <<"part", "remove">>}
    OBVIOUS
  <2> QED
    BY <1>1, <2>1, <2>2, <2>3 DEF Casts
<1> HIDE DEF Follows
<1>6. Follows(local[h].call, local[h].calls)
  <2>1. CASE local[h].call = None
    <3>1. local[h].call \notin {"LI", "part", "remove"} /\ local[h].calls \in Scripts
      BY <2>1, NoneAssumption DEF ScriptInv, Calls, Casts
    <3> QED
      BY <1>2, <1>3, <1>4, <3>1 DEF Scripts
  <2>2. CASE local[h].call # None
    <3>1. local[h].calls = Left(local[h].call)
      BY <2>2 DEF ScriptInv
    <3>2. local[h].call \notin {"watch", "remove"}
      BY <1>1, <3>1
    <3>3. CASE local[h].call \in {"LI", "part"}
      BY <1>1, <1>5, <3>1, <3>3
    <3>4. CASE local[h].call \notin {"LI", "part"}
      <4>1. local[h].calls = <<"watch">>
        BY <1>1, <3>1, <3>2, <3>4
      <4> QED
        BY <1>2, <3>2, <3>4, <4>1
    <3> QED
      BY <3>3, <3>4
  <2> QED
    BY <2>1, <2>2
<1> QED
  BY <1>6 DEF Follows

(* A call begins when the one before has done what it had to do.               *)
LEMMA BeginKnow ==
    ASSUME IInv, OwnInv, KnowInv, NEW t \in Threads, Begin(t)
    PROVE  KnowInv'
<1> DEFINE l == local[t]
           m == local'[t]
           head == Head(l.calls)
<1>1. /\ Types /\ l \in Record /\ ThreadInv(t) /\ l.pc = "next" /\ l.calls # <<>>
      /\ UNCHANGED <<ctbl, object, rc, view, fresh>>
      /\ \A u \in Helpers \ {t} : local'[u] = local[u] /\ rc'[u] = rc[u]
  BY DEF Begin, IInv, Types, Threads, clients
<1>2. /\ \/ /\ head \in {"NR", "LI", "list"} /\ m.pc = "read_lock" /\ m.target = l.uid
            /\ UNCHANGED <<socket, watched>>
         \/ /\ head \in Casts /\ m.pc = "cast_lock" /\ m.target = None
            /\ UNCHANGED <<socket, watched>>
         \/ /\ head \in {"add", "remove"} /\ m.pc = "write_lock"
            /\ m.target = IF head = "add" THEN l.uid ELSE l.victim
            /\ UNCHANGED <<socket, watched>>
         \/ head = "close"
         \/ /\ head = "watch" /\ m.pc = "next" /\ m.target = None
            /\ watched' = watched \cup {l.uid} /\ socket' = socket
      /\ m.call = head /\ m.calls = Tail(l.calls)
      /\ m.uid = l.uid /\ m.client = l.client /\ m.victim = l.victim
      /\ m.todo = l.todo /\ m.list = l.list /\ m.late = l.late
  BY Beginning
<1>3. CASE t = Main
  <2>1. head # "close"
    BY <1>1, <1>3, Accepted DEF ThreadInv, MainInv
  <2>2. t \notin Helpers
    BY <1>3, ThreadsAssumption
  <2> QED
    BY <1>1, <1>2, <2>1, <2>2, StillKnow
<1>4. CASE t # Main
  <2>1. t \in Helpers /\ ScriptInv(t) /\ StateInv(t) /\ ReadInv(t)
    BY <1>1, <1>4 DEF Threads, KnowInv, ThreadInv
  <2>2. /\ Tail(l.calls) = Left(head) /\ Left(head) \notin {<<"NR", "watch">>, <<"part", "remove">>}
        /\ head \in Casts \cup {"NR", "LI", "list", "remove", "watch"}
        /\ head = "join" <=> l.call = "LI"
        /\ head = "remove" <=> l.call = "part"
        /\ head = "part" <=> l.calls = <<"part", "remove">>
        /\ head = "NR" <=> l.calls = <<"NR", "watch">>
        /\ l.call # "remove"
    BY <1>1, <2>1, NextCall
  <2> HIDE DEF head
  <2>3. head # None /\ head \notin {"add", "close"}
    BY <2>2, NoneAssumption DEF Calls, Casts
  <2>4. l.todo = {} /\ l.list = {} /\ (l.call \in Casts => l.target = None)
    BY <1>1, <2>1 DEF ReadInv, ScriptInv, Making
  <2>5. /\ m.pc \in {"read_lock", "cast_lock", "write_lock", "next"}
        /\ m.pc = "read_lock" <=> head \in {"NR", "LI", "list"}
        /\ m.pc = "cast_lock" <=> head \in Casts
        /\ m.pc = "write_lock" <=> head = "remove"
        /\ m.pc = "next" <=> head = "watch"
        /\ head \in Casts => m.target = None
        /\ UNCHANGED socket
    BY <1>2, <2>2, <2>3 DEF Casts
  <2> HIDE DEF l, m
  <2>6. ScriptInv(t)'
    <3>1. m.victim = IF head \in {"part", "remove"} \/ Left(head) = <<"part", "remove">>
                     THEN m.uid ELSE None
      BY <1>2, <2>1, <2>2 DEF ScriptInv, l, m
    <3> QED
      BY <1>2, <2>2, <2>3, <2>4, <2>5, <3>1 DEF ScriptInv, Removing, l, m
  <2>7. StateInv(t)'
    <3>1. head = "join" => object[l.client] = "LI"
      BY <1>1, <2>1, <2>2 DEF StateInv, l
    <3>2. head = "NR" => object[l.client] = "NL"
      BY <1>1, <2>1, <2>2 DEF StateInv, l
    <3> QED
      BY <1>1, <1>2, <2>2, <2>5, <3>1, <3>2 DEF StateInv, l, m
  <2>8. Constant(t)
    <3>1. ASSUME NEW f \in Fds, NEW u \in Fds
          PROVE  /\ Announces(t, u, f) => Announces(t, u, f)'
                 /\ Departs(t, u) => Departs(t, u)'
                 /\ f # u /\ Told(t, u, f)' => Told(t, u, f)
      <4>1. f # None
        BY ClientsAssumption
      <4>2. l.call = "join" => ~Waits(t, f)
        BY <1>1, <2>4, <4>1 DEF Waits, l, Casts
      <4>3. Announces(t, u, f) => Announces(t, u, f)'
        <5>1. head = "join" => Waits(t, f)'
          BY <2>5 DEF Waits, m, Casts
        <5> QED
          BY <1>2, <2>2, <4>2, <5>1 DEF Announces, l, m
      <4>4. Departs(t, u) => Departs(t, u)'
        BY <1>1, <1>2, <2>2, <2>5 DEF Departs, l, m
      <4>5. Told(t, u, f)' => Told(t, u, f)
        <5>1. head = "part" => Waits(t, f)'
          BY <2>5 DEF Waits, m, Casts
        <5>2. l.call = "part" => ~Waits(t, f)
          BY <1>1, <2>4, <4>1 DEF Waits, l, Casts
        <5> QED
          BY <1>1, <1>2, <2>2, <5>1, <5>2 DEF Told, Departs, l, m
      <4> QED
        BY <4>3, <4>4, <4>5
    <3> QED
      BY <3>1 DEF Constant
  <2>9. m.pc \notin Making
    BY <2>5 DEF Making
  <2> QED
    BY <1>1, <2>5, <2>6, <2>7, <2>8, <2>9, StillKnow DEF m
<1> QED
  BY <1>3, <1>4

(* Users who are added while the list is made are not listed.                  *)
LEMMA ListBeginKnow ==
    ASSUME IInv, OwnInv, KnowInv, NEW t \in Helpers, ListBegin(t)
    PROVE  KnowInv'
<1> DEFINE l == local[t]
           m == local'[t]
<1>1. /\ Types /\ l \in Record /\ t \in Threads /\ ScriptInv(t) /\ StateInv(t)
      /\ l.pc = "look" /\ l.call = "list"
      /\ UNCHANGED <<ctbl, object, socket, rc, view, fresh>>
  BY DEF ListBegin, IInv, Types, Threads, data, clients, KnowInv
<1>2. /\ m = [l EXCEPT !.pc = "list", !.todo = {f \in Fds : ctbl[f] # None}]
      /\ \A u \in Helpers \ {t} : local'[u] = local[u] /\ rc'[u] = rc[u]
  BY <1>1 DEF ListBegin, Types, Threads
<1>3. Keeps(t) /\ m.pc = "list" /\ m.todo = {f \in Fds : ctbl[f] # None}
  BY <1>1, <1>2 DEF Record, Keeps
<1>4. l.list = {}
  BY <1>1 DEF ScriptInv, Making
<1> HIDE DEF l, m
<1>5. ScriptInv(t)' /\ StateInv(t)'
  BY <1>1, <1>3, <1>4 DEF ScriptInv, StateInv, Keeps, Removing, Making, Casts, l, m
<1>6. Constant(t)
  BY <1>1, <1>3 DEF Constant, Announces, Departs, Told, Keeps, l, m
<1>7. Makes(t)
  BY <1>3, <1>4 DEF Makes, Listed, Keeps, l, m
<1>8. SocketsDiffer' /\ \A f \in Fds : Trusts(f)' => Trusts(f) /\ socket'[f] = socket[f]
  BY <1>1 DEF KnowInv, SocketsDiffer, Trusts
<1> QED
  BY <1>1, <1>2, <1>5, <1>6, <1>7, <1>8, QuietKnow

(* Who is about to leave makes the list worthless, listed or not.              *)
LEMMA ListUserKnow ==
    ASSUME IInv, OwnInv, KnowInv, NEW t \in Helpers, NEW x \in Fds, ListUser(t, x)
    PROVE  KnowInv'
<1> DEFINE l == local[t]
           m == local'[t]
<1>1. /\ Types /\ l \in Record /\ t \in Threads /\ ScriptInv(t) /\ StateInv(t)
      /\ l.pc = "list" /\ l.call = "list" /\ x \in l.todo
      /\ UNCHANGED <<ctbl, object, socket, rc, view, fresh>>
  BY DEF ListUser, IInv, Types, Threads, data, clients, KnowInv, ThreadInv, ReadInv
<1>2. /\ m = [l EXCEPT !.todo = l.todo \ {x},
                       !.list = IF Listed(x) THEN l.list \cup {x} ELSE l.list,
                       !.late = l.late \/ Leaving(x)]
      /\ \A u \in Helpers \ {t} : local'[u] = local[u] /\ rc'[u] = rc[u]
  BY <1>1 DEF ListUser, Types, Threads
<1>3. /\ m.pc = l.pc /\ m.uid = l.uid /\ m.client = l.client /\ m.target = l.target
      /\ m.calls = l.calls /\ m.call = l.call /\ m.victim = l.victim
      /\ m.todo = l.todo \ {x}
      /\ m.list = IF Listed(x) THEN l.list \cup {x} ELSE l.list
  BY <1>1, <1>2 DEF Record
<1>4. m.late <=> l.late \/ Leaving(x)
  BY <1>1, <1>2 DEF Record
<1>5. x \notin l.list /\ m.list \cap m.todo = {}
  BY <1>1, <1>3 DEF ScriptInv
<1> HIDE DEF l, m
<1>6. ScriptInv(t)' /\ StateInv(t)'
  BY <1>1, <1>3, <1>5 DEF ScriptInv, StateInv, Removing, Making, Casts, Looking, l, m
<1>7. Constant(t)
  BY <1>1, <1>3 DEF Constant, Announces, Departs, Told, l, m
<1>8. Makes(t)
  <2>1. SUFFICES ASSUME NEW f \in Fds, Counts(t, f)', NEW u \in Fds \ m.todo
                 PROVE  /\ (u \in m.list <=> Listed(u)) \/ Excused(u, f)
                        /\ Parted(u, f) => u \notin m.list
    BY DEF Makes, m
  <2>2. Counts(t, f) /\ ~Leaving(x)
    <3>1. LoggedIn(f)' <=> LoggedIn(f)
      BY <1>1 DEF LoggedIn
    <3> QED
      BY <1>3, <1>4, <2>1, <3>1 DEF Counts, l, m
  <2>3. CASE u = x
    <3>1. ~Parted(u, f)
      BY <2>2, <2>3 DEF Parted, Told, Departs, Leaving, Threads
    <3> QED
      BY <1>3, <1>5, <2>3, <3>1
  <2>4. CASE u # x
    <3>1. /\ (u \in l.list <=> Listed(u)) \/ Excused(u, f)
          /\ Parted(u, f) => u \notin l.list
      BY <1>3, <2>1, <2>2, <2>4 DEF KnowInv, ListsInv, l
    <3> QED
      BY <1>3, <2>4, <3>1
  <2> QED
    BY <2>3, <2>4
<1>9. SocketsDiffer' /\ \A f \in Fds : Trusts(f)' => Trusts(f) /\ socket'[f] = socket[f]
  BY <1>1 DEF KnowInv, SocketsDiffer, Trusts
<1> QED
  BY <1>1, <1>2, <1>6, <1>7, <1>8, <1>9, QuietKnow

(* What user f is to know of u is as it was, or is on its way, or f has heard  *)
(* that u leaves, and u has left.                                              *)
Fine(u, f) ==
    \/ /\ Listed(u)' <=> Listed(u)
       /\ Excused(u, f) => Excused(u, f)'
       /\ Parted(u, f)' => Parted(u, f)
    \/ Excused(u, f)' /\ (Parted(u, f)' => Parted(u, f))
    \/ ~Listed(u)' /\ Parted(u, f)

Knows(u, f) == /\ (u \in view'[socket'[f]] <=> Listed(u)') \/ Excused(u, f)'
               /\ Parted(u, f)' => u \notin view'[socket'[f]]

(* A step that some clients notice, of a thread that makes no list.            *)
LEMMA LoudKnow ==
    ASSUME IInv, OwnInv, KnowInv, NEW t \in Threads, SocketsDiffer', ClientsInv',
           \A h \in Helpers \ {t} :
               /\ Same(h) /\ local'[h].list = local[h].list
               /\ local[h].late => local'[h].late
               /\ ~Rests(h) /\ local[h].pc # "destroy" =>
                      object'[local[h].client] = object[local[h].client],
           t \in Helpers => /\ ScriptInv(t)' /\ StateInv(t)'
                            /\ local'[t].call # "list" \/ local'[t].pc \notin Making,
           \A f \in Fds : Trusts(f)' =>
               \/ /\ Trusts(f) /\ view'[socket'[f]] = view[socket[f]]
                  /\ \A u \in Fds : Fine(u, f)
               \/ \A u \in Fds : Knows(u, f),
           \A f \in Fds, h \in Helpers \ {t} :
               Counts(h, f)' => LoggedIn(f) /\ \A u \in Fds : Fine(u, f)
    PROVE  KnowInv'
<1>1. ASSUME NEW h \in Helpers PROVE ScriptInv(h)' /\ StateInv(h)'
  <2>1. CASE h = t
    BY <2>1
  <2>2. CASE h # t
    <3>1. ScriptInv(h) /\ StateInv(h)
      BY DEF KnowInv
    <3> QED
      BY <2>2, <3>1, OtherScript
  <2> QED
    BY <2>1, <2>2
<1>2. ViewsInv'
  <2>1. SUFFICES ASSUME NEW f \in Fds, NEW u \in Fds, Trusts(f)'
                 PROVE  Knows(u, f)
    BY DEF ViewsInv, Knows
  <2>2. CASE \A x \in Fds : Knows(x, f)
    BY <2>2
  <2>3. CASE Trusts(f) /\ view'[socket'[f]] = view[socket[f]] /\ \A x \in Fds : Fine(x, f)
    <3>1. /\ (u \in view[socket[f]] <=> Listed(u)) \/ Excused(u, f)
          /\ Parted(u, f) => u \notin view[socket[f]]
      BY <2>3 DEF KnowInv, ViewsInv
    <3>2. Fine(u, f)
      BY <2>3
    <3> QED
      BY <2>3, <3>1, <3>2 DEF Fine, Knows
  <2> QED
    BY <2>1, <2>2, <2>3
<1>3. ListsInv'
  <2>1. SUFFICES ASSUME NEW h \in Helpers, NEW f \in Fds, Counts(h, f)',
                        NEW u \in Fds \ local'[h].todo
                 PROVE  /\ (u \in local'[h].list <=> Listed(u)') \/ Excused(u, f)'
                        /\ Parted(u, f)' => u \notin local'[h].list
    BY DEF ListsInv
  <2>2. h # t
    BY <2>1 DEF Counts
  <2>3. LoggedIn(f) /\ Fine(u, f)
    BY <2>1, <2>2
  <2>4. /\ Counts(h, f) /\ local'[h].list = local[h].list /\ local'[h].todo = local[h].todo
    BY <2>1, <2>2, <2>3 DEF Counts, Same
  <2>5. /\ (u \in local[h].list <=> Listed(u)) \/ Excused(u, f)
        /\ Parted(u, f) => u \notin local[h].list
    BY <2>1, <2>4 DEF KnowInv, ListsInv
  <2> QED
    BY <2>3, <2>4, <2>5 DEF Fine
<1> QED
  BY <1>1, <1>2, <1>3 DEF KnowInv

(* Who owes nothing in a step is owed for by the same helpers as before.       *)
LEMMA SameDebts ==
    ASSUME NEW t \in Threads, NEW u \in Fds, NEW f \in Fds,
           \A h \in Helpers \ {t} : Same(h),
           t \in Helpers => /\ Announces(t, u, f) => Announces(t, u, f)'
                            /\ Departs(t, u) => Departs(t, u)'
                            /\ f # u /\ Told(t, u, f)' => Told(t, u, f)
    PROVE  (Excused(u, f) => Excused(u, f)') /\ (Parted(u, f)' => Parted(u, f))
<1>1. ASSUME NEW h \in Helpers
      PROVE  /\ Announces(h, u, f) => Announces(h, u, f)'
             /\ Departs(h, u) => Departs(h, u)'
             /\ f # u /\ Told(h, u, f)' => Told(h, u, f)
  <2>1. CASE h = t
    BY <2>1
  <2>2. CASE h # t
    <3>1. Same(h)
      BY <2>2
    <3> QED
      BY <3>1 DEF Announces, Departs, Told, Waits, Same
  <2> QED
    BY <2>1, <2>2
<1> QED
  BY <1>1 DEF Excused, Parted

LEMMA ListReplyKnow ==
    ASSUME IInv, OwnInv, KnowInv, NEW t \in Helpers, ListReply(t)
    PROVE  KnowInv'
<1> DEFINE l == local[t]
           m == local'[t]
           k == l.client
<1>1. /\ Types /\ l \in Record /\ t \in Threads /\ ScriptInv(t) /\ StateInv(t) /\ ReadInv(t)
      /\ l.pc = "reply" /\ l.call = "list" /\ SocketsDiffer /\ ClientsInv
      /\ UNCHANGED <<ctbl, object, socket, rc>>
  BY DEF ListReply, IInv, Types, Threads, KnowInv, ScriptInv, ThreadInv
<1>2. /\ m = [l EXCEPT !.pc = "next", !.list = {}, !.late = FALSE]
      /\ \A u \in Threads \ {t} : local'[u] = local[u]
  BY <1>1 DEF ListReply, Types
<1>3. /\ m.pc = "next" /\ m.uid = l.uid /\ m.client = l.client /\ m.target = l.target
      /\ m.calls = l.calls /\ m.call = l.call /\ m.victim = l.victim
      /\ m.todo = l.todo /\ m.list = {}
  BY <1>1, <1>2 DEF Record
<1>4. /\ l.uid \in Fds /\ k \in Clients /\ k # None /\ socket[l.uid] = k /\ ctbl[l.uid] = k
      /\ l.todo = {} /\ l.list \subseteq Fds
  BY <1>1, NotRemoving, Served2 DEF Reads, Looking, ReadInv, Record
<1>5. /\ view' = [view EXCEPT ![k] = l.list]
      /\ fresh' = [fresh EXCEPT ![k] = ~l.late /\ LoggedIn(l.uid)]
  BY <1>4 DEF ListReply
<1>6. /\ view'[k] = l.list /\ (fresh'[k] <=> ~l.late /\ LoggedIn(l.uid))
      /\ \A c \in Clients \ {k} : view'[c] = view[c] /\ fresh'[c] = fresh[c]
  BY <1>1, <1>4, <1>5 DEF ClientsInv
<1> HIDE DEF l, m
<1>7. ScriptInv(t)' /\ StateInv(t)'
  BY <1>1, <1>3 DEF ScriptInv, StateInv, Removing, Casts, Looking, l, m
<1>8. ASSUME NEW u \in Fds, NEW f \in Fds
      PROVE  /\ Excused(u, f) => Excused(u, f)'
             /\ Parted(u, f)' => Parted(u, f)
             /\ Listed(u)' <=> Listed(u)
  <2>1. \A h \in Helpers \ {t} : Same(h)
    BY <1>1, <1>2 DEF Same, Threads
  <2>2. /\ Announces(t, u, f) => Announces(t, u, f)'
        /\ Departs(t, u) => Departs(t, u)'
        /\ f # u /\ Told(t, u, f)' => Told(t, u, f)
    BY <1>1, <1>3 DEF Announces, Departs, Told, l, m
  <2> QED
    BY <1>1, <2>1, <2>2, SameDebts DEF Listed
<1>9. \A u, f \in Fds : Fine(u, f)
  BY <1>8 DEF Fine
<1>10. ASSUME NEW f \in Fds, Trusts(f)'
      PROVE  \/ /\ Trusts(f) /\ view'[socket'[f]] = view[socket[f]]
                /\ \A u \in Fds : Fine(u, f)
             \/ \A u \in Fds : Knows(u, f)
  <2>1. socket[f] \in Clients
    BY <1>1, <1>10 DEF Trusts, Types
  <2>2. CASE f = l.uid
    <3>1. Counts(t, f)
      <4>1. fresh'[k]
        BY <1>1, <1>4, <1>10, <2>2 DEF Trusts
      <4> QED
        BY <1>1, <1>6, <2>2, <4>1 DEF Counts, Making, l
    <3>2. ASSUME NEW u \in Fds PROVE Knows(u, f)
      <4>1. /\ (u \in l.list <=> Listed(u)) \/ Excused(u, f)
            /\ Parted(u, f) => u \notin l.list
        BY <1>4, <3>1 DEF KnowInv, ListsInv, l
      <4>2. view'[socket'[f]] = l.list
        BY <1>1, <1>4, <1>6, <2>2
      <4> QED
        BY <1>8, <4>1, <4>2 DEF Knows
    <3> QED
      BY <3>2
  <2>3. CASE f # l.uid
    <3>1. socket[f] # k
      BY <1>1, <1>4, <2>1, <2>3 DEF SocketsDiffer
    <3> QED
      BY <1>1, <1>6, <1>9, <1>10, <2>1, <3>1 DEF Trusts
  <2> QED
    BY <2>2, <2>3
<1>11. SocketsDiffer' /\ ClientsInv'
  <2>1. ASSUME NEW c \in Clients, fresh'[c] PROVE object'[c] \in {"NR", "LI"}
    BY <1>1, <1>4, <1>6, <2>1 DEF ClientsInv, LoggedIn
  <2>2. view' \in [Clients -> SUBSET Fds] /\ fresh' \in [Clients -> BOOLEAN]
    BY <1>1, <1>4, <1>5 DEF ClientsInv
  <2> QED
    BY <1>1, <2>1, <2>2 DEF SocketsDiffer, ClientsInv
<1>12. \A f \in Fds : LoggedIn(f)' <=> LoggedIn(f)
  BY <1>1 DEF LoggedIn
<1>13. \A h \in Helpers \ {t} : /\ Same(h) /\ local'[h].list = local[h].list
                                /\ local[h].late => local'[h].late
  BY <1>1, <1>2 DEF Same, Threads
<1>14. \A f \in Fds, h \in Helpers : Counts(h, f)' => LoggedIn(f)
  BY <1>12 DEF Counts
<1>15. m.pc \notin Making
  BY <1>3 DEF Making
<1> QED
  BY <1>1, <1>7, <1>9, <1>10, <1>11, <1>13, <1>14, <1>15, LoudKnow DEF m

(* A thread that serves has its user and its client to itself.                 *)
LEMMA OthersDiffer ==
    ASSUME IInv, OwnInv, NEW t \in Threads, ~Rests(t), NEW h \in Helpers \ {t},
           ~Rests(h), local[h].pc # "destroy", ctbl[local[t].uid] = local[t].client
    PROVE  local[h].uid # local[t].uid /\ local[h].client # local[t].client
<1>1. /\ local[h].uid \in Fds /\ local[h].client # None
      /\ ctbl[local[h].uid] = local[h].client
      /\ local[h].uid # local[t].uid
  BY Served2
<1>2. TableInv /\ HoldInv(t)
  BY DEF IInv, OwnInv
<1>3. local[t].uid \in Fds
  BY <1>2 DEF HoldInv
<1> QED
  BY <1>1, <1>2, <1>3 DEF TableInv

LEMMA CountsOther ==
    ASSUME IInv, OwnInv, KnowInv, NEW t \in Threads, ~Rests(t), NEW h \in Helpers \ {t},
           Same(h), NEW f \in Fds, Counts(h, f)'
    PROVE  f # local[t].uid
<1>1. local[h].call = "list" /\ local[h].pc \in Making /\ local[h].uid = f
  BY DEF Counts, Same
<1>2. ~Rests(h) /\ local[h].pc # "destroy"
  BY <1>1, Scripted DEF KnowInv, Making
<1> QED
  BY <1>1, <1>2, Served2

(* cm_setval: the user of the call is the thread's own.                        *)
LEMMA UseKnow ==
    ASSUME IInv, OwnInv, KnowInv, NEW t \in Helpers, Use(t)
    PROVE  KnowInv'
<1> DEFINE l == local[t]
           m == local'[t]
           k == l.client
<1>1. /\ Types /\ TableInv /\ l \in Record /\ t \in Threads /\ ScriptInv(t) /\ StateInv(t)
      /\ ReadInv(t) /\ PlanInv(t) /\ FoundInv(t) /\ l.pc = "use" /\ l.call # "list"
      /\ l.target \in Fds /\ SocketsDiffer /\ ClientsInv
      /\ UNCHANGED <<ctbl, socket, rc, view, fresh>>
  BY ThreadsAssumption DEF Use, IInv, Types, Threads, clients, KnowInv, OwnInv, ScriptInv,
                           ThreadInv, HelperInv
<1>2. /\ m = [l EXCEPT !.pc = "read_unlock", !.o = None]
      /\ \A u \in Threads \ {t} : local'[u] = local[u]
  BY <1>1 DEF Use, Types
<1>3. Keeps(t) /\ m.pc = "read_unlock" /\ m.target = l.target /\ m.todo = l.todo
  BY <1>1, <1>2 DEF Record, Keeps
<1>4. l.call # "remove" /\ ~Rests(t) /\ l.pc # "destroy"
  BY <1>1, NotRemoving DEF Reads, Looking
<1>5. /\ l.uid \in Fds /\ k \in Clients /\ k # None /\ ctbl[l.uid] = k
      /\ socket[l.uid] = k
  BY <1>4, Served2
<1>6. l.call \in {"NR", "LI"} =>
          /\ object'[k] = l.call /\ \A c \in Clients \ {k} : object'[c] = object[c]
  <2>1. SUFFICES ASSUME l.call \in {"NR", "LI"} PROVE l.o = k
    BY <1>1, <1>5 DEF Use, Types
  <2>2. l.target = l.uid
    BY <1>1, <2>1 DEF PlanInv, Looking
  <2> QED
    BY <1>1, <1>5, <2>2 DEF FoundInv
<1>7. l.call \notin {"NR", "LI"} => UNCHANGED object
  BY DEF Use
<1>8. l.call = "NR" => object[k] = "NL"
  BY <1>1 DEF StateInv, Looking
<1>9. l.call \in Casts => rc'[t] = 2
  BY <1>1 DEF ReadInv
<1>10. l.list = {}
  BY <1>1 DEF ScriptInv
<1> HIDE DEF l, m, k
<1>11. ScriptInv(t)'
  BY <1>1, <1>3, <1>9, <1>10 DEF ScriptInv, Keeps, Removing, l, m
<1>12. StateInv(t)'
  <2>1. l.call \in {"NR", "LI"} => l.calls # <<"NR", "watch">>
    <3>1. Left("NR") = <<"watch">> /\ Left("LI") = <<"join", "watch">>
      BY DEF Left
    <3>2. <<"watch">> # <<"NR", "watch">> /\ <<"join", "watch">> # <<"NR", "watch">>
      OBVIOUS
    <3> QED
      BY <1>1, <3>1, <3>2, NoneAssumption DEF ScriptInv, Calls, l
  <2>2. m.client = k
    BY <1>3 DEF Keeps, k, l, m
  <2> QED
    BY <1>1, <1>3, <1>6, <1>7, <2>1, <2>2 DEF StateInv, Keeps, Looking, l, m, k
<1>13. \A h \in Helpers \ {t} : Same(h) /\ local'[h].list = local[h].list
                                /\ (local[h].late => local'[h].late)
  BY <1>1, <1>2 DEF Same, Threads
<1>14. ASSUME NEW h \in Helpers \ {t}, ~Rests(h), local[h].pc # "destroy"
       PROVE  object'[local[h].client] = object[local[h].client]
  BY <1>1, <1>4, <1>5, <1>6, <1>7, <1>14, OthersDiffer, Served2 DEF l, k
<1>15. ASSUME NEW f \in Fds, f # l.uid
       PROVE  (Listed(f)' <=> Listed(f)) /\ (LoggedIn(f)' <=> LoggedIn(f))
  <2>1. ctbl[f] # None => ctbl[f] \in Clients \ {k}
    BY <1>1, <1>5, <1>15 DEF TableInv, Types
  <2> QED
    BY <1>1, <1>6, <1>7, <2>1 DEF Listed, LoggedIn
<1>16. ASSUME NEW u \in Fds, NEW f \in Fds PROVE Fine(u, f)
  <2>1. /\ Announces(t, u, f)' <=> Announces(t, u, f)
        /\ Departs(t, u)' <=> Departs(t, u)
        /\ Told(t, u, f)' <=> Told(t, u, f)
    BY <1>1, <1>3, <1>4 DEF Announces, Departs, Told, Waits, Keeps, l, m
  <2>2. (Excused(u, f) => Excused(u, f)') /\ (Parted(u, f)' => Parted(u, f))
    BY <1>1, <1>13, <2>1, SameDebts
  <2>3. CASE l.call = "LI" /\ u = l.uid
    <3>1. Announces(t, u, f)'
      BY <1>3, <2>3 DEF Announces, Keeps, l, m
    <3> QED
      BY <2>2, <3>1 DEF Fine, Excused
  <2>4. CASE ~(l.call = "LI" /\ u = l.uid)
    <3>1. Listed(u)' <=> Listed(u)
      <4>1. CASE u # l.uid
        BY <1>15, <4>1
      <4>2. CASE l.call = "NR" /\ u = l.uid
        BY <1>1, <1>5, <1>6, <1>8, <4>2 DEF Listed
      <4>3. CASE l.call \notin {"NR", "LI"}
        BY <1>1, <1>7, <4>3 DEF Listed
      <4> QED
        BY <2>4, <4>1, <4>2, <4>3
    <3> QED
      BY <2>2, <3>1 DEF Fine
  <2> QED
    BY <2>3, <2>4
<1>17. \A f \in Fds : Trusts(f)' => /\ Trusts(f) /\ view'[socket'[f]] = view[socket[f]]
                                    /\ \A u \in Fds : Fine(u, f)
  BY <1>1, <1>16 DEF Trusts
<1>18. ASSUME NEW f \in Fds, NEW h \in Helpers \ {t}, Counts(h, f)'
       PROVE  LoggedIn(f) /\ \A u \in Fds : Fine(u, f)
  <2>1. f # l.uid
    BY <1>1, <1>4, <1>13, <1>18, CountsOther DEF l
  <2>2. LoggedIn(f)'
    BY <1>18 DEF Counts
  <2> QED
    BY <1>15, <1>16, <2>1, <2>2
<1>19. SocketsDiffer' /\ ClientsInv'
  <2>1. ASSUME NEW c \in Clients, fresh'[c] PROVE object'[c] \in {"NR", "LI"}
    BY <1>1, <1>6, <1>7, <2>1 DEF ClientsInv
  <2> QED
    BY <1>1, <2>1 DEF SocketsDiffer, ClientsInv
<1> QED
  BY <1>1, <1>3, <1>11, <1>12, <1>13, <1>14, <1>17, <1>18, <1>19, LoudKnow DEF Keeps, l, m

(* cm_add: whoever had this number before has no list that counts any more.    *)
LEMMA AddKnow ==
    ASSUME IInv, OwnInv, KnowInv, NEW t \in Threads, Add(t)
    PROVE  KnowInv'
<1> DEFINE l == local[t]
           m == local'[t]
           k == l.client
<1>1. /\ Types /\ TableInv /\ l \in Record /\ ThreadInv(t) /\ HoldInv(t)
      /\ l.pc = "write" /\ t = Main /\ t \notin Helpers /\ SocketsDiffer /\ ClientsInv
      /\ UNCHANGED <<socket, rc, view, fresh>>
  BY ThreadsAssumption DEF Add, IInv, Types, OwnInv, KnowInv, clients
<1>2. k \in Clients /\ k # None /\ object[k] = "none" /\ l.calls = <<"dispatch">>
  BY <1>1, ClientsAssumption DEF ThreadInv, MainInv
<1>3. \A u \in Threads \ {t} : local'[u] = local[u]
  BY <1>1 DEF Add, Types
<1>4. ~Rests(t) /\ ~Added
  BY <1>1 DEF Rests, Added
<1>5. l.uid \in Fds /\ socket[l.uid] = k /\ ctbl[l.uid] = None
  BY <1>1, <1>4 DEF HoldInv
<1>6. /\ object'[k] = "NL" /\ \A c \in Clients \ {k} : object'[c] = object[c]
      /\ ctbl'[l.uid] = k /\ \A f \in Fds \ {l.uid} : ctbl'[f] = ctbl[f]
  BY <1>1, <1>2, <1>5 DEF Add, Types
<1>7. ~fresh[k]
  BY <1>1, <1>2 DEF ClientsInv
<1> HIDE DEF l, m, k
<1>8. \A h \in Helpers \ {t} : Same(h) /\ local'[h].list = local[h].list
                               /\ (local[h].late => local'[h].late)
  BY <1>1, <1>3 DEF Same, Threads
<1>9. ASSUME NEW h \in Helpers \ {t}, ~Rests(h), local[h].pc # "destroy"
      PROVE  object'[local[h].client] = object[local[h].client]
  BY <1>2, <1>6, <1>9, Served2 DEF Live
<1>10. ASSUME NEW f \in Fds
       PROVE  (Listed(f)' <=> Listed(f)) /\ (LoggedIn(f)' <=> LoggedIn(f))
  <2>1. CASE f = l.uid
    BY <1>2, <1>5, <1>6, <2>1 DEF Listed, LoggedIn
  <2>2. CASE f # l.uid
    <3>1. ctbl[f] # None => ctbl[f] \in Clients \ {k}
      BY <1>1, <1>2 DEF TableInv, Types, Live
    <3> QED
      BY <1>6, <2>2, <3>1 DEF Listed, LoggedIn
  <2> QED
    BY <2>1, <2>2
<1>11. ASSUME NEW u \in Fds, NEW f \in Fds PROVE Fine(u, f)
  <2>1. (Excused(u, f) => Excused(u, f)') /\ (Parted(u, f)' => Parted(u, f))
    BY <1>1, <1>8, SameDebts
  <2> QED
    BY <1>10, <2>1 DEF Fine
<1>12. ASSUME NEW f \in Fds, Trusts(f)'
       PROVE  /\ Trusts(f) /\ view'[socket'[f]] = view[socket[f]]
              /\ \A u \in Fds : Fine(u, f)
  <2>1. f # l.uid
    BY <1>1, <1>5, <1>7, <1>12 DEF Trusts
  <2> QED
    BY <1>1, <1>6, <1>11, <1>12, <2>1 DEF Trusts
<1>13. ASSUME NEW f \in Fds, NEW h \in Helpers \ {t}, Counts(h, f)'
       PROVE  LoggedIn(f) /\ \A u \in Fds : Fine(u, f)
  BY <1>10, <1>11, <1>13 DEF Counts
<1>14. SocketsDiffer' /\ ClientsInv'
  <2>1. ASSUME NEW c \in Clients, fresh'[c] PROVE object'[c] \in {"NR", "LI"}
    BY <1>1, <1>6, <1>7, <2>1 DEF ClientsInv
  <2> QED
    BY <1>1, <2>1 DEF SocketsDiffer, ClientsInv
<1> QED
  BY <1>1, <1>8, <1>9, <1>12, <1>13, <1>14, LoudKnow

(* cm_remove: everybody else has been told, and nobody hears of it now.        *)
LEMMA RemoveKnow ==
    ASSUME IInv, OwnInv, KnowInv, NEW t \in Threads, Remove(t)
    PROVE  KnowInv'
<1> DEFINE l == local[t]
           m == local'[t]
           k == l.client
<1>1. /\ Types /\ l \in Record /\ t \in Helpers /\ ScriptInv(t) /\ PlanInv(t)
      /\ l.pc = "write" /\ SocketsDiffer /\ ClientsInv
      /\ UNCHANGED <<object, socket, rc, view, fresh>>
  BY DEF Remove, IInv, Types, OwnInv, KnowInv, clients, Threads
<1>2. /\ l.call = "remove" /\ l.calls = <<>> /\ l.target = l.uid
      /\ ~Rests(t) /\ l.list = {} /\ l.victim = l.uid
  BY <1>1 DEF ScriptInv, PlanInv, Removing, Rests
<1>3. l.uid \in Fds /\ k \in Clients /\ k # None /\ ctbl[l.uid] = k
  BY <1>1, <1>2, Served2
<1>4. /\ m = [l EXCEPT !.pc = "destroy", !.o = k]
      /\ \A u \in Threads \ {t} : local'[u] = local[u]
      /\ ctbl' = [ctbl EXCEPT ![l.uid] = None]
  BY <1>1, <1>2, <1>3 DEF Remove, Types
<1>5. Keeps(t) /\ m.pc = "destroy" /\ m.todo = l.todo
  BY <1>1, <1>4 DEF Record, Keeps
<1>6. ctbl'[l.uid] = None /\ \A f \in Fds \ {l.uid} : ctbl'[f] = ctbl[f]
  BY <1>1, <1>3, <1>4 DEF Types
<1> HIDE DEF l, m, k
<1>7. ScriptInv(t)' /\ StateInv(t)'
  <2>1. None # "remove" /\ <<>> # <<"NR", "watch">>
    BY NoneAssumption DEF Calls
  <2>2. ScriptInv(t)'
    BY <1>1, <1>2, <1>5, <2>1 DEF ScriptInv, Keeps, Casts, l, m
  <2>3. StateInv(t)'
    BY <1>2, <1>5, <2>1 DEF StateInv, Keeps, l, m
  <2> QED
    BY <2>2, <2>3
<1>8. \A h \in Helpers \ {t} : Same(h) /\ local'[h].list = local[h].list
                               /\ (local[h].late => local'[h].late)
  BY <1>1, <1>4 DEF Same, Threads
<1>9. ASSUME NEW f \in Fds, f # l.uid
      PROVE  (Listed(f)' <=> Listed(f)) /\ (LoggedIn(f)' <=> LoggedIn(f))
  BY <1>1, <1>6, <1>9 DEF Listed, LoggedIn
<1>10. ASSUME NEW u \in Fds, NEW f \in Fds, f # l.uid PROVE Fine(u, f)
  <2>1. CASE u = l.uid
    <3>1. Told(t, u, f)
      BY <1>1, <1>2, <2>1 DEF Told, Departs, l
    <3>2. ~Listed(u)'
      BY <1>6, <2>1 DEF Listed
    <3> QED
      BY <1>1, <1>10, <2>1, <3>1, <3>2 DEF Fine, Parted
  <2>2. CASE u # l.uid
    <3>1. ~Announces(t, u, f) /\ ~Departs(t, u) /\ ~Told(t, u, f)'
      BY <1>2, <1>5, <2>2 DEF Announces, Departs, Told, Keeps, l, m
    <3>2. (Excused(u, f) => Excused(u, f)') /\ (Parted(u, f)' => Parted(u, f))
      BY <1>1, <1>8, <3>1, SameDebts
    <3> QED
      BY <1>9, <2>2, <3>2 DEF Fine
  <2> QED
    BY <2>1, <2>2
<1>11. ASSUME NEW f \in Fds, Trusts(f)'
       PROVE  /\ Trusts(f) /\ view'[socket'[f]] = view[socket[f]]
              /\ \A u \in Fds : Fine(u, f)
  <2>1. f # l.uid
    BY <1>1, <1>6, <1>11 DEF Trusts
  <2> QED
    BY <1>1, <1>6, <1>10, <1>11, <2>1 DEF Trusts
<1>12. ASSUME NEW f \in Fds, NEW h \in Helpers \ {t}, Counts(h, f)'
       PROVE  LoggedIn(f) /\ \A u \in Fds : Fine(u, f)
  <2>1. LoggedIn(f)'
    BY <1>12 DEF Counts
  <2>2. f # l.uid
    BY <1>6, <2>1 DEF LoggedIn
  <2> QED
    BY <1>9, <1>10, <2>1, <2>2
<1>13. SocketsDiffer' /\ ClientsInv'
  BY <1>1 DEF SocketsDiffer, ClientsInv
<1>14. m.call # "list"
  BY <1>2, <1>5 DEF Keeps, l, m
<1> QED
  BY <1>1, <1>7, <1>8, <1>11, <1>12, <1>13, <1>14, LoudKnow DEF Threads, m

(* The end of cm_remove: the client is gone, and with it what it knew.         *)
LEMMA DestroyKnow ==
    ASSUME IInv, OwnInv, KnowInv, NEW t \in Threads, Destroy(t)
    PROVE  KnowInv'
<1> DEFINE l == local[t]
           m == local'[t]
           o == l.o
<1>1. /\ Types /\ l \in Record /\ ThreadInv(t) /\ HoldInv(t) /\ l.pc = "destroy"
      /\ SocketsDiffer /\ ClientsInv
      /\ UNCHANGED <<ctbl, rc>>
  BY DEF Destroy, IInv, Types, OwnInv, KnowInv
<1>2. t # Main /\ t \in Helpers /\ PlanInv(t) /\ ScriptInv(t)
  BY <1>1 DEF ThreadInv, MainInv, Threads, OwnInv, KnowInv
<1>3. /\ l.call = "remove" /\ l.calls = <<>> /\ l.target = l.uid
      /\ ~Rests(t) /\ l.list = {} /\ l.victim = l.uid
  BY <1>1, <1>2 DEF ScriptInv, PlanInv, Removing, Rests
<1>4. l.uid \in Fds /\ o \in Clients /\ \A f \in Fds : ctbl[f] # o
  BY <1>1, <1>3 DEF ThreadInv, TakenInv, HoldInv
<1>5. /\ m = [l EXCEPT !.pc = "next", !.o = None, !.target = None]
      /\ \A u \in Threads \ {t} : local'[u] = local[u]
      /\ object' = [object EXCEPT ![o] = "freed"]
      /\ socket' = [socket EXCEPT ![l.uid] = None]
      /\ view' = [view EXCEPT ![o] = {}] /\ fresh' = [fresh EXCEPT ![o] = FALSE]
  BY <1>1, <1>3 DEF Destroy, Types
<1>6. Keeps(t) /\ m.pc = "next"
  BY <1>1, <1>5 DEF Record, Keeps
<1>7. /\ socket'[l.uid] = None /\ \A f \in Fds \ {l.uid} : socket'[f] = socket[f]
      /\ ~fresh'[o]
      /\ \A c \in Clients \ {o} : object'[c] = object[c] /\ view'[c] = view[c]
                                  /\ fresh'[c] = fresh[c]
      /\ view' \in [Clients -> SUBSET Fds] /\ fresh' \in [Clients -> BOOLEAN]
  BY <1>1, <1>4, <1>5 DEF Types, ClientsInv
<1> HIDE DEF l, m, o
<1>8. ScriptInv(t)' /\ StateInv(t)'
  <2>1. None # "remove" /\ <<>> # <<"NR", "watch">>
    BY NoneAssumption DEF Calls
  <2>2. ScriptInv(t)'
    BY <1>2, <1>3, <1>6, <2>1 DEF ScriptInv, Keeps, Casts, Removing, l, m
  <2>3. StateInv(t)'
    BY <1>3, <1>6, <2>1 DEF StateInv, Keeps, l, m
  <2> QED
    BY <2>2, <2>3
<1>9. \A h \in Helpers \ {t} : Same(h) /\ local'[h].list = local[h].list
                               /\ (local[h].late => local'[h].late)
  BY <1>1, <1>5 DEF Same, Threads
<1>10. ASSUME NEW h \in Helpers \ {t}, ~Rests(h), local[h].pc # "destroy"
       PROVE  object'[local[h].client] = object[local[h].client]
  BY <1>4, <1>7, <1>10, Served2
<1>11. ASSUME NEW f \in Fds
       PROVE  (Listed(f)' <=> Listed(f)) /\ (LoggedIn(f)' <=> LoggedIn(f))
  <2>1. ctbl[f] # None => ctbl[f] \in Clients \ {o}
    BY <1>1, <1>4 DEF Types
  <2> QED
    BY <1>1, <1>7, <2>1 DEF Listed, LoggedIn
<1>12. ASSUME NEW u \in Fds, NEW f \in Fds PROVE Fine(u, f)
  <2>1. ~Announces(t, u, f) /\ ~Departs(t, u) /\ ~Told(t, u, f)'
    BY <1>1, <1>3, <1>6 DEF Announces, Departs, Told, Keeps, l, m
  <2>2. (Excused(u, f) => Excused(u, f)') /\ (Parted(u, f)' => Parted(u, f))
    BY <1>9, <2>1, SameDebts
  <2> QED
    BY <1>11, <2>2 DEF Fine
<1>13. ASSUME NEW f \in Fds, Trusts(f)'
       PROVE  /\ Trusts(f) /\ view'[socket'[f]] = view[socket[f]]
              /\ \A u \in Fds : Fine(u, f)
  <2>1. f # l.uid
    BY <1>7, <1>13 DEF Trusts
  <2>2. socket'[f] = socket[f] /\ socket[f] # None /\ ctbl[f] = socket[f]
    BY <1>1, <1>7, <1>13, <2>1 DEF Trusts
  <2>3. socket[f] \in Clients \ {o}
    BY <1>1, <1>4, <2>2 DEF Types
  <2> QED
    BY <1>7, <1>12, <1>13, <2>2, <2>3 DEF Trusts
<1>14. ASSUME NEW f \in Fds, NEW h \in Helpers \ {t}, Counts(h, f)'
       PROVE  LoggedIn(f) /\ \A u \in Fds : Fine(u, f)
  BY <1>11, <1>12, <1>14 DEF Counts
<1>15. SocketsDiffer' /\ ClientsInv'
  <2>1. ASSUME NEW c \in Clients, fresh'[c] PROVE object'[c] \in {"NR", "LI"}
    BY <1>1, <1>7, <2>1 DEF ClientsInv
  <2> QED
    BY <1>1, <1>7, <2>1 DEF SocketsDiffer, ClientsInv
<1>16. m.call # "list"
  BY <1>3, <1>6 DEF Keeps, l, m
<1> QED
  BY <1>2, <1>8, <1>9, <1>10, <1>13, <1>14, <1>15, <1>16, LoudKnow DEF m

(* Whoever writes of a user in a notice has that user to itself.               *)
LEMMA NoticedOnce ==
    ASSUME IInv, OwnInv, KnowInv, NEW t \in Helpers, ~Rests(t), local[t].victim = None,
           \A h \in Helpers \ {t} : Same(h), local'[t].victim = None,
           NEW u \in Fds, NEW f \in Fds, local[t].uid = u
    PROVE  ~Parted(u, f)'
<1>1. t \in Threads /\ HoldInv(t)
  BY DEF Threads, OwnInv
<1>2. u # None
  BY ClientsAssumption
<1>3. ASSUME NEW h \in Helpers, Told(h, u, f)' PROVE FALSE
  <2>1. h # t
    BY <1>2, <1>3 DEF Told, Departs
  <2>2. local[h].victim = u /\ (local[h].call = "part" \/ local[h].pc \in Removing)
    BY <1>3, <2>1 DEF Told, Departs, Same, Removing
  <2>3. ScriptInv(h)
    BY DEF KnowInv
  <2>4. local[h].uid = u
    BY <1>2, <2>2, <2>3 DEF ScriptInv
  <2>5. ~Rests(h)
    BY <2>2, <2>3, Scripted
  <2> QED
    BY <1>1, <2>1, <2>4, <2>5 DEF HoldInv, Threads
<1> QED
  BY <1>3 DEF Parted

(* transaction_write to a user who may trust its list: what a notice says of   *)
(* its user is so, and a list that is being made does not count.               *)
LEMMA CastWriteKnow ==
    ASSUME IInv, OwnInv, KnowInv, NEW t \in Threads, CastWrite(t)
    PROVE  KnowInv'
<1> DEFINE l == local[t]
           m == local'[t]
           x == l.target
           late(h) == local[h].late \/ (l.call # "chat" /\ Listing(h, x))
<1>1. /\ Types /\ l \in Record /\ ThreadInv(t) /\ ReadInv(t)
      /\ l.pc = "read_unlock" /\ rc[t] = 2 /\ l.call \in Casts
      /\ SocketsDiffer /\ ClientsInv
      /\ UNCHANGED <<ctbl, object, socket, fresh>>
  BY DEF CastWrite, IInv, Types, KnowInv, ThreadInv, ReadInv
<1>2. t \in Helpers /\ ScriptInv(t) /\ StateInv(t)
  BY <1>1 DEF ThreadInv, MainInv, Threads, KnowInv
<1>3. ~Rests(t) /\ l.call # "remove" /\ x \in Fds
  BY <1>1, <1>2, NotRemoving DEF Reads, ScriptInv
<1>4. /\ l.uid \in Fds /\ l.client \in Clients /\ l.client # None /\ ctbl[l.uid] = l.client
  BY <1>1, <1>2, <1>3, Served2
<1>5. /\ m = [l EXCEPT !.pc = "cast", !.target = None] /\ rc'[t] = 1
      /\ \A h \in Threads \ {t} : local'[h] = [local[h] EXCEPT !.late = late(h)]
  BY <1>1 DEF CastWrite, Types
<1>6. Keeps(t) /\ m.pc = "cast" /\ m.target = None /\ m.todo = l.todo
  BY <1>1, <1>5 DEF Record, Keeps
<1>7. ASSUME NEW h \in Helpers \ {t}
      PROVE  /\ Same(h) /\ local'[h].list = local[h].list
             /\ local[h].late => local'[h].late
             /\ l.call # "chat" /\ Listing(h, x) => local'[h].late
  <2>1. local'[h] = [local[h] EXCEPT !.late = late(h)] /\ local[h] \in Record
    BY <1>1, <1>5 DEF Threads, Types
  <2>2. local'[h].late = late(h)
    BY <2>1 DEF Record
  <2>3. rc'[h] = rc[h]
    BY <1>1 DEF CastWrite, Types, Threads
  <2> HIDE DEF late
  <2>4. Same(h) /\ local'[h].list = local[h].list
    BY <2>1, <2>3 DEF Record, Same
  <2> QED
    BY <2>2, <2>4 DEF late
<1> DEFINE k == socket[x]
<1>8. l.call = "part" => l.victim = l.uid
  BY <1>2 DEF ScriptInv
<1>9. l.call \in {"join", "chat"} => l.victim = None
  <2>1. Left("join") = <<"watch">> /\ Left("chat") = <<"watch">>
        /\ <<"watch">> # <<"part", "remove">>
    BY DEF Left
  <2> QED
    BY <1>2, <2>1, NoneAssumption DEF ScriptInv, Calls, Casts
<1>10. /\ k # None /\ l.call = "join" => view'[k] = view[k] \cup {l.uid}
       /\ k # None /\ l.call = "part" => view'[k] = view[k] \ {l.uid}
       /\ \A c \in Clients : k # c \/ l.call = "chat" => view'[c] = view[c]
       /\ view' \in [Clients -> SUBSET Fds]
  <2>1. k \in Clients \cup {None}
    BY <1>1, <1>3 DEF Types
  <2> QED
    BY <1>1, <1>4, <1>8, <2>1 DEF CastWrite, ClientsInv, Casts
<1> HIDE DEF l, m, x, k, late
<1>11. ScriptInv(t)' /\ StateInv(t)'
  BY <1>1, <1>2, <1>3, <1>6 DEF ScriptInv, StateInv, Keeps, Making, Removing, Looking, Casts, l, m
<1>12. \A u \in Fds : (Listed(u)' <=> Listed(u)) /\ (LoggedIn(u)' <=> LoggedIn(u))
  BY <1>1 DEF Listed, LoggedIn
<1>13. ASSUME NEW u \in Fds, NEW f \in Fds, f # x \/ l.call = "chat" \/ u # l.uid
       PROVE  Fine(u, f)
  <2>0. f # None /\ u # None
    BY ClientsAssumption
  <2>1. /\ Announces(t, u, f) => Announces(t, u, f)'
        /\ Departs(t, u) <=> Departs(t, u)'
        /\ f # u /\ Told(t, u, f)' => Told(t, u, f)
    <3>1. Departs(t, u) <=> Departs(t, u)'
      BY <1>1, <1>6 DEF Departs, Keeps, l, m
    <3>2. CASE f # x
      <4>1. Waits(t, f)' <=> Waits(t, f)
        BY <1>1, <1>6, <2>0, <3>2 DEF Waits, l, m, x
      <4> QED
        BY <1>6, <3>1, <4>1 DEF Announces, Told, Keeps, l, m
    <3>3. CASE l.call = "chat" \/ u # l.uid
      <4>1. ~Announces(t, u, f)
        BY <1>1, <3>3 DEF Announces, l, Casts
      <4>2. ~Departs(t, u)
        BY <1>1, <1>3, <1>8, <2>0, <3>3 DEF Departs, l, Casts
      <4> QED
        BY <3>1, <4>1, <4>2 DEF Told
    <3> QED
      BY <1>13, <3>1, <3>2, <3>3
  <2>2. (Excused(u, f) => Excused(u, f)') /\ (Parted(u, f)' => Parted(u, f))
    BY <1>2, <1>7, <2>1, SameDebts
  <2> QED
    BY <1>12, <2>2 DEF Fine
<1>14. ASSUME NEW f \in Fds, Trusts(f)'
       PROVE  \/ /\ Trusts(f) /\ view'[socket'[f]] = view[socket[f]]
                 /\ \A u \in Fds : Fine(u, f)
              \/ \A u \in Fds : Knows(u, f)
  <2>1. Trusts(f) /\ socket[f] \in Clients /\ socket[f] # None /\ socket'[f] = socket[f]
    BY <1>1, <1>14 DEF Trusts, Types
  <2>2. CASE f # x \/ l.call = "chat"
    <3>1. k # socket[f] \/ l.call = "chat"
      BY <1>1, <1>3, <2>1, <2>2 DEF SocketsDiffer, k
    <3> QED
      BY <1>10, <1>13, <2>1, <2>2, <3>1
  <2>3. CASE f = x /\ l.call \in {"join", "part"}
    <3>1. k # None /\ k = socket[f]
      BY <2>1, <2>3 DEF k
    <3>2. ASSUME NEW u \in Fds, u # l.uid PROVE Knows(u, f)
      <4>1. /\ (u \in view[k] <=> Listed(u)) \/ Excused(u, f)
            /\ Parted(u, f) => u \notin view[k]
        BY <2>1, <3>1 DEF KnowInv, ViewsInv
      <4>3. u \in view'[k] <=> u \in view[k]
        BY <1>10, <2>3, <3>1, <3>2
      <4>4. Fine(u, f)
        BY <1>13, <3>2
      <4> QED
        BY <2>1, <3>1, <4>1, <4>3, <4>4 DEF Fine, Knows
    <3>3. ASSUME l.call = "join", NEW u \in Fds, u = l.uid PROVE Knows(u, f)
      <4>1. ~Parted(u, f)'
        BY <1>2, <1>3, <1>6, <1>7, <1>9, <3>3, NoticedOnce DEF Keeps, l, m
      <4>2. Listed(u)'
        BY <1>1, <1>2, <1>4, <3>3 DEF StateInv, Listed, l
      <4> QED
        BY <1>10, <2>1, <3>1, <3>3, <4>1, <4>2 DEF Knows
    <3>4. ASSUME l.call = "part", NEW u \in Fds, u = l.uid PROVE Knows(u, f)
      <4>1. Departs(t, u)'
        BY <1>6, <1>8, <3>4 DEF Departs, Keeps, l, m
      <4> QED
        BY <1>2, <1>10, <2>1, <3>1, <3>4, <4>1 DEF Knows, Excused
    <3> QED
      BY <1>4, <2>3, <3>2, <3>3, <3>4
  <2> QED
    BY <1>1, <2>2, <2>3 DEF Casts
<1>15. ASSUME NEW f \in Fds, NEW h \in Helpers \ {t}, Counts(h, f)'
       PROVE  LoggedIn(f) /\ \A u \in Fds : Fine(u, f)
  <2>1. /\ local[h].call = "list" /\ local[h].pc \in Making /\ local[h].uid = f
        /\ ~local'[h].late /\ LoggedIn(f)
    BY <1>7, <1>12, <1>15 DEF Counts, Same
  <2>2. f = x => Listing(h, x)
    BY <2>1 DEF Listing, Making
  <2> QED
    BY <1>7, <1>13, <2>1, <2>2
<1>16. SocketsDiffer' /\ ClientsInv'
  BY <1>1, <1>10 DEF SocketsDiffer, ClientsInv
<1>17. m.pc \notin Making
  BY <1>6 DEF Making
<1> QED
  BY <1>1, <1>2, <1>7, <1>11, <1>14, <1>15, <1>16, <1>17, LoudKnow DEF m

LEMMA StepKnow ==
    ASSUME IInv, ~crossed => OwnInv, ~crossed => KnowInv, Next, ~(crossed')
    PROVE  KnowInv'
<1>0. UNCHANGED crossed /\ ~crossed /\ OwnInv /\ KnowInv
  BY NotYet
<1>1. ASSUME NEW f \in Fds, NEW k \in Clients, Accept(f, k) PROVE KnowInv'
  BY <1>0, <1>1, AcceptKnow
<1>2. ASSUME NEW h \in Helpers,
             \/ DispatchConnect(h) \/ Handshake(h) \/ Transaction(h)
             \/ \E f \in Fds : DispatchTransaction(h, f)
      PROVE  KnowInv'
  BY <1>0, <1>2, DispatchConnectKnow, HandshakeKnow, TransactionKnow, DispatchTransactionKnow
<1>3. ASSUME NEW t \in Threads, Step(t) PROVE KnowInv'
  <2>1. CASE Begin(t) \/ End(t)
    BY <1>0, <2>1, BeginKnow, EndKnow
  <2>2. local[t].pc \in Reads => t \in Helpers
    BY DEF IInv, ThreadInv, MainInv, Reads, Looking, Threads
  <2>3. CASE ReadLock(t) \/ CastLock(t)
    <3>1. t \in Helpers
      BY <2>2, <2>3 DEF ReadLock, CastLock, rcl_read_lock, Reads, Looking
    <3> QED
      BY <1>0, <2>3, <3>1, ReadLockKnow, CastLockKnow
  <2>4. CASE Look(t) \/ Use(t) \/ ReadUnlock(t)
    <3>1. t \in Helpers
      BY <2>2, <2>4 DEF Look, Use, ReadUnlock, Reads, Looking
    <3> QED
      BY <1>0, <2>4, <3>1, LookKnow, UseKnow, ReadUnlockKnow
  <2>5. CASE ListBegin(t) \/ ListEnd(t) \/ ListReply(t) \/ CastEnd(t)
    <3>1. t \in Helpers
      BY <2>2, <2>5 DEF ListBegin, ListEnd, ListReply, CastEnd, Reads, Looking
    <3> QED
      BY <1>0, <2>5, <3>1, ListBeginKnow, EndsKnow, ListReplyKnow
  <2>6. CASE \E u \in Fds : CastTo(t, u) \/ ListUser(t, u)
    <3>1. t \in Helpers
      BY <2>2, <2>6 DEF CastTo, ListUser, Reads
    <3> QED
      BY <1>0, <2>6, <3>1, CastToKnow, ListUserKnow
  <2>7. CASE \/ CastWrite(t) \/ WriteReserve(t) \/ WriteComplete(t)
             \/ Add(t) \/ Remove(t) \/ Destroy(t)
    BY <1>0, <2>7, CastWriteKnow, WaitingKnow, AddKnow, RemoveKnow, DestroyKnow
  <2> QED
    BY <1>3, <2>1, <2>3, <2>4, <2>5, <2>6, <2>7 DEF Step
<1> QED
  BY <1>1, <1>2, <1>3 DEF Next

LEMMA StutterKnow ==
    ASSUME ~crossed => KnowInv, UNCHANGED vars
    PROVE  ~(crossed') => KnowInv'
<1>1. UNCHANGED <<ctbl, object, socket, crossed, rc, local, view, fresh>>
  BY DEF vars, data
<1>2. \A h \in Helpers, u, f \in Fds :
          /\ Announces(h, u, f)' <=> Announces(h, u, f)
          /\ Departs(h, u)' <=> Departs(h, u)
          /\ Told(h, u, f)' <=> Told(h, u, f)
  BY <1>1 DEF Announces, Departs, Told, Waits
<1>3. \A u, f \in Fds : /\ Excused(u, f)' <=> Excused(u, f)
                        /\ Parted(u, f)' <=> Parted(u, f)
  BY <1>2 DEF Excused, Parted
<1>4. \A f \in Fds : /\ LoggedIn(f)' <=> LoggedIn(f)
                     /\ Listed(f)' <=> Listed(f)
                     /\ Trusts(f)' <=> Trusts(f)
                     /\ \A h \in Helpers : Counts(h, f)' <=> Counts(h, f)
  BY <1>1 DEF LoggedIn, Listed, Trusts, Counts
<1>5. \A h \in Helpers : /\ ScriptInv(h)' <=> ScriptInv(h)
                         /\ StateInv(h)' <=> StateInv(h)
  BY <1>1 DEF ScriptInv, StateInv
<1>6. (ViewsInv' <=> ViewsInv) /\ (ListsInv' <=> ListsInv)
  BY <1>1, <1>3, <1>4 DEF ViewsInv, ListsInv
<1>7. (SocketsDiffer' <=> SocketsDiffer) /\ (ClientsInv' <=> ClientsInv)
  BY <1>1 DEF SocketsDiffer, ClientsInv
<1> QED
  BY <1>1, <1>5, <1>6, <1>7 DEF KnowInv

LEMMA KnowInvListsAgree ==
    ASSUME ~crossed => KnowInv
    PROVE  ListsAgree
<1>1. ASSUME ~crossed, NEW f \in Fds, NEW u \in Fds, Trusts(f),
             (u \in view[socket[f]]) # Listed(u)
      PROVE  \E t \in Threads : Owes(t, u, f)
  <2>1. Excused(u, f)
    <3>1. (u \in view[socket[f]] <=> Listed(u)) \/ Excused(u, f)
      BY <1>1 DEF KnowInv, ViewsInv
    <3>2. Listed(u) \in BOOLEAN
      BY DEF Listed
    <3> QED
      BY <1>1, <3>1, <3>2
  <2>2. PICK h \in Helpers : Announces(h, u, f) \/ Departs(h, u)
    BY <2>1 DEF Excused
  <2>3. Owes(h, u, f)
    BY <2>2 DEF Owes, Announces, Departs, Waits
  <2> QED
    BY <2>3 DEF Threads
<1> QED
  BY <1>1 DEF ListsAgree
-----------------------------------------------------------------------------
(* The list a client was sent and the notices since add up to the users who    *)
(* are there, but for those a helper is about to announce or to take out,      *)
(* however logins, lists, broadcasts and removals interleave, up to the first  *)
(* kick or failed handshake: cm_build_userlist, cm_transaction_broadcast,      *)
(* cm_setval and cm_remove lose no notice between them.                        *)
THEOREM ListsAddUp == Spec => []ListsAgree
<1>1. Init => IInv /\ (~crossed => OwnInv) /\ (~crossed => KnowInv)
  BY InitIInv, InitOwn, InitKnow
<1>2. IInv /\ (~crossed => OwnInv) /\ (~crossed => KnowInv) /\ [Next]_vars =>
          IInv' /\ (~crossed => OwnInv)' /\ (~crossed => KnowInv)'
  BY StepIInv, StutterIInv, StepOwn, StutterOwn, StepKnow, StutterKnow
<1>3. IInv /\ (~crossed => OwnInv) /\ (~crossed => KnowInv) => ListsAgree
  BY KnowInvListsAgree
<1> QED
  BY <1>1, <1>2, <1>3, PTL DEF Spec
=============================================================================
