-------------------------- MODULE ConnectionManager --------------------------
(* ConnectionManager.c and the life of a connection around it: the main thread *)
(* accepts a client and adds it to ctbl, helpers run its handshake and its     *)
(* transactions, and one of them removes it (connection_handler.c,             *)
(* helper_thread.c, and the calls of transaction_handler.c).  A user id is a   *)
(* descriptor number, which the system gives out again once it is closed.      *)
(* cm_lock is an RCL: a reader needs no writer to have reserved the lock, not  *)
(* even a reader that reads already.  A connection's own lock is only held     *)
(* inside a read of cm_lock, for one access, which is one step here.           *)
EXTENDS Naturals, FiniteSets, Sequences

CONSTANTS Fds,      \* the descriptor numbers
          Clients,  \* each connects once
          Helpers, Main, None,
          Environment  \* of "kick", "failed_handshake"

ASSUME ThreadsAssumption == Main \notin Helpers /\ None \notin Helpers \cup {Main}
ASSUME ClientsAssumption == IsFiniteSet(Clients) /\ None \notin Clients \cup Fds
ASSUME EnvironmentAssumption == Environment \subseteq {"kick", "failed_handshake"}

Threads == Helpers \cup {Main}

VARIABLES ctbl,    \* ctbl[f]: the connection object of user f, or None
          object,  \* object[c]: the object allocated when client c was accepted
          socket,  \* socket[f]: the client whose socket number f is, or None
          watched, \* the users the main thread polls for transactions
          entry,   \* the writer that holds cm_lock's entry_lock, or None
          rc,      \* rc[t]: how many times thread t reads cm_lock
          local,   \* what each thread is doing
          crossed, \* history: a kick or a failed handshake has begun, which close a
                   \* number its user may be served under, or a later user's
          view,    \* view[c]: the users that what was written to client c adds up to
          fresh    \* history: c has a user list, and it was right when c got it

clients == <<view, fresh>>
data == <<ctbl, object, socket, watched, crossed, view, fresh>>
vars == <<data, entry, rc, local>>

(* CSTATE_NL, CSTATE_NR (logged in, not yet announced) and CSTATE_LI. *)
Cstates == {"none", "NL", "NR", "LI", "freed"}
Casts == {"join", "part", "chat"}

(* A thread serves uid, the user it was dispatched for, who was then client.   *)
(* It has calls left to make, and call is the last it has begun: to set uid's  *)
(* state to NR or LI, to broadcast, to list the users, to remove the victim,   *)
(* to close or to watch uid.  target and o are the user and the object of that *)
(* call, todo the users its traversal has left, list the entries it has made,  *)
(* and late says that they may be wrong by the time they are sent (history).   *)
Calls == Casts \cup {"add", "NR", "LI", "list", "remove", "close", "watch", "dispatch"}

ASSUME NoneAssumption == None \notin Calls

Local == [pc : {"idle", "handshake", "transaction", "next", "read_lock", "look", "use",
                "read_unlock", "cast_lock", "cast", "list", "reply", "write_lock",
                "complete", "write", "destroy"},
          uid : Fds \cup {None}, client : Clients \cup {None},
          calls : UNION {[1 .. n -> Calls] : n \in 0 .. 3}, call : Calls \cup {None},
          victim : Fds \cup {None}, target : Fds \cup {None},
          o : Clients \cup {None}, todo : SUBSET Fds, list : SUBSET Fds, late : BOOLEAN]
Idle == [pc |-> "idle", uid |-> None, client |-> None, calls |-> <<>>, call |-> None,
         victim |-> None, target |-> None, o |-> None, todo |-> {}, list |-> {},
         late |-> FALSE]
Serve(pc, f, k) == [Idle EXCEPT !.pc = pc, !.uid = f, !.client = k]

Init == /\ ctbl = [f \in Fds |-> None]
        /\ object = [k \in Clients |-> "none"]
        /\ socket = [f \in Fds |-> None]
        /\ watched = {}
        /\ entry = None
        /\ rc = [t \in Threads |-> 0]
        /\ local = [t \in Threads |-> Idle]
        /\ crossed = FALSE
        /\ view = [k \in Clients |-> {}]
        /\ fresh = [k \in Clients |-> FALSE]

-------------------------------------------------------------------------------
(* The main thread and the sockets. *)

(* A client nobody has seen gets any number that is free. *)
Accept(f, k) ==
    /\ local[Main].pc = "idle"
    /\ socket[f] = None /\ object[k] = "none" /\ \A g \in Fds : socket[g] # k
    /\ socket' = [socket EXCEPT ![f] = k]
    /\ local' = [local EXCEPT ![Main] =
                    [Serve("next", f, k) EXCEPT !.calls = <<"add", "dispatch">>]]
    /\ UNCHANGED <<ctbl, object, watched, entry, rc, crossed, clients>>

(* The new user goes to a helper for its handshake. *)
DispatchConnect(h) ==
    LET m == local[Main] IN
    /\ m.pc = "next" /\ m.calls # <<>> /\ Head(m.calls) = "dispatch"
    /\ local[h].pc = "idle"
    /\ local' = [local EXCEPT ![h] = Serve("handshake", m.uid, m.client),
                              ![Main] = Idle]
    /\ UNCHANGED <<data, entry, rc>>

\* mutant: the connection stays watched while it is served
DispatchTransactionWatched(h, f) ==
    /\ local[Main].pc = "idle" /\ f \in watched
    /\ local[h].pc = "idle"
    /\ local' = [local EXCEPT ![h] = Serve("transaction", f, socket[f])]
    /\ UNCHANGED <<data, entry, rc>>

(* A user with a transaction to read is no longer watched, and has a helper. *)
DispatchTransaction(h, f) ==
    /\ local[Main].pc = "idle" /\ f \in watched
    /\ local[h].pc = "idle"
    /\ watched' = watched \ {f}
    /\ local' = [local EXCEPT ![h] = Serve("transaction", f, socket[f])]
    /\ UNCHANGED <<ctbl, object, socket, entry, rc, crossed, clients>>

-------------------------------------------------------------------------------
(* What a helper has to do. *)

Plan(h, calls, victim) ==
    /\ local' = [local EXCEPT ![h] =
                    [@ EXCEPT !.pc = "next", !.calls = calls, !.victim = victim]]
    /\ UNCHANGED <<ctbl, object, socket, watched, entry, rc, clients>>

(* ht_control_connect: a handshake that fails closes the number twice, once in *)
(* cm_remove and once after it.                                                *)
Handshake(h) ==
    /\ local[h].pc = "handshake"
    /\ \/ Plan(h, <<"watch">>, None) /\ UNCHANGED crossed
       \/ /\ "failed_handshake" \in Environment
          /\ Plan(h, <<"remove", "close">>, local[h].uid)
          /\ crossed' = TRUE

LoggedIn(f) == ctbl[f] # None /\ object[ctbl[f]] \in {"NR", "LI"}
Listed(f) == ctbl[f] # None /\ object[ctbl[f]] = "LI"
Serves(h) == local[h].pc = "transaction" /\ socket[local[h].uid] # None

(* The client is gone or breaks the protocol, or the number is closed already. *)
ht_control_disconnect(h) ==
    /\ local[h].pc = "transaction" /\ Plan(h, <<"part", "remove">>, local[h].uid)
    /\ UNCHANGED crossed

(* A login is refused to whoever has logged in, and for a wrong password. *)
txn_login(h) ==
    /\ Serves(h)
    /\ \/ ~LoggedIn(local[h].uid) /\ Plan(h, <<"NR", "watch">>, None)
       \/ Plan(h, <<"watch">>, None)
    /\ UNCHANGED crossed

\* mutant: the new user is announced before he can be listed
txn_info_announced(h) ==
    /\ Serves(h)
    /\ IF LoggedIn(local[h].uid) THEN Plan(h, <<"join", "LI", "watch">>, None)
                                 ELSE Plan(h, <<"watch">>, None)
    /\ UNCHANGED crossed

(* A user who has logged in can be listed from now on, and everybody hears of  *)
(* him: for the first time, or again under a new nickname.                     *)
txn_info(h) ==
    /\ Serves(h)
    /\ IF LoggedIn(local[h].uid) THEN Plan(h, <<"LI", "join", "watch">>, None)
                                 ELSE Plan(h, <<"watch">>, None)
    /\ UNCHANGED crossed

(* The list is for everybody, logged in or not. *)
txn_userlist(h) == Serves(h) /\ Plan(h, <<"list", "watch">>, None) /\ UNCHANGED crossed

txn_send_chat(h) == /\ Serves(h) /\ LoggedIn(local[h].uid)
                    /\ Plan(h, <<"chat", "watch">>, None)
                    /\ UNCHANGED crossed

txn_kick_user(h) ==
    /\ "kick" \in Environment /\ Serves(h) /\ LoggedIn(local[h].uid)
    /\ crossed' = TRUE
    /\ \E u \in Fds \ {local[h].uid} :
           LoggedIn(u) /\ Plan(h, <<"part", "remove", "watch">>, u)

(* ht_transaction *)
Transaction(h) == \/ ht_control_disconnect(h) \/ txn_login(h) \/ txn_info(h)
                  \/ txn_userlist(h) \/ txn_send_chat(h) \/ txn_kick_user(h)

Begin(t) ==
    LET l == local[t]
        Go(pc, target) == local' = [local EXCEPT ![t] =
            [l EXCEPT !.pc = pc, !.call = Head(l.calls), !.calls = Tail(l.calls),
                      !.target = target]]
    IN
    /\ l.pc = "next" /\ l.calls # <<>>
    /\ UNCHANGED <<ctbl, object, entry, rc, crossed, clients>>
    /\ \/ /\ Head(l.calls) \in {"NR", "LI", "list"} /\ Go("read_lock", l.uid)
          /\ UNCHANGED <<socket, watched>>
       \/ /\ Head(l.calls) \in Casts /\ Go("cast_lock", None)
          /\ UNCHANGED <<socket, watched>>
       \/ /\ Head(l.calls) \in {"add", "remove"}
          /\ Go("write_lock", IF Head(l.calls) = "add" THEN l.uid ELSE l.victim)
          /\ UNCHANGED <<socket, watched>>
       \/ /\ Head(l.calls) = "close" /\ Go("next", None)
          /\ socket' = [socket EXCEPT ![l.uid] = None]
          /\ UNCHANGED watched
       \/ /\ Head(l.calls) = "watch" /\ Go("next", None)
          /\ watched' = watched \cup {l.uid}
          /\ UNCHANGED socket

End(t) == /\ local[t].pc = "next" /\ local[t].calls = <<>>
          /\ local' = [local EXCEPT ![t] = Idle]
          /\ UNCHANGED <<data, entry, rc>>

-------------------------------------------------------------------------------
(* cm_setval, and cm_get_taskno within a broadcast. *)

rcl_read_lock(t, from, to) ==
    /\ local[t].pc = from
    /\ entry = None
    /\ rc' = [rc EXCEPT ![t] = @ + 1]
    /\ local' = [local EXCEPT ![t] = to]
    /\ UNCHANGED <<data, entry>>

ReadLock(t) == rcl_read_lock(t, "read_lock", [local[t] EXCEPT !.pc = "look"])

Look(t) ==
    LET o == ctbl[local[t].target] IN
    /\ local[t].pc = "look" /\ local[t].call # "list"
    /\ local' = [local EXCEPT ![t].pc = IF o = None THEN "read_unlock" ELSE "use",
                              ![t].o = o]
    /\ UNCHANGED <<data, entry, rc>>

Use(t) ==
    LET l == local[t] IN
    /\ l.pc = "use"
    /\ object' = IF l.call \in {"NR", "LI"} THEN [object EXCEPT ![l.o] = l.call]
                 ELSE object
    /\ local' = [local EXCEPT ![t].pc = "read_unlock", ![t].o = None]
    /\ UNCHANGED <<ctbl, socket, watched, entry, rc, crossed, clients>>

(* On to the next call, or to the reply that the list is for. *)
ReadUnlock(t) ==
    /\ local[t].pc = "read_unlock" /\ rc[t] = 1
    /\ rc' = [rc EXCEPT ![t] = 0]
    /\ local' = [local EXCEPT ![t].pc = IF local[t].call = "list" THEN "reply" ELSE "next",
                              ![t].target = None]
    /\ UNCHANGED <<data, entry>>

-------------------------------------------------------------------------------
(* cm_build_userlist and the reply.  Whoever is removing a user has told the   *)
(* others already, or is about to.                                             *)

Leaving(u) == \E t \in Threads : local[t].victim = u

Listing(t, f) == local[t].call = "list" /\ local[t].pc # "next" /\ local[t].uid = f

ListBegin(t) ==
    /\ local[t].pc = "look" /\ local[t].call = "list"
    /\ local' = [local EXCEPT ![t].pc = "list", ![t].todo = {f \in Fds : ctbl[f] # None}]
    /\ UNCHANGED <<data, entry, rc>>

(* cm_userlist_iterator *)
ListUser(t, u) ==
    /\ local[t].pc = "list" /\ u \in local[t].todo
    /\ local' = [local EXCEPT ![t].todo = @ \ {u},
                              ![t].list = IF Listed(u) THEN @ \cup {u} ELSE @,
                              ![t].late = @ \/ Leaving(u)]
    /\ UNCHANGED <<data, entry, rc>>

ListEnd(t) == /\ local[t].pc = "list" /\ local[t].todo = {}
              /\ local' = [local EXCEPT ![t].pc = "read_unlock"]
              /\ UNCHANGED <<data, entry, rc>>

(* The client forgets what it was told before. *)
ListReply(t) ==
    LET l == local[t] IN
    /\ l.pc = "reply"
    /\ IF socket[l.uid] = None THEN UNCHANGED clients
       ELSE LET k == socket[l.uid] IN
            /\ view' = [view EXCEPT ![k] = l.list]
            /\ fresh' = [fresh EXCEPT ![k] = ~l.late /\ LoggedIn(l.uid)]
    /\ local' = [local EXCEPT ![t].pc = "next", ![t].list = {}, ![t].late = FALSE]
    /\ UNCHANGED <<ctbl, object, socket, watched, crossed, entry, rc>>

-------------------------------------------------------------------------------
(* cm_transaction_broadcast.  It reads cm_lock from beginning to end, and      *)
(* once more in cm_get_taskno for every user it writes to.                     *)

CastLock(t) == rcl_read_lock(t, "cast_lock",
    [local[t] EXCEPT !.pc = "cast", !.todo = {f \in Fds : ctbl[f] # None}])

\* mutant: users who have not been announced themselves are passed over
PassedUnannounced(t, u) == u = local[t].victim \/ ~Listed(u)

(* broadcast_iterator passes over the user who is leaving and who has not      *)
(* logged in.                                                                  *)
Passed(t, u) == u = local[t].victim \/ object[ctbl[u]] = "NL"

CastTo(t, u) ==
    /\ local[t].pc = "cast" /\ u \in local[t].todo
    /\ local' = [local EXCEPT ![t].todo = @ \ {u},
                              ![t].pc = IF Passed(t, u) THEN "cast" ELSE "read_lock",
                              ![t].target = IF Passed(t, u) THEN None ELSE u]
    /\ UNCHANGED <<data, entry, rc>>

(* transaction_write, once cm_get_taskno has let go of its read of the lock: a  *)
(* client puts the user on its list or takes it off.  A list that is being made *)
(* for the client, or waits to be sent, will undo that.                         *)
CastWrite(t) ==
    LET l == local[t]
        k == socket[l.target]
        about == IF l.call = "part" THEN l.victim ELSE l.uid
    IN
    /\ l.pc = "read_unlock" /\ rc[t] = 2
    /\ rc' = [rc EXCEPT ![t] = 1]
    /\ view' = IF k = None \/ l.call = "chat" THEN view
               ELSE [view EXCEPT ![k] = IF l.call = "join" THEN @ \cup {about}
                                        ELSE @ \ {about}]
    /\ local' = [u \in Threads |->
          IF u = t THEN [l EXCEPT !.pc = "cast", !.target = None]
          ELSE [local[u] EXCEPT !.late = @ \/ (l.call # "chat" /\ Listing(u, l.target))]]
    /\ UNCHANGED <<ctbl, object, socket, watched, crossed, fresh, entry>>

CastEnd(t) == /\ local[t].pc = "cast" /\ local[t].todo = {}
              /\ local' = [local EXCEPT ![t].pc = "read_unlock"]
              /\ UNCHANGED <<data, entry, rc>>

-------------------------------------------------------------------------------
(* cm_add and cm_remove. *)

WriteReserve(t) == /\ local[t].pc = "write_lock" /\ entry = None
                   /\ entry' = t
                   /\ local' = [local EXCEPT ![t].pc = "complete"]
                   /\ UNCHANGED <<data, rc>>

\* mutant: the writer does not wait for the readers
WriteCompleteUntested(t) == /\ local[t].pc = "complete"
                            /\ local' = [local EXCEPT ![t].pc = "write"]
                            /\ UNCHANGED <<data, entry, rc>>

WriteComplete(t) == /\ local[t].pc = "complete" /\ \A u \in Threads : rc[u] = 0
                    /\ local' = [local EXCEPT ![t].pc = "write"]
                    /\ UNCHANGED <<data, entry, rc>>

(* collection_insert refuses a number that is in the table; its answer is      *)
(* ignored, and the object is lost.                                            *)
Add(t) ==
    LET l == local[t] IN
    /\ l.pc = "write" /\ t = Main
    /\ object' = [object EXCEPT ![l.client] = "NL"]
    /\ ctbl' = [ctbl EXCEPT ![l.uid] = IF @ = None THEN l.client ELSE @]
    /\ entry' = None
    /\ local' = [local EXCEPT ![t].pc = "next", ![t].target = None]
    /\ UNCHANGED <<socket, watched, rc, crossed, clients>>

Remove(t) ==
    LET o == ctbl[local[t].target] IN
    /\ local[t].pc = "write" /\ t # Main
    /\ ctbl' = [ctbl EXCEPT ![local[t].target] = None]
    /\ entry' = None
    /\ local' = [local EXCEPT ![t].pc = IF o = None THEN "next" ELSE "destroy",
                              ![t].o = o]
    /\ UNCHANGED <<object, socket, watched, rc, crossed, clients>>

(* The rest of cm_remove: the object is freed, and the number closed. *)
Destroy(t) ==
    LET l == local[t] IN
    /\ l.pc = "destroy"
    /\ object' = [object EXCEPT ![l.o] = "freed"]
    /\ socket' = [socket EXCEPT ![l.target] = None]
    /\ local' = [local EXCEPT ![t].pc = "next", ![t].o = None, ![t].target = None]
    /\ view' = [view EXCEPT ![l.o] = {}]
    /\ fresh' = [fresh EXCEPT ![l.o] = FALSE]
    /\ UNCHANGED <<ctbl, watched, entry, rc, crossed>>

-------------------------------------------------------------------------------
Step(t) == \/ Begin(t) \/ End(t)
           \/ ReadLock(t) \/ Look(t) \/ Use(t) \/ ReadUnlock(t)
           \/ ListBegin(t) \/ ListEnd(t) \/ ListReply(t)
           \/ CastLock(t) \/ CastWrite(t) \/ CastEnd(t)
           \/ \E u \in Fds : CastTo(t, u) \/ ListUser(t, u)
           \/ WriteReserve(t) \/ WriteComplete(t) \/ Add(t) \/ Remove(t) \/ Destroy(t)

Next == \/ \E f \in Fds, k \in Clients : Accept(f, k)
        \/ \E h \in Helpers : \/ DispatchConnect(h) \/ Handshake(h) \/ Transaction(h)
                             \/ \E f \in Fds : DispatchTransaction(h, f)
        \/ \E t \in Threads : Step(t)

Spec == Init /\ [][Next]_vars

(* A thread in a call goes on with it. *)
FairSpec == Spec /\ \A t \in Threads : WF_vars(Step(t))

-------------------------------------------------------------------------------
(* The types of the variables. *)
TypeOK == /\ ctbl \in [Fds -> Clients \cup {None}]
          /\ object \in [Clients -> Cstates]
          /\ socket \in [Fds -> Clients \cup {None}]
          /\ watched \subseteq Fds
          /\ entry \in Threads \cup {None}
          /\ rc \in [Threads -> 0 .. 2]
          /\ local \in [Threads -> Local]
          /\ crossed \in BOOLEAN
          /\ view \in [Clients -> SUBSET Fds]
          /\ fresh \in [Clients -> BOOLEAN]

(* The object a thread has looked up is allocated until it is done with it,    *)
(* whoever removes the user meanwhile: cm_remove frees an object only once no  *)
(* reader that could have found it is left.  No object is freed twice, and     *)
(* none that is being freed is in the table.                                   *)
NoUseAfterFree ==
    /\ \A t \in Threads : local[t].pc \in {"use", "destroy"} =>
                             object[local[t].o] \in {"NL", "NR", "LI"}
    /\ \A t \in Threads : local[t].pc \in {"cast", "list"} =>
           \A u \in local[t].todo : ctbl[u] # None /\ object[ctbl[u]] \in {"NL", "NR", "LI"}
    /\ \A t, u \in Threads : local[t].pc = "destroy" =>
           /\ local[t].o \notin {ctbl[f] : f \in Fds}
           /\ t # u /\ local[u].pc = "destroy" => local[t].o # local[u].o

(* While a helper serves a user, the number is still that client's, and so is  *)
(* the object in the table: what it reads, writes and sets is its own client's *)
(* and no later one's, and a handshake meets a user who has not logged in.     *)
(* The code keeps this up to the first kick or failed handshake, through every *)
(* order of disconnects and reused numbers.                                    *)
OwnConnection == ~crossed => \A h \in Helpers :
    LET l == local[h] IN
    /\ l.pc \in {"handshake", "transaction", "read_lock", "look", "use", "cast"} =>
           socket[l.uid] = l.client /\ ctbl[l.uid] = l.client
    /\ l.pc = "handshake" => object[l.client] = "NL"

(* Thread t has still to tell user f that u is there, or has yet to take u, who *)
(* has been taken leave of, out of the table.                                   *)
Owes(t, u, f) ==
    LET l == local[t]
        waits == l.pc = "cast_lock" \/ f \in l.todo \/ l.target = f
    IN
    \/ l.uid = u /\ (l.call = "LI" \/ (l.call = "join" /\ waits))
    \/ l.victim = u /\ l.call \in {"part", "remove"}

(* The client with number f has a list that was right when it came. *)
Trusts(f) == socket[f] # None /\ ctbl[f] = socket[f] /\ fresh[socket[f]]

(* The users a client knows from its list and from the notices since are those *)
(* who are there, but for the ones a helper is about to announce: no broadcast *)
(* is lost between a list and the next, however they interleave.  The code     *)
(* does not promise more for a list that a broadcast overtakes (the entries    *)
(* are read under cm_lock and written after it), that meets a user between his *)
(* parting notice and his removal, or that is sent to a user before his login, *)
(* who gets no notices; such a list stays wrong, and fresh leaves it out.      *)
ListsAgree == ~crossed => \A f, u \in Fds :
    Trusts(f) /\ (u \in view[socket[f]]) # Listed(u) => \E t \in Threads : Owes(t, u, f)

(* "rcl_write_lock() will block until the last thread performing a read        *)
(* operation has called rcl_read_unlock()": a thread that adds or removes a    *)
(* user gets in.                                                               *)
WriterGetsIn == \A t \in Threads :
    local[t].pc = "complete" ~> local[t].pc # "complete"
==============================================================================
